---------------------------- MODULE CaPmt_proofs ----------------------------
(* Theorems of CaPmt, for any number of slots, any lists and any plans; of *)
(* PmtFrames and PmtBuild, for every length and every program; and of what *)
(* CaPmtSent says of the CA PMTs that are sent.                            *)
EXTENDS CaPmtSent, SequenceTheorems, WellFoundedInduction, TLAPS

LEMMA FollowingSlot == ASSUME NEW s \in Slot PROVE Following(s) \in Slot
  BY CaPmtAssumption DEF Following, Slot

LEMMA KeptIds ==
  ASSUME NEW s \in Slot, NEW q \in Announced[s]
  PROVE  q \in Seq(CaId) /\ q # None
  BY CaPmtAssumption DEF Slot

LEMMA TodoPrograms ==
  ASSUME TypeOK, NEW s \in Slot, plan[s] # None
  PROVE  /\ Len(Todo(s)) \in Nat \ {0}
         /\ \A k \in 1..Len(Todo(s)) : Todo(s)[k] \in Program
  <1>1. plan[s] \in Seq(Program) /\ last[s] \in Program
    BY CaPmtAssumption DEF TypeOK, Slot
  <1>2. CASE Stopping(s)
    BY <1>1, <1>2 DEF Todo
  <1>3. CASE ~Stopping(s)
    BY <1>1, <1>3 DEF Todo, Stopping
  <1> QED BY <1>2, <1>3

-----------------------------------------------------------------------------
(* Types. *)

\* While programs are matched and sent there is a plan, and k is one of them.
InPlan ==
  pmt.pc \in {"match", "send"} =>
    /\ plan[pmt.slot] # None
    /\ pmt.k \in 1..Len(Todo(pmt.slot))

\* What is being taken over was announced in this session.
Announcing ==
  mon.busy => /\ session[mon.slot]
              /\ ids[mon.slot] # None
              /\ mon.done <= Len(ids[mon.slot])

TInv == TypeOK /\ InPlan /\ Announcing

LEMMA Types == Spec => []TInv
<1>1. Init => TInv
  BY CaPmtAssumption DEF Init, TInv, TypeOK, InPlan, Announcing, Slot, Entry
<1>2. TInv /\ [Next]_vars => TInv'
  <2> SUFFICES ASSUME TInv, [Next]_vars PROVE TInv'
    OBVIOUS
  <2> USE DEF TInv
  <2>1. CASE UNCHANGED vars
    BY <2>1 DEF vars, TypeOK, InPlan, Announcing, Todo, Stopping
  <2>2. ASSUME NEW s \in Slot, Connect(s) PROVE TInv'
    BY <2>2 DEF Connect, TypeOK, InPlan, Announcing, Todo, Stopping
  <2>3. ASSUME NEW s \in Slot, Close(s) PROVE TInv'
    BY <2>3 DEF Close, TypeOK, InPlan, Announcing, Todo, Stopping
  <2>4. ASSUME NEW s \in Slot, ModuleRemoved(s) PROVE TInv'
    BY <2>4 DEF ModuleRemoved, TypeOK, InPlan, Announcing, Todo, Stopping
  <2>5. ASSUME NEW s \in Slot, CaInfo(s) PROVE TInv'
    <3>1. PICK q \in Announced[s] : ids' = [ids EXCEPT ![s] = q]
      BY <2>5 DEF CaInfo
    <3> QED BY <2>5, <3>1, KeptIds DEF CaInfo, TypeOK, InPlan, Announcing, Todo, Stopping
  <2>6. CASE StoreId
    <3>1. ids[mon.slot] \in Seq(CaId) /\ mon.slot \in Slot /\ mon.done \in Nat
      BY <2>6 DEF StoreId, Announcing, TypeOK
    <3>2. ids[mon.slot][mon.done + 1] \in CaId
      BY <3>1, <2>6 DEF StoreId
    <3>3. mon'.done \in Nat /\ mon'.done <= Len(ids[mon.slot])
      BY <2>6, <3>1 DEF StoreId, TypeOK
    <3> QED BY <2>6, <3>1, <3>2, <3>3 DEF StoreId, TypeOK, InPlan, Announcing, Todo, Stopping
  <2>7. CASE CaOk
    BY <2>7 DEF CaOk, TypeOK, InPlan, Announcing, Todo, Stopping
  <2>8. CASE Look
    BY <2>8, FollowingSlot DEF Look, TypeOK, InPlan, Announcing, Todo, Stopping
  <2>9. CASE ReadPlan
    <3>1. CASE \E q \in Plans[pmt.slot] :
                 /\ plan' = [plan EXCEPT ![pmt.slot] = q]
                 /\ pmt' = [pmt EXCEPT !.pc = "match", !.k = 1]
      <4>1. PICK q \in Plans[pmt.slot] :
                 /\ plan' = [plan EXCEPT ![pmt.slot] = q]
                 /\ pmt' = [pmt EXCEPT !.pc = "match", !.k = 1]
        BY <3>1
      <4>2. TypeOK' /\ Announcing'
        <5>1. q \in Seq(Program)
          BY CaPmtAssumption DEF TypeOK, Slot
        <5>2. UNCHANGED <<session, list, flag, last, mon, ids, cam>>
          BY <2>9 DEF ReadPlan
        <5>3. plan' \in [Slot -> {None} \cup Seq(Program)]
          BY <4>1, <5>1 DEF TypeOK
        <5>4. pmt' \in [pc : {"match"}, slot : Slot, k : {1}, matched : SUBSET CaId]
          BY <4>1 DEF TypeOK
        <5> QED BY <5>2, <5>3, <5>4 DEF TypeOK, Announcing
      <4>3. pmt'.slot \in Slot /\ plan'[pmt'.slot] # None /\ pmt'.k = 1
        BY <4>1, CaPmtAssumption DEF TypeOK, Slot
      <4>4. Len(Todo(pmt.slot))' \in Nat \ {0}
        <5>1. plan'[pmt'.slot] \in Seq(Program)
          BY <4>2, <4>3, CaPmtAssumption DEF TypeOK, Slot
        <5> QED BY <5>1 DEF Todo, Stopping
      <4>5. InPlan'
        BY <4>3, <4>4 DEF InPlan, Todo, Stopping
      <4> QED BY <4>2, <4>5
    <3>2. CASE /\ plan' = [plan EXCEPT ![pmt.slot] = None]
               /\ pmt' = [pmt EXCEPT !.pc = "clear"]
      BY <3>2, <2>9 DEF ReadPlan, TypeOK, InPlan, Announcing
    <3> QED BY <2>9, <3>1, <3>2 DEF ReadPlan
  <2>10. CASE Match
    BY <2>10, CaPmtAssumption DEF Match, TypeOK, InPlan, Announcing, Todo, Stopping
  <2>11. CASE Send
    <3> DEFINE s == pmt.slot
               p == Todo(s)[pmt.k]
               e == [prog |-> p, systems |-> pmt.matched, stop |-> Stopping(s)]
    <3>1. s \in Slot /\ plan[s] # None /\ pmt.k \in 1..Len(Todo(s))
      BY <2>11 DEF Send, TypeOK, InPlan
    <3>2. p \in Program /\ Len(Todo(s)) \in Nat \ {0}
      BY <3>1, TodoPrograms
    <3>3. e \in Entry
      BY <3>2 DEF Entry, TypeOK, Stopping
    <3>4. last' \in [Slot -> Program]
      BY <2>11, <3>2 DEF Send, TypeOK
    <3>5. cam' \in [Slot -> SUBSET Entry]
      <4>1. \A m : Received(cam[s], m, e) \subseteq Entry
        BY <3>1, <3>3 DEF Received, TypeOK
      <4>2. cam' = cam \/ \E m : cam' = [cam EXCEPT ![s] = Received(cam[s], m, e)]
        BY <2>11 DEF Send
      <4> HIDE DEF e
      <4> QED BY <4>1, <4>2, <3>1 DEF TypeOK
    <3>6. /\ pmt' \in [pc : {"match", "clear"}, slot : Slot, k : Nat \ {0}, matched : SUBSET CaId]
          /\ pmt'.slot = s
          /\ pmt'.pc = "match" => pmt'.k \in 1..Len(Todo(s))
      <4>1. pmt' = IF pmt.k < Len(Todo(s))
                   THEN [pmt EXCEPT !.pc = "match", !.k = @ + 1]
                   ELSE [pmt EXCEPT !.pc = "clear"]
        BY <2>11 DEF Send
      <4>2. /\ DOMAIN pmt = {"pc", "slot", "k", "matched"}
            /\ pmt = [pc |-> pmt.pc, slot |-> s, k |-> pmt.k, matched |-> pmt.matched]
            /\ s \in Slot /\ pmt.k \in Nat \ {0} /\ pmt.matched \in SUBSET CaId
        BY DEF TypeOK
      <4>3. CASE pmt.k < Len(Todo(s))
        <5>1. pmt' = [pc |-> "match", slot |-> s, k |-> pmt.k + 1, matched |-> pmt.matched]
          BY <4>1, <4>2, <4>3
        <5>2. pmt.k + 1 \in Nat \ {0} /\ pmt.k + 1 \in 1..Len(Todo(s))
          BY <4>2, <4>3, <3>1, <3>2
        <5> QED BY <4>2, <5>1, <5>2
      <4>4. CASE ~(pmt.k < Len(Todo(s)))
        <5>1. pmt' = [pc |-> "clear", slot |-> s, k |-> pmt.k, matched |-> pmt.matched]
          BY <4>1, <4>2, <4>4
        <5> QED BY <4>2, <5>1
      <4> QED BY <4>3, <4>4
    <3>7. Todo(s)' = Todo(s) \/ Stopping(s)
      BY <2>11 DEF Send, Todo, Stopping
    <3>8. Stopping(s) => pmt'.pc = "clear"
      BY <2>11, <3>1 DEF Send, Todo, TypeOK
    <3>9. TypeOK'
      BY <2>11, <3>4, <3>5, <3>6 DEF Send, TypeOK
    <3>10. InPlan'
      <4> SUFFICES ASSUME pmt'.pc = "match"
                   PROVE  plan'[pmt'.slot] # None /\ pmt'.k \in 1..Len(Todo(s)')
        BY <3>6 DEF InPlan
      <4> QED BY <2>11, <3>1, <3>6, <3>7, <3>8 DEF Send
    <3>11. Announcing'
      BY <2>11 DEF Send, Announcing
    <3> QED BY <3>9, <3>10, <3>11
  <2>12. CASE ClearRequest
    BY <2>12, FollowingSlot DEF ClearRequest, TypeOK, InPlan, Announcing
  <2> QED BY <2>1, <2>2, <2>3, <2>4, <2>5, <2>6, <2>7, <2>8, <2>9, <2>10, <2>11, <2>12
          DEF Next, Handling, Process
<1> QED BY <1>1, <1>2, PTL DEF Spec

(* Every variable of CA PMT selection keeps its type, whatever modules     *)
(* announce and whatever is configured.                                    *)
THEOREM TypeCorrect == Spec => []TypeOK
BY Types, PTL DEF TInv

-----------------------------------------------------------------------------
(* The list holds what the module announced. *)

SessionOpen == \A s \in Slot : ids[s] # None => session[s]

\* The first n ids of an announcement, as far as there is room.
KeptOf(q, n) == {q[i] : i \in {j \in 1..n : HasRoom(j - 1)}}

Copying == mon.busy => list[mon.slot] = KeptOf(ids[mon.slot], mon.done)

Copied ==
  \A s \in Slot : ids[s] # None /\ ~Rebuilding(s) => list[s] = Kept(ids[s])

ListInv == SessionOpen /\ Copying /\ Copied

LEMMA KeptAll == \A q : Kept(q) = KeptOf(q, Len(q))
  BY DEF Kept, KeptOf

LEMMA KeptNone == \A q : KeptOf(q, 0) = {}
  BY DEF KeptOf

LEMMA KeptMore ==
  ASSUME NEW q, NEW n \in Nat
  PROVE  KeptOf(q, n + 1) = IF HasRoom(n) THEN KeptOf(q, n) \cup {q[n + 1]} ELSE KeptOf(q, n)
  <1>1. 1..(n + 1) = (1..n) \cup {n + 1} /\ (n + 1) - 1 = n
    OBVIOUS
  <1> QED BY <1>1 DEF KeptOf

LEMMA ListStep == TInv /\ ListInv /\ [Next]_vars => ListInv'
  <1> SUFFICES ASSUME TInv, ListInv, [Next]_vars PROVE ListInv'
    OBVIOUS
  <1> USE DEF ListInv
  <1>1. CASE UNCHANGED vars
    BY <1>1 DEF vars, SessionOpen, Copying, Copied, Rebuilding
  <1>2. ASSUME NEW s \in Slot, Connect(s) PROVE ListInv'
    BY <1>2 DEF Connect, TInv, TypeOK, SessionOpen, Copying, Copied, Rebuilding
  <1>3. ASSUME NEW s \in Slot, Close(s) PROVE ListInv'
    BY <1>3 DEF Close, TInv, TypeOK, SessionOpen, Copying, Copied, Rebuilding
  <1>4. ASSUME NEW s \in Slot, ModuleRemoved(s) PROVE ListInv'
    BY <1>4 DEF ModuleRemoved, TInv, TypeOK, SessionOpen, Copying, Copied, Rebuilding
  <1>5. ASSUME NEW s \in Slot, CaInfo(s) PROVE ListInv'
    BY <1>5, KeptNone DEF CaInfo, TInv, TypeOK, SessionOpen, Copying, Copied, Rebuilding
  <1>6. CASE StoreId
    <2> DEFINE q == ids[mon.slot]
    <2>1. mon.slot \in Slot /\ mon.done \in Nat /\ mon'.slot = mon.slot /\ mon'.done = mon.done + 1
      BY <1>6 DEF StoreId, TInv, TypeOK
    <2>2. Copying'
      <3>1. list'[mon.slot] = IF HasRoom(mon.done) THEN list[mon.slot] \cup {q[mon.done + 1]}
                              ELSE list[mon.slot]
        BY <1>6, <2>1 DEF StoreId, TInv, TypeOK
      <3>2. list[mon.slot] = KeptOf(q, mon.done) /\ ids' = ids
        BY <1>6 DEF StoreId, Copying
      <3>3. list'[mon.slot] = KeptOf(q, mon.done + 1)
        BY <3>1, <3>2, <2>1, KeptMore
      <3> QED BY <2>1, <3>2, <3>3 DEF Copying
    <2> QED BY <1>6, <2>2 DEF StoreId, TInv, TypeOK, SessionOpen, Copied, Rebuilding
  <1>7. CASE CaOk
    <2>1. list[mon.slot] = Kept(ids[mon.slot])
      BY <1>7, KeptAll DEF CaOk, Copying
    <2> QED BY <1>7, <2>1 DEF CaOk, TInv, TypeOK, SessionOpen, Copying, Copied, Rebuilding
  <1>8. CASE Process
    <2>1. UNCHANGED <<session, list, mon, ids>>
      BY <1>8 DEF Process, Look, ReadPlan, Match, Send, ClearRequest
    <2> QED BY <2>1 DEF SessionOpen, Copying, Copied, Rebuilding
  <1> QED BY <1>1, <1>2, <1>3, <1>4, <1>5, <1>6, <1>7, <1>8 DEF Next, Handling

-----------------------------------------------------------------------------
(* The threads stay apart, and a request is kept while it is worked on. *)

Apart == \A s \in Slot : ~(Updating(s) /\ Rebuilding(s))
Pending == pmt.pc # "look" => flag[pmt.slot]

LEMMA ApartStep ==
  ASSUME ~Overlap, TInv, Apart, Pending, [Next]_vars
  PROVE  Apart' /\ Pending'
  <1>1. CASE UNCHANGED vars
    BY <1>1 DEF vars, Apart, Pending, Updating, Rebuilding
  <1>2. ASSUME NEW s \in Slot, Connect(s) \/ Close(s) \/ ModuleRemoved(s)
        PROVE  Apart' /\ Pending'
    <2>1. UNCHANGED <<mon, pmt, flag>>
      BY <1>2 DEF Connect, Close, ModuleRemoved
    <2> QED BY <2>1 DEF Apart, Pending, Updating, Rebuilding
  <1>3. ASSUME NEW s \in Slot, CaInfo(s) PROVE Apart' /\ Pending'
    BY <1>3 DEF CaInfo, Apart, Pending, Updating, Rebuilding
  <1>4. CASE StoreId
    BY <1>4 DEF StoreId, Apart, Pending, Updating, Rebuilding, TInv, TypeOK
  <1>5. CASE CaOk
    BY <1>5 DEF CaOk, Apart, Pending, Updating, Rebuilding, TInv, TypeOK
  <1>6. CASE Look
    BY <1>6 DEF Look, Apart, Pending, Updating, Rebuilding, TInv, TypeOK
  <1>7. CASE ReadPlan \/ Match \/ Send
    <2>1. /\ UNCHANGED <<mon, flag>> /\ pmt.pc # "look" /\ pmt'.slot = pmt.slot
      BY <1>7 DEF ReadPlan, Match, Send, TInv, TypeOK
    <2> QED BY <2>1 DEF Apart, Pending, Updating, Rebuilding
  <1>8. CASE ClearRequest
    BY <1>8 DEF ClearRequest, Apart, Pending, Updating, Rebuilding, TInv, TypeOK
  <1> QED BY <1>1, <1>2, <1>3, <1>4, <1>5, <1>6, <1>7, <1>8 DEF Next, Handling, Process

-----------------------------------------------------------------------------
(* What the module has been sent. *)

\* The CA PMTs of the first n programs of an update.
SentOf(s, n) == {WantedEntry(s, Todo(s)[j]) : j \in 1..n}

\* Up to program k the module has what it should have.
InTurn ==
  LET s == pmt.slot
  IN  pmt.pc \in {"match", "send"} /\ ids[s] # None /\ AllFit(s) =>
        /\ pmt.pc = "send" => pmt.matched = Systems[Todo(s)[pmt.k]] \cap Kept(ids[s])
        /\ pmt.k > 1 => cam[s] = SentOf(s, pmt.k - 1)

Done == pmt.pc = "clear" /\ ids[pmt.slot] # None => Served(pmt.slot)

SentInv == InTurn /\ Done /\ UpToDate

LEMMA SentAll == \A s \in Slot : Wanted(s) = SentOf(s, Len(Todo(s)))
  BY DEF Wanted, Programs, SentOf

(* Plan, list to work through and announcement decide what is wanted. *)
LEMMA SameView ==
  ASSUME NEW s \in Slot, plan'[s] = plan[s], ids'[s] = ids[s], Todo(s)' = Todo(s)
  PROVE  /\ AllFit(s)' = AllFit(s)
         /\ Wanted(s)' = Wanted(s)
         /\ \A n : SentOf(s, n)' = SentOf(s, n)
         /\ Kept(ids[s])' = Kept(ids[s])
  <1>1. Stopping(s)' = Stopping(s)
    BY DEF Stopping
  <1>2. Kept(ids[s])' = Kept(ids[s])
    BY DEF Kept, HasRoom
  <1>3. \A p : WantedEntry(s, p)' = WantedEntry(s, p)
    BY <1>1, <1>2 DEF WantedEntry
  <1>4. Programs(s)' = Programs(s)
    BY DEF Programs
  <1>5. AllFit(s)' = AllFit(s)
    BY <1>2, <1>4 DEF AllFit, Overflows
  <1>6. Wanted(s)' = Wanted(s)
    BY <1>3, <1>4 DEF Wanted
  <1>7. \A n : SentOf(s, n)' = SentOf(s, n)
    BY <1>3 DEF SentOf
  <1> QED BY <1>2, <1>5, <1>6, <1>7

LEMMA SameServed ==
  ASSUME NEW s \in Slot,
         plan'[s] = plan[s], ids'[s] = ids[s], last'[s] = last[s], cam'[s] = cam[s]
  PROVE  Served(s)' = Served(s)
  <1>1. Todo(s)' = Todo(s)
    BY DEF Todo, Stopping
  <1> QED BY <1>1, SameView DEF Served

LEMMA SentStep ==
  ASSUME ~Overlap, TInv, ListInv, Apart, Pending, SentInv, [Next]_vars
  PROVE  SentInv'
  <1> USE DEF SentInv
  <1> DEFINE t == pmt.slot
  <1>t. t \in Slot /\ pmt.k \in Nat \ {0}
    BY DEF TInv, TypeOK
  \* A step that does not touch what a slot has and wants, nor the process task.
  <1>1. ASSUME UNCHANGED <<plan, last>>, pmt' = pmt,
               \A s \in Slot : \/ ids'[s] = ids[s] /\ cam'[s] = cam[s]
                              \/ ids'[s] = None,
               \A s \in Slot : ids'[s] # None /\ ~Rebuilding(s)' /\ ~flag'[s]
                               => ~Rebuilding(s) /\ ~flag[s]
        PROVE  SentInv'
    <2>1. ASSUME NEW s \in Slot, ids'[s] # None
          PROVE  /\ ids'[s] = ids[s] /\ cam'[s] = cam[s]
                 /\ Todo(s)' = Todo(s)
                 /\ Served(s)' = Served(s)
                 /\ AllFit(s)' = AllFit(s)
                 /\ \A n : SentOf(s, n)' = SentOf(s, n)
                 /\ Kept(ids[s])' = Kept(ids[s])
      <3>1. ids'[s] = ids[s] /\ cam'[s] = cam[s]
        BY <1>1, <2>1
      <3>2. Todo(s)' = Todo(s)
        BY <1>1 DEF Todo, Stopping
      <3> QED BY <1>1, <3>1, <3>2, SameView, SameServed
    <2>2. UpToDate'
      BY <1>1, <2>1 DEF UpToDate
    <2>3. Done'
      BY <1>1, <1>t, <2>1 DEF Done
    <2>4. InTurn'
      BY <1>1, <1>t, <2>1 DEF InTurn
    <2> QED BY <2>2, <2>3, <2>4
  <1>2. CASE UNCHANGED vars
    BY <1>1, <1>2 DEF vars, Rebuilding
  <1>3. ASSUME NEW s \in Slot, Connect(s) \/ Close(s) \/ ModuleRemoved(s)
        PROVE  SentInv'
    BY <1>1, <1>3 DEF Connect, Close, ModuleRemoved, TInv, TypeOK, Rebuilding
  <1>4. ASSUME NEW s \in Slot, CaInfo(s) PROVE SentInv'
    <2>1. /\ UNCHANGED <<flag, last, pmt, plan, cam>>
          /\ mon' = [busy |-> TRUE, slot |-> s, done |-> 0]
          /\ ~mon.busy /\ ~Updating(s)
          /\ \A r \in Slot \ {s} : ids'[r] = ids[r]
      BY <1>4 DEF CaInfo, TInv, TypeOK
    <2>2. ASSUME NEW r \in Slot \ {s}
          PROVE  /\ Todo(r)' = Todo(r)
                 /\ Served(r)' = Served(r)
                 /\ AllFit(r)' = AllFit(r)
                 /\ \A n : SentOf(r, n)' = SentOf(r, n)
                 /\ Kept(ids[r])' = Kept(ids[r])
      <3>1. Todo(r)' = Todo(r)
        BY <2>1 DEF Todo, Stopping
      <3> QED BY <2>1, <3>1, SameView, SameServed
    <2>3. UpToDate'
      BY <2>1, <2>2 DEF UpToDate, Rebuilding
    <2>4. pmt.pc # "look" => t # s
      BY <2>1 DEF Updating
    <2>5. Done'
      BY <2>1, <2>2, <2>4, <1>t DEF Done
    <2>6. InTurn'
      BY <2>1, <2>2, <2>4, <1>t DEF InTurn
    <2> QED BY <2>3, <2>5, <2>6
  <1>5. CASE StoreId \/ CaOk
    BY <1>1, <1>5 DEF StoreId, CaOk, TInv, TypeOK, Rebuilding
  <1>6. CASE Look
    <2>1. /\ UNCHANGED <<flag, last, mon, plan, ids, cam>>
          /\ pmt'.pc \in {"look", "plan"}
      BY <1>6 DEF Look, TInv, TypeOK
    <2>2. UpToDate'
      BY <2>1, SameServed DEF UpToDate, Rebuilding
    <2> QED BY <2>1, <2>2 DEF InTurn, Done
  <1>7. CASE ReadPlan
    <2>1. /\ UNCHANGED <<flag, last, mon, ids, cam>>
          /\ flag[t]
          /\ \A r \in Slot \ {t} : plan'[r] = plan[r]
          /\ pmt'.slot = t
          /\ \/ pmt'.pc = "match" /\ pmt'.k = 1
             \/ pmt'.pc = "clear" /\ plan'[t] = None
      BY <1>7 DEF ReadPlan, Pending, TInv, TypeOK
    <2>2. UpToDate'
      BY <2>1, SameServed DEF UpToDate, Rebuilding
    <2>3. Done'
      BY <2>1 DEF Done, Served
    <2>4. InTurn'
      BY <2>1 DEF InTurn
    <2> QED BY <2>2, <2>3, <2>4
  <1>8. CASE Match
    <2>1. /\ UNCHANGED <<list, flag, last, mon, plan, ids, cam>>
          /\ pmt.pc = "match" /\ pmt'.pc = "send" /\ pmt'.slot = t /\ pmt'.k = pmt.k
          /\ pmt'.matched = Systems[Todo(t)[pmt.k]] \cap list[t]
      BY <1>8 DEF Match, TInv, TypeOK
    <2>2. \A r \in Slot : Todo(r)' = Todo(r)
      BY <2>1 DEF Todo, Stopping
    <2>3. UpToDate'
      BY <2>1, SameServed DEF UpToDate, Rebuilding
    <2>4. InTurn'
      <3> SUFFICES ASSUME ids[t] # None, AllFit(t)
                   PROVE  /\ pmt'.matched = Systems[Todo(t)[pmt.k]] \cap Kept(ids[t])
                          /\ pmt.k > 1 => cam[t] = SentOf(t, pmt.k - 1)
        BY <2>1, <2>2, <1>t, SameView DEF InTurn
      <3>1. list[t] = Kept(ids[t])
        BY <2>1, <1>t DEF ListInv, Copied, Apart, Updating
      <3> QED BY <2>1, <3>1 DEF InTurn
    <2> QED BY <2>1, <2>3, <2>4 DEF Done
  <1>9. CASE Send
    <2> DEFINE n == Len(Todo(t))
               k == pmt.k
               p == Todo(t)[k]
               e == WantedEntry(t, p)
    <2>1. /\ UNCHANGED <<session, list, flag, mon, plan, ids>>
          /\ flag[t] /\ pmt.pc = "send" /\ plan[t] # None
          /\ k \in 1..n /\ n \in Nat \ {0}
      BY <1>9, <1>t, TodoPrograms DEF Send, Pending, TInv, InPlan
    <2>2. /\ \A r \in Slot \ {t} : last'[r] = last[r] /\ cam'[r] = cam[r]
          /\ pmt'.slot = t
          /\ k < n => pmt'.pc = "match" /\ pmt'.k = k + 1
          /\ ~(k < n) => pmt'.pc = "clear"
      BY <1>9, <1>t DEF Send, TInv, TypeOK
    <2>3. UpToDate'
      BY <2>1, <2>2, SameServed DEF UpToDate, Rebuilding
    <2>4. Todo(t)' = Todo(t)
      <3>1. last'[t] = last[t] \/ last'[t] = p
        BY <1>9, <1>t DEF Send, TInv, TypeOK
      <3>2. Stopping(t) => p = last[t]
        BY <2>1 DEF Todo
      <3> QED BY <2>1, <2>2, <3>1, <3>2 DEF Todo, Stopping
    <2>5. /\ AllFit(t)' = AllFit(t) /\ Wanted(t)' = Wanted(t)
          /\ \A m : SentOf(t, m)' = SentOf(t, m)
          /\ Kept(ids[t])' = Kept(ids[t])
      BY <1>t, <2>1, <2>2, <2>4, SameView
    <2>6. ASSUME ids[t] # None, AllFit(t) PROVE cam'[t] = SentOf(t, k)
      <3>1. /\ pmt.matched = Systems[p] \cap Kept(ids[t])
            /\ k > 1 => cam[t] = SentOf(t, k - 1)
        BY <2>1, <2>6 DEF InTurn
      <3>2. ~Overflows(p, pmt.matched) /\ session[t]
        BY <2>1, <2>6, <3>1, <1>t DEF AllFit, Programs, ListInv, SessionOpen
      <3>3. e = [prog |-> p, systems |-> pmt.matched, stop |-> Stopping(t)]
        BY <3>1 DEF WantedEntry
      <3>4. cam'[t] = Received(cam[t], ListManagement(k, n), e)
        <4> HIDE DEF e
        <4> QED BY <1>9, <1>t, <3>2, <3>3 DEF Send, TInv, TypeOK
      <3>5. CASE k = 1
        <4>1. ListManagement(k, n) \in {"only", "first"}
          BY <3>5 DEF ListManagement
        <4>2. cam'[t] = {e}
          BY <3>4, <4>1 DEF Received
        <4>3. SentOf(t, k) = {e}
          BY <3>5 DEF SentOf
        <4> QED BY <4>2, <4>3
      <3>6. CASE k > 1
        <4>1. ListManagement(k, n) \notin {"only", "first"}
          <5>1. k # 1 /\ n # 1
            <6> HIDE DEF k, n
            <6>1. k \in 1..n /\ n \in Nat /\ k > 1
              BY <2>1, <3>6
            <6> QED BY <6>1
          <5>2. ListManagement(k, n) \in {"last", "more"}
            BY <5>1 DEF ListManagement
          <5> QED BY <5>2
        <4>2. cam'[t] = {x \in SentOf(t, k - 1) : x.prog # e.prog} \cup {e}
          BY <3>1, <3>4, <3>6, <4>1 DEF Received
        <4>3. \A x \in SentOf(t, k - 1) : x.prog = e.prog => x = e
          BY DEF SentOf, WantedEntry
        <4>4. SentOf(t, k) = SentOf(t, k - 1) \cup {e}
          <5>1. 1..k = 1..(k - 1) \cup {k}
            BY <2>1, <3>6
          <5> QED BY <5>1 DEF SentOf
        <4> HIDE DEF e
        <4> QED BY <4>2, <4>3, <4>4
      <3> QED BY <3>5, <3>6, <2>1
    <2>7. InTurn'
      <3> SUFFICES ASSUME pmt'.pc = "match", ids[t] # None, AllFit(t)
                   PROVE  cam'[t] = SentOf(t, pmt'.k - 1)
        BY <2>1, <2>2, <2>5 DEF InTurn
      <3>1. pmt'.k - 1 = k
        BY <2>1, <2>2
      <3> QED BY <2>6, <3>1
    <2>8. Done'
      <3> SUFFICES ASSUME pmt'.pc = "clear", ids[t] # None, AllFit(t)
                   PROVE  cam'[t] = Wanted(t)
        BY <2>1, <2>2, <2>5 DEF Done, Served
      <3>1. k = n
        BY <2>1, <2>2
      <3> QED BY <2>6, <3>1, SentAll, <1>t
    <2> QED BY <2>3, <2>7, <2>8
  <1>10. CASE ClearRequest
    <2>1. /\ UNCHANGED <<last, mon, plan, ids, cam>>
          /\ pmt.pc = "clear" /\ pmt'.pc = "look"
          /\ \A r \in Slot \ {t} : flag'[r] = flag[r]
      BY <1>10 DEF ClearRequest, TInv, TypeOK
    <2>2. UpToDate'
      BY <2>1, <1>t, SameServed DEF UpToDate, Rebuilding, Done
    <2> QED BY <2>1, <2>2 DEF InTurn, Done
  <1> QED BY <1>2, <1>3, <1>4, <1>5, <1>6, <1>7, <1>8, <1>9, <1>10
          DEF Next, Handling, Process

(* If no list is rebuilt while its slot is updated, a module that has      *)
(* announced its systems and has no request waiting works on exactly the   *)
(* programs of the last update with its own systems.                       *)
THEOREM SelectionUpToDate ==
  ASSUME ~Overlap
  PROVE  Spec => []UpToDate
<1>1. Init => ListInv /\ Apart /\ Pending /\ SentInv
  BY DEF Init, ListInv, SessionOpen, Copying, Copied, Apart, Updating, Pending,
         SentInv, InTurn, Done, UpToDate
<1>2. TInv /\ ListInv /\ Apart /\ Pending /\ SentInv /\ [Next]_vars
      => (ListInv /\ Apart /\ Pending /\ SentInv)'
  BY ListStep, ApartStep, SentStep
<1>3. Spec => [](ListInv /\ Apart /\ Pending /\ SentInv)
  BY <1>1, <1>2, Types, PTL DEF Spec
<1>4. SentInv => UpToDate
  BY DEF SentInv
<1> QED BY <1>3, <1>4, PTL

-----------------------------------------------------------------------------
(***************************************************************************)
(* The length fields of PmtFrames.                                         *)
(***************************************************************************)
LEMMA ThreeByteForm ==
  ASSUME NEW n \in Nat, n < 65536
  PROVE  LET f == <<130, (n \div 256) % 256, n % 256>>
         IN  Len(f) = 3 /\ DecodeLengthField(f) = [len |-> n, size |-> 3]
  <1> DEFINE q == n \div 256
             a == q % 256
             b == n % 256
             f == <<130, a, b>>
  <1>1. q \in Nat /\ q < 256 /\ b = n - 256 * q
    <2>1. q \in Nat /\ q < 256
      OBVIOUS
    <2>2. b = n - 256 * q
      OBVIOUS
    <2> QED BY <2>1, <2>2
  <1> HIDE DEF q, b
  <1>2. a = q
    BY <1>1
  <1> HIDE DEF a
  <1>3. 256 * a + b = n
    BY <1>1, <1>2
  <1>4. f[1] = 130 /\ f[2] = a /\ f[3] = b /\ Len(f) = 3
    OBVIOUS
  <1> HIDE DEF f
  <1>5. DecodeLengthField(f) = [len |-> n, size |-> 3]
    BY <1>3, <1>4 DEF DecodeLengthField
  <1> QED BY <1>4, <1>5 DEF f, a, b, q

LEMMA OneByteForm ==
  ASSUME NEW n \in Nat, n < 128
  PROVE  Len(<<n>>) = 1 /\ DecodeLengthField(<<n>>) = [len |-> n, size |-> 1]
  BY DEF DecodeLengthField

LEMMA TwoByteForm ==
  ASSUME NEW n \in Nat
  PROVE  Len(<<129, n>>) = 2 /\ DecodeLengthField(<<129, n>>) = [len |-> n, size |-> 2]
  BY DEF DecodeLengthField

(* The three forms of WVCI_GenerateCAPMT are read back by                  *)
(* CI_DecodeLengthField as the number that was written, and at its size.   *)
THEOREM LengthFieldRight ==
  ASSUME NEW n \in Nat, n < 65536
  PROVE  DecodeLengthField(LengthField(n)) = [len |-> n, size |-> Len(LengthField(n))]
<1>1. CASE n <= 127
  <2>1. LengthField(n) = <<n>>
    BY <1>1 DEF LengthField
  <2> QED BY <1>1, <2>1, OneByteForm
<1>2. CASE n > 127 /\ n < 255
  <2>1. LengthField(n) = <<129, n>>
    BY <1>2 DEF LengthField
  <2> QED BY <2>1, TwoByteForm
<1>3. CASE n >= 255
  <2>1. LengthField(n) = <<130, (n \div 256) % 256, n % 256>>
    BY <1>3 DEF LengthField
  <2> QED BY <2>1, ThreeByteForm
<1> QED BY <1>1, <1>2, <1>3

(* The length field of the TPDU counts the connection id and the data      *)
(* without the mark, as long as that fits two bytes.                       *)
THEOREM TpduFieldRight ==
  ASSUME NEW n \in Nat, n < 65000
  PROVE  LET d == DecodeLengthField(TpduField(n))
         IN  1 + d.size + d.len = PacketBytes(n)
<1> DEFINE g == Len(LengthField(n))
           m == MarkOf(n)
           w == TpduData(n)
           r == w - m + 1
<1>1. g \in Nat /\ g < 4
  <2>1. \A a, b, c : Len(<<a>>) = 1 /\ Len(<<a, b>>) = 2 /\ Len(<<a, b, c>>) = 3
    OBVIOUS
  <2> QED BY <2>1 DEF LengthField
<1>2. m \in Nat /\ w = 3 + g + n + m + 4
  <2>1. m \in {0, 4}
    BY DEF MarkOf, Mark
  <2>2. w = ((3 + g + n) + m) + 4
    BY DEF TpduData, MarkedApdu, Apdu
  <2> HIDE DEF m, w, g
  <2> QED BY <1>1, <2>1, <2>2
<1>3. PacketBytes(n) = (2 + Len(TpduField(n)) + w) - m
  BY DEF PacketBytes, Packet
<1>4. TpduField(n) = IF w + 3 >= 128 THEN <<130, (r \div 256) % 256, r % 256>> ELSE <<r>>
  BY DEF TpduField
<1> HIDE DEF g, m, w
<1>5. r \in Nat /\ r < 65536 /\ (~(w + 3 >= 128) => r < 128)
  BY <1>1, <1>2
<1> HIDE DEF r
<1>6. DecodeLengthField(TpduField(n)) = [len |-> r, size |-> Len(TpduField(n))]
  BY <1>4, <1>5, ThreeByteForm, OneByteForm
<1>7. Len(TpduField(n)) \in Nat
  BY <1>4, <1>5, ThreeByteForm, OneByteForm
<1> QED BY <1>1, <1>2, <1>3, <1>6, <1>7 DEF r

-----------------------------------------------------------------------------
(***************************************************************************)
(* The frames of PmtFrames.  Recursive functions are shown to satisfy      *)
(* their equations by induction on a set, which is a first-order fact.     *)
(***************************************************************************)
LEMMA NatSetInduction ==
  ASSUME NEW S, 0 \in S, \A n \in Nat : n \in S => n + 1 \in S
  PROVE  Nat \subseteq S
<1> DEFINE T == Nat \ S
           R == OpToRel(<, Nat)
<1> SUFFICES ASSUME T # {} PROVE FALSE
  OBVIOUS
<1>1. PICK x \in T : \A y \in T : ~ (<<y, x>> \in R)
  <2> HIDE DEF R
  <2>1. IsWellFoundedOn(R, Nat)
    BY NatLessThanWellFounded DEF R
  <2>2. T \subseteq Nat
    OBVIOUS
  <2> HIDE DEF T
  <2> QED BY <2>1, <2>2, WFMin
<1>2. x \in Nat /\ x # 0
  OBVIOUS
<1>3. x - 1 \in Nat
  BY <1>2
<1>4. <<x - 1, x>> \in R
  BY <1>2, <1>3 DEF OpToRel
<1>5. x - 1 \in T
  BY <1>2, <1>3
<1> QED BY <1>1, <1>4, <1>5

\* What the first k frames carry.
SumsTo(s, n, f) == f = [k \in 0 .. n |-> IF k = 0 THEN 0 ELSE f[k - 1] + s[k]]
Sums(s) == CHOOSE f : SumsTo(s, Len(s), f)

LEMMA SumsExist == ASSUME NEW s, NEW n \in Nat PROVE \E f : SumsTo(s, n, f)
<1> DEFINE S == {x \in Nat : \E f : SumsTo(s, x, f)}
<1>1. 0 \in S
  <2>1. SumsTo(s, 0, [k \in 0 .. 0 |-> 0])
    BY DEF SumsTo
  <2> QED BY <2>1
<1>2. ASSUME NEW x \in Nat, x \in S PROVE x + 1 \in S
  <2>1. PICK f : SumsTo(s, x, f)
    BY <1>2
  <2> DEFINE g == [k \in 0 .. x + 1 |-> IF k <= x THEN f[k] ELSE f[k - 1] + s[k]]
  <2>2. ASSUME NEW k \in 0 .. x + 1
        PROVE  g[k] = IF k = 0 THEN 0 ELSE g[k - 1] + s[k]
    <3>1. CASE k <= x
      <4>1. k \in 0 .. x /\ g[k] = f[k]
        BY <3>1
      <4>2. f[k] = IF k = 0 THEN 0 ELSE f[k - 1] + s[k]
        BY <2>1, <4>1 DEF SumsTo
      <4>3. k # 0 => k - 1 \in 0 .. x + 1 /\ k - 1 <= x
        BY <3>1
      <4>4. k # 0 => g[k - 1] = f[k - 1]
        BY <4>3
      <4> HIDE DEF g
      <4> QED BY <4>1, <4>2, <4>4
    <3>2. CASE k = x + 1
      <4>1. k # 0 /\ k - 1 \in 0 .. x + 1 /\ k - 1 <= x /\ ~(k <= x)
        BY <3>2
      <4>2. g[k - 1] = f[k - 1]
        BY <4>1
      <4>3. g[k] = f[k - 1] + s[k]
        BY <4>1
      <4> HIDE DEF g
      <4> QED BY <4>1, <4>2, <4>3
    <3> QED BY <3>1, <3>2
  <2>3. SumsTo(s, x + 1, g)
    <3>1. g = [k \in 0 .. x + 1 |-> g[k]]
      OBVIOUS
    <3> HIDE DEF g
    <3> QED BY <2>2, <3>1, Zenon DEF SumsTo
  <2> QED BY <2>3
<1>3. Nat \subseteq S
  <2> HIDE DEF S
  <2> QED BY <1>1, <1>2, NatSetInduction
<1> QED BY <1>3

LEMMA SumsAre ==
  ASSUME NEW s \in Seq(Nat)
  PROVE  /\ Carried(s) = Sums(s)[Len(s)]
         /\ Sums(s)[0] = 0
         /\ \A k \in 1 .. Len(s) : Sums(s)[k] = Sums(s)[k - 1] + s[k]
         /\ \A k \in 0 .. Len(s) : Sums(s)[k] \in Nat
<1>1. Len(s) \in Nat
  OBVIOUS
<1>2. SumsTo(s, Len(s), Sums(s))
  BY <1>1, SumsExist, Zenon DEF Sums
<1>3. Carried(s) = Sums(s)[Len(s)]
  BY DEF Carried, Sums, SumsTo
<1>4. ASSUME NEW k \in 0 .. Len(s)
      PROVE  Sums(s)[k] = IF k = 0 THEN 0 ELSE Sums(s)[k - 1] + s[k]
  BY <1>2 DEF SumsTo
<1>5. Sums(s)[0] = 0 /\ \A k \in 1 .. Len(s) : Sums(s)[k] = Sums(s)[k - 1] + s[k]
  BY <1>1, <1>4
<1> DEFINE S == {x \in Nat : x <= Len(s) => Sums(s)[x] \in Nat}
<1>6. 0 \in S
  BY <1>5
<1>7. ASSUME NEW x \in Nat, x \in S PROVE x + 1 \in S
  <2> SUFFICES ASSUME x + 1 <= Len(s) PROVE Sums(s)[x + 1] \in Nat
    OBVIOUS
  <2>1. x + 1 \in 1 .. Len(s) /\ (x + 1) - 1 = x /\ Sums(s)[x] \in Nat /\ s[x + 1] \in Nat
    BY <1>1, <1>7
  <2>2. Sums(s)[x + 1] = Sums(s)[x] + s[x + 1]
    BY <1>5, <2>1
  <2> QED BY <2>1, <2>2
<1>8. Nat \subseteq S
  <2> HIDE DEF S
  <2> QED BY <1>6, <1>7, NatSetInduction
<1> QED BY <1>1, <1>3, <1>5, <1>8

LEMMA CarriedOne == ASSUME NEW a \in Nat PROVE Carried(<<a>>) = a
<1>1. <<a>> \in Seq(Nat) /\ Len(<<a>>) = 1 /\ <<a>>[1] = a
  OBVIOUS
<1> QED BY <1>1, SumsAre

\* A frame goes before others.
LEMMA CarriedMore ==
  ASSUME NEW a \in Nat, NEW s \in Seq(Nat)
  PROVE  Carried(<<a>> \o s) = a + Carried(s)
<1> DEFINE r == <<a>> \o s
<1>1. /\ r \in Seq(Nat) /\ Len(s) \in Nat /\ Len(r) = Len(s) + 1 /\ r[1] = a
      /\ \A k \in 1 .. Len(s) : r[k + 1] = s[k]
  OBVIOUS
<1> HIDE DEF r
<1> DEFINE S == {x \in Nat : x <= Len(s) => Sums(r)[x + 1] = a + Sums(s)[x]}
<1>2. 0 \in S
  <2>1. 1 \in 1 .. Len(r) /\ Sums(r)[0] = 0 /\ Sums(s)[0] = 0
    BY <1>1, SumsAre
  <2>2. Sums(r)[1] = Sums(r)[1 - 1] + r[1]
    BY <1>1, <2>1, SumsAre
  <2>3. Sums(r)[0 + 1] = a + Sums(s)[0]
    BY <1>1, <2>1, <2>2
  <2> QED BY <2>3
<1>3. ASSUME NEW x \in Nat, x \in S PROVE x + 1 \in S
  <2> SUFFICES ASSUME x + 1 <= Len(s) PROVE Sums(r)[(x + 1) + 1] = a + Sums(s)[x + 1]
    OBVIOUS
  <2>1. /\ x + 1 \in 1 .. Len(s) /\ (x + 1) - 1 = x /\ x \in 0 .. Len(s)
        /\ (x + 1) + 1 \in 1 .. Len(r) /\ ((x + 1) + 1) - 1 = x + 1
    BY <1>1
  <2>2. Sums(r)[x + 1] = a + Sums(s)[x]
    BY <1>3, <2>1
  <2>3. Sums(s)[x + 1] = Sums(s)[x] + s[x + 1] /\ Sums(s)[x] \in Nat
    BY <2>1, SumsAre
  <2>4. Sums(r)[(x + 1) + 1] = Sums(r)[x + 1] + r[(x + 1) + 1]
    BY <1>1, <2>1, SumsAre
  <2>5. r[(x + 1) + 1] = s[x + 1] /\ s[x + 1] \in Nat
    BY <1>1, <2>1, SMTT(30)
  <2> HIDE DEF S
  <2> QED BY <2>2, <2>3, <2>4, <2>5
<1>4. Nat \subseteq S
  <2> HIDE DEF S
  <2> QED BY <1>2, <1>3, NatSetInduction
<1>5. Sums(r)[Len(s) + 1] = a + Sums(s)[Len(s)]
  BY <1>1, <1>4
<1> QED BY <1>1, <1>5, SumsAre DEF r

\* The recursive function in Frames.
CutsTo(w, n, f) ==
  f = [m \in 0 .. n |-> IF m > w THEN <<w>> \o f[m - w] ELSE <<m>>]
Cuts(w, n) == CHOOSE f : CutsTo(w, n, f)

LEMMA CutsExist ==
  ASSUME NEW w \in Nat \ {0}, NEW n \in Nat
  PROVE  \E f : CutsTo(w, n, f)
<1> DEFINE S == {x \in Nat : \E f : CutsTo(w, x, f)}
<1>1. 0 \in S
  <2>1. CutsTo(w, 0, [m \in 0 .. 0 |-> <<m>>])
    BY DEF CutsTo
  <2> QED BY <2>1
<1>2. ASSUME NEW x \in Nat, x \in S PROVE x + 1 \in S
  <2>1. PICK f : CutsTo(w, x, f)
    BY <1>2
  <2> DEFINE g == [m \in 0 .. x + 1 |->
                     IF m <= x THEN f[m] ELSE IF m > w THEN <<w>> \o f[m - w] ELSE <<m>>]
  <2>2. ASSUME NEW m \in 0 .. x + 1
        PROVE  g[m] = IF m > w THEN <<w>> \o g[m - w] ELSE <<m>>
    <3>1. m > w => m - w \in 0 .. x + 1 /\ m - w <= x
      OBVIOUS
    <3>2. m > w => g[m - w] = f[m - w]
      BY <3>1
    <3>3. CASE m <= x
      <4>1. m \in 0 .. x /\ g[m] = f[m]
        BY <3>3
      <4>2. f[m] = IF m > w THEN <<w>> \o f[m - w] ELSE <<m>>
        BY <2>1, <4>1 DEF CutsTo
      <4> HIDE DEF g
      <4> QED BY <3>2, <4>1, <4>2
    <3>4. CASE ~(m <= x)
      <4>1. g[m] = IF m > w THEN <<w>> \o f[m - w] ELSE <<m>>
        BY <3>4
      <4> HIDE DEF g
      <4> QED BY <3>2, <4>1
    <3> QED BY <3>3, <3>4
  <2>3. CutsTo(w, x + 1, g)
    <3>1. g = [m \in 0 .. x + 1 |-> g[m]]
      OBVIOUS
    <3> HIDE DEF g
    <3> QED BY <2>2, <3>1, Zenon DEF CutsTo
  <2> QED BY <2>3
<1>3. Nat \subseteq S
  <2> HIDE DEF S
  <2> QED BY <1>1, <1>2, NatSetInduction
<1> QED BY <1>3

\* No frame is empty or too long for the buffer, and together they carry all; the
\* first one is full unless it is the only one.
LEMMA FramesCarry ==
  ASSUME NEW b \in Nat, b > 2, NEW n \in Nat \ {0}
  PROVE  /\ \A k \in 1 .. Len(Frames(b, n)) : Frames(b, n)[k] \in 1 .. (b - 2)
         /\ Carried(Frames(b, n)) = n
         /\ 1 \in 1 .. Len(Frames(b, n))
         /\ Frames(b, n)[1] = IF n > b - 2 THEN b - 2 ELSE n
         /\ n <= b - 2 => Frames(b, n) = <<n>>
<1> DEFINE w == b - 2
           f == Cuts(w, n)
<1>1. w \in Nat \ {0}
  OBVIOUS
<1>2. Frames(b, n) = f[n]
  BY DEF Frames, Cuts, CutsTo
<1> HIDE DEF w
<1>3. CutsTo(w, n, f)
  BY <1>1, CutsExist, Zenon DEF Cuts
<1> HIDE DEF f
<1>4. \A m \in 0 .. n : f[m] = IF m > w THEN <<w>> \o f[m - w] ELSE <<m>>
  BY <1>3 DEF CutsTo
<1> DEFINE Good(m) == f[m] \in Seq(1 .. w) /\ Carried(f[m]) = m
           S == {x \in Nat : \A m \in 1 .. x : m <= n => Good(m)}
<1>5. 0 \in S
  OBVIOUS
<1>6. ASSUME NEW x \in Nat, x \in S PROVE x + 1 \in S
  <2> SUFFICES ASSUME x + 1 <= n PROVE Good(x + 1)
    BY <1>6
  <2> DEFINE m == x + 1
  <2>1. m \in 0 .. n /\ m \in Nat
    OBVIOUS
  <2>2. f[m] = IF m > w THEN <<w>> \o f[m - w] ELSE <<m>>
    BY <1>4, <2>1
  <2>3. CASE m > w
    <3>1. m - w \in 1 .. x /\ m - w <= n
      BY <1>1, <2>1, <2>3
    <3>2. Good(m - w)
      BY <1>6, <3>1
    <3> DEFINE s == f[m - w]
    <3>3. s \in Seq(1 .. w) /\ Carried(s) = m - w
      BY <3>2
    <3>4. f[m] = <<w>> \o s
      BY <2>2, <2>3
    <3> HIDE DEF s, m, S, Good
    <3>5. <<w>> \o s \in Seq(1 .. w)
      BY <1>1, <3>3
    <3>6. s \in Seq(Nat)
      <4>1. Len(s) \in Nat /\ \A k \in 1 .. Len(s) : s[k] \in 1 .. w
        BY <3>3, ElementOfSeq, LenProperties
      <4>2. \A k \in 1 .. Len(s) : s[k] \in Nat
        BY <1>1, <4>1
      <4> QED BY <3>3, <4>1, <4>2
    <3>7. Carried(<<w>> \o s) = w + (m - w)
      BY <1>1, <3>3, <3>6, CarriedMore
    <3>8. w + (m - w) = m
      BY <1>1, <2>1
    <3> QED BY <3>4, <3>5, <3>7, <3>8 DEF m, Good
  <2>4. CASE ~(m > w)
    <3>1. f[m] = <<m>> /\ m \in 1 .. w
      BY <1>1, <2>1, <2>2, <2>4
    <3>2. <<m>> \in Seq(1 .. w) /\ Carried(<<m>>) = m
      BY <2>1, <3>1, CarriedOne
    <3> QED BY <3>1, <3>2
  <2> QED BY <2>3, <2>4
<1>7. Nat \subseteq S
  <2> HIDE DEF S
  <2> QED BY <1>5, <1>6, NatSetInduction
<1>8. ASSUME NEW m \in 1 .. n PROVE Good(m)
  <2>1. n \in S
    BY <1>7
  <2> QED BY <2>1
<1>9. n \in 1 .. n /\ (n > w => n - w \in 1 .. n)
  BY <1>1
<1>10. Good(n) /\ (n > w => Good(n - w))
  BY <1>8, <1>9
<1>11. f[n] = IF n > w THEN <<w>> \o f[n - w] ELSE <<n>>
  <2>1. n \in 0 .. n
    OBVIOUS
  <2> HIDE DEF S, Good
  <2> QED BY <1>4, <2>1
<1>12. 1 \in 1 .. Len(f[n]) /\ f[n][1] = IF n > w THEN w ELSE n
  <2>1. CASE n > w
    <3>1. f[n - w] \in Seq(1 .. w) /\ f[n] = <<w>> \o f[n - w]
      BY <1>10, <1>11, <2>1
    <3> QED BY <1>1, <2>1, <3>1
  <2>2. CASE ~(n > w)
    BY <1>11, <2>2
  <2> QED BY <2>1, <2>2
<1>13. n <= w => f[n] = <<n>>
  BY <1>1, <1>11
<1> QED BY <1>2, <1>10, <1>12, <1>13 DEF w

LEMMA LengthFieldSize ==
  ASSUME NEW n
  PROVE  Len(LengthField(n)) \in Nat /\ Len(TpduField(n)) \in Nat
<1>1. \A a, b, c : Len(<<a>>) = 1 /\ Len(<<a, b>>) = 2 /\ Len(<<a, b, c>>) = 3
  OBVIOUS
<1> QED BY <1>1 DEF LengthField, TpduField

\* A CA PMT that is sent, with the sizes of its two length fields.
LEMMA PacketSizes ==
  ASSUME NEW n \in Nat, Passes(n)
  PROVE  /\ n < 1018
         /\ PacketBytes(n) \in Nat \ {0}
         /\ PacketBytes(n) <= 510 <=> n <= 495
         /\ Packet(n) <= MsgRoom <=> n <= 1005
<1> DEFINE g == Len(LengthField(n))
           t == Len(TpduField(n))
           m == MarkOf(n)
<1>1. \A a, b, c : Len(<<a>>) = 1 /\ Len(<<a, b>>) = 2 /\ Len(<<a, b, c>>) = 3
  OBVIOUS
<1>2. g = IF n < 128 THEN 1 ELSE IF n < 255 THEN 2 ELSE 3
  BY <1>1 DEF LengthField
<1>3. m = IF 3 + g + n < 1020 THEN 4 ELSE 0
  BY DEF MarkOf, Apdu, Mark, MaxLenCaPmt
<1>4. t = IF 3 + g + n + m + 4 + 3 >= 128 THEN 3 ELSE 1
  BY <1>1 DEF TpduField, TpduData, MarkedApdu, Apdu
<1>5. 3 + g + n + m < 1024
  BY DEF Passes, MarkedApdu, Apdu, MaxLenCaPmt
<1>6. /\ PacketBytes(n) = (2 + t + ((3 + g + n + m) + 4)) - m
      /\ Packet(n) = 2 + t + ((3 + g + n + m) + 4)
  BY DEF PacketBytes, Packet, TpduData, MarkedApdu, Apdu
<1> HIDE DEF g, t, m
<1> QED BY <1>2, <1>3, <1>4, <1>5, <1>6 DEF MsgRoom

(* A CA PMT that is sent at all reaches the module with lengths that agree *)
(* and frames that carry it, whatever its length and the buffer's size.    *)
THEOREM LengthsRight == \A n \in Nat : Passes(n) => LengthsAgree(n)
<1> SUFFICES ASSUME NEW n \in Nat, Passes(n)
             PROVE  /\ DecodeLengthField(LengthField(n)) = [len |-> n, size |-> Len(LengthField(n))]
                    /\ LET d == DecodeLengthField(TpduField(n))
                       IN  1 + d.size + d.len = PacketBytes(n)
                    /\ \A b \in BufferSizes :
                         LET frames == Frames(b, PacketBytes(n))
                         IN  /\ \A k \in 1..Len(frames) : frames[k] \in 1..(b - 2)
                             /\ Carried(frames) = PacketBytes(n)
  BY DEF LengthsAgree
<1>1. n < 1018 /\ PacketBytes(n) \in Nat \ {0}
  BY PacketSizes
<1>2. DecodeLengthField(LengthField(n)) = [len |-> n, size |-> Len(LengthField(n))]
  BY <1>1, LengthFieldRight
<1>3. LET d == DecodeLengthField(TpduField(n)) IN 1 + d.size + d.len = PacketBytes(n)
  BY <1>1, TpduFieldRight
<1>4. ASSUME NEW b \in BufferSizes
      PROVE  /\ \A k \in 1..Len(Frames(b, PacketBytes(n))) : Frames(b, PacketBytes(n))[k] \in 1..(b - 2)
             /\ Carried(Frames(b, PacketBytes(n))) = PacketBytes(n)
  <2>1. b \in Nat /\ b > 2
    BY FrameAssumption DEF LeastSize, SendQBufSize
  <2> QED BY <1>1, <2>1, FramesCarry
<1> QED BY <1>2, <1>3, <1>4

(* The arrays the packet and its frames are built in (ci.c:265, ci.c:166)   *)
(* are large enough for every CA PMT of up to 1005 bytes with a buffer of   *)
(* up to 512, and of up to 495 with a larger one; they are too small for    *)
(* all others that are sent.                                                *)
THEOREM RoomFor ==
  \A n \in Nat, b \in LeastSize .. SendQBufSize :
    Passes(n) => (Fits(n, b) <=> n <= 1005 /\ (b <= FrameRoom \/ n <= 495))
<1> SUFFICES ASSUME NEW n \in Nat, NEW b \in LeastSize .. SendQBufSize, Passes(n)
             PROVE  Fits(n, b) <=> n <= 1005 /\ (b <= FrameRoom \/ n <= 495)
  OBVIOUS
<1> DEFINE m == PacketBytes(n)
           fs == Frames(b, m)
           Roomy == \A k \in 1 .. Len(fs) : fs[k] + 2 <= 512
<1>1. b \in Nat /\ b > 2
  BY DEF LeastSize, SendQBufSize
<1>2. m \in Nat \ {0} /\ (m <= 510 <=> n <= 495) /\ (Packet(n) <= MsgRoom <=> n <= 1005)
  BY PacketSizes
<1>3. Fits(n, b) <=> Packet(n) <= MsgRoom /\ Roomy
  BY DEF Fits, FrameRoom
<1> HIDE DEF m
<1>4. /\ \A k \in 1 .. Len(fs) : fs[k] \in 1 .. (b - 2)
      /\ 1 \in 1 .. Len(fs)
      /\ fs[1] = IF m > b - 2 THEN b - 2 ELSE m
      /\ m <= b - 2 => fs = <<m>>
  BY <1>1, <1>2, FramesCarry
<1> HIDE DEF fs
<1>5. ASSUME b <= 512 PROVE Roomy
  BY <1>1, <1>4, <1>5
<1>6. ASSUME b > 512, m <= 510 PROVE Roomy
  <2>1. fs = <<m>>
    BY <1>1, <1>2, <1>4, <1>6
  <2>2. \A k \in 1 .. Len(fs) : fs[k] = m
    BY <2>1
  <2> QED BY <1>2, <1>6, <2>2
<1>7. ASSUME b > 512, m > 510 PROVE ~Roomy
  <2>1. fs[1] + 2 > 512
    BY <1>1, <1>2, <1>4, <1>7
  <2>2. ~(fs[1] + 2 <= 512)
    BY <1>1, <1>2, <1>4, <2>1
  <2> QED BY <1>4, <2>2
<1> HIDE DEF Roomy
<1> QED BY <1>1, <1>2, <1>3, <1>5, <1>6, <1>7 DEF FrameRoom

-----------------------------------------------------------------------------
(***************************************************************************)
(* The contents of PmtBuild.  First sequences laid end to end.             *)
(***************************************************************************)
Sends(g, X, Y) == g \in [X -> Y]

LEMMA AsSequence ==
  ASSUME NEW X, NEW n \in Nat, NEW s, Sends(s, 1 .. n, X)
  PROVE  s \in Seq(X) /\ Len(s) = n
BY DEF Sends

\* The recursive function in FlattenSeq.
JoinsTo(h, n, f) == f = [i \in 1 .. n |-> IF i = 1 THEN h[i] ELSE f[i - 1] \o h[i]]
Joins(h) == CHOOSE f : JoinsTo(h, Len(h), f)

\* The first k of h, end to end, and their length.
Joined(h, k) == IF k = 0 THEN <<>> ELSE Joins(h)[k]
End(h, k) == Len(Joined(h, k))

LEMMA JoinsExist == ASSUME NEW h, NEW n \in Nat PROVE \E f : JoinsTo(h, n, f)
<1> DEFINE S == {x \in Nat : \E f : JoinsTo(h, x, f)}
<1>1. 0 \in S
  <2>1. JoinsTo(h, 0, [i \in 1 .. 0 |-> 0])
    BY DEF JoinsTo
  <2> QED BY <2>1
<1>2. ASSUME NEW x \in Nat, x \in S PROVE x + 1 \in S
  <2>1. PICK f : JoinsTo(h, x, f)
    BY <1>2
  <2> DEFINE g == [i \in 1 .. x + 1 |->
                     IF i <= x THEN f[i] ELSE IF i = 1 THEN h[i] ELSE f[i - 1] \o h[i]]
  <2>2. ASSUME NEW i \in 1 .. x + 1
        PROVE  g[i] = IF i = 1 THEN h[i] ELSE g[i - 1] \o h[i]
    <3>1. i # 1 => i - 1 \in 1 .. x + 1 /\ i - 1 <= x
      OBVIOUS
    <3>2. i # 1 => g[i - 1] = f[i - 1]
      BY <3>1
    <3>3. CASE i <= x
      <4>1. i \in 1 .. x /\ g[i] = f[i]
        BY <3>3
      <4>2. f[i] = IF i = 1 THEN h[i] ELSE f[i - 1] \o h[i]
        BY <2>1, <4>1 DEF JoinsTo
      <4> HIDE DEF g
      <4> QED BY <3>2, <4>1, <4>2
    <3>4. CASE ~(i <= x)
      <4>1. g[i] = IF i = 1 THEN h[i] ELSE f[i - 1] \o h[i]
        BY <3>4
      <4> HIDE DEF g
      <4> QED BY <3>2, <4>1
    <3> QED BY <3>3, <3>4
  <2>3. JoinsTo(h, x + 1, g)
    <3>1. g = [i \in 1 .. x + 1 |-> g[i]]
      OBVIOUS
    <3> HIDE DEF g
    <3> QED BY <2>2, <3>1, Zenon DEF JoinsTo
  <2> QED BY <2>3
<1>3. Nat \subseteq S
  <2> HIDE DEF S
  <2> QED BY <1>1, <1>2, NatSetInduction
<1> QED BY <1>3

LEMMA JoinedStep ==
  ASSUME NEW X, NEW h \in Seq(Seq(X)), NEW k \in 1 .. Len(h)
  PROVE  Joined(h, k) = Joined(h, k - 1) \o h[k]
<1>1. Len(h) \in Nat /\ h[k] \in Seq(X)
  OBVIOUS
<1>2. JoinsTo(h, Len(h), Joins(h))
  BY <1>1, JoinsExist, Zenon DEF Joins
<1>3. Joins(h)[k] = IF k = 1 THEN h[k] ELSE Joins(h)[k - 1] \o h[k]
  BY <1>2 DEF JoinsTo
<1>4. <<>> \o h[k] = h[k]
  BY <1>1
<1>5. CASE k = 1
  <2>1. Joined(h, k - 1) = <<>> /\ Joined(h, k) = h[k]
    BY <1>3, <1>5 DEF Joined
  <2> QED BY <1>4, <2>1
<1>6. CASE k # 1
  <2>1. k - 1 # 0 /\ k # 0
    BY <1>1, <1>6
  <2> QED BY <1>3, <1>6, <2>1 DEF Joined
<1> QED BY <1>5, <1>6

LEMMA JoinedIs ==
  ASSUME NEW X, NEW h \in Seq(Seq(X))
  PROVE  FlattenSeq(h) = Joined(h, Len(h))
<1>1. Len(h) \in Nat
  OBVIOUS
<1>2. Len(h) = 0 => h = <<>>
  OBVIOUS
<1>3. Len(h) # 0 => FlattenSeq(h) = Joins(h)[Len(h)]
  BY DEF FlattenSeq, Joins, JoinsTo
<1> QED BY <1>1, <1>2, <1>3 DEF Joined, FlattenSeq

\* They are sequences, each a part of the next.
LEMMA JoinedType ==
  ASSUME NEW X, NEW h \in Seq(Seq(X))
  PROVE  \A k \in 0 .. Len(h) : Joined(h, k) \in Seq(X) /\ End(h, k) \in Nat
<1> DEFINE S == {x \in Nat : x <= Len(h) => Joined(h, x) \in Seq(X)}
<1>1. 0 \in S
  BY DEF Joined
<1>2. ASSUME NEW x \in Nat, x \in S PROVE x + 1 \in S
  <2> SUFFICES ASSUME x + 1 <= Len(h) PROVE Joined(h, x + 1) \in Seq(X)
    OBVIOUS
  <2>1. Len(h) \in Nat /\ x + 1 \in 1 .. Len(h) /\ (x + 1) - 1 = x /\ h[x + 1] \in Seq(X)
    OBVIOUS
  <2>2. Joined(h, x + 1) = Joined(h, x) \o h[x + 1]
    BY <2>1, JoinedStep
  <2>3. Joined(h, x) \in Seq(X)
    BY <1>2, <2>1
  <2>4. \A a, b \in Seq(X) : a \o b \in Seq(X)
    OBVIOUS
  <2> HIDE DEF S
  <2> QED BY <2>1, <2>2, <2>3, <2>4
<1>3. Nat \subseteq S
  <2> HIDE DEF S
  <2> QED BY <1>1, <1>2, NatSetInduction
<1>4. Len(h) \in Nat
  OBVIOUS
<1>5. ASSUME NEW k \in 0 .. Len(h) PROVE Joined(h, k) \in Seq(X)
  BY <1>3, <1>4
<1> QED BY <1>5, LenProperties DEF End

LEMMA EndStep ==
  ASSUME NEW X, NEW h \in Seq(Seq(X)), NEW k \in 1 .. Len(h)
  PROVE  /\ End(h, k - 1) \in Nat /\ End(h, k) \in Nat
         /\ End(h, k) = End(h, k - 1) + Len(h[k])
         /\ \A j \in 1 .. Len(h[k]) : Joined(h, k)[End(h, k - 1) + j] = h[k][j]
         /\ \A j \in 1 .. End(h, k - 1) : Joined(h, k)[j] = Joined(h, k - 1)[j]
<1> DEFINE a == Joined(h, k - 1)
           b == h[k]
<1>1. a \in Seq(X) /\ b \in Seq(X) /\ Joined(h, k) \in Seq(X)
  BY JoinedType
<1>2. Joined(h, k) = a \o b
  BY JoinedStep
<1> HIDE DEF a, b
<1>3. Len(a) \in Nat /\ Len(b) \in Nat /\ Len(a \o b) = Len(a) + Len(b)
  BY <1>1
<1>4. \A j \in 1 .. Len(b) : (a \o b)[Len(a) + j] = b[j]
  BY <1>1, <1>3
<1>5. \A j \in 1 .. Len(a) : (a \o b)[j] = a[j]
  BY <1>1, <1>3
<1>6. End(h, k - 1) = Len(a) /\ Joined(h, k - 1) = a
  BY DEF End, a
<1>7. End(h, k) = Len(a \o b)
  BY <1>2 DEF End
<1>8. h[k] = b
  BY DEF b
<1> QED BY <1>2, <1>3, <1>4, <1>5, <1>6, <1>7, <1>8, SMTT(30)

\* The first k stand at the beginning of the first n.
LEMMA JoinedPrefix ==
  ASSUME NEW X, NEW h \in Seq(Seq(X)), NEW k \in 0 .. Len(h)
  PROVE  \A n \in k .. Len(h) :
           /\ End(h, k) <= End(h, n)
           /\ \A j \in 1 .. End(h, k) : Joined(h, n)[j] = Joined(h, k)[j]
<1> DEFINE P(n) == /\ End(h, k) <= End(h, n)
                   /\ \A j \in 1 .. End(h, k) : Joined(h, n)[j] = Joined(h, k)[j]
           S == {x \in Nat : x >= k /\ x <= Len(h) => P(x)}
<1>0. Len(h) \in Nat /\ End(h, k) \in Nat
  BY JoinedType
<1>a. P(k)
  BY <1>0
<1>1. 0 \in S
  BY <1>0, <1>a
<1>2. ASSUME NEW x \in Nat, x \in S PROVE x + 1 \in S
  <2> SUFFICES ASSUME x + 1 >= k, x + 1 <= Len(h) PROVE P(x + 1)
    OBVIOUS
  <2>1. CASE x + 1 = k
    BY <1>a, <2>1
  <2>2. CASE x >= k
    <3>1. P(x) /\ x + 1 \in 1 .. Len(h) /\ (x + 1) - 1 = x
      BY <1>2, <2>2, <1>0
    <3>2. /\ End(h, x) \in Nat /\ End(h, x + 1) \in Nat /\ Len(h[x + 1]) \in Nat
          /\ End(h, x + 1) = End(h, x) + Len(h[x + 1])
          /\ \A j \in 1 .. End(h, x) : Joined(h, x + 1)[j] = Joined(h, x)[j]
      <4> DEFINE y == x + 1
      <4>1. y \in 1 .. Len(h) /\ y - 1 = x /\ Len(h[y]) \in Nat
        BY <3>1
      <4> HIDE DEF y
      <4>2. /\ End(h, y - 1) \in Nat /\ End(h, y) \in Nat
            /\ End(h, y) = End(h, y - 1) + Len(h[y])
            /\ \A j \in 1 .. End(h, y - 1) : Joined(h, y)[j] = Joined(h, y - 1)[j]
        BY <4>1, EndStep
      <4> QED BY <4>1, <4>2 DEF y
    <3>3. End(h, k) <= End(h, x)
      BY <3>1
    <3>4. ASSUME NEW j \in 1 .. End(h, k) PROVE Joined(h, x + 1)[j] = Joined(h, k)[j]
      <4>1. j \in 1 .. End(h, x)
        BY <1>0, <3>2, <3>3
      <4> QED BY <3>1, <3>2, <4>1
    <3> QED BY <1>0, <3>2, <3>3, <3>4
  <2> QED BY <1>0, <2>1, <2>2
<1>3. Nat \subseteq S
  <2> HIDE DEF S
  <2> QED BY <1>1, <1>2, NatSetInduction
<1> QED BY <1>0, <1>3

\* Where each of h stands in the whole.
LEMMA JoinedAt ==
  ASSUME NEW X, NEW h \in Seq(Seq(X))
  PROVE  /\ FlattenSeq(h) \in Seq(X)
         /\ Len(FlattenSeq(h)) = End(h, Len(h))
         /\ \A k \in 1 .. Len(h) :
              /\ End(h, k - 1) \in Nat /\ Len(h[k]) \in Nat
              /\ End(h, k) = End(h, k - 1) + Len(h[k])
              /\ End(h, k) <= Len(FlattenSeq(h))
              /\ \A j \in 1 .. Len(h[k]) : FlattenSeq(h)[End(h, k - 1) + j] = h[k][j]
              /\ SubSeq(FlattenSeq(h), End(h, k - 1) + 1, End(h, k)) = h[k]
<1> DEFINE n == Len(h)
           s == FlattenSeq(h)
<1>1. n \in Nat /\ s = Joined(h, n) /\ s \in Seq(X) /\ Len(s) = End(h, n)
  BY JoinedIs, JoinedType DEF End
<1> HIDE DEF s
<1>2. ASSUME NEW k \in 1 .. n
      PROVE  /\ End(h, k - 1) \in Nat /\ Len(h[k]) \in Nat
             /\ End(h, k) = End(h, k - 1) + Len(h[k])
             /\ End(h, k) <= Len(s)
             /\ \A j \in 1 .. Len(h[k]) : s[End(h, k - 1) + j] = h[k][j]
             /\ SubSeq(s, End(h, k - 1) + 1, End(h, k)) = h[k]
  <2> DEFINE b == h[k]
             o == End(h, k - 1)
  <2>1. b \in Seq(X) /\ Len(b) \in Nat /\ k \in 0 .. n /\ n \in k .. n
    BY <1>1
  <2>2. /\ o \in Nat /\ End(h, k) = o + Len(b)
        /\ \A j \in 1 .. Len(b) : Joined(h, k)[o + j] = b[j]
    BY EndStep
  <2>3. /\ End(h, k) <= Len(s)
        /\ \A j \in 1 .. End(h, k) : s[j] = Joined(h, k)[j]
    BY <1>1, <2>1, JoinedPrefix
  <2> HIDE DEF b, o
  <2>4. ASSUME NEW j \in 1 .. Len(b) PROVE s[o + j] = b[j]
    <3>1. o + j \in 1 .. End(h, k)
      BY <2>1, <2>2
    <3> QED BY <2>2, <2>3, <3>1
  <2>5. SubSeq(s, o + 1, o + Len(b)) = b
    <3> DEFINE c == SubSeq(s, o + 1, o + Len(b))
    <3>1. c \in Seq(X) /\ Len(c) = Len(b) /\ \A j \in 1 .. Len(b) : c[j] = s[o + j]
      BY <1>1, <2>1, <2>2, <2>3
    <3> HIDE DEF c
    <3>2. \A j \in 1 .. Len(b) : c[j] = b[j]
      BY <2>4, <3>1
    <3>3. c = b
      BY <2>1, <3>1, <3>2
    <3> QED BY <3>3 DEF c
  <2> QED BY <2>1, <2>2, <2>3, <2>4, <2>5 DEF b, o
<1> QED BY <1>1, <1>2 DEF s

\* Nothing end to end is nothing.
LEMMA JoinedNothing ==
  ASSUME NEW X, NEW h \in Seq(Seq(X)), \A k \in 1 .. Len(h) : h[k] = <<>>
  PROVE  FlattenSeq(h) = <<>>
<1> DEFINE S == {x \in Nat : x <= Len(h) => Joined(h, x) = <<>>}
<1>1. 0 \in S
  BY DEF Joined
<1>2. ASSUME NEW x \in Nat, x \in S PROVE x + 1 \in S
  <2> SUFFICES ASSUME x + 1 <= Len(h) PROVE Joined(h, x + 1) = <<>>
    OBVIOUS
  <2>1. Len(h) \in Nat /\ x + 1 \in 1 .. Len(h) /\ (x + 1) - 1 = x /\ h[x + 1] = <<>>
    OBVIOUS
  <2>2. Joined(h, x + 1) = Joined(h, x) \o h[x + 1]
    BY <2>1, JoinedStep
  <2>3. Joined(h, x) = <<>>
    BY <1>2, <2>1
  <2>4. <<>> \o <<>> = <<>>
    OBVIOUS
  <2> QED BY <2>1, <2>2, <2>3, <2>4
<1>3. Nat \subseteq S
  <2> HIDE DEF S
  <2> QED BY <1>1, <1>2, NatSetInduction
<1> QED BY <1>3, JoinedIs

(***************************************************************************)
(* A walk over bytes: the recursive functions of CaDescriptors, Cut and    *)
(* ReadStreams.  It ends in T with B and goes from i to N[i] with H[i].    *)
(***************************************************************************)
Walks(T, B, H, N, f) == f = [i \in Nat |-> IF i \in T THEN B[i] ELSE H[i] \o f[N[i]]]

\* Each step goes on, and the end comes at L.
Forward(L, T, N) ==
  /\ L \in Nat
  /\ \A i \in Nat : i >= L => i \in T
  /\ \A i \in Nat : i \notin T => N[i] \in Nat /\ N[i] > i

LEMMA WalkExists ==
  ASSUME NEW L, NEW T, NEW B, NEW H, NEW N, Forward(L, T, N)
  PROVE  \E f : Walks(T, B, H, N, f)
<1> DEFINE From(x) == {i \in Nat : i + x >= L}
           Part(x, f) == f = [i \in From(x) |-> IF i \in T THEN B[i] ELSE H[i] \o f[N[i]]]
           S == {x \in Nat : \E f : Part(x, f)}
<1> USE DEF Forward
<1>1. 0 \in S
  <2>1. Part(0, [i \in From(0) |-> B[i]])
    OBVIOUS
  <2> QED BY <2>1
<1>2. ASSUME NEW x \in Nat, x \in S PROVE x + 1 \in S
  <2>1. PICK f : Part(x, f)
    BY <1>2
  <2> DEFINE g == [i \in From(x + 1) |->
                     IF i \in From(x) THEN f[i]
                     ELSE IF i \in T THEN B[i] ELSE H[i] \o f[N[i]]]
  <2>2. ASSUME NEW i \in From(x + 1)
        PROVE  g[i] = IF i \in T THEN B[i] ELSE H[i] \o g[N[i]]
    <3>0. i \in Nat /\ i + (x + 1) >= L
      OBVIOUS
    <3>1. i \notin T => N[i] \in From(x + 1) /\ N[i] \in From(x)
      BY <3>0
    <3>2. i \notin T => g[N[i]] = f[N[i]]
      BY <3>1
    <3>3. CASE i \in From(x)
      <4>1. g[i] = f[i]
        BY <3>3
      <4>2. f[i] = IF i \in T THEN B[i] ELSE H[i] \o f[N[i]]
        BY <2>1, <3>3
      <4> HIDE DEF g, From
      <4> QED BY <3>2, <4>1, <4>2
    <3>4. CASE i \notin From(x)
      <4>1. g[i] = IF i \in T THEN B[i] ELSE H[i] \o f[N[i]]
        BY <3>4
      <4> HIDE DEF g, From
      <4> QED BY <3>2, <4>1
    <3> QED BY <3>3, <3>4
  <2>3. Part(x + 1, g)
    <3>1. g = [i \in From(x + 1) |-> g[i]]
      OBVIOUS
    <3> HIDE DEF g, From
    <3> QED BY <2>2, <3>1, Zenon
  <2> HIDE DEF Part, g
  <2> QED BY <2>3
<1>3. Nat \subseteq S
  <2> HIDE DEF S
  <2> QED BY <1>1, <1>2, NatSetInduction
<1>4. PICK f : Part(L, f)
  BY <1>3
<1>5. From(L) = Nat
  OBVIOUS
<1>6. Walks(T, B, H, N, f)
  BY <1>4, <1>5 DEF Walks
<1> QED BY <1>6

\* The pieces of h, whose ends are O, are steps one after the other, or nothing
\* and no step.
Visits(T, B, H, N, h, O) ==
  /\ \A k \in 0 .. Len(h) : O[k] \in Nat
  /\ O[Len(h)] \in T /\ B[O[Len(h)]] = <<>>
  /\ \A k \in 1 .. Len(h) :
       \/ O[k] = O[k - 1] /\ h[k] = <<>>
       \/ O[k - 1] \notin T /\ N[O[k - 1]] = O[k] /\ H[O[k - 1]] = h[k]

\* So a walk over the pieces of h brings them all.
LEMMA WalkJoins ==
  ASSUME NEW T, NEW B, NEW H, NEW N, NEW f, Walks(T, B, H, N, f),
         NEW X, NEW h \in Seq(Seq(X)), NEW O, Visits(T, B, H, N, h, O)
  PROVE  f[O[0]] = FlattenSeq(h)
<1> DEFINE n == Len(h)
           P(k) == f[O[k]] \in Seq(X) /\ Joined(h, k) \o f[O[k]] = FlattenSeq(h)
           S == {x \in Nat : x <= n => P(n - x)}
<1> USE DEF Visits
<1>0. h \in Seq(Seq(X))
  OBVIOUS
<1>1. n \in Nat
  OBVIOUS
<1>2. \A i \in Nat : f[i] = IF i \in T THEN B[i] ELSE H[i] \o f[N[i]]
  BY DEF Walks
<1>3. P(n)
  <2>1. f[O[n]] = <<>>
    BY <1>1, <1>2
  <2>2. Joined(h, n) \in Seq(X) /\ FlattenSeq(h) = Joined(h, n)
    BY <1>1, JoinedType, JoinedIs
  <2>3. \A s \in Seq(X) : s \o <<>> = s
    OBVIOUS
  <2> QED BY <2>1, <2>2, <2>3
<1>4. ASSUME NEW k \in 1 .. n, P(k) PROVE P(k - 1)
  <2> DEFINE a == Joined(h, k - 1)
             b == h[k]
             c == f[O[k]]
  <2>0. k \in 1 .. Len(h) /\ b \in Seq(X)
    BY <1>0
  <2>1. Joined(h, k) = Joined(h, k - 1) \o h[k]
    BY ONLY <1>0, <2>0, JoinedStep
  <2>2. a \in Seq(X)
    BY <1>1, JoinedType
  <2>3. c \in Seq(X) /\ Joined(h, k) \o c = FlattenSeq(h)
    BY <1>4
  <2>4. f[O[k - 1]] = b \o c
    <3>1. CASE O[k] = O[k - 1] /\ h[k] = <<>>
      <4>1. \A s \in Seq(X) : <<>> \o s = s
        OBVIOUS
      <4>2. f[O[k - 1]] = c /\ b = <<>>
        BY <3>1
      <4> HIDE DEF b, c
      <4> QED BY <2>3, <4>1, <4>2
    <3>2. CASE O[k - 1] \notin T /\ N[O[k - 1]] = O[k] /\ H[O[k - 1]] = h[k]
      <4>1. O[k - 1] \in Nat
        BY <1>1
      <4>2. f[O[k - 1]] = H[O[k - 1]] \o f[N[O[k - 1]]]
        BY <1>2, <3>2, <4>1
      <4> QED BY <3>2, <4>2
    <3> QED BY <3>1, <3>2
  <2> HIDE DEF a, b, c
  <2>5. b \o c \in Seq(X) /\ (a \o b) \o c = a \o (b \o c)
    <3>1. \A r, s, t \in Seq(X) : s \o t \in Seq(X) /\ (r \o s) \o t = r \o (s \o t)
      BY SMTT(30)
    <3> QED BY <2>0, <2>2, <2>3, <3>1
  <2>6. Joined(h, k) = a \o b
    BY <2>1 DEF a, b
  <2>7. a \o (b \o c) = FlattenSeq(h)
    BY <2>3, <2>5, <2>6
  <2> QED BY <2>4, <2>5, <2>7 DEF a, P
<1> HIDE DEF P
<1>5. 0 \in S
  BY <1>1, <1>3
<1>6. ASSUME NEW x \in Nat, x \in S PROVE x + 1 \in S
  <2> SUFFICES ASSUME x + 1 <= n PROVE P(n - (x + 1))
    OBVIOUS
  <2>1. P(n - x)
    BY <1>1, <1>6
  <2>2. n - x \in 1 .. n /\ (n - x) - 1 = n - (x + 1)
    BY <1>1
  <2> HIDE DEF S, n
  <2>3. P((n - x) - 1)
    BY <1>4, <2>1, <2>2
  <2> QED BY <2>2, <2>3
<1>7. Nat \subseteq S
  <2> HIDE DEF S
  <2> QED BY <1>5, <1>6, NatSetInduction
<1>8. P(0)
  <2>1. n \in S /\ n - n = 0
    BY <1>1, <1>7
  <2>2. P(n - n)
    BY <1>1, <2>1
  <2> QED BY <2>1, <2>2
<1>9. \A s \in Seq(X) : <<>> \o s = s
  OBVIOUS
<1> QED BY <1>8, <1>9 DEF Joined, P

(***************************************************************************)
(* The descriptors that are sent.                                          *)
(***************************************************************************)
Byte == 0 .. 255
Mine(d, systems) == d[1] = CaTag /\ 256 * d[3] + d[4] \in systems

LEMMA Bytes == ASSUME NEW x \in Byte PROVE x \in Nat /\ x < 256
BY DEF Byte

LEMMA DescriptorType ==
  ASSUME NEW ds \in Seq(Descriptor)
  PROVE  /\ ds \in Seq(Seq(Byte)) /\ Len(ds) \in Nat
         /\ \A k \in 1 .. Len(ds) :
              /\ ds[k] \in Seq(Byte) /\ Len(ds[k]) \in Nat /\ Len(ds[k]) >= 2
              /\ ds[k][2] \in Nat /\ ds[k][2] < 254 /\ Len(ds[k]) = ds[k][2] + 2
              /\ ds[k][1] = CaTag => Len(ds[k]) >= 6
<1>1. Descriptor \subseteq Seq(Byte)
  BY DEF Descriptor, Byte
<1>2. ds \in Seq(Seq(Byte)) /\ Len(ds) \in Nat
  BY <1>1, SeqMonotonic, LenProperties
<1>3. ASSUME NEW k \in 1 .. Len(ds)
      PROVE  /\ ds[k] \in Seq(Byte) /\ Len(ds[k]) \in Nat /\ Len(ds[k]) >= 2
             /\ ds[k][2] \in Nat /\ ds[k][2] < 254 /\ Len(ds[k]) = ds[k][2] + 2
             /\ ds[k][1] = CaTag => Len(ds[k]) >= 6
  <2> DEFINE d == ds[k]
  <2>1. d \in Descriptor
    BY ElementOfSeq
  <2> HIDE DEF d
  <2>2. /\ d \in Seq(0 .. 255) /\ Len(d) >= 2 /\ Len(d) = d[2] + 2 /\ d[2] < 254
        /\ d[1] = CaTag => d[2] >= 4
    BY <2>1 DEF Descriptor
  <2>3. Len(d) \in Nat /\ d[2] \in Nat
    <3>1. Len(d) \in Nat
      BY <2>2, LenProperties
    <3>2. 2 \in 1 .. Len(d)
      BY <2>2, <3>1
    <3>3. d[2] \in 0 .. 255
      BY ONLY <2>2, <3>2, ElementOfSeq
    <3> QED BY <3>1, <3>3, Bytes DEF Byte
  <2>5. d[1] = CaTag => Len(d) >= 6
    BY <2>2, <2>3
  <2>4. d \in Seq(Byte)
    BY <2>2 DEF Byte
  <2>6. d[2] < 254 /\ Len(d) = d[2] + 2 /\ Len(d) >= 2
    BY <2>2
  <2> QED BY <2>3, <2>4, <2>5, <2>6 DEF d
<1> QED BY <1>2, <1>3

\* The recursive function in CaDescriptors.
PlacesTo(info, f) ==
  f = [i \in Nat |->
         IF i + 1 >= Len(info) THEN <<>>
         ELSE (IF info[i + 1] = CaTag THEN <<i>> ELSE <<>>) \o f[i + info[i + 2] + 2]]
Places(info) == CHOOSE f : PlacesTo(info, f)

LEMMA CaDescriptorsAre ==
  ASSUME NEW ds \in Seq(Descriptor)
  PROVE  CaDescriptors(FlattenSeq(ds)) =
           FlattenSeq([k \in 1 .. Len(ds) |->
                         IF ds[k][1] = CaTag THEN <<End(ds, k - 1)>> ELSE <<>>])
<1> DEFINE info == FlattenSeq(ds)
           T == {i \in Nat : i + 1 >= Len(info)}
           B == [i \in Nat |-> <<>>]
           H == [i \in Nat |-> IF info[i + 1] = CaTag THEN <<i>> ELSE <<>>]
           N == [i \in Nat |-> i + info[i + 2] + 2]
           h == [k \in 1 .. Len(ds) |-> IF ds[k][1] = CaTag THEN <<End(ds, k - 1)>> ELSE <<>>]
           O == [k \in 0 .. Len(ds) |-> End(ds, k)]
<1>1. /\ ds \in Seq(Seq(Byte)) /\ Len(ds) \in Nat
      /\ \A k \in 1 .. Len(ds) :
           /\ Len(ds[k]) \in Nat /\ Len(ds[k]) >= 2 /\ ds[k][2] \in Nat
           /\ Len(ds[k]) = ds[k][2] + 2
  BY DescriptorType
<1>2. /\ info \in Seq(Byte) /\ Len(info) = End(ds, Len(ds)) /\ Len(info) \in Nat
      /\ \A k \in 1 .. Len(ds) :
           /\ End(ds, k - 1) \in Nat
           /\ End(ds, k) = End(ds, k - 1) + Len(ds[k])
           /\ End(ds, k) <= Len(info)
           /\ \A j \in 1 .. Len(ds[k]) : info[End(ds, k - 1) + j] = ds[k][j]
  BY <1>1, JoinedAt, LenProperties
<1>3. \A k \in 0 .. Len(ds) : End(ds, k) \in Nat
  BY <1>1, JoinedType
<1>4. CaDescriptors(info) = Places(info)[0]
  BY DEF CaDescriptors, Places, PlacesTo
<1> HIDE DEF info
<1>5. \A i \in Nat : i \notin T => info[i + 2] \in Nat
  <2>1. \A i \in Nat : i \notin T => i + 2 \in 1 .. Len(info)
    BY <1>2
  <2>2. \A j \in 1 .. Len(info) : info[j] \in Byte
    BY <1>2, ElementOfSeq
  <2> HIDE DEF T
  <2> QED BY <2>1, <2>2, Bytes
<1>6. Forward(Len(info), T, N)
  <2>1. \A i \in Nat : i >= Len(info) => i \in T
    BY <1>2
  <2>2. ASSUME NEW i \in Nat, i \notin T PROVE N[i] \in Nat /\ N[i] > i
    <3>1. info[i + 2] \in Nat
      BY <1>5, <2>2
    <3>2. N[i] = i + info[i + 2] + 2
      OBVIOUS
    <3> HIDE DEF N
    <3> QED BY <3>1, <3>2
  <2> HIDE DEF T, N
  <2> QED BY <1>2, <2>1, <2>2 DEF Forward
<1>7. \A f : PlacesTo(info, f) <=> Walks(T, B, H, N, f)
  <2> SUFFICES ASSUME NEW f PROVE PlacesTo(info, f) <=> Walks(T, B, H, N, f)
    OBVIOUS
  <2>1. [i \in Nat |->
           IF i + 1 >= Len(info) THEN <<>>
           ELSE (IF info[i + 1] = CaTag THEN <<i>> ELSE <<>>) \o f[i + info[i + 2] + 2]]
        = [i \in Nat |-> IF i \in T THEN B[i] ELSE H[i] \o f[N[i]]]
    OBVIOUS
  <2> QED BY <2>1 DEF PlacesTo, Walks
<1> HIDE DEF T, B, H, N
<1>8. Walks(T, B, H, N, Places(info))
  <2>1. \E f : PlacesTo(info, f)
    BY <1>6, <1>7, WalkExists
  <2>2. PlacesTo(info, Places(info))
    BY <2>1, Zenon DEF Places
  <2> QED BY <1>7, <2>2
<1>9. h \in Seq(Seq(Nat)) /\ Len(h) = Len(ds)
  BY <1>1, <1>2
<1>10. O[Len(h)] \in T /\ B[O[Len(h)]] = <<>>
  BY <1>1, <1>2, <1>3, <1>9 DEF T, B
<1>11. ASSUME NEW k \in 1 .. Len(h)
       PROVE  O[k - 1] \notin T /\ N[O[k - 1]] = O[k] /\ H[O[k - 1]] = h[k]
  <2> DEFINE o == End(ds, k - 1)
             d == ds[k]
  <2>1. /\ k \in 1 .. Len(ds) /\ o \in Nat /\ Len(d) \in Nat /\ Len(d) >= 2 /\ d[2] \in Nat
        /\ Len(d) = d[2] + 2 /\ End(ds, k) = o + Len(d) /\ End(ds, k) <= Len(info)
        /\ O[k - 1] = o /\ O[k] = End(ds, k)
    BY <1>1, <1>2, <1>9
  <2>2. info[o + 1] = d[1] /\ info[o + 2] = d[2]
    <3>1. 1 \in 1 .. Len(d) /\ 2 \in 1 .. Len(d)
      BY <2>1
    <3>2. \A j \in 1 .. Len(d) : info[o + j] = d[j]
      BY <1>2, <2>1
    <3> QED BY <3>1, <3>2
  <2>3. h[k] = IF d[1] = CaTag THEN <<o>> ELSE <<>>
    BY <2>1
  <2> HIDE DEF o, d, O, h
  <2>4. o \notin T
    BY <1>2, <2>1, SMTT(30) DEF T
  <2>5. N[o] = End(ds, k)
    BY <2>1, <2>2, SMTT(30) DEF N
  <2>6. H[o] = h[k]
    BY <2>1, <2>2, <2>3 DEF H
  <2> QED BY <2>1, <2>4, <2>5, <2>6
<1>12. \A k \in 0 .. Len(h) : O[k] \in Nat
  BY <1>3, <1>9
<1>13. O[0] = 0
  BY <1>1 DEF End, Joined
<1> HIDE DEF h, O
<1>14. Visits(T, B, H, N, h, O)
  BY <1>10, <1>11, <1>12 DEF Visits
<1>15. Places(info)[O[0]] = FlattenSeq(h)
  BY <1>8, <1>9, <1>14, WalkJoins
<1> QED BY <1>4, <1>13, <1>15 DEF h, info

\* One more at the end.
LEMMA JoinedAppend ==
  ASSUME NEW X, NEW s \in Seq(Seq(X)), NEW a \in Seq(X)
  PROVE  FlattenSeq(Append(s, a)) = FlattenSeq(s) \o a
<1> DEFINE r == Append(s, a)
           n == Len(s)
           S == {x \in Nat : x <= n => Joined(r, x) = Joined(s, x)}
<1>1. /\ r \in Seq(Seq(X)) /\ n \in Nat /\ Len(r) = n + 1 /\ r[n + 1] = a
      /\ \A k \in 1 .. n : r[k] = s[k]
  OBVIOUS
<1> HIDE DEF r
<1>2. 0 \in S
  BY DEF Joined
<1>3. ASSUME NEW x \in Nat, x \in S PROVE x + 1 \in S
  <2> SUFFICES ASSUME x + 1 <= n PROVE Joined(r, x + 1) = Joined(s, x + 1)
    OBVIOUS
  <2> DEFINE y == x + 1
  <2>1. y \in 1 .. Len(r) /\ y \in 1 .. Len(s) /\ y - 1 = x /\ r[y] = s[y]
    BY <1>1
  <2>2. Joined(r, x) = Joined(s, x)
    BY <1>1, <1>3
  <2> HIDE DEF y
  <2>3. Joined(r, y) = Joined(r, y - 1) \o r[y]
    BY ONLY <1>1, <2>1, JoinedStep
  <2>4. Joined(s, y) = Joined(s, y - 1) \o s[y]
    BY <2>1, JoinedStep
  <2>5. Joined(r, y) = Joined(s, y)
    BY <2>1, <2>2, <2>3, <2>4
  <2> QED BY <2>5 DEF y
<1>4. Nat \subseteq S
  <2> HIDE DEF S
  <2> QED BY <1>2, <1>3, NatSetInduction
<1>5. Joined(r, n) = Joined(s, n)
  BY <1>1, <1>4
<1>6. FlattenSeq(s) = Joined(s, n)
  BY JoinedIs
<1>7. FlattenSeq(r) = Joined(r, n + 1)
  BY <1>1, JoinedIs
<1>8. Joined(r, n + 1) = Joined(r, n) \o a
  <2> DEFINE y == n + 1
  <2>1. y \in 1 .. Len(r) /\ y - 1 = n /\ r[y] = a
    BY <1>1
  <2> HIDE DEF y
  <2>2. Joined(r, y) = Joined(r, y - 1) \o r[y]
    BY ONLY <1>1, <2>1, JoinedStep
  <2>3. Joined(r, y) = Joined(r, n) \o a
    BY <2>1, <2>2
  <2> QED BY <2>3 DEF y
<1> QED BY <1>5, <1>6, <1>7, <1>8 DEF r

\* What g makes of each of s.
Mapped(s, g) == [j \in 1 .. Len(s) |-> g[s[j]]]

LEMMA MappedAppend ==
  ASSUME NEW X, NEW Y, NEW g, Sends(g, X, Y), NEW s \in Seq(X), NEW x \in X
  PROVE  /\ Mapped(s, g) \in Seq(Y)
         /\ Mapped(Append(s, x), g) = Append(Mapped(s, g), g[x])
<1> DEFINE r == Append(s, x)
           m == Mapped(s, g)
<1> USE DEF Sends
<1>1. /\ Len(s) \in Nat /\ Len(r) = Len(s) + 1 /\ r[Len(s) + 1] = x
      /\ \A j \in 1 .. Len(s) : r[j] = s[j] /\ s[j] \in X
  OBVIOUS
<1> HIDE DEF r
<1>2. m \in Seq(Y) /\ Len(m) = Len(s) /\ \A j \in 1 .. Len(s) : m[j] = g[s[j]]
  BY <1>1 DEF Mapped
<1> HIDE DEF m
<1>3. /\ Append(m, g[x]) \in Seq(Y) /\ Len(Append(m, g[x])) = Len(s) + 1
      /\ Append(m, g[x])[Len(s) + 1] = g[x]
      /\ \A j \in 1 .. Len(s) : Append(m, g[x])[j] = g[s[j]]
  BY <1>1, <1>2
<1>4. \A j \in 1 .. Len(s) + 1 : g[r[j]] = Append(m, g[x])[j]
  BY <1>1, <1>3
<1>5. Append(m, g[x]) = [j \in 1 .. Len(r) |-> g[r[j]]]
  BY <1>1, <1>3, <1>4
<1> QED BY <1>2, <1>5 DEF m, r, Mapped

\* What g makes of the whole is what it makes of its pieces, if each of them is
\* one or nothing.
Replaced(h, g) == [k \in 1 .. Len(h) |-> IF h[k] = <<>> THEN <<>> ELSE g[h[k][1]]]

OneAtMost(h, X) == \A k \in 1 .. Len(h) : h[k] = <<>> \/ \E x \in X : h[k] = <<x>>

LEMMA MappedJoined ==
  ASSUME NEW X, NEW Y, NEW h \in Seq(Seq(X)), NEW g, Sends(g, X, Seq(Y)), OneAtMost(h, X)
  PROVE  FlattenSeq(Mapped(FlattenSeq(h), g)) = FlattenSeq(Replaced(h, g))
<1> DEFINE n == Len(h)
           q == [k \in 1 .. n |-> IF h[k] = <<>> THEN <<>> ELSE g[h[k][1]]]
           P(x) == FlattenSeq(Mapped(Joined(h, x), g)) = Joined(q, x)
           S == {x \in Nat : x <= n => P(x)}
<1>0. g \in [X -> Seq(Y)]
  BY DEF Sends
<1>1. n \in Nat
  OBVIOUS
<1>2. ASSUME NEW k \in 1 .. n
      PROVE  (h[k] = <<>> /\ q[k] = <<>>) \/ \E x \in X : h[k] = <<x>> /\ q[k] = g[x]
  <2>1. \A x \in X : <<x>> # <<>> /\ <<x>>[1] = x
    OBVIOUS
  <2> QED BY <2>1 DEF OneAtMost
<1>3. q \in Seq(Seq(Y)) /\ Len(q) = n
  <2>1. \A k \in 1 .. n : q[k] \in Seq(Y)
    BY <1>0, <1>2
  <2>2. q = [k \in 1 .. n |-> q[k]]
    OBVIOUS
  <2> HIDE DEF q
  <2>3. q \in [1 .. n -> Seq(Y)]
    BY <2>1, <2>2
  <2> HIDE DEF n
  <2> QED BY <1>1, <2>3
<1> HIDE DEF q
<1>4. 0 \in S
  <2>1. Mapped(<<>>, g) = <<>>
    BY DEF Mapped
  <2>2. FlattenSeq(<<>>) = <<>>
    BY DEF FlattenSeq
  <2> QED BY <2>1, <2>2 DEF Joined
<1>5. ASSUME NEW k \in 1 .. n, P(k - 1) PROVE P(k)
  <2> DEFINE s == Joined(h, k - 1)
  <2>0. /\ h \in Seq(Seq(X)) /\ k \in 1 .. Len(h) /\ k \in 1 .. Len(q) /\ k - 1 \in 0 .. Len(h)
        /\ g \in [X -> Seq(Y)]
    BY <1>0, <1>1, <1>3
  <2>1. Joined(h, k) = s \o h[k]
    BY ONLY <2>0, JoinedStep
  <2>2. Joined(q, k) = Joined(q, k - 1) \o q[k]
    BY ONLY <2>0, <1>3, JoinedStep
  <2>3. s \in Seq(X)
    BY ONLY <2>0, JoinedType
  <2>4. Joined(q, k - 1) = FlattenSeq(Mapped(s, g))
    BY <1>5
  <2>7. Joined(q, k - 1) \in Seq(Y)
    BY <1>3, <2>0, JoinedType
  <2> HIDE DEF s
  <2>5. CASE h[k] = <<>> /\ q[k] = <<>>
    <3>1. s \o <<>> = s
      BY <2>3
    <3>2. Joined(q, k - 1) \o <<>> = Joined(q, k - 1)
      BY <2>7
    <3> QED BY <2>1, <2>2, <2>4, <2>5, <3>1, <3>2
  <2>6. ASSUME NEW x \in X, h[k] = <<x>>, q[k] = g[x] PROVE P(k)
    <3>1. s \o <<x>> = Append(s, x)
      BY <2>3
    <3>2. /\ Mapped(s, g) \in Seq(Seq(Y))
          /\ Mapped(Append(s, x), g) = Append(Mapped(s, g), g[x])
      <4>1. x \in X /\ Sends(g, X, Seq(Y))
        BY <2>0, <2>6 DEF Sends
      <4> QED BY ONLY <2>3, <4>1, MappedAppend
    <3>3. g[x] \in Seq(Y)
      BY <2>0
    <3>4. FlattenSeq(Append(Mapped(s, g), g[x])) = FlattenSeq(Mapped(s, g)) \o g[x]
      BY ONLY <3>2, <3>3, JoinedAppend
    <3> QED BY <2>1, <2>2, <2>4, <2>6, <3>1, <3>2, <3>4
  <2> QED BY <1>2, <2>5, <2>6
<1> HIDE DEF P
<1>6. ASSUME NEW x \in Nat, x \in S PROVE x + 1 \in S
  <2> SUFFICES ASSUME x + 1 <= n PROVE P(x + 1)
    OBVIOUS
  <2> DEFINE y == x + 1
  <2>1. y \in 1 .. n /\ y - 1 = x /\ P(x)
    BY <1>1, <1>6
  <2> HIDE DEF y
  <2>2. P(y)
    BY <1>5, <2>1
  <2> QED BY <2>2 DEF y
<1>7. Nat \subseteq S
  <2> HIDE DEF S
  <2> QED BY <1>4, <1>6, NatSetInduction
<1>8. P(n)
  BY <1>1, <1>7
<1>9. FlattenSeq(h) = Joined(h, n) /\ FlattenSeq(q) = Joined(q, n)
  BY <1>3, JoinedIs
<1> QED BY <1>8, <1>9 DEF P, q, Replaced

\* The descriptors of the module's systems, as bytes and as what is read.
Pieces(ds, systems) == [k \in 1 .. Len(ds) |-> IF Mine(ds[k], systems) THEN ds[k] ELSE <<>>]
Listed(ds, systems) == [k \in 1 .. Len(ds) |-> IF Mine(ds[k], systems) THEN <<ds[k]>> ELSE <<>>]

LEMMA PiecesType ==
  ASSUME NEW ds \in Seq(Descriptor), NEW systems
  PROVE  /\ Pieces(ds, systems) \in Seq(Seq(Byte)) /\ Len(Pieces(ds, systems)) = Len(ds)
         /\ Listed(ds, systems) \in Seq(Seq(Seq(Byte))) /\ Len(Listed(ds, systems)) = Len(ds)
<1>1. Len(ds) \in Nat /\ \A k \in 1 .. Len(ds) : ds[k] \in Seq(Byte)
  BY DescriptorType
<1>2. \A k \in 1 .. Len(ds) : /\ Pieces(ds, systems)[k] \in Seq(Byte)
                              /\ Listed(ds, systems)[k] \in Seq(Seq(Byte))
  BY <1>1 DEF Pieces, Listed
<1>3. /\ Sends(Pieces(ds, systems), 1 .. Len(ds), Seq(Byte))
      /\ Sends(Listed(ds, systems), 1 .. Len(ds), Seq(Seq(Byte)))
  BY <1>2 DEF Pieces, Listed, Sends
<1> QED BY ONLY <1>1, <1>3, AsSequence

LEMMA MatchingIs ==
  ASSUME NEW ds \in Seq(Descriptor), NEW systems
  PROVE  Matching(FlattenSeq(ds), systems) =
           IF \E k \in 1 .. Len(ds) : Mine(ds[k], systems)
           THEN <<OkDescrambling>> \o FlattenSeq(Pieces(ds, systems))
           ELSE <<>>
<1> DEFINE info == FlattenSeq(ds)
           n == Len(ds)
           MineAt(i) == 256 * info[i + 3] + info[i + 4] \in systems
           CopyAt(i) == IF MineAt(i) THEN SubSeq(info, i + 1, i + ((info[i + 2] + 2) % 256)) ELSE <<>>
           Tagged == {k \in 1 .. n : ds[k][1] = CaTag}
           X == {End(ds, k - 1) : k \in Tagged}
           h == [k \in 1 .. n |-> IF ds[k][1] = CaTag THEN <<End(ds, k - 1)>> ELSE <<>>]
           places == FlattenSeq(h)
           g == [i \in X |-> CopyAt(i)]
<1>1. /\ ds \in Seq(Seq(Byte)) /\ n \in Nat
      /\ \A k \in 1 .. n :
           /\ ds[k] \in Seq(Byte) /\ Len(ds[k]) \in Nat /\ Len(ds[k]) >= 2
           /\ ds[k][2] \in Nat /\ ds[k][2] < 254 /\ Len(ds[k]) = ds[k][2] + 2
           /\ ds[k][1] = CaTag => Len(ds[k]) >= 6
  BY DescriptorType
<1>2. \A k \in 1 .. n :
        /\ End(ds, k - 1) \in Nat
        /\ End(ds, k) = End(ds, k - 1) + Len(ds[k])
        /\ \A j \in 1 .. Len(ds[k]) : info[End(ds, k - 1) + j] = ds[k][j]
        /\ SubSeq(info, End(ds, k - 1) + 1, End(ds, k)) = ds[k]
  BY <1>1, JoinedAt, ZenonT(30)
<1>3. CaDescriptors(info) = places
  BY CaDescriptorsAre
<1> HIDE DEF info
<1>4. ASSUME NEW k \in Tagged
      PROVE  /\ MineAt(End(ds, k - 1)) <=> Mine(ds[k], systems)
             /\ CopyAt(End(ds, k - 1)) = Pieces(ds, systems)[k]
  <2> DEFINE o == End(ds, k - 1)
             d == ds[k]
  <2>1. /\ k \in 1 .. n /\ d[1] = CaTag /\ Len(d) \in Nat /\ Len(d) >= 6
        /\ d[2] \in Nat /\ d[2] < 254 /\ Len(d) = d[2] + 2
    BY <1>1
  <2>2. /\ o \in Nat /\ \A j \in 1 .. Len(d) : info[o + j] = d[j]
        /\ End(ds, k) = o + Len(d) /\ SubSeq(info, o + 1, End(ds, k)) = d
    BY <1>2, <2>1
  <2>3. Pieces(ds, systems)[k] = IF Mine(d, systems) THEN d ELSE <<>>
    BY <2>1 DEF Pieces
  <2> HIDE DEF o, d
  <2>4. 2 \in 1 .. Len(d) /\ 3 \in 1 .. Len(d) /\ 4 \in 1 .. Len(d)
    BY <2>1
  <2>5. info[o + 2] = d[2] /\ info[o + 3] = d[3] /\ info[o + 4] = d[4]
    BY <2>2, <2>4
  <2>6. (d[2] + 2) % 256 = Len(d)
    BY <2>1
  <2>7. MineAt(o) <=> Mine(d, systems)
    BY <2>1, <2>5 DEF Mine
  <2>8. SubSeq(info, o + 1, o + ((info[o + 2] + 2) % 256)) = d
    BY <2>2, <2>5, <2>6
  <2> QED BY <2>3, <2>7, <2>8 DEF o, d
<1>5. h \in Seq(Seq(X)) /\ Len(h) = n
  <2>1. \A k \in Tagged : End(ds, k - 1) \in X
    OBVIOUS
  <2> HIDE DEF X
  <2>2. \A k \in 1 .. n : h[k] \in Seq(X)
    BY <2>1
  <2>3. Sends(h, 1 .. n, Seq(X))
    BY <2>2 DEF Sends
  <2> HIDE DEF h
  <2> QED BY ONLY <1>1, <2>3, AsSequence
<1>6. Sends(g, X, Seq(Byte))
  <2>1. \A k \in Tagged : Pieces(ds, systems)[k] \in Seq(Byte)
    BY <1>1 DEF Pieces
  <2>2. \A i \in X : CopyAt(i) \in Seq(Byte)
    <3> SUFFICES ASSUME NEW k \in Tagged PROVE CopyAt(End(ds, k - 1)) \in Seq(Byte)
      OBVIOUS
    <3> QED BY <1>4, <2>1
  <2> HIDE DEF CopyAt, X
  <2> QED BY <2>2 DEF Sends
<1>7. OneAtMost(h, X)
  BY <1>5 DEF OneAtMost
<1>8. /\ places \in Seq(X) /\ Len(places) \in Nat /\ DOMAIN places = 1 .. Len(places)
      /\ \A k \in 1 .. Len(h) :
           /\ End(h, k - 1) \in Nat /\ End(h, k) = End(h, k - 1) + Len(h[k])
           /\ End(h, k) <= Len(places)
           /\ \A j \in 1 .. Len(h[k]) : places[End(h, k - 1) + j] = h[k][j]
  <2> HIDE DEF h, X
  <2> QED BY <1>5, JoinedAt, LenProperties
<1>9. \A j \in 1 .. Len(places) : places[j] \in X
  <2> HIDE DEF X, places
  <2> QED BY <1>8, ElementOfSeq
<1>10. [j \in DOMAIN places |-> CopyAt(places[j])] = Mapped(places, g)
  <2> HIDE DEF X, places, CopyAt
  <2> QED BY <1>8, <1>9 DEF Mapped
<1>11. FlattenSeq(Mapped(places, g)) = FlattenSeq(Pieces(ds, systems))
  <2> DEFINE q == [k \in 1 .. Len(h) |-> IF h[k] = <<>> THEN <<>> ELSE g[h[k][1]]]
  <2>1. \A k \in 1 .. n : q[k] = Pieces(ds, systems)[k]
    <3> SUFFICES ASSUME NEW k \in 1 .. n PROVE q[k] = Pieces(ds, systems)[k]
      OBVIOUS
    <3>1. CASE ds[k][1] = CaTag
      <4>1. k \in Tagged /\ End(ds, k - 1) \in X /\ h[k] = <<End(ds, k - 1)>>
        BY <3>1
      <4>2. h[k] # <<>> /\ h[k][1] = End(ds, k - 1)
        BY <4>1
      <4>3. q[k] = g[h[k][1]]
        BY <1>5, <4>2
      <4>4. g[End(ds, k - 1)] = CopyAt(End(ds, k - 1))
        BY <4>1
      <4> HIDE DEF g, q, h, CopyAt, X
      <4> QED BY <1>4, <4>1, <4>2, <4>3, <4>4
    <3>2. CASE ds[k][1] # CaTag
      <4>1. h[k] = <<>> /\ ~Mine(ds[k], systems)
        BY <3>2 DEF Mine
      <4> QED BY <1>5, <4>1 DEF Pieces
    <3> QED BY <3>1, <3>2
  <2>2. q = Pieces(ds, systems)
    <3>1. q = [k \in 1 .. n |-> q[k]]
      BY <1>5, ZenonT(30)
    <3>2. Pieces(ds, systems) = [k \in 1 .. n |-> Pieces(ds, systems)[k]]
      BY DEF Pieces
    <3> HIDE DEF q
    <3> QED BY <2>1, <3>1, <3>2
  <2> HIDE DEF g, h, X
  <2>3. FlattenSeq(Mapped(FlattenSeq(h), g)) = FlattenSeq(q)
    <3>1. FlattenSeq(Mapped(FlattenSeq(h), g)) = FlattenSeq(Replaced(h, g))
      BY ONLY <1>5, <1>6, <1>7, MappedJoined
    <3> QED BY <3>1 DEF Replaced
  <2> QED BY <2>2, <2>3
<1>12. (\E j \in DOMAIN places : MineAt(places[j])) <=> \E k \in 1 .. n : Mine(ds[k], systems)
  <2>1. ASSUME NEW j \in DOMAIN places, MineAt(places[j])
        PROVE  \E k \in 1 .. n : Mine(ds[k], systems)
    <3>1. PICK k \in Tagged : places[j] = End(ds, k - 1)
      <4> HIDE DEF places
      <4> QED BY <1>8, <1>9
    <3> HIDE DEF places, MineAt
    <3> QED BY <1>4, <2>1, <3>1
  <2>2. ASSUME NEW k \in 1 .. n, Mine(ds[k], systems)
        PROVE  \E j \in DOMAIN places : MineAt(places[j])
    <3>1. k \in Tagged
      BY <2>2 DEF Mine
    <3>2. h[k] = <<End(ds, k - 1)>>
      BY <3>1
    <3>3. Len(h[k]) = 1 /\ h[k][1] = End(ds, k - 1)
      BY <3>2
    <3> HIDE DEF h
    <3>4. End(h, k - 1) + 1 \in 1 .. Len(places) /\ places[End(h, k - 1) + 1] = End(ds, k - 1)
      <4>1. k \in 1 .. Len(h) /\ 1 \in 1 .. Len(h[k])
        BY <1>5, <3>3
      <4> HIDE DEF places
      <4>2. /\ End(h, k - 1) \in Nat /\ End(h, k) = End(h, k - 1) + Len(h[k])
            /\ End(h, k) <= Len(places) /\ Len(places) \in Nat
            /\ places[End(h, k - 1) + 1] = h[k][1]
        BY <1>8, <4>1
      <4> QED BY <3>3, <4>2
    <3> QED BY <1>4, <1>8, <2>2, <3>1, <3>4, ZenonT(30)
  <2> QED BY <2>1, <2>2
<1>13. Matching(info, systems) =
         IF \E j \in DOMAIN places : MineAt(places[j])
         THEN <<OkDescrambling>> \o FlattenSeq([j \in DOMAIN places |-> CopyAt(places[j])])
         ELSE <<>>
  <2> HIDE DEF places
  <2> QED BY <1>3 DEF Matching
<1> HIDE DEF MineAt, CopyAt, places, g
<1> QED BY <1>10, <1>11, <1>12, <1>13 DEF info

\* The recursive function in Cut.
CutTo(bytes, f) ==
  f = [i \in Nat |->
         IF i = Len(bytes) THEN <<>>
         ELSE IF i + 1 >= Len(bytes) \/ i + 2 + bytes[i + 2] > Len(bytes) THEN <<Malformed>>
         ELSE <<SubSeq(bytes, i + 1, i + 2 + bytes[i + 2])>> \o f[i + 2 + bytes[i + 2]]]
CutFrom(bytes) == CHOOSE f : CutTo(bytes, f)

LEMMA CutIs ==
  ASSUME NEW ds \in Seq(Descriptor), NEW systems
  PROVE  Cut(FlattenSeq(Pieces(ds, systems))) = FlattenSeq(Listed(ds, systems))
<1> DEFINE p == Pieces(ds, systems)
           h == Listed(ds, systems)
           n == Len(ds)
           bytes == FlattenSeq(p)
           L == Len(bytes)
           T == {i \in Nat : i = L \/ i + 1 >= L \/ i + 2 + bytes[i + 2] > L}
           B == [i \in Nat |-> IF i = L THEN <<>> ELSE <<Malformed>>]
           H == [i \in Nat |-> <<SubSeq(bytes, i + 1, i + 2 + bytes[i + 2])>>]
           N == [i \in Nat |-> i + 2 + bytes[i + 2]]
           O == [k \in 0 .. n |-> End(p, k)]
<1>1. /\ p \in Seq(Seq(Byte)) /\ Len(p) = n /\ n \in Nat
      /\ h \in Seq(Seq(Seq(Byte))) /\ Len(h) = n
  BY PiecesType, DescriptorType
<1>2. \A k \in 1 .. n :
        \/ p[k] = <<>> /\ h[k] = <<>>
        \/ /\ p[k] = ds[k] /\ h[k] = <<ds[k]>> /\ Len(ds[k]) \in Nat /\ Len(ds[k]) >= 2
           /\ ds[k][2] \in Nat /\ Len(ds[k]) = ds[k][2] + 2
  BY DescriptorType DEF Pieces, Listed
<1> HIDE DEF p, h
<1>3. /\ bytes \in Seq(Byte) /\ L = End(p, n) /\ L \in Nat
      /\ \A k \in 1 .. n :
           /\ End(p, k - 1) \in Nat
           /\ End(p, k) = End(p, k - 1) + Len(p[k])
           /\ End(p, k) <= L
           /\ \A j \in 1 .. Len(p[k]) : bytes[End(p, k - 1) + j] = p[k][j]
           /\ SubSeq(bytes, End(p, k - 1) + 1, End(p, k)) = p[k]
  <2>1. /\ bytes \in Seq(Byte) /\ L = End(p, Len(p))
        /\ \A k \in 1 .. Len(p) :
             /\ End(p, k - 1) \in Nat
             /\ End(p, k) = End(p, k - 1) + Len(p[k])
             /\ End(p, k) <= L
             /\ \A j \in 1 .. Len(p[k]) : bytes[End(p, k - 1) + j] = p[k][j]
             /\ SubSeq(bytes, End(p, k - 1) + 1, End(p, k)) = p[k]
    BY <1>1, JoinedAt
  <2> HIDE DEF bytes
  <2>2. L \in Nat
    BY <2>1, LenProperties
  <2> QED BY <1>1, <2>1, <2>2
<1>4. \A k \in 0 .. n : End(p, k) \in Nat
  BY <1>1, JoinedType
<1>5. Cut(bytes) = CutFrom(bytes)[0]
  BY DEF Cut, CutFrom, CutTo
<1> HIDE DEF bytes
<1>6. \A i \in Nat : i + 1 < L => bytes[i + 2] \in Nat
  <2>1. \A i \in Nat : i + 1 < L => i + 2 \in 1 .. L
    BY <1>3
  <2>2. \A j \in 1 .. L : bytes[j] \in Byte
    BY <1>3, ElementOfSeq
  <2> HIDE DEF L
  <2> QED BY <2>1, <2>2, Bytes
<1>7. Forward(L, T, N)
  BY <1>3, <1>6 DEF Forward
<1>8. \A f : CutTo(bytes, f) <=> Walks(T, B, H, N, f)
  <2> SUFFICES ASSUME NEW f PROVE CutTo(bytes, f) <=> Walks(T, B, H, N, f)
    OBVIOUS
  <2>1. [i \in Nat |->
           IF i = Len(bytes) THEN <<>>
           ELSE IF i + 1 >= Len(bytes) \/ i + 2 + bytes[i + 2] > Len(bytes) THEN <<Malformed>>
           ELSE <<SubSeq(bytes, i + 1, i + 2 + bytes[i + 2])>> \o f[i + 2 + bytes[i + 2]]]
        = [i \in Nat |-> IF i \in T THEN B[i] ELSE H[i] \o f[N[i]]]
    OBVIOUS
  <2> QED BY <2>1 DEF CutTo, Walks
<1> HIDE DEF T, B, H, N, L
<1>9. Walks(T, B, H, N, CutFrom(bytes))
  <2>1. \E f : CutTo(bytes, f)
    BY <1>7, <1>8, WalkExists
  <2>2. CutTo(bytes, CutFrom(bytes))
    BY <2>1, Zenon DEF CutFrom
  <2> QED BY <1>8, <2>2
<1>10. O[Len(h)] \in T /\ B[O[Len(h)]] = <<>>
  BY <1>1, <1>3, <1>4 DEF T, B
<1>11. ASSUME NEW k \in 1 .. Len(h)
       PROVE  \/ O[k] = O[k - 1] /\ h[k] = <<>>
              \/ O[k - 1] \notin T /\ N[O[k - 1]] = O[k] /\ H[O[k - 1]] = h[k]
  <2> DEFINE o == End(p, k - 1)
             d == ds[k]
  <2>1. /\ k \in 1 .. n /\ o \in Nat /\ End(p, k) = o + Len(p[k]) /\ End(p, k) <= L
        /\ O[k - 1] = o /\ O[k] = End(p, k)
    BY <1>1, <1>3, SMTT(30)
  <2>2. CASE p[k] = <<>> /\ h[k] = <<>>
    BY <2>1, <2>2
  <2>3. CASE /\ p[k] = d /\ h[k] = <<d>> /\ Len(d) \in Nat /\ Len(d) >= 2
             /\ d[2] \in Nat /\ Len(d) = d[2] + 2
    <3>1. bytes[o + 2] = d[2] /\ SubSeq(bytes, o + 1, End(p, k)) = d
      <4>1. 2 \in 1 .. Len(d)
        BY <2>3
      <4> QED BY <1>3, <2>1, <2>3, <4>1
    <3> HIDE DEF o, d, O
    <3>2. End(p, k) = o + 2 + bytes[o + 2]
      BY <2>1, <2>3, <3>1, SMTT(30)
    <3>3. o \notin T
      <4>1. /\ L \in Nat /\ bytes[o + 2] \in Nat
            /\ o + 2 <= L /\ o + 2 + bytes[o + 2] <= L
        BY <1>3, <2>1, <2>3, <3>1, <3>2, SMTT(30)
      <4> QED BY <2>1, <4>1 DEF T
    <3>4. N[o] = End(p, k)
      BY <2>1, <3>2 DEF N
    <3>5. H[o] = h[k]
      BY <2>1, <2>3, <3>1, <3>2 DEF H
    <3> QED BY <2>1, <3>3, <3>4, <3>5
  <2> QED BY <1>2, <2>1, <2>2, <2>3
<1>12. \A k \in 0 .. Len(h) : O[k] \in Nat
  BY <1>1, <1>4
<1>13. O[0] = 0
  BY <1>1 DEF End, Joined
<1> HIDE DEF O
<1>14. Visits(T, B, H, N, h, O)
  BY <1>10, <1>11, <1>12 DEF Visits
<1>15. CutFrom(bytes)[O[0]] = FlattenSeq(h)
  BY <1>1, <1>9, <1>14, WalkJoins
<1> QED BY <1>5, <1>13, <1>15 DEF h, bytes, p

\* What the module should read is what is listed.
LEMMA ChosenIs ==
  ASSUME NEW ds \in Seq(Descriptor), NEW systems
  PROVE  Chosen(ds, systems) = FlattenSeq(Listed(ds, systems))
<1>1. DOMAIN ds = 1 .. Len(ds)
  BY LenProperties
<1>2. [k \in DOMAIN ds |-> IF ds[k][1] = CaTag /\ 256 * ds[k][3] + ds[k][4] \in systems
                           THEN <<ds[k]>> ELSE <<>>] = Listed(ds, systems)
  BY <1>1 DEF Listed, Mine
<1> QED BY <1>2 DEF Chosen

LEMMA LoopRead ==
  ASSUME NEW ds \in Seq(Descriptor), NEW systems
  PROVE  /\ Matching(FlattenSeq(ds), systems) \in Seq(Byte)
         /\ ReadLoop(Matching(FlattenSeq(ds), systems)) = Chosen(ds, systems)
<1> DEFINE s == FlattenSeq(Pieces(ds, systems))
           m == Matching(FlattenSeq(ds), systems)
           Some == \E k \in 1 .. Len(ds) : Mine(ds[k], systems)
<1>1. s \in Seq(Byte)
  BY PiecesType, JoinedAt
<1>2. m = IF Some THEN <<OkDescrambling>> \o s ELSE <<>>
  BY MatchingIs
<1>3. Cut(s) = Chosen(ds, systems)
  BY CutIs, ChosenIs
<1> HIDE DEF s, m
<1>4. CASE Some
  <2>1. OkDescrambling \in Byte
    BY DEF OkDescrambling, Byte
  <2>2. /\ m \in Seq(Byte) /\ m # <<>> /\ m[1] = OkDescrambling /\ Tail(m) = s
    <3> DEFINE c == OkDescrambling
    <3> HIDE DEF c, Some
    <3>1. \A t \in Seq(Byte), x \in Byte :
            /\ <<x>> \o t \in Seq(Byte) /\ <<x>> \o t # <<>> /\ (<<x>> \o t)[1] = x
            /\ Tail(<<x>> \o t) = t
      OBVIOUS
    <3> QED BY <1>1, <1>2, <1>4, <2>1, <3>1
  <2>3. ReadLoop(m) = Cut(s)
    BY <2>2 DEF ReadLoop
  <2> QED BY <1>3, <2>2, <2>3 DEF m
<1>5. CASE ~Some
  <2>1. m = <<>>
    BY <1>2, <1>5
  <2>2. \A k \in 1 .. Len(Listed(ds, systems)) : Listed(ds, systems)[k] = <<>>
    BY <1>5 DEF Listed
  <2>3. FlattenSeq(Listed(ds, systems)) = <<>>
    BY <2>2, PiecesType, JoinedNothing
  <2>4. ReadLoop(m) = Chosen(ds, systems)
    BY <2>1, <2>3, ChosenIs DEF ReadLoop
  <2> QED BY <2>1, <2>4 DEF m
<1> QED BY <1>4, <1>5

(***************************************************************************)
(* Where the module finds them.                                            *)
(***************************************************************************)
LEMMA JoinTwo ==
  ASSUME NEW X, NEW s \in Seq(X), NEW t \in Seq(X)
  PROVE  /\ s \o t \in Seq(X) /\ Len(s \o t) = Len(s) + Len(t)
         /\ \A j \in 1 .. Len(s) : (s \o t)[j] = s[j]
         /\ \A j \in 1 .. Len(t) : (s \o t)[Len(s) + j] = t[j]
<1>1. Len(s) \in Nat /\ Len(t) \in Nat
  OBVIOUS
<1> QED BY <1>1

LEMMA PartOf ==
  ASSUME NEW X, NEW s \in Seq(X), NEW i \in Nat, NEW n \in Nat, i + n <= Len(s)
  PROVE  /\ SubSeq(s, i + 1, i + n) \in Seq(X) /\ Len(SubSeq(s, i + 1, i + n)) = n
         /\ \A j \in 1 .. n : SubSeq(s, i + 1, i + n)[j] = s[i + j]
<1>1. Len(s) \in Nat
  OBVIOUS
<1> QED BY <1>1

LEMMA SplitWord ==
  ASSUME NEW n \in Nat
  PROVE  /\ n \div 256 \in Nat /\ n % 256 \in Nat
         /\ 256 * (n \div 256) + (n % 256) = n
         /\ n < 4096 => (240 + (n \div 256)) % 16 = n \div 256
         /\ n < 8192 => (224 + (n \div 256)) % 32 = n \div 256
<1> DEFINE q == n \div 256
           r == n % 256
<1>1. q \in Nat /\ r \in Nat /\ n = 256 * q + r
  OBVIOUS
<1> HIDE DEF q, r
<1>2. n < 4096 => (240 + q) % 16 = q
  <2> SUFFICES ASSUME q < 16 PROVE (240 + q) % 16 = q
    BY <1>1
  <2> QED BY <1>1
<1>3. n < 8192 => (224 + q) % 32 = q
  <2> SUFFICES ASSUME q < 32 PROVE (224 + q) % 32 = q
    BY <1>1
  <2> QED BY <1>1
<1> QED BY <1>1, <1>2, <1>3 DEF q, r

LEMMA MinOfTwo ==
  ASSUME NEW x \in Nat, NEW y \in Nat, x <= y
  PROVE  Min({x, y}) = x
<1>1. x \in {x, y} /\ \A z \in {x, y} : x <= z
  OBVIOUS
<1>2. \A m \in {x, y} : (\A z \in {x, y} : m <= z) => m = x
  OBVIOUS
<1> QED BY <1>1, <1>2 DEF Min

LEMMA LoopRules ==
  ASSUME NEW b, NEW i
  PROVE  /\ LoopLength(b, i) = 256 * (b[i] % 16) + b[i + 1]
         /\ LoopAt(b, i) = SubSeq(b, i + 2, Min({i + 1 + LoopLength(b, i), Len(b)}))
<1>1. LoopLength(b, i) = 256 * (b[i] % 16) + b[i + 1]
  BY Zenon DEF LoopLength
<1>2. LoopAt(b, i) = SubSeq(b, i + 2, Min({i + 1 + LoopLength(b, i), Len(b)}))
  BY Zenon DEF LoopAt
<1> QED BY <1>1, <1>2

\* The counted loop stands at i in b.
LoopStands(b, i, loop) ==
  /\ Len(loop) < 4096
  /\ i + 1 + Len(loop) <= Len(b)
  /\ b[i] = 240 + (Len(loop) \div 256)
  /\ b[i + 1] = Len(loop) % 256
  /\ \A j \in 1 .. Len(loop) : b[i + 1 + j] = loop[j]

LEMMA LoopFound ==
  ASSUME NEW b \in Seq(Nat), NEW i \in Nat \ {0}, NEW loop \in Seq(Byte), LoopStands(b, i, loop)
  PROVE  LoopLength(b, i) = Len(loop) /\ LoopAt(b, i) = loop
<1>0. /\ Len(loop) < 4096 /\ i + 1 + Len(loop) <= Len(b)
      /\ b[i] = 240 + (Len(loop) \div 256) /\ b[i + 1] = Len(loop) % 256
      /\ \A j \in 1 .. Len(loop) : b[i + 1 + j] = loop[j]
  BY DEF LoopStands
<1>1. Len(loop) \in Nat /\ Len(b) \in Nat
  OBVIOUS
<1>2. LoopLength(b, i) = Len(loop)
  <2> DEFINE n == Len(loop)
  <2>1. n \in Nat /\ n < 4096 /\ b[i] = 240 + (n \div 256) /\ b[i + 1] = n % 256
    BY <1>0, <1>1
  <2> HIDE DEF n
  <2>2. LoopLength(b, i) = 256 * (b[i] % 16) + b[i + 1]
    BY LoopRules
  <2>3. (240 + (n \div 256)) % 16 = n \div 256 /\ 256 * (n \div 256) + (n % 256) = n
    BY ONLY <2>1, SplitWord
  <2>4. LoopLength(b, i) = 256 * ((240 + (n \div 256)) % 16) + (n % 256)
    BY ONLY <2>1, <2>2
  <2>5. LoopLength(b, i) = n
    BY ONLY <2>3, <2>4
  <2> QED BY <2>5 DEF n
<1>3. Min({i + 1 + LoopLength(b, i), Len(b)}) = i + 1 + Len(loop)
  <2> DEFINE x == i + 1 + Len(loop)
             y == Len(b)
  <2>1. x \in Nat /\ y \in Nat /\ x <= y
    BY <1>0, <1>1
  <2> HIDE DEF x, y
  <2>2. Min({x, y}) = x
    BY <2>1, MinOfTwo
  <2> QED BY <1>2, <2>2 DEF x, y
<1> DEFINE n == Len(loop)
           m == i + 1
           c == SubSeq(b, m + 1, m + n)
<1>4. c \in Seq(Nat) /\ Len(c) = n /\ \A j \in 1 .. n : c[j] = b[m + j]
  <2>1. m \in Nat /\ n \in Nat /\ m + n <= Len(b) /\ b \in Seq(Nat)
    BY <1>0, <1>1
  <2> HIDE DEF m, n
  <2> QED BY <2>1, PartOf
<1>5. LoopAt(b, i) = c
  <2>1. m + 1 = i + 2 /\ m + n = i + 1 + Len(loop)
    OBVIOUS
  <2>2. LoopAt(b, i) = SubSeq(b, i + 2, Min({i + 1 + LoopLength(b, i), Len(b)}))
    BY LoopRules
  <2> HIDE DEF m, n
  <2> QED BY <1>3, <2>1, <2>2
<1> HIDE DEF c
<1>6. c = loop
  <2>1. \A j \in 1 .. n : c[j] = loop[j]
    BY <1>0, <1>4
  <2>2. c = [j \in 1 .. n |-> c[j]] /\ loop = [j \in 1 .. n |-> loop[j]]
    BY <1>4, LenProperties
  <2> QED BY <2>1, <2>2
<1> QED BY <1>2, <1>5, <1>6

\* An APDU; the number behind its tag, and what that counts.
Framed(b) == <<159, 128, 50>> \o LengthField(Len(b)) \o b
Field(apdu) == DecodeLengthField(SubSeq(apdu, 4, Min({6, Len(apdu)})))
Rest(apdu) == SubSeq(apdu, 4 + Field(apdu).size, Len(apdu))

LEMMA HeaderRead ==
  ASSUME NEW b \in Seq(Nat), Len(b) >= 6, Len(b) < 1024
  PROVE  Rest(Framed(b)) = b /\ Field(Framed(b)).len = Len(b)
<1> DEFINE n == Len(b)
           g == LengthField(n)
           apdu == (<<159, 128, 50>> \o g) \o b
           f == SubSeq(apdu, 4, 6)
<1>1. n \in Nat /\ n >= 6 /\ n < 1024
  OBVIOUS
<1>2. g \in Seq(Nat) /\ Len(g) \in {1, 2, 3}
  <2> HIDE DEF n
  <2>1. n % 256 \in Nat /\ (n \div 256) % 256 \in Nat
    BY <1>1
  <2>2. \A x, y, z \in Nat : /\ <<x>> \in Seq(Nat) /\ Len(<<x>>) = 1
                             /\ <<x, y>> \in Seq(Nat) /\ Len(<<x, y>>) = 2
                             /\ <<x, y, z>> \in Seq(Nat) /\ Len(<<x, y, z>>) = 3
    OBVIOUS
  <2> QED BY <1>1, <2>1, <2>2 DEF LengthField
<1> HIDE DEF g
<1>3. /\ apdu \in Seq(Nat) /\ Len(apdu) = 3 + Len(g) + n
      /\ \A j \in 1 .. Len(g) : apdu[3 + j] = g[j]
      /\ \A j \in 1 .. n : apdu[3 + Len(g) + j] = b[j]
  <2> DEFINE a == <<159, 128, 50>>
             h == a \o g
  <2>0. a \in Seq(Nat) /\ Len(a) = 3
    OBVIOUS
  <2> HIDE DEF a
  <2>1. h \in Seq(Nat) /\ Len(h) = 3 + Len(g) /\ \A j \in 1 .. Len(g) : h[3 + j] = g[j]
    <3>1. g \in Seq(Nat)
      BY <1>2
    <3>2. a \o g \in Seq(Nat) /\ Len(a \o g) = Len(a) + Len(g)
      BY ONLY <2>0, <3>1, JoinTwo
    <3>3. \A j \in 1 .. Len(g) : (a \o g)[Len(a) + j] = g[j]
      <4>1. \A s, t \in Seq(Nat) : \A j \in 1 .. Len(t) : (s \o t)[Len(s) + j] = t[j]
        BY JoinTwo
      <4> QED BY ONLY <2>0, <3>1, <4>1
    <3> HIDE DEF h
    <3>4. h = a \o g
      BY DEF h
    <3> QED BY ONLY <2>0, <3>2, <3>3, <3>4
  <2>2. apdu = h \o b
    BY DEF a
  <2> HIDE DEF h, apdu
  <2>5. b \in Seq(Nat) /\ Len(b) = n
    OBVIOUS
  <2>6. h \in Seq(Nat)
    BY <2>1
  <2>3. /\ apdu \in Seq(Nat) /\ Len(apdu) = Len(h) + n
        /\ \A j \in 1 .. Len(h) : apdu[j] = h[j]
        /\ \A j \in 1 .. n : apdu[Len(h) + j] = b[j]
    BY ONLY <2>2, <2>5, <2>6, JoinTwo
  <2>4. \A j \in 1 .. Len(g) : 3 + j \in 1 .. Len(h)
    BY <1>2, <2>1
  <2> QED BY <2>1, <2>3, <2>4
<1> HIDE DEF apdu
<1>4. Min({6, Len(apdu)}) = 6
  BY <1>1, <1>2, <1>3, MinOfTwo
<1>5. \A j \in 1 .. Len(g) : f[j] = g[j]
  <2>1. \A j \in 1 .. 3 : f[j] = apdu[3 + j]
    <3>1. 3 + 3 <= Len(apdu)
      BY <1>1, <1>2, <1>3
    <3>2. \A j \in 1 .. 3 : SubSeq(apdu, 3 + 1, 3 + 3)[j] = apdu[3 + j]
      BY <1>3, <3>1, PartOf
    <3> QED BY <3>2
  <2>2. \A j \in 1 .. Len(g) : j \in 1 .. 3
    <3>1. \A c \in {1, 2, 3} : \A j \in 1 .. c : j \in 1 .. 3
      OBVIOUS
    <3> QED BY ONLY <1>2, <3>1
  <2> HIDE DEF f
  <2> QED BY <1>3, <2>1, <2>2
<1> HIDE DEF f, n
<1>6. DecodeLengthField(f) = DecodeLengthField(g)
  <2>1. 1 \in 1 .. Len(g) /\ f[1] = g[1]
    <3>1. \A c \in {1, 2, 3} : 1 \in 1 .. c
      OBVIOUS
    <3>2. 1 \in 1 .. Len(g)
      BY ONLY <1>2, <3>1
    <3> QED BY <1>5, <3>2
  <2>2. CASE n <= 127
    <3>1. g[1] = n
      BY <1>1, <2>2 DEF g, LengthField
    <3> QED BY <1>1, <2>1, <2>2, <3>1 DEF DecodeLengthField
  <2>3. CASE n > 127 /\ n < 255
    <3>1. g[1] = 129 /\ Len(g) = 2
      BY <1>1, <2>3 DEF g, LengthField
    <3>2. f[2] = g[2]
      BY <1>5, <3>1
    <3> QED BY <2>1, <3>1, <3>2 DEF DecodeLengthField
  <2>4. CASE n >= 255
    <3>1. g[1] = 130 /\ Len(g) = 3
      BY <1>1, <2>4 DEF g, LengthField
    <3>2. f[2] = g[2] /\ f[3] = g[3]
      BY <1>5, <3>1
    <3> QED BY <2>1, <3>1, <3>2 DEF DecodeLengthField
  <2> QED BY <1>1, <2>2, <2>3, <2>4
<1>7. DecodeLengthField(g) = [len |-> n, size |-> Len(g)]
  BY <1>1, LengthFieldRight DEF g
<1>8. SubSeq(apdu, 4 + Len(g), Len(apdu)) = b
  <2> DEFINE m == 3 + Len(g)
             c == SubSeq(apdu, m + 1, m + n)
  <2>1. /\ m \in Nat /\ m + n <= Len(apdu) /\ 4 + Len(g) = m + 1 /\ Len(apdu) = m + n
        /\ \A j \in 1 .. n : apdu[m + j] = b[j]
    <3> DEFINE x == Len(g)
               y == Len(apdu)
    <3>1. x \in Nat /\ y = 3 + x + n /\ n \in Nat
      BY <1>1, <1>2, <1>3
    <3>2. \A j \in 1 .. n : apdu[3 + x + j] = b[j]
      BY <1>3
    <3>3. m = 3 + x
      OBVIOUS
    <3> HIDE DEF x, y, m
    <3>4. m \in Nat /\ m + n <= y /\ 4 + x = m + 1 /\ y = m + n
      BY ONLY <3>1, <3>3
    <3>5. \A j \in 1 .. n : apdu[m + j] = b[j]
      BY ONLY <3>2, <3>3
    <3> QED BY <3>4, <3>5 DEF x, y
  <2> HIDE DEF m
  <2>2. c \in Seq(Nat) /\ Len(c) = n /\ \A j \in 1 .. n : c[j] = apdu[m + j]
    <3>1. apdu \in Seq(Nat) /\ n \in Nat
      BY <1>1, <1>3
    <3>2. \A s \in Seq(Nat), i, k \in Nat : i + k <= Len(s) =>
            /\ SubSeq(s, i + 1, i + k) \in Seq(Nat) /\ Len(SubSeq(s, i + 1, i + k)) = k
            /\ \A j \in 1 .. k : SubSeq(s, i + 1, i + k)[j] = s[i + j]
      BY PartOf
    <3> QED BY <2>1, <3>1, <3>2
  <2> HIDE DEF c
  <2>3. Len(b) = n /\ \A j \in 1 .. n : c[j] = b[j]
    BY <2>1, <2>2 DEF n
  <2>4. c = b
    BY <2>2, <2>3, SeqEqual
  <2> QED BY <2>1, <2>4 DEF c
<1>9. DecodeLengthField(SubSeq(apdu, 4, Min({6, Len(apdu)}))) = [len |-> n, size |-> Len(g)]
  BY <1>4, <1>6, <1>7 DEF f
<1>10. Field(apdu).len = n /\ Field(apdu).size = Len(g)
  <2> DEFINE c == Len(g)
  <2>1. Field(apdu) = [len |-> n, size |-> c]
    BY <1>9 DEF Field
  <2> HIDE DEF c
  <2>2. Field(apdu).len = n /\ Field(apdu).size = c
    BY ONLY <2>1
  <2> QED BY <2>2 DEF c
<1>11. Rest(apdu) = b
  BY <1>8, <1>10 DEF Rest
<1>12. Framed(b) = apdu
  BY Zenon DEF Framed, apdu, g, n
<1> QED BY <1>10, <1>11, <1>12 DEF n

(***************************************************************************)
(* A stream: its type, its PID and its loop.                               *)
(***************************************************************************)
Pid(e, mode) == IF mode = Stop THEN NoPid ELSE e.pid
Loop(e, systems) == Matching(FlattenSeq(e.info), systems)

\* A stream stands at i in b.
StreamStands(b, i, e, mode, systems) ==
  /\ b[i] = e.type
  /\ b[i + 1] = 224 + (Pid(e, mode) \div 256)
  /\ b[i + 2] = Pid(e, mode) % 256
  /\ LoopStands(b, i + 3, Loop(e, systems))

LEMMA BytesAreNumbers == ASSUME NEW s \in Seq(Byte) PROVE s \in Seq(Nat)
<1>1. Len(s) \in Nat /\ s \in [1 .. Len(s) -> Byte]
  BY LenProperties
<1>2. \A j \in 1 .. Len(s) : s[j] \in Nat
  BY <1>1, Bytes
<1>3. Sends(s, 1 .. Len(s), Nat)
  BY <1>1, <1>2 DEF Sends
<1> QED BY ONLY <1>1, <1>3, AsSequence

LEMMA CountedIs ==
  ASSUME NEW loop \in Seq(Byte)
  PROVE  /\ Counted(loop) \in Seq(Nat) /\ Len(Counted(loop)) = 2 + Len(loop)
         /\ Counted(loop)[1] = 240 + (Len(loop) \div 256)
         /\ Counted(loop)[2] = Len(loop) % 256
         /\ \A j \in 1 .. Len(loop) : Counted(loop)[2 + j] = loop[j]
<1> DEFINE n == Len(loop)
           a == 240 + (n \div 256)
           c == n % 256
           s == <<a, c>>
<1>1. n \in Nat /\ a \in Nat /\ c \in Nat
  <2>1. n \in Nat
    OBVIOUS
  <2> HIDE DEF n
  <2> QED BY <2>1, SplitWord
<1>2. loop \in Seq(Nat)
  BY BytesAreNumbers
<1>3. Counted(loop) = s \o loop
  BY Zenon DEF Counted
<1> HIDE DEF a, c
<1>4. s \in Seq(Nat) /\ Len(s) = 2 /\ s[1] = a /\ s[2] = c
  BY <1>1
<1> HIDE DEF s
<1>5. s \o loop \in Seq(Nat) /\ Len(s \o loop) = Len(s) + Len(loop)
  BY ONLY <1>2, <1>4, JoinTwo
<1>6. \A x, y \in Seq(Nat) : /\ \A j \in 1 .. Len(x) : (x \o y)[j] = x[j]
                             /\ \A j \in 1 .. Len(y) : (x \o y)[Len(x) + j] = y[j]
  BY JoinTwo
<1>7. \A j \in 1 .. Len(s) : (s \o loop)[j] = s[j]
  BY ONLY <1>2, <1>4, <1>6
<1>8. \A j \in 1 .. Len(loop) : (s \o loop)[Len(s) + j] = loop[j]
  BY ONLY <1>2, <1>4, <1>6
<1>9. 1 \in 1 .. Len(s) /\ 2 \in 1 .. Len(s)
  BY <1>4
<1>10. (s \o loop)[1] = a /\ (s \o loop)[2] = c
  BY ONLY <1>4, <1>7, <1>9
<1> QED BY <1>3, <1>4, <1>5, <1>8, <1>10 DEF a, c

PidRange == 0 .. 8191

LEMMA Pids == ASSUME NEW x \in PidRange PROVE x \in Nat /\ x < 8192
BY DEF PidRange

LEMMA LoopType ==
  ASSUME NEW e \in SourceStream, NEW systems
  PROVE  /\ Loop(e, systems) \in Seq(Byte)
         /\ ReadLoop(Loop(e, systems)) = Chosen(e.info, systems)
<1>1. e.info \in Seq(Descriptor)
  BY DEF SourceStream, Info
<1> QED BY <1>1, LoopRead DEF Loop

LEMMA PidType ==
  ASSUME NEW e \in SourceStream, NEW mode
  PROVE  e.type \in Nat /\ Pid(e, mode) \in Nat /\ Pid(e, mode) < 8192
<1>1. e.type \in Byte /\ e.pid \in PidRange
  BY DEF SourceStream, Byte, PidRange
<1>2. e.type \in Nat /\ e.pid \in Nat /\ e.pid < 8192
  BY <1>1, Bytes, Pids
<1>3. CASE mode = Stop
  BY <1>2, <1>3 DEF Pid, NoPid
<1>4. CASE mode # Stop
  BY <1>2, <1>4 DEF Pid
<1> QED BY <1>3, <1>4

WordRange == 0 .. 65535

LEMMA Words == ASSUME NEW x \in WordRange PROVE x \in Nat /\ x < 65536
BY SMTT(30) DEF WordRange

LEMMA HeldParts ==
  ASSUME NEW e \in SourceStream
  PROVE  /\ Held(e).type = e.type /\ Held(e).pid = e.pid
         /\ Held(e).info = FlattenSeq(e.info)
  BY DEF Held, SourceStream

LEMMA StreamIs ==
  ASSUME NEW e \in SourceStream, NEW mode, NEW systems
  PROVE  Stream(Held(e), mode, systems) =
           <<e.type, 224 + (Pid(e, mode) \div 256), Pid(e, mode) % 256>>
             \o Counted(Loop(e, systems))
<1>1. /\ Held(e).type = e.type /\ Held(e).pid = e.pid
      /\ Held(e).info = FlattenSeq(e.info)
  BY HeldParts
<1>2. Stream(Held(e), mode, systems) =
        LET pid == IF mode = Stop THEN NoPid ELSE Held(e).pid
        IN  <<Held(e).type, 224 + (pid \div 256), pid % 256>>
              \o Counted(Matching(Held(e).info, systems))
  BY Zenon DEF Stream
<1> QED BY <1>1, <1>2 DEF Pid, Loop

\* What a stream is written as, and where the module reads it.
LEMMA StreamType ==
  ASSUME NEW e \in SourceStream, NEW mode, NEW systems
  PROVE  /\ Stream(Held(e), mode, systems) \in Seq(Nat)
         /\ Len(Loop(e, systems)) \in Nat
         /\ Len(Stream(Held(e), mode, systems)) = 5 + Len(Loop(e, systems))
         /\ Stream(Held(e), mode, systems)[1] = e.type
         /\ Stream(Held(e), mode, systems)[2] = 224 + (Pid(e, mode) \div 256)
         /\ Stream(Held(e), mode, systems)[3] = Pid(e, mode) % 256
         /\ Stream(Held(e), mode, systems)[4] = 240 + (Len(Loop(e, systems)) \div 256)
         /\ Stream(Held(e), mode, systems)[5] = Len(Loop(e, systems)) % 256
         /\ \A j \in 1 .. Len(Loop(e, systems)) :
              Stream(Held(e), mode, systems)[5 + j] = Loop(e, systems)[j]
<1>0. /\ Loop(e, systems) \in Seq(Byte)
      /\ e.type \in Nat /\ Pid(e, mode) \in Nat
      /\ Stream(Held(e), mode, systems) =
           <<e.type, 224 + (Pid(e, mode) \div 256), Pid(e, mode) % 256>>
             \o Counted(Loop(e, systems))
  <2>1. Loop(e, systems) \in Seq(Byte)
    BY LoopType
  <2>2. e.type \in Nat /\ Pid(e, mode) \in Nat
    BY PidType
  <2>3. Stream(Held(e), mode, systems) =
           <<e.type, 224 + (Pid(e, mode) \div 256), Pid(e, mode) % 256>>
             \o Counted(Loop(e, systems))
    BY StreamIs
  <2> QED BY <2>1, <2>2, <2>3
<1> DEFINE m == Loop(e, systems)
           pid == Pid(e, mode)
           t == e.type
           x == 224 + (pid \div 256)
           y == pid % 256
           s == <<t, x, y>>
           c == Counted(m)
           n == Len(m)
           z == Stream(Held(e), mode, systems)
<1>1. m \in Seq(Byte) /\ t \in Nat /\ pid \in Nat /\ z = s \o c
  BY <1>0
<1> HIDE DEF m, pid, t, z
<1>2. x \in Nat /\ y \in Nat
  BY <1>1, SplitWord
<1> HIDE DEF x, y
<1>3. s \in Seq(Nat) /\ Len(s) = 3 /\ s[1] = t /\ s[2] = x /\ s[3] = y
  BY <1>1, <1>2
<1>4. /\ c \in Seq(Nat) /\ Len(c) = 2 + n
      /\ c[1] = 240 + (n \div 256) /\ c[2] = n % 256
      /\ \A j \in 1 .. n : c[2 + j] = m[j]
  BY <1>1, CountedIs
<1>5. n \in Nat
  BY <1>1
<1> HIDE DEF s, c, n
<1>6. \A u, v \in Seq(Nat) : /\ \A j \in 1 .. Len(u) : (u \o v)[j] = u[j]
                             /\ \A j \in 1 .. Len(v) : (u \o v)[Len(u) + j] = v[j]
  BY JoinTwo
<1>7. z \in Seq(Nat) /\ Len(z) = 5 + n
  <2>1. s \o c \in Seq(Nat) /\ Len(s \o c) = Len(s) + Len(c)
    <3>1. \A u, v \in Seq(Nat) : u \o v \in Seq(Nat) /\ Len(u \o v) = Len(u) + Len(v)
      BY JoinTwo
    <3> QED BY ONLY <1>3, <1>4, <3>1
  <2> QED BY ONLY <1>1, <1>3, <1>4, <1>5, <2>1
<1>8. z[1] = t /\ z[2] = x /\ z[3] = y
  <2>1. \A j \in 1 .. Len(s) : z[j] = s[j]
    BY ONLY <1>1, <1>3, <1>4, <1>6, ZenonT(30)
  <2>2. 1 \in 1 .. Len(s) /\ 2 \in 1 .. Len(s) /\ 3 \in 1 .. Len(s)
    BY <1>3
  <2> QED BY ONLY <1>3, <2>1, <2>2
<1>9. \A j \in 1 .. 2 + n : z[3 + j] = c[j]
  <2>1. \A j \in 1 .. Len(c) : z[Len(s) + j] = c[j]
    BY ONLY <1>1, <1>3, <1>4, <1>6, ZenonT(30)
  <2> QED BY ONLY <1>3, <1>4, <2>1
<1>10. z[4] = c[1] /\ z[5] = c[2]
  <2>1. 1 \in 1 .. 2 + n /\ 2 \in 1 .. 2 + n /\ 3 + 1 = 4 /\ 3 + 2 = 5
    BY <1>5
  <2>2. z[3 + 1] = c[1] /\ z[3 + 2] = c[2]
    BY ONLY <1>9, <2>1
  <2> QED BY <2>2
<1>11. \A j \in 1 .. n : z[5 + j] = m[j]
  <2> SUFFICES ASSUME NEW j \in 1 .. n PROVE z[5 + j] = m[j]
    OBVIOUS
  <2>1. 2 + j \in 1 .. 2 + n /\ 3 + (2 + j) = 5 + j
    BY <1>5
  <2>2. z[3 + (2 + j)] = c[2 + j]
    BY ONLY <1>9, <2>1
  <2> QED BY <1>4, <2>1, <2>2
<1> QED BY <1>4, <1>5, <1>7, <1>8, <1>10, <1>11 DEF m, pid, t, x, y, n, z

\* The bytes of s stand in b behind o.
Behind(b, o, s) ==
  o + Len(s) <= Len(b) /\ \A j \in 1 .. Len(s) : b[o + j] = s[j]

LEMMA StreamPlaced ==
  ASSUME NEW e \in SourceStream, NEW mode, NEW systems, NEW b \in Seq(Nat), NEW o \in Nat,
         Len(b) < 4096, Behind(b, o, Stream(Held(e), mode, systems))
  PROVE  StreamStands(b, o + 1, e, mode, systems)
<1> DEFINE m == Loop(e, systems)
           n == Len(m)
           z == Stream(Held(e), mode, systems)
<1>1. /\ n \in Nat
      /\ z[1] = e.type /\ z[2] = 224 + (Pid(e, mode) \div 256) /\ z[3] = Pid(e, mode) % 256
      /\ z[4] = 240 + (n \div 256) /\ z[5] = n % 256
      /\ \A j \in 1 .. n : z[5 + j] = m[j]
  BY StreamType
<1>2. o + 5 + n <= Len(b) /\ Len(b) < 4096 /\ \A j \in 1 .. 5 + n : b[o + j] = z[j]
  <2>1. Len(z) = 5 + n /\ n \in Nat
    BY StreamType
  <2>2. o + Len(z) <= Len(b) /\ \A j \in 1 .. Len(z) : b[o + j] = z[j]
    BY DEF Behind
  <2> HIDE DEF n, z
  <2> QED BY <2>1, <2>2, SMTT(30)
<1> HIDE DEF m, n, z
<1>3. b[o + 1] = z[1] /\ b[o + 2] = z[2] /\ b[o + 3] = z[3] /\ b[o + 4] = z[4] /\ b[o + 5] = z[5]
  <2>1. 1 \in 1 .. 5 + n /\ 2 \in 1 .. 5 + n /\ 3 \in 1 .. 5 + n /\ 4 \in 1 .. 5 + n /\ 5 \in 1 .. 5 + n
    BY <1>1
  <2> QED BY ONLY <1>2, <2>1
<1>4. \A j \in 1 .. n : b[o + 5 + j] = m[j]
  <2> SUFFICES ASSUME NEW j \in 1 .. n PROVE b[o + 5 + j] = m[j]
    OBVIOUS
  <2>1. 5 + j \in 1 .. 5 + n /\ o + (5 + j) = o + 5 + j
    BY <1>1
  <2>2. b[o + (5 + j)] = z[5 + j]
    BY ONLY <1>2, <2>1
  <2> QED BY <1>1, <2>1, <2>2
<1>5. /\ o + 1 + 1 = o + 2 /\ o + 1 + 2 = o + 3 /\ o + 1 + 3 = o + 4
      /\ o + 4 + 1 = o + 5 /\ Len(b) \in Nat
  OBVIOUS
<1>6. LoopStands(b, o + 4, m)
  <2>1. n < 4096 /\ o + 4 + 1 + n <= Len(b)
    BY <1>1, <1>2, <1>5
  <2>2. b[o + 4] = 240 + (n \div 256) /\ b[o + 4 + 1] = n % 256
    BY ONLY <1>1, <1>3, <1>5
  <2>3. \A j \in 1 .. n : b[o + 4 + 1 + j] = m[j]
    BY ONLY <1>4, <1>5
  <2> QED BY ONLY <2>1, <2>2, <2>3 DEF LoopStands, n
<1>7. /\ b[o + 1] = e.type /\ b[o + 1 + 1] = 224 + (Pid(e, mode) \div 256)
      /\ b[o + 1 + 2] = Pid(e, mode) % 256
  BY ONLY <1>1, <1>3, <1>5
<1>8. LoopStands(b, o + 1 + 3, m)
  BY ONLY <1>5, <1>6
<1> QED BY <1>7, <1>8 DEF StreamStands, m

ReadAt(b, i) ==
  [type |-> b[i],
   pid |-> 256 * (b[i + 1] % 32) + b[i + 2],
   descriptors |-> ReadLoop(LoopAt(b, i + 3))]

\* What the module reads where a stream stands.
LEMMA StreamRead ==
  ASSUME NEW e \in SourceStream, NEW mode, NEW systems, NEW b \in Seq(Nat),
         NEW i \in Nat \ {0}, StreamStands(b, i, e, mode, systems)
  PROVE  /\ LoopLength(b, i + 3) = Len(Loop(e, systems))
         /\ ReadAt(b, i) = Shown(e, mode, systems)
<1>1. /\ b[i] = e.type
      /\ b[i + 1] = 224 + (Pid(e, mode) \div 256)
      /\ b[i + 2] = Pid(e, mode) % 256
      /\ LoopStands(b, i + 3, Loop(e, systems))
  BY DEF StreamStands
<1>2. LoopLength(b, i + 3) = Len(Loop(e, systems)) /\ LoopAt(b, i + 3) = Loop(e, systems)
  <2>1. i + 3 \in Nat \ {0}
    OBVIOUS
  <2>2. Loop(e, systems) \in Seq(Byte)
    BY LoopType
  <2> QED BY ONLY <1>1, <2>1, <2>2, LoopFound, b \in Seq(Nat)
<1>3. ReadLoop(LoopAt(b, i + 3)) = Chosen(e.info, systems)
  BY <1>2, LoopType
<1>4. 256 * (b[i + 1] % 32) + b[i + 2] = Pid(e, mode)
  <2> DEFINE n == Pid(e, mode)
  <2>1. n \in Nat /\ n < 8192
    BY PidType
  <2> HIDE DEF n
  <2>2. (224 + (n \div 256)) % 32 = n \div 256 /\ 256 * (n \div 256) + (n % 256) = n
    BY ONLY <2>1, SplitWord
  <2>3. b[i + 1] = 224 + (n \div 256) /\ b[i + 2] = n % 256
    BY <1>1 DEF n
  <2>4. 256 * (b[i + 1] % 32) + b[i + 2] = n
    BY ONLY <2>2, <2>3
  <2> QED BY <2>4 DEF n
<1>5. Shown(e, mode, systems) =
        [type |-> e.type, pid |-> Pid(e, mode), descriptors |-> Chosen(e.info, systems)]
  BY DEF Shown, Pid
<1> QED BY <1>1, <1>2, <1>3, <1>4, <1>5 DEF ReadAt

(***************************************************************************)
(* The streams.                                                            *)
(***************************************************************************)
Relevant(e) == e.type \in StreamTypes
Written(es, mode, systems) ==
  [k \in 1 .. Len(es) |->
     IF Relevant(es[k]) THEN Stream(Held(es[k]), mode, systems) ELSE <<>>]
Told(es, mode, systems) ==
  [k \in 1 .. Len(es) |-> IF Relevant(es[k]) THEN <<Shown(es[k], mode, systems)>> ELSE <<>>]
Tales(es, mode, systems) == {Shown(es[k], mode, systems) : k \in 1 .. Len(es)}

LEMMA WrittenType ==
  ASSUME NEW es \in Seq(SourceStream), NEW mode, NEW systems
  PROVE  /\ Len(es) \in Nat
         /\ Written(es, mode, systems) \in Seq(Seq(Nat))
         /\ Len(Written(es, mode, systems)) = Len(es)
         /\ Told(es, mode, systems) \in Seq(Seq(Tales(es, mode, systems)))
         /\ Len(Told(es, mode, systems)) = Len(es)
<1> DEFINE q == Written(es, mode, systems)
           h == Told(es, mode, systems)
           X == Tales(es, mode, systems)
           n == Len(es)
<1>1. n \in Nat /\ \A k \in 1 .. n : es[k] \in SourceStream
  BY LenProperties, ElementOfSeq
<1>2. \A k \in 1 .. n : q[k] \in Seq(Nat)
  <2> SUFFICES ASSUME NEW k \in 1 .. n PROVE q[k] \in Seq(Nat)
    OBVIOUS
  <2>1. Stream(Held(es[k]), mode, systems) \in Seq(Nat)
    BY <1>1, StreamType
  <2>2. <<>> \in Seq(Nat)
    OBVIOUS
  <2> QED BY <2>1, <2>2 DEF Written
<1>3. \A k \in 1 .. n : h[k] \in Seq(X)
  <2> SUFFICES ASSUME NEW k \in 1 .. n PROVE h[k] \in Seq(X)
    OBVIOUS
  <2>1. Shown(es[k], mode, systems) \in X
    BY DEF Tales
  <2> HIDE DEF X
  <2>2. <<Shown(es[k], mode, systems)>> \in Seq(X) /\ <<>> \in Seq(X)
    BY <2>1
  <2> QED BY <2>2 DEF Told
<1>4. Sends(q, 1 .. n, Seq(Nat))
  BY <1>2 DEF Sends, Written
<1>5. Sends(h, 1 .. n, Seq(X))
  <2> HIDE DEF X
  <2> QED BY <1>3 DEF Sends, Told
<1> HIDE DEF q, h, X, n
<1>6. q \in Seq(Seq(Nat)) /\ Len(q) = n
  BY ONLY <1>1, <1>4, AsSequence
<1>7. h \in Seq(Seq(X)) /\ Len(h) = n
  BY ONLY <1>1, <1>5, AsSequence
<1> QED BY <1>1, <1>6, <1>7 DEF q, h, X, n

StreamsTo(b, f) ==
  f = [i \in Nat |->
         IF i > Len(b) THEN <<>>
         ELSE IF i + 4 > Len(b) THEN <<Malformed>>
         ELSE <<ReadAt(b, i)>> \o f[i + 5 + LoopLength(b, i + 3)]]
StreamsFrom(b) == CHOOSE f : StreamsTo(b, f)

\* The walk it is: where it stops and with what, what it finds, where it goes on.
StreamStops(b) == {i \in Nat : i > Len(b) \/ i + 4 > Len(b)}
StreamEnds(b) == [i \in Nat |-> IF i > Len(b) THEN <<>> ELSE <<Malformed>>]
StreamHeads(b) == [i \in Nat |-> <<ReadAt(b, i)>>]
StreamNexts(b) == [i \in Nat |-> i + 5 + LoopLength(b, i + 3)]

LEMMA LoopLengthType ==
  ASSUME NEW b \in Seq(Nat), NEW i \in 1 .. Len(b) - 1
  PROVE  LoopLength(b, i) \in Nat
<1>1. i \in 1 .. Len(b) /\ i + 1 \in 1 .. Len(b)
  OBVIOUS
<1>2. \A j \in 1 .. Len(b) : b[j] \in Nat
  BY ElementOfSeq
<1>3. b[i] \in Nat /\ b[i + 1] \in Nat
  BY ONLY <1>1, <1>2
<1>4. LoopLength(b, i) = 256 * (b[i] % 16) + b[i + 1]
  BY ONLY LoopRules
<1>5. \A x, y \in Nat : 256 * (x % 16) + y \in Nat
  OBVIOUS
<1> QED BY ONLY <1>3, <1>4, <1>5

LEMMA StreamsWalk ==
  ASSUME NEW b \in Seq(Nat)
  PROVE  Walks(StreamStops(b), StreamEnds(b), StreamHeads(b), StreamNexts(b), StreamsFrom(b))
<1> DEFINE L == Len(b)
           T == StreamStops(b)
           B == StreamEnds(b)
           H == StreamHeads(b)
           N == StreamNexts(b)
<1>1. L \in Nat
  OBVIOUS
<1>2. Forward(L, T, N)
  <2>1. \A i \in Nat : i >= L => i \in T
    BY <1>1 DEF StreamStops
  <2>2. ASSUME NEW i \in Nat, i \notin T PROVE N[i] \in Nat /\ N[i] > i
    <3> DEFINE c == i + 3
               x == LoopLength(b, c)
    <3>1. c \in 1 .. L - 1
      BY <1>1, <2>2 DEF StreamStops
    <3>2. N[i] = i + 5 + x
      BY Zenon DEF StreamNexts
    <3> HIDE DEF c, L
    <3>3. x \in Nat
      BY <3>1, LoopLengthType DEF L
    <3> HIDE DEF x
    <3> QED BY <3>2, <3>3
  <2> QED BY <1>1, <2>1, <2>2 DEF Forward
<1>3. \A f : StreamsTo(b, f) <=> Walks(T, B, H, N, f)
  <2> SUFFICES ASSUME NEW f PROVE StreamsTo(b, f) <=> Walks(T, B, H, N, f)
    OBVIOUS
  <2> DEFINE F == [i \in Nat |->
                     IF i > Len(b) THEN <<>>
                     ELSE IF i + 4 > Len(b) THEN <<Malformed>>
                     ELSE <<ReadAt(b, i)>> \o f[i + 5 + LoopLength(b, i + 3)]]
             G == [i \in Nat |-> IF i \in T THEN B[i] ELSE H[i] \o f[N[i]]]
  <2>1. \A i \in Nat : F[i] = G[i]
    <3> SUFFICES ASSUME NEW i \in Nat PROVE F[i] = G[i]
      OBVIOUS
    <3>1. /\ H[i] = <<ReadAt(b, i)>> /\ N[i] = i + 5 + LoopLength(b, i + 3)
          /\ B[i] = IF i > Len(b) THEN <<>> ELSE <<Malformed>>
      BY Zenon DEF StreamHeads, StreamNexts, StreamEnds
    <3>2. i \in T <=> (i > Len(b) \/ i + 4 > Len(b))
      BY Zenon DEF StreamStops
    <3> QED BY <3>1, <3>2
  <2>2. F = G
    BY <2>1
  <2>3. StreamsTo(b, f) <=> f = F
    BY Zenon DEF StreamsTo
  <2>4. Walks(T, B, H, N, f) <=> f = G
    BY Zenon DEF Walks
  <2> HIDE DEF F, G
  <2> QED BY <2>2, <2>3, <2>4
<1> HIDE DEF T, B, H, N, L
<1>4. \E f : StreamsTo(b, f)
  BY <1>2, <1>3, WalkExists
<1>5. StreamsTo(b, StreamsFrom(b))
  BY <1>4, Zenon DEF StreamsFrom
<1> QED BY <1>3, <1>5 DEF T, B, H, N

LEMMA ReadStreamsIs == ASSUME NEW b, NEW i PROVE ReadStreams(b, i) = StreamsFrom(b)[i]
  BY DEF ReadStreams, StreamsFrom, StreamsTo, ReadAt

LEMMA StreamsRead ==
  ASSUME NEW es \in Seq(SourceStream), NEW mode, NEW systems, NEW b \in Seq(Nat), NEW o \in Nat,
         Len(b) < 4096, Behind(b, o, FlattenSeq(Written(es, mode, systems))),
         Len(b) = o + Len(FlattenSeq(Written(es, mode, systems)))
  PROVE  ReadStreams(b, o + 1) = FlattenSeq(Told(es, mode, systems))
<1> DEFINE p == Written(es, mode, systems)
           h == Told(es, mode, systems)
           n == Len(es)
           s == FlattenSeq(p)
           L == Len(b)
           T == StreamStops(b)
           B == StreamEnds(b)
           H == StreamHeads(b)
           N == StreamNexts(b)
           O == [k \in 0 .. n |-> o + 1 + End(p, k)]
<1>1. /\ p \in Seq(Seq(Nat)) /\ Len(p) = n /\ n \in Nat
      /\ h \in Seq(Seq(Tales(es, mode, systems))) /\ Len(h) = n
  BY WrittenType
<1>2. \A k \in 1 .. n :
        \/ p[k] = <<>> /\ h[k] = <<>>
        \/ /\ p[k] = Stream(Held(es[k]), mode, systems)
           /\ h[k] = <<Shown(es[k], mode, systems)>>
  BY DEF Written, Told
<1>3. \A k \in 1 .. n : es[k] \in SourceStream
  BY ElementOfSeq
<1>4. L \in Nat /\ L < 4096 /\ L = o + Len(s) /\ \A j \in 1 .. Len(s) : b[o + j] = s[j]
  BY DEF Behind
<1> HIDE DEF p, h
<1>5. /\ s \in Seq(Nat) /\ Len(s) = End(p, n) /\ Len(s) \in Nat
      /\ \A k \in 1 .. n :
           /\ End(p, k - 1) \in Nat /\ Len(p[k]) \in Nat
           /\ End(p, k) = End(p, k - 1) + Len(p[k])
           /\ End(p, k) <= Len(s)
           /\ \A j \in 1 .. Len(p[k]) : s[End(p, k - 1) + j] = p[k][j]
  <2>1. /\ s \in Seq(Nat) /\ Len(s) = End(p, Len(p))
        /\ \A k \in 1 .. Len(p) :
             /\ End(p, k - 1) \in Nat /\ Len(p[k]) \in Nat
             /\ End(p, k) = End(p, k - 1) + Len(p[k])
             /\ End(p, k) <= Len(s)
             /\ \A j \in 1 .. Len(p[k]) : s[End(p, k - 1) + j] = p[k][j]
    BY <1>1, JoinedAt, SMTT(30)
  <2> HIDE DEF s
  <2>2. Len(s) \in Nat
    BY <2>1, LenProperties
  <2> QED BY <1>1, <2>1, <2>2
<1>6. \A k \in 0 .. n : End(p, k) \in Nat
  BY <1>1, JoinedType
<1> HIDE DEF s
<1> HIDE DEF T, B, N, H, L
<1>10. Walks(T, B, H, N, StreamsFrom(b))
  BY StreamsWalk DEF T, B, N, H
<1>11. O[Len(h)] \in T /\ B[O[Len(h)]] = <<>>
  BY <1>1, <1>4, <1>5, <1>6 DEF T, B, L, StreamStops, StreamEnds
<1>12. ASSUME NEW k \in 1 .. Len(h)
       PROVE  \/ O[k] = O[k - 1] /\ h[k] = <<>>
              \/ O[k - 1] \notin T /\ N[O[k - 1]] = O[k] /\ H[O[k - 1]] = h[k]
  <2> DEFINE a == o + End(p, k - 1)
             e == es[k]
             m == Len(Loop(e, systems))
             z == Stream(Held(e), mode, systems)
  <2>1. /\ k \in 1 .. n /\ a \in Nat /\ O[k] = a + 1 + Len(p[k]) /\ a + Len(p[k]) <= L
        /\ O[k - 1] = a + 1 /\ Len(p[k]) \in Nat
    <3>1. k \in 1 .. n /\ k \in 0 .. n /\ k - 1 \in 0 .. n
      BY <1>1
    <3>2. /\ End(p, k - 1) \in Nat /\ Len(p[k]) \in Nat
          /\ End(p, k) = End(p, k - 1) + Len(p[k]) /\ End(p, k) <= Len(s)
      BY <1>5, <3>1
    <3>3. O[k] = o + 1 + End(p, k) /\ O[k - 1] = o + 1 + End(p, k - 1)
      BY <3>1
    <3>4. o \in Nat /\ Len(s) \in Nat /\ L = o + Len(s)
      BY <1>4, <1>5
    <3> HIDE DEF O
    <3>5. a = o + End(p, k - 1)
      OBVIOUS
    <3> DEFINE x == End(p, k - 1)
               y == End(p, k)
               l == Len(p[k])
    <3>6. x \in Nat /\ l \in Nat /\ y = x + l /\ y <= Len(s) /\ a = o + x
      BY <3>2, <3>5
    <3>10. l = Len(p[k])
      OBVIOUS
    <3> HIDE DEF a, x, y, l
    <3>7. a \in Nat /\ a + l <= L /\ o + 1 + y = a + 1 + l /\ o + 1 + x = a + 1
      BY ONLY <3>4, <3>6
    <3>8. O[k] = o + 1 + y /\ O[k - 1] = o + 1 + x
      BY <3>3 DEF x, y
    <3>9. O[k] = a + 1 + l /\ O[k - 1] = a + 1
      BY ONLY <3>7, <3>8
    <3> QED BY ONLY <3>1, <3>6, <3>7, <3>9, <3>10
  <2>2. CASE p[k] = <<>> /\ h[k] = <<>>
    BY <2>1, <2>2
  <2>3. CASE p[k] = z /\ h[k] = <<Shown(e, mode, systems)>>
    <3>1. e \in SourceStream
      BY <1>3, <2>1
    <3>2. m \in Nat /\ Len(z) = 5 + m
      <4>1. /\ Len(Loop(e, systems)) \in Nat
            /\ Len(Stream(Held(e), mode, systems)) = 5 + Len(Loop(e, systems))
        <5> HIDE DEF e
        <5> QED BY <3>1, StreamType
      <4> QED BY <4>1
    <3>3. \A j \in 1 .. 5 + m : b[a + j] = z[j]
      <4> SUFFICES ASSUME NEW j \in 1 .. Len(p[k]) PROVE b[a + j] = p[k][j]
        BY <2>3, <3>2
      <4>1. s[End(p, k - 1) + j] = p[k][j]
        BY <1>5, <2>1, SMTT(30)
      <4>2. End(p, k - 1) + j \in 1 .. Len(s) /\ o + (End(p, k - 1) + j) = a + j
        <5>1. /\ End(p, k - 1) \in Nat /\ Len(p[k]) \in Nat /\ Len(s) \in Nat
              /\ End(p, k) = End(p, k - 1) + Len(p[k]) /\ End(p, k) <= Len(s)
          BY <1>5, <2>1
        <5> HIDE DEF O
        <5> QED BY <5>1, SMTT(30)
      <4> DEFINE x == End(p, k - 1) + j
      <4>3. x \in 1 .. Len(s) /\ o + x = a + j /\ s[x] = p[k][j]
        BY <4>1, <4>2
      <4> HIDE DEF a, O, x
      <4>4. b[o + x] = s[x]
        BY <1>4, <4>3, SMTT(30)
      <4> QED BY ONLY <4>3, <4>4
    <3> HIDE DEF a, e, m, z
    <3>4. StreamStands(b, a + 1, e, mode, systems)
      <4>1. a + Len(z) <= Len(b) /\ Len(b) < 4096
        BY <1>4, <2>1, <2>3, <3>2 DEF L
      <4>2. Behind(b, a, z)
        BY <3>2, <3>3, <4>1 DEF Behind
      <4>3. a \in Nat
        BY <2>1
      <4>4. Behind(b, a, Stream(Held(e), mode, systems))
        BY <4>2 DEF z
      <4> QED BY <3>1, <4>1, <4>3, <4>4, StreamPlaced
    <3>5. LoopLength(b, a + 1 + 3) = m /\ ReadAt(b, a + 1) = Shown(e, mode, systems)
      <4> DEFINE c == a + 1
      <4>1. c \in Nat \ {0}
        BY <2>1
      <4>2. StreamStands(b, c, e, mode, systems)
        BY <3>4
      <4> HIDE DEF c
      <4>3. LoopLength(b, c + 3) = Len(Loop(e, systems)) /\ ReadAt(b, c) = Shown(e, mode, systems)
        BY <3>1, <4>1, <4>2, StreamRead
      <4> QED BY <4>3 DEF c, m
    <3> HIDE DEF O
    <3>6. a + 1 \notin T
      BY <1>4, <2>1, <2>3, <3>2, SMTT(30) DEF T, L, StreamStops
    <3>7. N[a + 1] = O[k]
      BY <2>1, <2>3, <3>2, <3>5 DEF N, StreamNexts
    <3>8. H[a + 1] = h[k]
      BY <2>1, <2>3, <3>5, SMTT(30) DEF H, StreamHeads
    <3> QED BY <2>1, <3>6, <3>7, <3>8
  <2> QED BY <1>2, <2>1, <2>2, <2>3
<1>13. \A k \in 0 .. Len(h) : O[k] \in Nat
  BY <1>1, <1>6
<1>14. O[0] = o + 1
  BY <1>1 DEF End, Joined
<1> HIDE DEF O
<1>15. Visits(T, B, H, N, h, O)
  BY <1>11, <1>12, <1>13 DEF Visits
<1>16. StreamsFrom(b)[O[0]] = FlattenSeq(h)
  BY <1>1, <1>10, <1>15, WalkJoins
<1> QED BY <1>14, <1>16, ReadStreamsIs DEF h

(***************************************************************************)
(* The whole CA PMT.                                                       *)
(***************************************************************************)
LEMMA ProgramSet ==
  SourceProgram = [number : WordRange, version : Byte, info : Info, streams : Seq(SourceStream)]
BY SMTT(30) DEF SourceProgram, WordRange, Byte

LEMMA ProgramType ==
  ASSUME NEW p \in SourceProgram
  PROVE  /\ p.number \in WordRange /\ p.version \in Byte
         /\ p.info \in Seq(Descriptor) /\ p.streams \in Seq(SourceStream)
         /\ p = [number |-> p.number, version |-> p.version,
                 info |-> p.info, streams |-> p.streams]
<1> DEFINE D == Info
           S == Seq(SourceStream)
<1>1. SourceProgram = [number : WordRange, version : Byte, info : D, streams : S]
  BY ProgramSet
<1> HIDE DEF D, S
<1>2. /\ p.number \in WordRange /\ p.version \in Byte /\ p.info \in D /\ p.streams \in S
      /\ p = [number |-> p.number, version |-> p.version,
              info |-> p.info, streams |-> p.streams]
  BY <1>1
<1>3. D \subseteq Seq(Descriptor)
  BY DEF D, Info
<1> QED BY <1>2, <1>3 DEF S

\* What stands before the loop of the program.
Heading(p, mode) ==
  <<IF mode = Stop THEN Only ELSE mode, p.number \div 256, p.number % 256, p.version>>

LEMMA HeadingType ==
  ASSUME NEW p \in SourceProgram, NEW mode \in {0, 1, 2, Only, Stop}
  PROVE  /\ Heading(p, mode) \in Seq(Nat) /\ Len(Heading(p, mode)) = 4
         /\ Heading(p, mode)[1] = IF mode = Stop THEN Only ELSE mode
         /\ 256 * Heading(p, mode)[2] + Heading(p, mode)[3] = p.number
         /\ Heading(p, mode)[4] = p.version
<1> DEFINE x == IF mode = Stop THEN Only ELSE mode
           n == p.number
           v == p.version
           s == <<x, n \div 256, n % 256, v>>
<1>1. x \in Nat
  BY DEF Only, Stop
<1>2. n \in Nat /\ v \in Nat
  BY ProgramType, Bytes, Words
<1> HIDE DEF x, n, v
<1>3. n \div 256 \in Nat /\ n % 256 \in Nat /\ 256 * (n \div 256) + (n % 256) = n
  BY <1>2, SplitWord
<1>4. s \in Seq(Nat) /\ Len(s) = 4 /\ s[1] = x /\ s[2] = n \div 256 /\ s[3] = n % 256 /\ s[4] = v
  BY <1>1, <1>2, <1>3
<1>5. Heading(p, mode) = s
  BY Zenon DEF Heading, x, n, v
<1> HIDE DEF s
<1> QED BY <1>3, <1>4, <1>5 DEF x, n, v

LEMMA FourNumbers ==
  ASSUME NEW w \in Nat, NEW x \in Nat, NEW y \in Nat, NEW z \in Nat
  PROVE  <<w>> \o <<x, y>> \o <<z>> = <<w, x, y, z>>
<1> DEFINE s == <<w>> \o <<x, y>>
           t == <<w, x, y>>
           u == t \o <<z>>
           v == <<w, x, y, z>>
<1>1. Len(s) = 3 /\ s \in Seq(Nat) /\ Len(t) = 3 /\ t \in Seq(Nat)
  OBVIOUS
<1>2. \A i \in 1 .. 3 : s[i] = t[i]
  OBVIOUS
<1>3. Len(u) = 4 /\ u \in Seq(Nat) /\ Len(v) = 4 /\ v \in Seq(Nat)
  OBVIOUS
<1>4. \A i \in 1 .. 4 : u[i] = v[i]
  OBVIOUS
<1>5. s = t
  <2> HIDE DEF s, t
  <2> QED BY <1>1, <1>2, SeqEqual
<1>6. u = v
  <2> HIDE DEF u, v
  <2> QED BY <1>3, <1>4, SeqEqual
<1> QED BY <1>5, <1>6 DEF s, u, v

\* Its parts.
LEMMA BodyIs ==
  ASSUME NEW p \in SourceProgram, NEW mode \in {0, 1, 2, Only, Stop}, NEW systems
  PROVE  Body(Stored(p), mode, systems) =
           Heading(p, mode) \o Counted(Loop(p, systems))
             \o FlattenSeq(Written(p.streams, mode, systems))
<1> DEFINE r == Stored(p)
           es == p.streams
           n == Len(es)
           W(e) == IF e.type \in StreamTypes THEN Stream(e, mode, systems) ELSE <<>>
<1>1. /\ r.number = p.number /\ r.version = p.version /\ r.info = FlattenSeq(p.info)
      /\ r.streams = [k \in DOMAIN es |-> Held(es[k])]
      /\ es \in Seq(SourceStream)
  <2> DEFINE F == FlattenSeq(p.info)
             S == [k \in DOMAIN p.streams |-> Held(p.streams[k])]
  <2>1. r = [Held(p) EXCEPT !.streams = [k \in DOMAIN Held(p).streams |-> Held(Held(p).streams[k])]]
    BY DEF Stored
  <2>2. Held(p) = [p EXCEPT !.info = F]
    BY DEF Held
  <2> HIDE DEF F, S, r
  <2>4. Held(p) = [number |-> p.number, version |-> p.version, info |-> F, streams |-> p.streams]
    BY <2>2, ProgramType
  <2>5. Held(p).streams = p.streams
    BY <2>4
  <2>6. r = [Held(p) EXCEPT !.streams = S]
    BY <2>1, <2>5 DEF S
  <2>3. /\ r.number = p.number /\ r.version = p.version /\ r.info = F /\ r.streams = S
    BY <2>4, <2>6
  <2> QED BY <2>3, ProgramType DEF F, S
<1>2. DOMAIN es = 1 .. n /\ n \in Nat /\ \A k \in 1 .. n : es[k] \in SourceStream
  BY <1>1, LenProperties, ElementOfSeq
<1>3. DOMAIN r.streams = 1 .. n /\ \A k \in 1 .. n : r.streams[k] = Held(es[k])
  BY <1>1, <1>2
<1>4. \A k \in 1 .. n : Held(es[k]).type = es[k].type
  BY <1>2, HeldParts
<1>5. [k \in DOMAIN r.streams |-> W(r.streams[k])] = Written(es, mode, systems)
  <2>1. \A k \in 1 .. n : W(r.streams[k]) = Written(es, mode, systems)[k]
    BY <1>3, <1>4 DEF Written, Relevant
  <2>2. Written(es, mode, systems) = [k \in 1 .. n |-> Written(es, mode, systems)[k]]
    BY DEF Written
  <2> HIDE DEF W
  <2> QED BY <1>3, <2>1, <2>2
<1>6. Body(r, mode, systems) =
        <<IF mode = Stop THEN Only ELSE mode>> \o Word(r.number) \o <<r.version>>
          \o Counted(Matching(r.info, systems))
          \o FlattenSeq([k \in DOMAIN r.streams |-> W(r.streams[k])])
  BY Zenon DEF Body
<1> HIDE DEF r, es, W
<1>7. <<IF mode = Stop THEN Only ELSE mode>> \o Word(r.number) \o <<r.version>> = Heading(p, mode)
  <2> DEFINE a == IF mode = Stop THEN Only ELSE mode
             i == p.number
             x == i \div 256
             y == i % 256
             v == p.version
  <2>1. a \in Nat /\ x \in Nat /\ y \in Nat /\ v \in Nat
    <3>1. a \in Nat
      BY DEF Only, Stop
    <3>2. i \in Nat /\ v \in Nat
      BY ProgramType, Bytes, Words
    <3> HIDE DEF a, i, v
    <3> QED BY <3>1, <3>2, SplitWord
  <2>2. Word(r.number) = <<x, y>> /\ r.version = v
    BY <1>1 DEF Word
  <2>3. Heading(p, mode) = <<a, x, y, v>>
    BY Zenon DEF Heading
  <2> HIDE DEF a, x, y, v
  <2>4. <<a>> \o Word(r.number) \o <<r.version>> = Heading(p, mode)
    BY <2>1, <2>2, <2>3, FourNumbers
  <2> QED BY <2>4 DEF a
<1>8. Matching(r.info, systems) = Loop(p, systems)
  BY <1>1 DEF Loop
<1> QED BY <1>5, <1>6, <1>7, <1>8 DEF r, es

\* Where its parts stand.
LEMMA BodyType ==
  ASSUME NEW f \in Seq(Nat), Len(f) = 4, NEW m \in Seq(Byte), NEW q \in Seq(Nat),
         Len(f \o Counted(m) \o q) < 4096
  PROVE  /\ f \o Counted(m) \o q \in Seq(Nat)
         /\ Len(m) \in Nat /\ Len(q) \in Nat
         /\ Len(f \o Counted(m) \o q) = 6 + Len(m) + Len(q)
         /\ \A j \in 1 .. 4 : (f \o Counted(m) \o q)[j] = f[j]
         /\ LoopStands(f \o Counted(m) \o q, 5, m)
         /\ Behind(f \o Counted(m) \o q, 6 + Len(m), q)
<1> DEFINE c == Counted(m)
           n == Len(m)
           s == f \o c
           b == s \o q
<1>1. /\ c \in Seq(Nat) /\ Len(c) = 2 + n
      /\ c[1] = 240 + (n \div 256) /\ c[2] = n % 256
      /\ \A j \in 1 .. n : c[2 + j] = m[j]
  BY CountedIs
<1>2. n \in Nat /\ Len(q) \in Nat /\ Len(b) < 4096
  OBVIOUS
<1>3. \A u, v \in Seq(Nat) : /\ u \o v \in Seq(Nat) /\ Len(u \o v) = Len(u) + Len(v)
                             /\ \A j \in 1 .. Len(u) : (u \o v)[j] = u[j]
                             /\ \A j \in 1 .. Len(v) : (u \o v)[Len(u) + j] = v[j]
  BY JoinTwo
<1> HIDE DEF c, n
<1>4. /\ s \in Seq(Nat) /\ Len(s) = 6 + n
      /\ \A j \in 1 .. Len(f) : s[j] = f[j]
      /\ \A j \in 1 .. Len(c) : s[Len(f) + j] = c[j]
  <2>1. f \in Seq(Nat) /\ Len(f) = 4
    OBVIOUS
  <2>2. /\ f \o c \in Seq(Nat) /\ Len(f \o c) = Len(f) + Len(c)
        /\ \A j \in 1 .. Len(f) : (f \o c)[j] = f[j]
        /\ \A j \in 1 .. Len(c) : (f \o c)[Len(f) + j] = c[j]
    BY ONLY <1>1, <1>3, <2>1, ZenonT(30)
  <2>3. s = f \o c
    OBVIOUS
  <2> HIDE DEF s
  <2>4. Len(s) = 6 + n
    <3>1. Len(s) = Len(f) + Len(c)
      BY ONLY <2>2, <2>3
    <3> QED BY <1>1, <1>2, <2>1, <3>1
  <2> QED BY ONLY <2>2, <2>3, <2>4
<1> HIDE DEF s
<1>5. /\ b \in Seq(Nat) /\ Len(b) = Len(s) + Len(q)
      /\ \A j \in 1 .. Len(s) : b[j] = s[j]
      /\ \A j \in 1 .. Len(q) : b[Len(s) + j] = q[j]
  <2>1. q \in Seq(Nat) /\ b = s \o q
    OBVIOUS
  <2> HIDE DEF b
  <2> QED BY ONLY <1>3, <1>4, <2>1
<1> HIDE DEF b
<1>6. Len(b) = 6 + n + Len(q) /\ \A j \in 1 .. 6 + n : b[j] = s[j]
  BY <1>2, <1>4, <1>5
<1>7. \A j \in 1 .. 4 : b[j] = f[j]
  <2> SUFFICES ASSUME NEW j \in 1 .. 4 PROVE b[j] = f[j]
    OBVIOUS
  <2>1. j \in 1 .. 6 + n /\ j \in 1 .. Len(f)
    BY <1>2
  <2> QED BY <1>4, <1>6, <2>1, SMTT(30)
<1>8. \A j \in 1 .. 2 + n : b[4 + j] = c[j]
  <2> SUFFICES ASSUME NEW j \in 1 .. 2 + n PROVE b[4 + j] = c[j]
    OBVIOUS
  <2>1. 4 + j \in 1 .. 6 + n /\ Len(f) = 4 /\ Len(c) = 2 + n
    BY <1>1, <1>2
  <2>2. s[4 + j] = c[j]
    BY <1>4, <2>1
  <2> QED BY <1>6, <2>1, <2>2
<1>9. LoopStands(b, 5, m)
  <2>1. b[5] = c[1] /\ b[6] = c[2]
    <3>1. 1 \in 1 .. 2 + n /\ 2 \in 1 .. 2 + n /\ 4 + 1 = 5 /\ 4 + 2 = 6
      BY <1>2
    <3>2. b[4 + 1] = c[1] /\ b[4 + 2] = c[2]
      BY <1>8, <3>1
    <3> QED BY <3>1, <3>2
  <2>2. \A j \in 1 .. n : b[6 + j] = m[j]
    <3> SUFFICES ASSUME NEW j \in 1 .. n PROVE b[6 + j] = m[j]
      OBVIOUS
    <3> DEFINE k == 2 + j
    <3>1. k \in 1 .. 2 + n /\ 4 + k = 6 + j /\ c[k] = m[j]
      BY <1>1, <1>2
    <3> HIDE DEF k
    <3> QED BY <1>8, <3>1
  <2>3. n < 4096 /\ 5 + 1 + n <= Len(b) /\ 5 + 1 = 6
    BY <1>2, <1>6 DEF b
  <2>4. b[5] = 240 + (n \div 256) /\ b[5 + 1] = n % 256
    BY <1>1, <2>1, <2>3
  <2>5. \A j \in 1 .. n : b[5 + 1 + j] = m[j]
    BY ONLY <2>2, <2>3
  <2> QED BY ONLY <2>3, <2>4, <2>5 DEF LoopStands, n
<1>10. Behind(b, 6 + n, q)
  BY <1>2, <1>4, <1>5, <1>6 DEF Behind
<1> QED BY <1>2, <1>5, <1>6, <1>7, <1>9, <1>10, SMTT(30) DEF b, s, c, n

\* What the module reads in a body.
ReadBody(b) ==
  [mode |-> b[1],
   number |-> 256 * b[2] + b[3],
   version |-> b[4],
   descriptors |-> ReadLoop(LoopAt(b, 5)),
   streams |-> ReadStreams(b, 7 + LoopLength(b, 5))]

LEMMA ReadIs ==
  ASSUME NEW apdu, NEW b, Rest(apdu) = b, Field(apdu).len = Len(b)
  PROVE  ReadCaPmt(apdu) = ReadBody(b)
<1>1. ReadCaPmt(apdu) = IF Len(Rest(apdu)) # Field(apdu).len THEN Malformed ELSE ReadBody(Rest(apdu))
  BY DEF ReadCaPmt, Rest, Field, ReadBody
<1> QED BY <1>1

LEMMA BodyRead ==
  ASSUME NEW p \in SourceProgram, NEW mode \in {0, 1, 2, Only, Stop}, NEW systems,
         NEW b \in Seq(Nat), b = Body(Stored(p), mode, systems), Len(b) < 4096
  PROVE  Len(b) >= 6 /\ ReadBody(b) = Expected(p, mode, systems)
<1>a. p \in SourceProgram /\ mode \in {0, 1, 2, Only, Stop} /\ b = Body(Stored(p), mode, systems)
  OBVIOUS
<1>b. /\ Heading(p, mode) \in Seq(Nat) /\ Len(Heading(p, mode)) = 4
      /\ Heading(p, mode)[1] = IF mode = Stop THEN Only ELSE mode
      /\ 256 * Heading(p, mode)[2] + Heading(p, mode)[3] = p.number
      /\ Heading(p, mode)[4] = p.version
  BY ONLY <1>a, HeadingType
<1>c. Body(Stored(p), mode, systems) =
        Heading(p, mode) \o Counted(Loop(p, systems))
          \o FlattenSeq(Written(p.streams, mode, systems))
  BY ONLY <1>a, BodyIs
<1> DEFINE f == Heading(p, mode)
           m == Loop(p, systems)
           q == FlattenSeq(Written(p.streams, mode, systems))
<1>1. f \in Seq(Nat) /\ Len(f) = 4
      /\ f[1] = (IF mode = Stop THEN Only ELSE mode)
      /\ 256 * f[2] + f[3] = p.number /\ f[4] = p.version
  BY <1>b
<1>2. m \in Seq(Byte) /\ ReadLoop(m) = Chosen(p.info, systems)
  BY ProgramType, LoopRead DEF Loop
<1>3. q \in Seq(Nat)
  BY ProgramType, WrittenType, JoinedAt
<1>4. b = f \o Counted(m) \o q
  BY ONLY <1>a, <1>c DEF f, m, q
<1> HIDE DEF f, m, q
<1>5. /\ Len(m) \in Nat /\ Len(q) \in Nat /\ Len(b) = 6 + Len(m) + Len(q)
      /\ \A j \in 1 .. 4 : b[j] = f[j]
      /\ LoopStands(b, 5, m) /\ Behind(b, 6 + Len(m), q)
  <2>1. Len(f \o Counted(m) \o q) < 4096
    BY <1>4
  <2>2. /\ Len(m) \in Nat /\ Len(q) \in Nat
        /\ Len(f \o Counted(m) \o q) = 6 + Len(m) + Len(q)
        /\ \A j \in 1 .. 4 : (f \o Counted(m) \o q)[j] = f[j]
        /\ LoopStands(f \o Counted(m) \o q, 5, m)
        /\ Behind(f \o Counted(m) \o q, 6 + Len(m), q)
    BY <1>1, <1>2, <1>3, <2>1, BodyType, SMTT(30)
  <2> QED BY ONLY <1>4, <2>2
<1>6. /\ b[1] = (IF mode = Stop THEN Only ELSE mode)
      /\ 256 * b[2] + b[3] = p.number /\ b[4] = p.version
  <2>1. b[1] = f[1] /\ b[2] = f[2] /\ b[3] = f[3] /\ b[4] = f[4]
    BY <1>5
  <2> QED BY <1>1, <2>1
<1>7. LoopLength(b, 5) = Len(m) /\ LoopAt(b, 5) = m
  BY <1>2, <1>5, LoopFound
<1>8. ReadStreams(b, 7 + LoopLength(b, 5)) = FlattenSeq(Told(p.streams, mode, systems))
  <2> DEFINE o == 6 + Len(m)
             es == p.streams
  <2>1. o \in Nat /\ o + 1 = 7 + LoopLength(b, 5) /\ Len(b) = o + Len(q)
    BY <1>5, <1>7, SMTT(30)
  <2>2. es \in Seq(SourceStream)
    BY ProgramType
  <2>3. Behind(b, o, q)
    BY <1>5
  <2>4. q = FlattenSeq(Written(es, mode, systems))
    BY DEF q
  <2> HIDE DEF o, es
  <2>5. ReadStreams(b, o + 1) = FlattenSeq(Told(es, mode, systems))
    BY <2>1, <2>2, <2>3, <2>4, StreamsRead
  <2> QED BY <2>1, <2>5 DEF es
<1>9. Expected(p, mode, systems) =
        [mode |-> IF mode = Stop THEN Only ELSE mode,
         number |-> p.number,
         version |-> p.version,
         descriptors |-> Chosen(p.info, systems),
         streams |-> FlattenSeq(Told(p.streams, mode, systems))]
  <2> DEFINE es == p.streams
  <2>1. DOMAIN es = 1 .. Len(es)
    BY ProgramType, LenProperties
  <2>2. [k \in DOMAIN es |->
           IF es[k].type \in StreamTypes THEN <<Shown(es[k], mode, systems)>> ELSE <<>>]
        = Told(es, mode, systems)
    BY <2>1 DEF Told, Relevant
  <2> QED BY <2>2 DEF Expected
<1>10. ReadLoop(LoopAt(b, 5)) = Chosen(p.info, systems)
  BY <1>2, <1>7
<1>11. ReadBody(b) =
         [mode |-> b[1],
          number |-> 256 * b[2] + b[3],
          version |-> b[4],
          descriptors |-> ReadLoop(LoopAt(b, 5)),
          streams |-> ReadStreams(b, 7 + LoopLength(b, 5))]
  BY DEF ReadBody
<1>12. ReadBody(b) = Expected(p, mode, systems)
  BY ONLY <1>6, <1>8, <1>9, <1>10, <1>11
<1> QED BY <1>5, <1>12

LEMMA BodyBytes ==
  ASSUME NEW p \in SourceProgram, NEW mode \in {0, 1, 2, Only, Stop}, NEW systems
  PROVE  Body(Stored(p), mode, systems) \in Seq(Nat)
<1> DEFINE f == Heading(p, mode)
           c == Counted(Loop(p, systems))
           q == FlattenSeq(Written(p.streams, mode, systems))
<1>1. f \in Seq(Nat)
  BY HeadingType, ZenonT(30)
<1>2. c \in Seq(Nat)
  BY ProgramType, LoopRead, CountedIs DEF Loop
<1>3. q \in Seq(Nat)
  BY ProgramType, WrittenType, JoinedAt
<1>4. Body(Stored(p), mode, systems) = f \o c \o q
  BY BodyIs
<1> HIDE DEF f, c, q
<1> QED BY <1>1, <1>2, <1>3, <1>4

(* For every program with whole descriptors, of at most 253 bytes, every    *)
(* mode and every list of CA systems for which it is not too long: from the *)
(* CA PMT that WVCI_GenerateCAPMT builds the module reads exactly the       *)
(* descriptors of its systems, whole, in order and at the right level.      *)
THEOREM Translated ==
  ASSUME NEW p \in SourceProgram, NEW mode \in Modes, NEW systems,
         Len(Body(Stored(p), mode, systems)) + 4 < MaxLenCaPmt
  PROVE  SaysWhatItShould(p, mode, systems)
<1> DEFINE b == Body(Stored(p), mode, systems)
           apdu == GenerateCaPmt(Stored(p), mode, systems)
<1>1. mode \in {0, 1, 2, Only, Stop}
  BY DEF Modes
<1>2. b \in Seq(Nat)
  BY <1>1, BodyBytes
<1>3. Len(b) \in Nat /\ Len(b) + 4 < 1024
  BY <1>2 DEF MaxLenCaPmt
<1>4. apdu = <<159, 128, 50>> \o LengthField(Len(b)) \o b
  <2>1. apdu = IF Len(b) + 4 >= MaxLenCaPmt THEN Dropped
               ELSE <<159, 128, 50>> \o LengthField(Len(b)) \o b
    BY Zenon DEF GenerateCaPmt
  <2>2. ~(Len(b) + 4 >= MaxLenCaPmt)
    <3> HIDE DEF b
    <3> QED BY <1>3 DEF MaxLenCaPmt
  <2> HIDE DEF b, apdu
  <2> QED BY <2>1, <2>2
<1> HIDE DEF apdu
<1>5. Len(b) >= 6 /\ ReadBody(b) = Expected(p, mode, systems)
  <2>1. b = Body(Stored(p), mode, systems)
    OBVIOUS
  <2> HIDE DEF b
  <2>2. Len(b) < 4096
    BY <1>3
  <2> QED BY <1>1, <1>2, <1>3, <2>1, <2>2, BodyRead
<1> HIDE DEF b
<1>6. apdu = Framed(b)
  BY <1>4 DEF Framed
<1>7. Rest(apdu) = b /\ Field(apdu).len = Len(b)
  <2>1. Len(b) < 1024
    BY <1>3
  <2> QED BY <1>2, <1>3, <1>5, <1>6, <2>1, HeaderRead
<1>8. ReadCaPmt(apdu) = ReadBody(b)
  BY <1>7, ReadIs
<1>9. apdu # Dropped
  <2>1. Rest(Dropped) = <<>>
    BY DEF Rest, Dropped
  <2>2. Len(<<>>) = 0
    OBVIOUS
  <2> QED BY <1>3, <1>5, <1>7, <2>1, <2>2
<1> QED BY <1>5, <1>8, <1>9 DEF apdu, SaysWhatItShould

-----------------------------------------------------------------------------
(***************************************************************************)
(* What the tasks select and send, with the lengths and the contents it    *)
(* has (CaPmtSent).                                                        *)
(***************************************************************************)

\* A CA PMT for systems of its program that is not too long.
Sendable(p, systems) ==
  p \in Program /\ systems \subseteq Systems[p] /\ systems \notin TooLong[p]

\* Modules only have such CA PMTs; what is about to be sent was selected from
\* the descriptors of the program it is sent for.
SendableSent == \A s \in Slot : \A e \in cam[s] : Sendable(e.prog, e.systems)
Selected == pmt.pc = "send" => pmt.matched \subseteq Systems[Todo(pmt.slot)[pmt.k]]
SInv == SendableSent /\ Selected

LEMMA SendableReceived ==
  ASSUME TInv, SInv, Send
  PROVE  SendableSent'
<1> DEFINE t == pmt.slot
           p == Todo(t)[pmt.k]
           x == [prog |-> p, systems |-> pmt.matched, stop |-> Stopping(t)]
           mode == ListManagement(pmt.k, Len(Todo(t)))
<1>1. pmt.pc = "send" /\ t \in Slot /\ cam \in [Slot -> SUBSET Entry]
  BY DEF Send, TInv, TypeOK
<1>2. p \in Program /\ pmt.matched \subseteq Systems[p]
  BY <1>1, TodoPrograms DEF TInv, InPlan, SInv, Selected
<1>3. CASE Overflows(p, pmt.matched)
  BY <1>3 DEF Send, SInv, SendableSent
<1>4. CASE ~Overflows(p, pmt.matched)
  <2>1. cam' = cam \/ cam' = [cam EXCEPT ![t] = Received(@, mode, x)]
    BY <1>4 DEF Send
  <2>2. Sendable(x.prog, x.systems)
    BY <1>2, <1>4 DEF Sendable, Overflows
  <2>3. Received(cam[t], mode, x) \subseteq cam[t] \cup {x}
    BY DEF Received
  <2> HIDE DEF x, mode, p
  <2> QED BY <1>1, <2>1, <2>2, <2>3 DEF SInv, SendableSent
<1> QED BY <1>3, <1>4

LEMMA SendableAlways == Spec => []SInv
<1>1. Init => SInv
  BY DEF Init, SInv, SendableSent, Selected
<1>2. TInv /\ SInv /\ [Next]_vars => SInv'
  <2> SUFFICES ASSUME TInv, SInv, [Next]_vars PROVE SendableSent' /\ Selected'
    BY DEF SInv
  <2> USE DEF SInv
  <2>1. CASE UNCHANGED vars
    BY <2>1 DEF vars, SendableSent, Selected, Todo, Stopping
  <2>2. ASSUME NEW s \in Slot, Connect(s) \/ Close(s) \/ CaInfo(s) PROVE SendableSent' /\ Selected'
    BY <2>2 DEF Connect, Close, CaInfo, SendableSent, Selected, Todo, Stopping
  <2>3. ASSUME NEW s \in Slot, ModuleRemoved(s) PROVE SendableSent' /\ Selected'
    <3>1. cam' = [cam EXCEPT ![s] = {}] /\ UNCHANGED <<last, plan, pmt>>
      BY <2>3 DEF ModuleRemoved
    <3>2. SendableSent'
      BY <3>1 DEF SendableSent, TInv, TypeOK
    <3>3. Selected'
      BY <3>1 DEF Selected, Todo, Stopping
    <3> QED BY <3>2, <3>3
  <2>4. CASE Handling
    BY <2>4 DEF Handling, StoreId, CaOk, SendableSent, Selected, Todo, Stopping
  <2>5. CASE Look
    BY <2>5 DEF Look, SendableSent, Selected, TInv, TypeOK
  <2>6. CASE ReadPlan
    BY <2>6 DEF ReadPlan, SendableSent, Selected, TInv, TypeOK
  <2>7. CASE Match
    <3>1. UNCHANGED <<cam, last, plan>>
      BY <2>7 DEF Match
    <3>2. pmt' = [pmt EXCEPT !.pc = "send",
                    !.matched = Systems[Todo(pmt.slot)[pmt.k]] \cap list[pmt.slot]]
      BY <2>7 DEF Match
    <3>3. /\ pmt'.slot = pmt.slot /\ pmt'.k = pmt.k
          /\ pmt'.matched = Systems[Todo(pmt.slot)[pmt.k]] \cap list[pmt.slot]
      BY <3>2 DEF TInv, TypeOK
    <3>4. Todo(pmt.slot)' = Todo(pmt.slot)
      BY <3>1, <3>3 DEF Todo, Stopping
    <3> QED BY <3>1, <3>3, <3>4 DEF SendableSent, Selected
  <2>8. CASE Send
    <3>1. pmt'.pc # "send"
      BY <2>8 DEF Send, TInv, TypeOK
    <3> QED BY <2>8, <3>1, SendableReceived DEF Selected
  <2>9. CASE ClearRequest
    BY <2>9 DEF ClearRequest, SendableSent, Selected, TInv, TypeOK
  <2> QED BY <2>1, <2>2, <2>3, <2>4, <2>5, <2>6, <2>7, <2>8, <2>9 DEF Next, Process
<1> QED BY <1>1, <1>2, Types, PTL DEF Spec

\* Such a CA PMT passes, in whatever mode it is sent.
LEMMA SendablePasses ==
  ASSUME NEW p, NEW systems, Sendable(p, systems), NEW mode \in Modes
  PROVE  /\ <<p, systems, mode>> \in CaPmts
         /\ Content[p] \in SourceProgram
         /\ BodyLength(p, mode, systems) \in Nat
         /\ Passes(BodyLength(p, mode, systems))
<1>1. p \in Program /\ systems \subseteq Systems[p] /\ systems \notin TooLong[p]
  BY DEF Sendable
<1>2. Systems[p] \subseteq CaId
  BY <1>1, CaPmtAssumption
<1>3. Content[p] \in SourceProgram
  BY <1>1, SentAssumption
<1>4. Passes(BodyLength(p, mode, systems))
  BY <1>1, SentAssumption
<1>5. Body(Stored(Content[p]), mode, systems) \in Seq(Nat)
  BY <1>3, BodyBytes DEF Modes
<1> QED BY <1>1, <1>2, <1>3, <1>4, <1>5 DEF CaPmts, BodyLength

LEMMA ModesSent == ASSUME NEW e PROVE ModesOf(e) \subseteq Modes
BY DEF ModesOf, Modes

(* However the two tasks interleave, every CA PMT a module has been sent    *)
(* has lengths that agree, with the systems that were selected for it       *)
(* (WVCI_GenerateCAPMT, Send_T_DataLong, SendTransportPacket).              *)
THEOREM FramesAlwaysRight == Spec => []FramesRight
<1>1. SInv => FramesRight
  <2> SUFFICES ASSUME SInv, NEW s \in Slot, NEW e \in cam[s], NEW mode \in ModesOf(e)
               PROVE  <<e.prog, e.systems, mode>> \in RightLengths
    BY DEF FramesRight
  <2>1. Sendable(e.prog, e.systems) /\ mode \in Modes
    BY ModesSent DEF SInv, SendableSent
  <2> DEFINE c == <<e.prog, e.systems, mode>>
  <2>2. c \in CaPmts /\ BodyLength(c[1], c[3], c[2]) \in Nat /\ Passes(BodyLength(c[1], c[3], c[2]))
    BY <2>1, SendablePasses
  <2> HIDE DEF c
  <2>3. LengthsAgree(BodyLength(c[1], c[3], c[2]))
    BY <2>2, LengthsRight
  <2> QED BY <2>2, <2>3 DEF RightLengths, c
<1> QED BY <1>1, SendableAlways, PTL

(* However the two tasks interleave, from every CA PMT a module has been    *)
(* sent it reads exactly the descriptors of the systems that were selected  *)
(* for it and the streams that may be scrambled (WVCI_GenerateCAPMT).       *)
THEOREM TranslationAlwaysRight == Spec => []TranslatedRight
<1>1. SInv => TranslatedRight
  <2> SUFFICES ASSUME SInv, NEW s \in Slot, NEW e \in cam[s], NEW mode \in ModesOf(e)
               PROVE  <<e.prog, e.systems, mode>> \in RightContents
    BY DEF TranslatedRight
  <2>1. Sendable(e.prog, e.systems) /\ mode \in Modes
    BY ModesSent DEF SInv, SendableSent
  <2> DEFINE n == BodyLength(e.prog, mode, e.systems)
  <2>2. <<e.prog, e.systems, mode>> \in CaPmts /\ Content[e.prog] \in SourceProgram /\ n \in Nat /\ Passes(n)
    BY <2>1, SendablePasses
  <2>3. n + 4 < MaxLenCaPmt
    <3> HIDE DEF n
    <3> QED BY <2>2, PacketSizes DEF MaxLenCaPmt
  <2>4. SaysWhatItShould(Content[e.prog], mode, e.systems)
    BY <2>1, <2>2, <2>3, Translated DEF BodyLength
  <2> QED BY <2>2, <2>4 DEF RightContents
<1> QED BY <1>1, SendableAlways, PTL
=============================================================================
