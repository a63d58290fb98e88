------------------------------- MODULE CaPmt -------------------------------
(***************************************************************************)
(* How a module learns what to descramble.  The module announces the CA    *)
(* systems it serves (CA_INFO); the monitoring task copies them into the   *)
(* slot's list, one after the other, and its callback asks for an update.  *)
(* The process task looks at the requests of both slots in turn and sends  *)
(* the module one CA PMT per program, with the descriptors of the systems  *)
(* in the list.                                                            *)
(*                                                                         *)
(* The two threads share list and request without a lock.  Overlap says    *)
(* whether a list may be rebuilt while the same slot is being updated.     *)
(* The link below (CiLink) keeps the order, so a CA PMT is received when   *)
(* it is sent; what the module makes of it is EN 50221: FIRST and ONLY     *)
(* start a new list, MORE and LAST add to it or replace a program in it.   *)
(* The table of programs is taken as fixed; which of them are to be        *)
(* descrambled is read anew for every update.                              *)
(***************************************************************************)
EXTENDS Integers, Sequences

CONSTANTS
  Slots,         \* number of slots (WVCI_MAX_SLOT_NUM)
  CaId,          \* CA system identifiers
  Program,       \* programs that may be descrambled
  ProgramZero,   \* the one at index 0 of the table of programs
  Systems,       \* per program, the CA systems of its descriptors
  TooLong,       \* per program, the systems with whose descriptors its CA PMT is
                 \* too long to be sent
  Plans,         \* per slot, what may be configured: sequences of programs
  Announced,     \* per slot, what modules may announce: sequences of CA systems
  MaxCasysIds,   \* MAX_CASYS_IDS
  Overlap,
  None           \* no announcement, no plan

ASSUME CaPmtAssumption ==
  /\ Slots \in Nat \ {0}
  /\ ProgramZero \in Program
  /\ Systems \in [Program -> SUBSET CaId]
  /\ TooLong \in [Program -> SUBSET SUBSET CaId]
  /\ \A s \in 0 .. Slots - 1 :
       /\ Plans[s] \subseteq Seq(Program) /\ None \notin Plans[s]
       /\ Announced[s] \subseteq Seq(CaId) /\ None \notin Announced[s]
  /\ MaxCasysIds \in Nat
  /\ Overlap \in BOOLEAN

VARIABLES
  session,   \* per slot: dwCASupportSession is set
  list,      \* per slot: the first wNumCASystems of wCASystemIDs
  flag,      \* per slot: ucIsNeedSend
  last,      \* per slot: s_u16LastDescrProgIndex
  mon,       \* monitoring task: [busy, slot, done]
  pmt,       \* process task: [pc, slot, k, matched]
  plan,      \* per slot: the programs its last update was made for, or None
  ids,       \* per slot: what the module announced in this session, or None
  cam        \* per slot: the CA PMTs the module works on, one per program

vars == <<session, list, flag, last, mon, pmt, plan, ids, cam>>

Slot == 0 .. Slots - 1
Entry == [prog : Program, systems : SUBSET CaId, stop : BOOLEAN]

Init ==
  /\ session = [s \in Slot |-> FALSE]
  /\ list = [s \in Slot |-> {}]
  /\ flag = [s \in Slot |-> FALSE]
  /\ last = [s \in Slot |-> ProgramZero]
  /\ mon = [busy |-> FALSE, slot |-> 0, done |-> 0]
  /\ pmt = [pc |-> "look", slot |-> 0, k |-> 1, matched |-> {}]
  /\ plan = [s \in Slot |-> None]
  /\ ids = [s \in Slot |-> None]
  /\ cam = [s \in Slot |-> {}]

Updating(s) == pmt.pc # "look" /\ pmt.slot = s
Rebuilding(s) == mon.busy /\ mon.slot = s

-----------------------------------------------------------------------------
(* The monitoring task. *)

(* A module opens a session of CA support. *)
Connect(s) ==
  /\ ~mon.busy
  /\ ~session[s]
  /\ session' = [session EXCEPT ![s] = TRUE]
  /\ UNCHANGED <<list, flag, last, mon, pmt, plan, ids, cam>>

(* The module, or the host in a reset, closes it; the list stays. *)
Close(s) ==
  /\ ~mon.busy
  /\ session[s]
  /\ session' = [session EXCEPT ![s] = FALSE]
  /\ ids' = [ids EXCEPT ![s] = None]
  /\ UNCHANGED <<list, flag, last, mon, pmt, plan, cam>>

(* The module is pulled out: the handle is cleared, the request is not. *)
ModuleRemoved(s) ==
  /\ ~mon.busy
  /\ session' = [session EXCEPT ![s] = FALSE]
  /\ list' = [list EXCEPT ![s] = {}]
  /\ ids' = [ids EXCEPT ![s] = None]
  /\ cam' = [cam EXCEPT ![s] = {}]
  /\ UNCHANGED <<flag, last, mon, pmt, plan>>

(* A CA_INFO arrives. *)
CaInfo(s) ==
  /\ ~mon.busy
  /\ session[s]
  /\ Overlap \/ ~Updating(s)
  /\ \E q \in Announced[s] : ids' = [ids EXCEPT ![s] = q]
  /\ list' = [list EXCEPT ![s] = {}]
  /\ mon' = [busy |-> TRUE, slot |-> s, done |-> 0]
  /\ UNCHANGED <<session, flag, last, pmt, plan, cam>>

(* The test compares the place of the id in the message, which follows     *)
(* four bytes of header and takes two bytes, with the size of the array.   *)
HasRoom(i) == 4 + 2 * i < MaxCasysIds - 1

(* One more id is taken over. *)
StoreId ==
  /\ mon.busy
  /\ mon.done < Len(ids[mon.slot])
  /\ list' = IF HasRoom(mon.done)
             THEN [list EXCEPT ![mon.slot] = @ \cup {ids[mon.slot][mon.done + 1]}]
             ELSE list
  /\ mon' = [mon EXCEPT !.done = @ + 1]
  /\ UNCHANGED <<session, flag, last, pmt, plan, ids, cam>>

(* CI_SLOT_MODULE_CA_OK: the callback asks for an update. *)
CaOk ==
  /\ mon.busy
  /\ mon.done = Len(ids[mon.slot])
  /\ flag' = [flag EXCEPT ![mon.slot] = TRUE]
  /\ mon' = [mon EXCEPT !.busy = FALSE, !.done = 0]
  /\ UNCHANGED <<session, list, last, pmt, plan, ids, cam>>

-----------------------------------------------------------------------------
(* The process task. *)

\* Mutant of Following: the other slot's turn never comes.
FollowingStays(s) == s

\* The slot after s.
Following(s) == IF s + 1 = Slots THEN 0 ELSE s + 1

(* Is there a request of this slot? *)
Look ==
  /\ pmt.pc = "look"
  /\ IF flag[pmt.slot]
     THEN /\ Overlap \/ ~Rebuilding(pmt.slot)
          /\ pmt' = [pmt EXCEPT !.pc = "plan"]
     ELSE pmt' = [pmt EXCEPT !.slot = Following(@)]
  /\ UNCHANGED <<session, list, flag, last, mon, plan, ids, cam>>

(* The programs configured for the slot; the request is given up when the  *)
(* tables of one of the slots cannot be read.                              *)
ReadPlan ==
  /\ pmt.pc = "plan"
  /\ \/ \E q \in Plans[pmt.slot] : /\ plan' = [plan EXCEPT ![pmt.slot] = q]
                         /\ pmt' = [pmt EXCEPT !.pc = "match", !.k = 1]
     \/ /\ plan' = [plan EXCEPT ![pmt.slot] = None]
        /\ pmt' = [pmt EXCEPT !.pc = "clear"]
  /\ UNCHANGED <<session, list, flag, last, mon, ids, cam>>

(* Without programs the last one sent is stopped. *)
Stopping(s) == plan[s] = <<>>
Todo(s) == IF Stopping(s) THEN <<last[s]>> ELSE plan[s]

(* The descriptors of the systems in the list are copied. *)
Match ==
  /\ pmt.pc = "match"
  /\ pmt' = [pmt EXCEPT !.pc = "send",
               !.matched = Systems[Todo(pmt.slot)[pmt.k]] \cap list[pmt.slot]]
  /\ UNCHANGED <<session, list, flag, last, mon, plan, ids, cam>>

Overflows(p, matched) == matched \in TooLong[p]

(* LAST tested before FIRST, and nothing special about one program. *)
ListManagementPlain(k, n) ==
  IF k = n THEN "last" ELSE IF k = 1 THEN "first" ELSE "more"

(* CA_PMT_LIST_MANAGEMENT of the k-th of n. *)
ListManagement(k, n) ==
  IF n = 1 THEN "only" ELSE IF k = 1 THEN "first" ELSE IF k = n THEN "last" ELSE "more"

(* What the module has after it received a CA PMT. *)
Received(known, mode, e) ==
  {x \in known : mode \notin {"only", "first"} /\ x.prog # e.prog} \cup {e}

(* A CA PMT that is too long is dropped, before the program is recorded or *)
(* after; one without session is discarded.                                *)
Send ==
  /\ pmt.pc = "send"
  /\ LET s == pmt.slot
         n == Len(Todo(s))
         p == Todo(s)[pmt.k]
         e == [prog |-> p, systems |-> pmt.matched, stop |-> Stopping(s)]
         mode == ListManagement(pmt.k, n)
     IN  /\ IF Overflows(p, pmt.matched)
            THEN /\ last' \in {last, [last EXCEPT ![s] = p]}
                 /\ UNCHANGED cam
            ELSE /\ last' = [last EXCEPT ![s] = p]
                 /\ cam' = IF session[s]
                           THEN [cam EXCEPT ![s] = Received(@, mode, e)]
                           ELSE cam
         /\ pmt' = IF pmt.k < n
                   THEN [pmt EXCEPT !.pc = "match", !.k = @ + 1]
                   ELSE [pmt EXCEPT !.pc = "clear"]
  /\ UNCHANGED <<session, list, flag, mon, plan, ids>>

(* The request is taken as served. *)
ClearRequest ==
  /\ pmt.pc = "clear"
  /\ flag' = [flag EXCEPT ![pmt.slot] = FALSE]
  /\ pmt' = [pmt EXCEPT !.pc = "look", !.slot = Following(@), !.matched = {}]
  /\ UNCHANGED <<session, list, last, mon, plan, ids, cam>>

-----------------------------------------------------------------------------

Process == Look \/ ReadPlan \/ Match \/ Send \/ ClearRequest
Handling == StoreId \/ CaOk
Next ==
  \/ \E s \in Slot : Connect(s) \/ Close(s) \/ ModuleRemoved(s) \/ CaInfo(s)
  \/ Handling
  \/ Process

Spec == Init /\ [][Next]_vars

(* Both tasks loop for ever and do not block in the code; strong fairness  *)
(* says that keeping them apart (~Overlap) does not stop the process task. *)
FairSpec == Spec /\ WF_vars(Handling) /\ SF_vars(Process)

-----------------------------------------------------------------------------

(* Every variable has its type. *)
TypeOK ==
  /\ session \in [Slot -> BOOLEAN]
  /\ list \in [Slot -> SUBSET CaId]
  /\ flag \in [Slot -> BOOLEAN]
  /\ last \in [Slot -> Program]
  /\ mon \in [busy : BOOLEAN, slot : Slot, done : Nat]
  /\ pmt \in [pc : {"look", "plan", "match", "send", "clear"}, slot : Slot,
              k : Nat \ {0}, matched : SUBSET CaId]
  /\ plan \in [Slot -> {None} \cup Seq(Program)]
  /\ ids \in [Slot -> {None} \cup Seq(CaId)]
  /\ cam \in [Slot -> SUBSET Entry]

(* What the host keeps of an announcement. *)
Kept(q) == {q[i] : i \in {j \in 1..Len(q) : HasRoom(j - 1)}}

(* The CA PMTs a module should have for the programs of the last update    *)
(* and the systems it announced itself.                                    *)
WantedEntry(s, p) ==
  [prog |-> p, systems |-> Systems[p] \cap Kept(ids[s]), stop |-> Stopping(s)]
Programs(s) == {Todo(s)[k] : k \in 1..Len(Todo(s))}
Wanted(s) == {WantedEntry(s, p) : p \in Programs(s)}
AllFit(s) ==
  \A p \in Programs(s) : ~Overflows(p, Systems[p] \cap Kept(ids[s]))

(* Nothing is in the way of an update: the module has announced its        *)
(* systems, the programs could be read and their CA PMTs fit.              *)
Served(s) == plan[s] # None /\ AllFit(s) => cam[s] = Wanted(s)

(* When no request is waiting, a module that has announced its systems     *)
(* works on exactly the programs of the last update, each with the         *)
(* systems that module announced: nothing of an earlier module, list or    *)
(* plan is left, and no announcement is forgotten (WVCI_PMTCheck).         *)
UpToDate ==
  \A s \in Slot :
    ids[s] # None /\ ~Rebuilding(s) /\ ~flag[s] => Served(s)

(* An announcement is acted on in the end, unless the module announces     *)
(* anew or leaves.                                                         *)
AnnouncementServed ==
  \A s \in Slot :
    ids[s] # None ~> (ids[s] = None \/ Rebuilding(s) \/ (~flag[s] /\ Served(s)))
=============================================================================
