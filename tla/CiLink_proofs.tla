---------------------------- MODULE CiLink_proofs ----------------------------
(***************************************************************************)
(* Proofs about CiLink for any threads, messages, frame counts, queue and  *)
(* buffer sizes, with insertions and removals at any time.                 *)
(***************************************************************************)
EXTENDS CiLink, SequenceTheorems, WellFoundedInduction, TLAPS

(***************************************************************************)
(* The order of frames: c is the set of messages that have lost a frame,   *)
(* u what the module holds, q the queue.                                   *)
(***************************************************************************)
\* Frame g may follow frame f.
Fits(c, f, g) ==
  IF f.last THEN g.i = 1 \/ g.m \in c
            ELSE f.m \in c \/ (g.m = f.m /\ g.i = f.i + 1)

\* Frame g may be the next the module gets.
Front(c, cn, u, g) ==
  IF u # <<>> THEN Fits(c, u[Len(u)], g) ELSE cn => g.i = 1 \/ g.m \in c

\* Frame g may be the next in the queue.
Back(c, cn, u, q, g) ==
  IF q # <<>> THEN Fits(c, q[Len(q)], g) ELSE Front(c, cn, u, g)

InOrder(c, cn, u, q) ==
  /\ \A k \in 1 .. Len(q) - 1 : Fits(c, q[k], q[k + 1])
  /\ q # <<>> => Front(c, cn, u, q[1])

First(m) == [m |-> m, i |-> 1, last |-> FALSE]

LEMMA TotalsType == ASSUME NEW m \in Msg PROVE Totals(m) \subseteq Nat \ {0}
  BY LinkAssumption DEF Totals

LEMMA FirstType == ASSUME NEW m \in Msg PROVE First(m) \in Frame
  BY DEF First, Frame

\* A frame that may follow still may when more messages have lost frames.
LEMMA FitsLater ==
  ASSUME NEW c, NEW d, c \subseteq d, NEW f \in Frame, NEW g \in Frame, Fits(c, f, g)
  PROVE  Fits(d, f, g)
  BY DEF Fits, Frame

LEMMA FrontLater ==
  ASSUME NEW c, NEW d, c \subseteq d, NEW cn \in BOOLEAN, NEW u \in Seq(Frame),
         NEW g \in Frame, Front(c, cn, u, g)
  PROVE  Front(d, cn, u, g)
<1>1. CASE u = <<>>
  BY <1>1 DEF Front
<1>2. CASE u # <<>>
  <2>1. u[Len(u)] \in Frame /\ Fits(c, u[Len(u)], g)
    BY <1>2 DEF Front
  <2>2. Fits(d, u[Len(u)], g)
    BY <2>1, FitsLater
  <2> QED
    BY <1>2, <2>2 DEF Front
<1> QED
  BY <1>1, <1>2

LEMMA BackLater ==
  ASSUME NEW c, NEW d, c \subseteq d, NEW cn \in BOOLEAN, NEW u \in Seq(Frame),
         NEW q \in Seq(Frame), NEW g \in Frame, Back(c, cn, u, q, g)
  PROVE  Back(d, cn, u, q, g)
<1>1. CASE q = <<>>
  BY <1>1, FrontLater DEF Back
<1>2. CASE q # <<>>
  <2>1. q[Len(q)] \in Frame /\ Fits(c, q[Len(q)], g)
    BY <1>2 DEF Back
  <2>2. Fits(d, q[Len(q)], g)
    BY <2>1, FitsLater
  <2> QED
    BY <1>2, <2>2 DEF Back
<1> QED
  BY <1>1, <1>2

LEMMA OrderLater ==
  ASSUME NEW c, NEW d, c \subseteq d, NEW cn \in BOOLEAN, NEW u \in Seq(Frame),
         NEW q \in Seq(Frame), InOrder(c, cn, u, q)
  PROVE  InOrder(d, cn, u, q)
<1>1. ASSUME NEW k \in 1 .. Len(q) - 1 PROVE Fits(d, q[k], q[k + 1])
  <2>1. q[k] \in Frame /\ q[k + 1] \in Frame /\ Fits(c, q[k], q[k + 1])
    BY DEF InOrder
  <2> QED
    BY <2>1, FitsLater
<1>2. ASSUME q # <<>> PROVE Front(d, cn, u, q[1])
  <2>1. q[1] \in Frame /\ Front(c, cn, u, q[1])
    BY <1>2 DEF InOrder
  <2> QED
    BY <2>1, FrontLater
<1> QED
  BY <1>1, <1>2 DEF InOrder

\* Whether a frame may come does not depend on whether it is the last.
LEMMA BackSame ==
  ASSUME NEW c, NEW cn, NEW u, NEW q, NEW g, NEW h, g.m = h.m, g.i = h.i, Back(c, cn, u, q, g)
  PROVE  Back(c, cn, u, q, h)
  BY DEF Back, Front, Fits

\* Any message may begin after a frame that ends one, or whose message has
\* lost a frame.
LEMMA AnyNext ==
  ASSUME NEW c, NEW f \in Frame, f.last \/ f.m \in c, NEW m \in Msg
  PROVE  Fits(c, f, First(m))
  BY DEF Fits, First, Frame

LEMMA Concat ==
  ASSUME NEW q \in Seq(Frame), NEW w \in Seq(Frame)
  PROVE  /\ q \o w \in Seq(Frame) /\ Len(q \o w) = Len(q) + Len(w)
         /\ \A k \in 1 .. Len(q) : (q \o w)[k] = q[k]
         /\ \A k \in 1 .. Len(w) : (q \o w)[Len(q) + k] = w[k]
  OBVIOUS

\* One frame that may follow is stored behind the queue.
LEMMA StoredOne ==
  ASSUME NEW c, NEW cn \in BOOLEAN, NEW u \in Seq(Frame), NEW q \in Seq(Frame),
         NEW g \in Frame, InOrder(c, cn, u, q), Back(c, cn, u, q, g)
  PROVE  /\ Append(q, g) \in Seq(Frame) /\ Append(q, g) # <<>>
         /\ Append(q, g)[Len(Append(q, g))] = g
         /\ InOrder(c, cn, u, Append(q, g))
<1> DEFINE r == Append(q, g)
<1>1. /\ r \in Seq(Frame) /\ r # <<>> /\ r[Len(r)] = g
      /\ Len(r) = Len(q) + 1 /\ Len(q) \in Nat
      /\ \A k \in 1 .. Len(q) : r[k] = q[k]
  OBVIOUS
<1> HIDE DEF r
<1>2. ASSUME NEW k \in 1 .. Len(r) - 1 PROVE Fits(c, r[k], r[k + 1])
  <2>1. CASE k < Len(q)
    <3>1. k \in 1 .. Len(q) - 1 /\ r[k] = q[k] /\ r[k + 1] = q[k + 1]
      BY <1>1, <2>1
    <3> QED
      BY <3>1 DEF InOrder
  <2>2. CASE k = Len(q)
    <3>1. q # <<>> /\ r[k] = q[Len(q)] /\ r[k + 1] = g
      BY <1>1, <2>2
    <3> QED
      BY <3>1 DEF Back
  <2> QED
    BY <1>1, <2>1, <2>2
<1>3. Front(c, cn, u, r[1])
  <2>1. CASE q = <<>>
    <3>1. r[1] = g /\ Front(c, cn, u, g)
      BY <1>1, <2>1 DEF Back
    <3> QED
      BY <3>1
  <2>2. CASE q # <<>>
    <3>1. r[1] = q[1]
      BY <1>1, <2>2
    <3> QED
      BY <2>2, <3>1 DEF InOrder
  <2> QED
    BY <2>1, <2>2
<1> QED
  BY <1>1, <1>2, <1>3 DEF InOrder, r

LEMMA RunType ==
  ASSUME NEW m \in Msg, NEW n \in Nat, NEW total \in Nat
  PROVE  /\ Run(m, n, total) \in Seq(Frame) /\ Len(Run(m, n, total)) = n
         /\ \A k \in 1 .. n : Run(m, n, total)[k] = [m |-> m, i |-> k, last |-> k = total]
<1> DEFINE f(k) == [m |-> m, i |-> k, last |-> k = total]
<1>1. \A k \in 1 .. n : f(k) \in Frame
  <2>1. \A k \in 1 .. n : k \in Nat \ {0} /\ (k = total) \in BOOLEAN
    OBVIOUS
  <2> QED BY <2>1 DEF Frame
<1>2. Run(m, n, total) = [k \in 1 .. n |-> f(k)]
  BY DEF Run
<1> HIDE DEF f
<1>3. /\ [k \in 1 .. n |-> f(k)] \in Seq(Frame) /\ Len([k \in 1 .. n |-> f(k)]) = n
      /\ \A k \in 1 .. n : [j \in 1 .. n |-> f(j)][k] = f(k)
  BY <1>1
<1>4. /\ Run(m, n, total) \in Seq(Frame) /\ Len(Run(m, n, total)) = n
      /\ \A k \in 1 .. n : Run(m, n, total)[k] = f(k)
  BY <1>2, <1>3
<1> QED BY <1>4 DEF f

LEMMA RunIsOf ==
  ASSUME NEW m \in Msg, NEW n \in Nat, NEW total \in Nat
  PROVE  /\ Run(m, n, total) \in Seq(Frame) /\ Len(Run(m, n, total)) = n
         /\ \A k \in 1 .. n : Run(m, n, total)[k].m = m
<1>1. Run(m, n, total) \in Seq(Frame) /\ Len(Run(m, n, total)) = n
  BY RunType
<1>2. ASSUME NEW k \in 1 .. n PROVE Run(m, n, total)[k].m = m
  BY DEF Run
<1> QED BY <1>1, <1>2

\* The first n frames of a message are stored behind the queue.
LEMMA Stored ==
  ASSUME NEW c, NEW cn \in BOOLEAN, NEW u \in Seq(Frame), NEW q \in Seq(Frame),
         NEW m \in Msg, NEW n \in Nat \ {0}, NEW total \in Nat \ {0}, n <= total,
         InOrder(c, cn, u, q), Back(c, cn, u, q, First(m))
  PROVE  /\ q \o Run(m, n, total) \in Seq(Frame) /\ q \o Run(m, n, total) # <<>>
         /\ (q \o Run(m, n, total))[Len(q \o Run(m, n, total))]
              = [m |-> m, i |-> n, last |-> n = total]
         /\ InOrder(c, cn, u, q \o Run(m, n, total))
<1> DEFINE w == Run(m, n, total)
           r == q \o w
<1>1. /\ w \in Seq(Frame) /\ Len(w) = n
      /\ \A k \in 1 .. n : w[k] = [m |-> m, i |-> k, last |-> k = total]
  BY RunType
<1>2. /\ r \in Seq(Frame) /\ Len(r) = Len(q) + n /\ Len(q) \in Nat
      /\ \A k \in 1 .. Len(q) : r[k] = q[k]
      /\ \A k \in 1 .. n : r[Len(q) + k] = [m |-> m, i |-> k, last |-> k = total]
  <2> HIDE DEF w
  <2>1. /\ r \in Seq(Frame) /\ Len(r) = Len(q) + Len(w)
        /\ \A k \in 1 .. Len(q) : r[k] = q[k]
        /\ \A k \in 1 .. Len(w) : r[Len(q) + k] = w[k]
    BY ONLY <1>1, q \in Seq(Frame), Concat
  <2> QED
    BY ONLY <1>1, <2>1, q \in Seq(Frame)
<1> HIDE DEF r
<1>4. ASSUME NEW k \in 1 .. Len(r) - 1 PROVE Fits(c, r[k], r[k + 1])
  <2>1. CASE k < Len(q)
    <3>1. k \in 1 .. Len(q) - 1 /\ k \in 1 .. Len(q) /\ k + 1 \in 1 .. Len(q)
      BY ONLY <1>2, <2>1, n \in Nat \ {0}, k \in 1 .. Len(r) - 1
    <3>2. r[k] = q[k] /\ r[k + 1] = q[k + 1]
      BY ONLY <1>2, <3>1
    <3> QED
      BY <3>1, <3>2 DEF InOrder
  <2>2. CASE k = Len(q)
    <3>1. q # <<>>
      BY <1>2, <2>2
    <3>2. r[k] = q[Len(q)] /\ r[k + 1] = [m |-> m, i |-> 1, last |-> 1 = total]
      BY ONLY <1>2, <2>2, n \in Nat \ {0}, k \in 1 .. Len(r) - 1
    <3>3. Fits(c, q[Len(q)], First(m))
      BY <3>1 DEF Back
    <3> QED
      BY <3>2, <3>3 DEF Fits, First
  <2>3. CASE k > Len(q)
    <3> DEFINE i == k - Len(q)
    <3>1. i \in 1 .. n /\ i + 1 \in 1 .. n /\ k = Len(q) + i /\ k + 1 = Len(q) + (i + 1)
      BY ONLY <1>2, <2>3, n \in Nat \ {0}, k \in 1 .. Len(r) - 1
    <3> HIDE DEF i
    <3>2. /\ r[k] = [m |-> m, i |-> i, last |-> i = total]
          /\ r[k + 1] = [m |-> m, i |-> i + 1, last |-> i + 1 = total]
      BY ONLY <1>2, <3>1
    <3>3. ~r[k].last
      <4>1. i # total
        BY <3>1
      <4>2. r[k].last = (i = total)
        BY <3>2
      <4> QED BY <4>1, <4>2
    <3> QED
      BY <3>2, <3>3 DEF Fits
  <2> QED
    BY <1>2, <2>1, <2>2, <2>3
<1>5. Front(c, cn, u, r[1])
  <2>1. CASE q = <<>>
    <3>1. r[1].m = m /\ r[1].i = 1
      <4>1. 1 \in 1 .. n /\ Len(q) = 0
        BY <2>1
      <4>2. r[Len(q) + 1] = [m |-> m, i |-> 1, last |-> 1 = total]
        BY <1>2, <4>1
      <4> QED
        BY <4>1, <4>2
    <3> QED
      BY <2>1, <3>1 DEF Back, Front, Fits, First
  <2>2. CASE q # <<>>
    <3>1. r[1] = q[1]
      BY <1>2, <2>2
    <3> QED
      BY <2>2, <3>1 DEF InOrder
  <2> QED
    BY <2>1, <2>2
<1>6. r # <<>> /\ r[Len(r)] = [m |-> m, i |-> n, last |-> n = total]
  BY ONLY <1>2, n \in Nat \ {0}
<1> QED
  BY <1>2, <1>4, <1>5, <1>6 DEF InOrder, r

(***************************************************************************)
(* The strengthening of DamageConfined: frames are in order up to the next *)
(* one that will be stored, and what the module holds is a part of one     *)
(* message unless it has a frame of one that has lost frames.              *)
(***************************************************************************)
QueueType ==
  /\ queue \in Seq(Frame)
  /\ unit \in Seq(Frame)
  /\ cut \in SUBSET Msg
  /\ lock \in Locks
  /\ entered \in [Thread -> Message \cup {None}]
  /\ out \in Seq(Msg)
  /\ conn \in BOOLEAN
  /\ pc = "reply" => out # <<>>

Order == InOrder(cut, conn, unit, queue)

NextFits ==
  IF lock = Free
    THEN \A m \in Msg : Back(cut, conn, unit, queue, First(m))
    ELSE Back(cut, conn, unit, queue, InHand)

UnitSound ==
  conn => Whole(unit) \/ \E k \in DOMAIN unit : unit[k].m \in cut

IInv == QueueType /\ Order /\ NextFits /\ UnitSound

LEMMA LockTypes ==
  ASSUME lock \in Locks, lock # Free
  PROVE  /\ lock.m \in Message /\ lock.m \in Msg /\ lock.i \in Nat \ {0}
         /\ InHand \in Frame /\ InHand.m = lock.m /\ InHand.i = lock.i
         /\ InHand.last = (lock.made = "last")
  <1>1. PICK t \in Thread, m \in Message, i \in Nat \ {0}, made \in {"no", "more", "last"} :
          lock = [t |-> t, m |-> m, i |-> i, made |-> made]
    BY DEF Locks
  <1> QED
    BY <1>1 DEF Frame, Msg, InHand

\* What becomes of the mutex while a message is sent.
LEMMA LockMoves ==
  ASSUME lock \in Locks, lock # Free
  PROVE  /\ \A made \in {"more", "last"} :
              LET l == [lock EXCEPT !.made = made]
              IN  l \in Locks /\ l # Free /\ l.m = lock.m /\ l.i = lock.i
         /\ LET l == [lock EXCEPT !.i = lock.i + 1, !.made = "no"]
            IN  l \in Locks /\ l # Free /\ l.m = lock.m /\ l.i = lock.i + 1
  <1>1. PICK t \in Thread, m \in Message, i \in Nat \ {0}, made \in {"no", "more", "last"} :
          lock = [t |-> t, m |-> m, i |-> i, made |-> made]
    BY DEF Locks
  <1>2. m # None
    BY LinkAssumption
  <1>3. ASSUME NEW j \in Nat \ {0}, NEW b \in {"no", "more", "last"}
        PROVE  /\ [t |-> t, m |-> m, i |-> j, made |-> b] \in Locks
               /\ [t |-> t, m |-> m, i |-> j, made |-> b] # Free
    BY <1>2 DEF Locks, Free
  <1>4. ASSUME NEW l, NEW j \in Nat \ {0}, NEW a, l = [t |-> t, m |-> m, i |-> j, made |-> a],
               NEW b
        PROVE  [l EXCEPT !.made = b] = [t |-> t, m |-> m, i |-> j, made |-> b]
    BY ONLY <1>4
  <1> DEFINE next == [lock EXCEPT !.i = lock.i + 1]
  <1>5. next = [t |-> t, m |-> m, i |-> i + 1, made |-> made]
    BY ONLY <1>1, i \in Nat \ {0}
  <1>6. [lock EXCEPT !.i = lock.i + 1, !.made = "no"] = [next EXCEPT !.made = "no"]
    OBVIOUS
  <1> HIDE DEF next
  <1>7. [next EXCEPT !.made = "no"] = [t |-> t, m |-> m, i |-> i + 1, made |-> "no"]
    BY <1>4, <1>5
  <1>8. ASSUME NEW b \in {"more", "last"}
        PROVE  LET l == [lock EXCEPT !.made = b]
               IN  l \in Locks /\ l # Free /\ l.m = lock.m /\ l.i = lock.i
    <2>1. [lock EXCEPT !.made = b] = [t |-> t, m |-> m, i |-> i, made |-> b]
      BY <1>1, <1>4
    <2> QED BY ONLY <1>1, <1>3, <2>1, i \in Nat \ {0}, b \in {"more", "last"}
  <1>9. LET l == [lock EXCEPT !.i = lock.i + 1, !.made = "no"]
        IN  l \in Locks /\ l # Free /\ l.m = lock.m /\ l.i = lock.i + 1
    <2>1. [lock EXCEPT !.i = lock.i + 1, !.made = "no"]
            = [t |-> t, m |-> m, i |-> i + 1, made |-> "no"]
      BY <1>6, <1>7
    <2>2. i + 1 \in Nat \ {0} /\ lock.m = m /\ lock.i = i
      BY ONLY <1>1, i \in Nat \ {0}
    <2>3. /\ [t |-> t, m |-> m, i |-> i + 1, made |-> "no"] \in Locks
          /\ [t |-> t, m |-> m, i |-> i + 1, made |-> "no"] # Free
      BY <1>3, <2>2
    <2> QED BY ONLY <2>1, <2>2, <2>3
  <1> QED
    BY <1>8, <1>9

LEMMA UnitLater ==
  ASSUME UnitSound, cut \subseteq cut', UNCHANGED <<unit, conn>>
  PROVE  UnitSound'
  BY DEF UnitSound, Whole

\* A step that changes neither the queue nor the mutex nor what the module
\* holds.
LEMMA Quiet ==
  ASSUME IInv, UNCHANGED <<queue, unit, cut, lock, conn>>,
         entered' \in [Thread -> Message \cup {None}],
         out' \in Seq(Msg), pc' = "reply" => out' # <<>>
  PROVE  IInv'
<1>1. QueueType'
  BY DEF IInv, QueueType
<1>2. Order' /\ NextFits'
  BY DEF IInv, Order, NextFits, InHand
<1>3. UnitSound'
  BY DEF IInv, UnitSound, Whole
<1> QED
  BY <1>1, <1>2, <1>3 DEF IInv

\* After the last frame of a message, or of one that has lost a frame, every
\* message may begin.
LEMMA AllNext ==
  ASSUME NEW c, NEW cn, NEW u, NEW q, q # <<>>, q[Len(q)] \in Frame,
         q[Len(q)].last \/ q[Len(q)].m \in c
  PROVE  \A m \in Msg : Back(c, cn, u, q, First(m))
<1> SUFFICES ASSUME NEW m \in Msg PROVE Back(c, cn, u, q, First(m))
  OBVIOUS
<1>1. Fits(c, q[Len(q)], First(m))
  BY AnyNext
<1> QED
  BY <1>1 DEF Back

\* The task stores a message, all of it or what finds room.
LEMMA StoredAll ==
  ASSUME IInv, lock = Free, NEW m \in Msg, StoreAll(m),
         UNCHANGED <<unit, conn, lock, entered>>,
         out' \in Seq(Msg), pc' = "reply" => out' # <<>>
  PROVE  IInv'
<1> PICK total \in Totals(m) :
       LET stored == Min2(total, QueueSize - Len(queue))
       IN /\ queue' = queue \o Run(m, stored, total)
          /\ cut' = IF stored < total THEN cut \cup {m} ELSE cut
  BY DEF StoreAll
<1> DEFINE n == Min2(total, QueueSize - Len(queue))
<1>0. /\ queue \in Seq(Frame) /\ unit \in Seq(Frame) /\ conn \in BOOLEAN
      /\ cut \in SUBSET Msg
      /\ InOrder(cut, conn, unit, queue)
      /\ \A x \in Msg : Back(cut, conn, unit, queue, First(x))
  BY DEF IInv, QueueType, Order, NextFits
<1>1. /\ total \in Nat \ {0} /\ n \in Int /\ n <= total
  BY <1>0, TotalsType, LinkAssumption DEF Min2
<1>2. /\ queue' = queue \o Run(m, n, total)
      /\ cut' = IF n < total THEN cut \cup {m} ELSE cut
  OBVIOUS
<1> HIDE DEF n
<1>3. cut' \in SUBSET Msg /\ cut \subseteq cut'
  BY <1>0, <1>2
<1>4. CASE n <= 0
  <2>1. queue' = queue
    <3>1. 1 .. n = {}
      BY <1>1, <1>4
    <3>2. Run(m, n, total) = <<>>
      BY <3>1 DEF Run
    <3>3. queue \o <<>> = queue
      BY <1>0
    <3> QED
      BY ONLY <1>2, <3>2, <3>3, Zenon
  <2>2. InOrder(cut', conn, unit, queue)
    BY <1>0, <1>3, OrderLater
  <2>3. \A x \in Msg : Back(cut', conn, unit, queue, First(x))
    BY <1>0, <1>3, FirstType, BackLater
  <2>4. QueueType'
    BY <1>0, <1>3, <2>1 DEF IInv, QueueType
  <2>5. Order' /\ NextFits'
    BY <2>1, <2>2, <2>3 DEF Order, NextFits
  <2> QED
    BY <1>3, <2>4, <2>5, UnitLater DEF IInv
<1>5. CASE n > 0
  <2>1. n \in Nat \ {0} /\ total \in Nat \ {0} /\ n <= total
    BY <1>1, <1>5
  <2>2. Back(cut, conn, unit, queue, First(m))
    BY <1>0
  <2>3. queue' = queue \o Run(m, n, total)
    BY ONLY <1>2
  <2>4. /\ queue' \in Seq(Frame) /\ queue' # <<>>
        /\ queue'[Len(queue')] = [m |-> m, i |-> n, last |-> n = total]
        /\ InOrder(cut, conn, unit, queue')
    BY ONLY <1>0, <2>1, <2>2, <2>3, m \in Msg, Stored
  <2>5. InOrder(cut', conn, unit, queue')
    BY <1>0, <1>3, <2>4, OrderLater
  <2>6. /\ queue'[Len(queue')] \in Frame
        /\ queue'[Len(queue')].last \/ queue'[Len(queue')].m \in cut'
    BY <1>1, <1>2, <2>1, <2>4 DEF Frame
  <2>7. \A x \in Msg : Back(cut', conn, unit, queue', First(x))
    BY <2>4, <2>6, AllNext
  <2>8. QueueType'
    BY <1>3, <2>4 DEF IInv, QueueType
  <2>9. Order' /\ NextFits'
    BY <2>5, <2>7 DEF Order, NextFits
  <2> QED
    BY <1>3, <2>8, <2>9, UnitLater DEF IInv
<1> QED
  BY <1>1, <1>4, <1>5

\* A frame is dropped: whatever begins a message or belongs to the same one may
\* come next.
LEMMA FitsDropped ==
  ASSUME NEW c, NEW d, c \subseteq d, NEW t \in Frame, NEW f \in Frame, NEW g \in Frame,
         Fits(c, t, f), f.m \in d, g.i = 1 \/ g.m = f.m
  PROVE  Fits(d, t, g)
  BY DEF Fits, Frame

LEMMA BackDropped ==
  ASSUME NEW c, NEW d, c \subseteq d, NEW cn \in BOOLEAN, NEW u \in Seq(Frame),
         NEW q \in Seq(Frame), NEW f \in Frame, NEW g \in Frame,
         Back(c, cn, u, q, f), f.m \in d, g.i = 1 \/ g.m = f.m
  PROVE  Back(d, cn, u, q, g)
<1>1. CASE q # <<>>
  <2>1. q[Len(q)] \in Frame /\ Fits(c, q[Len(q)], f)
    BY <1>1 DEF Back
  <2> QED
    BY <1>1, <2>1, FitsDropped DEF Back
<1>2. CASE q = <<>> /\ u # <<>>
  <2>1. u[Len(u)] \in Frame /\ Fits(c, u[Len(u)], f)
    BY <1>2 DEF Back, Front
  <2> QED
    BY <1>2, <2>1, FitsDropped DEF Back, Front
<1>3. CASE q = <<>> /\ u = <<>>
  BY <1>3 DEF Back, Front
<1> QED
  BY <1>1, <1>2, <1>3

\* The module gets the head of the queue.
LEMMA BackMoved ==
  ASSUME NEW c, NEW cn, NEW u \in Seq(Frame), NEW q \in Seq(Frame), q # <<>>,
         NEW g, Back(c, cn, u, q, g)
  PROVE  Back(c, cn, Append(u, Head(q)), Tail(q), g)
<1>1. Fits(c, q[Len(q)], g)
  BY DEF Back
<1>2. CASE Tail(q) = <<>>
  <2>0. Len(q) = 1 /\ Head(q) = q[1]
    <3>1. Len(Tail(q)) = Len(q) - 1 /\ Len(q) \in Nat /\ Head(q) = q[1]
      OBVIOUS
    <3>2. Len(<<>>) = 0
      OBVIOUS
    <3>3. Len(Tail(q)) = 0
      BY ONLY <1>2, <3>2, Zenon
    <3> QED
      BY ONLY <3>1, <3>3
  <2>1. Append(u, Head(q)) # <<>>
        /\ Append(u, Head(q))[Len(Append(u, Head(q)))] = q[Len(q)]
    BY <2>0
  <2> QED
    BY <1>1, <1>2, <2>1 DEF Back, Front
<1>3. CASE Tail(q) # <<>>
  <2>1. Tail(q)[Len(Tail(q))] = q[Len(q)]
    BY <1>3
  <2> QED
    BY <1>1, <1>3, <2>1 DEF Back
<1> QED
  BY <1>2, <1>3

LEMMA OrderMoved ==
  ASSUME NEW c, NEW cn, NEW u \in Seq(Frame), NEW q \in Seq(Frame), q # <<>>,
         InOrder(c, cn, u, q)
  PROVE  InOrder(c, cn, Append(u, Head(q)), Tail(q))
<1>1. /\ Tail(q) \in Seq(Frame) /\ Len(Tail(q)) = Len(q) - 1 /\ Len(q) \in Nat
      /\ \A k \in 1 .. Len(Tail(q)) : Tail(q)[k] = q[k + 1]
  OBVIOUS
<1>2. ASSUME NEW k \in 1 .. Len(Tail(q)) - 1
      PROVE  Fits(c, Tail(q)[k], Tail(q)[k + 1])
  <2>1. /\ k + 1 \in 1 .. Len(q) - 1
        /\ k \in 1 .. Len(Tail(q)) /\ k + 1 \in 1 .. Len(Tail(q))
    BY <1>1
  <2>2. Tail(q)[k] = q[k + 1] /\ Tail(q)[k + 1] = q[(k + 1) + 1]
    BY <1>1, <2>1
  <2>3. Fits(c, q[k + 1], q[(k + 1) + 1])
    BY <2>1 DEF InOrder
  <2> QED
    BY <2>2, <2>3
<1>3. ASSUME Tail(q) # <<>> PROVE Front(c, cn, Append(u, Head(q)), Tail(q)[1])
  <2>1. Append(u, Head(q)) # <<>>
        /\ Append(u, Head(q))[Len(Append(u, Head(q)))] = q[1]
    OBVIOUS
  <2>2. 1 \in 1 .. Len(q) - 1 /\ Tail(q)[1] = q[1 + 1]
    BY <1>1, <1>3
  <2>3. Fits(c, q[1], q[1 + 1])
    BY <2>2 DEF InOrder
  <2> QED
    BY <2>1, <2>2, <2>3 DEF Front
<1> QED
  BY <1>2, <1>3 DEF InOrder

\* The module has a message and empties its buffer, with whatever result for
\* the connection; or it has no connection.
LEMMA BackEmptied ==
  ASSUME NEW c, NEW cn, NEW dn \in BOOLEAN, NEW u, NEW q, NEW g,
         Back(c, cn, u, q, g), dn => u # <<>> /\ u[Len(u)].last
  PROVE  Back(c, dn, <<>>, q, g)
  BY DEF Back, Front, Fits

LEMMA OrderEmptied ==
  ASSUME NEW c, NEW cn, NEW dn \in BOOLEAN, NEW u, NEW q,
         InOrder(c, cn, u, q), dn => u # <<>> /\ u[Len(u)].last
  PROVE  InOrder(c, dn, <<>>, q)
  BY DEF InOrder, Front, Fits

(***************************************************************************)
(* The steps of the threads.                                               *)
(***************************************************************************)
LEMMA EnterKeeps ==
  ASSUME IInv, NEW t \in Thread, NEW m \in Message, Enter(t, m) PROVE IInv'
<1>1. entered' \in [Thread -> Message \cup {None}]
  BY DEF IInv, QueueType, Enter
<1> QED
  BY <1>1, Quiet DEF Enter, cell, task, module, history, IInv, QueueType

LEMMA AcquireKeeps ==
  ASSUME IInv, NEW t \in Thread, Acquire(t) PROVE IInv'
<1>1. /\ entered[t] \in Message
      /\ lock' = [t |-> t, m |-> entered[t], i |-> 1, made |-> "no"]
      /\ UNCHANGED <<queue, unit, cut, conn, out, pc>>
      /\ entered' \in [Thread -> Message \cup {None}]
  BY DEF IInv, QueueType, Acquire, cell, task, module, history
<1>2. lock' \in Locks /\ lock' # Free /\ lock'.m = entered[t] /\ lock'.i = 1
  BY <1>1, LinkAssumption DEF Locks, Free
<1>3. QueueType'
  BY <1>1, <1>2 DEF IInv, QueueType
<1>4. Order'
  BY <1>1 DEF IInv, Order
<1>5. NextFits'
  <2>1. entered[t] \in Msg
    BY <1>1 DEF Msg
  <2>2. Back(cut, conn, unit, queue, First(entered[t]))
    BY <2>1 DEF Acquire, IInv, NextFits
  <2>3. InHand' = First(entered[t])
    BY <1>1 DEF InHand, First
  <2> QED
    BY <1>1, <1>2, <2>2, <2>3 DEF NextFits
<1>6. UnitSound'
  BY <1>1, UnitLater DEF IInv
<1> QED
  BY <1>3, <1>4, <1>5, <1>6 DEF IInv

LEMMA GiveUpKeeps ==
  ASSUME IInv, NEW t \in Thread, GiveUp(t) PROVE IInv'
<1>1. entered' \in [Thread -> Message \cup {None}]
  BY DEF IInv, QueueType, GiveUp
<1> QED
  BY <1>1, Quiet DEF GiveUp, cell, task, module, history, IInv, QueueType

LEMMA CutFrameKeeps ==
  ASSUME IInv, CutFrame PROVE IInv'
<1>1. /\ lock \in Locks /\ lock # Free
      /\ UNCHANGED <<queue, unit, cut, conn, entered, out, pc>>
      /\ lock' \in Locks /\ lock' # Free /\ lock'.m = lock.m /\ lock'.i = lock.i
  BY LockMoves DEF IInv, QueueType, CutFrame, cell, task, module, history
<1>2. QueueType' /\ Order' /\ UnitSound'
  BY <1>1, UnitLater DEF IInv, QueueType, Order
<1>3. NextFits'
  <2>1. Back(cut, conn, unit, queue, InHand)
    BY <1>1 DEF IInv, NextFits
  <2>2. InHand'.m = InHand.m /\ InHand'.i = InHand.i
    BY <1>1 DEF InHand
  <2>3. Back(cut, conn, unit, queue, InHand')
    BY <2>1, <2>2, BackSame
  <2> QED
    BY <1>1, <2>3 DEF NextFits
<1> QED
  BY <1>2, <1>3 DEF IInv

\* A frame is stored, or dropped for want of room or because it is too big.
LEMMA PutFrameKeeps ==
  ASSUME IInv, PutFrame PROVE IInv'
<1> DEFINE f == InHand
           g == [m |-> lock.m, i |-> lock.i + 1, last |-> FALSE]
<1>1. /\ lock \in Locks /\ lock # Free
      /\ queue \in Seq(Frame) /\ unit \in Seq(Frame) /\ conn \in BOOLEAN
      /\ cut \in SUBSET Msg
      /\ InOrder(cut, conn, unit, queue)
      /\ Back(cut, conn, unit, queue, f)
  BY DEF IInv, QueueType, Order, NextFits, PutFrame
<1>2. /\ f \in Frame /\ lock.m \in Msg /\ lock.i \in Nat \ {0}
      /\ f.m = lock.m /\ f.i = lock.i /\ f.last = (lock.made = "last")
  BY <1>1, LockTypes
<1>3. /\ UNCHANGED <<unit, conn, entered, out, pc>>
      /\ \/ Store(f)
         \/ lock.m \in cut /\ UNCHANGED <<queue, cut>>
      /\ lock' = IF lock.made = "last" THEN Free
                 ELSE [lock EXCEPT !.i = lock.i + 1, !.made = "no"]
  BY DEF PutFrame, task, module
<1>4. g \in Frame /\ g.m = f.m /\ g.i = f.i + 1 /\ ~g.last
  BY <1>2 DEF Frame
<1>5. /\ lock' \in Locks
      /\ f.last => lock' = Free
      /\ ~f.last => lock' # Free /\ InHand'.m = g.m /\ InHand'.i = g.i
  <2>1. CASE f.last
    BY <1>2, <1>3, <2>1 DEF Locks
  <2>2. CASE ~f.last
    <3>1. lock' = [lock EXCEPT !.i = lock.i + 1, !.made = "no"]
      BY <1>2, <1>3, <2>2
    <3>2. lock' \in Locks /\ lock' # Free /\ lock'.m = lock.m /\ lock'.i = lock.i + 1
      BY <1>1, <3>1, LockMoves
    <3> QED
      BY <2>2, <3>2 DEF InHand
  <2> QED
    BY <2>1, <2>2
<1> HIDE DEF f, g
\* It is enough that what may come afterwards is a first frame after the last
\* one, or the next of the same message.
<1>6. ASSUME queue' \in Seq(Frame), cut \subseteq cut', cut' \in SUBSET Msg,
             InOrder(cut', conn, unit, queue'),
             f.last => \A x \in Msg : Back(cut', conn, unit, queue', First(x)),
             ~f.last => Back(cut', conn, unit, queue', g)
      PROVE  IInv'
  <2>1. QueueType' /\ Order'
    BY <1>3, <1>5, <1>6 DEF IInv, QueueType, Order
  <2>2. NextFits'
    <3>1. CASE f.last
      BY <1>3, <1>5, <1>6, <3>1 DEF NextFits
    <3>2. CASE ~f.last
      <4>1. Back(cut', conn, unit, queue', InHand')
        BY <1>5, <1>6, <3>2, BackSame
      <4> QED
        BY <1>3, <1>5, <3>2, <4>1 DEF NextFits
    <3> QED
      BY <3>1, <3>2
  <2> QED
    BY <1>3, <1>6, <2>1, <2>2, UnitLater DEF IInv
<1>7. CASE queue' = Append(queue, f) /\ cut' = cut
  <2>1. /\ queue' \in Seq(Frame) /\ queue' # <<>> /\ queue'[Len(queue')] = f
        /\ InOrder(cut, conn, unit, queue')
    BY <1>1, <1>2, <1>7, StoredOne
  <2>2. f.last => \A x \in Msg : Back(cut, conn, unit, queue', First(x))
    BY <1>2, <2>1, AllNext
  <2>3. ~f.last => Back(cut, conn, unit, queue', g)
    BY <1>4, <2>1 DEF Back, Fits
  <2> QED
    BY <1>1, <1>6, <1>7, <2>1, <2>2, <2>3
<1>8. CASE queue' = queue /\ cut' \in {cut, cut \cup {f.m}} /\ f.m \in cut'
  <2>1. cut \subseteq cut' /\ cut' \in SUBSET Msg /\ f.m \in cut'
    BY <1>1, <1>2, <1>8
  <2>2. InOrder(cut', conn, unit, queue)
    BY <1>1, <2>1, OrderLater
  <2>3. ASSUME NEW x \in Msg PROVE Back(cut', conn, unit, queue, First(x))
    <3>1. First(x) \in Frame /\ First(x).i = 1
      BY FirstType DEF First
    <3> QED
      BY <1>1, <1>2, <2>1, <3>1, BackDropped
  <2>4. Back(cut', conn, unit, queue, g)
    BY <1>1, <1>2, <1>4, <2>1, BackDropped
  <2> QED
    BY <1>1, <1>6, <1>8, <2>1, <2>2, <2>3, <2>4
<1> QED
  BY <1>2, <1>3, <1>7, <1>8 DEF Store

(***************************************************************************)
(* The steps of the module and of the task that move or clear frames.      *)
(***************************************************************************)
\* The module holds one message, so far, or one with a frame of a message that
\* has lost frames; it gets another frame.
LEMMA UnitGrows ==
  ASSUME UnitSound, UNCHANGED <<cut, conn>>, unit \in Seq(Frame), conn \in BOOLEAN,
         NEW h \in Frame, unit' = Append(unit, h), ~Complete,
         Front(cut, conn, unit, h)
  PROVE  UnitSound'
<1> SUFFICES ASSUME conn
             PROVE  Whole(unit') \/ \E k \in DOMAIN unit' : unit'[k].m \in cut
  BY DEF UnitSound
<1>1. /\ DOMAIN unit' = 1 .. Len(unit) + 1 /\ DOMAIN unit = 1 .. Len(unit)
      /\ Len(unit) \in Nat
      /\ \A k \in DOMAIN unit : unit'[k] = unit[k]
      /\ unit'[Len(unit) + 1] = h
  OBVIOUS
<1>2. CASE \E k \in DOMAIN unit : unit[k].m \in cut
  BY <1>1, <1>2
<1>3. CASE h.m \in cut
  BY <1>1, <1>3
<1>4. CASE Whole(unit) /\ h.m \notin cut /\ unit = <<>>
  <2>1. h.i = 1
    BY <1>4 DEF Front
  <2>2. DOMAIN unit' = {1} /\ unit'[1] = h /\ Len(unit') = 1
    BY <1>1, <1>4
  <2> QED
    BY <2>1, <2>2 DEF Whole
<1>5. CASE Whole(unit) /\ unit # <<>> /\ ~(\E k \in DOMAIN unit : unit[k].m \in cut)
  <2>1. ~unit[Len(unit)].last
    BY <1>5 DEF Complete
  <2>2. Len(unit) \in DOMAIN unit /\ 1 \in DOMAIN unit
    BY <1>1, <1>5
  <2>3. h.m = unit[Len(unit)].m /\ h.i = unit[Len(unit)].i + 1
    BY <1>5, <2>1, <2>2 DEF Front, Fits
  <2>4. unit[Len(unit)].m = unit[1].m /\ unit[Len(unit)].i = Len(unit)
    BY <1>5, <2>2 DEF Whole
  <2>5. h.m = unit[1].m /\ h.i = Len(unit) + 1 /\ unit'[1] = unit[1]
    BY <1>1, <2>2, <2>3, <2>4
  <2>6. ASSUME NEW k \in DOMAIN unit'
        PROVE  /\ unit'[k].m = unit'[1].m /\ unit'[k].i = k
               /\ unit'[k].last => k = Len(unit) + 1
    <3>1. k \in DOMAIN unit \/ k = Len(unit) + 1
      BY <1>1
    <3>2. CASE k \in DOMAIN unit
      <4>1. /\ unit[k].m = unit[1].m /\ unit[k].i = k
            /\ unit[k].last => k = Len(unit)
        BY <1>5, <3>2 DEF Whole
      <4>2. ~unit[k].last
        BY <2>1, <4>1
      <4> QED
        BY <1>1, <2>5, <3>2, <4>1, <4>2
    <3>3. CASE k = Len(unit) + 1
      BY <1>1, <2>5, <3>3
    <3> QED
      BY <3>1, <3>2, <3>3
  <2>7. Len(unit') = Len(unit) + 1
    OBVIOUS
  <2> QED
    BY <2>6, <2>7 DEF Whole
<1> QED
  BY <1>2, <1>3, <1>4, <1>5 DEF UnitSound

LEMMA WriteFrameKeeps ==
  ASSUME IInv, WriteFrame PROVE IInv'
<1>1. /\ queue \in Seq(Frame) /\ unit \in Seq(Frame) /\ conn \in BOOLEAN
      /\ queue # <<>> /\ lock = Free
      /\ Order
      /\ \A x \in Msg : Back(cut, conn, unit, queue, First(x))
      /\ unit' = Append(unit, Head(queue)) /\ queue' = Tail(queue)
      /\ UNCHANGED <<cut, conn, entered, lock, out>> /\ pc' = "end"
      /\ ~Complete
  BY DEF IInv, QueueType, NextFits, WriteFrame, threads, history, FR
<1>2. unit' \in Seq(Frame) /\ queue' \in Seq(Frame) /\ Head(queue) \in Frame
      /\ Head(queue) = queue[1]
  BY <1>1
<1>3. QueueType'
  BY <1>1, <1>2 DEF IInv, QueueType
<1>4. Order'
  BY <1>1, OrderMoved DEF Order
<1>5. NextFits'
  <2>1. \A x \in Msg : Back(cut, conn, unit', queue', First(x))
    BY <1>1, BackMoved
  <2> QED
    BY <1>1, <2>1 DEF NextFits
<1>6. UnitSound'
  <2>1. Front(cut, conn, unit, Head(queue))
    BY <1>1, <1>2 DEF Order, InOrder
  <2> QED
    BY <1>1, <1>2, <2>1, UnitGrows DEF IInv
<1> QED
  BY <1>3, <1>4, <1>5, <1>6 DEF IInv

\* The module's buffer is emptied: it has taken a message, or it forgets.
LEMMA Emptied ==
  ASSUME IInv, UNCHANGED <<queue, cut, lock, entered, out>>, unit' = <<>>,
         conn' \in BOOLEAN, conn' => Complete,
         pc' = "reply" => pc = "reply"
  PROVE  IInv'
<1>1. conn' => unit # <<>> /\ unit[Len(unit)].last
  BY DEF Complete
<1>2. QueueType'
  BY DEF IInv, QueueType
<1>3. Order'
  BY <1>1, OrderEmptied DEF IInv, Order
<1>4. NextFits'
  <2>1. CASE lock = Free
    <3>1. \A x \in Msg : Back(cut, conn', <<>>, queue, First(x))
      BY <1>1, <2>1, BackEmptied DEF IInv, NextFits
    <3> QED
      BY <2>1, <3>1 DEF NextFits
  <2>2. CASE lock # Free
    <3>1. Back(cut, conn', <<>>, queue, InHand)
      BY <1>1, <2>2, BackEmptied DEF IInv, NextFits
    <3> QED
      BY <2>2, <3>1 DEF NextFits, IInv, InHand
  <2> QED
    BY <2>1, <2>2
<1>5. UnitSound'
  BY DEF UnitSound, Whole
<1> QED
  BY <1>2, <1>3, <1>4, <1>5 DEF IInv

LEMMA CamTakesKeeps ==
  ASSUME IInv, CamTakes PROVE IInv'
<1>1. UNCHANGED <<queue, cut, lock, entered, out, pc>> /\ unit' = <<>> /\ Complete
  BY DEF CamTakes, cell, threads, task, history
<1>2. conn' \in BOOLEAN
  BY DEF CamTakes, CamAnswers, IInv, QueueType
<1> QED
  BY <1>1, <1>2, Emptied

\* The message in hand, if there is one.
LEMMA TouchedType == ASSUME IInv PROVE Touched \in SUBSET Msg
<1>1. queue \in Seq(Frame) /\ lock \in Locks
  BY DEF IInv, QueueType
<1>2. ASSUME NEW k \in DOMAIN queue PROVE queue[k].m \in Msg
  <2>1. queue[k] \in Frame
    BY <1>1
  <2> QED
    BY ONLY <2>1 DEF Frame
<1> QED
  BY <1>1, <1>2, LockTypes DEF Touched

\* An insertion or a removal, also while a thread is sending.
LEMMA Cleared ==
  ASSUME IInv, Memset, ModuleForgets, UNCHANGED <<threads, out>>, pc' # "reply"
  PROVE  IInv'
<1>1. /\ queue' = <<>> /\ unit' = <<>> /\ conn' = FALSE /\ cut' \in SUBSET Msg
      /\ UNCHANGED <<lock, entered, out>>
  BY LockTypes DEF Memset, ModuleForgets, threads, IInv, QueueType
<1>2. QueueType'
  <2>1. cut' \in SUBSET Msg
    BY <1>1
  <2>2. queue' \in Seq(Frame) /\ unit' \in Seq(Frame)
    BY <1>1
  <2> QED
    BY <1>1, <2>1, <2>2 DEF IInv, QueueType
<1>3. Order' /\ NextFits' /\ UnitSound'
  BY <1>1 DEF Order, InOrder, NextFits, Back, Front, UnitSound, IInv
<1> QED
  BY <1>2, <1>3 DEF IInv

(***************************************************************************)
(* The steps of the task that store a message or touch no frame.           *)
(***************************************************************************)
LEMMA ReplyKeeps ==
  ASSUME IInv, Reply PROVE IInv'
<1>1. out \in Seq(Msg) /\ out # <<>>
  BY DEF IInv, QueueType, Reply
<1>2. Head(out) \in Msg /\ Tail(out) \in Seq(Msg)
  BY <1>1
<1>3. /\ StoreAll(Head(out)) /\ lock = Free /\ UNCHANGED <<unit, conn, lock, entered>>
      /\ out' \in Seq(Msg) /\ (pc' = "reply" => out' # <<>>)
  BY <1>2 DEF Reply, threads, module
<1> QED
  BY <1>2, <1>3, StoredAll

LEMMA SendPollKeeps ==
  ASSUME IInv, SendPoll PROVE IInv'
<1>1. Poll \in Msg
  BY DEF Msg, Control
<1>2. /\ StoreAll(Poll) /\ lock = Free /\ UNCHANGED <<unit, conn, lock, entered, out>>
      /\ pc' # "reply"
  BY DEF SendPoll, At, threads, module
<1> QED
  BY <1>1, <1>2, StoredAll DEF IInv, QueueType

\* The buffer size is written, also while a thread is sending.
LEMMA SetSizeKeeps ==
  ASSUME IInv, NEW z, NEW next, next # "reply", SetSize(z, next) PROVE IInv'
<1>1. /\ UNCHANGED <<queue, unit, lock, conn, entered, out>> /\ pc' # "reply"
      /\ cut \subseteq cut' /\ cut' \in SUBSET Msg
  BY TouchedType DEF SetSize, At, threads, module, IInv, QueueType
<1>2. /\ queue \in Seq(Frame) /\ unit \in Seq(Frame) /\ conn \in BOOLEAN /\ lock \in Locks
  BY DEF IInv, QueueType
<1>3. QueueType'
  BY <1>1 DEF IInv, QueueType
<1>4. Order'
  BY <1>1, <1>2, OrderLater DEF IInv, Order
<1>5. NextFits'
  <2>1. CASE lock = Free
    <3>1. \A m \in Msg : Back(cut', conn, unit, queue, First(m))
      BY <1>1, <1>2, <2>1, FirstType, BackLater DEF IInv, NextFits
    <3> QED
      BY <1>1, <2>1, <3>1 DEF NextFits
  <2>2. CASE lock # Free
    <3>1. Back(cut', conn, unit, queue, InHand)
      BY <1>1, <1>2, <2>2, LockTypes, BackLater DEF IInv, NextFits
    <3> QED
      BY <1>1, <2>2, <3>1 DEF NextFits, InHand
  <2> QED
    BY <2>1, <2>2
<1>6. UnitSound'
  BY <1>1, UnitLater DEF IInv
<1> QED
  BY <1>3, <1>4, <1>5, <1>6 DEF IInv

Configuring == SizeComes \/ HighByte \/ LowByte \/ SizeAgreed \/ ConfigFails

LEMMA ConfiguringSets ==
  ASSUME Configuring
  PROVE  \E next \in {"high", "low", "check", "create", "empty"} :
            \E z : SetSize(z, next) /\ pc \in {"config", "high", "low", "check"}
BY DEF Configuring, SizeComes, HighByte, LowByte, SizeAgreed, ConfigFails

LEMMA ConfiguringKeeps ==
  ASSUME IInv, Configuring PROVE IInv'
BY ConfiguringSets, SetSizeKeeps

LEMMA ConfiguredKeeps ==
  ASSUME IInv, Configured PROVE IInv'
<1>1. Create \in Msg
  BY DEF Msg, Control
<1>2. /\ StoreAll(Create) /\ lock = Free /\ UNCHANGED <<unit, conn, lock, entered, out>>
      /\ pc' # "reply"
  BY DEF Configured, At, threads, module
<1> QED
  BY <1>1, <1>2, StoredAll DEF IInv, QueueType

LEMMA ParseTpduKeeps ==
  ASSUME IInv, ParseTpdu PROVE IInv'
<1>1. UNCHANGED <<queue, unit, cut, lock, conn, entered>>
  BY DEF ParseTpdu, ReadingLast, Reading, threads
<1>2. PICK response \in {<<>>} \cup {<<m>> : m \in Message} :
        /\ out' = response \o (IF answer.da THEN <<Rcv>> ELSE <<>>)
        /\ pc' = IF out' = <<>> THEN "end" ELSE "reply"
  BY DEF ParseTpdu
<1>3. response \in Seq(Msg)
  <2>1. CASE response = <<>>
    BY <2>1
  <2>2. CASE response \in {<<m>> : m \in Message}
    <3>1. PICK m \in Message : response = <<m>>
      BY <2>2
    <3>2. m \in Msg
      BY DEF Msg
    <3>3. <<m>> \in Seq(Msg)
      BY ONLY <3>2
    <3> QED
      BY <3>1, <3>3
  <2> QED
    BY <2>1, <2>2
<1>5. (IF answer.da THEN <<Rcv>> ELSE <<>>) \in Seq(Msg)
  <2>1. Rcv \in Msg
    BY DEF Msg, Control
  <2>2. <<Rcv>> \in Seq(Msg) /\ <<>> \in Seq(Msg)
    BY ONLY <2>1
  <2> QED
    BY <2>2
<1>4. out' \in Seq(Msg)
  BY <1>2, <1>3, <1>5
<1> QED
  BY <1>1, <1>2, <1>4, Quiet DEF IInv, QueueType

\* Everything else the task does.
LEMMA ReadKeeps ==
  ASSUME IInv, ReadOverrun \/ ReadNothing \/ ReadPart \/ ParseUnknown PROVE IInv'
<1>1. UNCHANGED <<queue, unit, cut, lock, conn, entered, out>> /\ pc' # "reply"
  BY DEF ReadOverrun, ReadNothing, ReadPart, ParseUnknown, ReadingLast, Reading, cell, threads
<1> QED
  BY <1>1, Quiet DEF IInv, QueueType

LEMMA TaskKeeps ==
  ASSUME IInv, \/ CheckSlot \/ NothingToRead \/ SendAfterAll \/ WriteFails
               \/ NothingToSend \/ PollDue \/ Again
  PROVE  IInv'
<1>1. UNCHANGED <<queue, unit, cut, lock, conn, entered, out>> /\ pc' # "reply"
  BY DEF CheckSlot, NothingToRead, SendAfterAll, WriteFails, NothingToSend, PollDue,
         Again, At, cell, rxVars, threads, module, history
<1> QED
  BY <1>1, Quiet DEF IInv, QueueType

LEMMA ResetModuleKeeps ==
  ASSUME IInv, ResetModule PROVE IInv'
<1>1. /\ UNCHANGED <<queue, cut, lock, entered, out>> /\ unit' = <<>>
      /\ conn' = FALSE /\ pc' # "reply"
  BY DEF ResetModule, ModuleForgets, At, threads, history
<1> QED
  BY <1>1, Emptied

LEMMA InitIInv == Init => IInv
<1> SUFFICES ASSUME Init PROVE IInv
  OBVIOUS
<1>1. QueueType
  <2>1. cut \in SUBSET Msg
    BY DEF Init
  <2>2. queue \in Seq(Frame) /\ unit \in Seq(Frame) /\ out \in Seq(Msg)
    BY DEF Init
  <2> QED
    BY <2>1, <2>2 DEF Init, QueueType, Locks
<1>2. Order /\ NextFits /\ UnitSound
  BY DEF Init, Order, InOrder, NextFits, Back, Front, UnitSound
<1> QED
  BY <1>1, <1>2 DEF IInv

LEMMA NextIInv == IInv /\ [Next]_vars => IInv'
<1> SUFFICES ASSUME IInv, [Next]_vars PROVE IInv'
  OBVIOUS
<1>1. CASE UNCHANGED vars
  BY <1>1, Quiet DEF vars, cell, threads, task, module, history, IInv, QueueType
<1>2. CASE \E t \in Thread, m \in Message : Enter(t, m)
  BY <1>2, EnterKeeps
<1>3. CASE Sender \/ \E t \in Thread : GiveUp(t)
  BY <1>3, CutFrameKeeps, PutFrameKeeps, AcquireKeeps, GiveUpKeeps DEF Sender
<1>4. CASE Serve
  <2>1. \/ CheckSlot \/ NothingToRead \/ SendAfterAll \/ NothingToSend \/ PollDue \/ Again
        \/ ReadOverrun \/ ReadNothing \/ ReadPart \/ ParseUnknown
        \/ ParseTpdu \/ Reply \/ WriteFrame \/ SendPoll \/ ResetModule
    BY <1>4 DEF Serve, Read
  <2> QED
    BY <2>1, TaskKeeps, ReadKeeps, ParseTpduKeeps, ReplyKeeps, WriteFrameKeeps,
       SendPollKeeps, ResetModuleKeeps
<1>5. CASE ResetModule
  BY <1>5, ResetModuleKeeps
<1>6. CASE WriteFails \/ Configuring
  BY <1>6, TaskKeeps, ConfiguringKeeps
<1>7. CASE ModuleInserted \/ ModuleRemoved
  <2>1. Memset /\ ModuleForgets /\ UNCHANGED <<threads, out>> /\ pc' # "reply"
    BY <1>7 DEF ModuleInserted, ModuleRemoved, At
  <2> QED
    BY <2>1, Cleared
<1>8. CASE Configured
  BY <1>8, ConfiguredKeeps
<1>9. CASE CamTakes
  BY <1>9, CamTakesKeeps
<1> QED
  BY <1>1, <1>2, <1>3, <1>4, <1>5, <1>6, <1>7, <1>8, <1>9 DEF Next, Configuring

\* What a connected module takes for a message is one message, whole and in
\* order, or has a frame of one that CI_WriteData has cut or that was cut
\* while the buffer size changed: for any number of threads, any messages and
\* frame counts, any queue size, and with insertions and removals at any time.
THEOREM MessagesStayWhole == Spec => []DamageConfined
<1>1. IInv => DamageConfined
  BY DEF IInv, UnitSound, DamageConfined
<1> QED
  BY <1>1, InitIInv, NextIInv, PTL DEF Spec

(***************************************************************************)
(* The buffer size.                                                        *)
(***************************************************************************)
Unsized == {"empty", "config", "high", "low", "check"}

SizeInv == size \in 0 .. MaxWord /\ TaskSized

LEMMA WordType == MaxWord \in Nat /\ SizeOfSize <= MaxWord
BY DEF MaxWord, SizeOfSize

\* The task neither leaves the states in which it may have a size nor writes it.
LEMMA SizeStays ==
  ASSUME SizeInv, size' = size, pc' \in Unsized \/ pc \notin Unsized PROVE SizeInv'
BY DEF SizeInv, TaskSized, Unsized

LEMMA InitSize == Init => SizeInv
BY WordType DEF Init, SizeInv, TaskSized

LEMMA SizeSteps == SizeInv /\ [Next]_vars => SizeInv'
<1> SUFFICES ASSUME SizeInv, [Next]_vars PROVE SizeInv'
  OBVIOUS
<1>1. CASE \/ UNCHANGED vars
           \/ \E t \in Thread, m \in Message : Enter(t, m)
           \/ Sender \/ CamTakes \/ \E t \in Thread : GiveUp(t)
  <2>1. size' = size /\ pc' = pc
    BY <1>1 DEF vars, Enter, Sender, Acquire, CutFrame, PutFrame, GiveUp, CamTakes,
       cell, task
  <2> QED BY <2>1 DEF SizeInv, TaskSized
<1>2. CASE Serve \/ ResetModule \/ WriteFails
  <2>1. size' = size /\ (pc' \in Unsized \/ pc \notin Unsized)
    <3>1. CASE \/ CheckSlot \/ NothingToRead \/ SendAfterAll \/ NothingToSend \/ PollDue
               \/ Again \/ WriteFails
      BY <3>1 DEF CheckSlot, NothingToRead, SendAfterAll, WriteFails, NothingToSend,
                  PollDue, Again, At, cell, Unsized
    <3>2. CASE Read
      BY <3>2 DEF Read, ReadOverrun, ReadNothing, ReadPart, ParseTpdu, ParseUnknown,
                  ReadingLast, Reading, cell, Unsized
    <3>3. CASE Reply \/ SendPoll \/ WriteFrame \/ ResetModule
      BY <3>3 DEF Reply, SendPoll, WriteFrame, ResetModule, At, Unsized
    <3> QED BY <1>2, <3>1, <3>2, <3>3 DEF Serve
  <2> QED BY <2>1, SizeStays
<1>3. CASE ModuleInserted \/ ModuleRemoved
  BY <1>3, WordType DEF ModuleInserted, ModuleRemoved, Memset, At, SizeInv, TaskSized
<1>4. CASE SizeComes \/ HighByte \/ LowByte \/ ConfigFails
  <2>1. ASSUME NEW z \in 0 .. MaxWord, NEW next \in Unsized, SetSize(z, next)
        PROVE  SizeInv'
    BY <2>1 DEF SetSize, At, SizeInv, TaskSized, Unsized
  <2>2. ASSUME NEW z \in Offered
        PROVE  z \in 0 .. MaxWord /\ 256 * (z \div 256) \in 0 .. MaxWord
    <3>1. z \in Nat /\ z <= MaxWord
      BY LinkAssumption, WordType
    <3>2. 256 * (z \div 256) \in Nat /\ 256 * (z \div 256) <= z
      BY <3>1
    <3> QED BY <3>1, <3>2, WordType
  <2>3. CASE SizeComes
    <3>1. SizeOfSize \in 0 .. MaxWord
      BY WordType DEF SizeOfSize
    <3> QED BY <2>1, <2>3, <3>1 DEF SizeComes, Unsized
  <2>4. CASE HighByte
    BY <2>1, <2>2, <2>4 DEF HighByte, Unsized
  <2>5. CASE LowByte
    BY <2>1, <2>2, <2>5 DEF LowByte, Unsized
  <2>6. CASE ConfigFails
    BY <2>1, <2>2, <2>6 DEF ConfigFails, Unsized, SizeInv
  <2> QED BY <1>4, <2>3, <2>4, <2>5, <2>6
<1>5. CASE SizeAgreed
  <2>1. size \in 0 .. MaxWord /\ size >= MinSize /\ size' = Min2(size, MaxSize)
    BY <1>5 DEF SizeAgreed, SetSize, SizeInv
  <2>2. size' \in MinSize .. MaxSize /\ size' \in 0 .. MaxWord
    BY <2>1, WordType DEF Min2, MinSize, MaxSize
  <2> QED BY <2>2 DEF SizeInv, TaskSized
<1>6. CASE Configured
  <2>1. pc = "create" /\ size' = size
    BY <1>6 DEF Configured
  <2> QED BY <2>1, SizeStays DEF Unsized
<1> QED BY <1>1, <1>2, <1>3, <1>4, <1>5, <1>6 DEF Next

\* The task cuts no message with a size below the 16 bytes that EN50221 requires
\* or above the room of a queue entry, whatever modules offer and whenever they
\* come and go: only the other threads meet a size that has been cleared.
THEOREM TaskSizeKept == Spec => []TaskSized
<1>1. SizeInv => TaskSized
  BY DEF SizeInv
<1> QED BY <1>1, InitSize, SizeSteps, PTL DEF Spec

(***************************************************************************)
(* Type correctness.  IInv types what is sent, RestType the rest.          *)
(***************************************************************************)
QueueFits == Len(queue) <= QueueSize

RestType ==
  /\ size \in 0 .. MaxWord /\ gotAck \in BOOLEAN
  /\ rxPending \in BOOLEAN /\ reset \in BOOLEAN
  /\ tpdu \in 0 .. MaxTpdu /\ rx \in Nat /\ unknown \in 0 .. 3
  /\ pc \in Pc /\ busy \in BOOLEAN
  /\ answer \in Answer /\ sent \in Nat /\ missed \in BOOLEAN

RInv == RestType /\ QueueFits

LEMMA StoreFits ==
  ASSUME NEW f \in Frame, IInv, QueueFits, Store(f) PROVE QueueFits'
<1>1. queue \in Seq(Frame)
  BY DEF IInv, QueueType
<1>2. CASE Len(queue) < QueueSize
  <2>1. queue' = Append(queue, f)
    BY <1>2 DEF Store
  <2>2. Len(queue') = Len(queue) + 1 /\ Len(queue) \in Nat
    BY <1>1, <2>1
  <2> QED BY <1>2, <2>2, LinkAssumption DEF QueueFits
<1>3. CASE ~(Len(queue) < QueueSize)
  BY <1>3 DEF Store, QueueFits
<1> QED BY <1>2, <1>3

LEMMA StoreAllFits ==
  ASSUME NEW m \in Msg, IInv, QueueFits, StoreAll(m) PROVE QueueFits'
<1>1. PICK total \in Totals(m) :
        queue' = queue \o Run(m, Min2(total, QueueSize - Len(queue)), total)
  BY DEF StoreAll
<1> DEFINE n == Min2(total, QueueSize - Len(queue))
           run == Run(m, n, total)
<1>2. queue \in Seq(Frame) /\ Len(queue) \in Nat /\ total \in Nat
  BY TotalsType DEF IInv, QueueType
<1>3. n \in Nat /\ n <= QueueSize - Len(queue)
  BY <1>2, LinkAssumption DEF Min2, QueueFits
<1>4. run \in Seq(Frame) /\ Len(run) = n
  BY <1>2, <1>3, RunType
<1> HIDE DEF n, run
<1>5. Len(queue') = Len(queue) + n
  BY <1>1, <1>2, <1>4, Concat DEF run, n
<1> QED BY <1>2, <1>3, <1>5, LinkAssumption DEF QueueFits

LEMMA NoAnswerType == NoAnswer \in Answer
BY DEF NoAnswer, Answer, Kinds

LEMMA InitRest == Init => RInv
<1> SUFFICES ASSUME Init PROVE RInv
  OBVIOUS
<1>1. /\ tpdu \in 0 .. MaxTpdu /\ rx \in Nat /\ unknown \in 0 .. 3 /\ sent \in Nat
      /\ size \in 0 .. MaxWord
  BY LinkAssumption, WordType DEF Init
<1>2. QueueFits
  BY LinkAssumption DEF Init, QueueFits
<1> QED BY <1>1, <1>2, NoAnswerType DEF Init, RInv, RestType, Pc

\* A step of the task, or of a thread, that reads nothing and puts nothing into
\* the queue.
LEMMA RestStays ==
  ASSUME RInv, UNCHANGED <<queue, answer, sent, tpdu, rx, rxPending, unknown, missed>>,
         size' \in 0 .. MaxWord, gotAck' \in BOOLEAN, reset' \in BOOLEAN,
         pc' \in Pc, busy' \in BOOLEAN
  PROVE  RInv'
BY DEF RInv, RestType, QueueFits

LEMMA ReadNothingRest == ASSUME RInv, ReadNothing PROVE RInv'
<1>0. RestType
  BY DEF RInv
<1>1. PICK i \in {answer.i, answer.i + 1} : answer' = [answer EXCEPT !.i = i]
  BY DEF ReadNothing
<1>2. answer' \in Answer
  <2>1. i \in Nat
    BY <1>0, <1>1 DEF RestType, Answer
  <2> QED BY <1>0, <1>1, <2>1 DEF RestType, Answer
<1> QED BY <1>0, <1>2 DEF ReadNothing, cell, RInv, RestType, QueueFits, Pc

LEMMA ReadRest == ASSUME RInv, Read, ~ReadNothing PROVE RInv'
<1>0. RestType
  BY DEF RInv
<1>1. Reading
  BY DEF Read, ReadOverrun, ReadPart, ParseTpdu, ParseUnknown, ReadingLast
<1>2. QueueFits'
  BY <1>1 DEF RInv, QueueFits, Reading
<1>3. answer' \in Answer /\ sent' \in Nat /\ size' \in 0 .. MaxWord /\ busy' \in BOOLEAN
  BY <1>0, <1>1 DEF RestType, Reading, Answer
<1>4. rxPending' \in BOOLEAN /\ missed' \in BOOLEAN
  BY <1>0 DEF RestType, Read, ReadOverrun, ReadPart, ParseTpdu, ParseUnknown, ReadingLast
<1>5. tpdu' = 0 \/ (tpdu < MaxTpdu /\ tpdu' = tpdu + 1)
  <2>1. ReadOverrun \/ ReadPart \/ ReadingLast
    BY DEF Read, ParseTpdu, ParseUnknown
  <2> QED BY <2>1 DEF ReadOverrun, ReadPart, ReadingLast
<1>6. tpdu' \in 0 .. MaxTpdu
  BY <1>0, <1>5, LinkAssumption DEF RestType
<1>7. rx' = rx \/ rx' = rx + 1 \/ rx' = 0
  BY DEF Read, ReadOverrun, ReadPart, ParseTpdu, ParseUnknown
<1>8. unknown' \in 0 .. 3 /\ reset' \in BOOLEAN
  <2>1. CASE ParseUnknown
    <3>1. PICK u \in {unknown + 1, 3} : unknown' = Min2(u, 3) /\ reset' = (u > 2 \/ reset)
      BY <2>1 DEF ParseUnknown
    <3>2. unknown' \in 0 .. 3
      BY <1>0, <3>1 DEF RestType, Min2
    <3> QED BY <1>0, <3>1, <3>2 DEF RestType
  <2>2. CASE ~ParseUnknown
    BY <1>0, <2>2 DEF RestType, Read, ReadOverrun, ReadPart, ParseTpdu
  <2> QED BY <2>1, <2>2
<1>9. rx' \in Nat
  BY <1>0, <1>7 DEF RestType
<1>10. pc' \in Pc /\ gotAck' \in BOOLEAN
  BY <1>0 DEF RestType, Read, ReadOverrun, ReadPart, ParseTpdu, ParseUnknown, Pc
<1> QED BY <1>2, <1>3, <1>4, <1>6, <1>8, <1>9, <1>10 DEF RInv, RestType

LEMMA CamTakesRest == ASSUME RInv, CamTakes PROVE RInv'
<1>1. answer' \in Answer /\ sent' \in Nat
  <2>1. sent \in Nat /\ answer \in Answer
    BY DEF RInv, RestType
  <2>2. ASSUME NEW kind \in Kinds, NEW part \in Nat, Says(kind, part)
        PROVE  answer' \in Answer
    BY <2>2, LinkAssumption DEF Says, Answer
  <2>3. CASE CamAnswers
    BY <2>1, <2>2, <2>3 DEF CamAnswers, Kinds
  <2> QED BY <2>1, <2>3 DEF CamTakes
<1> QED BY <1>1 DEF RInv, RestType, QueueFits, CamTakes, cell, threads, task, history

\* What an insertion or a removal leaves behind.
LEMMA ClearedRest ==
  ASSUME RInv, Memset, ModuleForgets, pc' \in Pc, busy' = busy PROVE RInv'
<1>1. QueueFits'
  BY LinkAssumption DEF Memset, QueueFits
<1>2. /\ tpdu' \in 0 .. MaxTpdu /\ rx' \in Nat /\ unknown' \in 0 .. 3 /\ sent' \in Nat
      /\ size' \in 0 .. MaxWord
  BY LinkAssumption, WordType DEF Memset, ModuleForgets
<1>3. RestType'
  BY <1>2, NoAnswerType DEF RInv, RestType, Memset, ModuleForgets
<1> QED BY <1>1, <1>3 DEF RInv

LEMMA RestStep == IInv /\ SizeInv /\ RInv /\ [Next]_vars => RInv'
<1> SUFFICES ASSUME IInv, SizeInv, RInv, [Next]_vars PROVE RInv'
  OBVIOUS
<1>0. RestType
  BY DEF RInv
<1>1. CASE UNCHANGED vars
  BY <1>0, <1>1, RestStays DEF RestType, vars, cell, threads, task, module, history
<1>2. CASE \/ \E t \in Thread, m \in Message : Enter(t, m)
           \/ \E t \in Thread : Acquire(t)
           \/ \E t \in Thread : GiveUp(t)
           \/ CutFrame
  BY <1>0, <1>2, RestStays
     DEF RestType, Enter, Acquire, GiveUp, CutFrame, cell, task, module, history
<1>3. CASE PutFrame
  <2>1. lock \in Locks /\ lock # Free
    BY <1>3 DEF PutFrame, IInv, QueueType
  <2>2. QueueFits'
    <3>1. CASE Store(InHand)
      BY <2>1, <3>1, LockTypes, StoreFits DEF RInv
    <3>2. CASE UNCHANGED queue
      BY <3>2 DEF RInv, QueueFits
    <3> QED BY <1>3, <3>1, <3>2 DEF PutFrame
  <2>3. RestType'
    BY <1>0, <1>3 DEF RestType, PutFrame, rxVars, task, module
  <2> QED BY <2>2, <2>3 DEF RInv
<1>4. CASE Read
  BY <1>4, ReadRest, ReadNothingRest
<1>5. CASE Reply \/ SendPoll \/ Configured
  <2>1. PICK m \in Msg : StoreAll(m)
    <3>1. CASE Reply
      <4>1. out \in Seq(Msg) /\ out # <<>>
        BY <3>1 DEF Reply, IInv, QueueType
      <4>2. Head(out) \in Msg /\ StoreAll(Head(out))
        BY <3>1, <4>1 DEF Reply
      <4> QED BY <4>2
    <3>2. CASE SendPoll \/ Configured
      BY <3>2 DEF SendPoll, Configured, Msg, Control
    <3> QED BY <1>5, <3>1, <3>2
  <2>2. QueueFits'
    BY <2>1, StoreAllFits DEF RInv
  <2>3. RestType'
    BY <1>0, <1>5 DEF RestType, Reply, SendPoll, Configured, At, rxVars, module, Pc
  <2> QED BY <2>2, <2>3 DEF RInv
<1>6. CASE WriteFrame
  <2>1. queue \in Seq(Frame) /\ queue # <<>> /\ queue' = Tail(queue)
    BY <1>6 DEF WriteFrame, IInv, QueueType
  <2>2. Len(queue') = Len(queue) - 1 /\ Len(queue) \in Nat
    BY <2>1
  <2>3. QueueFits'
    BY <2>2, LinkAssumption DEF RInv, QueueFits
  <2>4. RestType'
    BY <1>0, <1>6 DEF RestType, WriteFrame, rxVars, history, Pc
  <2> QED BY <2>3, <2>4 DEF RInv
<1>7. CASE ResetModule
  <2>1. QueueFits'
    BY <1>7 DEF ResetModule, RInv, QueueFits
  <2>2. RestType'
    BY <1>0, <1>7, NoAnswerType DEF RestType, ResetModule, ModuleForgets, At, history, Pc
  <2> QED BY <2>1, <2>2 DEF RInv
<1>8. CASE ModuleInserted \/ ModuleRemoved
  <2>1. Memset /\ ModuleForgets /\ busy' = busy /\ pc' \in Pc
    BY <1>8 DEF ModuleInserted, ModuleRemoved, At, Pc, Configs
  <2> QED BY <2>1, ClearedRest
<1>9. CASE CamTakes
  BY <1>9, CamTakesRest
<1>10. CASE \/ CheckSlot \/ NothingToRead \/ SendAfterAll \/ WriteFails
            \/ NothingToSend \/ PollDue \/ Again
  <2>1. UNCHANGED <<queue, answer, sent, tpdu, rx, rxPending, unknown, missed, gotAck, reset>>
    BY <1>10 DEF CheckSlot, NothingToRead, SendAfterAll, WriteFails, NothingToSend,
         PollDue, Again, cell, rxVars, module, history
  <2>2. size' \in 0 .. MaxWord /\ busy' \in BOOLEAN /\ pc' \in Pc
    BY <1>0, <1>10 DEF RestType, CheckSlot, NothingToRead, SendAfterAll, WriteFails,
         NothingToSend, PollDue, Again, At, cell, Pc
  <2> QED BY <1>0, <2>1, <2>2, RestStays DEF RestType
<1>11. CASE Configuring
  <2>1. PICK next \in {"high", "low", "check", "create", "empty"} : \E z : SetSize(z, next)
    BY <1>11, ConfiguringSets
  <2>2. size' \in 0 .. MaxWord
    BY SizeSteps DEF SizeInv
  <2>3. UNCHANGED <<queue, answer, sent, tpdu, rx, rxPending, unknown, missed, gotAck, reset>>
    BY <2>1 DEF SetSize, rxVars, module
  <2>4. busy' = busy /\ pc' \in Pc
    BY <2>1 DEF SetSize, At, Pc, Configs
  <2> QED BY <1>0, <2>2, <2>3, <2>4, RestStays DEF RestType
<1> QED BY <1>1, <1>2, <1>3, <1>4, <1>5, <1>6, <1>7, <1>8, <1>9, <1>10, <1>11
        DEF Next, Sender, Serve, Configuring

LEMMA AlwaysTyped == Spec => [](IInv /\ RInv)
BY InitIInv, NextIInv, InitSize, SizeSteps, InitRest, RestStep, PTL DEF Spec

\* Every variable of the link keeps its type; the queue never holds more than
\* QueueSize frames (CI_WriteData) and the host never more of an answer than its
\* buffer (Read_CI_T).
THEOREM TypeCorrect == Spec => []TypeOK
<1>1. IInv /\ RInv => TypeOK
  BY DEF IInv, QueueType, RInv, RestType, QueueFits, TypeOK
<1> QED BY <1>1, AlwaysTyped, PTL

(***************************************************************************)
(* The parts of an SPDU.  The connection is asked for once after every     *)
(* insertion, and nothing has been received before it is made: so a module *)
(* that has it agrees with the host on the parts, also after a reset, of   *)
(* which the slot knows nothing.                                           *)
(***************************************************************************)
Created(q) == \E k \in 1 .. Len(q) : q[k].m = Create
One(q) == \A j, k \in 1 .. Len(q) : q[j].m = Create /\ q[k].m = Create => j = k

CreatedOnce ==
  /\ One(queue)
  /\ Created(queue) => ~Created(unit)
  /\ pc \in Configs => ~Created(queue) /\ ~Created(unit)

Connecting == pc \in Configs \/ Created(queue) \/ Created(unit)
Fresh == tpdu = 0 /\ rx = 0 /\ sent = 0 /\ ~conn /\ ~DA

\* The host has read of an answer what the module has given.
InAnswer == ~missed /\ conn => (DA => tpdu = answer.i) /\ (~DA => tpdu = 0)

AnswerSound ==
  /\ answer.i <= answer.n
  /\ DA /\ answer.kind = "more" => sent = answer.part + 1
  /\ DA /\ answer.kind = "last" => sent = 0

OutSound == out \in Seq(Msg \ {Create})

PInv ==
  /\ CreatedOnce /\ (Connecting => Fresh) /\ InAnswer /\ AnswerSound
  /\ OutSound /\ PartsAgree

\* Requests for a connection in a queue that gets longer, or shorter.
LEMMA CreatedJoined ==
  ASSUME NEW q \in Seq(Frame), NEW w \in Seq(Frame)
  PROVE  /\ Created(q \o w) <=> (Created(q) \/ Created(w))
         /\ One(q) /\ One(w) /\ ~(Created(q) /\ Created(w)) => One(q \o w)
<1> DEFINE r == q \o w
<1>1. /\ r \in Seq(Frame) /\ Len(r) = Len(q) + Len(w)
      /\ Len(q) \in Nat /\ Len(w) \in Nat
      /\ \A k \in 1 .. Len(q) : r[k] = q[k]
      /\ \A k \in 1 .. Len(w) : r[Len(q) + k] = w[k]
  BY Concat
<1> HIDE DEF r
<1>2. ASSUME NEW k \in 1 .. Len(r)
      PROVE  k \in 1 .. Len(q) \/ \E l \in 1 .. Len(w) : k = Len(q) + l
  <2>1. CASE k > Len(q)
    <3>1. k - Len(q) \in 1 .. Len(w) /\ k = Len(q) + (k - Len(q))
      BY <1>1, <2>1
    <3> QED BY <3>1
  <2> QED BY <1>1, <2>1
<1>3. Created(r) => Created(q) \/ Created(w)
  BY <1>1, <1>2 DEF Created
<1>4. Created(q) \/ Created(w) => Created(r)
  <2>1. ASSUME NEW k \in 1 .. Len(w) PROVE Len(q) + k \in 1 .. Len(r)
    BY <1>1
  <2>2. 1 .. Len(q) \subseteq 1 .. Len(r)
    BY <1>1
  <2> QED BY <1>1, <2>1, <2>2 DEF Created
<1>5. ASSUME One(q), One(w), ~(Created(q) /\ Created(w)),
             NEW j \in 1 .. Len(r), NEW k \in 1 .. Len(r),
             r[j].m = Create, r[k].m = Create
      PROVE  j = k
  <2>1. CASE j \in 1 .. Len(q) /\ k \in 1 .. Len(q)
    BY <1>1, <1>5, <2>1 DEF One
  <2>2. ASSUME NEW a \in 1 .. Len(w), NEW b \in 1 .. Len(w),
               j = Len(q) + a, k = Len(q) + b
        PROVE  j = k
    <3>1. w[a].m = Create /\ w[b].m = Create
      BY <1>1, <1>5, <2>2
    <3>2. a = b
      BY <1>5, <3>1 DEF One
    <3> QED BY <2>2, <3>2
  <2>3. ASSUME NEW a \in 1 .. Len(q), NEW b \in 1 .. Len(w),
               r[a].m = Create, r[Len(q) + b].m = Create
        PROVE  FALSE
    <3>1. q[a].m = Create /\ w[b].m = Create
      BY <1>1, <2>3
    <3> QED BY <1>5, <3>1 DEF Created
  <2> QED BY ONLY <1>2, <1>5, <2>1, <2>2, <2>3, j \in 1 .. Len(r), k \in 1 .. Len(r)
<1> QED BY <1>3, <1>4, <1>5 DEF One, r

LEMMA CreatedTail ==
  ASSUME NEW q \in Seq(Frame), q # <<>>
  PROVE  /\ Created(Tail(q)) => Created(q)
         /\ Head(q).m = Create => Created(q)
         /\ One(q) => One(Tail(q))
         /\ One(q) /\ Head(q).m = Create => ~Created(Tail(q))
<1> DEFINE r == Tail(q)
<1>1. /\ Len(r) = Len(q) - 1 /\ Len(q) \in Nat /\ Len(q) > 0 /\ Head(q) = q[1]
      /\ \A k \in 1 .. Len(r) : r[k] = q[k + 1]
  OBVIOUS
<1> HIDE DEF r
<1>2. 1 \in 1 .. Len(q) /\ \A k \in 1 .. Len(r) : k + 1 \in 1 .. Len(q) /\ k + 1 # 1
  BY <1>1
<1>3. \A j, k \in 1 .. Len(r) : j + 1 = k + 1 => j = k
  BY <1>1
<1> QED BY <1>1, <1>2, <1>3 DEF Created, One, r

LEMMA CreatedAppended ==
  ASSUME NEW q \in Seq(Frame), NEW f \in Frame
  PROVE  /\ Created(Append(q, f)) <=> (Created(q) \/ f.m = Create)
         /\ One(q) /\ ~(Created(q) /\ f.m = Create) => One(Append(q, f))
<1> DEFINE w == <<f>>
<1>1. w \in Seq(Frame) /\ Append(q, f) = q \o w /\ Len(w) = 1 /\ w[1] = f
  OBVIOUS
<1> HIDE DEF w
<1>2. (Created(w) <=> f.m = Create) /\ One(w)
  BY <1>1 DEF Created, One
<1>3. /\ Created(q \o w) <=> (Created(q) \/ Created(w))
      /\ One(q) /\ One(w) /\ ~(Created(q) /\ Created(w)) => One(q \o w)
  BY ONLY <1>1, q \in Seq(Frame), CreatedJoined
<1> QED BY ONLY <1>1, <1>2, <1>3

\* A message is stored, all of it or what finds room.
LEMMA CreatedStored ==
  ASSUME NEW q \in Seq(Frame), NEW m \in Msg, NEW total \in Totals(m), NEW n \in Int,
         n <= total
  PROVE  /\ m # Create => /\ Created(q \o Run(m, n, total)) <=> Created(q)
                          /\ One(q) => One(q \o Run(m, n, total))
         /\ m = Create /\ ~Created(q) => One(q \o Run(m, n, total))
<1> DEFINE w == Run(m, n, total)
           r == q \o w
<1>1. CASE n <= 0
  <2>1. 1 .. n = {}
    BY <1>1
  <2>2. w = <<>> /\ q \o <<>> = q
    BY <2>1 DEF Run
  <2>3. r = q
    BY <2>2
  <2> QED BY <2>3 DEF Created, One
<1>2. CASE n > 0
  <2>0. n \in Nat /\ total \in Nat
    <3>1. Totals(m) \subseteq Nat
      BY TotalsType
    <3> QED BY ONLY <1>2, <3>1, n \in Int, total \in Totals(m)
  <2>1. w \in Seq(Frame) /\ Len(w) = n /\ \A k \in 1 .. n : w[k].m = m
    BY ONLY <2>0, m \in Msg, RunIsOf
  <2>2. r = q \o w
    OBVIOUS
  <2> HIDE DEF w
  <2>3. m # Create => ~Created(w) /\ One(w)
    BY <2>1 DEF Created, One
  <2>4. m = Create => One(w)
    <3>1. Totals(Create) = {1}
      BY LinkAssumption DEF Totals, Control
    <3> QED BY <2>1, <3>1, <1>2 DEF One
  <2>5. /\ Created(q \o w) <=> (Created(q) \/ Created(w))
        /\ One(q) /\ One(w) /\ ~(Created(q) /\ Created(w)) => One(q \o w)
    BY ONLY <2>1, q \in Seq(Frame), CreatedJoined
  <2>6. m # Create => (Created(r) <=> Created(q)) /\ (One(q) => One(r))
    BY ONLY <2>2, <2>3, <2>5
  <2>7. m = Create /\ ~Created(q) => One(r)
    <3>1. ~Created(q) => One(q)
      BY DEF Created, One
    <3>2. m = Create /\ ~Created(q) => One(q \o w)
      BY ONLY <2>4, <2>5, <3>1
    <3> QED BY ONLY <2>2, <3>2
  <2>8. r = q \o Run(m, n, total)
    BY DEF w
  <2> QED BY ONLY <2>6, <2>7, <2>8
<1> QED BY <1>1, <1>2

\* A step that neither asks for a connection nor reads or answers anything.
LEMMA PartsStay ==
  ASSUME PInv, UNCHANGED <<tpdu, rx, answer, sent, conn, missed>>, OutSound',
         CreatedOnce', Connecting' => Connecting
  PROVE  PInv'
BY DEF PInv, Fresh, InAnswer, AnswerSound, PartsAgree, DA

LEMMA InitParts == Init => PInv
<1> SUFFICES ASSUME Init PROVE PInv
  OBVIOUS
<1>1. /\ pc = "empty" /\ queue = <<>> /\ unit = <<>> /\ out = <<>> /\ ~conn /\ tpdu = 0
      /\ answer = NoAnswer
  BY DEF Init
<1>2. CreatedOnce /\ ~Connecting
  BY <1>1 DEF CreatedOnce, Connecting, Created, One, Configs
<1>3. InAnswer /\ AnswerSound /\ PartsAgree /\ OutSound
  BY <1>1 DEF InAnswer, AnswerSound, DA, NoAnswer, OutSound, PartsAgree
<1> QED BY <1>2, <1>3 DEF PInv

\* What StoreAll puts into the queue.
LEMMA StoreAllRun ==
  ASSUME IInv, NEW m \in Msg, StoreAll(m)
  PROVE  \E total \in Totals(m) :
            \E n \in Int : n <= total /\ (QueueFits => n >= 0) /\ queue' = queue \o Run(m, n, total)
<1>1. PICK total \in Totals(m) :
        queue' = queue \o Run(m, Min2(total, QueueSize - Len(queue)), total)
  BY DEF StoreAll
<1> DEFINE n == Min2(total, QueueSize - Len(queue))
<1>2. queue \in Seq(Frame) /\ Len(queue) \in Nat /\ total \in Nat
  BY TotalsType DEF IInv, QueueType
<1>3. n \in Int /\ n <= total /\ (QueueFits => n >= 0)
  BY <1>2, LinkAssumption DEF Min2, QueueFits
<1> QED BY <1>1, <1>3

LEMMA StoredParts ==
  ASSUME IInv, PInv, NEW m \in Msg \ {Create}, StoreAll(m), OutSound',
         pc \notin Configs, pc' \notin Configs,
         UNCHANGED <<tpdu, rx, answer, sent, conn, missed, unit>>
  PROVE  PInv'
<1>1. PICK total \in Totals(m), n \in Int : n <= total /\ queue' = queue \o Run(m, n, total)
  BY StoreAllRun
<1>2. queue \in Seq(Frame)
  BY DEF IInv, QueueType
<1>3. /\ Created(queue \o Run(m, n, total)) <=> Created(queue)
      /\ One(queue) => One(queue \o Run(m, n, total))
  BY <1>1, <1>2, CreatedStored
<1>4. (Created(queue') <=> Created(queue)) /\ (One(queue) => One(queue'))
  BY ONLY <1>1, <1>3
<1>5. Created(unit') <=> Created(unit)
  BY DEF Created
<1>6. CreatedOnce' /\ (Connecting' => Connecting)
  BY <1>4, <1>5 DEF PInv, CreatedOnce, Connecting
<1> QED BY <1>6, PartsStay

LEMMA ConfiguredParts == ASSUME IInv, PInv, Configured PROVE PInv'
<1>1. queue \in Seq(Frame) /\ Create \in Msg /\ StoreAll(Create)
  BY DEF Configured, IInv, QueueType, Msg, Control
<1>2. PICK total \in Totals(Create), n \in Int :
        n <= total /\ queue' = queue \o Run(Create, n, total)
  BY <1>1, StoreAllRun
<1>4. /\ ~Created(queue) /\ ~Created(unit) /\ Fresh /\ Connecting
      /\ pc' = "away" /\ UNCHANGED <<tpdu, rx, answer, sent, conn, missed, unit, out>>
  BY DEF Configured, PInv, CreatedOnce, Connecting, At, rxVars, module, Configs
<1>5. One(queue')
  <2>1. One(queue \o Run(Create, n, total))
    BY <1>1, <1>2, <1>4, CreatedStored
  <2> QED BY ONLY <1>2, <2>1
<1>6. ~Created(unit') /\ OutSound'
  BY <1>4 DEF Created, OutSound, PInv
<1> QED BY <1>4, <1>5, <1>6, PartsStay DEF CreatedOnce, Configs

\* The steps that agree on the size: the connection is still to be asked for.
LEMMA ConfiguringParts == ASSUME IInv, PInv, Configuring PROVE PInv'
<1>1. PICK next \in {"high", "low", "check", "create", "empty"} :
        \E z : SetSize(z, next) /\ pc \in {"config", "high", "low", "check"}
  BY ConfiguringSets
<1>2. /\ UNCHANGED <<queue, unit, out, answer, sent, conn, tpdu, rx, missed>>
      /\ pc \in Configs
  BY <1>1 DEF SetSize, rxVars, module, At, Configs
<1>3. CreatedOnce' /\ (Connecting' => Connecting)
  BY <1>2 DEF PInv, CreatedOnce, Connecting, Created, One
<1> QED BY <1>2, <1>3, PartsStay DEF PInv, OutSound

LEMMA PutParts == ASSUME IInv, PInv, PutFrame PROVE PInv'
<1> DEFINE f == InHand
<1>1. /\ queue \in Seq(Frame) /\ f \in Frame /\ f.m \in Message
      /\ UNCHANGED <<tpdu, rx, answer, sent, conn, missed, unit, out, pc>>
      /\ queue' = queue \/ queue' = Append(queue, f)
  BY LockTypes DEF PutFrame, Store, IInv, QueueType, rxVars, task, module
<1>2. f.m # Create
  BY <1>1, LinkAssumption DEF Control
<1> HIDE DEF f
<1>3. (Created(queue') <=> Created(queue)) /\ (One(queue) => One(queue'))
  <2>1. CASE queue' = Append(queue, f)
    <3>1. /\ Created(Append(queue, f)) <=> (Created(queue) \/ f.m = Create)
          /\ One(queue) /\ ~(Created(queue) /\ f.m = Create) => One(Append(queue, f))
      BY ONLY <1>1, CreatedAppended
    <3> QED BY ONLY <1>2, <2>1, <3>1
  <2>2. CASE queue' = queue
    BY ONLY <2>2
  <2> QED BY <1>1, <2>1, <2>2
<1>4. (Created(unit') <=> Created(unit)) /\ OutSound'
  BY <1>1 DEF Created, OutSound, PInv
<1>5. CreatedOnce' /\ (Connecting' => Connecting)
  BY <1>1, <1>3, <1>4 DEF PInv, CreatedOnce, Connecting
<1> QED BY <1>1, <1>4, <1>5, PartsStay

LEMMA WriteFrameParts == ASSUME IInv, PInv, WriteFrame PROVE PInv'
<1>1. /\ queue \in Seq(Frame) /\ unit \in Seq(Frame) /\ queue # <<>>
      /\ Head(queue) \in Frame
      /\ unit' = Append(unit, Head(queue)) /\ queue' = Tail(queue)
      /\ UNCHANGED <<tpdu, rx, answer, sent, conn, missed, out>> /\ pc' = "end"
  BY DEF WriteFrame, IInv, QueueType, rxVars, history
<1>2. /\ Created(unit') <=> (Created(unit) \/ Head(queue).m = Create)
      /\ Created(queue') => Created(queue)
      /\ Head(queue).m = Create => Created(queue)
      /\ One(queue) => One(queue')
      /\ One(queue) /\ Head(queue).m = Create => ~Created(queue')
  BY <1>1, CreatedAppended, CreatedTail
<1>3. CreatedOnce' /\ (Connecting' => Connecting)
  BY <1>1, <1>2 DEF PInv, CreatedOnce, Connecting, Configs
<1>4. OutSound'
  BY <1>1 DEF OutSound, PInv
<1> QED BY <1>1, <1>3, <1>4, PartsStay

\* The module forgets, and the slot does, or the module has lost its connection.
LEMMA ForgottenParts ==
  ASSUME PInv, ModuleForgets, UNCHANGED out, pc \notin Configs, pc' \notin Configs,
         UNCHANGED <<queue, tpdu, rx, missed>>
  PROVE  PInv'
<1>1. ~Created(unit') /\ (Created(queue') <=> Created(queue)) /\ (One(queue) => One(queue'))
  BY DEF ModuleForgets, Created, One
<1>2. OutSound'
  BY DEF PInv, OutSound
<1>3. ~DA'
  BY DEF ModuleForgets, NoAnswer, DA
<1>4. CreatedOnce' /\ (Connecting' => Connecting)
  BY <1>1 DEF PInv, CreatedOnce, Connecting
<1>5. InAnswer' /\ AnswerSound' /\ PartsAgree' /\ (Fresh => Fresh')
  BY <1>3 DEF InAnswer, AnswerSound, PartsAgree, ModuleForgets, NoAnswer, Fresh
<1> QED BY <1>2, <1>4, <1>5 DEF PInv

LEMMA ClearedParts ==
  ASSUME PInv, Memset, ModuleForgets, UNCHANGED out PROVE PInv'
<1>1. ~Created(unit') /\ ~Created(queue') /\ One(queue')
  BY DEF ModuleForgets, Memset, Created, One
<1>2. OutSound'
  BY DEF PInv, OutSound
<1>3. ~DA'
  BY DEF ModuleForgets, NoAnswer, DA
<1>4. CreatedOnce'
  BY <1>1 DEF CreatedOnce
<1>5. InAnswer' /\ AnswerSound' /\ PartsAgree' /\ Fresh'
  BY <1>3 DEF InAnswer, AnswerSound, PartsAgree, ModuleForgets, Memset, NoAnswer, Fresh
<1> QED BY <1>2, <1>4, <1>5 DEF PInv

\* A frame of an answer is missed.
LEMMA ReadNothingParts == ASSUME RInv, PInv, ReadNothing PROVE PInv'
<1>1. /\ DA /\ missed' /\ UNCHANGED <<queue, unit, conn, sent, out, tpdu, rx>>
      /\ pc \notin Configs /\ pc' \notin Configs
  BY DEF ReadNothing, cell, Configs
<1>2. PICK i \in {answer.i, answer.i + 1} : answer' = [answer EXCEPT !.i = i]
  BY DEF ReadNothing
<1>3. /\ answer'.kind = answer.kind /\ answer'.part = answer.part
      /\ answer'.n = answer.n /\ answer'.i <= answer'.n
  BY <1>1, <1>2 DEF RInv, RestType, Answer, DA
<1>4. ~Connecting' /\ CreatedOnce'
  BY <1>1 DEF PInv, Fresh, Connecting, CreatedOnce, Created, One
<1>5. AnswerSound'
  BY <1>1, <1>3 DEF PInv, AnswerSound
<1>6. OutSound' /\ InAnswer' /\ PartsAgree'
  BY <1>1 DEF PInv, OutSound, InAnswer, PartsAgree
<1> QED BY <1>4, <1>5, <1>6 DEF PInv

\* A frame of an answer is read.
LEMMA ReadParts == ASSUME IInv, RInv, PInv, Read, ~ReadNothing PROVE PInv'
<1>0. answer \in Answer /\ tpdu \in 0 .. MaxTpdu /\ rx \in Nat /\ sent \in Nat
  BY DEF RInv, RestType
<1>1. Reading
  BY DEF Read, ReadOverrun, ReadPart, ParseTpdu, ParseUnknown, ReadingLast
<1>2. /\ DA /\ answer' = [answer EXCEPT !.i = answer.i + 1]
      /\ UNCHANGED <<queue, conn, unit, sent>> /\ pc \notin Configs
  BY <1>1 DEF Reading, Configs
<1>3. /\ answer'.kind = answer.kind /\ answer'.part = answer.part
      /\ answer'.n = answer.n /\ answer'.i = answer.i + 1
      /\ answer.i \in Nat /\ answer.n \in Nat /\ answer.i < answer.n /\ answer.part \in Nat
  BY <1>0, <1>2 DEF Answer, DA
<1>4. ~Connecting /\ pc' \notin Configs
  <2>1. pc' \notin Configs
    BY DEF Read, ReadOverrun, ReadPart, ParseTpdu, ParseUnknown, Configs
  <2> QED BY <1>2, <2>1 DEF PInv, Fresh
<1>5. ~Connecting' /\ CreatedOnce'
  BY <1>2, <1>4 DEF PInv, Connecting, Created, CreatedOnce, One
<1>6. AnswerSound'
  BY <1>2, <1>3 DEF PInv, AnswerSound, DA
<1>7. OutSound'
  <2>1. CASE ParseTpdu
    <3>1. PICK response \in {<<>>} \cup {<<m>> : m \in Message} :
            out' = response \o (IF answer.da THEN <<Rcv>> ELSE <<>>)
      BY <2>1 DEF ParseTpdu
    <3>2. ASSUME NEW m \in Message PROVE <<m>> \in Seq(Msg \ {Create})
      <4>1. m \in Msg \ {Create}
        BY LinkAssumption DEF Msg, Control
      <4> QED BY ONLY <4>1
    <3>3. response \in Seq(Msg \ {Create})
      <4>1. CASE response = <<>>
        BY <4>1
      <4>2. CASE response # <<>>
        <5>1. PICK m \in Message : response = <<m>>
          BY <3>1, <4>2
        <5> QED BY <3>2, <5>1, Zenon
      <4> QED BY <4>1, <4>2
    <3>4. (IF answer.da THEN <<Rcv>> ELSE <<>>) \in Seq(Msg \ {Create})
      <4>1. Rcv \in Msg \ {Create}
        BY DEF Msg, Control, Rcv, Create
      <4>2. <<Rcv>> \in Seq(Msg \ {Create}) /\ <<>> \in Seq(Msg \ {Create})
        BY ONLY <4>1
      <4> QED BY <4>2
    <3> QED BY <3>1, <3>3, <3>4 DEF OutSound
  <2>2. CASE ~ParseTpdu
    <3>1. out' = out
      BY <2>2 DEF Read, ReadOverrun, ReadPart, ParseUnknown
    <3> QED BY <3>1 DEF OutSound, PInv
  <2> QED BY <2>1, <2>2
<1>8. ASSUME ~missed', conn' PROVE InAnswer' /\ PartsAgree'
  <2>1. ~missed /\ conn
    BY <1>2, <1>8 DEF Read, ReadOverrun, ReadPart, ParseTpdu, ParseUnknown, ReadingLast
  <2>2. /\ tpdu = answer.i
        /\ rx = IF answer.kind \in {"more", "last"} THEN answer.part ELSE sent
    BY <1>2, <2>1 DEF PInv, InAnswer, PartsAgree
  <2>3. CASE ReadOverrun
    BY <1>8, <2>3 DEF ReadOverrun
  <2>4. CASE ReadPart
    <3>1. tpdu' = tpdu + 1 /\ rx' = rx /\ DA'
      BY <1>3, <2>4 DEF ReadPart, DA
    <3> QED BY <1>2, <1>3, <2>2, <3>1 DEF InAnswer, PartsAgree
  <2>5. CASE ReadingLast
    <3>1. tpdu' = 0 /\ ~DA' /\ tpdu + 1 = answer.n
      BY <1>3, <2>2, <2>5 DEF ReadingLast, DA
    <3>2. InAnswer'
      BY <3>1 DEF InAnswer
    <3>3. rx' = sent
      <4>1. CASE ParseTpdu
        <5>1. /\ answer.kind = "more" => rx' = rx + 1
              /\ answer.kind = "last" => rx' = 0
              /\ answer.kind \notin {"more", "last"} => rx' = rx
          BY <4>1 DEF ParseTpdu
        <5>2. /\ answer.kind = "more" => sent = answer.part + 1
              /\ answer.kind = "last" => sent = 0
          BY <1>2 DEF PInv, AnswerSound
        <5> QED BY <1>0, <2>2, <5>1, <5>2
      <4>2. CASE ParseUnknown
        BY <2>2, <3>1, <4>2 DEF ParseUnknown
      <4>3. ~ReadOverrun /\ ~ReadPart
        BY <1>0, <1>3, <2>5, LinkAssumption DEF ReadOverrun, ReadPart, ReadingLast
      <4> QED BY <4>1, <4>2, <4>3 DEF Read
    <3>4. PartsAgree'
      BY <1>2, <3>1, <3>3 DEF PartsAgree
    <3> QED BY <3>2, <3>4
  <2> QED BY <2>3, <2>4, <2>5 DEF Read, ParseTpdu, ParseUnknown
<1>9. InAnswer' /\ PartsAgree'
  BY <1>8 DEF InAnswer, PartsAgree
<1> QED BY <1>5, <1>6, <1>7, <1>9 DEF PInv

\* The module has taken a message, and answers it or not.
LEMMA CamTakesParts == ASSUME IInv, RInv, PInv, CamTakes PROVE PInv'
<1>0. answer \in Answer /\ rx \in Nat /\ sent \in Nat /\ unit \in Seq(Frame)
  BY DEF RInv, RestType, IInv, QueueType
<1>1. /\ UNCHANGED <<queue, out, pc, tpdu, rx, missed>> /\ unit' = <<>>
      /\ ~DA /\ unit # <<>>
  BY DEF CamTakes, cell, task, history, Complete
<1>2. ~Created(unit') /\ OutSound'
  BY <1>1 DEF PInv, OutSound, Created
<1>3. CreatedOnce' /\ (Connecting' => Connecting)
  BY <1>1, <1>2 DEF PInv, CreatedOnce, Connecting, Created, One
<1>4. CASE UNCHANGED <<conn, answer, sent>>
  BY <1>1, <1>2, <1>3, <1>4, PartsStay
<1>5. CASE CamAnswers
  <2>1. \/ /\ unit[1].m = Create /\ conn' = TRUE
           /\ Says("reply", 0) /\ UNCHANGED sent
        \/ /\ conn /\ UNCHANGED <<conn, sent>>
           /\ (Says("status", 0) \/ Says("unknown", 0))
        \/ /\ conn /\ UNCHANGED conn
           /\ Says("more", sent) /\ sent' = sent + 1
        \/ /\ conn /\ UNCHANGED conn
           /\ Says("last", sent) /\ sent' = 0
    BY <1>5 DEF CamAnswers
  <2>2. ASSUME NEW kind, NEW part, Says(kind, part)
        PROVE  /\ answer'.kind = kind /\ answer'.part = part
               /\ answer'.i = 0 /\ answer'.n \in Nat \ {0}
    BY <2>2, LinkAssumption DEF Says
  <2>3. /\ answer'.i = 0 /\ answer'.n \in Nat \ {0} /\ conn'
    BY <2>1, <2>2
  <2>4. ~Connecting'
    <3>1. CASE unit[1].m = Create
      <4>1. Created(unit)
        BY <1>0, <1>1, <3>1 DEF Created
      <4> QED BY <1>1, <1>2, <1>3, <4>1 DEF PInv, CreatedOnce, Connecting, Created
    <3>2. CASE conn
      BY <1>3, <3>2 DEF PInv, Fresh
    <3> QED BY <2>1, <3>1, <3>2
  <2>5. DA' /\ answer'.i <= answer'.n
    BY <2>3 DEF DA
  <2>6. tpdu = 0 \/ missed
    BY <1>1, <2>1 DEF PInv, InAnswer, Connecting, Created, Fresh
  <2>7. rx = sent \/ missed
    <3>1. CASE unit[1].m = Create
      <4>1. Created(unit)
        BY <1>0, <1>1, <3>1 DEF Created
      <4> QED BY <4>1 DEF PInv, Connecting, Fresh
    <3>2. CASE conn
      BY <1>1, <3>2 DEF PInv, PartsAgree
    <3> QED BY <2>1, <3>1, <3>2
  <2>8. \/ answer'.kind \notin {"more", "last"} /\ sent' = sent
        \/ answer'.kind = "more" /\ answer'.part = sent /\ sent' = sent + 1
        \/ answer'.kind = "last" /\ answer'.part = sent /\ sent' = 0
    BY <2>1, <2>2
  <2>9. InAnswer'
    BY <1>1, <2>3, <2>5, <2>6 DEF InAnswer
  <2>10. AnswerSound'
    BY <2>5, <2>8 DEF AnswerSound
  <2>11. PartsAgree'
    BY <1>1, <2>5, <2>7, <2>8 DEF PartsAgree
  <2> QED BY <1>2, <1>3, <2>4, <2>9, <2>10, <2>11 DEF PInv
<1> QED BY <1>4, <1>5 DEF CamTakes

LEMMA PartsStep == IInv /\ RInv /\ PInv /\ [Next]_vars => PInv'
<1> SUFFICES ASSUME IInv, RInv, PInv, [Next]_vars PROVE PInv'
  OBVIOUS
<1>0. ASSUME UNCHANGED <<queue, unit>>, pc' = pc \/ pc' \notin Configs
      PROVE  CreatedOnce' /\ (Connecting' => Connecting)
  BY <1>0 DEF PInv, CreatedOnce, Connecting, Created, One
<1>1. CASE UNCHANGED vars
  <2>1. UNCHANGED <<queue, unit, pc, out, tpdu, rx, answer, sent, conn, missed>>
    BY <1>1 DEF vars, cell, threads, task, module, history
  <2> QED BY <1>0, <2>1, PartsStay DEF PInv, OutSound
<1>2. CASE \/ \E t \in Thread, m \in Message : Enter(t, m)
           \/ \E t \in Thread : Acquire(t)
           \/ \E t \in Thread : GiveUp(t)
           \/ CutFrame
  <2>1. UNCHANGED <<queue, unit, pc, out, tpdu, rx, answer, sent, conn, missed>>
    BY <1>2 DEF Enter, Acquire, GiveUp, CutFrame, cell, task, module, history
  <2> QED BY <1>0, <2>1, PartsStay DEF PInv, OutSound
<1>3. CASE PutFrame
  BY <1>3, PutParts
<1>4. CASE Read
  BY <1>4, ReadParts, ReadNothingParts
<1>5. CASE Reply
  <2>1. out \in Seq(Msg \ {Create}) /\ out # <<>>
    BY <1>5 DEF Reply, IInv, QueueType, PInv, OutSound
  <2>2. Head(out) \in Msg \ {Create} /\ Tail(out) \in Seq(Msg \ {Create})
    BY <2>1
  <2>3. /\ StoreAll(Head(out)) /\ out' = Tail(out) /\ pc \notin Configs
        /\ pc' \notin Configs /\ UNCHANGED <<tpdu, rx, answer, sent, conn, missed, unit>>
    BY <1>5 DEF Reply, rxVars, module, Configs
  <2> QED BY <2>2, <2>3, StoredParts DEF OutSound
<1>6. CASE SendPoll
  <2>1. Poll \in Msg \ {Create} /\ OutSound'
    BY <1>6 DEF SendPoll, At, Msg, Control, Poll, Create, PInv, OutSound
  <2>2. /\ StoreAll(Poll) /\ pc \notin Configs /\ pc' \notin Configs
        /\ UNCHANGED <<tpdu, rx, answer, sent, conn, missed, unit>>
    BY <1>6 DEF SendPoll, At, rxVars, module, Configs
  <2> QED BY <2>1, <2>2, StoredParts
<1>7. CASE Configured
  BY <1>7, ConfiguredParts
<1>8. CASE WriteFrame
  BY <1>8, WriteFrameParts
<1>9. CASE ResetModule
  BY <1>9, ForgottenParts DEF ResetModule, At, history, Configs
<1>10. CASE ModuleInserted \/ ModuleRemoved
  <2> QED BY <1>10, ClearedParts DEF ModuleInserted, ModuleRemoved, At
<1>11. CASE CamTakes
  BY <1>11, CamTakesParts
<1>12. CASE \/ CheckSlot \/ NothingToRead \/ SendAfterAll \/ WriteFails
            \/ NothingToSend \/ PollDue \/ Again
  <2>1. /\ UNCHANGED <<queue, unit, out, answer, sent, conn, tpdu, rx, missed>>
        /\ pc' \notin Configs
    BY <1>12 DEF CheckSlot, NothingToRead, SendAfterAll, WriteFails, NothingToSend,
         PollDue, Again, At, cell, rxVars, module, history, Configs
  <2> QED BY <1>0, <2>1, PartsStay DEF PInv, OutSound
<1>13. CASE Configuring
  BY <1>13, ConfiguringParts
<1> QED BY <1>1, <1>2, <1>3, <1>4, <1>5, <1>6, <1>7, <1>8, <1>9, <1>10, <1>11, <1>12,
           <1>13
        DEF Next, Sender, Serve, Configuring

LEMMA AlwaysParts == Spec => []PInv
BY AlwaysTyped, InitParts, PartsStep, PTL DEF Spec

\* The parts of an SPDU that the host has collected are those the module has sent
\* (Parse_CI_T_Packet, Parse_TPDU), as long as no answer was too long: however an
\* answer is cut, whatever else it carries, and after resets that the slot does
\* not notice.
THEOREM PartsComplete == Spec => []PartsAgree
<1>1. PInv => PartsAgree
  BY DEF PInv
<1> QED BY <1>1, AlwaysParts, PTL

(***************************************************************************)
(* Induction on natural numbers, for sets: the rules of the library take   *)
(* an operator.  A set without a least number is empty.                    *)
(***************************************************************************)
LEMMA NatSetInduction ==
  ASSUME NEW S, 0 \in S, \A n \in Nat : n \in S => n + 1 \in S
  PROVE  Nat \subseteq S
<1> DEFINE T == Nat \ S
           R == OpToRel(<, Nat)
<1> SUFFICES ASSUME T # {} PROVE FALSE
  OBVIOUS
<1>1. PICK x \in T : \A y \in T : ~ (<<y, x>> \in R)
  <2> HIDE DEF R
  <2>1. IsWellFoundedOn(R, Nat)
    BY NatLessThanWellFounded DEF R
  <2>2. T \subseteq Nat
    OBVIOUS
  <2> HIDE DEF T
  <2> QED BY <2>1, <2>2, WFMin
<1>2. x \in Nat /\ x # 0
  OBVIOUS
<1>3. x - 1 \in Nat
  BY <1>2
<1>4. <<x - 1, x>> \in R
  BY <1>2, <1>3 DEF OpToRel
<1>5. x - 1 \in T
  BY <1>2, <1>3
<1> QED BY <1>1, <1>4, <1>5

(***************************************************************************)
(* The messages that end in a queue.                                       *)
(***************************************************************************)
Grown(s, f) == IF f.last THEN Append(s, f.m) ELSE s

\* The recursive function in Ended, and what it is for the first n frames.
Ends(q) ==
  CHOOSE e : e = [k \in 0 .. Len(q) |->
                    IF k = 0 THEN <<>>
                    ELSE IF q[k].last THEN Append(e[k - 1], q[k].m) ELSE e[k - 1]]
Tells(q, n, e) ==
  e = [k \in 0 .. n |->
         IF k = 0 THEN <<>>
         ELSE IF q[k].last THEN Append(e[k - 1], q[k].m) ELSE e[k - 1]]

LEMMA EndedIs == ASSUME NEW q PROVE Ended(q) = Ends(q)[Len(q)]
BY DEF Ended, Ends

LEMMA TellsExists == ASSUME NEW q, NEW n \in Nat PROVE \E e : Tells(q, n, e)
<1> DEFINE S == {x \in Nat : \E e : Tells(q, x, e)}
<1>1. 0 \in S
  <2> DEFINE e == [k \in 0 .. 0 |-> <<>>]
  <2>1. Tells(q, 0, e)
    BY DEF Tells
  <2> QED BY <2>1
<1>2. ASSUME NEW x \in Nat, x \in S PROVE x + 1 \in S
  <2>1. PICK e : Tells(q, x, e)
    BY <1>2
  <2> DEFINE g == [k \in 0 .. x + 1 |->
                     IF k <= x THEN e[k]
                     ELSE IF q[k].last THEN Append(e[k - 1], q[k].m) ELSE e[k - 1]]
  <2>2. ASSUME NEW k \in 0 .. x + 1
        PROVE  g[k] = IF k = 0 THEN <<>>
                      ELSE IF q[k].last THEN Append(g[k - 1], q[k].m) ELSE g[k - 1]
    <3>1. CASE k <= x
      <4>1. k \in 0 .. x /\ g[k] = e[k]
        BY <3>1
      <4>2. e[k] = IF k = 0 THEN <<>>
                   ELSE IF q[k].last THEN Append(e[k - 1], q[k].m) ELSE e[k - 1]
        BY <2>1, <4>1 DEF Tells
      <4>3. k # 0 => k - 1 \in 0 .. x + 1 /\ k - 1 <= x
        BY <3>1
      <4>4. k # 0 => g[k - 1] = e[k - 1]
        BY <4>3
      <4> HIDE DEF g
      <4> QED BY <4>1, <4>2, <4>4
    <3>2. CASE k = x + 1
      <4>1. k # 0 /\ k - 1 \in 0 .. x + 1 /\ k - 1 <= x /\ ~(k <= x)
        BY <3>2
      <4>2. g[k - 1] = e[k - 1]
        BY <4>1
      <4>3. g[k] = IF q[k].last THEN Append(e[k - 1], q[k].m) ELSE e[k - 1]
        BY <4>1
      <4> HIDE DEF g
      <4> QED BY <4>1, <4>2, <4>3
    <3> QED BY <3>1, <3>2
  <2>3. Tells(q, x + 1, g)
    <3>1. g = [k \in 0 .. x + 1 |-> g[k]]
      OBVIOUS
    <3> HIDE DEF g
    <3> QED BY <2>2, <3>1, Zenon DEF Tells
  <2> QED BY <2>3
<1>3. Nat \subseteq S
  <2> HIDE DEF S
  <2> QED BY <1>1, <1>2, NatSetInduction
<1> QED BY <1>3

LEMMA EndsIs ==
  ASSUME NEW q \in Seq(Frame)
  PROVE  /\ Ends(q)[0] = <<>>
         /\ \A k \in 1 .. Len(q) : Ends(q)[k] = Grown(Ends(q)[k - 1], q[k])
<1>0. Len(q) \in Nat
  OBVIOUS
<1>1. \E e : Tells(q, Len(q), e)
  BY <1>0, TellsExists
<1>2. Ends(q) = CHOOSE e : Tells(q, Len(q), e)
  BY DEF Ends, Tells
<1>3. Tells(q, Len(q), Ends(q))
  BY <1>1, <1>2, Zenon
<1>4. ASSUME NEW k \in 0 .. Len(q)
      PROVE  Ends(q)[k] = IF k = 0 THEN <<>>
                ELSE IF q[k].last THEN Append(Ends(q)[k - 1], q[k].m) ELSE Ends(q)[k - 1]
  BY <1>3 DEF Tells
<1>5. ASSUME NEW k \in 1 .. Len(q) PROVE k \in 0 .. Len(q) /\ k # 0
  BY <1>0
<1> QED BY <1>0, <1>4, <1>5 DEF Grown

\* The first frames of two queues that begin alike end the same messages.
LEMMA EndsAlike ==
  ASSUME NEW q \in Seq(Frame), NEW r \in Seq(Frame), NEW n \in Nat,
         n <= Len(q), n <= Len(r), \A k \in 1 .. n : q[k] = r[k]
  PROVE  Ends(q)[n] = Ends(r)[n]
<1> DEFINE S == {x \in Nat : x <= n => Ends(q)[x] = Ends(r)[x]}
<1>1. 0 \in S
  BY EndsIs
<1>2. ASSUME NEW x \in Nat, x \in S PROVE x + 1 \in S
  <2> SUFFICES ASSUME x + 1 <= n PROVE Ends(q)[x + 1] = Ends(r)[x + 1]
    OBVIOUS
  <2>1. /\ x + 1 \in 1 .. Len(q) /\ x + 1 \in 1 .. Len(r) /\ x + 1 \in 1 .. n
        /\ (x + 1) - 1 = x /\ Ends(q)[x] = Ends(r)[x]
    BY <1>2
  <2>2. /\ Ends(q)[x + 1] = Grown(Ends(q)[x], q[x + 1])
        /\ Ends(r)[x + 1] = Grown(Ends(r)[x], r[x + 1])
    BY <2>1, EndsIs
  <2> QED BY <2>1, <2>2
<1>3. Nat \subseteq S
  <2> HIDE DEF S
  <2> QED BY <1>1, <1>2, NatSetInduction
<1> QED BY <1>3

LEMMA EndsType ==
  ASSUME NEW q \in Seq(Frame), NEW n \in Nat, n <= Len(q)
  PROVE  Ends(q)[n] \in Seq(Msg)
<1> DEFINE S == {x \in Nat : x <= n => Ends(q)[x] \in Seq(Msg)}
<1>1. 0 \in S
  <2>1. Ends(q)[0] = <<>> /\ <<>> \in Seq(Msg)
    BY EndsIs
  <2> QED BY <2>1
<1>2. ASSUME NEW x \in Nat, x \in S PROVE x + 1 \in S
  <2> SUFFICES ASSUME x + 1 <= n PROVE Ends(q)[x + 1] \in Seq(Msg)
    OBVIOUS
  <2>1. x + 1 \in 1 .. Len(q) /\ (x + 1) - 1 = x /\ Ends(q)[x] \in Seq(Msg)
    BY <1>2
  <2>2. Ends(q)[x + 1] = Grown(Ends(q)[x], q[x + 1])
    BY <2>1, EndsIs
  <2>3. q[x + 1].m \in Msg
    <3>1. q[x + 1] \in Frame
      BY <2>1
    <3> QED BY ONLY <3>1 DEF Frame
  <2> HIDE DEF S
  <2> QED BY <2>1, <2>2, <2>3 DEF Grown
<1>3. Nat \subseteq S
  <2> HIDE DEF S
  <2> QED BY <1>1, <1>2, NatSetInduction
<1> QED BY <1>3

LEMMA EndedType == ASSUME NEW q \in Seq(Frame) PROVE Ended(q) \in Seq(Msg)
BY EndsType, EndedIs

LEMMA EndedEmpty == Ended(<<>>) = <<>>
<1>1. <<>> \in Seq(Frame) /\ Len(<<>>) = 0
  OBVIOUS
<1> QED BY <1>1, EndsIs, EndedIs

\* A frame is stored: its message is in the channel when it is the last.
LEMMA EndedAppend ==
  ASSUME NEW q \in Seq(Frame), NEW f \in Frame
  PROVE  Ended(Append(q, f)) = Grown(Ended(q), f)
<1> DEFINE r == Append(q, f)
<1>1. /\ r \in Seq(Frame) /\ Len(r) = Len(q) + 1 /\ Len(q) \in Nat
      /\ r[Len(q) + 1] = f /\ \A k \in 1 .. Len(q) : q[k] = r[k]
  OBVIOUS
<1> HIDE DEF r
<1>2. Ends(r)[Len(q)] = Ends(q)[Len(q)]
  BY <1>1, EndsAlike
<1>3. Len(r) \in 1 .. Len(r) /\ Len(r) - 1 = Len(q)
  BY <1>1
<1>4. Ends(r)[Len(r)] = Grown(Ends(r)[Len(q)], f)
  BY <1>1, <1>3, EndsIs
<1> QED BY <1>2, <1>4, EndedIs DEF r

\* The head of the queue is taken.
LEMMA FirstGrown ==
  ASSUME NEW m \in Msg, NEW s \in Seq(Msg), NEW f \in Frame
  PROVE  Grown(<<m>> \o s, f) = <<m>> \o Grown(s, f)
<1>1. f.m \in Msg
  BY DEF Frame
<1>2. Append(<<m>> \o s, f.m) = <<m>> \o Append(s, f.m)
  BY <1>1
<1> QED BY <1>2 DEF Grown

LEMMA EndedTail ==
  ASSUME NEW q \in Seq(Frame), q # <<>>
  PROVE  Ended(q) = IF Head(q).last THEN <<Head(q).m>> \o Ended(Tail(q)) ELSE Ended(Tail(q))
<1> DEFINE r == Tail(q)
           P(s) == IF Head(q).last THEN <<Head(q).m>> \o s ELSE s
           S == {x \in Nat : x <= Len(r) => Ends(q)[x + 1] = P(Ends(r)[x])}
<1>1. /\ r \in Seq(Frame) /\ Len(q) = Len(r) + 1 /\ Len(r) \in Nat
      /\ Head(q) = q[1] /\ Head(q) \in Frame
      /\ \A k \in 1 .. Len(r) : r[k] = q[k + 1]
  OBVIOUS
<1>2. Head(q).m \in Msg
  BY <1>1 DEF Frame
<1> HIDE DEF r
<1>3. 0 \in S
  <2>1. 1 \in 1 .. Len(q)
    BY <1>1
  <2>2. Ends(q)[1] = Grown(<<>>, Head(q)) /\ Ends(r)[0] = <<>>
    BY <1>1, <2>1, EndsIs
  <2>3. Append(<<>>, Head(q).m) = <<Head(q).m>> \o <<>>
    BY <1>2
  <2>4. Ends(q)[1] = P(Ends(r)[0])
    BY <2>2, <2>3 DEF Grown
  <2>5. 0 + 1 = 1
    OBVIOUS
  <2> HIDE DEF P
  <2> QED BY <2>4, <2>5
<1>4. ASSUME NEW x \in Nat, x \in S PROVE x + 1 \in S
  <2> SUFFICES ASSUME x + 1 <= Len(r) PROVE Ends(q)[(x + 1) + 1] = P(Ends(r)[x + 1])
    OBVIOUS
  <2>1. /\ x + 1 \in 1 .. Len(r) /\ (x + 1) + 1 \in 1 .. Len(q)
        /\ (x + 1) - 1 = x /\ ((x + 1) + 1) - 1 = x + 1 /\ x <= Len(r)
    BY <1>1, <1>4
  <2>2. /\ Ends(q)[(x + 1) + 1] = Grown(Ends(q)[x + 1], q[(x + 1) + 1])
        /\ Ends(r)[x + 1] = Grown(Ends(r)[x], r[x + 1])
        /\ r[x + 1] = q[(x + 1) + 1] /\ r[x + 1] \in Frame
    BY <1>1, <2>1, EndsIs
  <2>3. Ends(q)[x + 1] = P(Ends(r)[x])
    BY <1>4, <2>1
  <2>4. Ends(r)[x] \in Seq(Msg)
    BY <1>1, <2>1, EndsType
  <2>5. Grown(<<Head(q).m>> \o Ends(r)[x], r[x + 1])
          = <<Head(q).m>> \o Grown(Ends(r)[x], r[x + 1])
    BY <1>2, <2>2, <2>4, FirstGrown
  <2> HIDE DEF S
  <2> QED BY <2>2, <2>3, <2>5
<1>5. Nat \subseteq S
  <2> HIDE DEF S
  <2> QED BY <1>3, <1>4, NatSetInduction
<1>6. Ends(q)[Len(q)] = P(Ends(r)[Len(r)])
  BY <1>1, <1>5
<1> QED BY <1>6, EndedIs DEF r

\* A message is stored, all of it or what finds room.
FrameOf(m, i, total) == [m |-> m, i |-> i, last |-> i = total]

LEMMA RunGrows ==
  ASSUME NEW q \in Seq(Frame), NEW m \in Msg, NEW n \in Nat, NEW total \in Nat
  PROVE  /\ FrameOf(m, n + 1, total) \in Frame
         /\ q \o Run(m, n, total) \in Seq(Frame)
         /\ q \o Run(m, n + 1, total) = Append(q \o Run(m, n, total), FrameOf(m, n + 1, total))
<1> DEFINE f(k) == FrameOf(m, k, total)
           a == Run(m, n + 1, total)
           b == Run(m, n, total)
<1>1. /\ a \in Seq(Frame) /\ Len(a) = n + 1 /\ \A k \in 1 .. n + 1 : a[k] = f(k)
      /\ b \in Seq(Frame) /\ Len(b) = n /\ \A k \in 1 .. n : b[k] = f(k)
  <2>1. n + 1 \in Nat
    OBVIOUS
  <2> QED BY ONLY <2>1, n \in Nat, total \in Nat, m \in Msg, RunType DEF FrameOf
<1>2. f(n + 1) \in Frame
  <2>1. n + 1 \in Nat \ {0} /\ (n + 1 = total) \in BOOLEAN
    OBVIOUS
  <2> QED BY <2>1 DEF Frame, FrameOf
<1> HIDE DEF f, a, b
<1>3. a = Append(b, f(n + 1))
  <2> DEFINE c == Append(b, f(n + 1))
  <2>1. /\ c \in Seq(Frame) /\ Len(c) = n + 1 /\ c[n + 1] = f(n + 1)
        /\ \A k \in 1 .. n : c[k] = b[k]
    BY <1>1, <1>2
  <2> HIDE DEF c
  <2>2. ASSUME NEW k \in 1 .. n + 1 PROVE a[k] = c[k]
    <3>1. k \in 1 .. n \/ k = n + 1
      OBVIOUS
    <3> QED BY <1>1, <2>1, <3>1
  <2>3. a = c
    BY <1>1, <2>1, <2>2, SeqEqual
  <2> QED BY <2>3 DEF c
<1>4. q \o Append(b, f(n + 1)) = Append(q \o b, f(n + 1))
  BY <1>1, <1>2
<1>5. q \o b \in Seq(Frame)
  BY ONLY <1>1, q \in Seq(Frame), Concat
<1>6. q \o a = Append(q \o b, f(n + 1))
  BY ONLY <1>3, <1>4
<1> QED BY ONLY <1>2, <1>5, <1>6 DEF f, a, b

LEMMA EndedStored ==
  ASSUME NEW q \in Seq(Frame), NEW m \in Msg, NEW total \in Nat \ {0}, NEW n \in Nat, n <= total
  PROVE  Ended(q \o Run(m, n, total)) = IF n = total THEN Append(Ended(q), m) ELSE Ended(q)
<1> DEFINE P(x) == Ended(q \o Run(m, x, total)) = IF x = total THEN Append(Ended(q), m)
                                                  ELSE Ended(q)
           S == {x \in Nat : x <= n => P(x)}
<1>1. 0 \in S
  <2>1. Run(m, 0, total) = <<>>
    BY DEF Run
  <2>2. q \o <<>> = q
    OBVIOUS
  <2> QED BY <2>1, <2>2
<1>2. ASSUME NEW x \in Nat, x \in S PROVE x + 1 \in S
  <2> HIDE DEF P
  <2> SUFFICES ASSUME x + 1 <= n PROVE P(x + 1)
    OBVIOUS
  <2>1. x <= n /\ x # total
    OBVIOUS
  <2>2. Ended(q \o Run(m, x, total)) = Ended(q)
    BY <1>2, <2>1 DEF P
  <2> DEFINE f == FrameOf(m, x + 1, total)
  <2>3. f.m = m /\ f.last = (x + 1 = total)
    BY DEF FrameOf
  <2>4. /\ f \in Frame /\ q \o Run(m, x, total) \in Seq(Frame)
        /\ q \o Run(m, x + 1, total) = Append(q \o Run(m, x, total), f)
    BY RunGrows
  <2> HIDE DEF f, S
  <2>5. Ended(q \o Run(m, x + 1, total)) = Grown(Ended(q), f)
    BY <2>2, <2>4, EndedAppend
  <2> QED BY <2>3, <2>5 DEF Grown, P
<1>3. Nat \subseteq S
  <2> HIDE DEF S
  <2> QED BY <1>1, <1>2, NatSetInduction
<1> QED BY <1>3

(***************************************************************************)
(* Every step of the link is a step of the channel, or changes nothing     *)
(* that the channel shows.                                                 *)
(***************************************************************************)
\* What a channel shows of the link.
shown == <<Ended(queue), FrontMessage>>

LEMMA FrontIs ==
  ASSUME IInv
  PROVE  /\ Complete => FrontMessage = unit[Len(unit)].m
         /\ ~Complete => FrontMessage = None
BY DEF IInv, UnitSound, DamageConfined, FrontMessage

\* A message of the module's is no None.
LEMMA SomeFront == ASSUME IInv, Complete PROVE FrontMessage \in Msg /\ FrontMessage # None
<1>1. unit \in Seq(Frame) /\ unit # <<>>
  BY DEF IInv, QueueType, Complete
<1>2. unit[Len(unit)] \in Frame
  BY <1>1
<1>3. unit[Len(unit)].m \in Msg
  BY ONLY <1>2 DEF Frame
<1>4. None \notin Msg
  BY LinkAssumption DEF Msg, Control, None, Poll, Rcv, Create
<1> QED BY <1>3, <1>4, FrontIs

LEMMA FrontStays ==
  ASSUME IInv, IInv', UNCHANGED unit PROVE UNCHANGED FrontMessage
<1>1. Complete' <=> Complete
  BY DEF Complete
<1>2. (Complete' => FrontMessage' = unit'[Len(unit')].m) /\ (~Complete' => FrontMessage' = None)
  BY DEF IInv, UnitSound, DamageConfined, FrontMessage
<1> QED BY <1>1, <1>2, FrontIs

\* The module's buffer has been emptied.
LEMMA FrontEmptied == ASSUME unit' = <<>> PROVE FrontMessage' = None
BY DEF FrontMessage, Complete

LEMMA ShownStays ==
  ASSUME IInv, IInv', UNCHANGED <<queue, unit>> PROVE UNCHANGED shown
BY FrontStays DEF shown

LEMMA StoredShown ==
  ASSUME IInv, IInv', RInv, NEW m \in Msg, StoreAll(m), UNCHANGED unit
  PROVE  Channel!Next \/ UNCHANGED shown
<1>1. queue \in Seq(Frame) /\ QueueFits
  BY DEF IInv, QueueType, RInv
<1>2. PICK total \in Totals(m), n \in Int :
        n <= total /\ n >= 0 /\ queue' = queue \o Run(m, n, total)
  BY <1>1, StoreAllRun
<1>3. n \in Nat /\ total \in Nat \ {0}
  BY <1>2, TotalsType
<1>4. Ended(queue \o Run(m, n, total)) = IF n = total THEN Append(Ended(queue), m) ELSE Ended(queue)
  BY <1>1, <1>2, <1>3, EndedStored
<1>5. UNCHANGED FrontMessage
  BY FrontStays
<1>6. CASE n = total
  <2>1. Ended(queue)' = Append(Ended(queue), m)
    BY <1>2, <1>4, <1>6
  <2> QED BY <1>5, <2>1 DEF Channel!Next, Channel!Accept
<1>7. CASE n # total
  <2>1. Ended(queue)' = Ended(queue)
    BY <1>2, <1>4, <1>7
  <2> QED BY <1>5, <2>1 DEF shown
<1> QED BY <1>6, <1>7

LEMMA PutShown == ASSUME IInv, IInv', PutFrame PROVE Channel!Next \/ UNCHANGED shown
<1> DEFINE f == InHand
<1>1. /\ queue \in Seq(Frame) /\ f \in Frame /\ f.m \in Msg /\ UNCHANGED unit
      /\ queue' = queue \/ queue' = Append(queue, f)
  BY LockTypes DEF PutFrame, Store, IInv, QueueType, module
<1> HIDE DEF f
<1>2. UNCHANGED FrontMessage
  BY <1>1, FrontStays
<1>3. Ended(Append(queue, f)) = Grown(Ended(queue), f)
  BY <1>1, EndedAppend
<1>4. CASE queue' = Append(queue, f) /\ f.last
  <2>1. Ended(queue)' = Append(Ended(queue), f.m)
    BY <1>3, <1>4 DEF Grown
  <2> QED BY <1>1, <1>2, <2>1 DEF Channel!Next, Channel!Accept
<1>5. CASE queue' = queue \/ ~f.last
  <2>1. Ended(queue)' = Ended(queue)
    BY <1>1, <1>3, <1>5 DEF Grown
  <2> QED BY <1>2, <2>1 DEF shown
<1> QED BY <1>1, <1>4, <1>5

LEMMA WriteFrameShown ==
  ASSUME IInv, IInv', WriteFrame PROVE Channel!Next \/ UNCHANGED shown
<1>1. /\ queue \in Seq(Frame) /\ unit \in Seq(Frame) /\ queue # <<>>
      /\ unit' = Append(unit, Head(queue)) /\ queue' = Tail(queue) /\ ~Complete
  BY DEF WriteFrame, IInv, QueueType, FR
<1> DEFINE h == Head(queue)
<1>2. h \in Frame /\ Tail(queue) \in Seq(Frame)
  BY <1>1
<1>3. unit' # <<>> /\ unit'[Len(unit')] = h
  BY <1>1
<1>4. FrontMessage = None
  BY <1>1, FrontIs
<1>5. FrontMessage' = IF h.last THEN h.m ELSE None
  <2>1. Complete' <=> h.last
    BY <1>3 DEF Complete
  <2>2. (Complete' => FrontMessage' = unit'[Len(unit')].m) /\ (~Complete' => FrontMessage' = None)
    BY DEF IInv, UnitSound, DamageConfined, FrontMessage
  <2> QED BY <1>3, <2>1, <2>2
<1>6. Ended(queue) = IF h.last THEN <<h.m>> \o Ended(Tail(queue)) ELSE Ended(Tail(queue))
  BY <1>1, EndedTail
<1>7. Ended(queue)' = Ended(Tail(queue))
  BY <1>1
<1>8. CASE h.last
  <2>1. h.m \in Msg /\ Ended(Tail(queue)) \in Seq(Msg)
    BY <1>2, EndedType DEF Frame
  <2> DEFINE a == h.m
             b == Ended(Tail(queue))
             c == <<a>> \o b
  <2>2. c # <<>> /\ Head(c) = a /\ Tail(c) = b
    <3>1. a \in Msg /\ b \in Seq(Msg)
      BY <2>1
    <3> HIDE DEF a, b
    <3>2. c # <<>> /\ Head(c) = a
      BY <3>1
    <3>3. Tail(c) = b
      <4>1. Len(Tail(c)) = Len(b) /\ Tail(c) \in Seq(Msg)
        BY <3>1
      <4>2. \A k \in 1 .. Len(b) : Tail(c)[k] = b[k]
        BY <3>1
      <4> QED BY <3>1, <4>1, <4>2, SeqEqual
    <3> QED BY <3>2, <3>3
  <2>3. Ended(queue) = c
    BY <1>6, <1>8
  <2> HIDE DEF c
  <2>4. Ended(queue) # <<>> /\ FrontMessage' = Head(Ended(queue)) /\ Ended(queue)' = Tail(Ended(queue))
    BY <1>5, <1>7, <1>8, <2>2, <2>3
  <2> QED BY <1>4, <2>4 DEF Channel!Next, Channel!Deliver
<1>9. CASE ~h.last
  BY <1>4, <1>5, <1>6, <1>7, <1>9 DEF shown
<1> QED BY <1>8, <1>9

LEMMA ChannelStep ==
  ASSUME IInv, IInv', RInv, [Next]_vars PROVE Channel!Next \/ UNCHANGED shown
<1>1. CASE PutFrame
  BY <1>1, PutShown
<1>2. CASE Reply
  <2>1. out \in Seq(Msg) /\ out # <<>>
    BY <1>2 DEF Reply, IInv, QueueType
  <2>2. Head(out) \in Msg /\ StoreAll(Head(out)) /\ UNCHANGED unit
    BY <1>2, <2>1 DEF Reply, module
  <2> QED BY <2>2, StoredShown
<1>3. CASE SendPoll \/ Configured
  <2>1. Poll \in Msg /\ Create \in Msg
    BY DEF Msg, Control
  <2>2. (StoreAll(Poll) \/ StoreAll(Create)) /\ UNCHANGED unit
    BY <1>3 DEF SendPoll, Configured, module
  <2> QED BY <2>1, <2>2, StoredShown
<1>4. CASE WriteFrame
  BY <1>4, WriteFrameShown
<1>5. CASE CamTakes
  <2>1. Complete /\ unit' = <<>> /\ UNCHANGED queue
    BY <1>5 DEF CamTakes, cell
  <2> QED BY <2>1, SomeFront, FrontEmptied DEF Channel!Next, Channel!Take
<1>6. CASE ResetModule
  <2>1. unit' = <<>> /\ UNCHANGED queue
    BY <1>6 DEF ResetModule, ModuleForgets
  <2> QED BY <2>1, FrontEmptied DEF Channel!Next, Channel!ModuleReset
<1>7. CASE ModuleInserted \/ ModuleRemoved
  <2>1. unit' = <<>> /\ queue' = <<>>
    BY <1>7 DEF ModuleInserted, ModuleRemoved, Memset, ModuleForgets
  <2>2. Ended(queue)' = <<>>
    BY <2>1, EndedEmpty
  <2> QED BY <2>1, <2>2, FrontEmptied DEF Channel!Next, Channel!Clear
<1>8. CASE \/ \E t \in Thread, m \in Message : Enter(t, m)
           \/ \E t \in Thread : Acquire(t)
           \/ \E t \in Thread : GiveUp(t)
           \/ CutFrame
           \/ Read \/ CheckSlot \/ NothingToRead \/ SendAfterAll \/ WriteFails
           \/ NothingToSend \/ PollDue \/ Again \/ Configuring \/ UNCHANGED vars
  <2>1. UNCHANGED <<queue, unit>>
    <3>1. CASE Read
      <4>1. Reading \/ ReadNothing
        BY <3>1 DEF Read, ReadOverrun, ReadPart, ParseTpdu, ParseUnknown, ReadingLast
      <4> QED BY <4>1 DEF Reading, ReadNothing, cell
    <3>2. CASE Configuring
      BY <3>2, ConfiguringSets DEF SetSize, module
    <3>3. CASE ~Read /\ ~Configuring
      BY <1>8, <3>3 DEF Enter, Acquire, GiveUp, CutFrame, CheckSlot, NothingToRead,
         SendAfterAll, WriteFails, NothingToSend, PollDue, Again, cell, module, vars
    <3> QED BY <3>1, <3>2, <3>3
  <2> QED BY <2>1, ShownStays
<1> QED BY <1>1, <1>2, <1>3, <1>4, <1>5, <1>6, <1>7, <1>8
        DEF Next, Sender, Serve, Configuring

\* The link is a channel: what threads and task send reaches the module in the
\* order in which it was accepted, each message at most once and one at a time
\* (SendTransportPacket, CI_WriteData, CI_ReallyWriteData); only a reset of the
\* module and the two memsets take anything out of the channel.
THEOREM LinkIsChannel == Spec => ImplementsChannel
<1>1. Init => Channel!Init
  <2> SUFFICES ASSUME Init PROVE Ended(queue) = <<>> /\ FrontMessage = None
    BY DEF Channel!Init
  <2> QED BY EndedEmpty DEF Init, FrontMessage, Complete
<1>2. IInv /\ IInv' /\ RInv /\ [Next]_vars => [Channel!Next]_<<Ended(queue), FrontMessage>>
  BY ChannelStep DEF shown
<1> QED BY <1>1, <1>2, AlwaysTyped, PTL DEF Spec, ImplementsChannel, Channel!Spec
=============================================================================
