--------------------------- MODULE CamSlot_proofs ---------------------------
(***************************************************************************)
(* Proofs about CamSlot for any number of slots and any retry limits.      *)
(***************************************************************************)
EXTENDS CamSlot, TLAPS

(***************************************************************************)
(* Types.                                                                  *)
(***************************************************************************)
LEMMA AtType ==
  ASSUME NEW pc \in Pc, NEW s \in Slot, NEW reg \in [Slot -> BOOLEAN], NEW n \in 0 .. MaxRetry
  PROVE  At(pc, s, reg, n) \in Task
  BY DEF At, Task

LEMMA NextTurn ==
  ASSUME task \in Task
  PROVE  NextEvent \in Task /\ NextCheck \in Task
<1>1. NoReading \in [Slot -> BOOLEAN] /\ 0 \in 0 .. MaxRetry /\ 0 \in Slot
  BY SlotAssumption DEF NoReading, Slot
<1>2. task.s < LastSlot => task.s + 1 \in Slot
  BY SlotAssumption DEF Task, Slot
<1>3. task.s < LastSlot => [task EXCEPT !.s = task.s + 1] \in Task
  BY <1>2 DEF Task
<1>4. At("check", 0, NoReading, 0) \in Task /\ At("poll", 0, NoReading, 0) \in Task
  BY <1>1, AtType DEF Pc
<1>5. task.s < LastSlot => At("check", task.s + 1, NoReading, 0) \in Task
  BY <1>1, <1>2, AtType DEF Pc
<1> QED
  BY <1>3, <1>4, <1>5 DEF NextEvent, NextCheck

\* The task's own record in every step that goes on with the same slot.
LEMMA SameTurn ==
  ASSUME task \in Task
  PROVE  /\ task.s \in Slot
         /\ [task EXCEPT !.pc = "config"] \in Task
         /\ task.retry > 0 => [task EXCEPT !.retry = @ - 1] \in Task
BY SlotAssumption DEF Task, Pc

LEMMA TaskStep ==
  ASSUME task \in Task, plugged \in [Slot -> BOOLEAN], Next
  PROVE  task' \in Task
<1>a. NextEvent \in Task /\ NextCheck \in Task
  BY NextTurn
<1>b. /\ [task EXCEPT !.pc = "config"] \in Task
      /\ task.retry > 0 => [task EXCEPT !.retry = @ - 1] \in Task
  BY SameTurn
<1>c. task.retry \in Nat
  BY SlotAssumption DEF Task
<1>d. /\ NoReading \in [Slot -> BOOLEAN]
      /\ 0 \in 0 .. MaxRetry /\ MaxRetry \in 0 .. MaxRetry /\ 0 \in Slot
  BY SlotAssumption DEF NoReading, Slot
<1>0. /\ NextEvent \in Task /\ NextCheck \in Task
      /\ [task EXCEPT !.pc = "config"] \in Task
      /\ task.retry > 0 => [task EXCEPT !.retry = @ - 1] \in Task
      /\ task.retry \in Nat
  BY <1>a, <1>b, <1>c
<1>1. Poll => task' \in Task
  <2>1. At("scan", 0, NoReading, 0) \in Task /\ At("check", 0, NoReading, 0) \in Task
    BY <1>d, AtType DEF Pc
  <2> QED
    BY <2>1 DEF Poll
<1>2. Scan => task' \in Task
  BY <1>d, AtType DEF Scan, Pc
<1>3. ASSUME NEW s \in Slot, InsertCAM(s) \/ RemoveCAM(s) \/ NoEvent(s) PROVE task' \in Task
  BY <1>0, <1>3 DEF InsertCAM, RemoveCAM, NoEvent
<1>4. ASSUME NEW s \in Slot, Check(s) PROVE task' \in Task
  <2>1. At("read", s, NoReading, MaxRetry) \in Task /\ At("link", s, NoReading, 0) \in Task
    BY <1>d, AtType DEF Pc
  <2> QED
    BY <1>0, <1>4, <2>1 DEF Check
<1>5. ASSUME NEW s \in Slot, ReadOk(s) \/ ReadFails(s) \/ ConfigOk(s) \/ ConfigFails(s)
      PROVE task' \in Task
  BY <1>0, <1>5 DEF ReadOk, ReadFails, ConfigOk, ConfigFails
<1>6. ASSUME NEW s \in Slot, LinkReset(s) \/ LinkFails(s) \/ LinkDone(s) PROVE task' \in Task
  BY <1>0, <1>6 DEF LinkReset, LinkFails, LinkDone
<1>7. ASSUME NEW s \in Slot,
             LinkData(s) \/ LinkSend(s) \/ Plug(s) \/ Pull(s) \/ HostSends(s)
      PROVE task' \in Task
  BY <1>7 DEF LinkData, LinkSend, Plug, Pull, HostSends
<1> QED
  BY <1>1, <1>2, <1>3, <1>4, <1>5, <1>6, <1>7 DEF Next, Monitor, Environment

\* The type of everything but the task's record.
RestOK ==
  /\ plugged \in [Slot -> BOOLEAN] /\ conn \in [Slot -> BOOLEAN]
  /\ last \in [Slot -> BOOLEAN] /\ capture \in BOOLEAN
  /\ state \in [Slot -> States] /\ tries \in [Slot -> 0 .. MaxChecks - 1]
  /\ handle \in [Slot -> BOOLEAN] /\ size \in [Slot -> {"none", "bad", "ok"}]
  /\ create \in [Slot -> BOOLEAN] /\ due \in [Slot -> BOOLEAN]
  /\ inserted \in [Slot -> BOOLEAN] /\ inited \in [Slot -> BOOLEAN]

LEMMA RestStep ==
  ASSUME RestOK, Next
  PROVE  RestOK'
<1> USE SlotAssumption DEF RestOK, States
<1>1. CASE Poll \/ Scan
  BY <1>1 DEF Poll, Scan, hardware, ciSlot, told
<1>2. ASSUME NEW s \in Slot, InsertCAM(s) PROVE RestOK'
  BY <1>2 DEF InsertCAM, driver, ciSlot
<1>3. ASSUME NEW s \in Slot, RemoveCAM(s) PROVE RestOK'
  BY <1>3 DEF RemoveCAM, ModuleRemoved, driver, ciSlot
<1>4. ASSUME NEW s \in Slot, NoEvent(s) \/ LinkDone(s) PROVE RestOK'
  BY <1>4 DEF NoEvent, LinkDone, hardware, driver, ciSlot, told
<1>5. ASSUME NEW s \in Slot, Check(s) PROVE RestOK'
  <2>1. tries' \in [Slot -> 0 .. MaxChecks - 1]
    <3>1. tries[s] < MaxChecks - 1 => tries[s] + 1 \in 0 .. MaxChecks - 1
      OBVIOUS
    <3> QED
      BY <1>5, <3>1 DEF Check
  <2>2. state' \in [Slot -> States] /\ capture' \in BOOLEAN
    BY <1>5 DEF Check, ResetCAM
  <2> QED
    BY <1>5, <2>1, <2>2 DEF Check, hardware, ciSlot, told
<1>6. ASSUME NEW s \in Slot, ReadOk(s) \/ ReadFails(s) \/ LinkFails(s) PROVE RestOK'
  BY <1>6 DEF ReadOk, ReadFails, LinkFails, ResetCAM, hardware, driver, ciSlot, told
<1>7. ASSUME NEW s \in Slot, ConfigOk(s) PROVE RestOK'
  BY <1>7 DEF ConfigOk, hardware, driver, told
<1>8. ASSUME NEW s \in Slot, ConfigFails(s) PROVE RestOK'
  <2>1. /\ handle' \in [Slot -> BOOLEAN] /\ conn' \in [Slot -> BOOLEAN]
        /\ size' \in [Slot -> {"none", "bad", "ok"}]
        /\ create' \in [Slot -> BOOLEAN] /\ due' \in [Slot -> BOOLEAN]
    BY <1>8 DEF ConfigFails
  <2> QED
    BY <1>8, <2>1 DEF ConfigFails, driver, told
<1>9. ASSUME NEW s \in Slot, LinkReset(s) PROVE RestOK'
  BY <1>9 DEF LinkReset, driver, told
<1>10. ASSUME NEW s \in Slot, LinkData(s) \/ LinkSend(s) PROVE RestOK'
  BY <1>10 DEF LinkData, LinkSend, driver, told
<1>11. ASSUME NEW s \in Slot, Plug(s) \/ Pull(s) \/ HostSends(s) PROVE RestOK'
  BY <1>11 DEF Plug, Pull, HostSends, hardware, driver, ciSlot, told
<1> QED
  BY <1>1, <1>2, <1>3, <1>4, <1>5, <1>6, <1>7, <1>8, <1>9, <1>10, <1>11
     DEF Next, Monitor, Environment

\* The variables keep their types.
THEOREM TypeCorrect == Spec => []TypeOK
<1>1. Init => TypeOK
  <2>1. Init => RestOK
    BY SlotAssumption DEF Init, RestOK, States
  <2>2. Init => task \in Task
    <3>1. NoReading \in [Slot -> BOOLEAN] /\ 0 \in 0 .. MaxRetry /\ 0 \in Slot
      BY SlotAssumption DEF NoReading, Slot
    <3> QED
      BY <3>1, AtType DEF Init, Pc
  <2> QED
    BY <2>1, <2>2 DEF TypeOK, RestOK
<1>2. TypeOK /\ [Next]_vars => TypeOK'
  <2>1. TypeOK /\ Next => TypeOK'
    BY TaskStep, RestStep DEF TypeOK, RestOK
  <2>2. TypeOK /\ UNCHANGED vars => TypeOK'
    BY DEF TypeOK, vars, hardware, driver, ciSlot, told
  <2> QED
    BY <2>1, <2>2
<1> QED
  BY <1>1, <1>2, PTL DEF Spec

(***************************************************************************)
(* The assertion of CI_ModuleRemoved and the reported occupancy.  Neither  *)
(* is inductive alone: that reading leads from INSERTED to CISREAD and     *)
(* configuring from CISREAD to CISTART needs TaskAtWork, which says that   *)
(* the slot has not changed since the task dispatched on it.               *)
(***************************************************************************)
SlotInv == TaskAtWork /\ HandleAssigned /\ OccupiedReported

\* Where the task is after each kind of step.
LEMMA TurnPc ==
  /\ NextEvent.pc \in {task.pc, "check"}
  /\ NextCheck.pc \in {"check", "poll"}
BY DEF NextEvent, NextCheck, At

\* A slot the task is not about to change keeps its part of the invariant.
LEMMA SlotInvStep ==
  ASSUME TypeOK, SlotInv, [Next]_vars
  PROVE  SlotInv'
<1> USE DEF SlotInv, TaskAtWork, HandleAssigned, OccupiedReported
<1>t. /\ task.s \in Slot /\ task.pc \in Pc
      /\ state \in [Slot -> States]
      /\ handle \in [Slot -> BOOLEAN] /\ size \in [Slot -> {"none", "bad", "ok"}]
      /\ inserted \in [Slot -> BOOLEAN]
  BY DEF TypeOK, Task
<1>1. CASE Poll \/ Scan
  BY <1>1 DEF Poll, Scan, At, hardware, ciSlot, told
<1>2. ASSUME NEW s \in Slot, InsertCAM(s) PROVE SlotInv'
  BY <1>t, <1>2, TurnPc DEF InsertCAM, driver, ciSlot
<1>3. ASSUME NEW s \in Slot, RemoveCAM(s) PROVE SlotInv'
  BY <1>t, <1>3, TurnPc DEF RemoveCAM, ModuleRemoved, driver, ciSlot
<1>4. ASSUME NEW s \in Slot, NoEvent(s) \/ LinkDone(s) \/ LinkReset(s) PROVE SlotInv'
  BY <1>t, <1>4, TurnPc DEF NoEvent, LinkDone, LinkReset, hardware, driver, ciSlot, told
<1>5. ASSUME NEW s \in Slot, Check(s) PROVE SlotInv'
  BY <1>t, <1>5, TurnPc DEF Check, ResetCAM, At, hardware, ciSlot, told
<1>6. ASSUME NEW s \in Slot, ReadOk(s) PROVE SlotInv'
  BY <1>t, <1>6 DEF ReadOk, hardware, driver, ciSlot, told, TypeOK, Task
<1>7. ASSUME NEW s \in Slot, ReadFails(s) \/ LinkFails(s) PROVE SlotInv'
  BY <1>t, <1>7, TurnPc DEF ReadFails, LinkFails, ResetCAM, hardware, ciSlot, told, TypeOK, Task
<1>8. ASSUME NEW s \in Slot, ConfigOk(s) PROVE SlotInv'
  BY <1>t, <1>8, TurnPc DEF ConfigOk, hardware, driver, told
<1>9. ASSUME NEW s \in Slot, ConfigFails(s) PROVE SlotInv'
  BY <1>t, <1>9, TurnPc DEF ConfigFails, driver, told, TypeOK, Task
<1>10. ASSUME NEW s \in Slot,
             LinkData(s) \/ LinkSend(s) \/ Plug(s) \/ Pull(s) \/ HostSends(s)
      PROVE SlotInv'
  BY <1>10 DEF LinkData, LinkSend, Plug, Pull, HostSends, driver, ciSlot, told
<1>11. CASE UNCHANGED vars
  BY <1>11 DEF vars, hardware, driver, ciSlot, told
<1> QED
  BY <1>1, <1>2, <1>3, <1>4, <1>5, <1>6, <1>7, <1>8, <1>9, <1>10, <1>11
     DEF Next, Monitor, Environment

LEMMA AlwaysSlotInv == Spec => []SlotInv
<1>1. Init => SlotInv
  BY DEF Init, SlotInv, TaskAtWork, HandleAssigned, OccupiedReported, At
<1> QED
  BY <1>1, SlotInvStep, TypeCorrect, PTL DEF Spec

\* The assertion of CI_ModuleRemoved holds (ci.c:98), and CI_CheckSlot works on
\* started slots only.
THEOREM SlotSound == Spec => []HandleAssigned
<1>1. SlotInv => HandleAssigned
  BY DEF SlotInv
<1> QED
  BY <1>1, AlwaysSlotInv, PTL

\* A slot the task works on is reported as occupied (m_u8SlotInserted).
THEOREM OccupiedSound == Spec => []OccupiedReported
<1>1. SlotInv => OccupiedReported
  BY DEF SlotInv
<1> QED
  BY <1>1, AlwaysSlotInv, PTL

(***************************************************************************)
(* No event is lost, as long as a slot does not change between the two     *)
(* readings of the register.  Then the second reading is the one the       *)
(* driver remembers in "last"; a slot handled in this turn agrees with it, *)
(* and so does every slot when the task serves the slots, unless a reset   *)
(* has set the flag since.                                                 *)
(***************************************************************************)
Agrees(s) == state[s] # "EMPTY" <=> last[s]

LookInv ==
  /\ task.pc = "scan" => last = plugged
  /\ task.pc = "event" =>
       \A s \in Slot : /\ task.reg[s] <=> last[s]
                       /\ s < task.s => Agrees(s)
  /\ task.pc \notin {"scan", "event"} => capture \/ \A s \in Slot : Agrees(s)

LEMMA LookPoll ==
  ASSUME TypeOK, LookInv, Poll \/ Scan
  PROVE  LookInv'
<1>1. CASE Poll
  <2>1. task'.pc = IF capture \/ last # plugged THEN "scan" ELSE "check"
    BY <1>1 DEF Poll, At
  <2>2. last' = plugged /\ plugged' = plugged /\ state' = state
    BY <1>1 DEF Poll, hardware
  <2>3. task.pc = "poll"
    BY <1>1 DEF Poll
  <2>4. capture' = (capture \/ last # plugged)
    BY <1>1 DEF Poll
  <2> QED
    BY <2>1, <2>2, <2>3, <2>4 DEF LookInv, Agrees
<1>2. CASE Scan
  <2>1. task'.pc = "event" /\ task'.s = 0 /\ task'.reg = plugged /\ last = plugged
    BY <1>2 DEF Scan, At, LookInv
  <2>2. \A s \in Slot : ~(s < 0)
    BY SlotAssumption DEF Slot
  <2>3. last' = last
    BY <1>2 DEF Scan
  <2> QED
    BY <2>1, <2>2, <2>3 DEF LookInv, Agrees
<1> QED
  BY <1>1, <1>2

\* Handling the slot whose turn it is makes it agree.
LEMMA LookEvent ==
  ASSUME TypeOK, LookInv,
         NEW s \in Slot, InsertCAM(s) \/ RemoveCAM(s) \/ NoEvent(s)
  PROVE  LookInv'
<1>1. /\ task.pc = "event" /\ task.s = s /\ last' = last /\ task' = NextEvent
      /\ state \in [Slot -> States] /\ task \in Task
  BY DEF InsertCAM, RemoveCAM, NoEvent, driver, TypeOK
<1>2. task.reg[s] <=> last[s]
  BY <1>1 DEF LookInv
<1>3. Agrees(s)'
  <2>1. InsertCAM(s) => Agrees(s)'
    BY <1>1, <1>2 DEF InsertCAM, Agrees
  <2>2. RemoveCAM(s) => Agrees(s)'
    BY <1>1, <1>2 DEF RemoveCAM, Agrees
  <2>3. NoEvent(s) => Agrees(s)'
    BY <1>1, <1>2 DEF NoEvent, Agrees
  <2> QED
    BY <2>1, <2>2, <2>3
<1>4. ASSUME NEW q \in Slot, q < s PROVE Agrees(q)'
  <2>1. state'[q] = state[q]
    BY <1>1, <1>4, SlotAssumption DEF InsertCAM, RemoveCAM, NoEvent, Slot
  <2> QED
    BY <1>1, <1>4, <2>1 DEF LookInv, Agrees
<1>5. CASE s < LastSlot
  <2>1. task' = [task EXCEPT !.s = s + 1]
    BY <1>1, <1>5 DEF NextEvent
  <2>2. task'.pc = "event" /\ task'.s = s + 1 /\ task'.reg = task.reg
    BY <1>1, <2>1 DEF Task
  <2>3. \A q \in Slot : q < s + 1 => q < s \/ q = s
    BY SlotAssumption DEF Slot
  <2>4. \A q \in Slot : task.reg[q] <=> last[q]
    BY <1>1 DEF LookInv
  <2> QED
    BY <1>1, <1>3, <1>4, <2>2, <2>3, <2>4 DEF LookInv
<1>6. CASE ~(s < LastSlot)
  <2>1. task'.pc = "check"
    BY <1>1, <1>6 DEF NextEvent, At
  <2>2. \A q \in Slot : q < s \/ q = s
    BY <1>6, SlotAssumption DEF Slot
  <2> QED
    BY <1>3, <1>4, <2>1, <2>2 DEF LookInv
<1> QED
  BY <1>5, <1>6

\* While it serves the slots, the task changes whether a slot is empty only
\* in STATUS_ResetCAM, which sets the flag.
LEMMA LookServe ==
  ASSUME TypeOK, TaskAtWork, LookInv, last' = last,
         task.pc \notin {"scan", "event"}, task'.pc \notin {"scan", "event"},
         \/ capture'
         \/ /\ capture' = capture
            /\ \A s \in Slot : (state'[s] = "EMPTY") = (state[s] = "EMPTY")
  PROVE  LookInv'
BY DEF LookInv, Agrees

LEMMA LookStep ==
  ASSUME ~TwoReadings, TypeOK, TaskAtWork, LookInv, [Next]_vars
  PROVE  LookInv'
<1>t. task.s \in Slot /\ task \in Task /\ state \in [Slot -> States]
  BY DEF TypeOK, Task
<1>1. CASE Poll \/ Scan
  BY <1>1, LookPoll
<1>2. ASSUME NEW s \in Slot, InsertCAM(s) \/ RemoveCAM(s) \/ NoEvent(s) PROVE LookInv'
  BY <1>2, LookEvent
<1>3. ASSUME NEW s \in Slot, Check(s) PROVE LookInv'
  <2>1. task.pc = "check" /\ task'.pc \in {"read", "link", "check", "poll"}
    BY <1>3, TurnPc DEF Check, At
  <2>2. capture' \/ (capture' = capture /\ state' = state)
    BY <1>3 DEF Check, ResetCAM
  <2>3. last' = last
    BY <1>3 DEF Check
  <2> QED
    BY <2>1, <2>2, <2>3, LookServe
<1>4. ASSUME NEW s \in Slot, ReadFails(s) \/ LinkFails(s) PROVE LookInv'
  <2>1. task.pc \in {"read", "link"} /\ task'.pc \in {"read", "check", "poll"}
    BY <1>t, <1>4, TurnPc DEF ReadFails, LinkFails, Serving, Task
  <2>2. capture' \/ (capture' = capture /\ state' = state)
    BY <1>4 DEF ReadFails, LinkFails, ResetCAM
  <2>3. last' = last
    BY <1>4 DEF ReadFails, LinkFails
  <2> QED
    BY <2>1, <2>2, <2>3, LookServe
<1>5. ASSUME NEW s \in Slot, ReadOk(s) \/ ConfigOk(s) \/ ConfigFails(s) PROVE LookInv'
  <2>1. task.pc \in {"read", "config"} /\ task'.pc \in {"config", "check", "poll"}
    BY <1>t, <1>5, TurnPc DEF ReadOk, ConfigOk, ConfigFails, Task
  <2>2. capture' = capture /\ last' = last
    BY <1>5 DEF ReadOk, ConfigOk, ConfigFails, driver
  <2>3. state[s] # "EMPTY"
    BY <1>5 DEF ReadOk, ConfigOk, ConfigFails, TaskAtWork
  <2>4. \A q \in Slot : (state'[q] = "EMPTY") = (state[q] = "EMPTY")
    BY <1>t, <1>5, <2>3 DEF ReadOk, ConfigOk, ConfigFails
  <2> QED
    BY <2>1, <2>2, <2>4, LookServe
<1>6. ASSUME NEW s \in Slot, LinkReset(s) \/ LinkDone(s) \/ LinkData(s) \/ LinkSend(s)
      PROVE LookInv'
  <2>1. task.pc = "link" /\ task'.pc \in {"link", "check", "poll"}
    BY <1>6, TurnPc DEF LinkReset, LinkDone, LinkData, LinkSend, Serving
  <2>2. capture' = capture /\ last' = last /\ state' = state
    BY <1>6 DEF LinkReset, LinkDone, LinkData, LinkSend, driver
  <2> QED
    BY <2>1, <2>2, LookServe
<1>7. ASSUME NEW s \in Slot, Plug(s) \/ Pull(s) PROVE LookInv'
  <2>1. task.pc # "scan" /\ task' = task /\ last' = last /\ capture' = capture /\ state' = state
    BY <1>7 DEF Plug, Pull, driver
  <2> QED
    BY <2>1 DEF LookInv, Agrees
<1>8. ASSUME NEW s \in Slot, HostSends(s) PROVE LookInv'
  BY <1>8 DEF HostSends, hardware, driver, LookInv, Agrees
<1>9. CASE UNCHANGED vars
  BY <1>9 DEF vars, hardware, driver, LookInv, Agrees
<1> QED
  BY <1>1, <1>2, <1>3, <1>4, <1>5, <1>6, <1>7, <1>8, <1>9 DEF Next, Monitor, Environment

\* No plugging, pulling or reset of a module gets lost, for any number of
\* slots, if a slot does not change between the two readings.  (If it may,
\* TLC finds the lost event: set TwoReadings to TRUE.)
THEOREM EventsKept == ASSUME ~TwoReadings PROVE Spec => []NothingMissed
<1>1. Init => SlotInv
  BY DEF Init, SlotInv, TaskAtWork, HandleAssigned, OccupiedReported, At
<1>2. Init => LookInv
  BY DEF Init, LookInv, Agrees, At
<1>3. TypeOK /\ SlotInv /\ LookInv /\ [Next]_vars => LookInv'
  BY LookStep DEF SlotInv
<1>4. TypeOK /\ LookInv => NothingMissed
  <2> SUFFICES ASSUME TypeOK, LookInv, task.pc = "poll",
                      NEW s \in Slot, plugged[s] # (state[s] # "EMPTY"), ~capture
               PROVE  last[s] # plugged[s]
    BY DEF NothingMissed
  <2>1. state[s] # "EMPTY" <=> last[s]
    BY DEF LookInv, Agrees
  <2>2. last[s] \in BOOLEAN /\ plugged[s] \in BOOLEAN
    BY DEF TypeOK
  <2> QED
    BY <2>1, <2>2
<1> QED
  BY <1>1, <1>2, <1>3, <1>4, SlotInvStep, TypeCorrect, PTL DEF Spec
=============================================================================
