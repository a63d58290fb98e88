------------------------------- MODULE CamSlot -------------------------------
(***************************************************************************)
(* The life of a module in a common-interface slot: the monitoring task    *)
(* (WVCI_TaskMonitoring, WV_CI.c) notices that a module is plugged or      *)
(* pulled, powers it, reads its attribute memory, configures it and then   *)
(* serves its link, and starts over when something fails.  One task serves *)
(* all slots in turn.  The link itself is modelled in CiLink: here only    *)
(* its outcomes count (frames sent, data received, a reset, a failure).    *)
(*                                                                         *)
(* Users plug and pull modules at any time.  A module may answer wrongly,  *)
(* ask for a reset, or crash; nothing is assumed of it.                    *)
(***************************************************************************)
EXTENDS Integers

CONSTANTS
  LastSlot,     \* WVCI_MAX_SLOT_NUM - 1
  MaxRetry,     \* nMaxRetryTimes in CIMax_CheckSlot: 5
  MaxChecks,    \* checks in state CISREAD before a reset: 3
  TwoReadings   \* may a slot change between the task's two register reads?

ASSUME SlotAssumption ==
  /\ LastSlot \in Nat
  /\ MaxRetry \in Nat
  /\ MaxChecks \in Nat \ {0}
  /\ TwoReadings \in BOOLEAN

Slot == 0 .. LastSlot
States == {"EMPTY", "INSERTED", "CISREAD", "CISTART"}

VARIABLES
  \* hardware
  plugged,      \* plugged[s]: a module is in the slot (FPGA register)
  conn,         \* conn[s]: that module has a transport connection
  \* platform driver
  last,         \* s_CAMLastStatusReg
  capture,      \* s_CAMStatusCapture
  \* monitoring task: step, slot, register as read, attempts left
  task,
  \* g_CIMax_CIHandles[s].emSlotState and s_nMAXTRYREAD
  state, tries,
  \* CiSlot[s]: hSlotHandle is set, negotiated buffer size, T_CREATE is
  \* queued, other frames are queued or a poll is due
  handle, size, create, due,
  \* what others are told: m_u8SlotInserted together with
  \* CAMCommStatus.CISlotState, and m_ucSlotInited
  inserted, inited

hardware == <<plugged, conn>>
driver == <<last, capture>>
ciSlot == <<handle, size, create, due>>
told == <<inserted, inited>>
vars == <<hardware, driver, task, state, tries, ciSlot, told>>

Pc == {"poll", "scan", "event", "check", "read", "config", "link"}
NoReading == [s \in Slot |-> FALSE]
Task == [pc : Pc, s : Slot, reg : [Slot -> BOOLEAN], retry : 0 .. MaxRetry]

TypeOK ==
  /\ plugged \in [Slot -> BOOLEAN] /\ conn \in [Slot -> BOOLEAN]
  /\ last \in [Slot -> BOOLEAN] /\ capture \in BOOLEAN
  /\ task \in Task
  /\ state \in [Slot -> States] /\ tries \in [Slot -> 0 .. MaxChecks - 1]
  /\ handle \in [Slot -> BOOLEAN] /\ size \in [Slot -> {"none", "bad", "ok"}]
  /\ create \in [Slot -> BOOLEAN] /\ due \in [Slot -> BOOLEAN]
  /\ inserted \in [Slot -> BOOLEAN] /\ inited \in [Slot -> BOOLEAN]

At(pc, s, reg, retry) == [pc |-> pc, s |-> s, reg |-> reg, retry |-> retry]

\* WVCI_Setup; a module may be in the slot already.  The capture flag is set,
\* so that the first turn looks at every slot.
Init ==
  /\ plugged \in [Slot -> BOOLEAN]
  /\ conn = [s \in Slot |-> FALSE]
  /\ last = [s \in Slot |-> FALSE]
  /\ capture = TRUE
  /\ task = At("poll", 0, NoReading, 0)
  /\ state = [s \in Slot |-> "EMPTY"]
  /\ tries = [s \in Slot |-> 0]
  /\ handle = [s \in Slot |-> FALSE]
  /\ size = [s \in Slot |-> "none"]
  /\ create = [s \in Slot |-> FALSE]
  /\ due = [s \in Slot |-> FALSE]
  /\ inserted = [s \in Slot |-> FALSE]
  /\ inited = [s \in Slot |-> FALSE]

(***************************************************************************)
(* Finding events.  WVCI_GetINTEvent reads the register once, to compare   *)
(* it with the reading before; if something has changed, or a reset has    *)
(* set the flag, the register is read again to see what.                   *)
(***************************************************************************)

\* Mutant: WVCI_GetINTEvent assigns the flag instead of or-ing into it.
PollForgetful ==
  /\ task.pc = "poll"
  /\ capture' = (last # plugged)
  /\ task' = At(IF last # plugged THEN "scan" ELSE "check", 0, NoReading, 0)
  /\ last' = plugged
  /\ UNCHANGED <<hardware, state, tries, ciSlot, told>>

\* Mutant: WVCI_GetINTEvent reports only modules that appear.
PollInsertions ==
  /\ task.pc = "poll"
  /\ LET captured == capture \/ \E s \in Slot : plugged[s] /\ ~last[s] IN
     /\ capture' = captured
     /\ task' = At(IF captured THEN "scan" ELSE "check", 0, NoReading, 0)
  /\ last' = plugged
  /\ UNCHANGED <<hardware, state, tries, ciSlot, told>>

Poll ==
  /\ task.pc = "poll"
  /\ LET captured == capture \/ last # plugged IN
     /\ capture' = captured
     /\ task' = At(IF captured THEN "scan" ELSE "check", 0, NoReading, 0)
  /\ last' = plugged
  /\ UNCHANGED <<hardware, state, tries, ciSlot, told>>

\* WVCI_ClearINTEvent, then WVCI_SYSGetCAMRegister.
Scan ==
  /\ task.pc = "scan"
  /\ capture' = FALSE
  /\ task' = At("event", 0, plugged, 0)
  /\ UNCHANGED <<hardware, last, state, tries, ciSlot, told>>

\* The task goes on to the next slot, or to the next part of its turn.
NextEvent == IF task.s < LastSlot THEN [task EXCEPT !.s = @ + 1]
                                  ELSE At("check", 0, NoReading, 0)
NextCheck == IF task.s < LastSlot THEN At("check", task.s + 1, NoReading, 0)
                                  ELSE At("poll", 0, NoReading, 0)

\* WVCI_InsertCAM: the module is powered off and on and reset.
InsertCAM(s) ==
  /\ task.pc = "event" /\ task.s = s
  /\ state[s] = "EMPTY" /\ task.reg[s]
  /\ inserted' = [inserted EXCEPT ![s] = TRUE]
  /\ state' = [state EXCEPT ![s] = "INSERTED"]
  /\ conn' = [conn EXCEPT ![s] = FALSE]
  /\ task' = NextEvent
  /\ UNCHANGED <<plugged, driver, tries, ciSlot, inited>>

\* CI_ModuleRemoved: the message CI_SLOT_EMPTY, then memset.
ModuleRemoved(s) ==
  /\ inited' = [inited EXCEPT ![s] = FALSE]
  /\ handle' = [handle EXCEPT ![s] = FALSE]
  /\ size' = [size EXCEPT ![s] = "none"]
  /\ create' = [create EXCEPT ![s] = FALSE]
  /\ due' = [due EXCEPT ![s] = FALSE]

\* Mutant: CIMAX_PCMCIAModuleRemoved empties the slot only in state CISTART.
RemoveCAMHalf(s) ==
  /\ task.pc = "event" /\ task.s = s
  /\ state[s] # "EMPTY" /\ ~task.reg[s]
  /\ IF state[s] = "CISTART"
       THEN ModuleRemoved(s) /\ state' = [state EXCEPT ![s] = "EMPTY"]
       ELSE UNCHANGED <<ciSlot, inited, state>>
  /\ inserted' = [inserted EXCEPT ![s] = FALSE]
  /\ conn' = [conn EXCEPT ![s] = FALSE]
  /\ task' = NextEvent
  /\ UNCHANGED <<plugged, driver, tries>>

\* WVCI_RemoveCAM.  Only a slot in state CISTART is cleaned up.
RemoveCAM(s) ==
  /\ task.pc = "event" /\ task.s = s
  /\ state[s] # "EMPTY" /\ ~task.reg[s]
  /\ IF state[s] = "CISTART" THEN ModuleRemoved(s)
                             ELSE UNCHANGED <<ciSlot, inited>>
  /\ state' = [state EXCEPT ![s] = "EMPTY"]
  /\ inserted' = [inserted EXCEPT ![s] = FALSE]
  /\ conn' = [conn EXCEPT ![s] = FALSE]
  /\ task' = NextEvent
  /\ UNCHANGED <<plugged, driver, tries>>

NoEvent(s) ==
  /\ task.pc = "event" /\ task.s = s
  /\ (state[s] = "EMPTY") = ~task.reg[s]
  /\ task' = NextEvent
  /\ UNCHANGED <<hardware, driver, state, tries, ciSlot, told>>

(***************************************************************************)
(* Serving the slots: CIMax_CheckSlot for every slot that is not empty.    *)
(***************************************************************************)
\* STATUS_ResetCAM: the slot is left to be found "inserted" again.
ResetCAM(s) ==
  /\ state' = [state EXCEPT ![s] = "EMPTY"]
  /\ capture' = TRUE

\* Mutant: CIMax_CheckSlot forgets to start counting afresh.
CheckCounting(s) ==
  /\ task.pc = "check" /\ task.s = s
  /\ task' = CASE state[s] = "INSERTED" -> At("read", s, NoReading, MaxRetry)
               [] state[s] = "CISTART"  -> At("link", s, NoReading, 0)
               [] OTHER -> NextCheck
  /\ IF state[s] = "CISREAD"
       THEN /\ tries' = [tries EXCEPT ![s] = @ + 1]
            /\ IF tries[s] < MaxChecks - 1 THEN UNCHANGED <<state, capture>> ELSE ResetCAM(s)
       ELSE UNCHANGED <<tries, state, capture>>
  /\ UNCHANGED <<hardware, last, ciSlot, told>>

Check(s) ==
  /\ task.pc = "check" /\ task.s = s
  /\ task' = CASE state[s] = "INSERTED" -> At("read", s, NoReading, MaxRetry)
               [] state[s] = "CISTART"  -> At("link", s, NoReading, 0)
               [] OTHER -> NextCheck
  /\ IF state[s] = "CISREAD"
       THEN IF tries[s] < MaxChecks - 1
              THEN /\ tries' = [tries EXCEPT ![s] = @ + 1]
                   /\ UNCHANGED <<state, capture>>
              ELSE /\ tries' = [tries EXCEPT ![s] = 0]
                   /\ ResetCAM(s)
       ELSE UNCHANGED <<tries, state, capture>>
  /\ UNCHANGED <<hardware, last, ciSlot, told>>

\* State INSERTED: the attribute memory is read until it makes sense.  The
\* memory of a slot without a module reads 0xFF and never does.
ReadOk(s) ==
  /\ task.pc = "read" /\ task.s = s
  /\ plugged[s]
  /\ state' = [state EXCEPT ![s] = "CISREAD"]
  /\ task' = [task EXCEPT !.pc = "config"]
  /\ UNCHANGED <<hardware, driver, tries, ciSlot, told>>

ReadFails(s) ==
  /\ task.pc = "read" /\ task.s = s
  /\ IF task.retry > 0
       THEN /\ task' = [task EXCEPT !.retry = @ - 1]
            /\ UNCHANGED <<state, capture>>
       ELSE /\ ResetCAM(s)
            /\ task' = NextCheck
  /\ UNCHANGED <<hardware, last, tries, ciSlot, told>>

\* Mutant: CI_ModuleInserted clears the structure after the handle was set.
ConfigOkWiped(s) ==
  /\ task.pc = "config" /\ task.s = s
  /\ plugged[s]
  /\ handle' = [handle EXCEPT ![s] = FALSE]
  /\ size' = [size EXCEPT ![s] = "ok"]
  /\ create' = [create EXCEPT ![s] = TRUE]
  /\ due' = [due EXCEPT ![s] = FALSE]
  /\ state' = [state EXCEPT ![s] = "CISTART"]
  /\ task' = NextCheck
  /\ UNCHANGED <<hardware, driver, tries, told>>

\* CI_CheckConfig with CI_ModuleInserted (memset, then the handle) and the
\* first T_CREATE.
ConfigOk(s) ==
  /\ task.pc = "config" /\ task.s = s
  /\ plugged[s]
  /\ handle' = [handle EXCEPT ![s] = TRUE]
  /\ size' = [size EXCEPT ![s] = "ok"]
  /\ create' = [create EXCEPT ![s] = TRUE]
  /\ due' = [due EXCEPT ![s] = FALSE]
  /\ state' = [state EXCEPT ![s] = "CISTART"]
  /\ task' = NextCheck
  /\ UNCHANGED <<hardware, driver, tries, told>>

\* No configuration with both CI tags (the handle is set, nothing else), or
\* a buffer size that is rejected (the module is reset).
ConfigFails(s) ==
  /\ task.pc = "config" /\ task.s = s
  /\ handle' = [handle EXCEPT ![s] = TRUE]
  /\ \/ UNCHANGED <<conn, size, create, due>>
     \/ /\ size' = [size EXCEPT ![s] = "bad"]
        /\ create' = [create EXCEPT ![s] = FALSE]
        /\ due' = [due EXCEPT ![s] = FALSE]
        /\ conn' = [conn EXCEPT ![s] = FALSE]
  /\ task' = IF task.retry > 1 THEN [task EXCEPT !.retry = @ - 1] ELSE NextCheck
  /\ UNCHANGED <<plugged, driver, state, tries, told>>

(***************************************************************************)
(* State CISTART: CI_CheckSlot.  The register of an empty slot reads 0xFF, *)
(* which has the reserved bits set; so may that of a crashed module.  The  *)
(* third unknown TPDU in a row (ModulReset) leads to the same reset in the *)
(* next turn of the loop.                                                  *)
(***************************************************************************)
LinkReset(s) ==
  /\ task.pc = "link" /\ task.s = s
  /\ conn' = [conn EXCEPT ![s] = FALSE]
  /\ task' = NextCheck
  /\ UNCHANGED <<plugged, driver, state, tries, handle, size, create, due, told>>

Serving(s) == task.pc = "link" /\ task.s = s /\ plugged[s]

\* Data of a connected module: any, a status byte (the host may poll again),
\* a CA_INFO, a request for a reset.
LinkData(s) ==
  /\ Serving(s) /\ conn[s]
  /\ \E caOk, reset \in BOOLEAN :
       /\ inited' = [inited EXCEPT ![s] = @ \/ caOk]
       /\ conn' = [conn EXCEPT ![s] = ~reset]
  /\ \E sb \in BOOLEAN : due' = [due EXCEPT ![s] = @ \/ sb]
  /\ UNCHANGED <<plugged, driver, task, state, tries, handle, size, create, inserted>>

\* CI_ReallyWriteData sends what is queued, T_CREATE first.
LinkSend(s) ==
  /\ Serving(s)
  /\ create[s] \/ due[s]
  /\ create' = [create EXCEPT ![s] = FALSE]
  /\ due' = [due EXCEPT ![s] = create[s] /\ @]
  /\ conn' = [conn EXCEPT ![s] = @ \/ create[s]]
  /\ UNCHANGED <<plugged, driver, task, state, tries, handle, size, told>>

\* The module does not become free.  (An empty slot reads as free.)
LinkFails(s) ==
  /\ Serving(s)
  /\ create[s] \/ due[s]
  /\ ResetCAM(s)
  /\ task' = NextCheck
  /\ UNCHANGED <<hardware, last, tries, ciSlot, told>>

\* Neither data nor anything that could be sent (or data is about to come).
LinkDone(s) ==
  /\ Serving(s)
  /\ conn[s] \/ ~(create[s] \/ due[s])
  /\ task' = NextCheck
  /\ UNCHANGED <<hardware, driver, state, tries, ciSlot, told>>

(***************************************************************************)
(* The other threads and the user.                                         *)
(***************************************************************************)
\* The user-interface or PMT thread queues a frame (SendTransportPacket).
HostSends(s) ==
  /\ size[s] = "ok"
  /\ due' = [due EXCEPT ![s] = TRUE]
  /\ UNCHANGED <<hardware, driver, task, state, tries, handle, size, create, told>>

Plug(s) ==
  /\ ~plugged[s]
  /\ TwoReadings \/ task.pc # "scan"
  /\ plugged' = [plugged EXCEPT ![s] = TRUE]
  /\ UNCHANGED <<conn, driver, task, state, tries, ciSlot, told>>

Pull(s) ==
  /\ plugged[s]
  /\ TwoReadings \/ task.pc # "scan"
  /\ plugged' = [plugged EXCEPT ![s] = FALSE]
  /\ conn' = [conn EXCEPT ![s] = FALSE]
  /\ UNCHANGED <<driver, task, state, tries, ciSlot, told>>

Monitor ==
  \/ Poll
  \/ Scan
  \/ \E s \in Slot :
       \/ InsertCAM(s) \/ RemoveCAM(s) \/ NoEvent(s)
       \/ Check(s)
       \/ ReadOk(s) \/ ReadFails(s) \/ ConfigOk(s) \/ ConfigFails(s)
       \/ LinkReset(s) \/ LinkData(s) \/ LinkSend(s) \/ LinkFails(s) \/ LinkDone(s)

Environment == \E s \in Slot : Plug(s) \/ Pull(s) \/ HostSends(s)

Next == Monitor \/ Environment
Spec == Init /\ [][Next]_vars

\* The task is a thread that never stops, and a module does not keep the
\* loop of CI_CheckSlot busy for ever: it pauses, and the loop ends.
Leaves(s) == LinkDone(s) \/ LinkReset(s) \/ LinkFails(s)
FairSpec ==
  /\ Spec
  /\ WF_vars(Monitor)
  /\ \A s \in Slot : WF_vars(Leaves(s))

(***************************************************************************)
(* Safety.                                                                 *)
(***************************************************************************)
\* In a started slot the handle is set and the buffer size is accepted: the
\* assertion of CI_ModuleRemoved (ci.c:98) holds when the module is pulled,
\* and CI_CheckSlot never works on a slot that was wiped.
HandleAssigned ==
  \A s \in Slot : state[s] = "CISTART" => handle[s] /\ size[s] = "ok"

\* The slot the task is working on is in the state the task has dispatched
\* on: nothing else changes the state of a slot meanwhile.
TaskAtWork ==
  /\ task.pc = "read" => state[task.s] = "INSERTED"
  /\ task.pc = "config" => state[task.s] = "CISREAD"
  /\ task.pc = "link" => state[task.s] = "CISTART"

\* A slot the task works on is reported as occupied, after any sequence of
\* resets and removals (m_u8SlotInserted, CAMCommStatus).
OccupiedReported ==
  \A s \in Slot : state[s] # "EMPTY" => inserted[s]

\* Whenever the task is about to look for events, a slot whose state does
\* not match what is in it will be looked at: no plugging, pulling or reset
\* gets lost between the two register reads, the flag and the slot states.
NothingMissed ==
  task.pc = "poll" =>
    \A s \in Slot : plugged[s] # (state[s] # "EMPTY")
                      => capture \/ last[s] # plugged[s]

(***************************************************************************)
(* Liveness.                                                               *)
(***************************************************************************)
\* The removal of a module is noticed, however the task was occupied with
\* that slot or another one when it happened.
RemovalNoticed ==
  \A s \in Slot : <>[](~plugged[s]) => <>[](state[s] = "EMPTY")

\* A module that stays plugged is tried again and again, however often it
\* has failed: STATUS_ResetCAM never leaves a slot behind.
PluggedTried ==
  \A s \in Slot : <>[](plugged[s]) => []<>(state[s] # "EMPTY")

\* A module that was reset while it was in use (a crash, ci.h:194, or its own
\* request) is connected again or set up from the start.
ResetModuleReturns ==
  \A s \in Slot :
    (state[s] = "CISTART" /\ plugged[s] /\ ~conn[s] /\ ~create[s])
    ~> (conn[s] \/ state[s] # "CISTART" \/ ~plugged[s])
=============================================================================
