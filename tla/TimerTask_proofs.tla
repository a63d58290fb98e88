--------------------------- MODULE TimerTask_proofs ---------------------------
(***************************************************************************)
(* Proofs about TimerTask for any callers, tasks, descriptors and table    *)
(* size.                                                                   *)
(***************************************************************************)
EXTENDS TimerTask, TLAPS

CallType ==
  call \in [Caller -> [op : Ops, t : Task \cup {None}, fd : Int, i : Slot]]

\* The descriptors of the places the monitor has read.
Scanned == {slots[k].fd : k \in 1 .. place - 1} \ {NoFd}

\* Nothing is called before the monitor has created its event descriptor.
Waiting ==
  IF eventFd THEN mon # "start"
             ELSE /\ mon = "start" /\ polled = {}
                  /\ \A c \in Caller : call[c] = Idle
                  /\ \A i \in Slot : slots[i].fd = NoFd

\* The monitor's list is up to date as far as it has read the table, unless a
\* change is on its way to it.
UpToDate ==
  Quiet => IF mon = "scan" THEN polled = Scanned ELSE polled = Registered

IInv ==
  /\ CallType
  /\ place \in Slot
  /\ eventFd \in BOOLEAN
  /\ Waiting
  /\ UpToDate

LEMMA SlotOne == 1 \in Slot
  BY TimerAssumption DEF Slot

LEMMA IdleType == Idle \in [op : Ops, t : Task \cup {None}, fd : Int, i : Slot]
  BY SlotOne DEF Idle, Ops, NoFd

\* What a step of a call does to the call itself.
LEMMA GotoType ==
  ASSUME CallType, NEW c \in Caller, NEW op \in Ops, Goto(c, op)
  PROVE  CallType' /\ call'[c].op = op /\ \A d \in Caller \ {c} : call'[d] = call[d]
  BY DEF CallType, Goto

LEMMA ReturnType ==
  ASSUME CallType, NEW c \in Caller, Return(c)
  PROVE  CallType' /\ call'[c] = Idle /\ \A d \in Caller \ {c} : call'[d] = call[d]
  BY IdleType DEF CallType, Return

LEMMA NextPlaceType ==
  ASSUME CallType, NEW c \in Caller, call[c].i < MaxTask,
         call' = [call EXCEPT ![c].i = call[c].i + 1]
  PROVE  CallType' /\ call'[c].op = call[c].op /\ \A d \in Caller \ {c} : call'[d] = call[d]
  BY TimerAssumption DEF CallType, Slot

LEMMA BeginType ==
  ASSUME CallType, NEW c \in Caller, NEW op \in Ops, NEW t \in Task, NEW f \in Int,
         call' = [call EXCEPT ![c] = [op |-> op, t |-> t, fd |-> f, i |-> 1]]
  PROVE  CallType' /\ call'[c].op = op /\ \A d \in Caller \ {c} : call'[d] = call[d]
  BY SlotOne DEF CallType

\* A step that changes neither the table nor the monitor's list, and ends no
\* change.
LEMMA NoNews ==
  ASSUME IInv, UNCHANGED <<eventFd, slots, mon, place, polled>>, eventFd,
         CallType', Quiet' => Quiet
  PROVE  IInv'
  BY DEF IInv, Waiting, UpToDate, Scanned, Registered, Slot

\* A step that leaves a change on its way to the monitor.
LEMMA News ==
  ASSUME IInv, UNCHANGED <<eventFd, mon, place, polled>>, eventFd, CallType', ~Quiet'
  PROVE  IInv'
  BY DEF IInv, Waiting, UpToDate, Slot

LEMMA RegisterRemove ==
  ASSUME MonitorFirst, IInv, NEW c \in Caller, NEW t \in Task,
         Register(c, t) \/ Remove(c, t)
  PROVE  IInv'
<1>1. /\ UNCHANGED <<eventFd, slots, mon, place, polled, signal>> /\ eventFd
      /\ CallType /\ call[c] = Idle
  BY DEF IInv, Register, Remove, MayCall, table, monitor, kernel
<1>2. /\ CallType' /\ \A d \in Caller \ {c} : call'[d] = call[d]
      /\ call'[c].op \in {"idle", "find", "seek"}
  <2>1. CASE UNCHANGED call
    BY <1>1, <2>1 DEF CallType, Idle
  <2>2. CASE \E f \in Fd : call' = [call EXCEPT ![c] = [op |-> "find", t |-> t, fd |-> f, i |-> 1]]
    <3>1. PICK f \in Fd : call' = [call EXCEPT ![c] = [op |-> "find", t |-> t, fd |-> f, i |-> 1]]
      BY <2>2
    <3>2. f \in Int /\ "find" \in Ops
      BY TimerAssumption DEF Ops
    <3> QED
      BY <1>1, <3>1, <3>2, BeginType
  <2>3. CASE Remove(c, t)
    <3>1. PICK f \in Fd \cup {NoFd, Garbage} :
             call' = [call EXCEPT ![c] = [op |-> "seek", t |-> t, fd |-> f, i |-> 1]]
      BY <2>3 DEF Remove
    <3>2. f \in Int /\ "seek" \in Ops
      BY TimerAssumption DEF Ops, NoFd, Garbage
    <3> QED
      BY <1>1, <3>1, <3>2, BeginType
  <2> QED
    BY <2>1, <2>2, <2>3 DEF Register
<1>3. Quiet' => Quiet
  BY <1>1, <1>2 DEF Quiet, Unchanging, Idle
<1> QED
  BY <1>1, <1>2, <1>3, NoNews

LEMMA WorkKeeps ==
  ASSUME IInv, NEW c \in Caller, Work(c)
  PROVE  IInv'
<1>1. /\ UNCHANGED <<eventFd, mon, place, polled>> /\ CallType
  BY DEF Work, Find, Fill, Func, Notify, Seek, Close, Clear, table, monitor, IInv
<1>2. eventFd
  BY DEF Work, Find, Fill, Func, Notify, Seek, Close, Clear, Idle, IInv, Waiting
<1>3. CASE Find(c) \/ Seek(c)
  <2>1. UNCHANGED <<slots, signal>>
    BY <1>3 DEF Find, Seek, table, kernel
  <2>2. /\ CallType' /\ \A d \in Caller \ {c} : call'[d] = call[d]
        /\ call[c].op \in {"find", "seek"}
    <3>1. "fill" \in Ops /\ "close" \in Ops
      BY DEF Ops
    <3>2. \/ Goto(c, "fill") \/ Goto(c, "close") \/ Return(c)
          \/ call[c].i < MaxTask /\ call' = [call EXCEPT ![c].i = call[c].i + 1]
      BY <1>3 DEF Find, Seek
    <3> QED
      BY <1>1, <1>3, <3>1, <3>2, GotoType, ReturnType, NextPlaceType DEF Find, Seek
  <2>3. Quiet' => Quiet
    BY <1>1, <2>1, <2>2 DEF Quiet, Unchanging
  <2> QED
    BY <1>1, <1>2, <2>1, <2>2, <2>3, NoNews
<1>4. CASE Fill(c) \/ Func(c) \/ Close(c) \/ Clear(c)
  <2>1. \E op \in {"func", "notify", "clear"} : Goto(c, op)
    BY <1>4 DEF Fill, Func, Close, Clear
  <2>2. CallType' /\ call'[c].op \in {"func", "notify", "clear"}
    BY <1>1, <2>1, GotoType DEF Ops
  <2> QED
    BY <1>1, <1>2, <2>2, News DEF Quiet, Unchanging
<1>5. CASE Notify(c)
  <2>1. CallType' /\ signal'
    BY <1>1, <1>2, <1>5, ReturnType DEF Notify
  <2> QED
    BY <1>1, <1>2, <2>1, News DEF Quiet
<1> QED
  BY <1>3, <1>4, <1>5 DEF Work

LEMMA MonitorKeeps ==
  ASSUME IInv, Monitor PROVE IInv'
<1>1. CallType' /\ UNCHANGED <<call, slots>>
  BY DEF Monitor, CreateEvent, PollReturns, ExecuteTask, NoMore, ReadEvent, Rescan,
         ReadTimer, table, callers, IInv, CallType
<1>2. CASE CreateEvent
  <2>1. ~eventFd
    BY <1>2 DEF CreateEvent, IInv, Waiting
  <2>2. Registered' = {} /\ polled = {}
    BY <1>1, <2>1 DEF IInv, Waiting, Registered
  <2>3. eventFd' = TRUE /\ mon' = "poll" /\ UNCHANGED <<place, polled>>
    BY <1>2 DEF CreateEvent
  <2>4. Waiting' /\ UpToDate'
    BY <2>2, <2>3 DEF Waiting, UpToDate
  <2> QED
    BY <1>1, <2>3, <2>4 DEF IInv, Slot
<1>3. CASE PollReturns \/ ExecuteTask \/ NoMore \/ \E f \in Fd : ReadTimer(f)
  <2>1. /\ UNCHANGED <<eventFd, signal, place, polled>> /\ mon # "scan" /\ mon' # "scan"
        /\ mon # "start" /\ mon' # "start"
    BY <1>3 DEF PollReturns, ExecuteTask, NoMore, ReadTimer, table, kernel
  <2>2. Quiet' => Quiet
    BY <1>1, <2>1 DEF Quiet, Unchanging
  <2>3. Waiting' /\ eventFd' \in BOOLEAN
    BY <2>1 DEF IInv, Waiting
  <2>4. UpToDate'
    <3>1. Registered' = Registered
      BY <1>1 DEF Registered
    <3> QED
      BY <2>1, <2>2, <3>1 DEF IInv, UpToDate
  <2> QED
    BY <1>1, <2>1, <2>3, <2>4 DEF IInv
<1>4. CASE ReadEvent
  <2>1. /\ polled' = {} /\ mon' = "scan" /\ place' = 1 /\ eventFd' = eventFd
        /\ eventFd
    BY <1>4 DEF ReadEvent, table, IInv, Waiting
  <2>2. Scanned' = {}
    BY <2>1 DEF Scanned
  <2> QED
    BY <1>1, <2>1, <2>2, SlotOne DEF IInv, Waiting, UpToDate
<1>5. CASE Rescan
  <2>1. /\ mon = "scan" /\ place \in Slot
        /\ UNCHANGED <<eventFd, signal>> /\ eventFd
        /\ polled' = polled \cup ({slots[place].fd} \ {NoFd})
        /\ IF place < MaxTask THEN place' = place + 1 /\ mon' = mon
                              ELSE mon' = "poll" /\ place' = place
    BY <1>5 DEF Rescan, table, kernel, IInv, Waiting
  <2>2. Quiet' => Quiet
    BY <1>1, <2>1 DEF Quiet, Unchanging
  <2>3. place' \in Slot
    BY <2>1, TimerAssumption DEF Slot
  <2>4. ASSUME Quiet'
        PROVE  polled' = {slots[k].fd : k \in 1 .. place} \ {NoFd}
    <3>1. polled = {slots[k].fd : k \in 1 .. place - 1} \ {NoFd}
      BY <2>1, <2>2, <2>4 DEF IInv, UpToDate, Scanned
    <3>2. \A k : k \in 1 .. place <=> k \in 1 .. place - 1 \/ k = place
      BY <2>1, TimerAssumption DEF Slot
    <3> QED
      BY <2>1, <3>1, <3>2
  <2>5. CASE place < MaxTask
    <3>1. place' = place + 1 /\ mon' = "scan" /\ 1 .. place' - 1 = 1 .. place
      BY <2>1, <2>5 DEF Slot
    <3> QED
      BY <1>1, <2>1, <2>3, <2>4, <3>1 DEF IInv, Waiting, UpToDate, Scanned
  <2>6. CASE ~(place < MaxTask)
    <3>1. mon' = "poll" /\ Slot = 1 .. place
      BY <2>1, <2>6, TimerAssumption DEF Slot
    <3> QED
      BY <1>1, <2>1, <2>3, <2>4, <3>1 DEF IInv, Waiting, UpToDate, Registered
  <2> QED
    BY <2>5, <2>6
<1> QED
  BY <1>2, <1>3, <1>4, <1>5 DEF Monitor

LEMMA InitIInv == Init => IInv
<1> SUFFICES ASSUME Init PROVE IInv
  OBVIOUS
<1>1. CallType
  BY IdleType DEF Init, CallType
<1>2. Waiting /\ UpToDate
  BY DEF Init, Waiting, UpToDate, Quiet
<1> QED
  BY <1>1, <1>2, SlotOne DEF Init, IInv

LEMMA NextIInv ==
  ASSUME MonitorFirst PROVE IInv /\ [Next]_vars => IInv'
<1> SUFFICES ASSUME IInv, [Next]_vars PROVE IInv'
  OBVIOUS
<1>1. CASE UNCHANGED vars
  BY <1>1 DEF vars, table, callers, monitor, kernel, IInv, CallType, Waiting, UpToDate,
              Quiet, Unchanging, Scanned, Registered
<1>2. CASE \E c \in Caller, t \in Task : Register(c, t) \/ Remove(c, t)
  BY <1>2, RegisterRemove
<1>3. CASE \E c \in Caller : Work(c)
  BY <1>3, WorkKeeps
<1>4. CASE Monitor
  BY <1>4, MonitorKeeps
<1> QED
  BY <1>1, <1>2, <1>3, <1>4 DEF Next

\* Whatever any number of callers register and remove at the same time, without
\* a lock: a monitor that waits for its descriptors waits for all that are in
\* the table and for no other, unless a change is on its way to it.  It is
\* assumed that nobody calls before the monitor has created its event
\* descriptor.
THEOREM NoChangeForgotten ==
  ASSUME MonitorFirst PROVE Spec => []PollsAll
<1>1. IInv => PollsAll
  BY DEF IInv, UpToDate, PollsAll
<1>2. IInv /\ [Next]_vars => IInv'
  BY NextIInv
<1> QED
  BY <1>1, <1>2, InitIInv, PTL DEF Spec

-----------------------------------------------------------------------------
(***************************************************************************)
(* Types.                                                                  *)
(***************************************************************************)
\* A call that has made a timer has its descriptor in hand.
Holding(c) ==
  call[c].op \in {"find", "fill", "func"} => call[c].fd \in Fd /\ call[c].t \in Task

TInv == TypeOK /\ \A c \in Caller : Holding(c)

LEMMA TypeInit == Init => TInv
<1> SUFFICES ASSUME Init PROVE TInv
  OBVIOUS
<1>1. Idle \in Call
  BY SlotOne DEF Idle, Call, Ops
<1>2. call \in [Caller -> Call] /\ \A c \in Caller : Holding(c)
  BY <1>1 DEF Init, Holding, Idle
<1> QED
  BY <1>2, SlotOne DEF Init, TypeOK, TInv

LEMMA RegisterRemoveType ==
  ASSUME TInv, NEW c \in Caller, NEW t \in Task, Register(c, t) \/ Remove(c, t)
  PROVE  TInv'
<1>1. UNCHANGED <<table, held, monitor, signal>> /\ call \in [Caller -> Call]
  BY DEF Register, Remove, kernel, TInv, TypeOK
<1>2. timers' \in [Fd -> Task \cup {None, Unarmed}]
  BY DEF Register, Remove, kernel, TInv, TypeOK
<1>3. call' \in [Caller -> Call] /\ \A d \in Caller : Holding(d)'
  <2>1. CASE UNCHANGED call
    BY <1>1, <2>1 DEF TInv, Holding
  <2>2. ASSUME NEW op \in {"find", "seek"}, NEW f \in Fd \cup {NoFd, Garbage}, op = "find" => f \in Fd,
               call' = [call EXCEPT ![c] = [op |-> op, t |-> t, fd |-> f, i |-> 1]]
        PROVE  call' \in [Caller -> Call] /\ \A d \in Caller : Holding(d)'
    <3>1. [op |-> op, t |-> t, fd |-> f, i |-> 1] \in Call
      BY SlotOne DEF Call, Ops
    <3>2. /\ call' \in [Caller -> Call]
          /\ call'[c] = [op |-> op, t |-> t, fd |-> f, i |-> 1]
          /\ \A d \in Caller \ {c} : call'[d] = call[d]
      BY <1>1, <2>2, <3>1
    <3>3. Holding(c)'
      BY <2>2, <3>2 DEF Holding
    <3>4. \A d \in Caller \ {c} : Holding(d)'
      BY <3>2 DEF TInv, Holding
    <3> QED
      BY <3>2, <3>3, <3>4
  <2>3. CASE Register(c, t)
    BY <2>1, <2>2, <2>3 DEF Register
  <2>4. CASE Remove(c, t)
    BY <2>2, <2>4 DEF Remove
  <2> QED
    BY <2>3, <2>4
<1> QED
  BY <1>1, <1>2, <1>3 DEF TInv, TypeOK, table, monitor

LEMMA WorkType ==
  ASSUME TInv, NEW c \in Caller, Work(c)
  PROVE  TInv'
<1>1. /\ UNCHANGED <<eventFd, monitor>> /\ call \in [Caller -> Call] /\ call[c] \in Call
      /\ Holding(c)
  BY DEF Work, Find, Fill, Func, Notify, Seek, Close, Clear, table, TInv, TypeOK
<1>2. \/ \E op \in {"fill", "close", "func", "notify", "clear"} :
           /\ Goto(c, op)
           /\ op \in {"fill", "func"} => call[c].op \in {"find", "fill", "func"}
      \/ Return(c)
      \/ call[c].i < MaxTask /\ call' = [call EXCEPT ![c].i = call[c].i + 1]
  BY DEF Work, Find, Fill, Func, Notify, Seek, Close, Clear
<1>3. call' \in [Caller -> Call] /\ \A d \in Caller : Holding(d)'
  <2>1. Idle \in Call /\ Idle.op = "idle"
    BY SlotOne DEF Idle, Call, Ops
  <2>2. ASSUME NEW r \in Call, call' = [call EXCEPT ![c] = r],
               r.op \in {"find", "fill", "func"} => r.fd \in Fd /\ r.t \in Task
        PROVE  call' \in [Caller -> Call] /\ \A d \in Caller : Holding(d)'
    <3>1. /\ call' \in [Caller -> Call] /\ call'[c] = r
          /\ \A d \in Caller \ {c} : call'[d] = call[d]
      BY <1>1, <2>2
    <3>2. Holding(c)'
      BY <2>2, <3>1 DEF Holding
    <3>3. \A d \in Caller \ {c} : Holding(d)'
      BY <3>1 DEF TInv, Holding
    <3> QED
      BY <3>1, <3>2, <3>3
  <2>3. CASE Return(c)
    BY <2>1, <2>2, <2>3 DEF Return
  <2>4. ASSUME NEW op \in {"fill", "close", "func", "notify", "clear"}, Goto(c, op),
               op \in {"fill", "func"} => call[c].op \in {"find", "fill", "func"}
        PROVE  call' \in [Caller -> Call] /\ \A d \in Caller : Holding(d)'
    <3> DEFINE r == [call[c] EXCEPT !.op = op]
    <3>1. r \in Call /\ r.op = op /\ r.fd = call[c].fd /\ r.t = call[c].t
      BY <1>1 DEF Call, Ops
    <3>2. call' = [call EXCEPT ![c] = r]
      BY <1>1, <2>4 DEF Goto, Call
    <3>3. r.op \in {"find", "fill", "func"} => r.fd \in Fd /\ r.t \in Task
      BY <1>1, <2>4, <3>1 DEF Holding
    <3> HIDE DEF r
    <3> QED
      BY <2>2, <3>1, <3>2, <3>3
  <2>5. CASE call[c].i < MaxTask /\ call' = [call EXCEPT ![c].i = call[c].i + 1]
    <3> DEFINE r == [call[c] EXCEPT !.i = call[c].i + 1]
    <3>1. r \in Call /\ r.op = call[c].op /\ r.fd = call[c].fd /\ r.t = call[c].t
      BY <1>1, <2>5, TimerAssumption DEF Call, Slot
    <3>2. call' = [call EXCEPT ![c] = r]
      BY <1>1, <2>5 DEF Call
    <3>3. r.op \in {"find", "fill", "func"} => r.fd \in Fd /\ r.t \in Task
      BY <1>1, <3>1 DEF Holding
    <3> HIDE DEF r
    <3> QED
      BY <2>2, <3>1, <3>2, <3>3
  <2> QED
    BY <1>2, <2>3, <2>4, <2>5
<1>4. timers' \in [Fd -> Task \cup {None, Unarmed}] /\ signal' \in BOOLEAN
  BY DEF Work, Find, Fill, Func, Notify, Seek, Close, Clear, kernel, CloseFd, TInv, TypeOK
<1>5. /\ slots' \in [Slot -> [fd : Fd \cup {NoFd}, task : Task \cup {None}]]
      /\ held' \in [Task -> Fd \cup {Garbage}]
  <2>1. CASE Fill(c)
    <3>1. call[c].fd \in Fd /\ call[c].i \in Slot
      BY <1>1, <2>1 DEF Fill, Holding, Call
    <3> QED
      BY <2>1, <3>1 DEF Fill, TInv, TypeOK
  <2>2. CASE Func(c)
    <3>1. call[c].t \in Task /\ call[c].i \in Slot
      BY <1>1, <2>2 DEF Func, Holding, Call
    <3> QED
      BY <2>2, <3>1 DEF Func, TInv, TypeOK
  <2>3. CASE Clear(c)
    BY <1>1, <2>3 DEF Clear, Call, TInv, TypeOK
  <2>4. CASE Find(c) \/ Notify(c) \/ Seek(c) \/ Close(c)
    BY <2>4 DEF Find, Notify, Seek, Close, table, TInv, TypeOK
  <2> QED
    BY <2>1, <2>2, <2>3, <2>4 DEF Work
<1> QED
  BY <1>1, <1>3, <1>4, <1>5 DEF TInv, TypeOK, monitor

LEMMA MonitorType ==
  ASSUME TInv, Monitor PROVE TInv'
<1>1. UNCHANGED <<slots, held, call, timers>>
  BY DEF Monitor, CreateEvent, PollReturns, ExecuteTask, NoMore, ReadEvent, Rescan,
         ReadTimer, table, callers, kernel
<1>2. \A c \in Caller : Holding(c)'
  BY <1>1 DEF TInv, Holding
<1>3. CASE CreateEvent \/ ExecuteTask \/ NoMore \/ ReadEvent
  BY <1>1, <1>2, <1>3, SlotOne DEF CreateEvent, ExecuteTask, NoMore, ReadEvent, table, kernel,
     TInv, TypeOK
<1>4. CASE PollReturns
  BY <1>1, <1>2, <1>4 DEF PollReturns, table, kernel, TInv, TypeOK
<1>5. ASSUME NEW f \in Fd, ReadTimer(f) PROVE TInv'
  BY <1>1, <1>2, <1>5 DEF ReadTimer, table, kernel, TInv, TypeOK
<1>6. CASE Rescan
  <2>1. place \in Slot /\ slots[place].fd \in Fd \cup {NoFd}
    BY DEF TInv, TypeOK
  <2>2. polled' \in SUBSET Fd /\ due' \in SUBSET polled'
    BY <1>6, <2>1 DEF Rescan, TInv, TypeOK
  <2>3. place' \in Slot /\ mon' \in {"poll", "scan"}
    BY <1>6, <2>1, TimerAssumption DEF Rescan, Slot
  <2> QED
    BY <1>1, <1>2, <1>6, <2>2, <2>3 DEF Rescan, table, kernel, TInv, TypeOK
<1> QED
  BY <1>3, <1>4, <1>5, <1>6 DEF Monitor

LEMMA NextTInv == TInv /\ [Next]_vars => TInv'
<1> SUFFICES ASSUME TInv, [Next]_vars PROVE TInv'
  OBVIOUS
<1>1. CASE UNCHANGED vars
  BY <1>1 DEF vars, table, callers, monitor, kernel, TInv, TypeOK, Holding
<1> QED
  BY <1>1, RegisterRemoveType, WorkType, MonitorType DEF Next

\* Every variable keeps its type, whatever the callers do: a place of the table
\* is filled with the descriptor of a timer that was made.
THEOREM TypeCorrect == Spec => []TypeOK
<1>1. TInv => TypeOK
  BY DEF TInv
<1> QED
  BY <1>1, TypeInit, NextTInv, PTL DEF Spec

-----------------------------------------------------------------------------
(***************************************************************************)
(* The table, with a single caller.                                        *)
(***************************************************************************)
OneCaller == \E c \in Caller : Caller = {c}

\* The place names an open timer and the task it was made for.
Settled(i) ==
  slots[i].fd # NoFd => slots[i].task \in Task /\ timers[slots[i].fd] = slots[i].task

\* Every place but the one a call is changing is settled, no two have the same
\* descriptor, and a call knows what it is about: the timer it has made is open
\* and not yet in the table, the place it fills is free, the one it clears has
\* the descriptor it looked for.
TableInv(c) ==
  /\ \A i \in Slot : (call[c].op \in {"func", "clear"} /\ i = call[c].i) \/ Settled(i)
  /\ \A i, k \in Slot : i # k /\ slots[i].fd # NoFd => slots[k].fd # slots[i].fd
  /\ call[c].op \in {"find", "fill"} =>
       /\ timers[call[c].fd] = call[c].t
       /\ \A i \in Slot : slots[i].fd # call[c].fd
  /\ call[c].op = "fill" => slots[call[c].i].fd = NoFd
  /\ call[c].op = "func" =>
       slots[call[c].i].fd = call[c].fd /\ timers[call[c].fd] = call[c].t

\* A timer that has been read is in the table, unless that has been changed.
ReadInv == mon = "read" /\ Quiet => \E i \in Slot : slots[i] = [fd |-> current, task |-> owner]

LEMMA TableInit ==
  ASSUME Init, NEW c \in Caller PROVE TableInv(c) /\ ReadInv
BY DEF Init, TableInv, Settled, ReadInv, Idle

LEMMA TableRegister ==
  ASSUME TInv, NEW c \in Caller, TableInv(c), NEW t \in Task, Register(c, t)
  PROVE  TableInv(c)'
<1>1. /\ UNCHANGED slots /\ call[c].op = "idle" /\ call \in [Caller -> Call]
      /\ timers \in [Fd -> Task \cup {None, Unarmed}] /\ None \notin Task
      /\ \A i \in Slot : Settled(i) /\ slots[i].fd \in Fd \cup {NoFd}
  BY TimerAssumption DEF Register, MayCall, Idle, table, TInv, TypeOK, TableInv
<1>2. ASSUME NEW f \in Fd, timers[f] = None, NEW v, timers' = [timers EXCEPT ![f] = v]
      PROVE  (\A i \in Slot : Settled(i)') /\ (\A i \in Slot : slots'[i].fd # f \/ f = NoFd) /\ timers'[f] = v
  BY <1>1, <1>2 DEF Settled
<1>3. CASE UNCHANGED <<timers, call>>
  BY <1>1, <1>3 DEF TableInv, Settled
<1>4. ASSUME NEW f \in Fd, timers[f] = None, timers' = [timers EXCEPT ![f] = Unarmed], UNCHANGED call
      PROVE  TableInv(c)'
  BY <1>1, <1>2, <1>4 DEF TableInv
<1>5. ASSUME NEW f \in Fd, timers[f] = None, timers' = [timers EXCEPT ![f] = t],
             call' = [call EXCEPT ![c] = [op |-> "find", t |-> t, fd |-> f, i |-> 1]]
      PROVE  TableInv(c)'
  <2>1. call'[c] = [op |-> "find", t |-> t, fd |-> f, i |-> 1] /\ f # NoFd
    BY <1>1, <1>5, TimerAssumption DEF NoFd
  <2> QED
    BY <1>1, <1>2, <1>5, <2>1 DEF TableInv
<1> QED
  BY <1>3, <1>4, <1>5 DEF Register

LEMMA TableRemove ==
  ASSUME TInv, NEW c \in Caller, TableInv(c), NEW t \in Task, Remove(c, t)
  PROVE  TableInv(c)'
<1>1. /\ UNCHANGED <<slots, timers>> /\ call[c].op = "idle" /\ call'[c].op = "seek"
  BY DEF Remove, MayCall, Idle, table, kernel, TInv, TypeOK
<1> QED
  BY <1>1 DEF TableInv, Settled

LEMMA TableWork ==
  ASSUME TInv, NEW c \in Caller, TableInv(c), Work(c)
  PROVE  TableInv(c)'
<1>1. /\ call \in [Caller -> Call] /\ call[c] \in Call /\ call[c].i \in Slot /\ Holding(c)
      /\ slots \in [Slot -> [fd : Fd \cup {NoFd}, task : Task \cup {None}]]
      /\ timers \in [Fd -> Task \cup {None, Unarmed}] /\ None \notin Task
      /\ Fd \in SUBSET Nat
  BY TimerAssumption DEF TInv, TypeOK, Call
<1>2. ASSUME NEW op, Goto(c, op)
      PROVE  call'[c].op = op /\ call'[c].i = call[c].i /\ call'[c].fd = call[c].fd
             /\ call'[c].t = call[c].t
  BY <1>1, <1>2 DEF Goto, Call
<1>3. Return(c) => call'[c].op = "idle"
  BY <1>1 DEF Return, Idle
<1>4. CASE Find(c)
  <2>1. UNCHANGED slots /\ call[c].op = "find" /\ call[c].fd \in Fd /\ call[c].t \in Task
    BY <1>1, <1>4 DEF Find, table, Holding
  <2>2. CASE slots[call[c].i].fd = NoFd /\ Goto(c, "fill") /\ UNCHANGED timers
    BY <1>2, <2>1, <2>2 DEF TableInv, Settled
  <2>3. CASE call' = [call EXCEPT ![c].i = call[c].i + 1] /\ UNCHANGED timers
    <3>1. call'[c].op = "find" /\ call'[c].fd = call[c].fd /\ call'[c].t = call[c].t
      BY <1>1, <2>1, <2>3 DEF Call
    <3> QED
      BY <2>1, <2>3, <3>1 DEF TableInv, Settled
  <2>4. CASE CloseFd(call[c].fd) /\ Return(c)
    <3>1. \A i \in Slot : slots[i].fd # NoFd => timers'[slots[i].fd] = timers[slots[i].fd]
      BY <1>1, <2>1, <2>4 DEF CloseFd, TableInv
    <3> QED
      BY <1>3, <2>1, <2>4, <3>1 DEF TableInv, Settled
  <2> QED
    BY <1>4, <2>2, <2>3, <2>4 DEF Find
<1>5. CASE Fill(c)
  <2>1. /\ call[c].op = "fill" /\ call[c].fd \in Fd /\ call[c].t \in Task /\ UNCHANGED timers
        /\ call'[c].op = "func" /\ call'[c].i = call[c].i /\ call'[c].fd = call[c].fd
        /\ call'[c].t = call[c].t
    BY <1>1, <1>2, <1>5 DEF Fill, kernel, Holding
  <2>2. /\ slots'[call[c].i].fd = call[c].fd
        /\ \A i \in Slot \ {call[c].i} : slots'[i] = slots[i]
    BY <1>1, <1>5 DEF Fill
  <2> QED
    BY <1>1, <2>1, <2>2 DEF TableInv, Settled
<1>6. CASE Func(c)
  <2>1. /\ call[c].op = "func" /\ call[c].fd \in Fd /\ call[c].t \in Task /\ UNCHANGED timers
        /\ call'[c].op = "notify"
    BY <1>1, <1>2, <1>6 DEF Func, kernel, Holding
  <2>2. /\ slots'[call[c].i].fd = slots[call[c].i].fd /\ slots'[call[c].i].task = call[c].t
        /\ \A i \in Slot \ {call[c].i} : slots'[i] = slots[i]
    BY <1>1, <1>6 DEF Func
  <2> QED
    BY <1>1, <2>1, <2>2 DEF TableInv, Settled
<1>7. CASE Notify(c)
  BY <1>3, <1>7 DEF Notify, table, TableInv, Settled
<1>8. CASE Seek(c)
  <2>1. UNCHANGED <<slots, timers>> /\ call[c].op = "seek" /\ call'[c].op \in {"close", "seek", "idle"}
    BY <1>1, <1>2, <1>3, <1>8 DEF Seek, table, kernel, Call
  <2> QED
    BY <2>1 DEF TableInv, Settled
<1>9. CASE Close(c)
  <2>1. UNCHANGED slots /\ call[c].op = "close" /\ call'[c].op = "clear" /\ call'[c].i = call[c].i
    BY <1>2, <1>9 DEF Close, table
  <2>2. \A i \in Slot \ {call[c].i} : slots[i].fd # NoFd => timers'[slots[i].fd] = timers[slots[i].fd]
    BY <1>1, <1>9 DEF Close, CloseFd, TableInv
  <2> QED
    BY <2>1, <2>2 DEF TableInv, Settled
<1>10. CASE Clear(c)
  <2>1. UNCHANGED timers /\ call[c].op = "clear" /\ call'[c].op = "notify"
    BY <1>2, <1>10 DEF Clear, kernel
  <2>2. /\ slots'[call[c].i].fd = NoFd
        /\ \A i \in Slot \ {call[c].i} : slots'[i] = slots[i]
    BY <1>1, <1>10 DEF Clear
  <2> QED
    BY <1>1, <2>1, <2>2 DEF TableInv, Settled
<1> QED
  BY <1>4, <1>5, <1>6, <1>7, <1>8, <1>9, <1>10 DEF Work

LEMMA TableMonitor ==
  ASSUME NEW c \in Caller, TableInv(c), Monitor
  PROVE  TableInv(c)'
<1>1. UNCHANGED <<slots, call, timers>>
  BY DEF Monitor, CreateEvent, PollReturns, ExecuteTask, NoMore, ReadEvent, Rescan,
         ReadTimer, table, callers, kernel
<1> QED
  BY <1>1 DEF TableInv, Settled

LEMMA TableNext ==
  ASSUME NEW c \in Caller, Caller = {c}, TInv, TableInv(c), [Next]_vars
  PROVE  TableInv(c)'
<1>1. CASE UNCHANGED vars
  BY <1>1 DEF vars, table, callers, kernel, TableInv, Settled
<1> QED
  BY <1>1, TableRegister, TableRemove, TableWork, TableMonitor DEF Next

\* With a single caller, the table names open timers, each with the function of
\* the task it was made for, and none twice, whenever the caller is not just
\* changing it: also after registrations that found no place, timers that the
\* kernel did not start, and removals by a number that was never set.
THEOREM TableStaysSound ==
  ASSUME OneCaller PROVE Spec => []TableSound
<1>1. PICK c \in Caller : Caller = {c}
  BY DEF OneCaller
<1>2. Init => TInv /\ TableInv(c)
  BY TypeInit, TableInit
<1>3. TInv /\ TableInv(c) /\ [Next]_vars => TInv' /\ TableInv(c)'
  BY <1>1, NextTInv, TableNext
<1>4. TInv /\ TableInv(c) => TableSound
  BY <1>1 DEF TableInv, TableSound, Settled, Unchanging
<1> QED
  BY <1>2, <1>3, <1>4, PTL DEF Spec

LEMMA ReadNext ==
  ASSUME MonitorFirst, NEW c \in Caller, Caller = {c},
         TInv, IInv, TableInv(c), ReadInv, [Next]_vars
  PROVE  ReadInv'
<1>1. CASE UNCHANGED vars
  BY <1>1 DEF vars, table, callers, monitor, kernel, ReadInv, Quiet, Unchanging
<1>2. CASE \E t \in Task : Register(c, t) \/ Remove(c, t)
  <2>1. UNCHANGED <<eventFd, slots, mon, current, owner, signal>> /\ call[c].op = "idle"
    BY <1>2 DEF Register, Remove, MayCall, Idle, table, monitor, kernel
  <2> QED
    BY <1>1, <2>1 DEF ReadInv, Quiet, Unchanging
<1>3. CASE Work(c)
  <2>1. UNCHANGED <<eventFd, mon, current, owner>> /\ call \in [Caller -> Call]
    BY <1>3 DEF Work, Find, Fill, Func, Notify, Seek, Close, Clear, table, monitor, TInv, TypeOK
  <2>2. CASE Find(c) \/ Seek(c)
    BY <2>1, <2>2 DEF Find, Seek, table, kernel, ReadInv, Quiet, Unchanging
  <2>3. CASE Fill(c) \/ Func(c) \/ Close(c) \/ Clear(c)
    <3>1. call'[c].op \in {"func", "notify", "clear"}
      BY <2>1, <2>3 DEF Fill, Func, Close, Clear, Goto, Call
    <3> QED
      BY <3>1 DEF ReadInv, Quiet, Unchanging
  <2>4. CASE Notify(c)
    BY <2>1, <2>4 DEF Notify, ReadInv, Quiet
  <2> QED
    BY <1>3, <2>2, <2>3, <2>4 DEF Work
<1>4. CASE Monitor
  <2>1. CASE CreateEvent \/ PollReturns \/ ExecuteTask \/ NoMore \/ ReadEvent \/ Rescan
    BY <2>1 DEF CreateEvent, PollReturns, ExecuteTask, NoMore, ReadEvent, Rescan, ReadInv
  <2>2. ASSUME NEW f \in Fd, ReadTimer(f) PROVE ReadInv'
    <3>1. UNCHANGED <<table, callers, signal>> /\ mon = "handle" /\ f \in due
      BY <2>2 DEF ReadTimer, kernel
    <3>2. SUFFICES ASSUME mon' = "read", Quiet'
                   PROVE  \E i \in Slot : slots[i] = [fd |-> current', task |-> owner']
      BY <3>1 DEF ReadInv, table
    <3>3. Quiet /\ current' = f /\ owner' = timers[f] /\ timers[f] \in Task
      BY <2>2, <3>1, <3>2 DEF ReadTimer, Quiet, Unchanging, table, callers
    <3>4. f \in Registered
      BY <3>1, <3>3 DEF IInv, UpToDate, TInv, TypeOK
    <3>5. PICK i \in Slot : slots[i].fd = f /\ f # NoFd
      BY <3>4 DEF Registered
    <3>6. slots[i].task = timers[f]
      BY <3>3, <3>5 DEF TableInv, Settled, Quiet, Unchanging
    <3>7. slots[i] \in [fd : Fd \cup {NoFd}, task : Task \cup {None}]
      BY DEF TInv, TypeOK
    <3> QED
      BY <3>3, <3>5, <3>6, <3>7
  <2> QED
    BY <1>4, <2>1, <2>2 DEF Monitor
<1> QED
  BY <1>1, <1>2, <1>3, <1>4 DEF Next

\* The function that is started belongs to the task whose timer was read, unless
\* the table has been changed since: with a single caller, who does not call
\* before the monitor has created its event descriptor.
THEOREM RightFunctionStarted ==
  ASSUME OneCaller, MonitorFirst PROVE Spec => []RightTask
<1>1. PICK c \in Caller : Caller = {c}
  BY DEF OneCaller
<1>2. Init => TInv /\ IInv /\ TableInv(c) /\ ReadInv
  BY TypeInit, TableInit, InitIInv
<1>3. TInv /\ IInv /\ TableInv(c) /\ ReadInv /\ [Next]_vars
      => TInv' /\ IInv' /\ TableInv(c)' /\ ReadInv'
  BY <1>1, NextTInv, NextIInv, TableNext, ReadNext
<1>4. ReadInv => RightTask
  BY DEF ReadInv, RightTask
<1> QED
  BY <1>2, <1>3, <1>4, PTL DEF Spec
==============================================================================
