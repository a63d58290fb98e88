------------------------------ MODULE TimerTask ------------------------------
(***************************************************************************)
(* The timer tasks of tools/timer/timer.c: a table of tasks, each with a   *)
(* timer descriptor; callers that register and remove tasks; and the       *)
(* monitoring thread that polls the descriptors, reads those that have     *)
(* expired and starts a thread for each.  Callers and monitor share the    *)
(* table without a lock and meet through an event descriptor only.         *)
(***************************************************************************)
EXTENDS Integers, FiniteSets

CONSTANTS
  Caller,       \* threads that register and remove tasks
  Task,         \* the tasks: struct TimerTask objects of the callers
  Fd,           \* the file descriptors, of which the kernel gives the lowest
  MaxTask,      \* MAX_TASK
  MaxRejected,  \* bound: timers that the kernel refuses to start
  MonitorFirst  \* do callers wait until the monitor runs, as test_timer does?

NoFd == -1
Garbage == -2
None == "none"
Unarmed == "unarmed"

ASSUME TimerAssumption ==
  /\ Fd \in SUBSET Nat
  /\ Task \cap {None, Unarmed} = {}
  /\ MaxTask \in Nat \ {0}
  /\ MaxRejected \in Nat
  /\ MonitorFirst \in BOOLEAN

VARIABLES
  \* timer.c
  eventFd,  \* s_EventFd has been created (before, it is 0: standard input)
  slots,    \* s_stTimerTask: the descriptor and the function of each place
  \* the callers
  held,     \* tm_fd of the callers' structures
  call,     \* the call in progress
  \* the monitor
  mon,      \* where it is
  place,    \* the place of the table it reads next
  polled,   \* timerfds
  due,      \* those whose POLLIN it has still to handle
  woken,    \* POLLIN of the event descriptor
  current,  \* the descriptor it has read
  \* the kernel
  signal,   \* the event descriptor can be read
  timers,   \* what each descriptor stands for
  \* history
  owner     \* the task whose timer the monitor has read

table == <<eventFd, slots>>
callers == <<held, call>>
monitor == <<mon, place, polled, due, woken, current, owner>>
kernel == <<signal, timers>>
vars == <<table, callers, monitor, kernel>>

Slot == 1 .. MaxTask
Idle == [op |-> "idle", t |-> None, fd |-> NoFd, i |-> 1]
Ops == {"idle", "find", "fill", "func", "notify", "seek", "close", "clear"}
Call == [op : Ops, t : Task \cup {None}, fd : Fd \cup {NoFd, Garbage}, i : Slot]

TypeOK ==
  /\ eventFd \in BOOLEAN
  /\ slots \in [Slot -> [fd : Fd \cup {NoFd}, task : Task \cup {None}]]
  /\ held \in [Task -> Fd \cup {Garbage}]
  /\ call \in [Caller -> Call]
  /\ mon \in {"start", "poll", "handle", "read", "scan"} /\ place \in Slot
  /\ polled \in SUBSET Fd /\ due \in SUBSET polled
  /\ woken \in BOOLEAN
  /\ current \in Fd \cup {NoFd} /\ owner \in Task \cup {None}
  /\ signal \in BOOLEAN
  /\ timers \in [Fd -> Task \cup {None, Unarmed}]

\* Timer_InitTaskList; the structures of the callers are not initialized.
Init ==
  /\ eventFd = FALSE
  /\ slots = [i \in Slot |-> [fd |-> NoFd, task |-> None]]
  /\ held = [t \in Task |-> Garbage]
  /\ call = [c \in Caller |-> Idle]
  /\ mon = "start" /\ place = 1 /\ polled = {} /\ due = {} /\ woken = FALSE
  /\ current = NoFd /\ owner = None
  /\ signal = FALSE
  /\ timers = [f \in Fd |-> None]

-----------------------------------------------------------------------------
(***************************************************************************)
(* Timer_RegisterTask and Timer_RemoveTask.                                *)
(***************************************************************************)
Goto(c, op) == call' = [call EXCEPT ![c].op = op]
Return(c) == call' = [call EXCEPT ![c] = Idle]
MayCall(c, t) ==
  /\ call[c] = Idle
  /\ \A d \in Caller : call[d].t # t
  /\ MonitorFirst => eventFd

\* A timer is created and started.  If the kernel rejects the time, or has no
\* descriptor left, the caller does not learn of it; in the first case the
\* descriptor stays open.
Register(c, t) ==
  /\ MayCall(c, t)
  /\ \/ \E f \in Fd :
          /\ timers[f] = None /\ \A x \in Fd : x < f => timers[x] # None
          /\ \/ /\ timers' = [timers EXCEPT ![f] = t]
                /\ call' = [call EXCEPT ![c] = [op |-> "find", t |-> t, fd |-> f, i |-> 1]]
             \/ /\ Cardinality({x \in Fd : timers[x] = Unarmed}) < MaxRejected
                /\ timers' = [timers EXCEPT ![f] = Unarmed]
                /\ UNCHANGED call
     \/ /\ \A f \in Fd : timers[f] # None
        /\ UNCHANGED <<timers, call>>
  /\ UNCHANGED <<table, held, monitor, signal>>

\* The descriptor is closed, and free for the next timer.
CloseFd(f) == timers' = [x \in Fd |-> IF x = f THEN None ELSE timers[x]]

\* A free place, looked for one by one.
Find(c) ==
  LET i == call[c].i
  IN /\ call[c].op = "find"
     /\ \/ /\ slots[i].fd = NoFd
           /\ Goto(c, "fill")
           /\ UNCHANGED timers
        \/ /\ slots[i].fd # NoFd /\ i < MaxTask
           /\ call' = [call EXCEPT ![c].i = i + 1]
           /\ UNCHANGED timers
        \/ /\ slots[i].fd # NoFd /\ i = MaxTask
           /\ CloseFd(call[c].fd)
           /\ Return(c)
     /\ UNCHANGED <<table, held, monitor, signal>>

\* Mutant of Fill: the function is not stored.
FillOnly(c) ==
  /\ call[c].op = "fill"
  /\ held' = [held EXCEPT ![call[c].t] = call[c].fd]
  /\ slots' = [slots EXCEPT ![call[c].i].fd = call[c].fd]
  /\ Goto(c, "notify")
  /\ UNCHANGED <<eventFd, monitor, kernel>>

\* First the descriptor,
Fill(c) ==
  /\ call[c].op = "fill"
  /\ held' = [held EXCEPT ![call[c].t] = call[c].fd]
  /\ slots' = [slots EXCEPT ![call[c].i].fd = call[c].fd]
  /\ Goto(c, "func")
  /\ UNCHANGED <<eventFd, monitor, kernel>>

\* then the function and its argument.
Func(c) ==
  /\ call[c].op = "func"
  /\ slots' = [slots EXCEPT ![call[c].i].task = call[c].t]
  /\ Goto(c, "notify")
  /\ UNCHANGED <<eventFd, held, monitor, kernel>>

\* Timer_Notify: lost unless the monitor has created the event descriptor.
Notify(c) ==
  /\ call[c].op = "notify"
  /\ signal' = (signal \/ eventFd)
  /\ Return(c)
  /\ UNCHANGED <<table, held, monitor, timers>>

\* tm_fd of the structure is whatever it was, if no registration has succeeded.
Remove(c, t) ==
  /\ MayCall(c, t)
  /\ \E f \in Fd \cup {NoFd, Garbage} :
        /\ held[t] # Garbage => f = held[t]
        /\ call' = [call EXCEPT ![c] = [op |-> "seek", t |-> t, fd |-> f, i |-> 1]]
  /\ UNCHANGED <<table, held, monitor, kernel>>

\* The place that has this descriptor.
Seek(c) ==
  LET i == call[c].i
  IN /\ call[c].op = "seek"
     /\ \/ slots[i].fd = call[c].fd /\ Goto(c, "close")
        \/ /\ slots[i].fd # call[c].fd /\ i < MaxTask
           /\ call' = [call EXCEPT ![c].i = i + 1]
        \/ slots[i].fd # call[c].fd /\ i = MaxTask /\ Return(c)
     /\ UNCHANGED <<table, held, monitor, kernel>>

Close(c) ==
  /\ call[c].op = "close"
  /\ CloseFd(slots[call[c].i].fd)
  /\ Goto(c, "clear")
  /\ UNCHANGED <<table, held, monitor, signal>>

\* Mutants of Clear: the monitor is not told; the place is not freed.
ClearSilent(c) ==
  /\ call[c].op = "clear"
  /\ slots' = [slots EXCEPT ![call[c].i].fd = NoFd]
  /\ Return(c)
  /\ UNCHANGED <<eventFd, held, monitor, kernel>>
ClearNot(c) ==
  /\ call[c].op = "clear"
  /\ Goto(c, "notify")
  /\ UNCHANGED <<table, held, monitor, kernel>>

Clear(c) ==
  /\ call[c].op = "clear"
  /\ slots' = [slots EXCEPT ![call[c].i].fd = NoFd]
  /\ Goto(c, "notify")
  /\ UNCHANGED <<eventFd, held, monitor, kernel>>

Work(c) == Find(c) \/ Fill(c) \/ Func(c) \/ Notify(c) \/ Seek(c) \/ Close(c) \/ Clear(c)

-----------------------------------------------------------------------------
(***************************************************************************)
(* Timer_MonitorTask.                                                      *)
(***************************************************************************)
\* Tasks registered before this are not looked at until the next event.
CreateEvent ==
  /\ mon = "start"
  /\ eventFd' = TRUE
  /\ mon' = "poll"
  /\ UNCHANGED <<slots, callers, place, polled, due, woken, current, owner, kernel>>

\* poll returns: some timers have expired, or there is an event.
PollReturns ==
  /\ mon = "poll"
  /\ due' \in SUBSET {f \in polled : timers[f] \in Task}
  /\ woken' = signal
  /\ due' # {} \/ woken'
  /\ mon' = "handle"
  /\ UNCHANGED <<table, callers, place, polled, current, owner, kernel>>

\* Timer_HandleTask: a descriptor that has been closed meanwhile cannot be
\* read.  One that has been closed and opened again for another timer can, and
\* the read waits for it: if that timer was never started, for ever.
ReadTimer(f) ==
  /\ mon = "handle" /\ f \in due
  /\ \/ /\ timers[f] \in Task
        /\ mon' = "read" /\ current' = f /\ owner' = timers[f]
     \/ /\ timers[f] = None
        /\ UNCHANGED <<mon, current, owner>>
  /\ due' = due \ {f}
  /\ UNCHANGED <<table, callers, place, polled, woken, kernel>>

\* The timer expires, if it has not yet, even if it is closed once more.
\* Timer_ExecuteTask starts the function found under the descriptor, in a
\* thread of its own which is of no further concern here.
ExecuteTask ==
  /\ mon = "read"
  /\ mon' = "handle" /\ current' = NoFd /\ owner' = None
  /\ UNCHANGED <<table, callers, place, polled, due, woken, kernel>>

\* Mutant of NoMore: the event is left for later.
NoMoreYet ==
  /\ mon = "handle" /\ due = {}
  /\ mon' = "poll"
  /\ UNCHANGED <<table, callers, place, polled, due, woken, current, owner, kernel>>

NoMore ==
  /\ mon = "handle" /\ due = {} /\ ~woken
  /\ mon' = "poll"
  /\ UNCHANGED <<table, callers, place, polled, due, woken, current, owner, kernel>>

\* The event is taken, then the table is read place by place.
ReadEvent ==
  /\ mon = "handle" /\ due = {} /\ woken
  /\ signal' = FALSE
  /\ woken' = FALSE
  /\ polled' = {}
  /\ mon' = "scan" /\ place' = 1
  /\ UNCHANGED <<table, callers, due, current, owner, timers>>

\* Mutant of Rescan: one place too far.
RescanFar ==
  /\ mon = "scan"
  /\ polled' = polled \cup ({slots[place].fd} \ {NoFd})
  /\ IF place <= MaxTask THEN place' = place + 1 /\ UNCHANGED mon
                         ELSE mon' = "poll" /\ UNCHANGED place
  /\ UNCHANGED <<table, callers, due, woken, current, owner, kernel>>

Rescan ==
  /\ mon = "scan"
  /\ polled' = polled \cup ({slots[place].fd} \ {NoFd})
  /\ IF place < MaxTask THEN place' = place + 1 /\ UNCHANGED mon
                       ELSE mon' = "poll" /\ UNCHANGED place
  /\ UNCHANGED <<table, callers, due, woken, current, owner, kernel>>

Monitor ==
  \/ CreateEvent \/ PollReturns \/ ExecuteTask \/ NoMore \/ ReadEvent \/ Rescan
  \/ \E f \in Fd : ReadTimer(f)

-----------------------------------------------------------------------------
Next ==
  \/ \E c \in Caller, t \in Task : Register(c, t) \/ Remove(c, t)
  \/ \E c \in Caller : Work(c)
  \/ Monitor

\* The monitor runs, and calls that have begun go on.
Fairness == WF_vars(Monitor) /\ \A c \in Caller : WF_vars(Work(c))

Spec == Init /\ [][Next]_vars
FairSpec == Spec /\ Fairness

-----------------------------------------------------------------------------
(***************************************************************************)
(* Properties.                                                             *)
(***************************************************************************)
Registered == {slots[i].fd : i \in Slot} \ {NoFd}

\* No change is being made; none has been made that the monitor does not know.
Unchanging == \A c \in Caller : call[c].op \notin {"func", "clear", "notify"}
Quiet == Unchanging /\ ~signal /\ eventFd

\* The monitor polls exactly the descriptors of the table, unless a change is
\* being made or has just been notified: no change is ever forgotten
\* (Timer_Notify, Timer_MonitorTask).
PollsAll == mon = "poll" /\ Quiet => polled = Registered

\* The table, as long as nobody is changing it, names open timers, each with the
\* function of the task it was made for, and none twice (Timer_RegisterTask,
\* Timer_RemoveTask).
TableSound ==
  Unchanging =>
    \A i \in Slot : slots[i].fd # NoFd =>
      /\ timers[slots[i].fd] = slots[i].task
      /\ \A k \in Slot \ {i} : slots[k].fd # slots[i].fd

\* The function that is started belongs to the task whose timer has expired,
\* unless the table has been changed since the timer was read: the descriptor
\* may have been given away again (Timer_HandleTask, Timer_ExecuteTask).
RightTask ==
  mon = "read" /\ Quiet => \E i \in Slot : slots[i] = [fd |-> current, task |-> owner]

\* A notified change reaches the monitor, however the descriptors that it still
\* has to read are closed and given away meanwhile, unless one of them is that
\* of a timer that never started (Timer_HandleTask).
Stalled == \E f \in due : timers[f] = Unarmed
EventTaken == signal ~> ~signal \/ Stalled
=============================================================================
