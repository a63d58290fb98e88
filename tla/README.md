# Verification of the control board firmware (ctrl_board, "7u_rx")

TLA+ models of the receiver control board's software, TLC configurations that
check them on small instances, and TLAPS proofs of the main results for every
instance. Paths are relative to the repository; line numbers are those of the
sources as they stand.

Contents: 1 the system, 2 the modules and the code, 3 the runs, 4 disagreements
found, 5 fairness, 6 the proofs, 7 what is not modelled, 8 the plan.

To repeat a check: `tlc -config SlotTwo.cfg MCCamSlot`, `tlapm CamSlot_proofs.tla`.

## 1. The system

The firmware is a set of C libraries in one process. Concurrency is POSIX
threads. The repository defines the bodies of the threads but starts few of
them itself: `WVCI_TaskMonitoring` and `WVCI_TaskProcess` (`ci/WV_CI.c`) serve
the common interface (CI), `Timer_MonitorTask` (`tools/timer/timer.c`) serves
the timers, a web server calls `WVCI_MMI_CommandProcess`, and `Tuner_process`
(`tuner/tuner.c`) locks the tuners. Persistent are the XML configuration files,
the files of the tuners' parameters, and the real-time clock.
`src/src/CMakeLists.txt` has the CI and the tuners commented out at this commit;
they are nevertheless the program's own core logic, and the CI stack is the part
where most can go wrong.

| component | state | operations | interacts with | what is hard |
|---|---|---|---|---|
| CI session layer and resources (`ci/ci.c`, `CI_ResMgr.c`, `CI_AppInfo.c`, `CI_CaSupport.c`, `CI_DateTime.c`, `CI_MMI.c`) | `CiSessions`, one session variable per resource | `Parse_SPDU`, Connect, Data and Close of a resource, `CI_MMI_*`, `CaSupport_SendPMT` | the link below, the callback above, other threads from the side | sessions closed or reused while another thread is about to send on them; refusals after grants; data that cross either; sessions dropped by a reset |
| CI transport and link (`ci/ci.c`, `ci/ci_l2.c`) | send queue of 120 frames, `fRXPending`, `fGotPollAck`, buffers of parts | `SendTransportPacket`, `CI_WriteData`, `CI_CheckSlot`, `Parse_TPDU` | the module's registers, the mutex, the session layer | full queue, frames of two messages, alternation of poll and answer, memory cleared and a buffer size agreed on without the mutex |
| slots and the monitoring task (`ci/WV_CI.c`, `WVCI_PlatformDriver.c`, `ci_l2.c`) | slot states, last register value, capture flag | `WVCI_TaskMonitoring`, `CIMax_CheckSlot`, `STATUS_ResetCAM` | the FPGA register, the link | modules plugged and pulled at any step; resets without a removal; two readings of one register |
| CA PMT selection (`ci/WV_CI.c`, `CI_CaSupport.c`) | list of CA systems, requests, last program | `WVCI_PMTCheck`, `WVCI_UpdateSetting`, `WVCI_GenerateCAPMT`, `CaSupport_Data` | both tasks, the TS library, the link | a list that is rebuilt while it is used; a request cleared after it was repeated; FIRST, MORE, LAST; lengths at 127, 128, 254 and 255 |
| MMI user interface (`ci/WV_CI.c`, `WVCI_GUI.c`) | `g_stMMIInfo`, menu level, PIN flag | `WVCI_MMI_CommandProcess`, `WVCI_MMI_UpdateInfo`, `WVCI_GUIParseMessage` | both slots and two threads share it | an answer before the wait for it; a PIN for the other slot |
| translation of a PMT (`ci/WV_CI.c`, `CI_PMT.c`, `CI_PMTDec.c`) | - | `WVCI_GenerateCAPMT`, `CI_ProInfo_GetDescriptor`, `CI_ESInfo_GetESDescriptor` | selection | lengths of more than a byte; a command only before the first descriptor; streams that may not be scrambled |
| PCMCIA (`ci/PCMCIA.c`) | - | reading tuples | slots | malformed data |
| timer tasks (`tools/timer/timer.c`) | `s_stTimerTask`, `s_EventFd` | register, remove, monitor, execute | timerfd, eventfd, poll | a table without a lock; descriptors that are closed and given away again |
| the rest of `tools/` | eventfd, mutex, log buffer | wrappers | everything | the log buffer is shared |
| registers and buses (`drivers/`) | mapped registers, table of I2C buses | read, write, open, close | hardware | - |
| network (`net/`) | interface list, UDP sockets | set, get, send, receive | kernel | - |
| real-time clock (`drivers/ds1338/`) | the chip's registers, the caller's structure | `ds1338_SetTime`, `ds1338_GetTime`, `ds1338_SyncToSystem` | I2C, Linux | registers are written and read one by one while the chip goes on; BCD, two hour systems, struct tm |
| XML configuration (`xml/`) | document, file | load, change, write through a temporary file | file system | two writers share the temporary file; the power fails between two steps |
| tuners (`tuner/`) | parameters, the task's copies of them, lock states, files | `Tuner_process`, `Tuner_SetParam`, `Tuner_SetDefaultParam` | I2C, file system | parameters changed, field by field and without a lock, while they are compared, copied and searched for |

What makes each of them correct, at which line it may fail, and which property
would show it, is the list of hazards in `PROJECT.json`.

The pieces that are modelled fit together as follows.

    web thread --> CiSession <--> CiLink <--> the module
                    ^   |           |            ^
                    |   v           v            |
      process task: CaPmt        CamSlot --------+   monitoring task
                      \--> PmtBuild --> PmtFrames --> frames

    TimerTask      TunerLoop      RtcClock      XmlFile --> AtomicFile

`CiSession` takes the link as two FIFOs without loss; `CiLink` shows that the
link is one (`CiChannel`) as long as its queue does not overflow. `CamSlot` takes
what happens on the link as a choice of outcomes. `CaPmt` takes session and link
as open or closed; what a CA PMT says is in `PmtBuild`, how long its parts are on
the way in `PmtFrames`. `TimerTask`, `TunerLoop`, `RtcClock` and `XmlFile` are
independent of the CI and of one another, as the code is.

## 2. The modules and the code

Every definition that stands for code is listed with its lines in `PROJECT.json`
("map"). A definition that stands beside another and has its name and a suffix
(`CloseSessionHalf`, `PollForgetful`, ...) is a mutant: a plausible bug in that
code, with which the property named in "mutants" fails. Mutants are not part of
any specification.

**`CiSession`** - one slot's session layer. `fSlotInUse`, `pResource` and
`wSessionID` are the columns of `CiSessions`; `session[h]` are the session
variables of the resources (`dwCASupportSession`, `dwMMISession`, ...); `atRoot`
is the menu level. `HostParse` is `Parse_SPDU` with the resource functions it
calls, one SPDU per step, as the task runs it: an open request ends in one of
`OutOfSessions`, `UnknownResource`, `Connected`, `Refused`; data in one of
`DataAnswered`, `DataTimeEnquiry`, `DataMenu`, `DataCloseMmi`,
`DataRequestReset`, or are ignored. The web and PMT threads take one step for
each access to what they share with the task (`UiTest`, `UiRead`, `UiSend`,
`UiSetLevel`; `PmtTest`, `PmtRead`, `PmtSend`). `ModuleInserted`,
`ModuleRemoved`, `ConfigFails` and `ResetCAM` are what the slot does to the
session layer. The module behaves as EN 50221 has it: it waits for answers, sends
on the sessions it was granted and answers close requests. Messages carry a kind
(`d`), no payload; on data of the module, `r` records which resource it is meant
for, which the wire does not. `SendDateTime` is `DateTime_SendDateTime`, which is
exported (`CI_DateTime.h:32`) and has no caller in the repository.
*Constants:* `CrossingClose` says whether a module may close an MMI session that
the host is just asking it to close. If it may, the host sees two closes of one
number, and the second can hit its next user; EN 50221 does not rule it out. The
runs leave it out (FALSE). The theorems on the host's own state hold with both;
that the two sides agree (`AgreementReached`, `DataDelivered`) is proved without it.

**`CamSlot`** - all slots and the task that serves them. `task` is where
`WVCI_TaskMonitoring` is: `Poll` reads the register and remembers it (`last`);
`Scan` reads it again and `InsertCAM`, `RemoveCAM`, `NoEvent` act on that second
reading, slot by slot; `Check` is `CIMax_CheckSlot` up to the place where it
branches; `ReadOk`/`ReadFails`, `ConfigOk`/`ConfigFails` are the attempts in state
INSERTED; `Link*` are the ways through `CI_CheckSlot`. `ResetCAM` is
`STATUS_ResetCAM`. `Plug` and `Pull` come at any step, also while the task is
away reading another module for seconds. *Constants:* `TwoReadings` says whether
they may come between the two readings as well.

**`CiLink`, `CiChannel`** - one slot's link. On a thread, `SendTransportPacket` is
`Enter` (the test of the size), `Acquire` or `GiveUp` (the mutex, with its
time-out), and for each frame `CutFrame`, which reads the size anew, and
`PutFrame`, which is `CI_WriteData` and at last releases the mutex. The task in
`CI_CheckSlot` is `CheckSlot`, `NothingToRead`, the ways to read a frame
(`ReadOverrun`, `ReadNothing`, `ReadPart`, `ParseTpdu`, `ParseUnknown`), `Reply`,
`WriteFrame` (or `SendAfterAll`, `NothingToSend`, `WriteFails`), `PollDue` and
`SendPoll`, which happen on the two sides of the mutex, and `Again`. What the task
sends it stores in one step (`StoreAll`): it holds the mutex meanwhile and only
itself empties the queue. `ModuleInserted` and `ModuleRemoved` clear the structure
(`Memset`) without the mutex, also while a thread is sending. After an insertion
`CI_CheckConfig` agrees on the buffer size, which it keeps in the structure itself
and writes in pieces, without the mutex: `SizeComes` (the size of the offer),
`HighByte`, `LowByte`, `SizeAgreed` (the smaller of the two sides') or
`ConfigFails`; only then, under the mutex, `Configured` asks for the connection.
A message whose frame is in hand or in the queue when the size changes is counted
as `cut`, as is one that lost a frame to the full queue; `missed` says that the
host lost a frame of an answer, to a full buffer or an early return of
`Read_CI_T`. Both are history, for the properties. The module answers each message
(`CamTakes`); it never sends more parts than the host has room for
(`MaxParts`), so the assertions at `ci.c:578` and `ci.c:593` are not reached. A
`memset` and the search for a free place are one step each. The mutex is one for
both slots, and the task keeps it while it waits for a module to take a frame, so a
thread may give up at any time; that the task gives up as well is left out, for
threads keep the mutex only while they copy. A thread that meets a
size of 0 or 1 stops in the model: the code copies a negative number of bytes
there. `CiChannel` is the promise of the layer: a FIFO of messages that a reset may
empty. The refinement maps the queue to the messages whose *last* frame is stored,
and the unit the module is taking to the front.

**`CaPmt`** - how a module learns what to descramble. The monitoring task runs
`CaSupport_Data`: `CaInfo` empties the list, `StoreId` adds one system per step,
`CaOk` is the callback that sets the request. The process task runs
`WVCI_TaskProcess`: `Look` at one slot after the other, `ReadPlan`
(`WVCI_UpdateSetting` up to its loop), then `Match` and `Send` for each program
(`WVCI_GenerateCAPMT` and `CaSupport_SendPMT`), then `ClearRequest`. `TooLong` says
with which systems the CA PMT of a program is dropped for its length. The list is a
set, for it is only searched. A CA PMT reaches the module when it is sent,
because the link keeps the order; what the module makes of it (`Received`) is
EN 50221. `ids`, `plan` and `cam` are what the properties compare: the
announcement, the programs of the last update, and what the module works on.
*Constants:* `Overlap` says whether a list may be rebuilt during the update of
its own slot; without it both tasks still interleave for different slots, and for
the same slot between an update and the next announcement.

**`PmtFrames`** - lengths of a CA PMT of `n` bytes on its way: `LengthField`
(`WVCI_GenerateCAPMT`), the end flag `Mark`, `Passes` (`CI_SendCAPMT2CAM`),
`TpduField` (`Send_T_DataLong`) and `Frames` (`SendTransportPacket`). `Passes` drops
what is too long for the CA PMT buffer, but headers are added after that, and
nothing asks whether there is room for the result: `Fits` says when there is, in
`Msg[1024]` and in `Frame[512]`, which is smaller than the 768 bytes that a module
may be granted (`ci_l2.c:505`). What an overrun does is undefined and not modelled;
the frames of `LengthsAgree` are those that have room. *Constants:* `BufferSizes`,
any of the sizes that `CI_CheckConfig` accepts, 16 to 768.

**`PmtBuild`** - the contents of a CA PMT. `GenerateCaPmt` is
`WVCI_GenerateCAPMT`: `CaDescriptors` finds the descriptors as the two
`GetDescriptor` functions do, `Matching` selects those of the module's systems
and puts the command before the first, `Counted` is a loop with its length,
`Body` has the program and the streams whose type is in the default list.
`ReadCaPmt` is how a module takes the bytes apart (EN 50221, external), `Expected`
what it should find: the descriptors of its systems, whole, in order, each at its
level. The loops that fill the buffer are written as the concatenation of what each
descriptor and each stream adds, for what has been written is never taken back; a
CA PMT that does not fit is `Dropped`. `SourceProgram` says which programs are
translated: each loop (`Info`) is a sequence of fewer than 256 whole descriptors,
for the index of a descriptor is one byte, and none has 254 bytes or more of
contents, for the size to copy is one byte. `Modes` are the list management values
that `WVCI_UpdateSetting` asks for.

**`CaPmtSent`** - `CaPmt` with `PmtBuild` and `PmtFrames`. *Constants:* `Content` is
the table of programs, byte for byte; `SentAssumption` ties the two constants of
`CaPmt` to it: a program has the systems of its descriptors (`SystemsOf`), and its
CA PMT is `TooLong` just when what `Body` makes of it does not pass. The properties
speak of every CA PMT in `cam`, what the tasks have selected and sent: its lengths
agree on the way (`FramesRight`), and the module reads from it what it should, with
the systems that were selected for it (`TranslatedRight`). A slot does not keep the
list management value of each CA PMT, so all that it may have had (`ModesOf`) must
be right.

**`TimerTask`** - table, callers and monitor of `timer.c`. `Register`, then `Find`
place by place, `Fill`, `Func`, `Notify`; `Remove`, then `Seek`, `Close`, `Clear`,
`Notify`; each access to the table that the monitor may see is a step. The monitor
is `PollReturns`, `ReadTimer`, `ExecuteTask`, `ReadEvent`, `Rescan` place by place.
`timers` says what each descriptor stands for; the kernel gives the lowest that is
free. A timer expires when poll reports it; a read of a descriptor that was closed
and given to another timer waits for that timer (`mon = "read"`), and for ever if
it was never started. The uninitialised `tm_fd` of a caller's structure is any
number (`Garbage`). The scan of `Timer_ExecuteTask` is one step; the thread it
starts is of no further concern. *Constants:* `MonitorFirst` says that nobody
calls before the monitor has created its event descriptor, as `test_timer` sees
to by sleeping.

**`TunerLoop`** - parameters of the channels, the thread that sets them and the
task that serves them, for one type of tuner at a time. `param`, `old`, `file`
are `stXParams`, `stXOldParams` and the parameter file. `SetParam` and
`SetDefault` begin a call, `WriteField` writes one field after the other, and
`StoreParam` writes the file, which may fail. A turn of `Tuner_process` goes
channel by channel through `Compare` (`Tuner_IslockParamChange`), `CopyField` (the
memcpy into the copy, field by field), `ResetChip`, `ReadField` and `LockChip`
(`Tuner_lockSignal`, whose search takes seconds), `Flag`
(`Tuner_SetLockFreqChangeFlag`), and `FoundLocked` or `FoundUnlocked`, which locks
again, to `Led`. `ClearFlag` is whoever scans the programs. `Restart` loses all but
the file, at any step. `tuned` are the parameters a chip's driver was handed
last: the code throws the driver's result away (`tuner.c:310`, `tuner.c:318`,
`tuner.c:500`, `tuner_c.c:194`), and a driver may give up before the chip has
anything (`MxL608_Lock`, `Avl6211_LockSignal`). The order
of the fields within a call is left open, for memcpy and the compiler may choose
it. *Constants:* `Waits` says that a channel is set again only after the task has
noticed the last change; `MaxStarts` bounds the restarts, `SetChannel` and `Types` what is set and fitted.

**`RtcClock`** - the chip DS1338 and its callers. `regs` are its registers,
`Tick` is a second (external), `Write` and `Read` are one transfer each of
`ds1338_SetTime` and `ds1338_GetTime`, which may fail without notice, `Apply` is
the rest of `ds1338_SyncToSystem`. `Byte` and `Field` are the conversions for
every register, with the wrap of an unsigned year; `Verified` is
`ds1338_VerifyTimeParameters`; `Begin` refuses what is not `Verified`. `form` is
the structure in the caller's hands, from whose year the code takes the offset,
and which `SetAgain` passes a second time. `meant` and `start` are history: the
time the caller filled in, and the registers when a reading began. What is
assumed of the chip: writing the seconds begins a new second, and the rest of
`ds1338_SetTime` takes less than one. Of Linux: no daylight saving time.
*Constants:* `Alone` says that no two threads set the clock at once; `MaxTicks`,
`MaxFaults` are bounds.

**`XmlFile`, `AtomicFile`** - a configuration file. `Open`, `WritePiece` or
`SaveFails`, and `Rename` are `XML_WriteXmlFile` with `XML_RenameConf`;
`ReadOpen`, `ReadPiece`, `ReadClose` are `XML_OpenXmlFile` on another thread.
Names stand for files (`dir`), files have pieces (`content`), and the disk has
both as they were written back (`diskDir`, `disk`, `WriteBack`, `Commit`,
external). `PowerFails` brings back the disk. `AtomicFile` is what the comments
promise: a file that is one whole document at every moment, that is replaced in
one step, and that is the document last saved after a power failure. The
refinement maps the file to the document that the name's contents are.
*Constants:* `Alone`: one thread writes at a time, as in `test_xml`; `Ordered`:
the file system writes the data of a file before its new name, as ext4 does by
default for a rename over a file and others do not.

## 3. The runs

All runs check deadlock. State counts are of this commit, on two workers.

| run | instance | checks | shows |
|---|---|---|---|
| `session_menu` | 2 sessions, application information and MMI, one unknown resource, a user who enters, answers and leaves menus; 2.2 million states | `TypeOK`, `TableConsistent`, `HandleSound`, `DataToItsResource`, `AgreedWhenQuiet` | the table stays consistent and the MMI handle sound while numbers are closed and reused; both sides agree when the link is quiet; data go to their resource, but for those sent before a refusal was read |
| `session_all` | 1 session, all six resources and an unknown one, PMT thread; 39 thousand states | `RequestAnswered`, `CloseAnswered` | when everybody competes for one session every request is answered in the end |
| `slot_two` | 2 slots, 1 retry, reset after 2 checks | `TypeOK`, `HandleAssigned`, `OccupiedReported`, `NothingMissed`, `RemovalNoticed`, `PluggedTried` | no event is lost if the two readings of a turn agree, the assertion of `CI_ModuleRemoved` holds, no slot is forgotten |
| `slot_reset` | 1 slot | `ResetModuleReturns`: violated | see 4 |
| `link` | a queue of 2 frames, one thread with messages of two frames, answers of up to 3 frames of which 2 fit, one part before the last, sizes of 15, 512 and 1000 offered; 765 thousand states | `TypeOK`, `DamageConfined`, `PartsAgree`, `TaskSized`, `PollingGoesOn`, `ImplementsChannel` | messages arrive whole, in order and once, but for those that a full queue or a changed size has cut; the task has a size whenever it sends; polling goes on; the link implements the channel |
| `link_cleared` | the same, with 512 as the only size | `SizeKept`: violated | see 4 |
| `timer` | 2 tasks, 2 places, 3 descriptors, one caller, one rejected timer | `TypeOK`, `PollsAll`, `TableSound`, `RightTask`, `EventTaken` | no change of the table is forgotten, the table names open timers, the right function is started, a notification is taken |
| `capmt` | 2 slots, 3 CA systems, 3 programs, lists with room for 2; 5 buffer sizes; CA PMTs of 116, 126, 127, 128, 254, 255 and 495 bytes sent and one of 1018 dropped; 1.02 million states | `UpToDate`, `FramesRight`, `TranslatedRight`, `AnnouncementServed` | a module ends up with exactly the programs of the last update and its own systems; every announcement is acted on; the lengths of each CA PMT that is sent agree; what a module reads from it is what it should |
| `capmt_lost` | the same with overlap | `UpToDate`: violated | see 4 |
| `tuner` | 2 channels of which one is set, 2 values, DVB-C or DVB-S2, one restart; 890 thousand states | `TypeOK`, `Served`, `LedTruthful`, `NeverZeroed`, `ScanAfterLock`, `ChangeServed` | no change is taken for served that was not; programs are scanned after the lock and not before; the LED shows the turn; parameters that are left alone reach the chip |
| `clock` | one thread that sets, one that reads; 1 tick, 1 fault; times at which everything carries; 3.7 million states | `TypeOK`, `ShownAsMeant`, `SystemFollows`, `ReadSound` | what is set is shown as it was meant, and handed to Linux so but for the half of the day; what is read is never before the beginning of the reading, and too late only if the minutes have carried |
| `xml` | 1 writer, 1 reader, 3 files, documents of 1 and 2 pieces; 50 thousand states up to symmetry of the files | `ReadWhole`, `WrittenAtomically` | what is read is one whole document, and the file implements `AtomicFile` through failures and power cuts |

*Why the bounds are enough.* One session is enough for the number to be used by
one resource after the other, two for two resources at a time; `MaxToHost` and
`MaxToCam` bound only when the module and the threads send, so that an SPDU can
cross another on the link and one can wait behind another. A second slot is what
keeps the task away from the first; the retries and checks only count down, and
their numbers (5 and 3 in the code) change how often and not what happens: with 1
and 2 each branch of each counter is taken. A queue of 2 frames overflows in the
middle of a message of 2 frames and of a reply; answers that fit, that just fit
and that do not are all there; one thread and the task are two that send; sizes
that are refused, that are taken and that are limited are offered. Two places and
three descriptors let the table fill up while a descriptor is given away again.
Three systems with room for two overflow the list, program `p1` has CA PMTs that
are too long, slot 0 has plans of no and of two programs, slot 1 of one: ONLY,
FIRST, LAST and the stop (MORE needs three programs, and stands in the proof). The
lengths that are sent lie on both sides of each change of form (127 and 128, 254
and 255), one is the longest that has room with every buffer (495), one is
dropped; loops pass 255 bytes, and bytes inside descriptors look like tags. The
buffers are the smallest, an odd one, two usual ones and the largest. Lengths
between 495 and 1005 are in the proof. A second channel is what keeps the tuner
task away from the first; one restart suffices, for nothing but the files survives
it. The clock starts one second before everything carries: a tick falls between
any two transfers, and carries from seconds to years. What two ticks do is in the
proof. Two pieces are a document that can be half written; three files are the
configuration, the temporary file and one that a reader still has open. Named
bounds that are not the code's are `MaxToHost`, `MaxToCam`, `Counts`, `MaxTpdu`,
`MaxAnswer`, `MaxParts`, `MaxUnit`, `Offered`, `MaxRejected`, `MaxStarts`,
`MaxTicks`, `MaxFaults`; the modules say what each bounds.

Every property of a passing run has a mutant of the code that breaks it.

## 4. Disagreements between code and comments

Three are runs of their own, whose counterexample TLC prints.

* `slot_reset` - a module that `CI_CheckSlot` resets stays in state CISTART
  (`ci_l2.c:296`), no T_CREATE follows, and it is out of service until it is
  pulled. `ci.h:194` calls this the reset of crashed modules.
* `capmt_lost` - the request for an update is cleared after the update
  (`WV_CI.c:138`): one made during the update is lost. The flag that seems to be
  meant to prevent this (`s_CITaskMuxFlag`, `WV_CI.c:2274`) is read nowhere.
* `link_cleared` - `ci_l2.c:493` says that EN 50221 requires a buffer of at least 16
  bytes, and `SendTransportPacket` sends nothing with less (`ci.c:172`). But it
  tests the size before it waits for the mutex, and reads it again for each frame
  (`ci.c:197`). A removal clears it meanwhile (`ci.c:118`, without the mutex): with
  0 or 1 the number of bytes to copy is negative. A thread that still waits when the
  next module is inserted may meet the sizes of `CI_CheckConfig` as well, of which
  only the high byte is there at first (`ci_l2.c:488`), or which are not limited to
  768 yet. `TaskSized` says that the task itself is safe from all this.

Others are part of the models. They show when a constant is set to the other
value, and a property of a passing run is violated then:

| set | in | violated | because |
|---|---|---|---|
| `TwoReadings = TRUE` | `CamSlot` | `NothingMissed` | the task reads the slots' register twice in a turn (`WV_CI.c:587`), remembers the first reading and acts on the second: a module that leaves in between and is back before the next turn is not noticed |
| `MonitorFirst = FALSE` | `TimerTask` | `PollsAll` | a task that is registered before the monitor has made its event descriptor is not polled before the next change |
| two callers | `TimerTask` | `TableSound`, `RightTask` | both take the same free place |
| `Waits = FALSE` | `TunerLoop` | `Served` | a field that is changed and set back between the task's copy of it and the next comparison is taken for served, though the search had the value in between |
| `Alone = FALSE`, two setters | `RtcClock` | `ShownAsMeant` | the registers of two times are mixed: nothing locks the clock |
| `Alone = FALSE`, two writers | `XmlFile` | both | two writers have the same temporary file |
| `Ordered = FALSE` | `XmlFile` | both | nothing is synchronised before the rename (`wv_xml.c:206`) |

And some are allowed for in the models and their properties, as the hazards of
`PROJECT.json` say one by one:

* `ds1338_SyncToSystem` gives `mktime` the hours of the 12-hour system without
  morning or afternoon (`ds1338.c:464`): 3 in the afternoon becomes 3 in the
  morning, and midnight noon. `ds1338.c:320` says that Linux is synchronised.
  `SystemFollows` allows exactly this half day.
* A CA PMT that passes may be too long for the arrays further down, which are
  written without a test: one of more than 1005 bytes for `Msg` (`ci.c:374`), and
  one of more than 495 for `Frame` (`ci.c:166`) if the module has a buffer of more
  than 512 bytes; `ci_l2.c:504` speaks of 255, and the code takes 768. The theorem
  `RoomFor` says that these are all.
* `Read_CI_T` returns early when it finds the slot empty or a length below 3 or
  above `MAX_CI_TPDU` (`ReadNothing`). In the middle of an answer `fRXPending` then
  stays set, and unless the module goes on by itself the host neither sends nor
  polls again. `PollingGoesOn` leaves out links that have missed a frame.
* After an unknown TPDU the host is silent: `ci.c:638` returns without an
  acknowledgement, so the counter that should reset the module stays at 1.
  `PollingGoesOn` leaves out these links as well.
* MMI data that the module sends before it has read that its session was refused may
  go to the resource that has the number next. `DataToItsResource` allows this for
  what was sent before that, and for nothing else.
* A late answer to the close of an MMI session clears the handle of the next one
  (`CI_MMI.c:368`): the user's answers then go out on session 0. `HandleSound` says
  only that a handle that is set is the session's.
* A module that is pulled after `STATUS_ResetCAM` stays reported as occupied
  (`WV_CI.c:968`): its removal is no event. `OccupiedReported` says only that what
  is working is reported.
* A CA PMT on session 0 (`CI_CaSupport.c:182`), a symbol rate that is not compared,
  DTMB parameters that stay zero, a year that wraps when a structure is passed
  twice, a time read while it carries.

For `TwoReadings`, `MonitorFirst`, `Waits`, `Alone`,
`Ordered`, the close of both sides at once (`CrossingClose`, section 2) and the
overlap of `capmt_lost` the theorems show that the named cause is the only one:
without it the property holds for every instance.

## 5. Fairness

| module | fairness | why |
|---|---|---|
| `CiSession` | weak, of `HostParse` and `CamReceive` | the task loops for ever and parses whatever has come; the module takes what it is sent. Nobody has to plug, send or type |
| `CamSlot` | weak, of `Monitor` and of leaving `CI_CheckSlot` (`Leaves(s)`) | the task never stops; the loop of `CI_CheckSlot` goes on only as long as the module has data, and a module pauses |
| `CiLink` | strong, of `Serve`; weak, of `Sender` (`CutFrame`, `PutFrame`, `Acquire`) and `CamTakes` | the task gets the mutex in the end, although threads take it now and then; a thread that holds it goes on; the module answers |
| `TimerTask` | weak, of `Monitor` and of each call once it has begun | both are threads that do not wait for each other, except for a read of a timer, which the property allows for |
| `TunerLoop` | weak, of `TunerProcess` | the task loops for ever. Neither the setting thread nor a signal is fair: `ChangeServed` holds although the chip may never find one |
| `CaPmt` | weak, of `Handling`; strong, of `Process` | both tasks loop for ever. `Process` is strong only because `Overlap = FALSE` keeps the task from looking while the list is rebuilt, which is the model's restriction and not the code's |

`RtcClock` and `XmlFile` are checked for safety only and need no fairness.
Insertion, removal, the user, other threads and the module's own requests are
never fair.

## 6. The proofs

Checked by TLAPS (SMT, Zenon, LS4) for every value of the constants that the
named ASSUME of each module allows; the runs above evaluate these assumptions.
Every invariant was checked by TLC on the small instances before it was proved.

| theorem | says | argument |
|---|---|---|
| `CiSession_proofs!TypeCorrect` | `[]TypeOK` | every action keeps the type of every variable, the messages on their way included |
| `CiSession_proofs!SessionsSound`, `TableStaysConsistent` | `[]HandleSound`, `[]TableConsistent` | `IInv` = the types of what the host keeps, `TableConsistent`, `HandleSound`. Neither of the last two is inductive alone: that a handle is still sound after another session was closed needs the table, that the new session of a resource is not 0 needs that 0 is never given out. It says nothing of the messages, so it holds for any module, also one that violates EN 50221 |
| `CiSession_proofs!AgreementReached`, `DataDelivered` | `[]AgreedWhenQuiet`, `[]DataToItsResource`, if `~CrossingClose` | `CInv` with `Synchronised`: for each session number, what is on its way in both directions accounts for the difference between host and module - an answer that grants it, a close that has not arrived, the answer to one - and nothing else is on its way for it. With empty queues there is no difference; data in front of the queue are for the session's present user, unless a refusal is still on its way to the module. MMI, the one resource that refuses after the grant, is included |
| `CamSlot_proofs!TypeCorrect` | `[]TypeOK` | |
| `CamSlot_proofs!SlotSound`, `OccupiedSound` | `[]HandleAssigned`, `[]OccupiedReported` | with `TaskAtWork`: the slot the task is at is in the state it has branched on, for nothing else changes slot states |
| `CamSlot_proofs!EventsKept` | `[]NothingMissed` if `~TwoReadings` | `LookInv`: between the readings the register is as remembered; a slot handled in this turn agrees with it; while slots are served all agree or the flag is set |
| `CiLink_proofs!MessagesStayWhole` | `[]DamageConfined` | `IInv`: consecutive frames in module, queue and lock fit one another - the next of the same message, or a first after a last - unless their message is in `cut` (`Order`, `NextFits`, `UnitSound`). The property itself speaks only of the module's buffer and is far from inductive |
| `CiLink_proofs!TypeCorrect` | `[]TypeOK` | `RInv`: with what each thread and the task have in hand, and a queue that is never longer than it may be (`QueueFits`) |
| `CiLink_proofs!PartsComplete` | `[]PartsAgree` | `PInv`: the connection is asked for once (`CreatedOnce`), and until it is, nothing has been read or collected (`Fresh`). After that the host has of each answer what the module has given of it (`InAnswer`, `AnswerSound`) |
| `CiLink_proofs!LinkIsChannel` | `ImplementsChannel`: the refinement of `CiChannel` | on the invariants of `MessagesStayWhole` and `TypeCorrect`, step by step. The channel of a queue (`Ended`, the messages whose last frame is stored) is summed frame by frame, by induction over a set of numbers |
| `CiLink_proofs!TaskSizeKept` | `[]TaskSized` | `SizeInv`: with the type of the size. Only the steps of `CI_CheckConfig` and the clearings write it, and the task is not out of them before it has compared it. For any sizes a module may offer. The same cannot be said of the other threads (`link_cleared`) |
| `TimerTask_proofs!NoChangeForgotten` | `[]PollsAll` if `MonitorFirst` | while nothing is on its way, the monitor polls what is in the places it has read so far, and at the end all (`UpToDate`); for any number of callers without a lock |
| `TimerTask_proofs!TypeCorrect` | `[]TypeOK` | with: what each call holds while it is on its way (`Holding`) |
| `TimerTask_proofs!TableStaysSound` | `[]TableSound` if there is one caller | `TableInv`: every place but the one a call is changing names an open timer and its task, no descriptor stands twice, and the call knows its timer and its place |
| `TimerTask_proofs!RightFunctionStarted` | `[]RightTask` if there is one caller and `MonitorFirst` | `ReadInv`: while no change is on its way, the descriptor the monitor is reading stands in a place, with the task it was made for |
| `CaPmt_proofs!TypeCorrect` | `[]TypeOK` | with: `plan` has the program that is at work, `mon` is within the announcement |
| `CaPmt_proofs!SelectionUpToDate` | `[]UpToDate` if `~Overlap` | `ListInv`: the list is the announcement, as far as it has been copied; `Apart`, `Pending`: no list changes during its update, and the request is kept meanwhile; `SentInv`: the module has the CA PMTs of the programs up to the one at work |
| `CaPmt_proofs!LengthFieldRight`, `TpduFieldRight` | lengths up to 65535 are written and read back the same; the TPDU's length is that of what is sent | arithmetic of `\div` and `%`, case by case |
| `CaPmt_proofs!LengthsRight` | `LengthsAgree(n)` for every `n` that passes and all buffer sizes from 16 to 768 | the two above, and: the frames of a message that has room are never longer than the buffer, and carry all its bytes. `Frames` and their sum are recursive functions, which are shown to exist before an induction uses them |
| `CaPmt_proofs!RoomFor` | a CA PMT of `n` bytes that passes has room in `Msg` and `Frame` just if `n <= 1005`, and `n <= 495` or the buffer has at most 512 bytes | the size of the packet in each form of the length fields (`PacketSizes`); the first frame is the longest |
| `CaPmt_proofs!FramesAlwaysRight` | `[]FramesRight` | `SInv`: what is selected are systems of the program at work (`Selected`), and what a module has been sent was not too long with them (`SendableSent`); with `SentAssumption` its length passes, and `LengthsRight` applies. `FramesRight` is not inductive: `Send` does not know why what it sends is short enough |
| `CaPmt_proofs!TranslationAlwaysRight` | `[]TranslatedRight`, for any table of programs | the same invariant, and for each CA PMT (`Translated`), byte by byte: what a concatenation has at each place (`Joined`, `End`); a walk that goes from piece to piece by the lengths it reads visits every piece and no other place (`Walks`, `Visits`, `WalkJoins`), which serves the code's search for descriptors, the module's loop and its streams; then a loop, the streams, the head and the whole are read back as they were written (`LoopRead`, `StreamsRead`, `HeaderRead`, `BodyRead`) |
| `TunerLoop_proofs!TypeCorrect` | `[]TypeOK` | |
| `TunerLoop_proofs!ChangesServed`, `ScannedAfterLock` | `[]Served`, `ScanAfterLock`, if `Waits` | `IInv` follows a field on its way: not yet written but noticed already (`Unwritten`), read by the task (`InHand`), handed to the driver (`InChip`), with two facts on where the task is (`FlagGiven`, `ReadAfter`). For any number of channels, values and restarts |
| `TunerLoop_proofs!LedShowsTurn` | `[]LedTruthful` | `LedInv`: the flag is set just if one of the channels checked in this turn was found without a signal |
| `TunerLoop_proofs!ParametersFilled` | `[]NeverZeroed` | `Filled`: but for DTMB, no parameter is zero, neither in memory nor in a file that can be read; the task only copies |
| `RtcClock_proofs!RoundTrip` | whatever time `ds1338_SetTime` accepts, `ds1338_GetTime` reads the same | arithmetic of BCD, register by register; the hours with their two flags |
| `RtcClock_proofs!TimeIsShown` | `[]ShownAsMeant` if `Alone` | `SetInv`: the registers written so far have what was meant. They keep it because the seconds are written first, and from then on the chip does not tick (`Restarted`), and because nobody else writes (`OneSetter`). For any number of ticks, readers and faults of other calls |
| `RtcClock_proofs!LinuxFollows` | `[]SystemFollows` if `Alone`: all of the time, but for the half of the day in the 12-hour system | the same invariant for the caller's copy, and `RoundTrip` |
| `RtcClock_proofs!ReadingSound` | `[]ReadSound`, as long as `YearsLeft` | `ReadInv`: the registers read so far, with the rest as the chip has it, show no time before the start of the reading (`Mix`); and either the minutes have carried since, or the caller has the minutes, hours and days that the chip still shows, and no more seconds (`Still`). It follows the order in which a second carries from register to register. `YearsLeft`: the year register begins anew after 2159, and nothing can be said of a reading across that |
| `RtcClock_proofs!TypeCorrect` | `[]TypeOK` | registers stay bytes through every second and every write |
| `XmlFile_proofs!ReadsWhole` | `[]ReadWhole` if `Alone` and `Ordered` | `IInv`: the names stand for different files (`NamesApart`), the configuration is whole in memory and on the disk (`ConfWhole`), at most one thread writes, into the temporary file and up to its next piece (`OneWriter`, `WriterAt`), and a reader has a file that nobody writes (`ReaderAt`) |
| `XmlFile_proofs!Atomic` | `WrittenAtomically` if `Alone` and `Ordered`: the refinement of `AtomicFile` | the same invariant; a rename is the only step that writes, a commit the only one that saves |
| `XmlFile_proofs!TypeCorrect` | `[]TypeOK` | |

The conditions are constants and part of the theorems' statements. `MonitorFirst`,
one caller of the timers and `Alone` of `XmlFile` are kept by the only callers in
the repository, `test_timer` and `test_xml`; nothing in the repository calls the
clock or sets the tuners from two threads. The rest (`~TwoReadings`,
`~Overlap`, `Waits`, `Ordered`) is not guaranteed by the
code, nor `~CrossingClose` by EN 50221: section 4 says what happens otherwise.
`YearsLeft` is a condition on the state, not a constant: the theorem is `Spec /\
[]YearsLeft => []ReadSound`.

All safety properties of the passing runs and both refinements are proved. Only
model-checked is liveness (`RequestAnswered`, `CloseAnswered`, `RemovalNoticed`,
`PluggedTried`, `PollingGoesOn`, `EventTaken`, `AnnouncementServed`,
`ChangeServed`), which is out of the prover's reach: it rests on fairness, and so on
ENABLED. Induction over sequences is done over sets of numbers: the least number
that is not in the set, which exists because the order of Nat is well-founded
(`NatSetInduction`), would be in it. What a recursive function computes is used only
after the function that satisfies its equation has been shown to exist.

## 7. What is not modelled

* Payloads: menu texts, tuples of the attribute memory, what is in an XML document.
  They are kinds or members of small sets. Session data that end with
  the four bytes of the end flag would be taken for a CA PMT; the models take
  it that only marked CA PMTs end like this.
* Time. Delays and time-outs are choices; no property counts seconds.
* The web thread's wait for an answer (`WVCI_MMI_UpdateInfo`), the PIN flag and the
  menu tree. Both threads write them, for both slots, without a lock or an order of
  any kind; every interleaving loses something, and neither code nor comments
  promise anything that a property could state. The hazard is listed.
* A direct update by another thread, the route of the stream through the slots
  (an FPGA register), and a table of programs that changes during an update.
* Timers that expire without poll having been told, and the threads that
  `Timer_ExecuteTask` starts.
* `Generate_Multi_CA_PMT` and most of `CI_PMTDec.c`, which nothing calls.
* LNB voltage and tone and the queries of the tuners; the clock's day of the week,
  which is never written; documents in memory, which are libxml2's.
* The rest of `tools/`, `net/`, `drivers/` (temperature, loading of the FPGA,
  registers, buses), `xml_bak/` and `init/`: wrappers of system calls and sequences
  of them, made once and by one thread. CI resources that `ci/all.h` compiles out.
  Vendored tuner drivers and libxml2.

## 8. The plan

Done: `CiSession`, `CamSlot`, `CiLink` with `CiChannel`, `TimerTask`, `CaPmt` with
`PmtBuild`, `PmtFrames` and `CaPmtSent`, `TunerLoop`, `RtcClock`, `XmlFile` with `AtomicFile`,
and a module of proofs for each component.

What is left, in this order:

1. A composition of `CamSlot` with `CiLink` in place of the choice of outcomes,
   and that the choice of outcomes is sound for it.
2. `CaPmt` with the route of the stream through the slots.
3. The table of I2C buses, if two drivers come to share a bus.
