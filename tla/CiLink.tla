------------------------------- MODULE CiLink -------------------------------
(***************************************************************************)
(* The transport and link layers of the common-interface stack for one     *)
(* slot: SendTransportPacket, CI_WriteData and Parse_TPDU (ci.c),          *)
(* CI_CheckSlot and Read_CI_T (ci_l2.c).                                   *)
(*                                                                         *)
(* Messages (TPDUs) are cut into frames of the size the module has asked   *)
(* for.  Several threads queue frames under the CI mutex; the monitoring   *)
(* task, which also queues its own, takes them from the queue and writes   *)
(* them to the module one by one, reads what the module has for the host   *)
(* and polls it when there is nothing else to say.  The mutex protects     *)
(* the queue from the threads, but neither the queue nor the buffer size   *)
(* from an insertion or a removal.                                         *)
(***************************************************************************)
EXTENDS Integers, Sequences, FiniteSets

CONSTANTS
  Thread,     \* the user-interface and PMT threads
  Message,    \* what they and the resources send
  Counts,     \* bound: the numbers of frames that a message may take
  QueueSize,  \* CI_T_SENDQSIZE
  MaxTpdu,    \* bound: frames of an answer that MAX_CI_TPDU bytes hold
  MaxAnswer,  \* bound: frames of an answer of the module
  MaxParts,   \* bound: T_data_more parts that the module sends before a
              \* T_data_last, and that the host has room for
  MaxUnit,    \* bound: nobody sends while the module holds more frames
  Offered     \* the values that are read from the module's registers while
              \* the buffer size is agreed on, besides the one expected

None == "none"
Poll == "poll"
Rcv == "rcv"
Create == "create"
Control == {Poll, Rcv, Create}

MinSize == 16      \* ci.c:172, ci_l2.c:494
SizeOfSize == 512  \* 0x0200: the size register when the size is offered
MaxSize == 768     \* CI_T_SENDQBUFSIZE
MaxWord == 65535   \* WORD

ASSUME LinkAssumption ==
  /\ Message \cap (Control \cup {None}) = {}
  /\ Counts \subseteq Nat \ {0} /\ Counts # {}
  /\ QueueSize \in Nat \ {0}
  /\ MaxTpdu \in Nat \ {0}
  /\ MaxAnswer \in Nat \ {0}
  /\ MaxParts \in Nat
  /\ MaxUnit \in Nat
  /\ Offered \subseteq 0 .. MaxWord

Msg == Message \cup Control

\* Frame i of message m.  The last frame has the "more" bit clear.  How many
\* there are depends on the buffer size while the message is cut.
Frame == [m : Msg, i : Nat \ {0}, last : BOOLEAN]
Totals(m) == IF m \in Message THEN Counts ELSE {1}

\* An answer of the module: a T_SB, with da if the module has data to fetch,
\* after a part of an SPDU or nothing; or an unknown TPDU.  It comes in n
\* frames, i of which the host has read; part counts the parts sent before.
Kinds == {"reply", "status", "more", "last", "unknown"}
Answer == [kind : Kinds, da : BOOLEAN, part : Nat, n : Nat \ {0}, i : Nat]
NoAnswer == [kind |-> "status", da |-> FALSE, part |-> 0, n |-> 1, i |-> 1]

VARIABLES
  \* CI_HANDLESTRUCT of the slot
  size,       \* IOBuffer_Host2CI.wBufferSize
  queue,      \* CI_T_SENDQ: the frames to send
  gotAck,     \* fGotPollAck
  rxPending,  \* fRXPending
  tpdu,       \* TPDULen, in frames
  rx,         \* dwRXTPDULen, in parts
  unknown,    \* bUnknown_TPDU
  reset,      \* ModulReset
  \* the threads
  entered,    \* entered[t]: a message whose thread has passed the size test
  lock,       \* the CI mutex: free, or the thread, the message and the number
              \* of the frame it is sending, and the frame once it is cut
  pc, busy,   \* the monitoring task: where it is, and bBusy
  out,        \* what the task still has to send for what it has parsed
  \* the module
  conn,       \* it has a transport connection
  unit,       \* frames it has received of the message in progress
  answer,     \* the answer the host has not read to the end (answer.i = n: none)
  sent,       \* parts of an SPDU it has sent
  \* history
  cut,        \* messages of which a frame was dropped for want of room, or
              \* cut for another buffer size
  missed      \* the host has missed a frame of an answer

cell == <<size, queue, gotAck, rxPending, tpdu, rx, unknown, reset>>
rxVars == <<rxPending, tpdu, rx, unknown, reset>>
threads == <<entered, lock>>
task == <<pc, busy, out>>
module == <<conn, unit, answer, sent>>
history == <<cut, missed>>
vars == <<cell, threads, task, module, history>>

Free == [t |-> None, m |-> None, i |-> 1, made |-> "no"]
Locks == {Free} \cup
         [t : Thread, m : Message, i : Nat \ {0}, made : {"no", "more", "last"}]
Configs == {"config", "high", "low", "check", "create"}
Pc == {"empty", "away", "top", "reply", "send", "poll", "pollsend", "end"} \cup Configs

TypeOK ==
  /\ size \in 0 .. MaxWord
  /\ queue \in Seq(Frame) /\ Len(queue) <= QueueSize
  /\ gotAck \in BOOLEAN
  /\ rxPending \in BOOLEAN
  /\ tpdu \in 0 .. MaxTpdu
  /\ rx \in Nat
  /\ unknown \in 0 .. 3
  /\ reset \in BOOLEAN
  /\ entered \in [Thread -> Message \cup {None}]
  /\ lock \in Locks
  /\ pc \in Pc /\ busy \in BOOLEAN
  /\ out \in Seq(Msg)
  /\ conn \in BOOLEAN
  /\ unit \in Seq(Frame)
  /\ answer \in Answer
  /\ sent \in Nat
  /\ cut \in SUBSET Msg
  /\ missed \in BOOLEAN

Init ==
  /\ size = 0
  /\ queue = <<>>
  /\ gotAck = FALSE
  /\ rxPending = FALSE
  /\ tpdu = 0
  /\ rx = 0
  /\ unknown = 0
  /\ reset = FALSE
  /\ entered = [t \in Thread |-> None]
  /\ lock = Free
  /\ pc = "empty" /\ busy = FALSE /\ out = <<>>
  /\ conn = FALSE
  /\ unit = <<>>
  /\ answer = NoAnswer
  /\ sent = 0
  /\ cut = {}
  /\ missed = FALSE

\* The status register: data available; free to take a frame.
Whole(u) ==
  \A k \in DOMAIN u : u[k].m = u[1].m /\ u[k].i = k /\ (u[k].last => k = Len(u))
Complete == unit # <<>> /\ unit[Len(unit)].last
DA == answer.i < answer.n
FR == ~Complete

-----------------------------------------------------------------------------
(***************************************************************************)
(* Sending: SendTransportPacket and CI_WriteData.                          *)
(***************************************************************************)
\* Mutant of Store: the loop runs one place too far.
StoreFar(f) ==
  IF Len(queue) <= QueueSize
    THEN queue' = Append(queue, f) /\ UNCHANGED cut
    ELSE cut' = cut \cup {f.m} /\ UNCHANGED queue

\* CI_WriteData: the first free place of the queue; without one the frame is
\* dropped, and the caller does not learn of it.
Store(f) ==
  IF Len(queue) < QueueSize
    THEN queue' = Append(queue, f) /\ UNCHANGED cut
    ELSE cut' = cut \cup {f.m} /\ UNCHANGED queue

\* The task sends a message: it holds the mutex from the first frame to the
\* last, nobody else looks at the queue, and only itself changes the size.
Min2(a, b) == IF a <= b THEN a ELSE b
Run(m, n, total) == [k \in 1 .. n |-> [m |-> m, i |-> k, last |-> k = total]]
StoreAll(m) ==
  \E total \in Totals(m) :
    LET stored == Min2(total, QueueSize - Len(queue))
    IN /\ queue' = queue \o Run(m, stored, total)
       /\ cut' = IF stored < total THEN cut \cup {m} ELSE cut

\* A thread enters SendTransportPacket: without a buffer size it leaves again
\* at once.
Enter(t, m) ==
  /\ entered[t] = None
  /\ lock.t # t
  /\ size >= MinSize
  /\ Len(unit) <= MaxUnit
  /\ entered' = [entered EXCEPT ![t] = m]
  /\ UNCHANGED <<cell, lock, task, module, history>>

Acquire(t) ==
  /\ entered[t] # None
  /\ lock = Free
  /\ lock' = [t |-> t, m |-> entered[t], i |-> 1, made |-> "no"]
  /\ entered' = [entered EXCEPT ![t] = None]
  /\ UNCHANGED <<cell, task, module, history>>

\* The mutex is not to be had for seven seconds: the message is skipped, and the
\* caller does not learn of it.  Another thread may have it, or the task, which
\* keeps it while it waits for a module, here or in the other slot.
GiveUp(t) ==
  /\ entered[t] # None
  /\ entered' = [entered EXCEPT ![t] = None]
  /\ UNCHANGED <<cell, lock, task, module, history>>

\* The next frame is cut: all that is left, or as much as the buffer size lets
\* through.  The size is read anew: with 0 or 1 the length to copy is negative,
\* which the program does not survive; with 2 nothing is ever left over.
CutFrame ==
  /\ lock # Free /\ lock.made = "no"
  /\ size >= 2
  /\ \E made \in {"more", "last"} :
        /\ made = "more" => \E n \in Counts : lock.i < n
        /\ made = "last" => lock.i \in Counts /\ size > 2
        /\ lock' = [lock EXCEPT !.made = made]
  /\ UNCHANGED <<cell, entered, task, module, history>>

\* It is stored, and the mutex released after the last.  A frame that was cut
\* for another size may be found too big, and is dropped as well.
InHand == [m |-> lock.m, i |-> lock.i, last |-> lock.made = "last"]
PutFrame ==
  /\ lock # Free /\ lock.made # "no"
  /\ \/ Store(InHand)
     \/ lock.m \in cut /\ UNCHANGED <<queue, cut>>
  /\ lock' = IF lock.made = "last" THEN Free ELSE [lock EXCEPT !.i = @ + 1, !.made = "no"]
  /\ UNCHANGED <<size, gotAck, rxVars, entered, task, module, missed>>

-----------------------------------------------------------------------------
(***************************************************************************)
(* The monitoring task in CI_CheckSlot.                                    *)
(***************************************************************************)
At(p) == pc' = p /\ UNCHANGED <<busy, out>>

CheckSlot ==
  /\ pc = "away"
  /\ pc' = "top" /\ busy' = FALSE /\ UNCHANGED out
  /\ UNCHANGED <<cell, threads, module, history>>

\* PCMCIA_ResetModule: after too many unknown TPDUs, or when the register
\* shows reserved bits.  The module forgets everything, the slot does not.
ModuleForgets ==
  /\ conn' = FALSE
  /\ unit' = <<>>
  /\ answer' = NoAnswer
  /\ sent' = 0

ResetModule ==
  /\ pc = "top"
  /\ ModuleForgets
  /\ reset' = FALSE
  /\ At("away")
  /\ UNCHANGED <<size, queue, gotAck, rxPending, tpdu, rx, unknown, threads, history>>

\* Read_CI_T and Parse_CI_T_Packet: the next frame of the module's answer.
Reading ==
  /\ pc = "top" /\ ~reset /\ DA
  /\ busy' = TRUE
  /\ answer' = [answer EXCEPT !.i = @ + 1]
  /\ UNCHANGED <<size, queue, threads, conn, unit, sent, cut>>

\* No room for it: what has been collected is forgotten as well, and the next
\* frame is taken for the beginning of an answer.
ReadOverrun ==
  /\ Reading
  /\ tpdu = MaxTpdu
  /\ tpdu' = 0
  /\ rxPending' = FALSE
  /\ missed' = TRUE
  /\ pc' = "end"
  /\ UNCHANGED <<gotAck, rx, unknown, reset, out>>

\* Read_CI_T returns early: the slot is found empty, or the length is less than
\* 3 or more than MAX_CI_TPDU.  Nothing is parsed, and the frame may be gone.
ReadNothing ==
  /\ pc = "top" /\ ~reset /\ DA
  /\ busy' = TRUE
  /\ \E i \in {answer.i, answer.i + 1} : answer' = [answer EXCEPT !.i = i]
  /\ missed' = TRUE
  /\ pc' = "end"
  /\ UNCHANGED <<cell, threads, out, conn, unit, sent, cut>>

ReadPart ==
  /\ Reading
  /\ tpdu < MaxTpdu
  /\ answer.i + 1 < answer.n
  /\ tpdu' = tpdu + 1
  /\ rxPending' = TRUE
  /\ pc' = "end"
  /\ UNCHANGED <<gotAck, rx, unknown, reset, out, missed>>

ReadingLast ==
  /\ Reading
  /\ tpdu < MaxTpdu
  /\ answer.i + 1 = answer.n
  /\ tpdu' = 0
  /\ rxPending' = FALSE
  /\ UNCHANGED missed

\* Mutants of ParseTpdu: dwRXTPDULen is not set to 0; a T_SB that announces
\* data does not count as an acknowledgement.
ParseTpduKeeping ==
  /\ ReadingLast
  /\ tpdu + 1 = answer.n /\ answer.kind # "unknown"
  /\ unknown' = 0
  /\ UNCHANGED reset
  /\ rx' = IF answer.kind = "more" THEN rx + 1 ELSE rx
  /\ gotAck' = TRUE
  /\ out' = IF answer.da THEN <<Rcv>> ELSE <<>>
  /\ pc' = IF out' = <<>> THEN "end" ELSE "reply"
ParseTpduSparing ==
  /\ ReadingLast
  /\ tpdu + 1 = answer.n /\ answer.kind # "unknown"
  /\ unknown' = 0
  /\ UNCHANGED <<reset, rx>>
  /\ gotAck' = ~answer.da
  /\ out' = IF answer.da THEN <<Rcv>> ELSE <<>>
  /\ pc' = IF out' = <<>> THEN "end" ELSE "reply"

\* Parse_TPDU: a part is kept; the last part goes to Parse_SPDU with those
\* before it, and the resource may send a message; the T_SB acknowledges a
\* poll, and asks for a T_RCV if the module has data.
ParseTpdu ==
  /\ ReadingLast
  /\ tpdu + 1 = answer.n /\ answer.kind # "unknown"
  /\ unknown' = 0
  /\ UNCHANGED reset
  /\ rx' = CASE answer.kind = "more" -> rx + 1
             [] answer.kind = "last" -> 0
             [] OTHER -> rx
  /\ gotAck' = TRUE
  /\ \E response \in {<<>>} \cup {<<m>> : m \in Message} :
        /\ response # <<>> => answer.kind = "last"
        /\ out' = response \o (IF answer.da THEN <<Rcv>> ELSE <<>>)
        /\ pc' = IF out' = <<>> THEN "end" ELSE "reply"

\* An unknown TPDU, or the rest of an answer whose beginning was thrown away:
\* nothing after it is looked at.  Padding counts for three.
ParseUnknown ==
  /\ ReadingLast
  /\ tpdu + 1 # answer.n \/ answer.kind = "unknown"
  /\ \E u \in {unknown + 1, 3} :
        /\ unknown' = Min2(u, 3)
        /\ reset' = (u > 2 \/ reset)
  /\ pc' = "end"
  /\ UNCHANGED <<gotAck, rx, out>>

\* What has been parsed is answered: Send_T_DataLong, Send_T_RCV.
Reply ==
  /\ pc = "reply"
  /\ lock = Free
  /\ StoreAll(Head(out))
  /\ out' = Tail(out)
  /\ pc' = IF out' = <<>> THEN "end" ELSE "reply"
  /\ UNCHANGED <<size, gotAck, rxVars, threads, busy, module, missed>>

\* The module has nothing to say: the host may, unless an answer is under way.
NothingToRead ==
  /\ pc = "top" /\ ~reset /\ ~DA
  /\ At(IF rxPending THEN "end" ELSE "send")
  /\ UNCHANGED <<cell, threads, module, history>>

\* With the mutex: the register is read once more.
SendAfterAll ==
  /\ pc = "send" /\ lock = Free
  /\ DA
  /\ At("away")
  /\ UNCHANGED <<cell, threads, module, history>>

\* Mutant of WriteFrame: the queue is not moved up.
WriteFrameStuck ==
  /\ pc = "send" /\ lock = Free
  /\ ~DA /\ queue # <<>> /\ FR
  /\ unit' = Append(unit, Head(queue))
  /\ gotAck' = FALSE
  /\ busy' = TRUE /\ pc' = "end" /\ UNCHANGED out
  /\ UNCHANGED <<size, queue, rxVars, threads, conn, answer, sent, history>>

\* Mutant of WriteFrame: the FREE bit is not waited for.
WriteFrameUnasked ==
  /\ pc = "send" /\ lock = Free
  /\ ~DA /\ queue # <<>>
  /\ unit' = Append(unit, Head(queue))
  /\ queue' = Tail(queue)
  /\ gotAck' = FALSE
  /\ busy' = TRUE /\ pc' = "end" /\ UNCHANGED out
  /\ UNCHANGED <<size, rxVars, threads, conn, answer, sent, history>>

\* CI_ReallyWriteData.
WriteFrame ==
  /\ pc = "send" /\ lock = Free
  /\ ~DA /\ queue # <<>> /\ FR
  /\ unit' = Append(unit, Head(queue))
  /\ queue' = Tail(queue)
  /\ gotAck' = FALSE
  /\ busy' = TRUE /\ pc' = "end" /\ UNCHANGED out
  /\ UNCHANGED <<size, rxVars, threads, conn, answer, sent, history>>

\* The module does not become free: STATUS_ResetCAM.
WriteFails ==
  /\ pc = "send" /\ lock = Free
  /\ ~DA /\ queue # <<>> /\ ~FR
  /\ At("empty")
  /\ UNCHANGED <<cell, threads, module, history>>

NothingToSend ==
  /\ pc = "send" /\ lock = Free
  /\ ~DA /\ queue = <<>>
  /\ At("poll")
  /\ UNCHANGED <<cell, threads, module, history>>

\* Without the mutex: nothing to send and the last poll acknowledged?
PollDue ==
  /\ pc = "poll"
  /\ At(IF queue = <<>> /\ gotAck THEN "pollsend" ELSE "end")
  /\ UNCHANGED <<cell, threads, module, history>>

SendPoll ==
  /\ pc = "pollsend"
  /\ lock = Free
  /\ StoreAll(Poll)
  /\ gotAck' = FALSE
  /\ At("end")
  /\ UNCHANGED <<size, rxVars, threads, module, missed>>

Again ==
  /\ pc = "end"
  /\ pc' = (IF busy \/ DA THEN "top" ELSE "away") /\ busy' = FALSE /\ UNCHANGED out
  /\ UNCHANGED <<cell, threads, module, history>>

-----------------------------------------------------------------------------
(***************************************************************************)
(* Insertion and removal (CI_CheckConfig, CI_ModuleRemoved).               *)
(***************************************************************************)
\* A message that loses its buffer size while a frame of it is in hand, or in
\* the queue, may reach the module damaged.
Touched ==
  {queue[k].m : k \in DOMAIN queue} \cup
  (IF lock # Free /\ lock.made # "no" THEN {lock.m} ELSE {})

\* memset: queue, size and all; the mutex is not taken, and a thread may hold it.
Memset ==
  /\ size' = 0
  /\ queue' = <<>>
  /\ gotAck' = FALSE
  /\ rxPending' = FALSE
  /\ tpdu' = 0
  /\ rx' = 0
  /\ unknown' = 0
  /\ reset' = FALSE
  /\ cut' = IF lock # Free /\ lock.made # "no" THEN {lock.m} ELSE {}
  /\ missed' = FALSE

ModuleInserted ==
  /\ pc = "empty"
  /\ Memset
  /\ ModuleForgets
  /\ At("config")
  /\ UNCHANGED threads

\* CI_CheckConfig then agrees on the buffer size, in the structure itself: it
\* holds the size of the offer, the high byte of what is offered, all of it and
\* at last the smaller of that and MaxSize.  The mutex is not taken.
SetSize(z, next) ==
  /\ size' = z
  /\ cut' = IF z = size THEN cut ELSE cut \cup Touched
  /\ At(next)
  /\ UNCHANGED <<queue, gotAck, rxVars, threads, module, missed>>

SizeComes == pc = "config" /\ SetSize(SizeOfSize, "high")
HighByte == pc = "high" /\ \E z \in Offered : SetSize(256 * (z \div 256), "low")
LowByte ==
  /\ pc = "low"
  /\ \E z \in Offered : 256 * (z \div 256) = size /\ SetSize(z, "check")
\* Mutant of SizeAgreed: the size is compared before it is complete.
SizeAgreedAny == pc = "check" /\ SetSize(Min2(size, MaxSize), "create")
SizeAgreed == pc = "check" /\ size >= MinSize /\ SetSize(Min2(size, MaxSize), "create")

\* An unusable size stays in the structure.
ConfigFails ==
  \/ pc = "config" /\ \E z \in Offered \ {SizeOfSize} : SetSize(z, "empty")
  \/ pc = "check" /\ size < MinSize /\ SetSize(size, "empty")

\* With a size, the connection is asked for.
Configured ==
  /\ pc = "create" /\ lock = Free
  /\ StoreAll(Create)
  /\ At("away")
  /\ UNCHANGED <<size, gotAck, rxVars, threads, module, missed>>

ModuleRemoved ==
  /\ pc = "away"
  /\ Memset
  /\ ModuleForgets
  /\ At("empty")
  /\ UNCHANGED threads

-----------------------------------------------------------------------------
(***************************************************************************)
(* The module, as the code expects it: it answers every message it has     *)
(* received completely, and sends data when it is asked to (T_RCV).  Only   *)
(* data may need more than one frame.                                      *)
(***************************************************************************)
Says(kind, part) ==
  \E da \in BOOLEAN, n \in 1 .. MaxAnswer :
    /\ kind \notin {"more", "last"} => n = 1
    /\ kind = "unknown" => ~da
    /\ answer' = [kind |-> kind, da |-> da, part |-> part, n |-> n, i |-> 0]

CamAnswers ==
  LET m == unit[1].m
  IN \/ /\ m = Create
        /\ conn' = TRUE
        /\ Says("reply", 0)
        /\ UNCHANGED sent
     \/ /\ m # Create /\ conn
        /\ Says("status", 0) \/ Says("unknown", 0)
        /\ UNCHANGED <<conn, sent>>
     \/ /\ m = Rcv /\ conn /\ sent < MaxParts /\ rx < MaxParts
        /\ Says("more", sent)
        /\ sent' = sent + 1
        /\ UNCHANGED conn
     \/ /\ m = Rcv /\ conn
        /\ Says("last", sent)
        /\ sent' = 0
        /\ UNCHANGED conn

\* A message that is not whole, or comes without a connection, is ignored.
CamTakes ==
  /\ Complete /\ ~DA
  /\ unit' = <<>>
  /\ \/ Whole(unit) /\ CamAnswers
     \/ /\ ~Whole(unit) \/ (~conn /\ unit[1].m # Create)
        /\ UNCHANGED <<conn, answer, sent>>
  /\ UNCHANGED <<cell, threads, task, history>>

-----------------------------------------------------------------------------
Read == ReadOverrun \/ ReadNothing \/ ReadPart \/ ParseTpdu \/ ParseUnknown

\* What the task does in CI_CheckSlot as long as the module works.
Serve ==
  \/ CheckSlot \/ Read \/ Reply \/ NothingToRead \/ SendAfterAll \/ WriteFrame
  \/ NothingToSend \/ PollDue \/ SendPoll \/ Again \/ (reset /\ ResetModule)

Sender == CutFrame \/ PutFrame \/ \E t \in Thread : Acquire(t)

Next ==
  \/ \E t \in Thread, m \in Message : Enter(t, m)
  \/ Sender
  \/ Serve
  \/ ResetModule
  \/ WriteFails
  \/ \E t \in Thread : GiveUp(t)
  \/ ModuleInserted
  \/ SizeComes
  \/ HighByte
  \/ LowByte
  \/ SizeAgreed
  \/ ConfigFails
  \/ Configured
  \/ ModuleRemoved
  \/ CamTakes

\* The task never stops, and gets the mutex in the end: the threads send now
\* and then.  The module answers.
Fairness == SF_vars(Serve) /\ WF_vars(Sender) /\ WF_vars(CamTakes)

Spec == Init /\ [][Next]_vars
FairSpec == Spec /\ Fairness

-----------------------------------------------------------------------------
(***************************************************************************)
(* Properties.                                                             *)
(***************************************************************************)
\* What a connected module takes for a message is one message, whole, or has a
\* frame of a message of which CI_WriteData has dropped a frame or which was cut
\* while the buffer size changed: frames of two threads are never mixed, none is
\* sent twice or out of order, and the damage stays with the messages it befell
\* and those their frames run into (SendTransportPacket, CI_WriteData,
\* CI_CheckSlot, and the unlocked CI_ModuleInserted, CI_ModuleRemoved and
\* CI_CheckConfig).
DamageConfined ==
  Complete /\ conn => Whole(unit) \/ \E k \in DOMAIN unit : unit[k].m \in cut

\* The parts of an SPDU that the host has collected are those the module has
\* sent, but for the one under way, as long as the host has read
\* every frame (Read_CI_T, Parse_CI_T_Packet, Parse_TPDU).
PartsAgree ==
  ~missed /\ conn =>
    rx = IF DA /\ answer.kind \in {"more", "last"} THEN answer.part ELSE sent

\* The task itself cuts messages only with a size between the 16 bytes that
\* EN50221 requires and the room of a queue entry, whatever modules offer and
\* whenever they come and go (CI_CheckConfig, Send_T_CREATE, CI_CheckSlot).
TaskSized == pc \notin {"empty", "config", "high", "low", "check"} => size \in MinSize .. MaxSize

\* As long as nothing was dropped or unintelligible, the host hears from a
\* connected module again, whatever the threads send: polling does not stop.
Disturbed == ~conn \/ pc = "empty" \/ cut # {} \/ missed \/ unknown > 0
PollingGoesOn == conn /\ ~gotAck ~> gotAck \/ Disturbed

\* The queue and the module's buffer are the channel that CiChannel describes
\* (what SendTransportPacket's callers rely on): a message is in the channel as
\* long as its last frame is in the queue.
Ended(q) ==
  LET ended[k \in 0 .. Len(q)] ==
        IF k = 0 THEN <<>>
        ELSE IF q[k].last THEN Append(ended[k - 1], q[k].m) ELSE ended[k - 1]
  IN ended[Len(q)]
FrontMessage ==
  IF ~Complete THEN None
  ELSE IF DamageConfined THEN unit[Len(unit)].m ELSE "damaged"
Channel == INSTANCE CiChannel WITH
  Messages <- Msg,
  channel <- Ended(queue),
  front <- FrontMessage
ImplementsChannel == Channel!Spec

(***************************************************************************)
(* What comments of the code say and the code does not do.                 *)
(***************************************************************************)
\* The size is at least the 16 bytes that EN50221 requires whenever a message is
\* cut: SendTransportPacket tests that before it takes the mutex, CI_CheckConfig
\* refuses anything less.  A removal clears it under a thread that has passed the
\* test.
SizeKept == lock # Free => size >= MinSize
=============================================================================
