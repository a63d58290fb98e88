------------------------------ MODULE TunerLoop ------------------------------
(***************************************************************************)
(* The tuners (tuner/): the task Tuner_process, which locks every channel  *)
(* again when its parameters have changed or its signal is lost, and the   *)
(* thread that sets and stores the parameters.  The two share stXParams    *)
(* without a lock; the task keeps its own copy of what it has noticed,     *)
(* stXOldParams.  A restart loads the parameters from their file.          *)
(***************************************************************************)
EXTENDS Naturals, FiniteSets

CONSTANTS
  Channels,   \* DTV4U_TUNER_CHAN_NUM
  Value,      \* the values of a parameter
  Zero,       \* what memset leaves
  Default,    \* what XParamInit sets
  Unreadable, \* stands for a file that cannot be read
  NotSet,     \* stands for the parameters of a chip after its reset
  Types,      \* bound: the tuners that may be fitted
  SetChannel, \* bound: the channels that are set and scanned again
  MaxStarts,  \* bound: the number of restarts
  Waits       \* is a channel set again only after the task has noticed?

Channel == 1 .. Channels
Type == {"C", "S2", "DTMB"}

\* What a tuner is given to lock a signal: the bandwidth of DTMB stands where
\* the others have the symbol rate, and the LNB frequency of a satellite tuner,
\* which is written, compared and read as its symbol rate is, goes with it ...
Field == {"frequency", "symbolRate"}
\* ... and what the task compares to notice a change.
Watched(t) == IF t = "S2" THEN Field ELSE {"frequency"}

Setting == Value \cup {Zero}

ASSUME TunerAssumption ==
  /\ Channels \in Nat \ {0}
  /\ Default \in Value
  /\ Zero \notin Value
  /\ SetChannel \in SUBSET Channel
  /\ Unreadable \notin [Channel -> [Field -> Setting]]
  /\ NotSet \notin [Field -> Setting]
  /\ Types \in SUBSET Type
  /\ MaxStarts \in Nat
  /\ Waits \in BOOLEAN

VARIABLES
  type,        \* u32TunerType
  \* parameters
  param,       \* stCParams, stS2Params, stDTMBParams
  old,         \* stCOldParams, stS2OldParams, stDTMBOldParams
  file,        \* the configuration file
  \* the thread that sets them
  call,        \* the call in progress
  rest,        \* the fields it has still to write
  \* Tuner_process
  task,        \* where it is, at which channel, and why it locks
  todo,        \* the fields it has still to copy or to read
  local,       \* the search parameters it has read
  unlocked,    \* bUnlockFlag
  lockStatus,  \* b_LockStatuts
  freqChanged, \* b_IsLockFreqChange
  tuned,       \* the parameters each chip's driver was handed last
  starts       \* history: restarts so far

parameters == <<type, param, old, file>>
setter == <<call, rest>>
process == <<task, todo, local, unlocked, lockStatus, freqChanged>>
vars == <<parameters, setter, process, tuned, starts>>

Params == [Channel -> [Field -> Setting]]
All(v) == [c \in Channel |-> [f \in Field |-> v]]

Places == {"compare", "copy", "reset", "read", "lock", "flag", "check", "led"}

TypeOK ==
  /\ type \in Type
  /\ param \in Params
  /\ old \in Params
  /\ file \in Params \cup {Unreadable}
  /\ call \in {"idle", "set", "default", "store"}
  /\ rest \subseteq Channel \X Field
  /\ task \in [at : Places, chan : Channel, why : {"change", "lost"}]
  /\ todo \subseteq Field
  /\ local \in [Field -> Setting]
  /\ unlocked \in BOOLEAN
  /\ lockStatus \in [Channel -> BOOLEAN]
  /\ freqChanged \in [Channel -> BOOLEAN]
  /\ tuned \in [Channel -> [Field -> Setting] \cup {NotSet}]
  /\ starts \in Nat

(***************************************************************************)
(* Tuner_init: chips reset, parameters restored.  A file that cannot be    *)
(* read is replaced by the defaults; the tuner for DTMB sets and stores    *)
(* those of DVB-C instead, which leaves its own at zero.                   *)
(***************************************************************************)

\* Mutant of Restored: parameters are not set to their defaults.
RestoredZero(f) == IF f # Unreadable THEN f ELSE All(Zero)

Restored(f) == IF f # Unreadable THEN f
               ELSE IF type = "DTMB" THEN All(Zero) ELSE All(Default)
RestoredOld(f) == IF f # Unreadable THEN f ELSE All(Zero)
MayStore(f) == IF f = Unreadable /\ type # "DTMB" THEN {f, All(Default)} ELSE {f}

Start == [at |-> "compare", chan |-> 1, why |-> "change"]
NoFields == [f \in Field |-> Zero]
Off == [c \in Channel |-> FALSE]

\* The first start: there is no file yet.
Init ==
  /\ type \in Types
  /\ param = Restored(Unreadable)
  /\ old = RestoredOld(Unreadable)
  /\ file \in MayStore(Unreadable)
  /\ call = "idle" /\ rest = {}
  /\ task = Start /\ todo = {} /\ local = NoFields
  /\ unlocked = FALSE /\ lockStatus = Off /\ freqChanged = Off
  /\ tuned = [c \in Channel |-> NotSet]
  /\ starts = 0

\* The power fails and comes back, at any moment.
Restart ==
  /\ starts < MaxStarts
  /\ UNCHANGED type
  /\ param' = Restored(file)
  /\ old' = RestoredOld(file)
  /\ file' \in MayStore(file)
  /\ call' = "idle" /\ rest' = {}
  /\ task' = Start /\ todo' = {} /\ local' = NoFields
  /\ unlocked' = FALSE /\ lockStatus' = Off /\ freqChanged' = Off
  /\ tuned' = [c \in Channel |-> NotSet]
  /\ starts' = starts + 1

(***************************************************************************)
(* Tuner_c_SetLockParam, Tuner_s2SetParameter, Tuner_dtmb_SetLockParam of  *)
(* one channel and Tuner_Default of all: field by field, then the file.    *)
(***************************************************************************)
Noticed(c) == \A f \in Watched(type) : old[c][f] = param[c][f]

SetParam(c) ==
  /\ call = "idle"
  /\ Waits => Noticed(c)
  /\ call' = "set"
  /\ rest' = {c} \X Field
  /\ UNCHANGED <<parameters, process, tuned, starts>>

SetDefault ==
  /\ call = "idle"
  /\ Waits => \A c \in Channel : Noticed(c)
  /\ call' = "default"
  /\ rest' = Channel \X Field
  /\ UNCHANGED <<parameters, process, tuned, starts>>

WriteField(c, f) ==
  /\ <<c, f>> \in rest
  /\ \A r \in rest : c <= r[1]
  /\ \E v \in IF call = "set" THEN Value ELSE {Default} :
       param' = [param EXCEPT ![c][f] = v]
  /\ rest' = rest \ {<<c, f>>}
  /\ call' = IF rest' = {} THEN "store" ELSE call
  /\ UNCHANGED <<type, old, file, process, tuned, starts>>

\* Tuner_X_StoreParam: an error of PARAM_WriteFile is logged.
StoreParam ==
  /\ call = "store"
  /\ call' = "idle"
  /\ file' \in {param, file, Unreadable}
  /\ UNCHANGED <<type, param, old, rest, process, tuned, starts>>

(***************************************************************************)
(* Tuner_process                                                           *)
(***************************************************************************)
At(c, place) == task.at = place /\ task.chan = c
Goto(place) == task' = [task EXCEPT !.at = place]

\* Tuner_lockSignal: the tuner for satellites is reset and initialised first.
LockSignal(why) ==
  /\ task' = [task EXCEPT !.at = IF type = "S2" THEN "reset" ELSE "read",
                          !.why = why]
  /\ todo' = Field

\* Mutant of Advance: one channel too far.
AdvanceFar ==
  task' = IF task.chan <= Channels
          THEN [at |-> "compare", chan |-> task.chan + 1, why |-> "change"]
          ELSE [at |-> "led", chan |-> Channels, why |-> "change"]

\* To the next channel, or to the LED after the last.
Advance ==
  task' = IF task.chan < Channels
          THEN [at |-> "compare", chan |-> task.chan + 1, why |-> "change"]
          ELSE [at |-> "led", chan |-> Channels, why |-> "change"]

\* Tuner_IslockParamChange.
Compare(c) ==
  /\ At(c, "compare")
  /\ \/ Noticed(c) /\ Goto("check") /\ UNCHANGED todo
     \/ ~Noticed(c) /\ Goto("copy") /\ todo' = Watched(type)
  /\ UNCHANGED <<parameters, setter, local, unlocked, lockStatus, freqChanged,
                 tuned, starts>>

\* Mutant of CopyField: the programs are scanned again before the lock.
CopyFieldFlag(c, f) ==
  /\ At(c, "copy")
  /\ f \in todo
  /\ old' = [old EXCEPT ![c][f] = param[c][f]]
  /\ freqChanged' = [freqChanged EXCEPT ![c] = TRUE]
  /\ IF todo = {f} THEN LockSignal("change")
                   ELSE todo' = todo \ {f} /\ UNCHANGED task
  /\ UNCHANGED <<type, param, file, setter, local, unlocked, lockStatus,
                 tuned, starts>>

CopyField(c, f) ==
  /\ At(c, "copy")
  /\ f \in todo
  /\ old' = [old EXCEPT ![c][f] = param[c][f]]
  /\ IF todo = {f} THEN LockSignal("change")
                   ELSE todo' = todo \ {f} /\ UNCHANGED task
  /\ UNCHANGED <<type, param, file, setter, local, unlocked, lockStatus,
                 freqChanged, tuned, starts>>

\* Tuner_reset and Tuner_initial, which loads the chip's firmware.
ResetChip(c) ==
  /\ At(c, "reset")
  /\ Goto("read")
  /\ tuned' = [tuned EXCEPT ![c] = NotSet]
  /\ UNCHANGED <<parameters, setter, todo, local, unlocked, lockStatus,
                 freqChanged, starts>>

\* Tuner_X_lockSignal fills the search parameters ...
ReadField(c, f) ==
  /\ At(c, "read")
  /\ f \in todo
  /\ local' = [local EXCEPT ![f] = param[c][f]]
  /\ todo' = todo \ {f}
  /\ IF todo' = {} THEN Goto("lock") ELSE UNCHANGED task
  /\ UNCHANGED <<parameters, setter, unlocked, lockStatus, freqChanged,
                 tuned, starts>>

\* Mutants of LockChip: a lost channel is locked until it has a signal; what has
\* been served is copied after the search.
LockChipStay(c) ==
  /\ At(c, "lock")
  /\ tuned' = [tuned EXCEPT ![c] = local]
  /\ local' = NoFields
  /\ Goto(IF task.why = "change" THEN "flag" ELSE "check")
  /\ UNCHANGED <<parameters, setter, todo, unlocked, lockStatus,
                 freqChanged, starts>>
LockChipCopy(c) ==
  /\ At(c, "lock")
  /\ tuned' = [tuned EXCEPT ![c] = local]
  /\ old' = [old EXCEPT ![c] = param[c]]
  /\ local' = NoFields
  /\ IF task.why = "change" THEN Goto("flag") ELSE Advance
  /\ UNCHANGED <<type, param, file, setter, todo, unlocked, lockStatus,
                 freqChanged, starts>>

\* ... and the driver is handed them; the chip searches, for seconds.  What the
\* driver makes of them is not looked at: its result is thrown away, also when it
\* gives up before the chip has anything (MxL608_Lock, Avl6211_LockSignal).
LockChip(c) ==
  /\ At(c, "lock")
  /\ tuned' = [tuned EXCEPT ![c] = local]
  /\ local' = NoFields
  /\ IF task.why = "change" THEN Goto("flag") ELSE Advance
  /\ UNCHANGED <<parameters, setter, todo, unlocked, lockStatus,
                 freqChanged, starts>>

\* Tuner_SetLockFreqChangeFlag.
Flag(c) ==
  /\ At(c, "flag")
  /\ Goto("check")
  /\ freqChanged' = [freqChanged EXCEPT ![c] = TRUE]
  /\ UNCHANGED <<parameters, setter, todo, local, unlocked, lockStatus,
                 tuned, starts>>

\* Tuner_isChannelLock: go on, or lock again.  A signal comes and goes; a chip
\* that has been given nothing has none.
FoundLocked(c) ==
  /\ At(c, "check")
  /\ tuned[c] # NotSet
  /\ lockStatus' = [lockStatus EXCEPT ![c] = TRUE]
  /\ Advance
  /\ UNCHANGED <<parameters, setter, todo, local, unlocked, freqChanged,
                 tuned, starts>>

FoundUnlocked(c) ==
  /\ At(c, "check")
  /\ unlocked' = TRUE
  /\ lockStatus' = [lockStatus EXCEPT ![c] = FALSE]
  /\ LockSignal("lost")
  /\ UNCHANGED <<parameters, setter, local, freqChanged, tuned, starts>>

\* Mutant of Led: the next turn does not begin afresh.
LedStuck ==
  /\ task.at = "led"
  /\ task' = Start
  /\ UNCHANGED <<parameters, setter, todo, local, unlocked, lockStatus,
                 freqChanged, tuned, starts>>

\* The LED is orange if unlocked, green if not, and the next turn begins.
Led ==
  /\ task.at = "led"
  /\ unlocked' = FALSE
  /\ task' = Start
  /\ UNCHANGED <<parameters, setter, todo, local, lockStatus, freqChanged,
                 tuned, starts>>

Tune(c) ==
  \/ Compare(c) \/ ResetChip(c) \/ LockChip(c) \/ Flag(c)
  \/ FoundLocked(c) \/ FoundUnlocked(c)
  \/ \E f \in Field : CopyField(c, f) \/ ReadField(c, f)

(***************************************************************************)
(* Who scans the programs, and the whole                                   *)
(***************************************************************************)
\* Tuner_ClearLockFreqChangeFlag, by whoever scans the programs again.
ClearFlag(c) ==
  /\ freqChanged[c]
  /\ freqChanged' = [freqChanged EXCEPT ![c] = FALSE]
  /\ UNCHANGED <<parameters, setter, task, todo, local, unlocked, lockStatus,
                 tuned, starts>>

Setter ==
  \/ \E c \in SetChannel : SetParam(c)
  \/ SetDefault
  \/ StoreParam
  \/ \E c \in Channel, f \in Field : WriteField(c, f)

TunerProcess == Led \/ \E c \in Channel : Tune(c)

Next ==
  \/ Setter
  \/ TunerProcess
  \/ Restart
  \/ \E c \in SetChannel : ClearFlag(c)

Spec == Init /\ [][Next]_vars

\* The task never stops.
FairSpec == Spec /\ WF_vars(TunerProcess)

(***************************************************************************)
(* Properties                                                              *)
(***************************************************************************)
\* The driver was handed the parameters as they are set, those the task watches.
Agrees(c) ==
  /\ tuned[c] # NotSet
  /\ \A f \in Watched(type) : tuned[c][f] = param[c][f]

Serving(c) == task.chan = c /\ task.at \in {"copy", "reset", "read", "lock"}

\* When the task takes a channel for served whose driver was handed parameters,
\* it was handed them as they are: no change is taken for served that was not,
\* although fields are written while others are compared, copied, read and searched
\* for (Tuner_IslockParamChange, Tuner_lockSignal).  Without Waits this does not
\* hold: a field that is changed and set back before the next comparison.
Served ==
  \A c \in Channel :
    tuned[c] # NotSet /\ Noticed(c) /\ ~Serving(c) => Agrees(c)

\* Programs are scanned again only after the driver was handed the parameters
\* that were noticed (the order of Tuner_lockSignal and
\* Tuner_SetLockFreqChangeFlag in Tuner_process).
ScanAfterLock ==
  [][\A c \in Channel :
       ~freqChanged[c] /\ freqChanged'[c] /\ Noticed(c) => Agrees(c)]_vars

\* The LED is green after a turn in which every channel was found locked, and
\* only then (bUnlockFlag of Tuner_process, over all channels).
LedTruthful ==
  task.at = "led" => (unlocked <=> \E c \in Channel : ~lockStatus[c])

\* After a start without a readable file no channel is left with zeroed
\* parameters (Tuner_c_RestoreParam, Tuner_s2_RestoreParam).
NeverZeroed ==
  type # "DTMB" => \A c \in Channel, f \in Field : param[c][f] # Zero

\* If the parameters are left alone in the end, every driver is handed them, again
\* and again while its chip has no signal.
ChangeServed ==
  <>[][FALSE]_<<param, starts>> => \A c \in Channel : []<>Agrees(c)
=============================================================================
