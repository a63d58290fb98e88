--------------------------- MODULE TunerLoop_proofs ---------------------------
(***************************************************************************)
(* Proofs about TunerLoop for any number of channels, values and restarts, *)
(* whichever channels are set.                                             *)
(***************************************************************************)
EXTENDS TunerLoop, TLAPS

\* A field that is still to be written has been noticed as it is.
Unwritten ==
  Waits => \A c \in Channel, f \in Watched(type) :
             <<c, f>> \in rest => old[c][f] = param[c][f]

\* A noticed field is in the chip (its driver's hands), if any is.
InChip ==
  Waits => \A c \in Channel, f \in Watched(type) :
             /\ ~Serving(c)
             /\ tuned[c] # NotSet
             /\ old[c][f] = param[c][f]
             => tuned[c][f] = param[c][f]

\* A noticed field that has been read has been read as it is.
InHand ==
  Waits => \A f \in Watched(type) :
             /\ task.at = "lock" \/ (task.at = "read" /\ f \notin todo)
             /\ old[task.chan][f] = param[task.chan][f]
             => local[f] = param[task.chan][f]

\* The driver of a chip that has just searched was handed parameters.
FlagGiven == task.at = "flag" => tuned[task.chan] # NotSet

\* A reset comes before anything is read.
ReadAfter == task.at = "reset" => todo = Field

IInv == TypeOK /\ Unwritten /\ InChip /\ InHand /\ FlagGiven /\ ReadAfter

LEMMA WatchedFields == ASSUME NEW t PROVE Watched(t) \subseteq Field
  BY DEF Watched, Field

LEMMA SettingFacts ==
  /\ Default \in Setting /\ Zero \in Setting /\ Value \subseteq Setting
  /\ NotSet \notin [Field -> Setting]
  /\ Unreadable \notin [Channel -> [Field -> Setting]]
  /\ 1 \in Channel /\ Channels \in Channel
  /\ \A c \in Channel : c < Channels => c + 1 \in Channel
  /\ NoFields \in [Field -> Setting]
  /\ All(Zero) \in Params /\ All(Default) \in Params
  /\ Off \in [Channel -> BOOLEAN]
  BY TunerAssumption DEF Setting, Channel, NoFields, All, Params, Off

LEMMA StartType == Start \in [at : Places, chan : Channel, why : {"change", "lost"}]
  BY SettingFacts DEF Start, Places

\* What a start with a good or an unreadable file leaves.
LEMMA RestoredType ==
  ASSUME NEW f \in Params \cup {Unreadable}
  PROVE  /\ Restored(f) \in Params /\ RestoredOld(f) \in Params
         /\ \A g \in MayStore(f) : g \in Params \cup {Unreadable}
  BY SettingFacts DEF Restored, RestoredOld, MayStore

LEMMA InitHolds == Init => IInv
<1> SUFFICES ASSUME Init PROVE IInv
  OBVIOUS
<1>1. TypeOK
  BY RestoredType, SettingFacts, StartType, TunerAssumption DEF Init, TypeOK
<1>2. Unwritten /\ InChip /\ InHand /\ FlagGiven /\ ReadAfter
  BY DEF Init, Unwritten, InChip, InHand, FlagGiven, ReadAfter, Start, Off
<1> QED
  BY <1>1, <1>2 DEF IInv

LEMMA RestartKeeps ==
  ASSUME IInv, Restart
  PROVE  IInv'
<1>1. TypeOK'
  <2>1. file \in Params \cup {Unreadable} /\ type \in Type /\ starts \in Nat
    BY DEF IInv, TypeOK
  <2>2. /\ param' \in Params' /\ old' \in Params' /\ file' \in Params' \cup {Unreadable}
    BY <2>1, RestoredType DEF Restart, Params
  <2>3. task' = Start /\ local' = NoFields /\ lockStatus' = Off /\ freqChanged' = Off
    BY DEF Restart
  <2>4. /\ call' = "idle" /\ rest' = {} /\ todo' = {} /\ unlocked' = FALSE
        /\ starts' \in Nat /\ type' \in Type
        /\ tuned' \in [Channel -> [Field -> Setting] \cup {NotSet}]
    BY <2>1 DEF Restart
  <2> QED
    BY <2>2, <2>3, <2>4, SettingFacts, StartType DEF TypeOK
<1>2. (Unwritten /\ InChip /\ InHand /\ FlagGiven /\ ReadAfter)'
  BY DEF Restart, Unwritten, InChip, InHand, FlagGiven, ReadAfter, Start, Off
<1> QED
  BY <1>1, <1>2 DEF IInv

LEMMA SetterKeeps ==
  ASSUME IInv, Setter
  PROVE  IInv'
<1>1. UNCHANGED <<process, tuned, type, starts, old>>
  BY DEF Setter, SetParam, SetDefault, StoreParam, WriteField, parameters
<1>2. CASE UNCHANGED param /\ rest' = rest
  <2>1. file' \in Params \cup {Unreadable} /\ call' \in {"idle", "set", "default", "store"}
    BY <1>2 DEF IInv, TypeOK, Setter, SetParam, SetDefault, StoreParam, WriteField, parameters, setter
  <2> QED
    BY <1>1, <1>2, <2>1 DEF IInv, TypeOK, Params, Unwritten, InChip, Serving, InHand, FlagGiven, ReadAfter, process
<1>3. CASE \E c \in SetChannel : SetParam(c)
  <2> PICK c \in SetChannel : SetParam(c)
    BY <1>3
  <2>1. /\ UNCHANGED parameters /\ call' = "set" /\ rest' = {c} \X Field
        /\ Waits => Noticed(c) /\ c \in Channel
    BY TunerAssumption DEF SetParam
  <2>2. TypeOK' /\ (InChip /\ InHand /\ FlagGiven /\ ReadAfter)'
    BY <1>1, <2>1, TunerAssumption DEF IInv, TypeOK, Params, InChip, Serving, InHand, FlagGiven, ReadAfter, process, parameters
  <2>3. Unwritten'
    BY <2>1 DEF Unwritten, Noticed, parameters
  <2> QED
    BY <2>2, <2>3 DEF IInv
<1>4. CASE SetDefault
  <2>1. /\ UNCHANGED parameters /\ call' = "default" /\ rest' = Channel \X Field
        /\ Waits => \A c \in Channel : Noticed(c)
    BY <1>4 DEF SetDefault
  <2>2. TypeOK' /\ (InChip /\ InHand /\ FlagGiven /\ ReadAfter)'
    BY <1>1, <2>1 DEF IInv, TypeOK, Params, InChip, Serving, InHand, FlagGiven, ReadAfter, process, parameters
  <2>3. Unwritten'
    BY <2>1 DEF Unwritten, Noticed, parameters
  <2> QED
    BY <2>2, <2>3 DEF IInv
<1>5. CASE \E c \in Channel, f \in Field : WriteField(c, f)
  <2> PICK c \in Channel, f \in Field : WriteField(c, f)
    BY <1>5
  <2>1. PICK v \in Setting : param' = [param EXCEPT ![c][f] = v]
    BY SettingFacts DEF WriteField
  <2>2. /\ <<c, f>> \in rest /\ rest' = rest \ {<<c, f>>} /\ file' = file
        /\ call' \in {"idle", "set", "default", "store"}
    BY DEF WriteField, IInv, TypeOK
  <2>3. param \in [Channel -> [Field -> Setting]] /\ param' \in [Channel -> [Field -> Setting]]
    BY <2>1 DEF IInv, TypeOK, Params
  <2>4. \A d \in Channel, g \in Field : <<d, g>> # <<c, f>> => param'[d][g] = param[d][g]
    BY <2>1, <2>3
  <2>5. Waits /\ f \in Watched(type) => old[c][f] = param[c][f]
    BY <2>2 DEF IInv, Unwritten
  <2>6. TypeOK' /\ FlagGiven' /\ ReadAfter'
    BY <1>1, <2>2, <2>3 DEF IInv, TypeOK, Params, FlagGiven, ReadAfter, process
  <2>7. Unwritten'
    BY <1>1, <2>2, <2>4, WatchedFields DEF IInv, Unwritten
  <2>8. InChip'
    BY <1>1, <2>4, <2>5, WatchedFields DEF IInv, InChip, Serving, process
  <2>9. InHand'
    BY <1>1, <2>4, <2>5, WatchedFields DEF IInv, TypeOK, InHand, process
  <2> QED
    BY <2>6, <2>7, <2>8, <2>9 DEF IInv
<1>6. CASE StoreParam
  BY <1>2, <1>6 DEF StoreParam
<1> QED
  BY <1>3, <1>4, <1>5, <1>6 DEF Setter

LEMMA ThisChannel ==
  ASSUME TypeOK, NEW c \in Channel, task.chan = c
  PROVE  /\ \A d \in Channel : Serving(d) <=> d = c /\ task.at \in {"copy", "reset", "read", "lock"}
         /\ Watched(type) \subseteq Field
         /\ param \in [Channel -> [Field -> Setting]]
         /\ old \in [Channel -> [Field -> Setting]]
         /\ local \in [Field -> Setting]
         /\ tuned \in [Channel -> [Field -> Setting] \cup {NotSet}]
  BY WatchedFields DEF Serving, TypeOK, Params

\* A step of the task that changes its place and its flags only, and does not
\* say it has locked, read or searched.
LEMMA MoveKeeps ==
  ASSUME IInv, UNCHANGED <<parameters, setter, tuned, starts>>,
         task' \in [at : Places, chan : Channel, why : {"change", "lost"}],
         todo' \subseteq Field, local' \in [Field -> Setting],
         unlocked' \in BOOLEAN, lockStatus' \in [Channel -> BOOLEAN],
         freqChanged' \in [Channel -> BOOLEAN],
         \A c \in Channel : Serving(c) => Serving(c)',
         task'.at # "lock", task'.at \in {"reset", "read"} => todo' = Field,
         task'.at = "flag" => task.at = "flag" /\ task'.chan = task.chan
  PROVE  IInv'
<1>1. TypeOK'
  BY DEF IInv, TypeOK, Params, parameters, setter
<1>2. Unwritten' /\ FlagGiven' /\ ReadAfter'
  BY DEF IInv, Unwritten, FlagGiven, ReadAfter, parameters, setter
<1>3. InChip'
  BY DEF IInv, InChip, parameters
<1>4. InHand'
  BY WatchedFields DEF IInv, InHand, parameters
<1> QED
  BY <1>1, <1>2, <1>3, <1>4 DEF IInv

LEMMA LockSignalType ==
  ASSUME TypeOK, NEW why \in {"change", "lost"}, LockSignal(why)
  PROVE  /\ task' \in [at : Places, chan : Channel, why : {"change", "lost"}]
         /\ task'.at \in {"reset", "read"} /\ task'.chan = task.chan
         /\ todo' = Field
  BY DEF TypeOK, LockSignal, Places

LEMMA AdvanceType ==
  ASSUME TypeOK, Advance
  PROVE  /\ task' \in [at : Places, chan : Channel, why : {"change", "lost"}]
         /\ task'.at \in {"compare", "led"}
  BY SettingFacts DEF TypeOK, Advance, Places, Channel

LEMMA GotoType ==
  ASSUME TypeOK, NEW p \in Places, Goto(p)
  PROVE  /\ task' \in [at : Places, chan : Channel, why : {"change", "lost"}]
         /\ task'.at = p /\ task'.chan = task.chan
  BY DEF TypeOK, Goto

LEMMA MovesKeep ==
  ASSUME IInv, NEW c \in Channel, Compare(c) \/ Flag(c) \/ FoundLocked(c) \/ FoundUnlocked(c)
  PROVE  IInv'
<1>1. TypeOK /\ task.chan = c
  BY DEF IInv, Compare, Flag, FoundLocked, FoundUnlocked, At
<1>2. /\ UNCHANGED <<parameters, setter, tuned, starts>>
      /\ local' = local /\ task.at \notin {"copy", "reset", "read", "lock"}
      /\ unlocked' \in BOOLEAN /\ lockStatus' \in [Channel -> BOOLEAN]
      /\ freqChanged' \in [Channel -> BOOLEAN]
  BY <1>1 DEF TypeOK, Compare, Flag, FoundLocked, FoundUnlocked, At
<1>3. /\ task' \in [at : Places, chan : Channel, why : {"change", "lost"}]
      /\ todo' \subseteq Field
      /\ task'.at # "lock" /\ task'.at # "flag"
      /\ task'.at \in {"reset", "read"} => todo' = Field
  <2>1. CASE Compare(c)
    BY <1>1, <2>1, GotoType, WatchedFields DEF TypeOK, Compare, Places
  <2>2. CASE Flag(c)
    BY <1>1, <2>2, GotoType DEF TypeOK, Flag, Places
  <2>3. CASE FoundLocked(c)
    BY <1>1, <2>3, AdvanceType DEF TypeOK, FoundLocked
  <2>4. CASE FoundUnlocked(c)
    BY <1>1, <2>4, LockSignalType DEF FoundUnlocked
  <2> QED
    BY <2>1, <2>2, <2>3, <2>4
<1>4. \A d \in Channel : ~Serving(d)
  BY <1>2 DEF Serving
<1> QED
  BY <1>1, <1>2, <1>3, <1>4, MoveKeeps DEF TypeOK

LEMMA LedKeeps ==
  ASSUME IInv, Led
  PROVE  IInv'
<1>1. \A d \in Channel : ~Serving(d)
  BY DEF Serving, Led
<1>2. Start.at = "compare"
  BY DEF Start
<1> QED
  BY <1>1, <1>2, StartType, MoveKeeps DEF IInv, TypeOK, Led

LEMMA CopyKeeps ==
  ASSUME IInv, NEW c \in Channel, NEW f \in Field, CopyField(c, f)
  PROVE  IInv'
<1>1. TypeOK /\ task.chan = c /\ task.at = "copy" /\ f \in todo
  BY DEF IInv, CopyField, At
<1>2. old' = [old EXCEPT ![c][f] = param[c][f]]
  BY DEF CopyField
<1>3. UNCHANGED <<type, param, file, setter, local, unlocked, lockStatus, freqChanged, tuned, starts>>
  BY DEF CopyField
<1>4. /\ task' \in [at : Places, chan : Channel, why : {"change", "lost"}]
      /\ todo' \subseteq Field
      /\ task'.chan = c
      /\ task'.at \in {"copy", "reset", "read"}
      /\ task'.at \in {"reset", "read"} => todo' = Field
  <2>1. CASE todo = {f}
    BY <1>1, <2>1, LockSignalType DEF CopyField
  <2>2. CASE todo # {f}
    BY <1>1, <2>2 DEF CopyField, TypeOK
  <2> QED
    BY <2>1, <2>2
<1>5. old' \in [Channel -> [Field -> Setting]]
  BY <1>1, <1>2 DEF TypeOK, Params
<1>6. \A d \in Channel, g \in Field : old'[d][g] = old[d][g] \/ (d = c /\ g = f /\ old'[d][g] = param[d][g])
  <2>1. old \in [Channel -> [Field -> Setting]]
    BY <1>1 DEF TypeOK, Params
  <2>2. old'[c] = [old[c] EXCEPT ![f] = param[c][f]] /\ \A d \in Channel : d # c => old'[d] = old[d]
    BY <1>2, <2>1
  <2>3. old[c] \in [Field -> Setting]
    BY <2>1
  <2>4. old'[c][f] = param[c][f] /\ \A g \in Field : g # f => old'[c][g] = old[c][g]
    BY <2>2, <2>3
  <2> QED
    BY <2>2, <2>4
<1>7. TypeOK'
  BY <1>1, <1>3, <1>4, <1>5 DEF TypeOK, Params, setter
<1>8. Unwritten'
  BY <1>3, <1>6, WatchedFields DEF IInv, Unwritten, setter
<1>9. FlagGiven' /\ ReadAfter'
  BY <1>3, <1>4 DEF IInv, FlagGiven, ReadAfter
<1>10. InChip'
  <2>1. \A d \in Channel : ~Serving(d)' => d # c /\ ~Serving(d)
    BY <1>1, <1>4 DEF Serving
  <2>2. \A d \in Channel, g \in Field : d # c => old'[d][g] = old[d][g]
    BY <1>6
  <2> QED
    BY <1>3, <2>1, <2>2, WatchedFields DEF IInv, InChip
<1>11. InHand'
  BY <1>3, <1>4, WatchedFields DEF InHand
<1> QED
  BY <1>7, <1>8, <1>9, <1>10, <1>11 DEF IInv

LEMMA ResetKeeps ==
  ASSUME IInv, NEW c \in Channel, ResetChip(c)
  PROVE  IInv'
<1>1. /\ task.chan = c /\ task.at = "reset" /\ todo = Field
      /\ task' = [task EXCEPT !.at = "read"]
      /\ UNCHANGED <<parameters, setter, todo, local, unlocked, lockStatus, freqChanged, starts>>
  BY DEF IInv, ReadAfter, ResetChip, At, Goto
<1>2. /\ tuned' = [tuned EXCEPT ![c] = NotSet]
      /\ tuned \in [Channel -> [Field -> Setting] \cup {NotSet}]
      /\ task \in [at : Places, chan : Channel, why : {"change", "lost"}]
  BY DEF ResetChip, IInv, TypeOK
<1>3. /\ task' \in [at : Places, chan : Channel, why : {"change", "lost"}]
      /\ task'.at = "read" /\ task'.chan = c
  BY <1>1, <1>2 DEF Places
<1>4. TypeOK'
  BY <1>1, <1>2, <1>3 DEF IInv, TypeOK, Params, parameters, setter
<1>5. Unwritten' /\ FlagGiven' /\ ReadAfter'
  BY <1>1, <1>2, <1>3 DEF IInv, Unwritten, FlagGiven, ReadAfter, parameters, setter
<1>6. InChip'
  <2>1. \A d \in Channel : ~Serving(d)' => d # c /\ ~Serving(d)
    BY <1>1, <1>3 DEF Serving
  <2>2. \A d \in Channel : d # c => tuned'[d] = tuned[d]
    BY <1>2
  <2> QED
    BY <1>1, <2>1, <2>2 DEF IInv, InChip, parameters
<1>7. InHand'
  BY <1>1, <1>3, WatchedFields DEF InHand
<1> QED
  BY <1>4, <1>5, <1>6, <1>7 DEF IInv

LEMMA ReadKeeps ==
  ASSUME IInv, NEW c \in Channel, NEW f \in Field, ReadField(c, f)
  PROVE  IInv'
<1>1. /\ task.chan = c /\ task.at = "read" /\ todo' = todo \ {f}
      /\ local' = [local EXCEPT ![f] = param[c][f]]
      /\ UNCHANGED <<parameters, setter, unlocked, lockStatus, freqChanged, tuned, starts>>
  BY DEF ReadField, At
<1>2. /\ param \in [Channel -> [Field -> Setting]]
      /\ local \in [Field -> Setting]
      /\ task \in [at : Places, chan : Channel, why : {"change", "lost"}]
      /\ todo \subseteq Field
  BY DEF IInv, TypeOK, Params
<1>3. /\ task' \in [at : Places, chan : Channel, why : {"change", "lost"}]
      /\ task'.chan = c
      /\ (task'.at = "lock" /\ todo' = {}) \/ task'.at = "read"
  <2>1. CASE todo' = {}
    BY <1>2, <2>1, <1>1 DEF ReadField, Goto, Places
  <2>2. CASE todo' # {}
    BY <1>2, <2>2, <1>1 DEF ReadField
  <2> QED
    BY <2>1, <2>2
<1>4. /\ local' \in [Field -> Setting] /\ local'[f] = param[c][f]
      /\ \A g \in Field : g # f => local'[g] = local[g]
  BY <1>1, <1>2
<1>5. TypeOK'
  BY <1>1, <1>2, <1>3, <1>4 DEF IInv, TypeOK, Params, parameters, setter
<1>6. Unwritten' /\ FlagGiven' /\ ReadAfter'
  BY <1>1, <1>3 DEF IInv, Unwritten, FlagGiven, ReadAfter, parameters, setter
<1>7. InChip'
  BY <1>1, <1>3 DEF IInv, InChip, Serving, parameters
<1>8. InHand'
  <2>1. ASSUME NEW g \in Watched(type), Waits, g \notin todo', old[c][g] = param[c][g]
        PROVE  local'[g] = param[c][g]
    <3>1. CASE g = f
      BY <3>1, <1>4
    <3>2. CASE g # f
      <4>1. g \in Field /\ g \notin todo
        BY <2>1, <3>2, <1>1, WatchedFields
      <4>2. local[g] = param[c][g]
        BY <2>1, <4>1, <1>1 DEF IInv, InHand
      <4> QED
        BY <4>1, <4>2, <3>2, <1>4
    <3> QED
      BY <3>1, <3>2
  <2>2. UNCHANGED <<type, old, param>>
    BY <1>1 DEF parameters
  <2> QED
    BY <2>1, <2>2, <1>3 DEF InHand
<1> QED
  BY <1>5, <1>6, <1>7, <1>8 DEF IInv

LEMMA LockKeeps ==
  ASSUME IInv, NEW c \in Channel, LockChip(c)
  PROVE  IInv'
<1>1. /\ TypeOK /\ task.chan = c /\ task.at = "lock" /\ local' = NoFields
      /\ tuned' = [tuned EXCEPT ![c] = local]
      /\ UNCHANGED <<parameters, setter, todo, unlocked, lockStatus, freqChanged, starts>>
  BY DEF IInv, LockChip, At
<1>3. /\ tuned \in [Channel -> [Field -> Setting] \cup {NotSet}]
      /\ local \in [Field -> Setting]
  BY <1>1 DEF TypeOK
<1>4. /\ task' \in [at : Places, chan : Channel, why : {"change", "lost"}]
      /\ task'.at \in {"flag", "compare", "led"}
      /\ task'.at = "flag" => task'.chan = c
  BY <1>1, GotoType, AdvanceType DEF LockChip, Places
<1>5. /\ tuned' \in [Channel -> [Field -> Setting] \cup {NotSet}]
      /\ tuned'[c] = local /\ local # NotSet
      /\ \A d \in Channel : d # c => tuned'[d] = tuned[d]
  BY <1>1, <1>3, SettingFacts
<1>6. TypeOK'
  BY <1>1, <1>4, <1>5, SettingFacts DEF TypeOK, Params, parameters, setter
<1>7. Unwritten' /\ FlagGiven' /\ ReadAfter' /\ InHand'
  BY <1>1, <1>4, <1>5 DEF IInv, Unwritten, FlagGiven, ReadAfter, InHand, parameters, setter
<1>8. InChip'
  <2>1. UNCHANGED <<type, old, param>>
    BY <1>1 DEF parameters
  <2>2. ASSUME NEW f \in Watched(type), Waits, old[c][f] = param[c][f]
        PROVE  local[f] = param[c][f]
    <3>1. task.at = "lock" /\ task.chan = c
      BY <1>1
    <3>2. \A g \in Watched(type) : old[c][g] = param[c][g] => local[g] = param[c][g]
      BY <2>2, <3>1 DEF IInv, InHand
    <3> QED
      BY <2>2, <3>2
  <2>3. \A d \in Channel : d # c => ~Serving(d)
    BY <1>1 DEF Serving
  <2> QED
    BY <1>5, <2>1, <2>2, <2>3 DEF IInv, InChip
<1> QED
  BY <1>6, <1>7, <1>8 DEF IInv

LEMMA ClearKeeps ==
  ASSUME IInv, NEW c \in Channel, ClearFlag(c)
  PROVE  IInv'
<1>1. /\ UNCHANGED <<parameters, setter, task, todo, local, unlocked, lockStatus, tuned, starts>>
      /\ freqChanged' \in [Channel -> BOOLEAN]
  BY DEF ClearFlag, IInv, TypeOK
<1> QED
  BY <1>1 DEF IInv, TypeOK, Params, Unwritten, InChip, Serving, InHand, FlagGiven,
              ReadAfter, parameters, setter

LEMMA NextKeeps == IInv /\ [Next]_vars => IInv'
<1> SUFFICES ASSUME IInv, [Next]_vars PROVE IInv'
  OBVIOUS
<1>1. CASE Setter
  BY <1>1, SetterKeeps
<1>2. CASE TunerProcess
  BY <1>2, LedKeeps, MovesKeep, ResetKeeps, LockKeeps, CopyKeeps, ReadKeeps DEF TunerProcess, Tune
<1>3. CASE Restart
  BY <1>3, RestartKeeps
<1>4. CASE \E c \in SetChannel : ClearFlag(c)
  BY <1>4, ClearKeeps, TunerAssumption
<1>5. CASE UNCHANGED vars
  BY <1>5 DEF vars, IInv, TypeOK, Params, Unwritten, InChip, Serving, InHand, FlagGiven,
              ReadAfter, parameters, setter, process
<1> QED
  BY <1>1, <1>2, <1>3, <1>4, <1>5 DEF Next

\* The variables keep their types.
THEOREM TypeCorrect == Spec => []TypeOK
<1>1. IInv => TypeOK
  BY DEF IInv
<1> QED
  BY <1>1, InitHolds, NextKeeps, PTL DEF Spec

\* However the parameters are written, compared, copied and read without a lock,
\* the driver of a channel that the task takes for served was handed the parameters
\* as they are (tuner.c, Tuner_process), if a channel is set again only after the task has
\* noticed the last change.
THEOREM ChangesServed == Waits => (Spec => []Served)
<1> SUFFICES ASSUME Waits PROVE Spec => []Served
  OBVIOUS
<1>1. IInv => Served
  BY DEF IInv, InChip, Served, Noticed, Agrees
<1> QED
  BY <1>1, InitHolds, NextKeeps, PTL DEF Spec

LEMMA FlagAfterLock ==
  ASSUME Waits, IInv, [Next]_vars,
         NEW c \in Channel, ~freqChanged[c], freqChanged'[c], Noticed(c)
  PROVE  Agrees(c)
<1>1. freqChanged \in [Channel -> BOOLEAN]
  BY DEF IInv, TypeOK
<1>2. \E d \in Channel : Flag(d)
  <2>1. freqChanged' # freqChanged
    OBVIOUS
  <2>2. ~Setter /\ ~Led
    BY <2>1 DEF Setter, SetParam, SetDefault, StoreParam, WriteField, Led, process
  <2>3. ~Restart
    BY DEF Restart, Off
  <2>4. ASSUME NEW d \in Channel, Compare(d) \/ ResetChip(d) \/ LockChip(d) \/ FoundLocked(d)
                 \/ FoundUnlocked(d)
                 \/ \E f \in Field : CopyField(d, f) \/ ReadField(d, f)
        PROVE  FALSE
    BY <2>1, <2>4 DEF Compare, ResetChip, LockChip, FoundLocked, FoundUnlocked,
                      CopyField, ReadField, process
  <2>5. ASSUME NEW d \in Channel, ClearFlag(d) PROVE FALSE
    BY <1>1, <2>5 DEF ClearFlag
  <2>6. ~UNCHANGED vars
    BY <2>1 DEF vars, process
  <2> QED
    BY <2>2, <2>3, <2>4, <2>5, <2>6, TunerAssumption DEF Next, TunerProcess, Tune
<1>3. Flag(c)
  BY <1>1, <1>2 DEF Flag
<1>4. task.at = "flag" /\ task.chan = c
  BY <1>3 DEF Flag, At
<1> QED
  BY <1>4 DEF IInv, FlagGiven, InChip, Serving, Noticed, Agrees

\* The programs of a channel are scanned again only after its driver was handed
\* the parameters that were noticed, under the same assumption.
THEOREM ScannedAfterLock == Waits => (Spec => ScanAfterLock)
<1> SUFFICES ASSUME Waits PROVE Spec => ScanAfterLock
  OBVIOUS
<1>1. IInv /\ [Next]_vars
        => [\A c \in Channel :
              ~freqChanged[c] /\ freqChanged'[c] /\ Noticed(c) => Agrees(c)]_vars
  BY FlagAfterLock
<1> QED
  BY <1>1, InitHolds, NextKeeps, PTL DEF Spec, ScanAfterLock

\* The channels the turn has looked at.
Checked(c) ==
  \/ c < task.chan
  \/ task.at = "led"
  \/ c = task.chan /\ task.why = "lost"

\* The flag collects the channels found without a signal.
LedInv ==
  /\ TypeOK
  /\ task.why = "lost" => task.at \in {"reset", "read", "lock"}
  /\ task.at = "led" => task.chan = Channels
  /\ unlocked <=> \E c \in Channel : Checked(c) /\ ~lockStatus[c]

LEMMA LedStep ==
  ASSUME LedInv, TypeOK', [Next]_vars
  PROVE  LedInv'
<1>1. /\ Channels \in Nat /\ task.chan \in 1 .. Channels /\ task.chan \in Nat
      /\ task \in [at : Places, chan : Channel, why : {"change", "lost"}]
      /\ lockStatus \in [Channel -> BOOLEAN] /\ unlocked \in BOOLEAN
      /\ \A c \in Channel : c \in Nat /\ 1 <= c /\ c <= Channels
  BY TunerAssumption DEF LedInv, TypeOK, Channel
<1>2. CASE UNCHANGED <<task, unlocked, lockStatus>>
  BY <1>2 DEF LedInv, Checked
<1>3. CASE Restart \/ Led
  <2>1. /\ task' = Start /\ unlocked' = FALSE
    BY <1>3 DEF Restart, Led
  <2>2. Start.at = "compare" /\ Start.chan = 1 /\ Start.why = "change"
    BY DEF Start
  <2>3. \A c \in Channel : ~Checked(c)'
    BY <1>1, <2>1, <2>2 DEF Checked
  <2> QED
    BY <2>1, <2>2, <2>3 DEF LedInv
<1>4. ASSUME UNCHANGED <<unlocked, lockStatus>>, task.at # "led", task'.at # "led",
             task'.chan = task.chan, task'.why = task.why,
             task'.why = "lost" => task'.at \in {"reset", "read", "lock"}
      PROVE  LedInv'
  BY <1>4 DEF LedInv, Checked
<1>5. CASE \E c \in Channel : Compare(c) \/ Flag(c)
  <2>1. /\ UNCHANGED <<unlocked, lockStatus>> /\ task.at \in {"compare", "flag"}
        /\ task'.at \in {"check", "copy"} /\ task'.chan = task.chan /\ task'.why = task.why
    BY <1>1, <1>5 DEF Compare, Flag, At, Goto
  <2> QED
    BY <2>1, <1>4 DEF LedInv
<1>6. CASE \E c \in Channel : ResetChip(c) \/ \E f \in Field : ReadField(c, f)
  <2>1. /\ UNCHANGED <<unlocked, lockStatus>> /\ task.at \in {"reset", "read"}
        /\ task'.at \in {"read", "lock"} /\ task'.chan = task.chan /\ task'.why = task.why
    BY <1>1, <1>6 DEF ResetChip, ReadField, At, Goto
  <2> QED
    BY <2>1, <1>4
<1>7. CASE \E c \in Channel, f \in Field : CopyField(c, f)
  <2>1. /\ UNCHANGED <<unlocked, lockStatus>> /\ task.at = "copy" /\ task'.chan = task.chan
        /\ task'.at \in {"copy", "reset", "read"} /\ task'.why \in {task.why, "change"}
    BY <1>1, <1>7 DEF CopyField, LockSignal, At
  <2>2. task.why = "change"
    BY <1>1, <2>1 DEF LedInv
  <2> QED
    BY <2>1, <2>2, <1>4
<1>8. ASSUME Advance, task.at # "led", unlocked' = unlocked,
             \A c \in Channel : c < task.chan => lockStatus'[c] = lockStatus[c],
             \/ task.why = "lost" /\ lockStatus' = lockStatus
             \/ task.why # "lost" /\ lockStatus'[task.chan]
      PROVE  LedInv'
  <2>1. /\ task'.why = "change"
        /\ \/ task.chan < Channels /\ task'.at = "compare" /\ task'.chan = task.chan + 1
           \/ task.chan = Channels /\ task'.at = "led" /\ task'.chan = Channels
    BY <1>1, <1>8 DEF Advance
  <2>2. \A c \in Channel : Checked(c)' <=> c <= task.chan
    BY <1>1, <2>1 DEF Checked
  <2>3. \A c \in Channel : Checked(c) <=> (c < task.chan \/ (c = task.chan /\ task.why = "lost"))
    BY <1>8 DEF Checked
  <2>4. (\E c \in Channel : Checked(c) /\ ~lockStatus[c])
          <=> \E c \in Channel : Checked(c)' /\ ~lockStatus'[c]
    BY <1>1, <1>8, <2>2, <2>3
  <2> QED
    BY <1>8, <2>1, <2>4 DEF LedInv
<1>9. CASE \E c \in Channel : FoundLocked(c)
  <2>1. PICK c \in Channel : FoundLocked(c)
    BY <1>9
  <2>2. /\ task.chan = c /\ task.at = "check" /\ unlocked' = unlocked /\ Advance
        /\ lockStatus' = [lockStatus EXCEPT ![c] = TRUE]
    BY <2>1 DEF FoundLocked, At
  <2>3. lockStatus'[c] /\ \A d \in Channel : d # c => lockStatus'[d] = lockStatus[d]
    BY <1>1, <2>2
  <2>4. task.why # "lost" /\ \A d \in Channel : d < task.chan => d # c
    BY <1>1, <2>2 DEF LedInv
  <2> QED
    BY <2>2, <2>3, <2>4, <1>8
<1>10. CASE \E c \in Channel : FoundUnlocked(c)
  <2>1. PICK c \in Channel : FoundUnlocked(c)
    BY <1>10
  <2>2. /\ task.chan = c /\ unlocked' = TRUE /\ ~lockStatus'[c]
        /\ task'.at \in {"reset", "read"} /\ task'.chan = c /\ task'.why = "lost"
    BY <1>1, <2>1 DEF FoundUnlocked, LockSignal, At
  <2>3. Checked(c)'
    BY <2>2 DEF Checked
  <2> QED
    BY <2>2, <2>3 DEF LedInv
<1>11. CASE \E c \in Channel : LockChip(c)
  <2>1. task.at = "lock" /\ UNCHANGED <<unlocked, lockStatus>>
    BY <1>11 DEF LockChip, At
  <2>2. CASE task.why = "change"
    <3>1. task'.at = "flag" /\ task'.chan = task.chan /\ task'.why = task.why
      BY <1>1, <1>11, <2>2 DEF LockChip, Goto
    <3> QED
      BY <2>1, <2>2, <3>1, <1>4
  <2>3. CASE task.why # "change"
    <3>1. Advance /\ task.why = "lost"
      BY <1>1, <1>11, <2>3 DEF LockChip
    <3> QED
      BY <2>1, <3>1, <1>8
  <2> QED
    BY <2>2, <2>3
<1>12. CASE Setter \/ UNCHANGED vars
  BY <1>2, <1>12 DEF Setter, SetParam, SetDefault, StoreParam, WriteField, vars, process
<1>13. CASE \E c \in Channel : ClearFlag(c)
  BY <1>2, <1>13 DEF ClearFlag
<1> QED
  BY <1>3, <1>5, <1>6, <1>7, <1>9, <1>10, <1>11, <1>12, <1>13, TunerAssumption
     DEF Next, TunerProcess, Tune

\* The LED is green after a turn in which every channel was found locked, and
\* only then.
THEOREM LedShowsTurn == Spec => []LedTruthful
<1>1. Init => LedInv
  <2> SUFFICES ASSUME Init PROVE LedInv
    OBVIOUS
  <2>1. TypeOK /\ Start.at = "compare" /\ Start.chan = 1 /\ Start.why = "change"
    BY InitHolds DEF IInv, Start
  <2>2. \A c \in Channel : ~Checked(c)
    BY <2>1, TunerAssumption DEF Init, Checked, Channel
  <2> QED
    BY <2>1, <2>2 DEF Init, LedInv
<1>2. IInv => TypeOK
  BY DEF IInv
<1>3. LedInv => LedTruthful
  <2> SUFFICES ASSUME LedInv, task.at = "led" PROVE unlocked <=> \E c \in Channel : ~lockStatus[c]
    BY DEF LedTruthful
  <2>1. \A c \in Channel : Checked(c)
    BY DEF Checked
  <2> QED
    BY <2>1 DEF LedInv
<1> QED
  BY <1>1, <1>2, <1>3, InitHolds, NextKeeps, LedStep, PTL DEF Spec

(***************************************************************************)
(* No channel is left with zeroed parameters: neither those that are set   *)
(* nor those in the file, which a restart brings back, are ever zero.      *)
(***************************************************************************)
NoZero(p) == \A c \in Channel, f \in Field : p[c][f] # Zero

Filled == type # "DTMB" => NoZero(param) /\ (file = Unreadable \/ NoZero(file))

\* The defaults are parameters without a zero.
LEMMA DefaultsFilled == NoZero(All(Default))
BY TunerAssumption DEF NoZero, All

\* What a start makes of a file without zeroes, or of none.
LEMMA StartFilled ==
  ASSUME type # "DTMB", NEW f, f = Unreadable \/ NoZero(f)
  PROVE  /\ NoZero(Restored(f))
         /\ \A g \in MayStore(f) : g = Unreadable \/ NoZero(g)
<1>1. NoZero(Restored(f))
  BY DefaultsFilled DEF Restored
<1>2. ASSUME NEW g \in MayStore(f) PROVE g = Unreadable \/ NoZero(g)
  BY DefaultsFilled DEF MayStore
<1> QED BY <1>1, <1>2

LEMMA FilledStep == TypeOK /\ Filled /\ [Next]_vars => Filled'
<1> SUFFICES ASSUME TypeOK, Filled, [Next]_vars, type' # "DTMB"
    PROVE  NoZero(param') /\ (file' = Unreadable \/ NoZero(file'))
  BY DEF Filled, NoZero
<1> USE DEF parameters
<1>1. CASE Restart
  <2>1. type # "DTMB" /\ (file = Unreadable \/ NoZero(file))
    BY <1>1 DEF Restart, Filled
  <2>2. param' = Restored(file) /\ file' \in MayStore(file)
    BY <1>1 DEF Restart
  <2> QED BY <2>1, <2>2, StartFilled
<1>2. CASE \E c \in Channel, f \in Field : WriteField(c, f)
  <2>1. PICK c \in Channel, f \in Field : WriteField(c, f)
    BY <1>2
  <2>2. type # "DTMB" /\ UNCHANGED file
    BY <2>1 DEF WriteField
  <2>3. PICK v \in Value : param' = [param EXCEPT ![c][f] = v]
    BY <2>1, TunerAssumption DEF WriteField
  <2>4. v # Zero
    BY TunerAssumption
  <2>5. ASSUME NEW d \in Channel, NEW e \in Field PROVE param'[d][e] # Zero
    <3>1. param'[d][e] = v \/ param'[d][e] = param[d][e]
      BY <2>3 DEF TypeOK, Params
    <3> QED BY <2>2, <2>4, <3>1 DEF Filled, NoZero
  <2> QED BY <2>2, <2>5 DEF Filled, NoZero
<1>3. CASE StoreParam
  BY <1>3 DEF StoreParam, Filled
<1>4. CASE UNCHANGED <<type, param, file>>
  BY <1>4 DEF Filled
<1>5. CASE \/ \E c \in SetChannel : SetParam(c) \/ ClearFlag(c)
           \/ SetDefault \/ TunerProcess \/ UNCHANGED vars
  <2>1. UNCHANGED <<type, param, file>>
    BY <1>5 DEF SetParam, SetDefault, ClearFlag, TunerProcess, Led, Tune, Compare,
         ResetChip, LockChip, Flag, FoundLocked, FoundUnlocked, CopyField,
         ReadField, vars
  <2> QED BY <2>1, <1>4
<1> QED BY <1>1, <1>2, <1>3, <1>5 DEF Next, Setter

\* Every channel always has parameters to be locked with (Tuner_init,
\* Tuner_c_RestoreParam, Tuner_s2_RestoreParam): whatever was set, stored or could
\* not be stored, and whenever the power failed.
THEOREM ParametersFilled == Spec => []NeverZeroed
<1>1. Init => Filled
  <2> SUFFICES ASSUME Init, type # "DTMB"
      PROVE  NoZero(param) /\ (file = Unreadable \/ NoZero(file))
    BY DEF Filled
  <2> QED BY StartFilled DEF Init
<1>2. Filled => NeverZeroed
  BY DEF Filled, NeverZeroed, NoZero
<1> QED BY <1>1, <1>2, FilledStep, TypeCorrect, PTL DEF Spec
=============================================================================
