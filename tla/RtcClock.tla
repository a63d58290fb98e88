------------------------------ MODULE RtcClock ------------------------------
(***************************************************************************)
(* The real-time clock: a chip (DS1338) on an I2C bus that goes on by      *)
(* itself, and callers that read it, set it, or hand its time to Linux,    *)
(* one register in one transfer at a time.  A transfer may fail; no caller *)
(* is told (ds1338_SetTime, ds1338_GetTime).                               *)
(*                                                                         *)
(* The registers are bytes in BCD.  The chip starts a second anew when its *)
(* seconds are written, and the rest of ds1338_SetTime takes a few         *)
(* milliseconds: it does not tick in between.  Linux is taken to have no   *)
(* daylight saving time, on which mktime would depend: tm_isdst is not     *)
(* initialised.  The day of the week is left out: it is never written.     *)
(***************************************************************************)
EXTENDS Integers, Sequences

CONSTANTS
  Setter,      \* threads that set the clock
  Reader,      \* threads that read it, or hand its time to Linux
  Times,       \* times they set, as they fill in ST_PE_TIME
  Present,     \* times the chip may have at first
  MaxTicks,    \* bound: seconds that pass
  MaxFaults,   \* bound: transfers that fail
  Alone,       \* no two threads set the chip at the same time
  None

Caller == Setter \cup Reader

(* ST_PE_TIME: v has the fields in the order of the chip's registers,      *)
(* which are seconds, minutes, hours, date, month and year.                *)
Register == 1 .. 6
Time == [v : [Register -> Nat], sys : {"24", "12"}, half : {"AM", "PM"}]

YearOffset == 2000   \* DS1338_YEAR_OFFSET

\* Callers mean years that the chip has.
ASSUME RtcAssumption ==
  /\ Times \subseteq Time /\ Present \subseteq Time
  /\ \A t \in Times \cup Present : t.v[6] >= YearOffset
  /\ MaxTicks \in Nat /\ MaxFaults \in Nat
  /\ Alone \in BOOLEAN
  /\ None \notin Times

VARIABLES
  regs,     \* the chip's registers
  call,     \* per caller: where it is in which function
  form,     \* per caller: the structure it passes to ds1338_SetTime, whose year
            \* is negative once it has wrapped
  meant,    \* history: per caller, the time it filled in
  start,    \* history: per caller, the registers when it began to read, or
            \* None if one was written since, or nothing is read
  ticks, faults

vars == <<regs, call, form, meant, start, ticks, faults>>

-----------------------------------------------------------------------------
(* Conversions. *)

(* Tens and ones of year - 2000, which wraps at 2^32 = 10 * 429496729 + 6. *)
YearTens(y) == IF y >= YearOffset THEN (y - YearOffset) \div 10
               ELSE 429496729 + (6 + y - YearOffset) \div 10
YearOnes(y) == IF y >= YearOffset THEN (y - YearOffset) % 10
               ELSE (6 + y - YearOffset) % 10

ToBcd(n) == 16 * (n \div 10) + (n % 10)

HourByte(t) ==
  IF t.sys = "24" THEN ToBcd(t.v[3])
  ELSE 64 + (IF t.half = "PM" THEN 32 ELSE 0) + ToBcd(t.v[3])

(* What is written to register k. *)
Byte(t, k) ==
  IF k = 3 THEN HourByte(t)
  ELSE IF k = 6 THEN (16 * (YearTens(t.v[6]) % 16) + YearOnes(t.v[6])) % 256
  ELSE ToBcd(t.v[k])

(* What is made of byte b of register k. *)
TwelveHours(b) == (b \div 64) % 2 = 1
TensMod(b, k) == IF k = 3 /\ TwelveHours(b) THEN 2 ELSE <<8, 8, 4, 4, 2, 16>>[k]
Field(b, k) == 10 * ((b \div 16) % TensMod(b, k)) + (b % 16)
                 + (IF k = 6 THEN YearOffset ELSE 0)

(* The time that ds1338_GetTime makes of the bytes. *)
Decoded(bytes) ==
  [v    |-> [k \in Register |-> Field(bytes[k], k)],
   sys  |-> IF TwelveHours(bytes[3]) THEN "12" ELSE "24",
   half |-> IF TwelveHours(bytes[3]) /\ (bytes[3] \div 32) % 2 = 1 THEN "PM" ELSE "AM"]

(* ds1338_VerifyTimeParameters. *)
Verified(t) ==
  /\ t.v[6] \in 0 .. YearOffset + 99
  /\ t.v[5] \in 1 .. 12
  /\ t.v[4] \in 1 .. 31
  /\ t.v[3] \in IF t.sys = "24" THEN 0 .. 23 ELSE 1 .. 12
  /\ t.v[2] \in 0 .. 59
  /\ t.v[1] \in 0 .. 59

\* The chip begins with a time that it can have.
ASSUME PresentAssumption == \A t \in Present : Verified(t)

-----------------------------------------------------------------------------
(* The chip. *)

Hour24(t) == IF t.sys = "24" THEN t.v[3]
             ELSE (t.v[3] % 12) + (IF t.half = "PM" THEN 12 ELSE 0)

DaysIn(month, year) ==
  IF month = 2 THEN IF year % 4 = 0 THEN 29 ELSE 28
  ELSE IF month \in {4, 6, 9, 11} THEN 30 ELSE 31

(* A second later: each field, whether the one before it carries. *)
Later(t) ==
  LET minute == t.v[1] >= 59
      hour   == minute /\ t.v[2] >= 59
      day    == hour /\ Hour24(t) = 23
      month  == day /\ t.v[4] >= DaysIn(t.v[5], t.v[6])
      year   == month /\ t.v[5] >= 12
      Next24(h) == IF t.sys = "24" THEN (h + 1) % 24 ELSE (h % 12) + 1
  IN [t EXCEPT
        !.v[1] = IF minute THEN 0 ELSE @ + 1,
        !.v[2] = IF hour THEN 0 ELSE IF minute THEN @ + 1 ELSE @,
        !.v[3] = IF hour THEN Next24(@) ELSE @,
        !.v[4] = IF month THEN 1 ELSE IF day THEN @ + 1 ELSE @,
        !.v[5] = IF year THEN 1 ELSE IF month THEN @ + 1 ELSE @,
        !.v[6] = IF year THEN @ + 1 ELSE @,
        !.half = IF hour /\ t.sys = "12" /\ t.v[3] = 11
                 THEN IF @ = "AM" THEN "PM" ELSE "AM" ELSE @]

Bytes(t) == [k \in Register |-> Byte(t, k)]

Setting(c) == call[c].op = "set" /\ call[c].pc # "return"

(* The order in which registers are written, and one with the seconds last. *)
WriteOrderLate == <<2, 3, 4, 5, 6, 1>>
WriteOrder == <<1, 2, 3, 4, 5, 6>>

(* This call has made the chip begin a second that is not over. *)
Restarted(c) ==
  /\ Setting(c) /\ ~call[c].faulty
  /\ call[c].pc = "write" => \E j \in 1 .. call[c].at - 1 : WriteOrder[j] = 1

Tick ==
  /\ ticks < MaxTicks
  /\ ~ \E c \in Caller : Restarted(c)
  /\ regs' = Bytes(Later(Decoded(regs)))
  /\ ticks' = ticks + 1
  /\ UNCHANGED <<call, form, meant, start, faults>>

-----------------------------------------------------------------------------
(* The callers. *)

Unread == [k \in Register |-> 0]
Begun(op, pc) == [op |-> op, pc |-> pc, at |-> 1, byte |-> 0, got |-> Unread,
                  faulty |-> FALSE, again |-> FALSE, system |-> None]
Idle == Begun("none", "idle")

Init ==
  /\ \E t \in Present : regs = Bytes(t)
  /\ call = [c \in Caller |-> Idle]
  /\ form = [c \in Caller |-> None]
  /\ meant = [c \in Caller |-> None]
  /\ start = [c \in Caller |-> None]
  /\ ticks = 0 /\ faults = 0

(* ds1338_GetTime, and ds1338_SyncToSystem, which begins with it. *)
BeginRead(c) ==
  /\ call[c].pc = "idle"
  /\ \E op \in {"get", "sync"} : call' = [call EXCEPT ![c] = Begun(op, "read")]
  /\ start' = [start EXCEPT ![c] = regs]
  /\ UNCHANGED <<regs, form, meant, ticks, faults>>

(* ds1338_SetTime, which refuses what is not a time. *)
Begin(c, again) ==
  /\ call[c].pc = "idle"
  /\ Alone => \A d \in Setter : ~Setting(d)
  /\ call' = [call EXCEPT ![c] = [Begun("set", IF Verified(form'[c]) THEN "write" ELSE "return")
                                   EXCEPT !.again = again]]
  /\ UNCHANGED <<regs, start, ticks, faults>>

SetTime(c) ==
  /\ \E t \in Times : form' = [form EXCEPT ![c] = t] /\ meant' = [meant EXCEPT ![c] = t]
  /\ Begin(c, FALSE)

(* The caller was told of a failure, and passes the same structure again. *)
SetAgain(c) ==
  /\ form[c] # None
  /\ UNCHANGED <<form, meant>>
  /\ Begin(c, TRUE)

(* The result of a transfer, which no caller looks at. *)
Transfer(ok) ==
  /\ ok \/ faults < MaxFaults
  /\ faults' = IF ok THEN faults ELSE faults + 1

(* The last of the registers was reached; the second is one too late. *)
PastLast(at) == at > 6
IsLast(at) == at = 6

(* The next register is written.  The offset is taken off the year in the  *)
(* caller's own structure.                                                 *)
Write(c) ==
  /\ call[c].pc = "write"
  /\ LET k == WriteOrder[call[c].at]
         last == IsLast(call[c].at)
     IN \E ok \in BOOLEAN :
          /\ Transfer(ok)
          /\ regs' = IF ok THEN [regs EXCEPT ![k] = Byte(form[c], k)] ELSE regs
          /\ form' = IF k = 6 THEN [form EXCEPT ![c].v[6] = @ - YearOffset] ELSE form
          /\ call' = [call EXCEPT ![c].at = IF last THEN 1 ELSE @ + 1,
                                  ![c].pc = IF last THEN "read" ELSE "write",
                                  ![c].faulty = @ \/ ~ok]
          /\ start' = [d \in Caller |-> IF last /\ d = c THEN regs' ELSE None]
  /\ UNCHANGED <<meant, ticks>>

(* The order of reading, and the one with the year first. *)
ReadOrderBack == <<6, 5, 4, 3, 2, 1>>
ReadOrder == <<1, 2, 3, 4, 5, 6>>

(* What a variable has that the next transfer does not write: the last     *)
(* byte, and before the date that may be the day of the week.              *)
Left(c, k) == {call[c].byte} \cup (IF k = 4 THEN 1 .. 7 ELSE {})

(* The next register is read. *)
Read(c) ==
  /\ call[c].pc = "read"
  /\ LET k == ReadOrder[call[c].at]
         last == IsLast(call[c].at)
     IN \E ok \in BOOLEAN : \E b \in IF ok THEN {regs[k]} ELSE Left(c, k) :
          /\ Transfer(ok)
          /\ call' = [call EXCEPT
               ![c].at = IF last THEN 1 ELSE @ + 1,
               ![c].byte = IF last THEN 0 ELSE b,
               ![c].got[k] = b,
               ![c].pc = IF ~last THEN "read" ELSE IF call[c].op = "get" THEN "return" ELSE "apply",
               ![c].faulty = @ \/ ~ok]
  /\ UNCHANGED <<regs, form, meant, start, ticks>>

(* What mktime is given: the hours as they are, before or after noon.  The *)
(* first forgets that months are counted from 0.                           *)
BrokenDownOne(t) == [t.v EXCEPT ![6] = @ - 1900]
BrokenDown(t) == [t.v EXCEPT ![5] = @ - 1, ![6] = @ - 1900]

(* stime, which only the superuser may call. *)
Apply(c) ==
  /\ call[c].pc = "apply"
  /\ \E system \in {BrokenDown(Decoded(call[c].got)), None} :
       call' = [call EXCEPT ![c].pc = "return", ![c].system = system]
  /\ UNCHANGED <<regs, form, meant, start, ticks, faults>>

(* The caller has its result.  It may try again with the same structure if *)
(* it is told of a failure.                                                *)
Return(c) ==
  /\ call[c].pc = "return"
  /\ call' = [call EXCEPT ![c] = Idle]
  /\ start' = [start EXCEPT ![c] = None]
  /\ IF call[c].op = "set" /\ call[c].system = None
     THEN UNCHANGED <<form, meant>>
     ELSE form' = [form EXCEPT ![c] = None] /\ meant' = [meant EXCEPT ![c] = None]
  /\ UNCHANGED <<regs, ticks, faults>>

Next ==
  \/ Tick
  \/ \E c \in Setter : SetTime(c) \/ SetAgain(c) \/ Write(c)
  \/ \E c \in Reader : BeginRead(c)
  \/ \E c \in Caller : Read(c) \/ Apply(c) \/ Return(c)

Spec == Init /\ [][Next]_vars

-----------------------------------------------------------------------------
(* Properties. *)

\* Everything has its type; registers are bytes.
TypeOK ==
  /\ regs \in [Register -> 0 .. 255]
  /\ call \in [Caller -> [op : {"none", "get", "sync", "set"},
                          pc : {"idle", "read", "write", "apply", "return"},
                          at : Register, byte : 0 .. 255,
                          got : [Register -> 0 .. 255], faulty : BOOLEAN,
                          again : BOOLEAN, system : [Register -> Int] \cup {None}]]
  /\ ticks \in 0 .. MaxTicks /\ faults \in 0 .. MaxFaults

SameTime(a, b) == a.v = b.v /\ a.sys = b.sys /\ (a.sys = "12" => a.half = b.half)

(* A call with a structure that was filled in for it, without a fault. *)
Proper(c) == call[c].op = "set" /\ ~call[c].faulty /\ ~call[c].again

\* A time that is set is shown: however the clock ticks and whoever reads it
\* meanwhile, the chip has all of the time the caller meant when the last
\* register is written, unless a transfer has failed (ds1338_SetTime).
ShownAsMeant ==
  \A c \in Caller :
    Proper(c) /\ call[c].pc \in {"read", "apply"} => SameTime(Decoded(regs), meant[c])

(* A time as struct tm has it. *)
LinuxTime(t) == [t.v EXCEPT ![3] = Hour24(t), ![5] = @ - 1, ![6] = @ - 1900]

\* Linux is given the time that was set; in the 12-hour system the half of the
\* day may be the wrong one, for it is not looked at (ds1338_SyncToSystem).
SystemFollows ==
  \A c \in Caller :
    Proper(c) /\ call[c].system # None =>
      LET told == call[c].system
          linux == LinuxTime(meant[c])
      IN /\ \A k \in Register \ {3} : told[k] = linux[k]
         /\ meant[c].sys = "24" => told[3] = linux[3]
         /\ (told[3] - linux[3]) % 12 = 0

Day(t) == (12 * t.v[6] + t.v[5]) * 31 + t.v[4]
Second(t) == (60 * Hour24(t) + t.v[2]) * 60 + t.v[1]
Before(a, b) == Day(a) < Day(b) \/ (Day(a) = Day(b) /\ Second(a) < Second(b))

Complete(c) ==
  /\ call[c].op \in {"get", "sync"} /\ call[c].pc \in {"apply", "return"}
  /\ ~call[c].faulty /\ start[c] # None

\* A time read register by register, while the clock goes on, is never before
\* the one shown when the reading began; it is after the one shown now only
\* if the minutes have carried since (ds1338_GetTime).
ReadSound ==
  \A c \in Caller : Complete(c) =>
    LET read == Decoded(call[c].got)
        now == Decoded(regs)
    IN /\ ~Before(read, Decoded(start[c]))
       /\ Before(now, read) => \E k \in 2 .. 6 : regs[k] # start[c][k]
=============================================================================
