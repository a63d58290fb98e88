-------------------------- MODULE RtcClock_proofs --------------------------
(***************************************************************************)
(* Proofs about RtcClock for any callers, any times they set, and any      *)
(* number of ticks and faults.                                             *)
(***************************************************************************)
EXTENDS RtcClock, TLAPS

-----------------------------------------------------------------------------
(***************************************************************************)
(* Conversions.                                                            *)
(***************************************************************************)
LEMMA Bcd ==
  ASSUME NEW n \in 0 .. 99
  PROVE  /\ ToBcd(n) \in 0 .. 153
         /\ ToBcd(n) \div 16 = n \div 10 /\ ToBcd(n) % 16 = n % 10
         /\ 10 * (n \div 10) + (n % 10) = n
         /\ n \div 10 \in 0 .. 9 /\ n % 10 \in 0 .. 9
<1> DEFINE q == n \div 10
           r == n % 10
<1>1. q \in 0 .. 9 /\ r \in 0 .. 9 /\ 10 * q + r = n
  OBVIOUS
<1>2. ToBcd(n) = 16 * q + r
  BY DEF ToBcd
<1> HIDE DEF q, r
<1>3. 16 * q + r \in 0 .. 153 /\ (16 * q + r) \div 16 = q /\ (16 * q + r) % 16 = r
  BY <1>1
<1> QED
  BY <1>1, <1>2, <1>3 DEF q, r

\* A time that ds1338_SetTime accepts and the chip has.
Right(t) == t \in Time /\ Verified(t) /\ t.v[6] >= YearOffset

(* A structure passed to ds1338_SetTime; its year may be negative.         *)
Form == [v : [Register -> Int], sys : {"24", "12"}, half : {"AM", "PM"}]

\* Its fields but for the year are those of a time.
Fits(t) ==
  /\ t.v[1] \in 0 .. 59 /\ t.v[2] \in 0 .. 59
  /\ t.v[3] \in IF t.sys = "24" THEN 0 .. 23 ELSE 1 .. 12
  /\ t.v[4] \in 1 .. 31 /\ t.v[5] \in 1 .. 12

LEMMA VerifiedFits ==
  ASSUME NEW t, Verified(t)
  PROVE  Fits(t)
BY DEF Verified, Fits

LEMMA SmallField ==
  ASSUME NEW t, Fits(t), NEW k \in {1, 2, 4, 5}
  PROVE  Field(Byte(t, k), k) = t.v[k]
<1> DEFINE n == t.v[k]
<1>1. n \in 0 .. 59 /\ (k = 4 => n \in 1 .. 31) /\ (k = 5 => n \in 1 .. 12)
  BY DEF Fits
<1>2. Byte(t, k) = ToBcd(n)
  BY DEF Byte
<1> HIDE DEF n
<1>3. /\ ToBcd(n) \div 16 = n \div 10 /\ ToBcd(n) % 16 = n % 10
      /\ 10 * (n \div 10) + (n % 10) = n /\ n \div 10 \in 0 .. 9 /\ n % 10 \in 0 .. 9
  BY <1>1, Bcd
<1> DEFINE m == TensMod(ToBcd(n), k)
           q == n \div 10
           r == n % 10
<1>4. m = IF k \in {1, 2} THEN 8 ELSE IF k = 4 THEN 4 ELSE 2
  BY DEF TensMod
<1>5. Field(ToBcd(n), k) = 10 * ((ToBcd(n) \div 16) % m) + (ToBcd(n) % 16) + (IF k = 6 THEN YearOffset ELSE 0)
  BY DEF Field
<1>6. ToBcd(n) \div 16 = q /\ ToBcd(n) % 16 = r /\ n = 10 * q + r /\ q \in 0 .. 9 /\ r \in 0 .. 9
  BY <1>3
<1> HIDE DEF m, q, r
<1>7. Field(ToBcd(n), k) = 10 * (q % m) + r + 0
  BY <1>5, <1>6
<1>8. q % m = q
  <2>1. CASE k \in {1, 2}
    BY <2>1, <1>1, <1>4, <1>6
  <2>2. CASE k = 4
    BY <2>2, <1>1, <1>4, <1>6
  <2>3. CASE k = 5
    BY <2>3, <1>1, <1>4, <1>6
  <2> QED
    BY <2>1, <2>2, <2>3
<1> QED
  BY <1>2, <1>6, <1>7, <1>8 DEF n

\* The hours, and what goes with them in the same register.
LEMMA HourField ==
  ASSUME NEW t \in Form, Fits(t)
  PROVE  /\ Field(Byte(t, 3), 3) = t.v[3]
         /\ TwelveHours(Byte(t, 3)) <=> t.sys = "12"
         /\ t.sys = "12" => ((Byte(t, 3) \div 32) % 2 = 1 <=> t.half = "PM")
<1> DEFINE n == t.v[3]
           q == n \div 10
           r == n % 10
           b == Byte(t, 3)
<1>1. /\ n \in 0 .. 23 /\ (t.sys = "12" => n \in 1 .. 12)
      /\ t.sys \in {"24", "12"} /\ t.half \in {"AM", "PM"}
  BY DEF Fits, Form
<1>2. b = IF t.sys = "24" THEN ToBcd(n) ELSE 64 + (IF t.half = "PM" THEN 32 ELSE 0) + ToBcd(n)
  BY DEF Byte, HourByte
<1>3. Field(b, 3) = 10 * ((b \div 16) % (IF TwelveHours(b) THEN 2 ELSE 4)) + (b % 16) + 0
  BY DEF Field, TensMod
<1> HIDE DEF n, b
<1>4. q \in 0 .. 2 /\ r \in 0 .. 9 /\ n = 10 * q + r
  BY <1>1
<1>5. ToBcd(n) = 16 * q + r
  BY DEF ToBcd
<1> HIDE DEF q, r
<1>6. CASE t.sys = "24"
  <2>1. b = 16 * q + r
    BY <1>2, <1>5, <1>6
  <2>2. b \div 64 = 0 /\ b \div 16 = q /\ b % 16 = r /\ q % 4 = q
    BY <2>1, <1>4
  <2>3. ~TwelveHours(b)
    BY <2>2 DEF TwelveHours
  <2> QED
    BY <1>3, <1>4, <1>6, <2>2, <2>3 DEF n, b
<1>7. CASE t.sys = "12"
  <2>1. q \in 0 .. 1 /\ (q = 1 => r \in 0 .. 2)
    BY <1>1, <1>4, <1>7
  <2>2. CASE t.half = "PM"
    <3>1. b = 16 * (6 + q) + r
      BY <1>2, <1>4, <1>5, <1>7, <2>2
    <3>2. b \div 64 = 1 /\ b \div 32 = 3 /\ b \div 16 = 6 + q /\ b % 16 = r /\ (6 + q) % 2 = q
      BY <3>1, <2>1, <1>4
    <3>3. TwelveHours(b)
      BY <3>2 DEF TwelveHours
    <3> QED
      BY <1>3, <1>4, <1>7, <2>2, <3>2, <3>3 DEF n, b
  <2>3. CASE t.half = "AM"
    <3>1. b = 16 * (4 + q) + r
      BY <1>2, <1>4, <1>5, <1>7, <2>3
    <3>2. b \div 64 = 1 /\ b \div 32 = 2 /\ b \div 16 = 4 + q /\ b % 16 = r /\ (4 + q) % 2 = q
      BY <3>1, <2>1, <1>4
    <3>3. TwelveHours(b)
      BY <3>2 DEF TwelveHours
    <3> QED
      BY <1>3, <1>4, <1>7, <2>3, <3>2, <3>3 DEF n, b
  <2> QED
    BY <1>1, <2>2, <2>3
<1> QED
  BY <1>1, <1>6, <1>7

\* The register of the year has 16 tens.
LastYear == 2159

LEMMA YearField ==
  ASSUME NEW t, t.v[6] \in Int, YearOffset <= t.v[6], t.v[6] <= LastYear
  PROVE  Field(Byte(t, 6), 6) = t.v[6]
<1> DEFINE y == t.v[6]
           n == y - YearOffset
           q == n \div 10
           r == n % 10
           b == Byte(t, 6)
<1>1. n \in 0 .. 159
  <2>1. y \in Int /\ YearOffset <= y /\ y <= LastYear
    OBVIOUS
  <2> HIDE DEF y
  <2> QED
    BY <2>1 DEF YearOffset, LastYear, n
<1>2. q \in 0 .. 15 /\ r \in 0 .. 9 /\ n = 10 * q + r
  BY <1>1
<1>3. YearTens(y) = q /\ YearOnes(y) = r
  BY <1>1, SMT DEF YearTens, YearOnes, YearOffset
<1>4. b = (16 * (YearTens(y) % 16) + YearOnes(y)) % 256
  BY DEF Byte
<1>5. Field(b, 6) = 10 * ((b \div 16) % 16) + (b % 16) + YearOffset
  BY DEF Field, TensMod
<1>6. y = n + YearOffset
  BY <1>1 DEF YearOffset
<1> HIDE DEF n, q, r, b, y
<1>7. b = (16 * (q % 16) + r) % 256
  BY <1>3, <1>4
<1>8. b = 16 * q + r
  BY <1>2, <1>7
<1>9. b \div 16 = q /\ b % 16 = r /\ q % 16 = q
  BY <1>2, <1>8
<1>10. Field(b, 6) = 10 * q + r + YearOffset
  BY <1>5, <1>9
<1> QED
  BY <1>2, <1>6, <1>10 DEF y, b

(***************************************************************************)
(* Whatever time ds1338_SetTime accepts, ds1338_GetTime makes the same of  *)
(* the registers.                                                          *)
(***************************************************************************)
THEOREM RoundTrip ==
  ASSUME NEW t, Right(t)
  PROVE  SameTime(Decoded(Bytes(t)), t)
<1> DEFINE d == Decoded(Bytes(t))
<1>0. t \in Form /\ Fits(t) /\ t.v[6] \in Int /\ YearOffset <= t.v[6] /\ t.v[6] <= LastYear
  <2>1. t \in Form /\ Fits(t)
    BY VerifiedFits DEF Right, Time, Form
  <2> DEFINE y == t.v[6]
  <2>2. y \in 0 .. YearOffset + 99 /\ YearOffset <= y
    BY DEF Right, Verified
  <2> HIDE DEF y
  <2>3. y \in Int /\ YearOffset <= y /\ y <= LastYear
    BY <2>2 DEF YearOffset, LastYear
  <2> QED
    BY <2>1, <2>3 DEF y
<1>1. \A k \in Register : Bytes(t)[k] = Byte(t, k)
  BY DEF Bytes
<1>2. d.v = [k \in Register |-> Field(Bytes(t)[k], k)]
  BY DEF Decoded
<1>3. \A k \in Register : d.v[k] = t.v[k]
  <2> SUFFICES ASSUME NEW k \in Register PROVE d.v[k] = t.v[k]
    OBVIOUS
  <2>1. d.v[k] = Field(Byte(t, k), k)
    BY <1>1, <1>2
  <2>2. k \in {1, 2, 4, 5} \/ k = 3 \/ k = 6
    BY DEF Register
  <2> HIDE DEF d
  <2> QED
    BY <1>0, <2>1, <2>2, SmallField, HourField, YearField
<1>4. t.v \in [Register -> Nat] /\ t.sys \in {"24", "12"} /\ t.half \in {"AM", "PM"}
  BY DEF Right, Time
<1>5. d.v = t.v
  BY <1>2, <1>3, <1>4
<1>6. Bytes(t)[3] = Byte(t, 3)
  BY <1>1 DEF Register
<1>7. d.sys = IF TwelveHours(Byte(t, 3)) THEN "12" ELSE "24"
  BY <1>6 DEF Decoded
<1>8. d.half = IF TwelveHours(Byte(t, 3)) /\ (Byte(t, 3) \div 32) % 2 = 1 THEN "PM" ELSE "AM"
  BY <1>6 DEF Decoded
<1> HIDE DEF d
<1> QED
  BY <1>0, <1>4, <1>5, <1>7, <1>8, HourField DEF SameTime, d

-----------------------------------------------------------------------------
(***************************************************************************)
(* Types.  A structure passed to ds1338_SetTime may have a negative year,  *)
(* but not while registers are written.                                    *)
(***************************************************************************)
TInv ==
  /\ TypeOK
  /\ form \in [Caller -> Form \cup {None}]
  /\ meant \in [Caller -> Times \cup {None}]
  /\ DOMAIN start = Caller
  /\ \A c \in Caller :
       /\ call[c].op = "set" => c \in Setter
       /\ call[c].pc = "write" => call[c].op = "set" /\ form[c] \in Form /\ Verified(form[c])

LEMMA YearType ==
  ASSUME NEW y \in Int
  PROVE  16 * (YearTens(y) % 16) + YearOnes(y) \in Int
BY SMT DEF YearTens, YearOnes, YearOffset

\* Whatever is written to a register is a byte.
LEMMA ByteType ==
  ASSUME NEW t \in Form, Verified(t), NEW k \in Register
  PROVE  Byte(t, k) \in 0 .. 255
<1>1. CASE k = 3
  <2>1. t.v[3] \in 0 .. 23
    BY DEF Verified
  <2>2. ToBcd(t.v[3]) \in 0 .. 153 /\ (t.v[3] <= 12 => ToBcd(t.v[3]) <= 18)
    BY <2>1 DEF ToBcd
  <2>3. t.sys # "24" => t.v[3] <= 12
    BY DEF Verified
  <2> QED
    BY <1>1, <2>2, <2>3 DEF Byte, HourByte
<1>2. CASE k = 6
  <2> DEFINE x == 16 * (YearTens(t.v[6]) % 16) + YearOnes(t.v[6])
  <2>1. t.v[6] \in Int
    BY DEF Form, Register
  <2>2. x \in Int
    BY <2>1, YearType
  <2> HIDE DEF x
  <2>3. x % 256 \in 0 .. 255
    BY <2>2
  <2> QED
    BY <1>2, <2>3 DEF Byte, x
<1>3. CASE k \in {1, 2, 4, 5}
  <2> DEFINE n == t.v[k]
  <2>1. n \in 0 .. 99
    BY <1>3 DEF Verified
  <2>2. Byte(t, k) = ToBcd(n)
    BY <1>3 DEF Byte
  <2> HIDE DEF n
  <2>3. ToBcd(n) \in 0 .. 153
    BY <2>1, Bcd
  <2> QED
    BY <2>2, <2>3
<1> QED
  BY <1>1, <1>2, <1>3 DEF Register

\* What the registers hold is a time, if not one that is ever set.
LEMMA FieldType ==
  ASSUME NEW b \in 0 .. 255, NEW k \in Register
  PROVE  /\ Field(b, k) \in Nat
         /\ k # 6 => Field(b, k) <= IF k = 5 THEN 25 ELSE IF k \in {3, 4} THEN 45 ELSE 85
<1> DEFINE q == b \div 16
           r == b % 16
           m == TensMod(b, k)
<1>1. q \in 0 .. 15 /\ r \in 0 .. 15
  OBVIOUS
<1>2. m \in {2, 4, 8, 16} /\ m <= IF k = 6 THEN 16 ELSE IF k = 5 THEN 2 ELSE IF k \in {3, 4} THEN 4 ELSE 8
  BY DEF TensMod, Register
<1>3. Field(b, k) = 10 * (q % m) + r + (IF k = 6 THEN YearOffset ELSE 0)
  BY DEF Field
<1> HIDE DEF q, r, m
<1>4. q % m \in 0 .. m - 1
  BY <1>1, <1>2
<1> DEFINE p == q % m
<1> HIDE DEF p
<1>5. Field(b, k) = 10 * p + r + (IF k = 6 THEN 2000 ELSE 0)
  BY <1>3 DEF p, YearOffset
<1>6. p \in 0 .. m - 1
  BY <1>4 DEF p
<1>7. p \in 0 .. IF k = 6 THEN 15 ELSE IF k = 5 THEN 1 ELSE IF k \in {3, 4} THEN 3 ELSE 7
  BY <1>2, <1>6
<1> QED
  BY <1>1, <1>5, <1>7

\* A second later the registers are bytes still.
LEMMA LaterType ==
  ASSUME NEW bytes \in [Register -> 0 .. 255]
  PROVE  Bytes(Later(Decoded(bytes))) \in [Register -> 0 .. 255]
<1> DEFINE t == Decoded(bytes)
           u == Later(t)
<1>1. t = [v |-> t.v, sys |-> t.sys, half |-> t.half]
  BY DEF Decoded
<1>2. t.v = [k \in Register |-> Field(bytes[k], k)]
  BY DEF Decoded
<1>3. /\ t.v[1] \in 0 .. 85 /\ t.v[2] \in 0 .. 85 /\ t.v[3] \in 0 .. 45
      /\ t.v[4] \in 0 .. 45 /\ t.v[5] \in 0 .. 25 /\ t.v[6] \in Nat
  <2> SUFFICES ASSUME NEW k \in Register
               PROVE  /\ t.v[k] \in Nat
                      /\ k # 6 => t.v[k] <= IF k = 5 THEN 25 ELSE IF k \in {3, 4} THEN 45 ELSE 85
    BY DEF Register
  <2>1. t.v[k] = Field(bytes[k], k)
    BY <1>2
  <2> HIDE DEF t
  <2> QED
    BY <2>1, FieldType
<1>4. DOMAIN t.v = Register
  BY <1>2
<1> HIDE DEF t
<1>5. /\ u.v[1] \in 0 .. 59 /\ u.v[2] \in 0 .. 86
      /\ u.v[4] \in 0 .. 46 /\ u.v[5] \in 0 .. 26 /\ u.v[6] \in Nat
  <2>1. u.v[1] = IF t.v[1] >= 59 THEN 0 ELSE t.v[1] + 1
    BY <1>1, <1>4 DEF Later, Register
  <2>2. u.v[2] \in {0, t.v[2], t.v[2] + 1}
    BY <1>1, <1>4 DEF Later, Register
  <2>3. u.v[4] \in {1, t.v[4], t.v[4] + 1}
    BY <1>1, <1>4 DEF Later, Register
  <2>4. u.v[5] \in {1, t.v[5], t.v[5] + 1}
    BY <1>1, <1>4 DEF Later, Register
  <2>5. u.v[6] \in {t.v[6], t.v[6] + 1}
    BY <1>1, <1>4 DEF Later, Register
  <2> HIDE DEF u
  <2>6. u.v[1] \in 0 .. 59
    BY <1>3, <2>1
  <2>7. u.v[2] \in 0 .. 86
    BY <1>3, <2>2
  <2>8. u.v[4] \in 0 .. 46
    BY <1>3, <2>3
  <2>9. u.v[5] \in 0 .. 26
    BY <1>3, <2>4
  <2>10. u.v[6] \in Nat
    BY <1>3, <2>5
  <2> QED
    BY <2>6, <2>7, <2>8, <2>9, <2>10
<1>6. u.v[3] \in 0 .. 45
  BY <1>1, <1>3, <1>4 DEF Later, Register
<1> HIDE DEF u
<1>7. \A k \in Register : Byte(u, k) \in 0 .. 255
  <2> SUFFICES ASSUME NEW k \in Register PROVE Byte(u, k) \in 0 .. 255
    OBVIOUS
  <2>1. CASE k = 3
    <3> DEFINE h == u.v[3]
    <3>1. ToBcd(h) \in 0 .. 153
      <4> HIDE DEF h
      <4>1. h \in 0 .. 99
        BY <1>6 DEF h
      <4> QED
        BY <4>1, Bcd
    <3> QED
      BY <2>1, <3>1 DEF Byte, HourByte
  <2>2. CASE k = 6
    <3> DEFINE y == u.v[6]
               x == 16 * (YearTens(y) % 16) + YearOnes(y)
    <3> HIDE DEF y
    <3>1. y \in Int
      BY <1>5 DEF y
    <3>2. x \in Int
      BY <3>1, YearType
    <3>3. Byte(u, 6) = x % 256
      BY DEF Byte, y
    <3> HIDE DEF x
    <3>4. x % 256 \in 0 .. 255
      BY <3>2
    <3> QED
      BY <2>2, <3>3, <3>4
  <2>3. CASE k \in {1, 2, 4, 5}
    <3> DEFINE n == u.v[k]
    <3>1. n \in 0 .. 99
      BY <1>5, <2>3
    <3>2. Byte(u, k) = ToBcd(n)
      BY <2>3 DEF Byte
    <3> HIDE DEF n
    <3>3. ToBcd(n) \in 0 .. 153
      BY <3>1, Bcd
    <3> QED
      BY <3>2, <3>3
  <2> QED
    BY <2>1, <2>2, <2>3 DEF Register
<1>8. Bytes(u) \in [Register -> 0 .. 255]
  BY <1>7 DEF Bytes
<1> QED
  BY <1>8 DEF u, t

CallType ==
  [op : {"none", "get", "sync", "set"},
   pc : {"idle", "read", "write", "apply", "return"},
   at : Register, byte : 0 .. 255,
   got : [Register -> 0 .. 255], faulty : BOOLEAN,
   again : BOOLEAN, system : [Register -> Int] \cup {None}]

LEMMA BegunType ==
  ASSUME NEW op \in {"none", "get", "sync", "set"},
         NEW pc \in {"idle", "read", "write", "apply", "return"}
  PROVE  Begun(op, pc) \in CallType
BY DEF Begun, CallType, Unread, Register

LEMMA InitTypes == Init => TInv
<1> SUFFICES ASSUME Init PROVE TInv
  OBVIOUS
<1>1. PICK t \in Present : regs = Bytes(t)
  BY DEF Init
<1>2. t \in Form /\ Verified(t)
  BY RtcAssumption, PresentAssumption DEF Time, Form
<1>3. regs \in [Register -> 0 .. 255]
  BY <1>1, <1>2, ByteType DEF Bytes
<1>4. Idle \in CallType /\ Idle.op = "none" /\ Idle.pc = "idle"
  BY BegunType DEF Idle, Begun
<1>5. call = [c \in Caller |-> Idle]
  BY DEF Init
<1> QED
  BY <1>3, <1>4, <1>5, RtcAssumption DEF Init, TInv, TypeOK, CallType

LEMMA TypesStep == TInv /\ [Next]_vars => TInv'
<1> SUFFICES ASSUME TInv, [Next]_vars PROVE TInv'
  OBVIOUS
<1> USE DEF CallType
<1>1. /\ regs \in [Register -> 0 .. 255] /\ call \in [Caller -> CallType]
      /\ ticks \in 0 .. MaxTicks /\ faults \in 0 .. MaxFaults
      /\ form \in [Caller -> Form \cup {None}] /\ meant \in [Caller -> Times \cup {None}]
      /\ DOMAIN start = Caller
  BY DEF TInv, TypeOK
<1>2. \A c \in Caller :
        /\ call[c].op = "set" => c \in Setter
        /\ call[c].pc = "write" => call[c].op = "set" /\ form[c] \in Form /\ Verified(form[c])
  BY DEF TInv
<1>3. Setter \subseteq Caller /\ Reader \subseteq Caller
  BY DEF Caller
<1>4. MaxTicks \in Nat /\ MaxFaults \in Nat
  BY RtcAssumption
<1>5. ASSUME regs' \in [Register -> 0 .. 255], call' \in [Caller -> CallType],
             form' \in [Caller -> Form \cup {None}], meant' \in [Caller -> Times \cup {None}],
             \A c \in Caller :
               /\ call'[c].op = "set" => c \in Setter
               /\ call'[c].pc = "write" => call'[c].op = "set" /\ form'[c] \in Form /\ Verified(form'[c]),
             ticks' \in 0 .. MaxTicks, faults' \in 0 .. MaxFaults, DOMAIN start' = Caller
      PROVE  TInv'
  BY <1>5 DEF TInv, TypeOK
<1> HIDE DEF CallType
<1>6. CASE Tick
  <2>1. regs' \in [Register -> 0 .. 255]
    BY <1>1, <1>6, LaterType DEF Tick
  <2>2. ticks' \in 0 .. MaxTicks
    BY <1>1, <1>4, <1>6 DEF Tick
  <2>3. UNCHANGED <<call, form, meant, start, faults>>
    BY <1>6 DEF Tick
  <2> QED
    BY <1>1, <1>2, <1>5, <2>1, <2>2, <2>3
<1>7. ASSUME NEW c \in Setter, NEW again \in BOOLEAN, Begin(c, again),
             form' \in [Caller -> Form \cup {None}], meant' \in [Caller -> Times \cup {None}],
             form'[c] \in Form, \A d \in Caller \ {c} : form'[d] = form[d]
      PROVE  TInv'
  <2> DEFINE pc == IF Verified(form'[c]) THEN "write" ELSE "return"
             rec == [Begun("set", pc) EXCEPT !.again = again]
  <2>1. call' = [call EXCEPT ![c] = rec] /\ UNCHANGED <<regs, start, ticks, faults>>
    BY <1>7 DEF Begin
  <2> HIDE DEF pc
  <2>2. Begun("set", pc) \in CallType /\ Begun("set", pc).op = "set" /\ Begun("set", pc).pc = pc
    BY BegunType DEF Begun, pc
  <2>3. rec \in CallType /\ rec.op = "set" /\ rec.pc = pc
    <3> DEFINE x == Begun("set", pc)
    <3>1. x \in CallType /\ x.op = "set" /\ x.pc = pc
      BY <2>2
    <3> HIDE DEF x
    <3>2. [x EXCEPT !.again = again] \in CallType
      BY <3>1 DEF CallType
    <3>3. [x EXCEPT !.again = again].op = "set" /\ [x EXCEPT !.again = again].pc = pc
      BY <3>1 DEF CallType
    <3> QED
      BY <3>2, <3>3 DEF x
  <2> HIDE DEF rec
  <2>4. call' \in [Caller -> CallType]
    BY <1>1, <1>3, <2>1, <2>3
  <2>5. ASSUME NEW d \in Caller
        PROVE  /\ call'[d].op = "set" => d \in Setter
               /\ call'[d].pc = "write" => call'[d].op = "set" /\ form'[d] \in Form /\ Verified(form'[d])
    <3>1. CASE d = c
      BY <1>1, <1>7, <2>1, <2>3, <3>1 DEF pc
    <3>2. CASE d # c
      BY <1>1, <1>2, <1>7, <2>1, <3>2
    <3> QED
      BY <3>1, <3>2
  <2> QED
    BY <1>1, <1>5, <1>7, <2>1, <2>4, <2>5
<1>8. ASSUME NEW c \in Setter, SetTime(c) PROVE TInv'
  <2>1. PICK t \in Times : form' = [form EXCEPT ![c] = t] /\ meant' = [meant EXCEPT ![c] = t]
    BY <1>8 DEF SetTime
  <2>2. t \in Form
    BY RtcAssumption DEF Time, Form
  <2>3. Begin(c, FALSE)
    BY <1>8 DEF SetTime
  <2> QED
    BY <1>1, <1>3, <1>7, <2>1, <2>2, <2>3
<1>9. ASSUME NEW c \in Setter, SetAgain(c) PROVE TInv'
  <2>1. form[c] # None /\ UNCHANGED <<form, meant>> /\ Begin(c, TRUE)
    BY <1>9 DEF SetAgain
  <2>2. form'[c] \in Form
    BY <1>1, <1>3, <2>1
  <2> QED
    BY <1>1, <1>7, <2>1, <2>2
<1>10. ASSUME NEW c \in Setter, Write(c) PROVE TInv'
  <2> DEFINE k == WriteOrder[call[c].at]
             last == IsLast(call[c].at)
  <2>1. PICK ok \in BOOLEAN :
          /\ Transfer(ok)
          /\ regs' = IF ok THEN [regs EXCEPT ![k] = Byte(form[c], k)] ELSE regs
          /\ form' = IF k = 6 THEN [form EXCEPT ![c].v[6] = @ - YearOffset] ELSE form
          /\ call' = [call EXCEPT ![c].at = IF last THEN 1 ELSE @ + 1,
                                  ![c].pc = IF last THEN "read" ELSE "write",
                                  ![c].faulty = @ \/ ~ok]
          /\ start' = [d \in Caller |-> IF last /\ d = c THEN regs' ELSE None]
    BY <1>10 DEF Write
  <2>2. c \in Caller /\ call[c].pc = "write" /\ UNCHANGED <<meant, ticks>>
    BY <1>3, <1>10 DEF Write
  <2>3. call[c] \in CallType /\ form[c] \in Form /\ Verified(form[c])
    BY <1>1, <1>2, <2>2
  <2>4. call[c].at \in Register /\ k = call[c].at
    BY <2>3 DEF CallType, WriteOrder, Register
  <2>5. regs' \in [Register -> 0 .. 255]
    <3>1. Byte(form[c], k) \in 0 .. 255
      BY <2>3, <2>4, ByteType
    <3> HIDE DEF k, last
    <3> QED
      BY <1>1, <2>1, <3>1
  <2>6. faults' \in 0 .. MaxFaults
    BY <1>1, <1>4, <2>1 DEF Transfer
  <2>7. /\ form' \in [Caller -> Form \cup {None}]
        /\ \A d \in Caller \ {c} : form'[d] = form[d]
        /\ k # 6 => form' = form
    <3>1. CASE k = 6
      <4> DEFINE f == [form[c] EXCEPT !.v = [form[c].v EXCEPT ![6] = @ - YearOffset]]
      <4>1. form[c].v \in [Register -> Int]
        BY <2>3 DEF Form
      <4>2. [form[c].v EXCEPT ![6] = @ - YearOffset] \in [Register -> Int]
        BY <4>1 DEF Register, YearOffset
      <4>3. f \in Form
        BY <2>3, <4>2 DEF Form
      <4>4. form' = [form EXCEPT ![c] = f]
        BY <2>1, <3>1
      <4> HIDE DEF f, k
      <4> QED
        BY <1>1, <2>2, <3>1, <4>3, <4>4
    <3>2. CASE k # 6
      BY <1>1, <2>1, <3>2
    <3> QED
      BY <3>1, <3>2
  <2> DEFINE at == IF last THEN 1 ELSE call[c].at + 1
             pc == IF last THEN "read" ELSE "write"
             faulty == call[c].faulty \/ ~ok
             rec == [call[c] EXCEPT !.at = at, !.pc = pc, !.faulty = faulty]
  <2>8. call' = [call EXCEPT ![c] = rec]
    BY <2>1
  <2>9. at \in Register
    BY <2>4 DEF IsLast, Register
  <2>10. pc \in {"read", "write"} /\ (pc = "write" => k # 6)
    BY <2>4 DEF IsLast
  <2> HIDE DEF at, pc, k, last, faulty
  <2>11. faulty \in BOOLEAN
    BY DEF faulty
  <2>12. rec \in CallType
    BY <2>3, <2>9, <2>10, <2>11 DEF CallType
  <2>13. rec.op = call[c].op /\ rec.pc = pc
    BY <2>3 DEF CallType
  <2> HIDE DEF rec
  <2>14. call' \in [Caller -> CallType] /\ call'[c] = rec
         /\ \A d \in Caller \ {c} : call'[d] = call[d]
    BY <1>1, <2>2, <2>8, <2>12
  <2>15. ASSUME NEW d \in Caller
         PROVE  /\ call'[d].op = "set" => d \in Setter
                /\ call'[d].pc = "write" =>
                     call'[d].op = "set" /\ form'[d] \in Form /\ Verified(form'[d])
    <3>1. CASE d = c
      BY <1>2, <2>2, <2>3, <2>7, <2>10, <2>13, <2>14, <3>1
    <3>2. CASE d # c
      BY <1>2, <2>7, <2>14, <3>2
    <3> QED
      BY <3>1, <3>2
  <2>16. DOMAIN start' = Caller
    BY <2>1
  <2> QED
    BY <1>1, <1>5, <2>2, <2>5, <2>6, <2>7, <2>14, <2>15, <2>16
<1>11. ASSUME NEW c \in Caller, NEW rec \in CallType, call' = [call EXCEPT ![c] = rec],
              rec.op = "set" => call[c].op = "set", rec.pc # "write", DOMAIN start' = Caller,
              form' = [form EXCEPT ![c] = form'[c]], form'[c] \in {form[c], None},
              meant' = [meant EXCEPT ![c] = meant'[c]], meant'[c] \in {meant[c], None},
              UNCHANGED <<regs, ticks>>, faults' \in 0 .. MaxFaults
       PROVE  TInv'
  <2>1. call' \in [Caller -> CallType] /\ call'[c] = rec
        /\ \A d \in Caller \ {c} : call'[d] = call[d]
    BY <1>1, <1>11
  <2>2. /\ form' \in [Caller -> Form \cup {None}] /\ meant' \in [Caller -> Times \cup {None}]
        /\ \A d \in Caller \ {c} : form'[d] = form[d]
    BY <1>1, <1>11
  <2>3. ASSUME NEW d \in Caller
        PROVE  /\ call'[d].op = "set" => d \in Setter
               /\ call'[d].pc = "write" =>
                    call'[d].op = "set" /\ form'[d] \in Form /\ Verified(form'[d])
    <3>1. CASE d = c
      BY <1>2, <1>11, <2>1, <3>1
    <3>2. CASE d # c
      BY <1>2, <2>1, <2>2, <3>2
    <3> QED
      BY <3>1, <3>2
  <2> QED
    BY <1>1, <1>5, <1>11, <2>1, <2>2, <2>3
<1>12. ASSUME NEW c \in Reader, BeginRead(c) PROVE TInv'
  <2>1. PICK op \in {"get", "sync"} : call' = [call EXCEPT ![c] = Begun(op, "read")]
    BY <1>12 DEF BeginRead
  <2>2. Begun(op, "read") \in CallType /\ Begun(op, "read").op = op /\ Begun(op, "read").pc = "read"
    BY BegunType DEF Begun
  <2>3. UNCHANGED <<regs, form, meant, ticks, faults>> /\ DOMAIN start' = Caller
    BY <1>1, <1>12 DEF BeginRead
  <2> QED
    BY <1>1, <1>3, <1>11, <2>1, <2>2, <2>3
<1>13. ASSUME NEW c \in Caller, Read(c) PROVE TInv'
  <2> DEFINE k == ReadOrder[call[c].at]
             last == IsLast(call[c].at)
             pc == IF ~last THEN "read" ELSE IF call[c].op = "get" THEN "return" ELSE "apply"
             at == IF last THEN 1 ELSE call[c].at + 1
  <2>0. PICK ok \in BOOLEAN : \E b \in IF ok THEN {regs[k]} ELSE Left(c, k) :
          /\ Transfer(ok)
          /\ call' = [call EXCEPT ![c].at = at, ![c].byte = IF last THEN 0 ELSE b,
                                  ![c].got[k] = b, ![c].pc = pc, ![c].faulty = @ \/ ~ok]
    BY <1>13 DEF Read
  <2>1. PICK b \in IF ok THEN {regs[k]} ELSE Left(c, k) :
          /\ Transfer(ok)
          /\ call' = [call EXCEPT ![c].at = at, ![c].byte = IF last THEN 0 ELSE b,
                                  ![c].got[k] = b, ![c].pc = pc, ![c].faulty = @ \/ ~ok]
    BY <2>0
  <2>2. UNCHANGED <<regs, form, meant, start, ticks>>
    BY <1>13 DEF Read
  <2>3. call[c] \in CallType
    BY <1>1
  <2>4. call[c].at \in Register /\ k = call[c].at
    BY <2>3 DEF CallType, ReadOrder, Register
  <2>5. regs[k] \in 0 .. 255 /\ Left(c, k) \subseteq 0 .. 255
    <3> HIDE DEF k
    <3>1. call[c].byte \in 0 .. 255
      BY <2>3 DEF CallType
    <3> QED
      BY <1>1, <2>4, <3>1 DEF Left
  <2>6. b \in 0 .. 255
    <3> HIDE DEF k
    <3> QED
      BY <2>1, <2>5
  <2>7. faults' \in 0 .. MaxFaults
    BY <1>1, <1>4, <2>1 DEF Transfer
  <2>8. at \in Register /\ pc \in {"read", "return", "apply"}
    BY <2>4 DEF IsLast, Register
  <2> DEFINE byte == IF last THEN 0 ELSE b
             got == [call[c].got EXCEPT ![k] = b]
             faulty == call[c].faulty \/ ~ok
             rec == [call[c] EXCEPT !.at = at, !.byte = byte, !.got = got, !.pc = pc, !.faulty = faulty]
  <2>9. call' = [call EXCEPT ![c] = rec]
    <3> HIDE DEF k, at, pc, last
    <3>1. call' = [call EXCEPT ![c] = [call[c] EXCEPT !.at = at, !.byte = byte, !.got[k] = b,
                                                      !.pc = pc, !.faulty = faulty]]
      BY <2>1
    <3>2. [call[c] EXCEPT !.at = at, !.byte = byte, !.got[k] = b, !.pc = pc, !.faulty = faulty] = rec
      OBVIOUS
    <3> QED
      BY <3>1, <3>2
  <2>10. byte \in 0 .. 255
    BY <2>6
  <2>11. got \in [Register -> 0 .. 255]
    <3>1. call[c].got \in [Register -> 0 .. 255]
      BY <2>3 DEF CallType
    <3> HIDE DEF k
    <3> QED
      BY <2>6, <3>1
  <2> HIDE DEF at, pc, k, last, faulty, byte, got
  <2>12. faulty \in BOOLEAN
    BY DEF faulty
  <2>13. rec \in CallType
    BY <2>3, <2>8, <2>10, <2>11, <2>12 DEF CallType
  <2>14. rec.op = call[c].op /\ rec.pc = pc
    BY <2>3 DEF CallType
  <2> HIDE DEF rec
  <2> QED
    BY <1>1, <1>11, <2>2, <2>7, <2>8, <2>9, <2>13, <2>14
<1>14. ASSUME NEW c \in Caller, Apply(c) PROVE TInv'
  <2> DEFINE t == Decoded(call[c].got)
  <2>1. PICK system \in {BrokenDown(t), None} :
          call' = [call EXCEPT ![c].pc = "return", ![c].system = system]
    BY <1>14 DEF Apply
  <2>2. UNCHANGED <<regs, form, meant, start, ticks, faults>>
    BY <1>14 DEF Apply
  <2>3. call[c] \in CallType
    BY <1>1
  <2>4. BrokenDown(t) \in [Register -> Int]
    <3>1. call[c].got \in [Register -> 0 .. 255]
      BY <2>3 DEF CallType
    <3>2. \A k \in Register : Field(call[c].got[k], k) \in Nat
      BY <3>1, FieldType
    <3>3. t.v = [k \in Register |-> Field(call[c].got[k], k)]
      BY DEF Decoded
    <3>4. t.v \in [Register -> Nat]
      BY <3>2, <3>3
    <3> HIDE DEF t
    <3> QED
      BY <3>4 DEF BrokenDown, Register
  <2> DEFINE rec == [call[c] EXCEPT !.pc = "return", !.system = system]
  <2>5. call' = [call EXCEPT ![c] = rec]
    BY <2>1
  <2>6. system \in [Register -> Int] \cup {None}
    <3> HIDE DEF t
    <3> QED
      BY <2>1, <2>4
  <2>7. rec \in CallType
    BY <2>3, <2>6 DEF CallType
  <2>8. rec.op = call[c].op /\ rec.pc = "return"
    BY <2>3 DEF CallType
  <2> HIDE DEF rec
  <2> QED
    BY <1>1, <1>11, <2>2, <2>5, <2>7, <2>8
<1>15. ASSUME NEW c \in Caller, Return(c) PROVE TInv'
  <2>1. call' = [call EXCEPT ![c] = Idle] /\ DOMAIN start' = Caller /\ UNCHANGED <<regs, ticks, faults>>
    BY <1>1, <1>15 DEF Return
  <2>2. \/ UNCHANGED <<form, meant>>
        \/ form' = [form EXCEPT ![c] = None] /\ meant' = [meant EXCEPT ![c] = None]
    BY <1>15 DEF Return
  <2>3. Idle \in CallType /\ Idle.op = "none" /\ Idle.pc = "idle"
    BY BegunType DEF Idle, Begun
  <2>4. /\ form' = [form EXCEPT ![c] = form'[c]] /\ form'[c] \in {form[c], None}
        /\ meant' = [meant EXCEPT ![c] = meant'[c]] /\ meant'[c] \in {meant[c], None}
    BY <1>1, <2>2
  <2> QED
    BY <1>1, <1>11, <2>1, <2>3, <2>4
<1>16. CASE UNCHANGED vars
  BY <1>1, <1>2, <1>5, <1>16 DEF vars
<1> QED
  BY <1>6, <1>8, <1>9, <1>10, <1>12, <1>13, <1>14, <1>15, <1>16 DEF Next

(***************************************************************************)
(* Everything has its type.                                                *)
(***************************************************************************)
THEOREM TypeCorrect == Spec => []TypeOK
<1>1. TInv => TypeOK
  BY DEF TInv
<1> QED
  BY <1>1, InitTypes, TypesStep, PTL DEF Spec

-----------------------------------------------------------------------------
(***************************************************************************)
(* What a call that sets the clock keeps, if no other sets it meanwhile.   *)
(* From the moment the seconds are written the chip does not tick: the     *)
(* registers that are written stay as they are until all of them are read. *)
(***************************************************************************)
OneSetter == \A c, d \in Caller : Setting(c) /\ Setting(d) => c = d

\* The registers written so far have the time that is meant, then all have it,
\* and the caller's copy too.
SetBy(c) ==
  call[c].pc \in {"write", "read", "apply"} =>
    /\ meant[c] \in Times /\ Verified(meant[c])
    /\ call[c].pc = "write" =>
         /\ form[c] = meant[c]
         /\ \A k \in Register : k < call[c].at => regs[k] = Byte(meant[c], k)
    /\ call[c].pc # "write" => \A k \in Register : regs[k] = Byte(meant[c], k)
    /\ call[c].pc = "read" =>
         \A k \in Register : k < call[c].at => call[c].got[k] = Byte(meant[c], k)
    /\ call[c].pc = "apply" =>
         \A k \in Register : call[c].got[k] = Byte(meant[c], k)

ToldBy(c) ==
  call[c].system # None =>
    /\ meant[c] \in Times /\ Verified(meant[c])
    /\ call[c].system = BrokenDown(Decoded(Bytes(meant[c])))

SetInv == \A c \in Caller : Proper(c) => SetBy(c) /\ ToldBy(c)

LEMMA OneSetterStep == Alone /\ TInv /\ OneSetter /\ [Next]_vars => OneSetter'
<1> SUFFICES ASSUME Alone, TInv, OneSetter, [Next]_vars PROVE OneSetter'
  OBVIOUS
<1>1. call \in [Caller -> CallType] /\ \A c \in Caller : call[c].op = "set" => c \in Setter
  BY DEF TInv, TypeOK, CallType
<1>2. ASSUME NEW c \in Caller, \A d \in Caller \ {c} : call'[d] = call[d],
             Setting(c)' => Setting(c)
      PROVE  OneSetter'
  BY <1>2 DEF OneSetter, Setting
<1>3. ASSUME NEW c \in Setter, NEW again \in BOOLEAN, Begin(c, again) PROVE OneSetter'
  <2>1. \A d \in Caller : ~Setting(d)
    BY <1>1, <1>3 DEF Begin, Setting
  <2>2. \A d \in Caller \ {c} : call'[d] = call[d]
    BY <1>1, <1>3 DEF Begin
  <2> QED
    BY <2>1, <2>2 DEF OneSetter, Setting
<1>4. CASE Tick \/ UNCHANGED vars
  BY <1>4 DEF Tick, vars, OneSetter, Setting
<1>5. ASSUME NEW c \in Setter, Write(c) PROVE OneSetter'
  <2>1. c \in Caller /\ \A d \in Caller \ {c} : call'[d] = call[d]
    BY <1>1, <1>5 DEF Write, Caller
  <2>2. call'[c].op = call[c].op /\ call[c].pc = "write"
    BY <1>1, <1>5, <2>1 DEF Write, CallType
  <2> QED
    BY <1>2, <2>1, <2>2 DEF Setting
<1>6. ASSUME NEW c \in Reader, BeginRead(c) PROVE OneSetter'
  <2>1. c \in Caller /\ \A d \in Caller \ {c} : call'[d] = call[d]
    BY <1>1, <1>6 DEF BeginRead, Caller
  <2>2. call'[c].op # "set"
    BY <1>1, <1>6, <2>1 DEF BeginRead, Begun
  <2> QED
    BY <1>2, <2>1, <2>2 DEF Setting
<1>7. ASSUME NEW c \in Caller, Read(c) PROVE OneSetter'
  <2>1. \A d \in Caller \ {c} : call'[d] = call[d]
    BY <1>1, <1>7 DEF Read
  <2>2. call'[c].op = call[c].op /\ call[c].pc = "read"
    BY <1>1, <1>7 DEF Read, CallType
  <2> QED
    BY <1>2, <2>1, <2>2 DEF Setting
<1>8. ASSUME NEW c \in Caller, Apply(c) PROVE OneSetter'
  <2>1. \A d \in Caller \ {c} : call'[d] = call[d]
    BY <1>1, <1>8 DEF Apply
  <2>2. call'[c].op = call[c].op /\ call[c].pc = "apply"
    BY <1>1, <1>8 DEF Apply, CallType
  <2> QED
    BY <1>2, <2>1, <2>2 DEF Setting
<1>9. ASSUME NEW c \in Caller, Return(c) PROVE OneSetter'
  <2>1. \A d \in Caller \ {c} : call'[d] = call[d]
    BY <1>1, <1>9 DEF Return
  <2>2. call'[c].op = "none"
    BY <1>1, <1>9 DEF Return, Idle, Begun
  <2> QED
    BY <1>2, <2>1, <2>2 DEF Setting
<1>10. ASSUME NEW c \in Setter, SetTime(c) \/ SetAgain(c) PROVE OneSetter'
  BY <1>3, <1>10 DEF SetTime, SetAgain
<1> QED
  BY <1>4, <1>5, <1>6, <1>7, <1>8, <1>9, <1>10 DEF Next

LEMMA SetStep == Alone /\ TInv /\ OneSetter /\ SetInv /\ [Next]_vars => SetInv'
<1> SUFFICES ASSUME Alone, TInv, OneSetter, SetInv, [Next]_vars, NEW c \in Caller, Proper(c)'
             PROVE  SetBy(c)' /\ ToldBy(c)'
  BY DEF SetInv
<1>1. /\ call \in [Caller -> CallType] /\ regs \in [Register -> 0 .. 255]
      /\ form \in [Caller -> Form \cup {None}] /\ meant \in [Caller -> Times \cup {None}]
      /\ \A d \in Caller : call[d].op = "set" => d \in Setter
      /\ \A d \in Caller : call[d].pc = "write" => call[d].op = "set"
  BY DEF TInv, TypeOK, CallType
<1>2. Proper(c) => SetBy(c) /\ ToldBy(c)
  BY DEF SetInv
<1>3. call'[c].op = "set" /\ ~call'[c].faulty /\ ~call'[c].again
  BY DEF Proper
\* A step of the chip, or of another caller.
<1>4. ASSUME call'[c] = call[c], form'[c] = form[c], meant'[c] = meant[c],
             \/ call[c].pc \notin {"write", "read", "apply"}
             \/ call[c].pc = "write" /\ call[c].at = 1
             \/ UNCHANGED regs
      PROVE  SetBy(c)' /\ ToldBy(c)'
  <2>1. Proper(c)
    BY <1>4 DEF Proper
  <2>2. SetBy(c) /\ ToldBy(c)
    BY <1>2, <2>1
  <2>3. ToldBy(c)'
    BY <1>4, <2>2 DEF ToldBy
  <2>4. SetBy(c)'
    BY <1>4, <2>2 DEF SetBy, Register
  <2> QED
    BY <2>3, <2>4
<1>5. CASE Tick
  <2>1. UNCHANGED <<call, form, meant>> /\ ~Restarted(c)
    BY <1>5 DEF Tick
  <2>2. ASSUME call[c].pc \in {"write", "read", "apply"}
        PROVE  call[c].pc = "write" /\ call[c].at = 1
    <3>1. Setting(c) /\ ~call[c].faulty
      BY <1>3, <2>1, <2>2 DEF Setting
    <3>2. call[c].pc = "write" /\ ~ \E j \in 1 .. call[c].at - 1 : WriteOrder[j] = 1
      BY <2>1, <3>1 DEF Restarted
    <3>3. call[c].at \in Register
      BY <1>1 DEF CallType
    <3>4. WriteOrder[1] = 1
      BY DEF WriteOrder
    <3>5. ~(1 \in 1 .. call[c].at - 1)
      BY <3>2, <3>4
    <3> QED
      BY <3>2, <3>3, <3>5 DEF Register
  <2> QED
    BY <1>4, <2>1, <2>2
<1>6. ASSUME NEW d \in Setter, SetTime(d) PROVE SetBy(c)' /\ ToldBy(c)'
  <2>1. PICK t \in Times : form' = [form EXCEPT ![d] = t] /\ meant' = [meant EXCEPT ![d] = t]
    BY <1>6 DEF SetTime
  <2> DEFINE pc == IF Verified(form'[d]) THEN "write" ELSE "return"
  <2>2. /\ call' = [call EXCEPT ![d] = [Begun("set", pc) EXCEPT !.again = FALSE]]
        /\ UNCHANGED regs
    BY <1>6 DEF SetTime, Begin
  <2>3. CASE d # c
    BY <1>1, <1>4, <2>1, <2>2, <2>3
  <2>4. CASE d = c
    <3>1. form'[c] = t /\ meant'[c] = t
      BY <1>1, <2>1, <2>4
    <3>2. call'[c].pc = pc /\ call'[c].at = 1 /\ call'[c].system = None
      BY <1>1, <2>2, <2>4 DEF Begun
    <3>3. ToldBy(c)'
      BY <3>2 DEF ToldBy
    <3>4. SetBy(c)'
      BY <2>4, <3>1, <3>2 DEF SetBy, Register
    <3> QED
      BY <3>3, <3>4
  <2> QED
    BY <2>3, <2>4
<1>7. ASSUME NEW d \in Setter, SetAgain(d) PROVE SetBy(c)' /\ ToldBy(c)'
  <2> DEFINE pc == IF Verified(form'[d]) THEN "write" ELSE "return"
  <2>1. /\ call' = [call EXCEPT ![d] = [Begun("set", pc) EXCEPT !.again = TRUE]]
        /\ UNCHANGED <<regs, form, meant>>
    BY <1>7 DEF SetAgain, Begin
  <2>2. d # c
    BY <1>1, <1>3, <2>1 DEF Begun
  <2> QED
    BY <1>1, <1>4, <2>1, <2>2
<1>8. ASSUME NEW d \in Setter, Write(d), d # c PROVE SetBy(c)' /\ ToldBy(c)'
  <2>1. d \in Caller /\ Setting(d)
    BY <1>1, <1>8 DEF Write, Setting, Caller
  <2>2. call'[c] = call[c] /\ form'[c] = form[c] /\ meant'[c] = meant[c]
    BY <1>1, <1>8 DEF Write
  <2>3. call[c].pc \notin {"write", "read", "apply"}
    BY <1>3, <1>8, <2>1, <2>2 DEF OneSetter, Setting
  <2> QED
    BY <1>4, <2>2, <2>3
<1>9. CASE Write(c)
  <2> DEFINE k == WriteOrder[call[c].at]
             last == IsLast(call[c].at)
  <2>1. PICK ok \in BOOLEAN :
          /\ regs' = IF ok THEN [regs EXCEPT ![k] = Byte(form[c], k)] ELSE regs
          /\ form' = IF k = 6 THEN [form EXCEPT ![c].v[6] = @ - YearOffset] ELSE form
          /\ call' = [call EXCEPT ![c].at = IF last THEN 1 ELSE @ + 1,
                                  ![c].pc = IF last THEN "read" ELSE "write",
                                  ![c].faulty = @ \/ ~ok]
    BY <1>9 DEF Write
  <2>2. call[c].pc = "write" /\ UNCHANGED meant
    BY <1>9 DEF Write
  <2>3. call[c] \in CallType
    BY <1>1
  <2>4. call[c].at \in Register /\ k = call[c].at
    BY <2>3 DEF CallType, WriteOrder, Register
  <2>5. /\ call'[c].at = IF last THEN 1 ELSE call[c].at + 1
        /\ call'[c].pc = IF last THEN "read" ELSE "write"
        /\ call'[c].faulty = (call[c].faulty \/ ~ok)
        /\ call'[c].op = call[c].op /\ call'[c].again = call[c].again
        /\ call'[c].system = call[c].system
    <3> HIDE DEF last, k
    <3> QED
      BY <1>1, <2>1, <2>3 DEF CallType
  <2>6. ok /\ Proper(c)
    BY <1>3, <2>1, <2>5 DEF Proper
  <2>7. SetBy(c) /\ ToldBy(c)
    BY <1>2, <2>6
  <2>8. /\ meant'[c] \in Times /\ Verified(meant'[c]) /\ form[c] = meant'[c]
        /\ \A j \in Register : j < call[c].at => regs[j] = Byte(meant'[c], j)
    BY <2>2, <2>7 DEF SetBy
  <2>9. last <=> k = 6
    BY <2>4 DEF IsLast
  <2> HIDE DEF k, last
  <2>10. \A j \in Register : j <= call[c].at => regs'[j] = Byte(meant'[c], j)
    <3>1. regs' = [regs EXCEPT ![call[c].at] = Byte(meant'[c], call[c].at)]
      BY <2>1, <2>4, <2>6, <2>8
    <3> QED
      BY <1>1, <2>4, <2>8, <3>1 DEF Register
  <2>11. ~last => form'[c] = form[c]
    BY <2>1, <2>9
  <2>12. ToldBy(c)'
    BY <2>2, <2>5, <2>7 DEF ToldBy
  <2>13. SetBy(c)'
    BY <2>4, <2>5, <2>8, <2>9, <2>10, <2>11 DEF SetBy, Register
  <2> QED
    BY <2>12, <2>13
<1>10. ASSUME NEW d \in Reader, BeginRead(d) PROVE SetBy(c)' /\ ToldBy(c)'
  <2>1. d # c
    BY <1>1, <1>3, <1>10 DEF BeginRead, Begun
  <2>2. call'[c] = call[c] /\ UNCHANGED <<regs, form, meant>>
    BY <1>1, <1>10, <2>1 DEF BeginRead
  <2> QED
    BY <1>4, <2>2
<1>11. ASSUME NEW d \in Caller, Read(d) \/ Apply(d) \/ Return(d), d # c
       PROVE  SetBy(c)' /\ ToldBy(c)'
  <2>1. call'[c] = call[c] /\ form'[c] = form[c] /\ meant'[c] = meant[c] /\ UNCHANGED regs
    BY <1>1, <1>11 DEF Read, Apply, Return
  <2> QED
    BY <1>4, <2>1
<1>12. CASE Read(c)
  <2> DEFINE k == ReadOrder[call[c].at]
             last == IsLast(call[c].at)
             pc == IF ~last THEN "read" ELSE IF call[c].op = "get" THEN "return" ELSE "apply"
             at == IF last THEN 1 ELSE call[c].at + 1
             byte(b) == IF last THEN 0 ELSE b
  <2>1. PICK ok \in BOOLEAN : \E b \in IF ok THEN {regs[k]} ELSE Left(c, k) :
          call' = [call EXCEPT ![c].at = at, ![c].byte = byte(b), ![c].got[k] = b, ![c].pc = pc,
                               ![c].faulty = @ \/ ~ok]
    BY <1>12 DEF Read
  <2>2. PICK b \in IF ok THEN {regs[k]} ELSE Left(c, k) :
          call' = [call EXCEPT ![c].at = at, ![c].byte = byte(b), ![c].got[k] = b, ![c].pc = pc,
                               ![c].faulty = @ \/ ~ok]
    BY <2>1
  <2>3. call[c].pc = "read" /\ UNCHANGED <<regs, form, meant>>
    BY <1>12 DEF Read
  <2>4. call[c] \in CallType /\ call[c].got \in [Register -> 0 .. 255]
    BY <1>1 DEF CallType
  <2>5. call[c].at \in Register /\ k = call[c].at
    BY <2>4 DEF CallType, ReadOrder, Register
  <2>6. /\ call'[c].at = at /\ call'[c].pc = pc
        /\ call'[c].got = [call[c].got EXCEPT ![k] = b]
        /\ call'[c].faulty = (call[c].faulty \/ ~ok)
        /\ call'[c].op = call[c].op /\ call'[c].again = call[c].again
        /\ call'[c].system = call[c].system
    <3> HIDE DEF at, pc, k, byte, last
    <3> QED
      BY <1>1, <2>2, <2>4 DEF CallType
  <2>7. ok /\ Proper(c)
    BY <1>3, <2>6 DEF Proper
  <2>8. SetBy(c) /\ ToldBy(c)
    BY <1>2, <2>7
  <2>9. /\ meant'[c] \in Times /\ Verified(meant'[c])
        /\ \A j \in Register : regs'[j] = Byte(meant'[c], j)
        /\ \A j \in Register : j < call[c].at => call[c].got[j] = Byte(meant'[c], j)
    BY <2>3, <2>8 DEF SetBy
  <2>10. last <=> call[c].at = 6
    BY DEF IsLast
  <2>11. b = Byte(meant'[c], call[c].at)
    BY <2>2, <2>3, <2>5, <2>7, <2>9
  <2>12. pc = IF last THEN "apply" ELSE "read"
    BY <1>3, <2>6
  <2> HIDE DEF k, last, pc
  <2>13. \A j \in Register : j <= call[c].at => call'[c].got[j] = Byte(meant'[c], j)
    BY <2>4, <2>5, <2>6, <2>9, <2>11 DEF Register
  <2>14. ToldBy(c)'
    BY <2>3, <2>6, <2>8 DEF ToldBy
  <2>15. SetBy(c)'
    BY <2>5, <2>6, <2>9, <2>10, <2>12, <2>13 DEF SetBy, Register
  <2> QED
    BY <2>14, <2>15
<1>13. CASE Apply(c)
  <2>1. PICK system \in {BrokenDown(Decoded(call[c].got)), None} :
          call' = [call EXCEPT ![c].pc = "return", ![c].system = system]
    BY <1>13 DEF Apply
  <2>2. call[c].pc = "apply" /\ UNCHANGED <<regs, form, meant>>
    BY <1>13 DEF Apply
  <2>3. call[c] \in CallType /\ call[c].got \in [Register -> 0 .. 255]
    BY <1>1 DEF CallType
  <2>4. /\ call'[c].pc = "return" /\ call'[c].system = system
        /\ call'[c].faulty = call[c].faulty
        /\ call'[c].op = call[c].op /\ call'[c].again = call[c].again
    BY <1>1, <2>1, <2>3 DEF CallType
  <2>5. Proper(c)
    BY <1>3, <2>4 DEF Proper
  <2>6. /\ meant'[c] \in Times /\ Verified(meant'[c])
        /\ \A j \in Register : call[c].got[j] = Byte(meant'[c], j)
    BY <1>2, <2>2, <2>5 DEF SetBy
  <2>7. call[c].got = Bytes(meant'[c])
    BY <2>3, <2>6 DEF Bytes
  <2>8. ToldBy(c)'
    BY <2>1, <2>4, <2>6, <2>7 DEF ToldBy
  <2>9. SetBy(c)'
    BY <2>4 DEF SetBy
  <2> QED
    BY <2>8, <2>9
<1>14. CASE Return(c)
  BY <1>1, <1>3, <1>14 DEF Return, Idle, Begun
<1>15. CASE UNCHANGED vars
  BY <1>4, <1>15 DEF vars
<1> QED
  BY <1>5, <1>6, <1>7, <1>8, <1>9, <1>10, <1>11, <1>12, <1>13, <1>14, <1>15 DEF Next, Caller

LEMMA SetInit == Init => OneSetter /\ SetInv
BY DEF Init, OneSetter, SetInv, Setting, Proper, Idle, Begun

LEMMA SetKept == ASSUME Alone PROVE Spec => [](TInv /\ SetInv)
<1>1. TInv /\ OneSetter /\ SetInv /\ [Next]_vars => (TInv /\ OneSetter /\ SetInv)'
  BY TypesStep, OneSetterStep, SetStep
<1> QED
  BY <1>1, InitTypes, SetInit, PTL DEF Spec

LEMMA MeantRight ==
  ASSUME NEW t \in Times, Verified(t)
  PROVE  Right(t)
BY RtcAssumption DEF Right

(***************************************************************************)
(* A time that is set is what the chip has when the last register is       *)
(* written, if no two threads set it at once and no transfer fails.        *)
(***************************************************************************)
THEOREM TimeIsShown == ASSUME Alone PROVE Spec => []ShownAsMeant
<1>1. TInv /\ SetInv => ShownAsMeant
  <2> SUFFICES ASSUME TInv, SetInv, NEW c \in Caller, Proper(c), call[c].pc \in {"read", "apply"}
               PROVE  SameTime(Decoded(regs), meant[c])
    BY DEF ShownAsMeant
  <2>1. /\ meant[c] \in Times /\ Verified(meant[c])
        /\ \A k \in Register : regs[k] = Byte(meant[c], k)
    BY DEF SetInv, SetBy
  <2>2. regs = Bytes(meant[c])
    BY <2>1 DEF TInv, TypeOK, Bytes
  <2> QED
    BY <2>1, <2>2, MeantRight, RoundTrip
<1> QED
  BY <1>1, SetKept, PTL

(***************************************************************************)
(* Linux is given the time that was set, in the 12-hour system but for the *)
(* half of the day.                                                        *)
(***************************************************************************)
THEOREM LinuxFollows == ASSUME Alone PROVE Spec => []SystemFollows
<1>1. TInv /\ SetInv => SystemFollows
  <2> SUFFICES ASSUME TInv, SetInv, NEW c \in Caller, Proper(c), call[c].system # None
               PROVE  /\ \A k \in Register \ {3} :
                            call[c].system[k] = LinuxTime(meant[c])[k]
                      /\ meant[c].sys = "24" => call[c].system[3] = LinuxTime(meant[c])[3]
                      /\ (call[c].system[3] - LinuxTime(meant[c])[3]) % 12 = 0
    BY DEF SystemFollows
  <2> DEFINE m == meant[c]
  <2>1. m \in Times /\ Verified(m) /\ call[c].system = BrokenDown(Decoded(Bytes(m)))
    BY DEF SetInv, ToldBy
  <2>2. Decoded(Bytes(m)).v = m.v
    BY <2>1, MeantRight, RoundTrip DEF SameTime
  <2>3. m.v \in [Register -> Nat]
    BY <2>1, RtcAssumption DEF Time
  <2>4. call[c].system = [m.v EXCEPT ![5] = @ - 1, ![6] = @ - 1900]
    BY <2>1, <2>2 DEF BrokenDown
  <2>5. LinuxTime(m) = [m.v EXCEPT ![3] = Hour24(m), ![5] = @ - 1, ![6] = @ - 1900]
    BY DEF LinuxTime
  <2>6. /\ call[c].system[3] = m.v[3] /\ LinuxTime(m)[3] = Hour24(m)
        /\ \A k \in Register \ {3} : call[c].system[k] = LinuxTime(m)[k]
    <3> HIDE DEF m
    <3> QED BY <2>3, <2>4, <2>5 DEF Register
  <2>7. m.v[3] \in Nat
    BY <2>3 DEF Register
  <2>8. /\ m.sys = "24" => Hour24(m) = m.v[3]
        /\ (m.v[3] - Hour24(m)) % 12 = 0
    <3>1. Hour24(m) = m.v[3] \/ Hour24(m) = m.v[3] % 12 \/ Hour24(m) = (m.v[3] % 12) + 12
      BY <2>7 DEF Hour24
    <3>2. m.sys = "24" => Hour24(m) = m.v[3]
      BY DEF Hour24
    <3> DEFINE v == m.v[3]
               q == v \div 12
    <3>3. q \in Int /\ v = 12 * q + (v % 12) /\ v % 12 \in Int
      BY <2>7
    <3>4. \A n \in Int : (12 * n) % 12 = 0
      OBVIOUS
    <3> HIDE DEF m, v, q
    <3>5. \E n \in Int : v - Hour24(m) = 12 * n
      <4>1. /\ v - v = 12 * 0 /\ v - (v % 12) = 12 * q
            /\ v - ((v % 12) + 12) = 12 * (q - 1) /\ q - 1 \in Int /\ 0 \in Int
        BY <2>7, <3>3 DEF v
      <4>2. Hour24(m) = v \/ Hour24(m) = v % 12 \/ Hour24(m) = (v % 12) + 12
        BY <3>1 DEF v
      <4>3. /\ Hour24(m) = v => v - Hour24(m) = 12 * 0
            /\ Hour24(m) = v % 12 => v - Hour24(m) = 12 * q
            /\ Hour24(m) = (v % 12) + 12 => v - Hour24(m) = 12 * (q - 1)
        BY <4>1
      <4>4. q \in Int /\ q - 1 \in Int /\ 0 \in Int
        BY <3>3, <4>1
      <4> QED BY <4>2, <4>3, <4>4, Zenon
    <3>6. (v - Hour24(m)) % 12 = 0
      BY <3>4, <3>5
    <3> QED BY <3>2, <3>6 DEF v
  <2> QED
    BY <2>6, <2>8
<1> QED
  BY <1>1, SetKept, PTL

-----------------------------------------------------------------------------
(***************************************************************************)
(* Reading while the clock goes on.  What a register shows: its field, the *)
(* hours counted up to 23.                                                 *)
(***************************************************************************)
Worth(b, k) ==
  IF k # 3 THEN Field(b, k)
  ELSE IF ~TwelveHours(b) THEN Field(b, 3)
  ELSE (Field(b, 3) % 12) + (IF (b \div 32) % 2 = 1 THEN 12 ELSE 0)

Lowest(k) == <<0, 0, 0, 1, 1, YearOffset>>[k]
Highest(k) == <<59, 59, 23, 31, 12, LastYear>>[k]

\* A byte that register k can have.
Possible(b, k) ==
  /\ b \in 0 .. 255
  /\ Worth(b, k) \in Int /\ Lowest(k) <= Worth(b, k) /\ Worth(b, k) <= Highest(k)
  /\ k = 3 /\ TwelveHours(b) => Field(b, 3) \in 1 .. 12

Dated(bytes) == \A k \in Register : Possible(bytes[k], k)

\* A time as a number, and the same without its seconds.
Stamp(bytes) == 86400 * Day(Decoded(bytes)) + Second(Decoded(bytes))

Minutes(bytes) ==
  32140800 * Worth(bytes[6], 6) + 2678400 * Worth(bytes[5], 5) + 86400 * Worth(bytes[4], 4)
    + 3600 * Worth(bytes[3], 3) + 60 * Worth(bytes[2], 2)

LEMMA StampIs ==
  ASSUME NEW b
  PROVE  /\ \A k \in Register : Decoded(b).v[k] = Field(b[k], k)
         /\ Hour24(Decoded(b)) = Worth(b[3], 3)
<1>1. Decoded(b).v = [k \in Register |-> Field(b[k], k)]
  BY DEF Decoded
<1>2. \A k \in Register : Decoded(b).v[k] = Field(b[k], k)
  BY <1>1
<1>3. Decoded(b).v[3] = Field(b[3], 3)
  BY <1>2 DEF Register
<1>4. Hour24(Decoded(b)) = Worth(b[3], 3)
  BY <1>3 DEF Hour24, Worth, Decoded
<1> QED
  BY <1>2, <1>4

\* In a time that can be, the stamp is made of minutes and seconds and orders
\* times as Before does.
LEMMA StampSum ==
  ASSUME NEW b, Dated(b)
  PROVE  /\ Minutes(b) \in Int /\ Worth(b[1], 1) \in 0 .. 59
         /\ Stamp(b) = Minutes(b) + Worth(b[1], 1)
         /\ Day(Decoded(b)) \in Int
         /\ Second(Decoded(b)) \in Int /\ 0 <= Second(Decoded(b)) /\ Second(Decoded(b)) < 86400
<1> DEFINE s == Worth(b[1], 1)
           mi == Worth(b[2], 2)
           h == Worth(b[3], 3)
           d == Worth(b[4], 4)
           mo == Worth(b[5], 5)
           y == Worth(b[6], 6)
<1>1. s \in 0 .. 59 /\ mi \in 0 .. 59 /\ h \in 0 .. 23 /\ d \in Int /\ mo \in Int /\ y \in Int
  BY DEF Dated, Possible, Register, Lowest, Highest
<1>2. Day(Decoded(b)) = (12 * y + mo) * 31 + d
  BY StampIs DEF Day, Worth, Register
<1>3. Second(Decoded(b)) = (60 * h + mi) * 60 + s
  <2>1. Decoded(b).v[1] = s /\ Decoded(b).v[2] = mi
    BY StampIs DEF Worth, Register
  <2> QED
    BY <2>1, StampIs DEF Second
<1>4. Minutes(b) = 32140800 * y + 2678400 * mo + 86400 * d + 3600 * h + 60 * mi
  BY DEF Minutes
<1> HIDE DEF s, mi, h, d, mo, y
<1>5. Stamp(b) = 86400 * ((12 * y + mo) * 31 + d) + ((60 * h + mi) * 60 + s)
  BY <1>2, <1>3 DEF Stamp
<1>6. 86400 * ((12 * y + mo) * 31 + d) + ((60 * h + mi) * 60 + s)
        = 32140800 * y + 2678400 * mo + 86400 * d + 3600 * h + 60 * mi + s
  BY <1>1, SMT
<1>7. (60 * h + mi) * 60 + s \in Int /\ 0 <= (60 * h + mi) * 60 + s /\ (60 * h + mi) * 60 + s < 86400
  BY <1>1, SMT
<1>8. Minutes(b) \in Int /\ Day(Decoded(b)) \in Int
  BY <1>1, <1>2, <1>4, SMT
<1>9. Stamp(b) = Minutes(b) + s
  BY <1>4, <1>5, <1>6
<1> QED
  BY <1>1, <1>3, <1>7, <1>8, <1>9 DEF s

LEMMA BeforeIs ==
  ASSUME NEW a, NEW b, Dated(a), Dated(b)
  PROVE  Before(Decoded(a), Decoded(b)) => Stamp(a) < Stamp(b)
<1> DEFINE da == Day(Decoded(a))
           db == Day(Decoded(b))
           sa == Second(Decoded(a))
           sb == Second(Decoded(b))
<1>1. da \in Int /\ db \in Int /\ sa \in Int /\ sb \in Int /\ 0 <= sa /\ sa < 86400 /\ 0 <= sb /\ sb < 86400
  BY StampSum
<1>2. Before(Decoded(a), Decoded(b)) => da < db \/ (da = db /\ sa < sb)
  BY DEF Before
<1>3. Stamp(a) = 86400 * da + sa /\ Stamp(b) = 86400 * db + sb
  BY DEF Stamp
<1> HIDE DEF da, db, sa, sb
<1> QED
  BY <1>1, <1>2, <1>3, SMT

(***************************************************************************)
(* A second: one register shows one more, those above it show the same,    *)
(* and each of those below has a value that it can have.                   *)
(***************************************************************************)
Carries(a, b) ==
  \E l \in Register :
    /\ Worth(b[l], l) = Worth(a[l], l) + 1
    /\ \A k \in Register : k > l => Worth(b[k], k) = Worth(a[k], k)

\* What is written of a time is what the register shows.
LEMMA WorthWritten ==
  ASSUME NEW t \in Form, Fits(t)
  PROVE  /\ \A k \in {1, 2, 4, 5} : Worth(Byte(t, k), k) = t.v[k]
         /\ Worth(Byte(t, 3), 3) = Hour24(t)
         /\ TwelveHours(Byte(t, 3)) => Field(Byte(t, 3), 3) \in 1 .. 12
         /\ Hour24(t) \in 0 .. 23
<1>1. \A k \in {1, 2, 4, 5} : Worth(Byte(t, k), k) = t.v[k]
  BY SmallField DEF Worth
<1> DEFINE b == Byte(t, 3)
           n == t.v[3]
<1>2. /\ Field(b, 3) = n /\ (TwelveHours(b) <=> t.sys = "12")
      /\ t.sys = "12" => ((b \div 32) % 2 = 1 <=> t.half = "PM")
  BY HourField
<1>3. n \in IF t.sys = "24" THEN 0 .. 23 ELSE 1 .. 12
  BY DEF Fits
<1>4. t.sys \in {"24", "12"}
  BY DEF Form
<1>5. Hour24(t) = IF t.sys = "24" THEN n ELSE (n % 12) + (IF t.half = "PM" THEN 12 ELSE 0)
  BY DEF Hour24
<1>6. Worth(b, 3) = IF ~TwelveHours(b) THEN Field(b, 3)
                    ELSE (Field(b, 3) % 12) + (IF (b \div 32) % 2 = 1 THEN 12 ELSE 0)
  BY DEF Worth
<1> HIDE DEF b, n
<1>7. Worth(b, 3) = Hour24(t)
  BY <1>2, <1>4, <1>5, <1>6
<1>8. TwelveHours(b) => Field(b, 3) \in 1 .. 12
  BY <1>2, <1>3
<1>9. Hour24(t) \in 0 .. 23
  BY <1>3, <1>4, <1>5
<1> QED
  BY <1>1, <1>7, <1>8, <1>9 DEF b

LEMMA PossibleWritten ==
  ASSUME NEW t \in Form, Fits(t), NEW k \in 1 .. 5
  PROVE  Byte(t, k) \in 0 .. 255 => Possible(Byte(t, k), k)
<1>1. k \in {1, 2, 4, 5} => Worth(Byte(t, k), k) = t.v[k]
  BY WorthWritten
<1>2. Worth(Byte(t, 3), 3) \in 0 .. 23
      /\ (TwelveHours(Byte(t, 3)) => Field(Byte(t, 3), 3) \in 1 .. 12)
  BY WorthWritten
<1>3. t.v[1] \in 0 .. 59 /\ t.v[2] \in 0 .. 59 /\ t.v[4] \in 1 .. 31 /\ t.v[5] \in 1 .. 12
  BY DEF Fits
<1>4. CASE k = 1
  BY <1>1, <1>3, <1>4 DEF Possible, Lowest, Highest
<1>5. CASE k = 2
  BY <1>1, <1>3, <1>5 DEF Possible, Lowest, Highest
<1>6. CASE k = 3
  BY <1>2, <1>6 DEF Possible, Lowest, Highest
<1>7. CASE k = 4
  BY <1>1, <1>3, <1>7 DEF Possible, Lowest, Highest
<1>8. CASE k = 5
  BY <1>1, <1>3, <1>8 DEF Possible, Lowest, Highest
<1> QED
  BY <1>4, <1>5, <1>6, <1>7, <1>8

\* What Later does to each field of a time.
LEMMA LaterFields ==
  ASSUME NEW t \in Form, Fits(t), t.v \in [Register -> Nat],
         NEW u, u = Later(t)
  PROVE  /\ u \in Form /\ Fits(u)
         /\ \/ u.v[1] = t.v[1] + 1 /\ u.v[2] = t.v[2] /\ Hour24(u) = Hour24(t)
               /\ u.v[4] = t.v[4] /\ u.v[5] = t.v[5] /\ u.v[6] = t.v[6]
            \/ u.v[2] = t.v[2] + 1 /\ Hour24(u) = Hour24(t)
               /\ u.v[4] = t.v[4] /\ u.v[5] = t.v[5] /\ u.v[6] = t.v[6]
            \/ Hour24(u) = Hour24(t) + 1
               /\ u.v[4] = t.v[4] /\ u.v[5] = t.v[5] /\ u.v[6] = t.v[6]
            \/ u.v[4] = t.v[4] + 1 /\ u.v[5] = t.v[5] /\ u.v[6] = t.v[6]
            \/ u.v[5] = t.v[5] + 1 /\ u.v[6] = t.v[6]
            \/ u.v[6] = t.v[6] + 1
<1> DEFINE minute == t.v[1] >= 59
           hour   == minute /\ t.v[2] >= 59
           day    == hour /\ Hour24(t) = 23
           full   == t.v[4] >= DaysIn(t.v[5], t.v[6])
           month  == day /\ full
           year   == month /\ t.v[5] >= 12
           next   == IF t.sys = "24" THEN (t.v[3] + 1) % 24 ELSE (t.v[3] % 12) + 1
           half   == IF hour /\ t.sys = "12" /\ t.v[3] = 11
                     THEN IF t.half = "AM" THEN "PM" ELSE "AM" ELSE t.half
<1>1. /\ t.v[1] \in 0 .. 59 /\ t.v[2] \in 0 .. 59
      /\ t.v[3] \in IF t.sys = "24" THEN 0 .. 23 ELSE 1 .. 12
      /\ t.v[4] \in 1 .. 31 /\ t.v[5] \in 1 .. 12 /\ t.v[6] \in Nat
  BY DEF Fits, Register
<1>2. t.sys \in {"24", "12"} /\ t.half \in {"AM", "PM"}
  BY DEF Form
<1>3. u = [t EXCEPT
             !.v[1] = IF minute THEN 0 ELSE @ + 1,
             !.v[2] = IF hour THEN 0 ELSE IF minute THEN @ + 1 ELSE @,
             !.v[3] = IF hour THEN next ELSE @,
             !.v[4] = IF month THEN 1 ELSE IF day THEN @ + 1 ELSE @,
             !.v[5] = IF year THEN 1 ELSE IF month THEN @ + 1 ELSE @,
             !.v[6] = IF year THEN @ + 1 ELSE @,
             !.half = half]
  BY <1>1, SMT DEF Later
<1>4. DaysIn(t.v[5], t.v[6]) \in {28, 29, 30, 31}
  BY DEF DaysIn
<1>5. ~full => t.v[4] < 31
  BY <1>1, <1>4
<1> HIDE DEF minute, hour, day, full, month, year, next, half
<1>6. /\ u.v[1] = IF minute THEN 0 ELSE t.v[1] + 1
      /\ u.v[2] = IF hour THEN 0 ELSE IF minute THEN t.v[2] + 1 ELSE t.v[2]
      /\ u.v[3] = IF hour THEN next ELSE t.v[3]
      /\ u.v[4] = IF month THEN 1 ELSE IF day THEN t.v[4] + 1 ELSE t.v[4]
      /\ u.v[5] = IF year THEN 1 ELSE IF month THEN t.v[5] + 1 ELSE t.v[5]
      /\ u.v[6] = IF year THEN t.v[6] + 1 ELSE t.v[6]
      /\ u.sys = t.sys /\ u.half = half
  BY <1>3 DEF Form, Register
<1>7. half \in {"AM", "PM"}
  BY <1>2 DEF half
<1>8. next \in Int /\ next \in IF t.sys = "24" THEN 0 .. 23 ELSE 1 .. 12
  BY <1>1, <1>2 DEF next
<1>9. Fits(u)
  <2>1. u.v[1] \in 0 .. 59
    BY <1>1, <1>6 DEF minute
  <2>2. u.v[2] \in 0 .. 59
    BY <1>1, <1>6 DEF minute, hour
  <2>3. u.v[3] \in IF u.sys = "24" THEN 0 .. 23 ELSE 1 .. 12
    BY <1>1, <1>6, <1>8
  <2>4. u.v[4] \in 1 .. 31
    BY <1>1, <1>5, <1>6 DEF month
  <2>5. u.v[5] \in 1 .. 12
    BY <1>1, <1>6 DEF year
  <2> QED
    BY <2>1, <2>2, <2>3, <2>4, <2>5 DEF Fits
<1>10. u \in Form
  <2>1. t = [v |-> t.v, sys |-> t.sys, half |-> t.half]
    BY DEF Form
  <2>2. u = [v |-> u.v, sys |-> u.sys, half |-> u.half]
    BY <1>3, <2>1
  <2>3. DOMAIN u.v = Register /\ u.v = [k \in DOMAIN u.v |-> u.v[k]]
    BY ONLY t \in Form, <1>3, SMT DEF Form
  <2>4. \A k \in Register : u.v[k] \in Int
    BY <1>1, <1>6, <1>8 DEF Register
  <2>5. u.v \in [Register -> Int]
    BY <2>3, <2>4
  <2> QED
    BY <1>2, <1>6, <1>7, <2>2, <2>5 DEF Form
<1>11. ~hour => Hour24(u) = Hour24(t)
  BY <1>6 DEF Hour24, half
<1>12. hour => Hour24(u) = (Hour24(t) + 1) % 24
  <2> SUFFICES ASSUME hour PROVE Hour24(u) = (Hour24(t) + 1) % 24
    OBVIOUS
  <2>1. u.v[3] = next /\ u.sys = t.sys
        /\ u.half = IF t.sys = "12" /\ t.v[3] = 11 THEN IF t.half = "AM" THEN "PM" ELSE "AM" ELSE t.half
    BY <1>6 DEF half
  <2> DEFINE n == t.v[3]
  <2>2. CASE t.sys = "24"
    BY <1>1, <2>1, <2>2 DEF Hour24, next
  <2>3. CASE t.sys = "12"
    <3>1. n \in 1 .. 12 /\ next = (n % 12) + 1
      BY <1>1, <2>3 DEF next
    <3>2. Hour24(t) = (n % 12) + (IF t.half = "PM" THEN 12 ELSE 0)
      BY <2>3 DEF Hour24
    <3>3. Hour24(u) = (((n % 12) + 1) % 12) + (IF u.half = "PM" THEN 12 ELSE 0)
      BY <2>1, <2>3, <3>1 DEF Hour24
    <3>4. u.half = IF n = 11 THEN IF t.half = "AM" THEN "PM" ELSE "AM" ELSE t.half
      BY <2>1, <2>3
    <3> HIDE DEF n
    <3>5. CASE n = 11
      BY <1>2, <3>2, <3>3, <3>4, <3>5
    <3>6. CASE n = 12
      BY <1>2, <3>2, <3>3, <3>4, <3>6
    <3>7. CASE n \in 1 .. 10
      BY <1>2, <3>2, <3>3, <3>4, <3>7
    <3> QED
      BY <3>1, <3>5, <3>6, <3>7
  <2> QED
    BY <1>2, <2>2, <2>3
<1>13. Hour24(t) \in 0 .. 23
  BY WorthWritten
<1>14. hour /\ ~day => Hour24(u) = Hour24(t) + 1
  BY <1>12, <1>13 DEF day
<1> QED
  BY <1>6, <1>9, <1>10, <1>11, <1>14 DEF hour, day, month, year

LEMMA SecondPasses ==
  ASSUME NEW a \in [Register -> 0 .. 255], Dated(a), Worth(a[6], 6) < LastYear
  PROVE  Dated(Bytes(Later(Decoded(a)))) /\ Carries(a, Bytes(Later(Decoded(a))))
<1> DEFINE t == Decoded(a)
           u == Later(t)
           b == Bytes(u)
<1>1. b \in [Register -> 0 .. 255]
  BY LaterType
<1>2. \A k \in Register : b[k] = Byte(u, k)
  BY DEF Bytes
<1>3. t.v = [k \in Register |-> Field(a[k], k)]
  BY DEF Decoded
<1>4. t.v \in [Register -> Nat]
  BY <1>3, FieldType
<1>5. t \in Form
  <2>1. /\ t = [v |-> t.v, sys |-> t.sys, half |-> t.half]
        /\ t.sys \in {"24", "12"} /\ t.half \in {"AM", "PM"}
    BY DEF Decoded
  <2> HIDE DEF t
  <2> QED
    BY <1>4, <2>1 DEF Form
<1>6. \A k \in Register \ {3} : t.v[k] = Worth(a[k], k)
  BY <1>3 DEF Worth
<1>7. Hour24(t) = Worth(a[3], 3)
  BY StampIs
<1>8. Fits(t)
  <2>1. t.v[3] = Field(a[3], 3) /\ (t.sys = "24" <=> ~TwelveHours(a[3]))
    BY <1>3 DEF Register, Decoded
  <2> HIDE DEF t
  <2>2. t.v[3] \in IF t.sys = "24" THEN 0 .. 23 ELSE 1 .. 12
    <3>1. CASE t.sys = "24"
      <4>1. Worth(a[3], 3) = Field(a[3], 3)
        BY <2>1, <3>1 DEF Worth
      <4> QED
        BY <2>1, <3>1, <4>1 DEF Dated, Possible, Register, Lowest, Highest
    <3>2. CASE t.sys # "24"
      BY <2>1, <3>2 DEF Dated, Possible, Register
    <3> QED
      BY <3>1, <3>2
  <2>3. /\ t.v[1] \in 0 .. 59 /\ t.v[2] \in 0 .. 59 /\ t.v[4] \in 1 .. 31 /\ t.v[5] \in 1 .. 12
    BY <1>6 DEF Dated, Possible, Register, Lowest, Highest
  <2> QED
    BY <2>2, <2>3 DEF Fits
<1> HIDE DEF t
<1>9. /\ u \in Form /\ Fits(u)
      /\ \/ u.v[1] = t.v[1] + 1 /\ u.v[2] = t.v[2] /\ Hour24(u) = Hour24(t)
            /\ u.v[4] = t.v[4] /\ u.v[5] = t.v[5] /\ u.v[6] = t.v[6]
         \/ u.v[2] = t.v[2] + 1 /\ Hour24(u) = Hour24(t)
            /\ u.v[4] = t.v[4] /\ u.v[5] = t.v[5] /\ u.v[6] = t.v[6]
         \/ Hour24(u) = Hour24(t) + 1
            /\ u.v[4] = t.v[4] /\ u.v[5] = t.v[5] /\ u.v[6] = t.v[6]
         \/ u.v[4] = t.v[4] + 1 /\ u.v[5] = t.v[5] /\ u.v[6] = t.v[6]
         \/ u.v[5] = t.v[5] + 1 /\ u.v[6] = t.v[6]
         \/ u.v[6] = t.v[6] + 1
  BY <1>4, <1>5, <1>8, LaterFields
<1> HIDE DEF u
<1>10. \A k \in 1 .. 5 : Possible(b[k], k)
  <2> SUFFICES ASSUME NEW k \in 1 .. 5 PROVE Possible(b[k], k)
    OBVIOUS
  <2>1. b[k] = Byte(u, k) /\ b[k] \in 0 .. 255
    BY <1>1, <1>2 DEF Register
  <2> QED
    BY <1>9, <2>1, PossibleWritten
<1>11. t.v[6] \in Int /\ YearOffset <= t.v[6] /\ t.v[6] < LastYear
  <2>1. t.v[6] = Worth(a[6], 6)
    BY <1>6 DEF Register
  <2>2. Possible(a[6], 6) /\ Lowest(6) = YearOffset
    BY DEF Dated, Register, Lowest
  <2> QED
    BY <2>1, <2>2 DEF Possible
<1>12. Worth(b[6], 6) = u.v[6] /\ Possible(b[6], 6)
  <2>1. u.v[6] \in {t.v[6], t.v[6] + 1}
    BY <1>9
  <2>2. u.v[6] \in Int /\ YearOffset <= u.v[6] /\ u.v[6] <= LastYear
    BY <1>11, <2>1 DEF YearOffset, LastYear
  <2>3. b[6] = Byte(u, 6) /\ b[6] \in 0 .. 255
    BY <1>1, <1>2 DEF Register
  <2>4. Worth(b[6], 6) = u.v[6]
    BY <2>2, <2>3, YearField DEF Worth
  <2> QED
    BY <2>2, <2>3, <2>4 DEF Possible, Lowest, Highest
<1>13. /\ Worth(b[1], 1) = u.v[1] /\ Worth(b[2], 2) = u.v[2] /\ Worth(b[3], 3) = Hour24(u)
       /\ Worth(b[4], 4) = u.v[4] /\ Worth(b[5], 5) = u.v[5]
  BY <1>2, <1>9, WorthWritten DEF Register
<1>14. /\ Worth(a[1], 1) = t.v[1] /\ Worth(a[2], 2) = t.v[2] /\ Worth(a[3], 3) = Hour24(t)
       /\ Worth(a[4], 4) = t.v[4] /\ Worth(a[5], 5) = t.v[5] /\ Worth(a[6], 6) = t.v[6]
  BY <1>6, <1>7 DEF Register
<1> HIDE DEF b
<1>15. Dated(b)
  BY <1>10, <1>12 DEF Dated, Register
<1>16. Carries(a, b)
  <2>1. ASSUME NEW l \in Register, Worth(b[l], l) = Worth(a[l], l) + 1,
               \A k \in Register : k > l => Worth(b[k], k) = Worth(a[k], k)
        PROVE  Carries(a, b)
    BY <2>1 DEF Carries
  <2>2. CASE u.v[1] = t.v[1] + 1 /\ u.v[2] = t.v[2] /\ Hour24(u) = Hour24(t)
             /\ u.v[4] = t.v[4] /\ u.v[5] = t.v[5] /\ u.v[6] = t.v[6]
    BY <1>12, <1>13, <1>14, <2>1, <2>2 DEF Register
  <2>3. CASE u.v[2] = t.v[2] + 1 /\ Hour24(u) = Hour24(t)
             /\ u.v[4] = t.v[4] /\ u.v[5] = t.v[5] /\ u.v[6] = t.v[6]
    BY <1>12, <1>13, <1>14, <2>1, <2>3 DEF Register
  <2>4. CASE Hour24(u) = Hour24(t) + 1
             /\ u.v[4] = t.v[4] /\ u.v[5] = t.v[5] /\ u.v[6] = t.v[6]
    BY <1>12, <1>13, <1>14, <2>1, <2>4 DEF Register
  <2>5. CASE u.v[4] = t.v[4] + 1 /\ u.v[5] = t.v[5] /\ u.v[6] = t.v[6]
    BY <1>12, <1>13, <1>14, <2>1, <2>5 DEF Register
  <2>6. CASE u.v[5] = t.v[5] + 1 /\ u.v[6] = t.v[6]
    BY <1>12, <1>13, <1>14, <2>1, <2>6 DEF Register
  <2>7. CASE u.v[6] = t.v[6] + 1
    BY <1>12, <1>14, <2>1, <2>7 DEF Register
  <2> QED
    BY <1>9, <2>2, <2>3, <2>4, <2>5, <2>6, <2>7
<1> QED
  BY <1>15, <1>16 DEF b, u, t

\* Then it is later, by its minutes or by one of its seconds alone.
LEMMA CarryGrows ==
  ASSUME NEW a, NEW b, Dated(a), Dated(b), Carries(a, b)
  PROVE  /\ Stamp(a) < Stamp(b)
         /\ \/ Minutes(a) < Minutes(b)
            \/ /\ Worth(b[1], 1) = Worth(a[1], 1) + 1
               /\ \A k \in 2 .. 6 : Worth(b[k], k) = Worth(a[k], k)
<1> DEFINE x1 == Worth(a[1], 1)
           x2 == Worth(a[2], 2)
           x3 == Worth(a[3], 3)
           x4 == Worth(a[4], 4)
           x5 == Worth(a[5], 5)
           x6 == Worth(a[6], 6)
           y1 == Worth(b[1], 1)
           y2 == Worth(b[2], 2)
           y3 == Worth(b[3], 3)
           y4 == Worth(b[4], 4)
           y5 == Worth(b[5], 5)
           y6 == Worth(b[6], 6)
<1>1. /\ x1 \in 0 .. 59 /\ x2 \in 0 .. 59 /\ x3 \in 0 .. 23 /\ x4 \in 1 .. 31 /\ x5 \in 1 .. 12
      /\ x6 \in Int
  BY DEF Dated, Possible, Register, Lowest, Highest
<1>2. /\ y1 \in 0 .. 59 /\ y2 \in 0 .. 59 /\ y3 \in 0 .. 23 /\ y4 \in 1 .. 31 /\ y5 \in 1 .. 12
      /\ y6 \in Int
  BY DEF Dated, Possible, Register, Lowest, Highest
<1>3. Minutes(a) = 32140800 * x6 + 2678400 * x5 + 86400 * x4 + 3600 * x3 + 60 * x2
      /\ Stamp(a) = Minutes(a) + x1
  BY StampSum DEF Minutes
<1>4. Minutes(b) = 32140800 * y6 + 2678400 * y5 + 86400 * y4 + 3600 * y3 + 60 * y2
      /\ Stamp(b) = Minutes(b) + y1
  BY StampSum DEF Minutes
<1>5. PICK l \in Register : /\ Worth(b[l], l) = Worth(a[l], l) + 1
                            /\ \A k \in Register : k > l => Worth(b[k], k) = Worth(a[k], k)
  BY DEF Carries
<1>6. CASE l = 1
  <2>1. y1 = x1 + 1 /\ y2 = x2 /\ y3 = x3 /\ y4 = x4 /\ y5 = x5 /\ y6 = x6
    BY <1>5, <1>6 DEF Register
  <2>2. \A k \in 2 .. 6 : Worth(b[k], k) = Worth(a[k], k)
    BY <1>5, <1>6 DEF Register
  <2> HIDE DEF x1, x2, x3, x4, x5, x6, y1, y2, y3, y4, y5, y6
  <2>3. Stamp(a) < Stamp(b)
    BY <1>1, <1>3, <1>4, <2>1, SMT
  <2> QED
    BY <2>1, <2>2, <2>3 DEF x1, y1
<1>7. CASE l # 1
  <2>1. \/ y2 = x2 + 1 /\ y3 = x3 /\ y4 = x4 /\ y5 = x5 /\ y6 = x6
        \/ y3 = x3 + 1 /\ y4 = x4 /\ y5 = x5 /\ y6 = x6
        \/ y4 = x4 + 1 /\ y5 = x5 /\ y6 = x6
        \/ y5 = x5 + 1 /\ y6 = x6
        \/ y6 = x6 + 1
    <3>1. CASE l = 2
      BY <1>5, <3>1 DEF Register
    <3>2. CASE l = 3
      BY <1>5, <3>2 DEF Register
    <3>3. CASE l = 4
      BY <1>5, <3>3 DEF Register
    <3>4. CASE l = 5
      BY <1>5, <3>4 DEF Register
    <3>5. CASE l = 6
      BY <1>5, <3>5 DEF Register
    <3> QED
      BY <1>7, <3>1, <3>2, <3>3, <3>4, <3>5 DEF Register
  <2> HIDE DEF x1, x2, x3, x4, x5, x6, y1, y2, y3, y4, y5, y6
  <2> DEFINE X == 32140800 * x6 + 2678400 * x5 + 86400 * x4 + 3600 * x3 + 60 * x2
             Y == 32140800 * y6 + 2678400 * y5 + 86400 * y4 + 3600 * y3 + 60 * y2
  <2>2. X \in Int /\ Y \in Int
    BY <1>1, <1>2, SMT
  <2>3. X + 60 <= Y
    BY <1>1, <1>2, <2>1, SMT
  <2>4. Minutes(a) = X /\ Minutes(b) = Y
    BY <1>3, <1>4
  <2> HIDE DEF X, Y
  <2>5. Minutes(a) < Minutes(b) /\ Stamp(a) < Stamp(b)
    BY <1>1, <1>2, <1>3, <1>4, <2>2, <2>3, <2>4
  <2> QED
    BY <2>5
<1> QED
  BY <1>6, <1>7

\* What has been read and what is still to be read, before and after.
LEMMA MixGrows ==
  ASSUME NEW a, NEW b, Dated(a), Dated(b), Carries(a, b),
         NEW x, NEW y, Dated(x), Dated(y), NEW n \in 0 .. 6,
         \A k \in Register : k <= n => x[k] = y[k],
         \A k \in Register : k > n => x[k] = a[k] /\ y[k] = b[k]
  PROVE  Stamp(x) <= Stamp(y)
<1>1. PICK l \in Register : /\ Worth(b[l], l) = Worth(a[l], l) + 1
                            /\ \A k \in Register : k > l => Worth(b[k], k) = Worth(a[k], k)
  BY DEF Carries
<1>2. CASE n < l
  <2>1. x[l] = a[l] /\ y[l] = b[l]
    BY <1>2
  <2>2. \A k \in Register : k > l => Worth(y[k], k) = Worth(x[k], k)
    BY <1>1, <1>2 DEF Register
  <2>3. Carries(x, y)
    BY <1>1, <2>1, <2>2 DEF Carries
  <2> QED
    BY <2>3, CarryGrows, StampSum
<1>3. CASE ~(n < l)
  <2>1. \A k \in Register : Worth(y[k], k) = Worth(x[k], k)
    BY <1>1, <1>3 DEF Register
  <2>2. Minutes(y) = Minutes(x) /\ Worth(y[1], 1) = Worth(x[1], 1)
    BY <2>1 DEF Minutes, Register
  <2> QED
    BY <2>2, StampSum
<1> QED
  BY <1>2, <1>3

(***************************************************************************)
(* The inductive invariant.  A caller has n registers: they and the rest   *)
(* of the chip's show no less than what the chip showed at first.  And     *)
(* either the minutes have carried since, or the caller has the minutes,   *)
(* hours and days that the chip shows still, and no more seconds.          *)
(***************************************************************************)
Reading(c) ==
  /\ call[c].op \in {"get", "sync"} /\ call[c].pc # "idle"
  /\ ~call[c].faulty /\ start[c] # None

Taken(c) == IF call[c].pc = "read" THEN call[c].at - 1 ELSE 6

Mix(c) == [k \in Register |-> IF k <= Taken(c) THEN call[c].got[k] ELSE regs[k]]

Still(c) ==
  /\ \A k \in 2 .. 6 : /\ Worth(regs[k], k) = Worth(start[c][k], k)
                       /\ k <= Taken(c) => Worth(call[c].got[k], k) = Worth(start[c][k], k)
  /\ Taken(c) >= 1 => Worth(call[c].got[1], 1) <= Worth(regs[1], 1)

ReadFrom(c) ==
  /\ call[c].pc \in {"read", "apply", "return"}
  /\ Dated(start[c]) /\ Dated(Mix(c))
  /\ Stamp(start[c]) <= Stamp(Mix(c))
  /\ Still(c) \/ Minutes(start[c]) < Minutes(regs)

ReadInv ==
  /\ \A k \in 1 .. 5 : Possible(regs[k], k)
  /\ \A c \in Caller : Reading(c) => ReadFrom(c)

\* The chip is not in the last year that its register holds.
YearsLeft == Worth(regs[6], 6) < LastYear

LEMMA RegsDated == TInv /\ ReadInv /\ YearsLeft => Dated(regs) /\ regs \in [Register -> 0 .. 255]
<1> SUFFICES ASSUME TInv, ReadInv, YearsLeft PROVE Dated(regs) /\ regs \in [Register -> 0 .. 255]
  OBVIOUS
<1>1. regs \in [Register -> 0 .. 255]
  BY DEF TInv, TypeOK
<1> DEFINE q == regs[6] \div 16
           r == regs[6] % 16
<1>2. Worth(regs[6], 6) = 10 * (q % 16) + r + YearOffset
  BY DEF Worth, Field, TensMod
<1>3. regs[6] \in 0 .. 255
  BY <1>1 DEF Register
<1>4. q \in 0 .. 15 /\ r \in 0 .. 15
  BY <1>3
<1> HIDE DEF q, r
<1>5. Worth(regs[6], 6) \in Int /\ YearOffset <= Worth(regs[6], 6)
  BY <1>2, <1>4 DEF YearOffset
<1>6. Possible(regs[6], 6)
  BY <1>3, <1>5 DEF YearsLeft, Possible, Lowest, Highest, LastYear
<1> QED
  BY <1>1, <1>6 DEF ReadInv, Dated, Register

LEMMA ReadInit == Init => ReadInv
<1> SUFFICES ASSUME Init PROVE ReadInv
  OBVIOUS
<1>1. PICK t \in Present : regs = Bytes(t)
  BY DEF Init
<1>2. t \in Form /\ Verified(t)
  BY RtcAssumption, PresentAssumption DEF Time, Form
<1>3. \A k \in 1 .. 5 : Possible(regs[k], k)
  <2> SUFFICES ASSUME NEW k \in 1 .. 5 PROVE Possible(regs[k], k)
    OBVIOUS
  <2>1. regs[k] = Byte(t, k) /\ k \in Register
    BY <1>1 DEF Bytes, Register
  <2>2. Byte(t, k) \in 0 .. 255
    BY <1>2, <2>1, ByteType
  <2> QED
    BY <1>2, <2>1, <2>2, VerifiedFits, PossibleWritten
<1>4. \A c \in Caller : ~Reading(c)
  BY DEF Init, Reading, Idle, Begun
<1> QED
  BY <1>3, <1>4 DEF ReadInv

\* A reader, while the chip goes on by a second.
LEMMA ReadTick ==
  TInv /\ ReadInv /\ YearsLeft /\ YearsLeft' /\ TInv' /\ Tick => ReadInv'
<1> SUFFICES ASSUME TInv, ReadInv, YearsLeft, YearsLeft', TInv', Tick PROVE ReadInv'
  OBVIOUS
<1>1. Dated(regs) /\ regs \in [Register -> 0 .. 255]
  BY RegsDated
<1>2. regs' = Bytes(Later(Decoded(regs))) /\ UNCHANGED <<call, start>>
  BY DEF Tick
<1>3. Dated(regs') /\ Carries(regs, regs')
  BY <1>1, <1>2, SecondPasses DEF YearsLeft
<1>4. \A k \in 1 .. 5 : Possible(regs'[k], k)
  BY <1>3 DEF Dated, Register
<1>5. ASSUME NEW c \in Caller, Reading(c)' PROVE ReadFrom(c)'
  <2>1. Reading(c) /\ ReadFrom(c)
    BY <1>2, <1>5 DEF Reading, ReadInv
  <2>2. Taken(c)' = Taken(c) /\ Taken(c) \in 0 .. 6
    BY <1>2 DEF Taken, TInv, TypeOK, Register
  <2> DEFINE x == Mix(c)
             y == Mix(c)'
  <2>3. \A k \in Register : /\ k <= Taken(c) => x[k] = y[k] /\ x[k] = call[c].got[k]
                            /\ k > Taken(c) => x[k] = regs[k] /\ y[k] = regs'[k]
    BY <1>2, <2>2 DEF Mix, Register
  <2>4. Dated(x)
    BY <2>1 DEF ReadFrom
  <2> HIDE DEF x, y
  <2>5. Dated(y)
    BY <1>3, <2>2, <2>3, <2>4 DEF Dated, Register
  <2>6. Stamp(x) <= Stamp(y)
    BY <1>1, <1>3, <2>2, <2>3, <2>4, <2>5, MixGrows
  <2>7. Stamp(start[c]) <= Stamp(x) /\ Dated(start[c])
    BY <2>1 DEF ReadFrom, x
  <2>8. Stamp(start[c]) <= Stamp(y)
    <3>1. Stamp(x) \in Int /\ Stamp(y) \in Int /\ Stamp(start[c]) \in Int
      BY <2>4, <2>5, <2>7, StampSum
    <3> QED
      BY <2>6, <2>7, <3>1
  <2>9. \/ Minutes(regs) < Minutes(regs')
        \/ /\ Worth(regs'[1], 1) = Worth(regs[1], 1) + 1
           /\ \A k \in 2 .. 6 : Worth(regs'[k], k) = Worth(regs[k], k)
    BY <1>1, <1>3, CarryGrows
  <2>10. Minutes(start[c]) \in Int /\ Minutes(regs) \in Int /\ Minutes(regs') \in Int
         /\ Worth(regs[1], 1) \in Int
    BY <1>1, <1>3, <2>7, StampSum
  <2>11. CASE Still(c) /\ Minutes(regs) < Minutes(regs')
    <3>1. \A k \in 2 .. 6 : Worth(regs[k], k) = Worth(start[c][k], k)
      BY <2>11 DEF Still
    <3>2. Minutes(regs) = Minutes(start[c])
      BY <3>1 DEF Minutes
    <3> QED
      BY <1>2, <2>1, <2>5, <2>7, <2>8, <2>11, <3>2 DEF ReadFrom, y
  <2>12. CASE Still(c) /\ ~(Minutes(regs) < Minutes(regs'))
    <3>1. Taken(c) >= 1 => Worth(call[c].got[1], 1) \in Int
      <4>1. Taken(c) >= 1 => x[1] = call[c].got[1] /\ Possible(x[1], 1)
        BY <2>3, <2>4 DEF Dated, Register
      <4> QED
        BY <4>1 DEF Possible
    <3>2. Taken(c) >= 1 => Worth(call[c].got[1], 1) <= Worth(regs'[1], 1)
      BY <2>9, <2>10, <2>12, <3>1 DEF Still
    <3>3. Still(c)'
      BY <1>2, <2>2, <2>9, <2>12, <3>2 DEF Still
    <3> QED
      BY <1>2, <2>1, <2>5, <2>7, <2>8, <3>3 DEF ReadFrom, y
  <2>13. CASE Minutes(start[c]) < Minutes(regs)
    <3>1. Minutes(regs) <= Minutes(regs')
      <4>1. CASE \A k \in 2 .. 6 : Worth(regs'[k], k) = Worth(regs[k], k)
        BY <2>10, <4>1 DEF Minutes
      <4> QED
        BY <2>9, <2>10, <4>1
    <3>2. Minutes(start[c]) < Minutes(regs')
      BY <2>10, <2>13, <3>1
    <3> QED
      BY <1>2, <2>1, <2>5, <2>7, <2>8, <3>2 DEF ReadFrom, y
  <2> QED
    BY <2>1, <2>11, <2>12, <2>13 DEF ReadFrom
<1> QED
  BY <1>4, <1>5 DEF ReadInv

LEMMA ReadStep ==
  TInv /\ ReadInv /\ YearsLeft /\ YearsLeft' /\ TInv' /\ [Next]_vars => ReadInv'
<1> SUFFICES ASSUME TInv, ReadInv, YearsLeft, YearsLeft', TInv', [Next]_vars PROVE ReadInv'
  OBVIOUS
<1>1. /\ call \in [Caller -> CallType] /\ regs \in [Register -> 0 .. 255]
      /\ DOMAIN start = Caller
      /\ \A d \in Caller : call[d].op = "set" => d \in Setter
      /\ \A d \in Caller : call[d].pc = "write" => call[d].op = "set"
  BY DEF TInv, TypeOK, CallType
<1>2. Dated(regs)
  BY RegsDated
\* Another caller's step, or one that reads nothing.
<1>3. ASSUME NEW c \in Caller, UNCHANGED regs, call'[c] = call[c], start'[c] = start[c], Reading(c)'
      PROVE  ReadFrom(c)'
  <2>1. Reading(c) /\ ReadFrom(c)
    BY <1>3 DEF Reading, ReadInv
  <2>2. Taken(c)' = Taken(c)
    BY <1>3 DEF Taken
  <2>3. Mix(c)' = Mix(c)
    BY <1>3, <2>2 DEF Mix
  <2>4. Still(c)' <=> Still(c)
    BY <1>3, <2>2 DEF Still
  <2> QED
    BY <1>3, <2>1, <2>3, <2>4 DEF ReadFrom
<1>4. UNCHANGED regs => \A k \in 1 .. 5 : Possible(regs'[k], k)
  BY DEF ReadInv
<1>5. CASE Tick
  BY <1>5, ReadTick
<1>6. ASSUME NEW d \in Setter, SetTime(d) \/ SetAgain(d) PROVE ReadInv'
  <2>1. PICK again \in BOOLEAN : Begin(d, again)
    BY <1>6 DEF SetTime, SetAgain
  <2> DEFINE rec == [Begun("set", IF Verified(form'[d]) THEN "write" ELSE "return")
                      EXCEPT !.again = again]
  <2>2. call' = [call EXCEPT ![d] = rec] /\ UNCHANGED <<regs, start>>
    BY <2>1 DEF Begin
  <2>3. rec.op = "set"
    BY DEF Begun
  <2> HIDE DEF rec
  <2>4. ASSUME NEW c \in Caller, Reading(c)' PROVE ReadFrom(c)'
    <3>1. c # d
      BY <1>1, <2>2, <2>3, <2>4 DEF Reading
    <3>2. call'[c] = call[c]
      BY <1>1, <2>2, <3>1
    <3> QED
      BY <1>3, <2>2, <2>4, <3>2
  <2> QED
    BY <1>4, <2>2, <2>4 DEF ReadInv
<1>7. ASSUME NEW d \in Setter, Write(d) PROVE ReadInv'
  <2> DEFINE k == WriteOrder[call[d].at]
             last == IsLast(call[d].at)
  <2>1. PICK ok \in BOOLEAN :
          /\ regs' = IF ok THEN [regs EXCEPT ![k] = Byte(form[d], k)] ELSE regs
          /\ call' = [call EXCEPT ![d].at = IF last THEN 1 ELSE @ + 1,
                                  ![d].pc = IF last THEN "read" ELSE "write",
                                  ![d].faulty = @ \/ ~ok]
          /\ start' = [e \in Caller |-> IF last /\ e = d THEN regs' ELSE None]
    BY <1>7 DEF Write
  <2>2. d \in Caller /\ call[d].pc = "write" /\ call[d].op = "set"
        /\ form[d] \in Form /\ Verified(form[d])
    BY <1>7 DEF Write, TInv, Caller
  <2>3. call'[d].op = "set"
    BY <1>1, <2>1, <2>2 DEF CallType
  <2>4. \A c \in Caller : ~Reading(c)'
    BY <2>1, <2>3 DEF Reading
  <2>5. k \in Register
    BY <1>1, <2>2 DEF CallType, WriteOrder, Register
  <2> HIDE DEF k, last
  <2>6. Byte(form[d], k) \in 0 .. 255
    BY <2>2, <2>5, ByteType
  <2>7. ASSUME NEW j \in 1 .. 5 PROVE Possible(regs'[j], j)
    <3>1. Possible(regs[j], j)
      BY DEF ReadInv
    <3>2. regs'[j] = regs[j] \/ (j = k /\ regs'[j] = Byte(form[d], k))
      BY <1>1, <2>1, <2>5 DEF Register
    <3>3. j = k => Possible(Byte(form[d], k), k)
      BY <2>2, <2>6, VerifiedFits, PossibleWritten
    <3> QED
      BY <3>1, <3>2, <3>3
  <2> QED
    BY <2>4, <2>7 DEF ReadInv
<1>8. ASSUME NEW d \in Reader, BeginRead(d) PROVE ReadInv'
  <2>1. d \in Caller /\ UNCHANGED regs /\ start' = [start EXCEPT ![d] = regs]
    BY <1>8 DEF BeginRead, Caller
  <2>2. PICK op \in {"get", "sync"} : call' = [call EXCEPT ![d] = Begun(op, "read")]
    BY <1>8 DEF BeginRead
  <2>3. call'[d].pc = "read" /\ call'[d].at = 1 /\ start'[d] = regs
    BY <1>1, <2>1, <2>2 DEF Begun
  <2>4. Taken(d)' = 0
    BY <2>3 DEF Taken
  <2>5. Mix(d)' = regs
    BY <1>1, <2>1, <2>4 DEF Mix, Register
  <2>6. Still(d)'
    BY <2>1, <2>3, <2>4 DEF Still
  <2>7. Stamp(regs) <= Stamp(regs)
    BY <1>2, StampSum
  <2>8. ReadFrom(d)'
    BY <1>2, <2>3, <2>5, <2>6, <2>7 DEF ReadFrom
  <2>9. ASSUME NEW c \in Caller, c # d, Reading(c)' PROVE ReadFrom(c)'
    BY <1>1, <1>3, <2>1, <2>2, <2>9
  <2> QED
    BY <1>4, <2>1, <2>8, <2>9 DEF ReadInv
<1>9. ASSUME NEW d \in Caller, Read(d) PROVE ReadInv'
  <2> DEFINE k == ReadOrder[call[d].at]
             last == IsLast(call[d].at)
             pc == IF ~last THEN "read" ELSE IF call[d].op = "get" THEN "return" ELSE "apply"
             at == IF last THEN 1 ELSE call[d].at + 1
             byte(b) == IF last THEN 0 ELSE b
  <2>1. PICK ok \in BOOLEAN : \E b \in IF ok THEN {regs[k]} ELSE Left(d, k) :
          call' = [call EXCEPT ![d].at = at, ![d].byte = byte(b), ![d].got[k] = b, ![d].pc = pc,
                               ![d].faulty = @ \/ ~ok]
    BY <1>9 DEF Read
  <2>2. PICK b \in IF ok THEN {regs[k]} ELSE Left(d, k) :
          call' = [call EXCEPT ![d].at = at, ![d].byte = byte(b), ![d].got[k] = b, ![d].pc = pc,
                               ![d].faulty = @ \/ ~ok]
    BY <2>1
  <2>3. call[d].pc = "read" /\ UNCHANGED <<regs, start>>
    BY <1>9 DEF Read
  <2>4. call[d] \in CallType /\ call[d].got \in [Register -> 0 .. 255]
    BY <1>1 DEF CallType
  <2>5. call[d].at \in Register /\ k = call[d].at
    BY <2>4 DEF CallType, ReadOrder, Register
  <2>6. /\ call'[d].at = at /\ call'[d].pc = pc
        /\ call'[d].got = [call[d].got EXCEPT ![k] = b]
        /\ call'[d].faulty = (call[d].faulty \/ ~ok)
        /\ call'[d].op = call[d].op
    <3> HIDE DEF at, pc, k, byte, last
    <3> QED
      BY <1>1, <2>2, <2>4 DEF CallType
  <2>7. \A c \in Caller \ {d} : call'[c] = call[c]
    BY <1>1, <2>2
  <2>8. ASSUME Reading(d)' PROVE ReadFrom(d)'
    <3>1. ok /\ Reading(d)
      BY <2>3, <2>6, <2>8 DEF Reading
    <3>2. ReadFrom(d)
      BY <3>1 DEF ReadInv
    <3>3. b = regs[k]
      BY <2>2, <3>1
    <3>4. Taken(d) = k - 1 /\ Taken(d)' = k
      <4>1. Taken(d) = k - 1
        BY <2>3, <2>5 DEF Taken
      <4>2. CASE last
        <5>1. pc # "read" /\ k = 6
          BY <2>5, <4>2 DEF IsLast
        <5> QED
          BY <2>6, <4>1, <5>1 DEF Taken
      <4>3. CASE ~last
        <5>1. pc = "read" /\ at = k + 1 /\ k \in 1 .. 6
          BY <2>5, <4>3 DEF Register
        <5> HIDE DEF pc, at, k, last
        <5> QED
          BY <2>6, <4>1, <5>1 DEF Taken
      <4> QED
        BY <4>1, <4>2, <4>3
    <3>5. k \in Register
      BY <2>5
    <3>6. pc \in {"read", "apply", "return"}
      OBVIOUS
    <3> HIDE DEF k, pc, at, last
    <3>7. \A j \in Register : call'[d].got[j] = IF j = k THEN regs[k] ELSE call[d].got[j]
      BY <2>4, <2>6, <3>3
    <3>8. Mix(d)' = Mix(d)
      <4>1. \A j \in Register : (IF j <= k THEN call'[d].got[j] ELSE regs[j])
                                  = IF j <= k - 1 THEN call[d].got[j] ELSE regs[j]
        BY <3>5, <3>7 DEF Register
      <4> QED
        BY <2>3, <3>4, <4>1 DEF Mix
    <3>9. Still(d) => Still(d)'
      <4> SUFFICES ASSUME Still(d) PROVE Still(d)'
        OBVIOUS
      <4>1. ASSUME NEW j \in 2 .. 6, j <= k
            PROVE  Worth(call'[d].got[j], j) = Worth(start[d][j], j)
        <5>1. CASE j = k
          BY <3>5, <3>7, <4>1, <5>1 DEF Still, Register
        <5>2. CASE j # k
          <6>1. j <= k - 1 /\ j \in Register
            BY <3>5, <4>1, <5>2 DEF Register
          <6>2. Worth(call[d].got[j], j) = Worth(start[d][j], j)
            BY <3>4, <6>1 DEF Still
          <6> QED
            BY <3>7, <5>2, <6>1, <6>2
        <5> QED
          BY <5>1, <5>2
      <4>2. Worth(call'[d].got[1], 1) <= Worth(regs[1], 1)
        <5>1. CASE k = 1
          <6>1. Worth(regs[1], 1) \in Int
            BY <1>2, StampSum
          <6> QED
            BY <3>5, <3>7, <5>1, <6>1
        <5>2. CASE k # 1
          BY <3>4, <3>5, <3>7, <5>2 DEF Still, Register
        <5> QED
          BY <5>1, <5>2
      <4> QED
        BY <2>3, <3>4, <4>1, <4>2 DEF Still
    <3> QED
      BY <2>3, <2>6, <3>2, <3>6, <3>8, <3>9 DEF ReadFrom
  <2>9. ASSUME NEW c \in Caller, c # d, Reading(c)' PROVE ReadFrom(c)'
    BY <1>3, <2>3, <2>7, <2>9
  <2> QED
    BY <1>4, <2>3, <2>8, <2>9 DEF ReadInv
<1>10. ASSUME NEW d \in Caller, Apply(d) PROVE ReadInv'
  <2>1. PICK system \in {BrokenDown(Decoded(call[d].got)), None} :
          call' = [call EXCEPT ![d].pc = "return", ![d].system = system]
    BY <1>10 DEF Apply
  <2>2. call[d].pc = "apply" /\ UNCHANGED <<regs, start>>
    BY <1>10 DEF Apply
  <2>3. /\ call'[d].pc = "return" /\ call'[d].faulty = call[d].faulty
        /\ call'[d].op = call[d].op /\ call'[d].got = call[d].got
        /\ \A c \in Caller \ {d} : call'[c] = call[c]
    BY <1>1, <2>1 DEF CallType
  <2>4. ASSUME Reading(d)' PROVE ReadFrom(d)'
    <3>1. Reading(d) /\ ReadFrom(d)
      BY <2>2, <2>3, <2>4 DEF Reading, ReadInv
    <3>2. Taken(d)' = Taken(d)
      BY <2>2, <2>3 DEF Taken
    <3>3. Mix(d)' = Mix(d) /\ (Still(d)' <=> Still(d))
      BY <2>2, <2>3, <3>2 DEF Mix, Still
    <3> QED
      BY <2>2, <2>3, <3>1, <3>3 DEF ReadFrom
  <2>5. ASSUME NEW c \in Caller, c # d, Reading(c)' PROVE ReadFrom(c)'
    BY <1>3, <2>2, <2>3, <2>5
  <2> QED
    BY <1>4, <2>2, <2>4, <2>5 DEF ReadInv
<1>11. ASSUME NEW d \in Caller, Return(d) PROVE ReadInv'
  <2>1. call' = [call EXCEPT ![d] = Idle] /\ start' = [start EXCEPT ![d] = None] /\ UNCHANGED regs
    BY <1>11 DEF Return
  <2>2. ~Reading(d)'
    BY <1>1, <2>1 DEF Reading
  <2>3. ASSUME NEW c \in Caller, c # d, Reading(c)' PROVE ReadFrom(c)'
    BY <1>1, <1>3, <2>1, <2>3
  <2> QED
    BY <1>4, <2>1, <2>2, <2>3 DEF ReadInv
<1>12. CASE UNCHANGED vars
  BY <1>3, <1>4, <1>12 DEF vars, ReadInv
<1> QED
  BY <1>5, <1>6, <1>7, <1>8, <1>9, <1>10, <1>11, <1>12 DEF Next

(***************************************************************************)
(* A time read register by register is never before the one shown when the *)
(* reading began, and after the one shown now only if the minutes have     *)
(* carried: as long as the year's register does not begin anew.            *)
(***************************************************************************)
THEOREM ReadingSound == Spec /\ []YearsLeft => []ReadSound
<1>1. TInv /\ ReadInv /\ YearsLeft => ReadSound
  <2> SUFFICES ASSUME TInv, ReadInv, YearsLeft, NEW c \in Caller, Complete(c)
               PROVE  /\ ~Before(Decoded(call[c].got), Decoded(start[c]))
                      /\ Before(Decoded(regs), Decoded(call[c].got)) =>
                           \E k \in 2 .. 6 : regs[k] # start[c][k]
    BY DEF ReadSound
  <2>1. Reading(c) /\ ReadFrom(c) /\ Taken(c) = 6
    BY DEF Complete, Reading, ReadInv, Taken
  <2>2. Mix(c) = call[c].got
    <3>1. call[c].got \in [Register -> 0 .. 255]
      BY DEF TInv, TypeOK
    <3>2. Mix(c) = [k \in Register |-> call[c].got[k]]
      BY <2>1 DEF Mix, Register
    <3> QED
      BY <3>1, <3>2
  <2> DEFINE got == call[c].got
  <2>3. Dated(start[c]) /\ Dated(got) /\ Stamp(start[c]) <= Stamp(got) /\ Dated(regs)
    BY <2>1, <2>2, RegsDated DEF ReadFrom
  <2>4. ~Before(Decoded(got), Decoded(start[c]))
    <3>1. Stamp(start[c]) \in Int /\ Stamp(got) \in Int
      BY <2>3, StampSum
    <3>2. ~(Stamp(got) < Stamp(start[c]))
      BY <2>3, <3>1
    <3> QED
      BY <2>3, <3>2, BeforeIs
  <2>5. ASSUME Before(Decoded(regs), Decoded(got)), \A k \in 2 .. 6 : regs[k] = start[c][k]
        PROVE  FALSE
    <3>1. Minutes(regs) = Minutes(start[c]) /\ Minutes(regs) \in Int
      BY <2>3, <2>5, StampSum DEF Minutes
    <3>2. Still(c)
      BY <2>1, <3>1 DEF ReadFrom
    <3>3. \A k \in 2 .. 6 : Worth(got[k], k) = Worth(regs[k], k)
      BY <2>1, <3>2 DEF Still
    <3>4. Minutes(got) = Minutes(regs)
      BY <3>3 DEF Minutes
    <3>5. Worth(got[1], 1) <= Worth(regs[1], 1)
      BY <2>1, <3>2 DEF Still
    <3>6. ~(Stamp(regs) < Stamp(got))
      BY <2>3, <3>1, <3>4, <3>5, StampSum
    <3> QED
      BY <2>3, <2>5, <3>6, BeforeIs
  <2> QED
    BY <2>4, <2>5
<1>2. TInv /\ ReadInv /\ YearsLeft /\ YearsLeft' /\ [Next]_vars => (TInv /\ ReadInv)'
  BY TypesStep, ReadStep
<1> QED
  BY <1>1, <1>2, InitTypes, ReadInit, PTL DEF Spec
=============================================================================
