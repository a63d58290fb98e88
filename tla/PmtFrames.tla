----------------------------- MODULE PmtFrames -----------------------------
(***************************************************************************)
(* The lengths a CA PMT carries on its way to the module: the APDU that    *)
(* WVCI_GenerateCAPMT builds, the SPDU and TPDU around it, and the frames  *)
(* SendTransportPacket cuts the TPDU into.  A CA PMT is known by n, the    *)
(* number of bytes behind its length field.                                *)
(*                                                                         *)
(* The host marks a CA PMT with four bytes 0x47 behind it; the mark goes   *)
(* through the layers as data and is taken off before the last frame.  A   *)
(* CA PMT that has no mark is assumed not to end like one.                 *)
(***************************************************************************)
EXTENDS Integers, Sequences, SequencesExt

CONSTANT BufferSizes   \* buffer sizes (wBufferSize) host and module agree on

MaxLenCaPmt == 1024     \* MAX_LEN_CA_PMT
Mark == 4               \* length of the end flag
LeastSize == 16         \* the smallest buffer CI_CheckConfig accepts
SendQBufSize == 768     \* CI_T_SENDQBUFSIZE, the largest
MsgRoom == 1024         \* Msg of Send_T_DataLong
FrameRoom == 512        \* Frame of SendTransportPacket

ASSUME FrameAssumption == BufferSizes \subseteq LeastSize .. SendQBufSize

(* Mutant of LengthField: low byte before high byte.                       *)
LengthFieldSwapped(n) ==
  IF n > 127 /\ n < 255 THEN <<129, n>>
  ELSE IF n >= 255 THEN <<130, n % 256, (n \div 256) % 256>>
  ELSE <<n>>

(* An ASN.1 length field; 255 already takes three bytes. *)
LengthField(n) ==
  IF n > 127 /\ n < 255 THEN <<129, n>>
  ELSE IF n >= 255 THEN <<130, (n \div 256) % 256, n % 256>>
  ELSE <<n>>

(* The number a length field stands for, and its own size. *)
DecodeLengthField(f) ==
  IF f[1] < 128 THEN [len |-> f[1], size |-> 1]
  ELSE IF f[1] = 129 THEN [len |-> f[2], size |-> 2]
  ELSE [len |-> 256 * f[2] + f[3], size |-> f[1] - 127]

(* Size of the APDU, without and with its mark. *)
Apdu(n) == 3 + Len(LengthField(n)) + n
MarkOf(n) == IF Apdu(n) < MaxLenCaPmt - Mark THEN Mark ELSE 0
MarkedApdu(n) == Apdu(n) + MarkOf(n)

(* CI_SendCAPMT2CAM drops the largest. *)
Passes(n) == MarkedApdu(n) < MaxLenCaPmt

(* The data of the TPDU: SPDU header, APDU, mark. *)
TpduData(n) == MarkedApdu(n) + 4

(* Length field of the TPDU: the mark counts for the form only. *)
TpduField(n) ==
  LET real == TpduData(n) - MarkOf(n) + 1
  IN  IF TpduData(n) + 3 >= 128 THEN <<130, (real \div 256) % 256, real % 256>>
      ELSE <<real>>

(* What is handed to SendTransportPacket, and what is left without mark. *)
Packet(n) == 2 + Len(TpduField(n)) + TpduData(n)
PacketBytes(n) == Packet(n) - MarkOf(n)

(* Payloads of the frames: full ones while more than one is left. *)
Frames(b, bytes) ==
  LET rest[m \in 0..bytes] ==
        IF m > b - 2 THEN <<b - 2>> \o rest[m - (b - 2)] ELSE <<m>>
  IN  rest[bytes]

(* The bytes that frames carry together. *)
Carried(frames) ==
  LET first[k \in 0..Len(frames)] == IF k = 0 THEN 0 ELSE first[k - 1] + frames[k]
  IN  first[Len(frames)]

-----------------------------------------------------------------------------

(* The packet and the frames of it have room in the arrays they are built  *)
(* in.  Nothing in the code asks for this: what happens to a CA PMT that   *)
(* does not fit is undefined.                                              *)
Fits(n, b) ==
  /\ Packet(n) <= MsgRoom
  /\ LET frames == Frames(b, PacketBytes(n))
     IN  \A k \in 1..Len(frames) : frames[k] + 2 <= FrameRoom

(* The length fields of APDU and TPDU, read the way CI_DecodeLengthField   *)
(* reads them, count exactly the bytes that follow; the frames fit the     *)
(* buffer, none is empty and they carry the packet without its mark.       *)
LengthsAgree(n) ==
  /\ DecodeLengthField(LengthField(n)) = [len |-> n, size |-> Len(LengthField(n))]
  /\ LET d == DecodeLengthField(TpduField(n))
     IN  1 + d.size + d.len = PacketBytes(n)
  /\ \A b \in BufferSizes : Fits(n, b) =>
       LET frames == Frames(b, PacketBytes(n))
       IN  /\ \A k \in 1..Len(frames) : frames[k] \in 1..(b - 2)
           /\ Carried(frames) = PacketBytes(n)
=============================================================================
