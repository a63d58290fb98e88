------------------------------ MODULE PmtBuild ------------------------------
(***************************************************************************)
(* What a CA PMT says: WVCI_GenerateCAPMT, byte by byte, from the          *)
(* descriptors of a program and of its streams, as far as they belong to   *)
(* CA systems of the module's list.  PmtFrames has the lengths on the way. *)
(*                                                                         *)
(* A program is [number, version, info, streams], a stream [type, pid,     *)
(* info]; info is a sequence of bytes that holds whole descriptors, each   *)
(* of a tag, the number of bytes that follow, and those bytes.             *)
(***************************************************************************)
EXTENDS PmtFrames, FiniteSetsExt

CaTag == 9             \* tag of a CA descriptor
Only == 3              \* CA_PMT_LIST_MANAGEMENT_ONLY
Stop == 17             \* CA_PMT_LIST_MANAGEMENT_WELLAV_DESCRAMBLE
Modes == {0, 1, 2, Only, Stop}   \* what WVCI_UpdateSetting asks for
OkDescrambling == 1    \* CA_PMT_CMD_ID_OK_DESCRAMBLING
NoPid == 8181          \* 0x1FF5
Dropped == <<>>        \* WVCI_ERROR_OVERFLOW

\* g_pDefaultStreamTypeList
StreamTypes == (1 .. 22) \cup (24 .. 31) \cup {66, 128, 129}

Word(w) == <<w \div 256, w % 256>>

\* The places of the CA descriptors, in order: what CI_ProInfo_GetDescriptor
\* and CI_ESInfo_GetESDescriptor return for index 0, 1, 2 and so on.  (The index
\* is one byte; info has fewer than 256 descriptors, and no half of one.)
CaDescriptors(info) ==
  LET from[i \in Nat] ==
        IF i + 1 >= Len(info) THEN <<>>
        ELSE (IF info[i + 1] = CaTag THEN <<i>> ELSE <<>>) \o from[i + info[i + 2] + 2]
  IN  from[0]

\* The descriptors of systems in the list, behind the command that goes before
\* the first of them.  The size of each is kept in one byte.
Matching(info, systems) ==
  LET places == CaDescriptors(info)
      Mine(i) == 256 * info[i + 3] + info[i + 4] \in systems
      Copied(i) == IF Mine(i) THEN SubSeq(info, i + 1, i + ((info[i + 2] + 2) % 256)) ELSE <<>>
  IN  IF \E k \in DOMAIN places : Mine(places[k])
      THEN <<OkDescrambling>> \o FlattenSeq([k \in DOMAIN places |-> Copied(places[k])])
      ELSE <<>>

\* Mutant of Counted: the upper part of the length is left out.
CountedLow(loop) == <<240, Len(loop) % 256>> \o loop

\* A loop and its length, with four reserved bits.
Counted(loop) == <<240 + (Len(loop) \div 256), Len(loop) % 256>> \o loop

Stream(e, mode, systems) ==
  LET pid == IF mode = Stop THEN NoPid ELSE e.pid
  IN  <<e.type, 224 + (pid \div 256), pid % 256>> \o Counted(Matching(e.info, systems))

\* What stands behind the length field.
Body(p, mode, systems) ==
  LET Written(e) == IF e.type \in StreamTypes THEN Stream(e, mode, systems) ELSE <<>>
  IN  <<IF mode = Stop THEN Only ELSE mode>> \o Word(p.number) \o <<p.version>>
      \o Counted(Matching(p.info, systems))
      \o FlattenSeq([k \in DOMAIN p.streams |-> Written(p.streams[k])])

\* The buffer is given up when a descriptor would reach its end or the fixed part
\* of a stream would; what has been written only grows, so the end decides.
GenerateCaPmt(p, mode, systems) ==
  LET body == Body(p, mode, systems)
  IN  IF Len(body) + 4 >= MaxLenCaPmt THEN Dropped
      ELSE <<159, 128, 50>> \o LengthField(Len(body)) \o body

-----------------------------------------------------------------------------
(***************************************************************************)
(* How a module reads a CA PMT (EN 50221, 8.4.3.4).                        *)
(***************************************************************************)
Malformed == "malformed"

\* The descriptors of a loop, cut at the lengths they give.
Cut(bytes) ==
  LET from[i \in Nat] ==
        IF i = Len(bytes) THEN <<>>
        ELSE IF i + 1 >= Len(bytes) \/ i + 2 + bytes[i + 2] > Len(bytes) THEN <<Malformed>>
        ELSE <<SubSeq(bytes, i + 1, i + 2 + bytes[i + 2])>> \o from[i + 2 + bytes[i + 2]]
  IN  from[0]

\* A loop of the given size, which starts with a command unless it is empty.
ReadLoop(bytes) ==
  IF bytes = <<>> THEN <<>>
  ELSE IF bytes[1] # OkDescrambling THEN <<Malformed>>
  ELSE Cut(Tail(bytes))

\* The length that stands before a loop, which ends at most where the CA PMT does.
LoopLength(bytes, i) == 256 * (bytes[i] % 16) + bytes[i + 1]
LoopAt(bytes, i) ==
  SubSeq(bytes, i + 2, Min({i + 1 + LoopLength(bytes, i), Len(bytes)}))

ReadStreams(bytes, first) ==
  LET from[i \in Nat] ==
        IF i > Len(bytes) THEN <<>>
        ELSE IF i + 4 > Len(bytes) THEN <<Malformed>>
        ELSE <<[type |-> bytes[i],
                pid |-> 256 * (bytes[i + 1] % 32) + bytes[i + 2],
                descriptors |-> ReadLoop(LoopAt(bytes, i + 3))]>>
             \o from[i + 5 + LoopLength(bytes, i + 3)]
  IN  from[first]

ReadCaPmt(apdu) ==
  LET field == DecodeLengthField(SubSeq(apdu, 4, Min({6, Len(apdu)})))
      body == SubSeq(apdu, 4 + field.size, Len(apdu))
  IN  IF Len(body) # field.len THEN Malformed
      ELSE [mode |-> body[1],
            number |-> 256 * body[2] + body[3],
            version |-> body[4],
            descriptors |-> ReadLoop(LoopAt(body, 5)),
            streams |-> ReadStreams(body, 7 + LoopLength(body, 5))]

-----------------------------------------------------------------------------
(***************************************************************************)
(* What the module should read: the descriptors of its systems, whole and  *)
(* in order, at the program and at each stream of a type in the list.  Here *)
(* info is the sequence of descriptors.                                    *)
(***************************************************************************)
Chosen(descriptors, systems) ==
  LET Mine(d) == d[1] = CaTag /\ 256 * d[3] + d[4] \in systems
  IN  FlattenSeq([k \in DOMAIN descriptors |->
                    IF Mine(descriptors[k]) THEN <<descriptors[k]>> ELSE <<>>])

Shown(e, mode, systems) ==
  [type |-> e.type,
   pid |-> IF mode = Stop THEN NoPid ELSE e.pid,
   descriptors |-> Chosen(e.info, systems)]

Expected(p, mode, systems) ==
  [mode |-> IF mode = Stop THEN Only ELSE mode,
   number |-> p.number,
   version |-> p.version,
   descriptors |-> Chosen(p.info, systems),
   streams |-> FlattenSeq([k \in DOMAIN p.streams |->
                 IF p.streams[k].type \in StreamTypes
                 THEN <<Shown(p.streams[k], mode, systems)>>
                 ELSE <<>>])]

\* The programs that are translated.  A descriptor of 254 bytes would be copied
\* without its contents: the size in one byte would be 0.
Descriptor ==
  {d \in Seq(0 .. 255) : /\ Len(d) >= 2 /\ Len(d) = d[2] + 2 /\ d[2] < 254
                         /\ d[1] = CaTag => d[2] >= 4}
Info == {q \in Seq(Descriptor) : Len(q) < 256}
SourceStream == [type : 0 .. 255, pid : 0 .. 8191, info : Info]
SourceProgram ==
  [number : 0 .. 65535, version : 0 .. 255, info : Info, streams : Seq(SourceStream)]

\* The program as WVCI_GenerateCAPMT has it.
Held(e) == [e EXCEPT !.info = FlattenSeq(@)]
Stored(p) == [Held(p) EXCEPT !.streams = [k \in DOMAIN @ |-> Held(@[k])]]

\* The program is sent, and the module reads from the CA PMT what it should.
SaysWhatItShould(p, mode, systems) ==
  LET apdu == GenerateCaPmt(Stored(p), mode, systems)
  IN  apdu # Dropped /\ ReadCaPmt(apdu) = Expected(p, mode, systems)
=============================================================================
