----------------------------- MODULE CaPmtSent -----------------------------
(***************************************************************************)
(* The CA PMTs that CaPmt selects and sends, with what they say to the     *)
(* module (PmtBuild) and the lengths they have on the way (PmtFrames).     *)
(* Content is the table of programs: it decides which systems a program    *)
(* has and with the descriptors of which of them its CA PMT is too long.   *)
(***************************************************************************)
EXTENDS CaPmt, PmtBuild

CONSTANT Content   \* per program, its descriptors and streams

(* The CA systems of the descriptors that may be copied.                   *)
SystemsIn(info) ==
  {256 * d[3] + d[4] : d \in {info[k] : k \in {j \in DOMAIN info : info[j][1] = CaTag}}}
SystemsOf(p) ==
  SystemsIn(p.info) \cup
  UNION {SystemsIn(p.streams[k].info) :
           k \in {j \in DOMAIN p.streams : p.streams[j].type \in StreamTypes}}

(* Number of bytes behind the length field.                                *)
BodyLength(p, mode, matched) == Len(Body(Stored(Content[p]), mode, matched))

ASSUME SentAssumption ==
  /\ Content \in [Program -> SourceProgram]
  /\ \A p \in Program :
       /\ Systems[p] = SystemsOf(Content[p])
       /\ \A matched \in SUBSET Systems[p], mode \in Modes :
            matched \in TooLong[p] <=> ~Passes(BodyLength(p, mode, matched))

(* The modes a CA PMT may have been sent with.                             *)
ModesOf(e) == IF e.stop THEN {Stop} ELSE Modes \ {Stop}

CaPmts == Program \X (SUBSET CaId) \X Modes

(* Those with lengths that agree, and those that say what they should; as  *)
(* images, TLC enumerates them once.                                       *)
RightLengths ==
  {c : c \in {d \in CaPmts : LET n == BodyLength(d[1], d[3], d[2])
                             IN  Passes(n) /\ LengthsAgree(n)}}
RightContents ==
  {c : c \in {d \in CaPmts : SaysWhatItShould(Content[d[1]], d[3], d[2])}}

(* A CA PMT a module has been sent is one whose lengths agree, with the    *)
(* systems that were selected for it, in every mode it may have been sent  *)
(* with (WVCI_GenerateCAPMT, Send_T_DataLong, SendTransportPacket).        *)
FramesRight ==
  \A s \in Slot : \A e \in cam[s] : \A mode \in ModesOf(e) :
    <<e.prog, e.systems, mode>> \in RightLengths

(* From a CA PMT it has been sent the module reads exactly the descriptors *)
(* of the systems that were selected for it, whole, in order and at the    *)
(* right level, and the streams that may be scrambled                      *)
(* (WVCI_GenerateCAPMT).                                                   *)
TranslatedRight ==
  \A s \in Slot : \A e \in cam[s] : \A mode \in ModesOf(e) :
    <<e.prog, e.systems, mode>> \in RightContents
=============================================================================
