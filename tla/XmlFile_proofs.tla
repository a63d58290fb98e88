--------------------------- MODULE XmlFile_proofs ---------------------------
(***************************************************************************)
(* Proofs about XmlFile, for any documents, threads and files: if one      *)
(* thread writes at a time, and the file system writes the data of a file  *)
(* before its new name, the file implements one that is replaced           *)
(* atomically (AtomicFile).                                                *)
(***************************************************************************)
EXTENDS XmlFile, TLAPS

USE XmlAssumption

LEMMA PieceOne == 1 \in Piece /\ Empty \in Bytes
BY DEF Piece, Empty, Bytes

-----------------------------------------------------------------------------
(* Types. *)

WriterTyped(w) ==
  writing[w].pc = "write" =>
    /\ writing[w].doc \in Doc /\ writing[w].file \in File
    /\ writing[w].at <= Length[writing[w].doc]

LEMMA TypeInit == Init => TypeOK
BY PieceOne DEF Init, TypeOK, NotWriting, NotReading, Image, Bytes, Piece, Empty

LEMMA TypeOpen ==
  ASSUME TypeOK, NEW w \in Writer, NEW d \in Doc, Open(w, d) PROVE TypeOK'
<1>1. PICK f \in File :
        /\ writing' = [writing EXCEPT ![w] = [pc |-> "write", doc |-> d, file |-> f, at |-> 1]]
        /\ content' = [content EXCEPT ![f] = Empty]
        /\ dir' = IF dir.tmp = None THEN [dir EXCEPT !.tmp = f] ELSE dir
        /\ disk' = IF dir.tmp = None THEN [disk EXCEPT ![f] = Empty] ELSE disk
  BY DEF Open, Target, TypeOK
<1>2. writing' \in [Writer -> [pc : {"idle", "write", "rename"}, doc : Doc \cup {None},
                             file : File \cup {None}, at : Piece]]
  BY <1>1, PieceOne DEF TypeOK
<1>3. dir' \in [conf : File, tmp : File \cup {None}]
  BY <1>1 DEF TypeOK
<1>4. content' \in [File -> Bytes] /\ disk' \in [File -> Bytes]
  BY <1>1, PieceOne DEF TypeOK
<1> QED BY <1>2, <1>3, <1>4 DEF Open, TypeOK

LEMMA TypeWritePiece ==
  ASSUME TypeOK, NEW w \in Writer, WritePiece(w), writing[w].doc \in Doc,
         writing[w].file \in File, writing[w].at <= Length[writing[w].doc]
  PROVE TypeOK'
<1> DEFINE W == writing[w]
<1>1. W \in [pc : {"idle", "write", "rename"}, doc : Doc \cup {None},
             file : File \cup {None}, at : Piece]
  BY DEF TypeOK
<1>2. content' \in [File -> Bytes]
  <2>1. content[W.file] \in Bytes BY DEF TypeOK
  <2>2. [content[W.file] EXCEPT ![W.at] = W.doc] \in Bytes BY <2>1, <1>1 DEF Bytes
  <2>3. content' = [content EXCEPT ![W.file] = [content[W.file] EXCEPT ![W.at] = W.doc]]
    BY <1>1 DEF WritePiece, TypeOK
  <2> QED BY <2>2, <2>3 DEF TypeOK
<1>3. writing'[w] \in [pc : {"idle", "write", "rename"}, doc : Doc \cup {None},
                       file : File \cup {None}, at : Piece]
  <2>1. CASE LastPiece(W.doc, W.at) BY <2>1, <1>1, PieceOne DEF WritePiece, TypeOK
  <2>2. CASE ~LastPiece(W.doc, W.at)
    <3>1. W.at + 1 \in Piece BY <2>2, <1>1 DEF LastPiece, Piece
    <3> QED BY <2>2, <3>1, <1>1 DEF WritePiece, TypeOK
  <2> QED BY <2>1, <2>2
<1>4. writing' \in [Writer -> [pc : {"idle", "write", "rename"}, doc : Doc \cup {None},
                       file : File \cup {None}, at : Piece]]
  BY <1>3 DEF WritePiece, TypeOK
<1> QED BY <1>2, <1>4 DEF WritePiece, TypeOK

LEMMA TypeOther ==
  ASSUME TypeOK,
         \/ \E w \in Writer : SaveFails(w) \/ Rename(w)
         \/ \E r \in Reader : ReadOpen(r) \/ ReadPiece(r) \/ ReadClose(r)
         \/ \E f \in File, k \in Piece : WriteBack(f, k)
         \/ Commit
         \/ PowerFails
         \/ UNCHANGED vars
  PROVE TypeOK'
<1>1. ASSUME NEW w \in Writer, SaveFails(w) PROVE TypeOK'
  BY <1>1, PieceOne DEF SaveFails, GivesUp, NotWriting, TypeOK
<1>2. ASSUME NEW w \in Writer, Rename(w) PROVE TypeOK'
  <2>1. writing' \in [Writer -> [pc : {"idle", "write", "rename"}, doc : Doc \cup {None},
                       file : File \cup {None}, at : Piece]]
    BY <1>2, PieceOne DEF Rename, NotWriting, TypeOK
  <2> QED BY <1>2, <2>1 DEF Rename, TypeOK
<1>3. ASSUME NEW r \in Reader, ReadOpen(r) PROVE TypeOK'
  BY <1>3, PieceOne DEF ReadOpen, TypeOK
<1>4. ASSUME NEW r \in Reader, ReadPiece(r) PROVE TypeOK'
  <2> DEFINE R == reading[r]
  <2>1. R \in [file : File \cup {None}, at : 1 .. Pieces + 1, got : Bytes] BY DEF TypeOK
  <2>2. R.file \in File /\ R.at \in Piece BY <1>4, <2>1 DEF ReadPiece, Piece
  <2>3. content[R.file][R.at] \in Doc \cup {Hole} BY <2>2 DEF TypeOK, Bytes
  <2>4. [R.got EXCEPT ![R.at] = content[R.file][R.at]] \in Bytes BY <2>1, <2>2, <2>3 DEF Bytes
  <2>5. R.at + 1 \in 1 .. Pieces + 1 BY <2>2 DEF Piece
  <2>6. reading' = [reading EXCEPT ![r] = [file |-> R.file, at |-> R.at + 1,
                                           got |-> [R.got EXCEPT ![R.at] = content[R.file][R.at]]]]
    BY <1>4, <2>1 DEF ReadPiece, TypeOK
  <2>7. reading' \in [Reader -> [file : File \cup {None}, at : 1 .. Pieces + 1, got : Bytes]]
    BY <2>1, <2>4, <2>5, <2>6 DEF TypeOK
  <2> QED BY <1>4, <2>7 DEF ReadPiece, TypeOK
<1>5. ASSUME NEW r \in Reader, ReadClose(r) PROVE TypeOK'
  BY <1>5, PieceOne DEF ReadClose, NotReading, TypeOK
<1>6. ASSUME NEW f \in File, NEW k \in Piece, WriteBack(f, k) PROVE TypeOK'
  <2>1. [disk[f] EXCEPT ![k] = content[f][k]] \in Bytes BY <1>6 DEF TypeOK, Bytes
  <2>2. disk' = [disk EXCEPT ![f] = [disk[f] EXCEPT ![k] = content[f][k]]]
    BY <1>6 DEF WriteBack, TypeOK
  <2>3. disk' \in [File -> Bytes] BY <2>1, <2>2 DEF TypeOK
  <2> QED BY <1>6, <2>3 DEF WriteBack, TypeOK
<1>7. ASSUME Commit PROVE TypeOK' BY <1>7 DEF Commit, TypeOK
<1>8. ASSUME PowerFails PROVE TypeOK'
  BY <1>8, PieceOne DEF PowerFails, NotWriting, NotReading, TypeOK
<1>9. ASSUME UNCHANGED vars PROVE TypeOK' BY <1>9 DEF vars, TypeOK
<1> QED BY <1>1, <1>2, <1>3, <1>4, <1>5, <1>6, <1>7, <1>8, <1>9

-----------------------------------------------------------------------------
(* The inductive invariant. *)

(* The temporary file is neither the configuration nor the one on the disk. *)
NamesApart ==
  /\ dir.tmp # dir.conf /\ diskDir.tmp # diskDir.conf
  /\ dir.tmp # diskDir.conf

(* What the configuration has, also after a power failure. *)
ConfWhole ==
  /\ Whole(content[dir.conf])
  /\ Whole(disk[diskDir.conf])
  /\ content[diskDir.conf] = disk[diskDir.conf]

(* At most one thread writes: into the temporary file, up to its next piece. *)
OneWriter == \A v, w \in Writer : writing[v].pc # "idle" /\ writing[w].pc # "idle" => v = w

WriterAt(w) ==
  /\ writing[w].pc = "idle" => writing[w].file = None
  /\ writing[w].pc # "idle" => writing[w].doc \in Doc /\ dir.tmp \in File
  /\ writing[w].pc = "write" =>
       /\ writing[w].file = dir.tmp
       /\ writing[w].at <= Length[writing[w].doc]
       /\ \A k \in Piece : content[dir.tmp][k] = IF k < writing[w].at THEN writing[w].doc ELSE Hole
  /\ writing[w].pc = "rename" => content[dir.tmp] = Image(writing[w].doc)

(* A reader has a file that nobody writes, and what it has read is from it. *)
ReaderAt(r) ==
  /\ reading[r].file = None => reading[r].at = 1
  /\ reading[r].file # None =>
       /\ reading[r].file # dir.tmp
       /\ Whole(content[reading[r].file])
       /\ \A k \in Piece : k < reading[r].at => reading[r].got[k] = content[reading[r].file][k]

IInv ==
  /\ TypeOK
  /\ NamesApart
  /\ ConfWhole
  /\ OneWriter
  /\ \A w \in Writer : WriterAt(w)
  /\ \A r \in Reader : ReaderAt(r)

LEMMA IInvInit == Init => IInv
<1> SUFFICES ASSUME Init PROVE IInv OBVIOUS
<1>1. TypeOK BY TypeInit
<1>2. PICK f \in File, d \in Doc :
        /\ dir = [conf |-> f, tmp |-> None] /\ diskDir = dir
        /\ content = [g \in File |-> IF g = f THEN Image(d) ELSE Empty] /\ disk = content
        /\ writing = [w \in Writer |-> NotWriting]
        /\ reading = [r \in Reader |-> NotReading]
  BY DEF Init
<1>3. NamesApart BY <1>2 DEF NamesApart
<1>4. ConfWhole BY <1>2 DEF ConfWhole, Whole
<1>5. OneWriter /\ \A w \in Writer : WriterAt(w)
  BY <1>2 DEF OneWriter, WriterAt, NotWriting
<1>6. \A r \in Reader : ReaderAt(r) BY <1>2 DEF ReaderAt, NotReading
<1> QED BY <1>1, <1>3, <1>4, <1>5, <1>6 DEF IInv

(* Nothing of the files or of the others has changed. *)
LEMMA ConfStays ==
  ASSUME IInv, UNCHANGED <<dir, content, diskDir, disk>>
  PROVE NamesApart' /\ ConfWhole'
BY DEF IInv, NamesApart, ConfWhole

LEMMA InvOpen ==
  ASSUME IInv, Alone, NEW w \in Writer, NEW d \in Doc, Open(w, d) PROVE IInv'
<1>1. TypeOK' BY TypeOpen DEF IInv
<1>2. PICK f \in IF dir.tmp # None THEN {dir.tmp} ELSE {g \in File : ~Used(g)} :
        /\ writing' = [writing EXCEPT ![w] = [pc |-> "write", doc |-> d, file |-> f, at |-> 1]]
        /\ content' = [content EXCEPT ![f] = Empty]
        /\ dir' = IF dir.tmp = None THEN [dir EXCEPT !.tmp = f] ELSE dir
        /\ disk' = IF dir.tmp = None THEN [disk EXCEPT ![f] = Empty] ELSE disk
  BY DEF Open, Target
<1>3. /\ f \in File /\ dir'.tmp = f /\ dir'.conf = dir.conf /\ diskDir' = diskDir
      /\ reading' = reading
      /\ f # dir.conf /\ f # diskDir.conf
      /\ dir.conf \in File /\ diskDir.conf \in File
  BY <1>2 DEF IInv, TypeOK, Used, NamesApart, Open
<1>4. \A g \in File : g # f => content'[g] = content[g] /\ disk'[g] = disk[g]
  BY <1>2 DEF IInv, TypeOK
<1>5. content'[f] = Empty BY <1>2, <1>3 DEF IInv, TypeOK
<1>6. NamesApart' BY <1>3 DEF IInv, NamesApart
<1>7. ConfWhole' BY <1>3, <1>4 DEF IInv, ConfWhole
<1>8. \A v \in Writer : writing[v].pc = "idle" BY DEF Open
<1>9. OneWriter' BY <1>2, <1>8 DEF OneWriter, IInv, TypeOK
<1>10. ASSUME NEW v \in Writer PROVE WriterAt(v)'
  <2>1. CASE v # w BY <1>2, <1>8, <2>1 DEF IInv, WriterAt, TypeOK
  <2>2. CASE v = w
    <3>1. writing'[v] = [pc |-> "write", doc |-> d, file |-> f, at |-> 1]
      BY <1>2, <2>2 DEF IInv, TypeOK
    <3>2. 1 <= Length[d] OBVIOUS
    <3>3. \A k \in Piece : content'[f][k] = Hole /\ ~(k < 1) BY <1>5 DEF Empty, Piece
    <3> QED BY <3>1, <3>2, <3>3, <1>3 DEF WriterAt
  <2> QED BY <2>1, <2>2
<1>11. ASSUME NEW r \in Reader PROVE ReaderAt(r)'
  <2>1. reading[r].file # None => reading[r].file # f /\ reading[r].file \in File
    BY <1>2 DEF IInv, ReaderAt, Used, TypeOK
  <2> QED BY <2>1, <1>3, <1>4 DEF IInv, ReaderAt
<1> QED BY <1>1, <1>6, <1>7, <1>9, <1>10, <1>11 DEF IInv

LEMMA InvWritePiece ==
  ASSUME IInv, NEW w \in Writer, WritePiece(w) PROVE IInv'
<1> DEFINE W == writing[w]
<1>1. /\ W.pc = "write" /\ W.doc \in Doc /\ W.file = dir.tmp /\ W.file \in File
      /\ W.at \in Piece /\ W.at <= Length[W.doc] /\ Length[W.doc] \in Piece
      /\ \A k \in Piece : content[W.file][k] = IF k < W.at THEN W.doc ELSE Hole
  BY DEF WritePiece, IInv, WriterAt, TypeOK, Piece
<1>2. TypeOK' BY <1>1, TypeWritePiece DEF IInv
<1>3. dir' = dir /\ diskDir' = diskDir /\ disk' = disk /\ reading' = reading BY DEF WritePiece
<1>4. \A g \in File : g # W.file => content'[g] = content[g] BY DEF WritePiece, IInv, TypeOK
<1>5. \A k \in Piece : content'[W.file][k] = IF k < W.at + 1 THEN W.doc ELSE Hole
  <2>1. content'[W.file] = [content[W.file] EXCEPT ![W.at] = W.doc]
    BY <1>1 DEF WritePiece, IInv, TypeOK
  <2>2. content[W.file] \in Bytes BY <1>1 DEF IInv, TypeOK
  <2> QED BY <2>1, <2>2, <1>1 DEF Bytes, Piece
<1>6. NamesApart' BY <1>3 DEF IInv, NamesApart
<1>7. ConfWhole' BY <1>1, <1>3, <1>4 DEF IInv, ConfWhole, NamesApart, TypeOK
<1>8. \A v \in Writer : v # w => writing'[v] = writing[v] /\ writing[v].pc = "idle"
  BY <1>1 DEF WritePiece, IInv, OneWriter, TypeOK
<1>9. OneWriter' BY <1>8 DEF OneWriter
<1>10. WriterAt(w)'
  <2>1. CASE LastPiece(W.doc, W.at)
    <3>1. /\ writing'[w].pc = "rename" /\ writing'[w].doc = W.doc
      BY <1>1, <2>1 DEF WritePiece, IInv, TypeOK
    <3>2. content'[W.file] \in Bytes BY <1>1, <1>2 DEF TypeOK
    <3>3. \A k \in Piece : content'[W.file][k] = Image(W.doc)[k]
      BY <1>5, <1>1, <2>1 DEF LastPiece, Image, Piece
    <3>4. content'[W.file] = Image(W.doc) BY <3>2, <3>3 DEF Bytes, Image
    <3> QED BY <3>1, <3>4, <1>1, <1>3 DEF WriterAt
  <2>2. CASE ~LastPiece(W.doc, W.at)
    <3>1. /\ writing'[w].pc = "write" /\ writing'[w].doc = W.doc
          /\ writing'[w].file = W.file /\ writing'[w].at = W.at + 1
      BY <1>1, <2>2 DEF WritePiece, IInv, TypeOK
    <3>2. W.at + 1 <= Length[W.doc] BY <1>1, <2>2 DEF LastPiece, Piece
    <3> QED BY <3>1, <3>2, <1>1, <1>3, <1>5 DEF WriterAt
  <2> QED BY <2>1, <2>2
<1>11. \A v \in Writer : WriterAt(v)'
  BY <1>8, <1>10 DEF IInv, WriterAt
<1>12. \A r \in Reader : ReaderAt(r)'
  BY <1>1, <1>3, <1>4 DEF IInv, ReaderAt, TypeOK
<1> QED BY <1>2, <1>6, <1>7, <1>9, <1>11, <1>12 DEF IInv

LEMMA InvRename ==
  ASSUME IInv, NEW w \in Writer, Rename(w) PROVE IInv'
<1>1. TypeOK' BY TypeOther DEF IInv
<1>2. /\ writing[w].pc = "rename" /\ writing[w].doc \in Doc
      /\ dir.tmp \in File /\ content[dir.tmp] = Image(writing[w].doc)
  BY DEF Rename, IInv, WriterAt
<1>3. content' = content /\ diskDir' = diskDir /\ disk' = disk /\ reading' = reading BY DEF Rename
<1>4. \A v \in Writer : writing'[v].pc = "idle" /\ writing'[v].file = None
  BY <1>2 DEF Rename, IInv, OneWriter, WriterAt, TypeOK, NotWriting
<1>5. OneWriter' /\ \A v \in Writer : WriterAt(v)' BY <1>4 DEF OneWriter, WriterAt
<1>6. CASE dir' = [conf |-> dir.tmp, tmp |-> None]
  <2>1. NamesApart' BY <1>2, <1>3, <1>6 DEF IInv, NamesApart, TypeOK
  <2>2. ConfWhole' BY <1>2, <1>3, <1>6 DEF IInv, ConfWhole, Whole
  <2>3. \A r \in Reader : ReaderAt(r)' BY <1>3, <1>6 DEF IInv, ReaderAt
  <2> QED BY <1>1, <1>5, <2>1, <2>2, <2>3 DEF IInv
<1>7. CASE dir' = dir
  <2>1. \A r \in Reader : ReaderAt(r)' BY <1>3, <1>7 DEF IInv, ReaderAt
  <2> QED BY <1>1, <1>3, <1>5, <1>7, <2>1, ConfStays DEF IInv
<1> QED BY <1>6, <1>7 DEF Rename

LEMMA InvSaveFails ==
  ASSUME IInv, NEW w \in Writer, SaveFails(w) PROVE IInv'
<1>1. TypeOK' BY TypeOther DEF IInv
<1>2. UNCHANGED <<dir, content, diskDir, disk, reading>> BY DEF SaveFails
<1>3. \A v \in Writer : writing'[v].pc = "idle" /\ writing'[v].file = None
  BY DEF SaveFails, GivesUp, IInv, OneWriter, WriterAt, TypeOK, NotWriting
<1>4. OneWriter' /\ \A v \in Writer : WriterAt(v)' BY <1>3 DEF OneWriter, WriterAt
<1>5. \A r \in Reader : ReaderAt(r)' BY <1>2 DEF IInv, ReaderAt
<1> QED BY <1>1, <1>2, <1>4, <1>5, ConfStays DEF IInv

LEMMA InvRead ==
  ASSUME IInv, NEW r \in Reader, ReadOpen(r) \/ ReadPiece(r) \/ ReadClose(r) PROVE IInv'
<1>1. TypeOK' BY TypeOther DEF IInv
<1>2. UNCHANGED <<dir, content, diskDir, disk, writing>> BY DEF ReadOpen, ReadPiece, ReadClose
<1>3. OneWriter' /\ \A v \in Writer : WriterAt(v)' BY <1>2 DEF IInv, OneWriter, WriterAt
<1>4. \A q \in Reader : q # r => reading'[q] = reading[q]
  BY DEF ReadOpen, ReadPiece, ReadClose, IInv, TypeOK
<1>5. \A q \in Reader : q # r => ReaderAt(q)' BY <1>2, <1>4 DEF IInv, ReaderAt
<1>6. ReaderAt(r)'
  <2>1. CASE ReadOpen(r)
    <3>1. reading'[r].file = dir.conf /\ reading'[r].at = 1 BY <2>1 DEF ReadOpen, IInv, TypeOK
    <3>2. dir.conf # None /\ dir.conf # dir.tmp /\ Whole(content[dir.conf])
      BY DEF IInv, TypeOK, NamesApart, ConfWhole
    <3>3. \A k \in Piece : ~(k < 1) BY DEF Piece
    <3> QED BY <3>1, <3>2, <3>3, <1>2 DEF ReaderAt
  <2>2. CASE ReadPiece(r)
    <3> DEFINE R == reading[r]
    <3>1. R.file # None /\ R.at \in Piece /\ R.got \in Bytes
      BY <2>2 DEF ReadPiece, IInv, TypeOK, Piece
    <3>2. /\ reading'[r].file = R.file /\ reading'[r].at = R.at + 1
          /\ reading'[r].got = [R.got EXCEPT ![R.at] = content[R.file][R.at]]
      BY <2>2 DEF ReadPiece, IInv, TypeOK
    <3>3. \A k \in Piece : k < R.at + 1 => reading'[r].got[k] = content[R.file][k]
      BY <3>1, <3>2 DEF IInv, ReaderAt, Piece, Bytes
    <3> QED BY <3>1, <3>2, <3>3, <1>2 DEF IInv, ReaderAt
  <2>3. CASE ReadClose(r)
    BY <2>3 DEF ReadClose, NotReading, ReaderAt, IInv, TypeOK
  <2> QED BY <2>1, <2>2, <2>3
<1> QED BY <1>1, <1>2, <1>3, <1>5, <1>6, ConfStays DEF IInv

LEMMA InvWriteBack ==
  ASSUME IInv, NEW f \in File, NEW k \in Piece, WriteBack(f, k) PROVE IInv'
<1>1. TypeOK' BY TypeOther DEF IInv
<1>2. UNCHANGED <<dir, content, diskDir, writing, reading>> BY DEF WriteBack
<1>3. disk'[diskDir.conf] = disk[diskDir.conf]
  <2>1. CASE f # diskDir.conf BY <2>1 DEF WriteBack, IInv, TypeOK
  <2>2. CASE f = diskDir.conf
    <3>1. disk'[f] = [disk[f] EXCEPT ![k] = disk[f][k]]
      BY <2>2 DEF WriteBack, IInv, TypeOK, ConfWhole
    <3>2. disk[f] \in Bytes BY DEF IInv, TypeOK
    <3> QED BY <2>2, <3>1, <3>2 DEF Bytes
  <2> QED BY <2>1, <2>2
<1>4. NamesApart' /\ ConfWhole' BY <1>2, <1>3 DEF IInv, NamesApart, ConfWhole
<1>5. OneWriter' /\ \A v \in Writer : WriterAt(v)' BY <1>2 DEF IInv, OneWriter, WriterAt
<1>6. \A r \in Reader : ReaderAt(r)' BY <1>2 DEF IInv, ReaderAt
<1> QED BY <1>1, <1>4, <1>5, <1>6 DEF IInv

LEMMA InvCommit ==
  ASSUME IInv, Ordered, Commit PROVE IInv'
<1>1. TypeOK' BY TypeOther DEF IInv
<1>2. UNCHANGED <<dir, content, disk, writing, reading>> /\ diskDir' = dir BY DEF Commit
<1>3. NamesApart' /\ ConfWhole' BY <1>2 DEF Commit, IInv, NamesApart, ConfWhole
<1>4. OneWriter' /\ \A v \in Writer : WriterAt(v)' BY <1>2 DEF IInv, OneWriter, WriterAt
<1>5. \A r \in Reader : ReaderAt(r)' BY <1>2 DEF IInv, ReaderAt
<1> QED BY <1>1, <1>3, <1>4, <1>5 DEF IInv

LEMMA InvPowerFails ==
  ASSUME IInv, PowerFails PROVE IInv'
<1>1. TypeOK' BY TypeOther DEF IInv
<1>2. NamesApart' /\ ConfWhole' BY DEF PowerFails, IInv, NamesApart, ConfWhole
<1>3. OneWriter' /\ \A v \in Writer : WriterAt(v)'
  BY DEF PowerFails, NotWriting, OneWriter, WriterAt
<1>4. \A r \in Reader : ReaderAt(r)' BY DEF PowerFails, NotReading, ReaderAt
<1> QED BY <1>1, <1>2, <1>3, <1>4 DEF IInv

LEMMA IInvNext ==
  ASSUME IInv, Alone, Ordered, [Next]_vars PROVE IInv'
<1>1. CASE Next
  BY <1>1, InvOpen, InvWritePiece, InvSaveFails, InvRename, InvRead, InvWriteBack, InvCommit,
     InvPowerFails DEF Next
<1>2. CASE UNCHANGED vars
  <2>1. TypeOK' BY <1>2, TypeOther DEF IInv
  <2>2. NamesApart' /\ ConfWhole' BY <1>2, ConfStays DEF vars
  <2>3. OneWriter' /\ \A v \in Writer : WriterAt(v)' BY <1>2 DEF vars, IInv, OneWriter, WriterAt
  <2>4. \A r \in Reader : ReaderAt(r)' BY <1>2 DEF vars, IInv, ReaderAt
  <2> QED BY <2>1, <2>2, <2>3, <2>4 DEF IInv
<1> QED BY <1>1, <1>2

-----------------------------------------------------------------------------
(* The theorems. *)

\* Every variable of the file and its threads keeps its type.
THEOREM TypeCorrect == Spec => []TypeOK
<1> DEFINE TInv == TypeOK /\ \A w \in Writer : WriterTyped(w)
<1>1. Init => TInv BY TypeInit DEF Init, WriterTyped, NotWriting
<1>2. TInv /\ [Next]_vars => TInv'
  <2> SUFFICES ASSUME TInv, [Next]_vars PROVE TInv' OBVIOUS
  <2>1. ASSUME NEW w \in Writer, NEW d \in Doc, Open(w, d) PROVE TInv'
    <3>1. TypeOK' BY <2>1, TypeOpen
    <3>2. PICK f \in File : writing' = [writing EXCEPT ![w] =
                               [pc |-> "write", doc |-> d, file |-> f, at |-> 1]]
      BY <2>1 DEF Open, Target, TypeOK
    <3>3. 1 <= Length[d] OBVIOUS
    <3> QED BY <3>1, <3>2, <3>3 DEF WriterTyped, TypeOK
  <2>2. ASSUME NEW w \in Writer, WritePiece(w) PROVE TInv'
    <3>1. /\ writing[w].doc \in Doc /\ writing[w].file \in File
          /\ writing[w].at \in Piece /\ Length[writing[w].doc] \in Piece
          /\ writing[w].at <= Length[writing[w].doc]
      BY <2>2 DEF WritePiece, WriterTyped, TypeOK, Piece
    <3>2. TypeOK' BY <2>2, <3>1, TypeWritePiece
    <3>3. \A v \in Writer : v # w => writing'[v] = writing[v] BY <2>2 DEF WritePiece, TypeOK
    <3>4. WriterTyped(w)'
      <4>1. CASE LastPiece(writing[w].doc, writing[w].at)
        BY <2>2, <4>1 DEF WritePiece, TypeOK, WriterTyped
      <4>2. CASE ~LastPiece(writing[w].doc, writing[w].at)
        <5>1. writing[w].at + 1 <= Length[writing[w].doc] BY <3>1, <4>2 DEF LastPiece, Piece
        <5> QED BY <2>2, <3>1, <4>2, <5>1 DEF WritePiece, TypeOK, WriterTyped
      <4> QED BY <4>1, <4>2
    <3> QED BY <3>2, <3>3, <3>4 DEF WriterTyped
  <2>3. ASSUME NEW w \in Writer, SaveFails(w) \/ Rename(w) PROVE TInv'
    BY <2>3, TypeOther DEF SaveFails, GivesUp, Rename, NotWriting, WriterTyped, TypeOK
  <2>4. ASSUME PowerFails PROVE TInv'
    BY <2>4, TypeOther DEF PowerFails, NotWriting, WriterTyped
  <2>5. ASSUME \/ \E r \in Reader : ReadOpen(r) \/ ReadPiece(r) \/ ReadClose(r)
               \/ \E f \in File, k \in Piece : WriteBack(f, k)
               \/ Commit
               \/ UNCHANGED vars
        PROVE TInv'
    <3>1. UNCHANGED writing
      BY <2>5 DEF ReadOpen, ReadPiece, ReadClose, WriteBack, Commit, vars
    <3> QED BY <2>5, <3>1, TypeOther DEF WriterTyped
  <2> QED BY <2>1, <2>2, <2>3, <2>4, <2>5 DEF Next
<1> HIDE DEF TInv
<1>3. TInv => TypeOK BY DEF TInv
<1> QED BY <1>1, <1>2, <1>3, PTL DEF Spec

\* XML_OpenXmlFile reads one whole document, whatever is written meanwhile.
THEOREM ReadsWhole == Alone /\ Ordered => (Spec => []ReadWhole)
<1> SUFFICES ASSUME Alone, Ordered PROVE Spec => []ReadWhole OBVIOUS
<1>1. IInv => ReadWhole
  <2> SUFFICES ASSUME IInv, NEW r \in Reader, reading[r].at > Pieces
               PROVE Whole(reading[r].got)
    BY DEF ReadWhole
  <2>1. reading[r].file # None
    <3>1. reading[r].at \in 1 .. Pieces + 1 /\ Pieces >= 1 BY DEF IInv, TypeOK
    <3>2. reading[r].file = None => reading[r].at = 1 BY DEF IInv, ReaderAt
    <3> QED BY <3>1, <3>2
  <2>2. reading[r].got \in Bytes /\ content[reading[r].file] \in Bytes BY <2>1 DEF IInv, TypeOK
  <2>3. \A k \in Piece : reading[r].got[k] = content[reading[r].file][k]
    BY <2>1 DEF IInv, ReaderAt, Piece, TypeOK
  <2>4. reading[r].got = content[reading[r].file] BY <2>2, <2>3 DEF Bytes
  <2> QED BY <2>1, <2>4 DEF IInv, ReaderAt
<1> QED BY IInvInit, IInvNext, <1>1, PTL DEF Spec

(* A file that has a document has the one DocOf finds. *)
LEMMA DocOfWhole == ASSUME NEW c, Whole(c) PROVE DocOf(c) \in Doc
BY DEF Whole, DocOf

\* The configuration file implements AtomicFile: it is replaced in one step,
\* and a power failure brings back one whole document (XML_WriteXmlFile,
\* XML_RenameConf).
THEOREM Atomic == Alone /\ Ordered => (Spec => WrittenAtomically)
<1> SUFFICES ASSUME Alone, Ordered PROVE Spec => Conf!Spec BY DEF WrittenAtomically
<1>1. Init => Conf!Init
  <2> SUFFICES ASSUME Init PROVE Conf!Init OBVIOUS
  <2>1. dir = diskDir /\ content = disk BY DEF Init
  <2>2. Whole(content[dir.conf]) BY IInvInit DEF IInv, ConfWhole
  <2> QED BY <2>1, <2>2, DocOfWhole DEF Conf!Init
<1>2. IInv /\ IInv' /\ [Next]_vars => [Conf!Next]_<<
        IF Whole(content[dir.conf]) THEN DocOf(content[dir.conf]) ELSE None,
        IF Whole(disk[diskDir.conf]) THEN DocOf(disk[diskDir.conf]) ELSE None>>
  <2> SUFFICES ASSUME IInv, IInv', [Next]_vars
               PROVE \/ Conf!Next
                     \/ UNCHANGED <<
                          IF Whole(content[dir.conf]) THEN DocOf(content[dir.conf]) ELSE None,
                          IF Whole(disk[diskDir.conf]) THEN DocOf(disk[diskDir.conf]) ELSE None>>
    OBVIOUS
  <2> DEFINE F == IF Whole(content[dir.conf]) THEN DocOf(content[dir.conf]) ELSE None
             S == IF Whole(disk[diskDir.conf]) THEN DocOf(disk[diskDir.conf]) ELSE None
  <2>0. /\ Whole(content[dir.conf]) /\ Whole(content[dir.conf])'
        /\ Whole(disk[diskDir.conf]) /\ Whole(disk[diskDir.conf])'
    BY DEF IInv, ConfWhole
  <2>1. ASSUME content'[dir'.conf] = content[dir.conf], disk'[diskDir'.conf] = disk[diskDir.conf]
        PROVE UNCHANGED <<F, S>>
    BY <2>1
  <2>2. ASSUME NEW w \in Writer, NEW d \in Doc, Open(w, d) PROVE UNCHANGED <<F, S>>
    <3>1. dir'.conf = dir.conf /\ diskDir' = diskDir BY <2>2 DEF Open, IInv, TypeOK
    <3>2. PICK f \in IF dir.tmp # None THEN {dir.tmp} ELSE {g \in File : ~Used(g)} :
            /\ content' = [content EXCEPT ![f] = Empty]
            /\ disk' = IF dir.tmp = None THEN [disk EXCEPT ![f] = Empty] ELSE disk
      BY <2>2 DEF Open, Target
    <3>3. f # dir.conf /\ f # diskDir.conf BY <3>2 DEF Used, IInv, NamesApart
    <3> QED BY <2>1, <3>1, <3>2, <3>3 DEF IInv, TypeOK
  <2>3. ASSUME NEW w \in Writer, WritePiece(w) PROVE UNCHANGED <<F, S>>
    <3>1. writing[w].file # dir.conf BY <2>3 DEF WritePiece, IInv, WriterAt, NamesApart
    <3> QED BY <2>1, <2>3, <3>1 DEF WritePiece, IInv, TypeOK
  <2>4. ASSUME NEW w \in Writer, Rename(w) PROVE Conf!Next \/ UNCHANGED <<F, S>>
    <3>1. UNCHANGED S BY <2>4 DEF Rename
    <3>2. F' \in Doc BY <2>0, DocOfWhole
    <3> QED BY <3>1, <3>2 DEF Conf!Next, Conf!Write
  <2>5. ASSUME NEW f \in File, NEW k \in Piece, WriteBack(f, k) PROVE UNCHANGED <<F, S>>
    <3>1. disk'[diskDir.conf] = content[diskDir.conf] /\ disk[diskDir.conf] = content[diskDir.conf]
      BY <2>5 DEF WriteBack, IInv, ConfWhole
    <3> QED BY <2>1, <2>5, <3>1 DEF WriteBack
  <2>6. ASSUME Commit PROVE Conf!Next
    <3>1. UNCHANGED F BY <2>6 DEF Commit
    <3>2. S' = F BY <2>6, <2>0 DEF Commit
    <3> QED BY <3>1, <3>2 DEF Conf!Next, Conf!Save
  <2>7. ASSUME PowerFails PROVE Conf!Next
    <3>1. UNCHANGED S BY <2>7 DEF PowerFails
    <3>2. F' = S BY <2>7 DEF PowerFails
    <3> QED BY <3>1, <3>2 DEF Conf!Next, Conf!PowerFails
  <2>8. ASSUME \/ \E w \in Writer : SaveFails(w)
               \/ \E r \in Reader : ReadOpen(r) \/ ReadPiece(r) \/ ReadClose(r)
               \/ UNCHANGED vars
        PROVE UNCHANGED <<F, S>>
    BY <2>8 DEF SaveFails, ReadOpen, ReadPiece, ReadClose, vars
  <2> QED BY <2>2, <2>3, <2>4, <2>5, <2>6, <2>7, <2>8 DEF Next
<1> QED BY IInvInit, IInvNext, <1>1, <1>2, PTL DEF Spec, Conf!Spec
=============================================================================
