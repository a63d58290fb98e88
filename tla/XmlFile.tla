------------------------------ MODULE XmlFile -------------------------------
(***************************************************************************)
(* A configuration file on its way to the disk.  XML_WriteXmlFile has a    *)
(* document written to a temporary file beside it and renames this;        *)
(* XML_OpenXmlFile reads the file while others write.  The power may fail  *)
(* at any time, and nothing asks the system to write its buffers before.   *)
(*                                                                         *)
(* Names stand for files of the file system, which are there as long as a  *)
(* name or an open descriptor stands for them.  A document is a number of  *)
(* pieces, written in one call each.                                       *)
(***************************************************************************)
EXTENDS Integers

CONSTANTS
  Doc,       \* documents
  Length,    \* pieces of each
  Pieces,    \* the most a file has
  Writer, Reader,
  File,      \* files the file system has room for
  Alone,     \* no two threads write the file at the same time
  Ordered,   \* the file system writes the data of a file before its new name
  Hole, None

ASSUME XmlAssumption ==
  /\ Pieces \in Nat \ {0}
  /\ Length \in [Doc -> 1 .. Pieces]
  /\ Alone \in BOOLEAN /\ Ordered \in BOOLEAN
  /\ Hole \notin Doc /\ None \notin File

VARIABLES
  dir,       \* what the names stand for: "conf", and "tmp" or nothing
  content,   \* the pieces of each file
  diskDir, disk,   \* the same on the disk
  writing,   \* per writer: its document, the open file and the next piece
  reading    \* per reader: the open file, the next piece and what it has read

vars == <<dir, content, diskDir, disk, writing, reading>>

Piece == 1 .. Pieces
Bytes == [Piece -> Doc \cup {Hole}]

(* A file that holds document d and nothing else. *)
Image(d) == [k \in Piece |-> IF k <= Length[d] THEN d ELSE Hole]
Whole(c) == \E d \in Doc : c = Image(d)

Empty == [k \in Piece |-> Hole]

NotWriting == [pc |-> "idle", doc |-> None, file |-> None, at |-> 1]
NotReading == [file |-> None, at |-> 1, got |-> Empty]

Init ==
  \E f \in File, d \in Doc :
    /\ dir = [conf |-> f, tmp |-> None] /\ diskDir = dir
    /\ content = [g \in File |-> IF g = f THEN Image(d) ELSE Empty] /\ disk = content
    /\ writing = [w \in Writer |-> NotWriting]
    /\ reading = [r \in Reader |-> NotReading]

-----------------------------------------------------------------------------
(* XML_WriteXmlFile. *)

(* Some name or open descriptor stands for f. *)
Used(f) ==
  \/ f \in {dir.conf, dir.tmp, diskDir.conf, diskDir.tmp}
  \/ \E w \in Writer : writing[w].file = f
  \/ \E r \in Reader : reading[r].file = f

(* The file that is opened; the first is the configuration itself. *)
TargetConf == dir.conf
Target == dir.tmp

(* fopen: the temporary file is emptied, or a new one is made. *)
Open(w, d) ==
  /\ writing[w].pc = "idle"
  /\ Alone => \A v \in Writer : writing[v].pc = "idle"
  /\ \E f \in IF Target # None THEN {Target} ELSE {g \in File : ~Used(g)} :
       /\ writing' = [writing EXCEPT ![w] = [pc |-> "write", doc |-> d, file |-> f, at |-> 1]]
       /\ content' = [content EXCEPT ![f] = Empty]
       /\ dir' = IF Target = None THEN [dir EXCEPT !.tmp = f] ELSE dir
       /\ disk' = IF Target = None THEN [disk EXCEPT ![f] = Empty] ELSE disk
  /\ UNCHANGED <<diskDir, reading>>

(* xmlSaveFormatFileEnc writes the next piece, and after the last it closes *)
(* the file.                                                                *)
LastPiece(d, k) == k = Length[d]

WritePiece(w) ==
  /\ writing[w].pc = "write"
  /\ LET W == writing[w] IN
       /\ content' = [content EXCEPT ![W.file][W.at] = W.doc]
       /\ writing' = [writing EXCEPT
            ![w] = IF LastPiece(W.doc, W.at)
                   THEN [W EXCEPT !.pc = "rename", !.file = None, !.at = 1]
                   ELSE [W EXCEPT !.at = @ + 1]]
  /\ UNCHANGED <<dir, diskDir, disk, reading>>

(* The disk is full: XML_WriteXmlFile gives up, and leaves what it has      *)
(* written.  The first definition does not look at the result.              *)
GivesUpNot(W) == [W EXCEPT !.pc = "rename", !.file = None, !.at = 1]
GivesUp(W) == NotWriting

SaveFails(w) ==
  /\ writing[w].pc = "write"
  /\ writing' = [writing EXCEPT ![w] = GivesUp(@)]
  /\ UNCHANGED <<dir, content, diskDir, disk, reading>>

(* XML_RenameConf; the rename may fail. *)
Rename(w) ==
  /\ writing[w].pc = "rename"
  /\ writing' = [writing EXCEPT ![w] = NotWriting]
  /\ \/ dir.tmp # None /\ dir' = [conf |-> dir.tmp, tmp |-> None]
     \/ UNCHANGED dir
  /\ UNCHANGED <<content, diskDir, disk, reading>>

-----------------------------------------------------------------------------
(* XML_OpenXmlFile: xmlParseFile opens the file and reads it to its end. *)

ReadOpen(r) ==
  /\ reading[r].file = None
  /\ reading' = [reading EXCEPT ![r] = [file |-> dir.conf, at |-> 1, got |-> Empty]]
  /\ UNCHANGED <<dir, content, diskDir, disk, writing>>

ReadPiece(r) ==
  /\ reading[r].file # None /\ reading[r].at <= Pieces
  /\ LET R == reading[r] IN
       reading' = [reading EXCEPT ![r].got[R.at] = content[R.file][R.at],
                                  ![r].at = @ + 1]
  /\ UNCHANGED <<dir, content, diskDir, disk, writing>>

ReadClose(r) ==
  /\ reading[r].at > Pieces
  /\ reading' = [reading EXCEPT ![r] = NotReading]
  /\ UNCHANGED <<dir, content, diskDir, disk, writing>>

-----------------------------------------------------------------------------
(* The system and its disk. *)

WriteBack(f, k) ==
  /\ disk' = [disk EXCEPT ![f][k] = content[f][k]]
  /\ UNCHANGED <<dir, content, diskDir, writing, reading>>

Commit ==
  /\ Ordered => disk[dir.conf] = content[dir.conf]
  /\ diskDir' = dir
  /\ UNCHANGED <<dir, content, disk, writing, reading>>

PowerFails ==
  /\ dir' = diskDir /\ content' = disk
  /\ writing' = [w \in Writer |-> NotWriting]
  /\ reading' = [r \in Reader |-> NotReading]
  /\ UNCHANGED <<diskDir, disk>>

Next ==
  \/ \E w \in Writer : (\E d \in Doc : Open(w, d)) \/ WritePiece(w) \/ SaveFails(w) \/ Rename(w)
  \/ \E r \in Reader : ReadOpen(r) \/ ReadPiece(r) \/ ReadClose(r)
  \/ \E f \in File, k \in Piece : WriteBack(f, k)
  \/ Commit
  \/ PowerFails

Spec == Init /\ [][Next]_vars

-----------------------------------------------------------------------------
(* Properties. *)

\* Every variable has its type; both directories name files.
TypeOK ==
  /\ dir \in [conf : File, tmp : File \cup {None}] /\ diskDir \in [conf : File, tmp : File \cup {None}]
  /\ content \in [File -> Bytes] /\ disk \in [File -> Bytes]
  /\ writing \in [Writer -> [pc : {"idle", "write", "rename"}, doc : Doc \cup {None},
                             file : File \cup {None}, at : Piece]]
  /\ reading \in [Reader -> [file : File \cup {None}, at : 1 .. Pieces + 1, got : Bytes]]

\* A document that is read while others are written is one whole document, not
\* the beginning of one and the end of another (XML_OpenXmlFile).
ReadWhole ==
  \A r \in Reader : reading[r].at > Pieces => Whole(reading[r].got)

(* The document of a file that has one. *)
DocOf(c) == CHOOSE d \in Doc : c = Image(d)

Conf == INSTANCE AtomicFile WITH
  file <- IF Whole(content[dir.conf]) THEN DocOf(content[dir.conf]) ELSE None,
  saved <- IF Whole(disk[diskDir.conf]) THEN DocOf(disk[diskDir.conf]) ELSE None

\* The file is written atomically: at every moment, and after a power failure at
\* any moment, it holds one whole document (the comments of XML_WriteXmlFile and
\* XML_RenameConf).
WrittenAtomically == Conf!Spec
=============================================================================
