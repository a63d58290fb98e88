----------------------------- MODULE MCXmlFile ------------------------------
(* A document of one piece and one of two. *)
EXTENDS XmlFile, TLC

CONSTANTS d1, d2

MCLength == (d1 :> 1) @@ (d2 :> 2)
Files == Permutations(File)
=============================================================================
