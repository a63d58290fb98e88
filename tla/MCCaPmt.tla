------------------------------ MODULE MCCaPmt ------------------------------
(* Small instances of CaPmtSent for TLC. *)
EXTENDS CaPmtSent

MCPlans == (0 :> {<<>>, <<"p1", "p2">>}) @@ (1 :> {<<"p2">>})
MCAnnounced == (0 :> {<<257>>, <<258, 259, 257>>}) @@ (1 :> {<<258>>})
MCBufferSizes == {16, 17, 256, 512, 768}

\* A CA descriptor of n bytes, full of bytes that look like tags; one of another kind.
MCFiller(n) == [k \in 1 .. n |-> CaTag]
MCCa(system, n) == <<CaTag, n - 2>> \o Word(system) \o MCFiller(n - 4)
MCOther == <<10, 4>> \o MCFiller(4)

MCStream(type, info) == [type |-> type, pid |-> 4660, info |-> info]
MCPlain(n) == [k \in 1 .. n |-> MCStream(2, <<>>)]
MCProgram(info, streams) ==
  [number |-> 515, version |-> 7, info |-> info, streams |-> streams]

\* Chosen for the lengths of the CA PMTs that are sent: 116 and 126 without
\* descriptors, 127, 128 and 254 (p2), 255 (p3), 495 with a loop of more than 255
\* bytes (p1), which is the longest that fits every buffer; and 1018 (p1), the
\* shortest that is too long.
MCContent ==
  [p1 |-> MCProgram(<<MCCa(257, 255), MCOther, MCCa(258, 18)>>,
            MCPlain(22) \o
            <<MCStream(2, <<MCCa(257, 255), MCCa(258, 255), MCCa(257, 255), MCCa(259, 94)>>),
              MCStream(2, <<<<10, 0>>, MCCa(257, 124)>>)>>),
   p2 |-> MCProgram(<<MCCa(257, 10)>>,
            MCPlain(20) \o
            <<MCStream(2, <<MCCa(258, 11), MCOther>>),
              MCStream(23, <<MCCa(258, 20)>>),
              MCStream(128, <<MCCa(259, 125)>>)>>),
   p3 |-> MCProgram(<<>>,
            MCPlain(21) \o <<MCStream(2, <<MCCa(258, 138)>>)>>)]

MCSystems == [p1 |-> {257, 258, 259}, p2 |-> {257, 258, 259}, p3 |-> {258}]
MCTooLong ==
  [p1 |-> {{257}, {257, 258}, {257, 259}, {257, 258, 259}}, p2 |-> {}, p3 |-> {}]
=============================================================================
