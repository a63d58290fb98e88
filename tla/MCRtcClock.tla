---------------------------- MODULE MCRtcClock -----------------------------
(* Times at which much carries, and one that is refused. *)
EXTENDS RtcClock

At24(y, mo, d, h, mi, s) == [v |-> <<s, mi, h, d, mo, y>>, sys |-> "24", half |-> "AM"]
At12(y, mo, d, h, mi, s, half) == [v |-> <<s, mi, h, d, mo, y>>, sys |-> "12", half |-> half]

MCPresent == {At12(2016, 2, 28, 11, 59, 59, "PM")}
MCTimes == {At24(2015, 12, 31, 23, 59, 59), At12(2015, 12, 31, 11, 59, 59, "PM"),
            At24(2100, 1, 1, 0, 0, 0)}
=============================================================================
