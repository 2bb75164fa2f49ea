------------------------------ MODULE MCDbFile ------------------------------
(* Names of different lengths, so that records have different sizes and one *)
(* may be read out of step; the longest fills LenLimit = 4 and is written   *)
(* with length 0.  What memory holds behind a field looks like a name.      *)
EXTENDS DbFile

TwoNames == {<<1>>, <<2, 2>>}
ThreeNames == TwoNames \cup {<<3, 3, 3>>}
Remains == {<<1>>}
=============================================================================
