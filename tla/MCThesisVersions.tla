-------------------------- MODULE MCThesisVersions --------------------------
(***************************************************************************)
(* Small instances of ThesisVersions for TLC.                              *)
(***************************************************************************)
EXTENDS ThesisVersions, TLC

CONSTANTS w1, w2, b1, b2, r1

OneWriter == {w1}
TwoWriters == {w1, w2}
TwoBodies == {b1, b2}
OneReason == {r1}

=============================================================================
