---------------------------- MODULE MCJobQueue ----------------------------
(* An instance of JobQueue for TLC: three submitters, two priorities, so that *)
(* rotation, overtaking and insertion between priorities all happen.          *)
EXTENDS JobQueue, TLC

CONSTANTS s1, s2, s3

Submitters == {s1, s2, s3}
OneOrThree == {1, 3}
=============================================================================
