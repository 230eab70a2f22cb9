---------------------------- MODULE MCSelection ----------------------------
\* Three servers, one of them with two slots.
EXTENDS Selection

CONSTANTS s1, s2, s3

MCcss == <<s1, s2, s3>>
MCmaxJobs == [cs \in {s1, s2, s3} |-> IF cs = s2 THEN 2 ELSE 1]
=============================================================================
