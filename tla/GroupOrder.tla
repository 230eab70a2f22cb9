---------------------------- MODULE GroupOrder ----------------------------
(***************************************************************************)
(* The order of the groups in the scheduler's job_requests, as a relation: *)
(* a set of pairs <<g, h>> such that g stands before h.  A group is a pair *)
(* <<submitter, niceness>>; only groups of one niceness are related, since *)
(* the list is sorted by niceness anyway.                                  *)
(***************************************************************************)

\* enqueue_job_requests_group and the insertions of enqueue_job_request: a
\* group goes behind every group that has its niceness.
Behind(order, g, others) ==
    order \cup {<<h, g>> : h \in {o \in others : o[2] = g[2]}}

\* Groups leave the list.
Without(order, gone) ==
    {p \in order : p[1] \notin gone /\ p[2] \notin gone}
=============================================================================
