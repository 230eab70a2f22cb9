---------------------------- MODULE MCMsgChannel ----------------------------
\* Two ends of a release before and after members were added to a message.
EXTENDS MsgChannel, TLC

CONSTANTS a, b

MCScript == (a :> <<"JobBegin", "Ping">>) @@ (b :> <<"JobLocalDone">>)
=============================================================================
