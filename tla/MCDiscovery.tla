---------------------------- MODULE MCDiscovery ----------------------------
\* Two schedulers of the same or of different versions and networks, and a daemon whose
\* network is spelled in another case.
EXTENDS Discovery

MCSchedNames == {<<"icecream", "upper">>, <<"other", "upper">>}
MCDaemonName == <<"icecream", "lower">>
=============================================================================
