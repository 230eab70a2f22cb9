----------------------------- MODULE MCEnvCache -----------------------------
\* Two clients, two environments and a compiler; the limit holds one environment and a
\* tarball.
EXTENDS EnvCache

CONSTANTS c1, c2

Alike == Permutations(Client)

MCEnvSize == [e \in Env |-> 2]
=============================================================================
