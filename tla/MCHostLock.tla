----------------------------- MODULE MCHostLock -----------------------------
(* Instances of HostLock for TLC.                                          *)
EXTENDS HostLock, TLC

CONSTANTS i1, i2, h1, h2

\* Processes and hosts are interchangeable.
Symmetry == Permutations(Instances) \union Permutations(Hosts)
=============================================================================
