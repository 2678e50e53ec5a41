---------------------------- MODULE MCResetCluster ----------------------------
(* ResetCluster for TLC.                                                   *)
EXTENDS ResetCluster

\* Every host has its own hostname in the configuration.
Named == [h \in 1..4 |-> h]

\* Everything; each controller alone; with and without the worker; two controllers;
\* every controller.
Lists == {{}, {2}, {3}, {1, 4}, {3, 4}, {2, 3, 4}}
=============================================================================
