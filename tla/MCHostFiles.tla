----------------------------- MODULE MCHostFiles -----------------------------
(* HostFiles for TLC: an engine shipped as binaries for two architectures,  *)
(* as a package, and as binaries with one file less.                        *)
EXTENDS HostFiles

E(p, a, s, x) == [path |-> p, arch |-> a, profile |-> "any", when |-> "none",
                  selector |-> s, executable |-> x]

Files == <<<<E("conf", "arm64", "any", FALSE), E("conf", "amd64", "any", FALSE),
             [E("opt", "any", "any", FALSE) EXCEPT !.when = "false"]>>, <<>>, <<>>>>
OSFiles == <<<<E("bin", "arm64", "bin", TRUE), E("bin", "amd64", "bin", TRUE),
               E("unit", "any", "bin", FALSE)>>,
             <<E("rpm", "any", "rpm", FALSE), E("rpm", "any", "apt", FALSE), E("bin", "amd64", "bin", TRUE)>>,
             <<E("bin", "amd64", "bin", TRUE)>>>>
Images == <<{"img", "old"}, {"img"}, {"img"}>>
=============================================================================
