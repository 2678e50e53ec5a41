--------------------------- MODULE MCPhaseManager ---------------------------
(***************************************************************************)
(* A run from the request for it to the record of it: the command that is  *)
(* made of a task, the phases of the run, with the kinds of phase that the *)
(* commands are made of, and its receipt. They share no state, so a        *)
(* behaviour is one of them, which `subject` names.                        *)
(***************************************************************************)
EXTENDS PhaseManager, Receipts, TLC

CONSTANTS p1, p2, h1, h2, Unset, Bad, Blank, Private, Named

VARIABLES subject, conf, proc, disk, tasks

K(d, c, r, w, h) == [dry |-> d, cleans |-> c, reports |-> r, writes |-> w, hooks |-> h]

Reader == K("readonly", FALSE, "no", FALSE, FALSE)     \* GatherFacts, ValidateHosts
Plain == K("skip", FALSE, "no", FALSE, FALSE)           \* Lock, UpgradeWorkers
Upload == K("skip", TRUE, "no", FALSE, FALSE)           \* UploadFilesCommon
Sync == K("skip", FALSE, "all", TRUE, FALSE)             \* EngineConfigSyncHosts
Prepares == K("skip", FALSE, "some", FALSE, FALSE)      \* PrepareHosts, ModifyHosts
OwnPath == K("own", FALSE, "no", FALSE, FALSE)         \* Disconnect
Hooked == K("skip", TRUE, "all", FALSE, TRUE)            \* none yet: the hooks are open

CommandKinds == {Reader, Plain, Upload, Sync, Prepares, OwnPath}
AllKinds == CommandKinds \union {Hooked}

(* Groups of two hosts, missing, empty, with a host in both, and one with a blank name; mappings that *)
(* name them in either order, for one role or both, and wrongly; variables that are not usable.      *)
HostLists == {<<>>, <<h1>>, <<h2>>, <<h1, h2>>, <<h2, h1>>, <<Blank>>}
GroupSets == UNION {[D -> HostLists] : D \in SUBSET {"controller", "worker"}}
Mappings == {<<>>, [controller |-> <<"worker", "controller">>], [controller |-> <<"worker">>, worker |-> <<"controller">>],
    [controller |-> <<"controller">>, worker |-> <<"controller">>], [worker |-> <<"worker">>], [controller |-> <<>>],
    [controller |-> <<Blank>>], [other |-> <<"worker">>]}
HostVars == {<<>>, h1 :> [port |-> 0, hostname |-> "n"], h1 :> [port |-> 70000], h2 :> [profile |-> Bad], h2 :> [misspelt |-> "v"]}
Request(g, m, v, n) == [groups |-> g, mapping |-> m, vars |-> v, name |-> n]
TwoClusters == {Request([controller |-> <<h1>>, worker |-> <<h2>>], <<>>, <<>>, "c"), Request([controller |-> <<h1, h2>>], <<>>, <<>>, "c")}
AllRequests == {Request(g, m, <<>>, "c") : g \in GroupSets, m \in Mappings}
    \union {Request(g, <<>>, v, n) : g \in GroupSets, v \in HostVars, n \in {Unset, "c"}}

R == INSTANCE Requests WITH Procs <- {p1, p2}, Inventories <- AllRequests, Tasked <- TwoClusters,
    Modules <- {"apply", "kube_config"}, Values <- {1, 2}, Default <- 1, Misspelt <- "misspelt", MaxTasks <- 2

(* Two phases of a run over hosts behind one address and one that is not configured, in several orders. *)
H1 == [at |-> 1, port |-> 22]
H2 == [at |-> 1, port |-> 2223]
H3 == [at |-> 3, port |-> 0]
Visit(h, w) == [host |-> h, what |-> w]
Phase(as, d, vs) == [as |-> as, declared |-> d, visits |-> vs]
TwoLedgers == {
    <<Phase("skipped", TRUE, <<>>), Phase("ran", TRUE, <<Visit(H2, "file"), Visit(H1, "observed"), Visit(H2, "observed")>>),
      Phase("planned", FALSE, <<Visit(H1, "changed")>>)>>,
    <<Phase("ran", TRUE, <<Visit(H1, "observed"), Visit(H2, "observed")>>), Phase("ran", TRUE, <<Visit(H3, "changed"), Visit(H1, "file")>>)>>}
Arg(k, s) == [kind |-> k, secret |-> s]
Line == <<Arg("flag", FALSE), Arg("joined", TRUE), Arg("credential", FALSE), Arg("flag", TRUE)>>

TwoWriters == {p1, p2}
TwoHosts == <<H2, H1>>
OneLine == {Line}

-----------------------------------------------------------------------------
requests == <<conf, proc, disk, tasks>>
RunIdle == Init /\ ~dryRun /\ kind = [p \in Phases |-> Reader] /\ installed = {}
RequestsIdle == conf = <<>> /\ proc = <<>> /\ disk = <<>> /\ tasks = 0

WholeInit ==
    /\ ReceiptsInit
    /\ \/ subject = "run" /\ Init /\ RequestsIdle
       \/ subject = "request" /\ RunIdle /\ R!Init
       \/ subject = "receipt" /\ RunIdle /\ RequestsIdle
WholeNext ==
    \/ subject = "run" /\ Next /\ UNCHANGED <<subject, requests, receiptVars>>
    \/ subject = "request" /\ R!Next /\ UNCHANGED <<subject, vars, receiptVars>>
    \/ subject = "receipt" /\ ReceiptsNext /\ UNCHANGED <<subject, vars, requests>>
WholeSpec == WholeInit /\ [][WholeNext]_<<subject, vars, requests, receiptVars>>

(* What runs is what was asked for: see Requests. *)
RunsAsAsked == subject = "request" => R!RequestsSound

Symmetric == Permutations({p1, p2})
=============================================================================
