----------------------------- MODULE ResetCluster -----------------------------
(***************************************************************************)
(* `reset`: removing some of a cluster's hosts, or all of them, over        *)
(* several runs of the command, for the rke2 and k3s distros.              *)
(*                                                                         *)
(* The phases are Reset Worker, Reset Controller, Uninstalling Engine and  *)
(* Repoint the controllers that were kept; those after them change nothing *)
(* that is modelled.  A run walks each phase's hosts; a walk's batches are *)
(* left out: workers are visited in any order, controllers one by one in   *)
(* reverse order, and after an error a walk may end early.                 *)
(***************************************************************************)
EXTENDS Naturals, FiniteSets

CONSTANTS
    NHosts,         \* a host is its position in Spec.Hosts
    Controllers,    \* the hosts that are controllers
    Hostname,       \* [Hosts -> the hostname in the configuration]
    TargetLists,    \* the values of --target-hosts, {} when it is not given
    MaxRuns,        \* bound on the number of runs
    MaxDeaths       \* bound on the engines that die by themselves

Hosts == 1..NHosts
Workers == Hosts \ Controllers
NoHostname == 0

ASSUME ResetClusterAssumption ==
    /\ NHosts \in Nat
    /\ Controllers \subseteq Hosts /\ Controllers # {}
    /\ Hostname \in [Hosts -> Nat]
    /\ \A h, k \in Hosts : Hostname[h] = Hostname[k] => h = k \/ Hostname[h] = NoHostname
    /\ TargetLists \subseteq SUBSET Hosts
    /\ MaxRuns \in Nat /\ MaxDeaths \in Nat

NoHost == 0

VARIABLES
    \* The cluster.
    up,         \* SUBSET Hosts: the engine's service runs
    installed,  \* SUBSET Hosts: the engine's files are there
    node,       \* SUBSET Hosts: the host's Node object exists
    cordoned,   \* SUBSET Hosts: and has been cordoned by a drain
    member,     \* SUBSET Controllers: etcd's members
    server,     \* [Controllers -> the controller `server:` names, NoHost for none]
    \* The process.
    conf,       \* SUBSET Hosts: Spec.Hosts
    targets,    \* SUBSET conf: --target-hosts, {} when it is not given
    status, walk,
    leader,     \* DeleteCommon.leader, NoHost for nil
    keep,       \* DeleteCommon.keepEngineForDelete
    hosts,      \* SUBSET Hosts: the phase's hosts
    todo,       \* SUBSET Hosts: those the walk has not visited
    bad,        \* has the walk an error?
    \* History.
    runs, deaths,
    whole,      \* etcd's members were the running controllers when the run started
    lost,       \* SUBSET Hosts: nodes the run failed to delete
    asked       \* SUBSET Hosts: hosts that some run was told to remove

clusterVars == <<up, installed, node, cordoned, member, server>>
historyVars == <<runs, deaths, whole, lost, asked>>
vars == <<clusterVars, conf, targets, status, walk, leader, keep, hosts, todo, bad, historyVars>>

Walks == {"prepareW", "drainW", "stopW", "deleteW", "prepareC", "drainC", "stopC", "deleteC",
          "uninstall", "repoint"}

TypeOK ==
    /\ up \subseteq Hosts /\ installed \subseteq Hosts
    /\ node \subseteq Hosts /\ cordoned \subseteq Hosts
    /\ member \subseteq Controllers
    /\ server \in [Controllers -> Controllers \union {NoHost}]
    /\ conf \subseteq Hosts /\ targets \subseteq conf
    /\ status \in {"idle", "run", "ok", "err", "cut"} /\ walk \in Walks
    /\ leader \in Controllers \union {NoHost} /\ keep \in BOOLEAN
    /\ hosts \subseteq conf /\ todo \subseteq conf /\ bad \in BOOLEAN
    /\ runs \in Nat /\ deaths \in Nat /\ whole \in BOOLEAN
    /\ lost \subseteq Hosts /\ asked \subseteq Hosts

FirstOf(S) == {h \in S : \A k \in S : h <= k}
LastOf(S) == {h \in S : \A k \in S : k <= h}

-----------------------------------------------------------------------------
(* etcd and the API server, outside the program.                           *)

HasQuorum(M, U) == 2 * Cardinality(M \intersect U) > Cardinality(M)
Quorum == HasQuorum(member, up)
LeaderAnswers == leader \in up \intersect member /\ Quorum

\* An engine that runs registers its node again.
Reregister(h) ==
    /\ h \in up \intersect installed /\ h \notin node /\ Quorum
    /\ node' = node \union {h}
    /\ UNCHANGED <<up, installed, cordoned, member, server, conf, targets, status, walk,
                   leader, keep, hosts, todo, bad, historyVars>>

EngineDies(h) ==
    /\ h \in up /\ deaths < MaxDeaths
    /\ up' = up \ {h} /\ deaths' = deaths + 1 /\ whole' = FALSE
    /\ UNCHANGED <<installed, node, cordoned, member, server, conf, targets, status, walk,
                   leader, keep, hosts, todo, bad, runs, lost, asked>>

-----------------------------------------------------------------------------
(* Reset Worker and Reset Controller.                                      *)

\* filterTargetHosts: every host when there are no targets.
Filtered == IF targets = {} THEN conf ELSE targets
WholeCluster == Filtered = conf

\* matchesTargetHost: no host when there are no targets.
control == {h \in conf \intersect Controllers : h \in up}
surviving == control \ targets
removing == control \intersect targets

\* ErrNoRunningController, ErrNoSurvivingController, ErrControllersNotOneAtATime.
Refused ==
    \/ control = {} /\ ~WholeCluster
    \/ control # {} /\ surviving = {} /\ ~WholeCluster
    \/ surviving # {} /\ Cardinality(removing) > 1

\* Mutant of KeepEngine: the engine is always stopped first.
KeepEngineNever == FALSE

KeepEngine == surviving # {} /\ removing # {} /\ Cardinality(surviving) < 2

ofRole(w) == IF w = "prepareW" THEN Workers ELSE Controllers

\* DeleteControllers leaves the leader out by its configured hostname.
NotLeader(w, l, h) == w = "prepareC" => Hostname[h] # Hostname[l]

After(w) ==
    [prepareW |-> "prepareC", drainW |-> "stopW", stopW |-> "deleteW", deleteW |-> "prepareC",
     prepareC |-> "uninstall", drainC |-> "stopC", stopC |-> "deleteC", deleteC |-> "uninstall",
     uninstall |-> "repoint"][w]

\* The controllers of the configuration, split by the targets.
survivors == (conf \intersect Controllers) \ targets
removed == conf \intersect Controllers \intersect targets

\* The hosts of a walk that is not one of a delete phase.
HostsOf(w) ==
    IF w = "uninstall" THEN Filtered
    ELSE IF w = "repoint" /\ removed # {} THEN survivors ELSE {}

\* The process ends and its memory goes; what a run that succeeded was told, kept
\* and lost stays for the properties.
End(s) ==
    /\ status' = s /\ walk' = "prepareW" /\ leader' = NoHost
    /\ hosts' = {} /\ todo' = {} /\ bad' = FALSE
    /\ IF s = "ok" THEN UNCHANGED <<targets, keep, whole, lost>>
       ELSE targets' = {} /\ keep' = FALSE /\ whole' = FALSE /\ lost' = {}

Enter(w) ==
    /\ walk' = w /\ bad' = FALSE
    /\ hosts' = HostsOf(w) /\ todo' = HostsOf(w)

\* Prepare and ShouldRun of the two phases, and --no-drain.  Nodes are matched to
\* hosts from a list the leader gives; when it cannot be read no host is picked.
Prepare ==
    /\ status = "run" /\ walk \in {"prepareW", "prepareC"}
    /\ \/ /\ Refused
          /\ End("err")
       \/ /\ ~Refused /\ control = {}
          /\ leader' = NoHost /\ keep' = FALSE
          /\ Enter(After(walk))
          /\ UNCHANGED <<targets, status, whole, lost>>
       \/ /\ ~Refused /\ control # {}
          /\ leader' \in FirstOf(IF surviving # {} THEN surviving ELSE control)
          /\ keep' = KeepEngine
          /\ LET candidates == {h \in Filtered \intersect ofRole(walk) \intersect node :
                                   NotLeader(walk, leader', h)}
             IN \/ /\ leader' \in member /\ Quorum
                   /\ hosts' = candidates /\ todo' = candidates /\ UNCHANGED lost
                \/ /\ hosts' = {} /\ todo' = {}
                   /\ lost' = lost \union candidates
          /\ walk' \in IF walk = "prepareW" THEN {"drainW", "stopW"} ELSE {"drainC", "stopC"}
          /\ bad' = FALSE
          /\ UNCHANGED <<targets, status, whole>>
    /\ UNCHANGED <<clusterVars, conf, runs, deaths, asked>>

-----------------------------------------------------------------------------
(* The walks.                                                              *)

Serial == {"drainC", "stopC", "deleteC"}
Drains == {"drainW", "drainC"}

processVars == <<conf, targets, status, walk, leader, keep, hosts>>

\* kubectl drain cordons first; what follows may fail.
Drain(h) ==
    /\ \/ LeaderAnswers /\ cordoned' = cordoned \union {h} /\ bad' \in {bad, TRUE}
       \/ UNCHANGED cordoned /\ bad' = TRUE
    /\ UNCHANGED <<up, installed, node, member, server, lost>>

\* Mutant of Stop: the engine is left running.
StopSkipped(h) == UNCHANGED <<clusterVars, bad, lost>>

\* stopAgentBeforeDelete, stopEngineBeforeDelete.
Stop(h) ==
    /\ \/ walk = "stopC" /\ keep /\ UNCHANGED <<up, bad>>
       \/ ~(walk = "stopC" /\ keep) /\ up' = up \ {h} /\ UNCHANGED bad
       \/ ~(walk = "stopC" /\ keep) /\ UNCHANGED up /\ bad' = TRUE
    /\ UNCHANGED <<installed, node, cordoned, member, server, lost>>

\* deleteNode warns of an error and returns none.  With a controller's node its
\* member goes.
Delete(h) ==
    /\ \/ /\ LeaderAnswers
          /\ node' = node \ {h} /\ cordoned' = cordoned \ {h} /\ member' = member \ {h}
          /\ UNCHANGED lost
       \/ lost' = lost \union {h} /\ UNCHANGED <<node, cordoned, member>>
    /\ UNCHANGED <<up, installed, server, bad>>

\* stopService and uninstallNode, which only warns.
Uninstall(h) ==
    /\ \/ up' = up \ {h} /\ installed' \in {installed, installed \ {h}} /\ UNCHANGED bad
       \/ bad' = TRUE /\ UNCHANGED <<up, installed>>
    /\ UNCHANGED <<node, cordoned, member, server, lost>>

\* Mutant of serverFor: the leader is the first controller, removed or not.
serverForAny(h) == FirstOf((conf \intersect Controllers) \union {h})

\* No `server:` on the first survivor, which the others name.
serverFor(h) == IF h \in FirstOf(survivors) THEN {NoHost} ELSE FirstOf(survivors)

\* The file of a host without an engine cannot be read.
Repoint(h) ==
    /\ \/ h \in installed /\ \E s \in serverFor(h) : server' = [server EXCEPT ![h] = s]
          /\ UNCHANGED bad
       \/ bad' = TRUE /\ UNCHANGED server
    /\ UNCHANGED <<up, installed, node, cordoned, member, lost>>

\* Controllers go one by one from the last, up to the first error.
Turn(h) ==
    /\ h \in todo
    /\ walk \in Serial => h \in LastOf(todo) /\ ~bad

Visit(h) ==
    /\ status = "run" /\ Turn(h)
    /\ todo' = todo \ {h}
    /\ \/ walk \in Drains /\ Drain(h)
       \/ walk \in {"stopW", "stopC"} /\ Stop(h)
       \/ walk \in {"deleteW", "deleteC"} /\ Delete(h)
       \/ walk = "uninstall" /\ Uninstall(h)
       \/ walk = "repoint" /\ Repoint(h)
    /\ UNCHANGED <<processVars, runs, deaths, whole, asked>>

\* Only a drain's error does not end the run.
Leave ==
    /\ status = "run" /\ walk \notin {"prepareW", "prepareC"}
    /\ \/ bad /\ walk \notin Drains /\ End("err")
       \/ ~bad /\ walk = "repoint" /\ End("ok")
       \/ /\ bad => walk \in Drains
          /\ walk \in Drains \union {"stopW", "stopC"}
          /\ walk' = After(walk) /\ todo' = hosts /\ bad' = FALSE
          /\ UNCHANGED <<status, leader, hosts, targets, keep, whole, lost>>
       \/ /\ ~bad /\ walk \in {"deleteW", "deleteC", "uninstall"}
          /\ Enter(After(walk))
          /\ UNCHANGED <<status, leader, targets, keep, whole, lost>>
    /\ UNCHANGED <<clusterVars, conf, runs, deaths, asked>>

\* Mutant of EndWalk: a walk that met an error waits for the hosts it left.
EndWalkWaits == todo = {} /\ Leave

\* A walk ends with its last host, or early after an error.
EndWalk == (todo = {} \/ bad) /\ Leave

-----------------------------------------------------------------------------
(* Runs of the command.                                                    *)

Init ==
    /\ up = Hosts /\ installed = Hosts /\ node = Hosts /\ cordoned = {}
    /\ member = Controllers
    /\ \E f \in FirstOf(Controllers) :
           server = [c \in Controllers |-> IF c = f THEN NoHost ELSE f]
    /\ conf = Hosts /\ targets = {}
    /\ status = "idle" /\ walk = "prepareW" /\ leader = NoHost /\ keep = FALSE
    /\ hosts = {} /\ todo = {} /\ bad = FALSE
    /\ runs = 0 /\ deaths = 0 /\ whole = FALSE /\ lost = {} /\ asked = {}

\* A target that no host of the configuration answers to is refused.
CheckTargetHosts(C, T) == T \subseteq C

\* Between two runs the operator may take the hosts that are gone out of the
\* configuration.
StartRun(C, T) ==
    /\ status # "run" /\ runs < MaxRuns
    /\ C \in {conf, conf \intersect (installed \union node)}
    /\ C # {} /\ CheckTargetHosts(C, T)
    /\ conf' = C /\ targets' = T
    /\ status' = "run" /\ walk' = "prepareW" /\ leader' = NoHost /\ keep' = FALSE
    /\ hosts' = {} /\ todo' = {} /\ bad' = FALSE
    /\ runs' = runs + 1
    /\ whole' = (member = up \intersect Controllers)
    /\ lost' = {}
    /\ asked' = asked \union (IF T = {} THEN C ELSE T)
    /\ UNCHANGED <<clusterVars, deaths>>

\* The process is killed.
Cut ==
    /\ status = "run" /\ End("cut")
    /\ UNCHANGED <<clusterVars, conf, runs, deaths, asked>>

Process == Prepare \/ EndWalk \/ \E h \in Hosts : Visit(h)

Next ==
    \/ Process
    \/ Cut
    \/ \E C \in SUBSET Hosts, T \in TargetLists : StartRun(C, T)
    \/ \E h \in Hosts : Reregister(h) \/ EngineDies(h)

Spec == Init /\ [][Next]_vars /\ WF_vars(Process)

-----------------------------------------------------------------------------
(* Properties.                                                             *)

Kept == ~WholeCluster

HostnamesTell == \A h, k \in Controllers : Hostname[h] = Hostname[k] => h = k

\* A reset that keeps the cluster and starts from one whose members all run never
\* takes etcd's quorum away, at any step of the run and after it: not by stopping a
\* controller, not by deleting one, not by uninstalling one (planControllerRemovals).
\* The exception is a controller whose node could not be deleted while its engine
\* was kept up for it: the warning is passed over and the engine is uninstalled.
QuorumKept ==
    whole /\ Kept /\ HostnamesTell /\ ~(keep /\ lost \intersect Controllers # {})
        => Quorum

\* After a reset of some hosts that reports success, those hosts run no engine, and
\* unless a deletion was lost they hold no etcd membership and no node.  The engine
\* that was kept up for its own deletion may have registered the node again.
GoneUnlessLost ==
    status = "ok" /\ Kept /\ HostnamesTell =>
        \A h \in targets :
            /\ h \notin up
            /\ h \in member => h \in lost
            /\ h \in node => h \in lost \/ (keep /\ h \in Controllers)

\* After a reset that removed a controller and reports success, the controllers that
\* stayed agree: the first of them has an engine and names no server, the others name
\* it (ReconfigureSurvivors).
SurvivorsRepointed ==
    status = "ok" /\ removed # {} =>
        \A h \in survivors :
            \/ server[h] = NoHost /\ h \in FirstOf(survivors) \intersect installed
            \/ server[h] \in (FirstOf(survivors) \intersect installed) \ {h}

\* A host that no run was told to remove keeps its engine, its node and its
\* membership, and is never cordoned, whatever the runs before were told and
\* wherever they stopped.
SurvivorsUntouched ==
    \A h \in Hosts \ asked :
        /\ h \in installed \intersect node /\ h \notin cordoned
        /\ h \in Controllers => h \in member
        /\ deaths = 0 => h \in up

\* A reset comes to an end, also after an error in a walk that visits its hosts one
\* by one.
ResetEnds == status = "run" ~> status # "run"

\* A reset removes what it was told to and nothing else, and what stays agrees on its server.
RemovalExact == GoneUnlessLost /\ SurvivorsUntouched /\ SurvivorsRepointed
=============================================================================
