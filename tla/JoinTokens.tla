------------------------------ MODULE JoinTokens ------------------------------
(***************************************************************************)
(* How hosts come into one cluster over several runs of `apply`: the first *)
(* controller of the host list is the leader, its token files (or fresh    *)
(* tokens) are handed to the others, and each new host founds a cluster or *)
(* joins the leader's.  Engines of Rancher (rke2, k3s) read tokens that    *)
(* cargoship wrote; upstream's kubeadm mints one that cargoship keeps.     *)
(*                                                                         *)
(* The host list may be reordered, extended and shortened between runs;    *)
(* writes and commands fail, a failed write may leave an empty file, a run *)
(* may be cut, and upstream's bootstrap token expires.                     *)
(***************************************************************************)
EXTENDS Integers, Sequences, Functions

CONSTANTS
    Hosts,
    Controllers, \* the hosts that are controllers
    Lists,      \* host lists a run may be given, controllers first
    Kinds,      \* the engines: a subset of {"rancher", "upstream"}
    MaxRuns,    \* bound on the runs
    MaxDeletes, \* bound on the hosts deleted
    MaxFaults   \* bound on failed commands and cut runs

Absent == 0
Torn == -1
NoHost == "none"

ASSUME JoinTokensAssumption ==
    /\ Controllers \subseteq Hosts /\ NoHost \notin Hosts
    /\ Lists \subseteq Seq(Hosts) /\ \A l \in Lists : l # << >> /\ l[1] \in Controllers
    /\ Kinds \subseteq {"rancher", "upstream"}
    /\ MaxRuns \in Nat /\ MaxDeletes \in Nat /\ MaxFaults \in Nat

VARIABLES
    kind,       \* the engine of this cluster
    tokens,     \* [Hosts -> [control, agent]]: the token files; upstream's are token and hash
    server,     \* [Hosts -> the `server:` of its config.yaml, NoHost when it has none]
    installed,  \* the hosts with the engine's packages
    member,     \* [Hosts -> the cluster its data belongs to, 0 for none]
    running,    \* the hosts whose engine is up
    clusters,   \* the tokens each cluster accepts, in the order they were founded
    expired,    \* the clusters whose bootstrap token is no longer accepted
    run,        \* the run under way
    fresh,      \* the last random token
    runs, deletes, faults,
    spoilt,     \* what happened so far that keeps hosts from joining
    refused     \* hosts whose join was refused for want of the right token

vars == <<kind, tokens, server, installed, member, running, clusters, expired, run, fresh,
          runs, deletes, faults, spoilt, refused>>

hostVars == <<installed, member, running, clusters, expired>>

Leader(l) == l[1]
(* The first host of a list that is in S: one, or none. *)
First(l, S) == {l[i] : i \in {j \in DOMAIN l : l[j] \in S /\ \A k \in 1..(j - 1) : l[k] \notin S}}

NoTokens == [control |-> Absent, agent |-> Absent]
NoRun == [phase |-> "idle", result |-> "none", list |-> << >>, handed |-> NoTokens,
          todo |-> {}, stranded |-> {}, checked |-> {}]

Phases == {"idle", "configure", "install", "start"}
Reasons == {"leader", "tokenless", "torn", "unread", "unrecorded", "expired", "deleted"}

TypeOK ==
    /\ kind \in Kinds
    /\ tokens \in [Hosts -> [control : Int, agent : Int]]
    /\ server \in [Hosts -> Hosts \union {NoHost}]
    /\ installed \subseteq Hosts /\ running \subseteq installed
    /\ member \in [Hosts -> 0..Len(clusters)]
    /\ expired \subseteq 1..Len(clusters)
    /\ run.phase \in Phases /\ run.result \in {"none", "ok", "failed"}
    /\ run.todo \subseteq Range(run.list) /\ run.stranded \subseteq Hosts /\ run.checked \subseteq Hosts
    /\ fresh \in Nat /\ runs \in 0..MaxRuns /\ deletes \in 0..MaxDeletes /\ faults \in 0..MaxFaults
    /\ spoilt \subseteq Reasons /\ refused \subseteq Hosts

Init ==
    /\ kind \in Kinds
    /\ tokens = [h \in Hosts |-> NoTokens] /\ server = [h \in Hosts |-> NoHost]
    /\ installed = {} /\ running = {} /\ member = [h \in Hosts |-> 0]
    /\ clusters = << >> /\ expired = {} /\ run = NoRun /\ fresh = 0
    /\ runs = 0 /\ deletes = 0 /\ faults = 0 /\ spoilt = {} /\ refused = {}

(* A step of the run ends well, or with an error that ends the run. *)
Fault == faults < MaxFaults /\ faults' = faults + 1
Ended(r) == [NoRun EXCEPT !.result = r, !.list = run.list, !.stranded = run.stranded,
                             !.checked = run.checked]

-----------------------------------------------------------------------------
(* DetectRemovedHosts: the first running controller of the list is asked for the nodes of its  *)
(* cluster; a node that is no host of the list stops the run, unless the operator allows it or *)
(* the nodes cannot be listed.  With no controller of the list running nothing is asked. *)
Asked(l) == First(l, Controllers \intersect running)

\* Mutant of unmanagedNodes: only controllers are looked for.
unmanagedControllers(l) == {h \in Controllers \ Range(l) : \E c \in Asked(l) : member[h] = member[c]}

unmanagedNodes(l) == {h \in Hosts \ Range(l) : \E c \in Asked(l) : member[h] = member[c]}

RefuseRun ==
    /\ run.phase = "idle" /\ runs < MaxRuns
    /\ \E l \in Lists :
        /\ unmanagedNodes(l) # {}
        /\ run' = [NoRun EXCEPT !.result = "failed", !.list = l]
    /\ runs' = runs + 1
    /\ UNCHANGED <<kind, tokens, server, hostVars, fresh, deletes, faults, spoilt, refused>>

-----------------------------------------------------------------------------
(* ConfigureEngine.Prepare: the leader's token, read or made. An empty file counts as none. *)
Token(file, read, new) == IF read /\ file > 0 THEN file ELSE new

(* A host list that puts a new host first while a cluster exists, or a host without the tokens *)
(* that others hold. *)
MovesLeader(l) ==
    /\ member[Leader(l)] = 0
    /\ \E h \in Hosts : member[h] # 0

LacksTokens(l) ==
    LET mine == tokens[Leader(l)]
    IN \E h \in Hosts :
        \/ mine.control = Absent /\ tokens[h].control # Absent
        \/ mine.agent = Absent /\ tokens[h].agent # Absent

StartRun ==
    /\ run.phase = "idle" /\ runs < MaxRuns
    /\ \E l \in Lists, read \in BOOLEAN :
        /\ IF read THEN UNCHANGED faults
           ELSE Fault /\ kind = "rancher" /\ tokens[Leader(l)] # NoTokens
        /\ run' = [NoRun EXCEPT !.phase = "configure", !.list = l, !.todo = Range(l),
                     !.checked = IF unmanagedNodes(l) = {} THEN Asked(l) ELSE {},
                     !.handed = [control |-> Token(tokens[Leader(l)].control, read, fresh + 1),
                                 agent |-> Token(tokens[Leader(l)].agent, read, fresh + 2)]]
        /\ spoilt' = spoilt \union (IF MovesLeader(l) THEN {"leader"} ELSE {})
                            \union (IF LacksTokens(l) THEN {"tokenless"} ELSE {})
                            \union (IF read THEN {} ELSE {"unread"})
    /\ fresh' = fresh + 2
    /\ runs' = runs + 1
    /\ UNCHANGED <<kind, tokens, server, hostVars, deletes, refused>>

-----------------------------------------------------------------------------
\* Mutant of Server: another controller is given no `server:` either.
ServerWorkersOnly(h) == IF h \in Controllers THEN NoHost ELSE Leader(run.list)

(* RancherCommon.ConfigureEngine on one host: the token files it lacks, then config.yaml. *)
Handed(h) ==
    [control |-> IF h \in Controllers /\ tokens[h].control = Absent
                 THEN run.handed.control ELSE tokens[h].control,
     agent |-> IF tokens[h].agent = Absent THEN run.handed.agent ELSE tokens[h].agent]

(* `server:` is left out on the leader only; a worker's names the load balancer. *)
Server(h) == IF h = Leader(run.list) THEN NoHost ELSE Leader(run.list)

(* A token file the host lacks is not written, or empty, nor is what is written after it. *)
Failed(h, left) ==
    {t \in {[tokens[h] EXCEPT !.control = left]} : Handed(h).control # tokens[h].control}
        \union {t \in {[Handed(h) EXCEPT !.agent = left]} : Handed(h).agent # tokens[h].agent}

Configured(h) ==
    IF kind = "rancher"
    THEN /\ tokens' = [tokens EXCEPT ![h] = Handed(h)]
         /\ server' = [server EXCEPT ![h] = Server(h)]
    ELSE UNCHANGED <<tokens, server>>

(* The hosts are configured in parallel: a failure on one, of a token file or of config.yaml,   *)
(* does not keep the others from it. *)
ConfigureEngine(h) ==
    /\ run.phase = "configure" /\ h \in run.todo
    /\ run' = [run EXCEPT !.todo = @ \ {h}]
    /\ Configured(h)
    /\ UNCHANGED <<kind, hostVars, fresh, runs, deletes, faults, spoilt, refused>>

ConfigureFails(h) ==
    /\ run.phase = "configure" /\ h \in run.todo /\ Fault
    /\ run' = [run EXCEPT !.todo = @ \ {h}, !.result = "failed"]
    /\ IF kind = "rancher"
       THEN \/ tokens' = [tokens EXCEPT ![h] = Handed(h)] /\ UNCHANGED spoilt
            \/ \E left \in {Absent, Torn} : \E t \in Failed(h, left) :
                  /\ tokens' = [tokens EXCEPT ![h] = t]
                  /\ spoilt' = spoilt \union IF left = Torn THEN {"torn"} ELSE {}
       ELSE UNCHANGED <<tokens, spoilt>>
    /\ UNCHANGED <<kind, server, hostVars, fresh, runs, deletes, refused>>

-----------------------------------------------------------------------------
(* InitializeControllers and InitializeWorkers: the hosts still to be brought up.  The version *)
(* was gathered before anything was installed: a controller with the packages and no running   *)
(* engine is passed over. *)
IsBootstrapped(h) == member[h] # 0
controllersNeedingInit(l) ==
    {h \in Range(l) \intersect Controllers :
        IF kind = "upstream" THEN ~IsBootstrapped(h) ELSE h \notin running /\ h \notin installed}

\* Mutant of workersNeedingInit: a worker with the packages is passed over like a controller.
workersNotInstalled(l) == {h \in Range(l) \ Controllers : h \notin installed}

workersNeedingInit(l) ==
    {h \in Range(l) \ Controllers : IF kind = "upstream" THEN ~IsBootstrapped(h) ELSE h \notin running}

Stranded(l) ==
    {h \in Range(l) \ running : h \in Controllers /\ h \in installed /\ kind = "rancher"}

ConfigureDone ==
    /\ run.phase = "configure" /\ run.todo = {}
    /\ run' = IF run.result = "failed" THEN Ended("failed")
              ELSE [run EXCEPT !.phase = "install", !.todo = controllersNeedingInit(run.list),
                               !.stranded = Stranded(run.list)]
    /\ UNCHANGED <<kind, tokens, server, hostVars, fresh, runs, deletes, faults, spoilt, refused>>

(* The packages are installed on every host of the phase at once, then each is started. *)
install ==
    /\ run.phase = "install" /\ run.todo # {}
    /\ \E done \in SUBSET run.todo :
        /\ installed' = installed \union done
        /\ IF done = run.todo
           THEN run' = [run EXCEPT !.phase = "start"] /\ UNCHANGED faults
           ELSE run' = Ended("failed") /\ Fault
    /\ UNCHANGED <<kind, tokens, server, member, running, clusters, expired, fresh, runs, deletes,
                   spoilt, refused>>

(* The controllers are up: the workers follow. *)
phaseDone ==
    /\ run.phase \in {"install", "start"} /\ run.todo = {}
    /\ LET workers == workersNeedingInit(run.list)
       IN run' = IF workers = {} THEN Ended("ok")
                 ELSE [run EXCEPT !.phase = "install", !.todo = workers]
    /\ UNCHANGED <<kind, tokens, server, hostVars, fresh, runs, deletes, faults, spoilt, refused>>

-----------------------------------------------------------------------------
(* The engine starts (external): data it has is resumed; without `server:` a controller founds *)
(* a cluster with its own tokens; otherwise it joins the cluster of the server it is given,    *)
(* if that accepts its token.  A worker asks the load balancer, which answers for any          *)
(* controller. *)
Contacts(h) == IF h \in Controllers THEN {server[h]} \intersect running
               ELSE Controllers \intersect running

Admits(c, h) ==
    IF h \in Controllers THEN tokens[h].control > 0 /\ clusters[c].control = tokens[h].control
    ELSE tokens[h].agent > 0 /\ clusters[c].agent = tokens[h].agent

Up(h, c) ==
    /\ member' = [member EXCEPT ![h] = c] /\ running' = running \union {h}

NextHost(h) == run' = [run EXCEPT !.todo = @ \ {h}]

startService(h) ==
    /\ \/ /\ member[h] # 0 /\ Up(h, member[h]) /\ UNCHANGED <<clusters, refused>> /\ NextHost(h)
       \/ /\ member[h] = 0 /\ h \in Controllers /\ server[h] = NoHost
          /\ clusters' = Append(clusters, tokens[h])
          /\ Up(h, Len(clusters) + 1) /\ UNCHANGED refused /\ NextHost(h)
       \/ /\ member[h] = 0 /\ (h \notin Controllers \/ server[h] # NoHost)
          /\ \E s \in Contacts(h) :
              IF Admits(member[s], h)
              THEN Up(h, member[s]) /\ UNCHANGED refused /\ NextHost(h)
              ELSE UNCHANGED <<member, running>> /\ refused' = refused \union {h}
                   /\ run' = Ended("failed")
          /\ UNCHANGED clusters
       \/ /\ member[h] = 0 /\ (h \notin Controllers \/ server[h] # NoHost) /\ Contacts(h) = {}
          /\ run' = Ended("failed") /\ UNCHANGED <<member, running, clusters, refused>>
    /\ UNCHANGED <<tokens, spoilt>>

-----------------------------------------------------------------------------
(* Upstream.Bootstrap.  The leader's `kubeadm init` mints a token, which is then written next  *)
(* to the hash of its CA: a failure between leaves a cluster nobody can join. *)
Minted == Len(clusters) + 1

bootstrapLeader(h) ==
    /\ clusters' = Append(clusters, [control |-> Minted, agent |-> Minted])
    /\ Up(h, Minted)
    /\ \/ /\ tokens' = [tokens EXCEPT ![h] = [control |-> Minted, agent |-> Minted]]
          /\ NextHost(h) /\ UNCHANGED <<faults, spoilt>>
       \/ /\ Fault /\ run' = Ended("failed") /\ spoilt' = spoilt \union {"unrecorded"}
          /\ \E left \in {Absent, Torn} :
              \/ tokens' = [tokens EXCEPT ![h] = [control |-> left, agent |-> Absent]]
              \/ tokens' = [tokens EXCEPT ![h] = [control |-> Minted, agent |-> left]]
    /\ UNCHANGED refused

(* A join reads the token and the hash off the leader, and reaches the load balancer; an extra *)
(* controller also has the leader upload its certificates again. *)
readJoinTokenAndHash(l) ==
    /\ tokens[l].control # Absent /\ tokens[l].agent # Absent

Accepts(s, l) ==
    /\ readJoinTokenAndHash(l) /\ tokens[l].control = clusters[member[s]].control
    /\ tokens[l].agent = clusters[member[s]].agent /\ member[s] \notin expired

bootstrapJoin(h, l) ==
    /\ \/ /\ \E s \in Controllers \intersect running :
              IF Accepts(s, l) /\ (h \in Controllers => l \in running /\ member[l] = member[s])
              THEN Up(h, member[s]) /\ UNCHANGED refused /\ NextHost(h)
              ELSE UNCHANGED <<member, running>> /\ run' = Ended("failed")
                   /\ refused' = IF ~Accepts(s, l) THEN refused \union {h} ELSE refused
       \/ /\ Controllers \intersect running = {}
          /\ run' = Ended("failed") /\ UNCHANGED <<member, running, refused>>
    /\ UNCHANGED <<tokens, clusters, faults, spoilt>>

Bootstrap(h) ==
    LET l == Leader(run.list)
    IN IF h = l THEN bootstrapLeader(h) ELSE bootstrapJoin(h, l)

(* A controller is started on its own, in the order of the list; so is a worker here: the      *)
(* workers of a batch do not see each other. *)
Start ==
    /\ run.phase = "start"
    /\ \E h \in First(run.list, run.todo) :
        IF kind = "rancher" THEN startService(h) /\ UNCHANGED faults ELSE Bootstrap(h)
    /\ UNCHANGED <<kind, server, installed, expired, fresh, runs, deletes>>

StartFails ==
    /\ run.phase = "start" /\ run.todo # {} /\ Fault
    /\ run' = Ended("failed")
    /\ UNCHANGED <<kind, tokens, server, hostVars, fresh, runs, deletes, spoilt, refused>>

Cut ==
    /\ run.phase # "idle" /\ Fault
    /\ run' = Ended("failed")
    /\ UNCHANGED <<kind, tokens, server, hostVars, fresh, runs, deletes, spoilt, refused>>

-----------------------------------------------------------------------------

(* `delete`: the host leaves the cluster and its files go with it, the only copy of upstream's  *)
(* token too when it is the host that ran `kubeadm init`. *)
Delete(h) ==
    /\ run.phase = "idle" /\ deletes < MaxDeletes /\ h \in installed
    /\ tokens' = [tokens EXCEPT ![h] = NoTokens]
    /\ server' = [server EXCEPT ![h] = NoHost]
    /\ installed' = installed \ {h} /\ running' = running \ {h}
    /\ member' = [member EXCEPT ![h] = 0]
    /\ refused' = refused \ {h}
    /\ deletes' = deletes + 1 /\ run' = NoRun
    /\ spoilt' = spoilt \union IF kind = "upstream" /\ tokens[h] # NoTokens THEN {"deleted"} ELSE {}
    /\ UNCHANGED <<kind, clusters, expired, fresh, runs, faults>>

(* kubeadm's own token lives for a day; nothing asks for a new one. *)
Expire ==
    /\ kind = "upstream" /\ run.phase = "idle" /\ clusters # << >> /\ Len(clusters) \notin expired
    /\ expired' = expired \union {Len(clusters)}
    /\ spoilt' = spoilt \union {"expired"}
    /\ UNCHANGED <<kind, tokens, server, installed, member, running, clusters, run, fresh, runs,
                   deletes, faults, refused>>

Next ==
    \/ StartRun \/ RefuseRun \/ ConfigureDone \/ install \/ phaseDone \/ Start \/ StartFails \/ Cut \/ Expire
    \/ \E h \in Hosts : ConfigureEngine(h) \/ ConfigureFails(h) \/ Delete(h)

Spec == Init /\ [][Next]_vars

-----------------------------------------------------------------------------
(* No host is turned away for its token unless one of the spoiling events happened before: a   *)
(* leader without the tokens the others hold, a torn or unreadable token file, an expired      *)
(* token, a `kubeadm init` whose token was not recorded, or the delete of the host it ran on. *)
JoinsAccepted == spoilt = {} => refused = {}

(* A run that reports success leaves every host of its list in the leader's cluster; the       *)
(* exception is a controller that an earlier run installed and did not start. *)
RunJoinsEveryone ==
    run.result = "ok" /\ run.phase = "idle" =>
        \A h \in Range(run.list) \ run.stranded :
            member[h] # 0 /\ (spoilt \intersect {"leader"} = {} => 
                              \A g \in Range(run.list) : member[g] \in {0, member[h]})

(* A run that reports success over a cluster it asked leaves nobody out: every host with a     *)
(* node in the cluster of the controller it asked at the start is in its list at the end,      *)
(* unless the check was waived (DetectRemovedHosts). *)
NobodyLeftBehind ==
    run.result = "ok" /\ run.phase = "idle" =>
        \A c \in run.checked, h \in Hosts : member[h] = member[c] => h \in Range(run.list)

(* Whoever holds a token of the cluster can hand it on: the token file of a controller in the  *)
(* cluster is the cluster's, so that a later run may be led by any of them. *)
MembersHoldTokens ==
    kind = "rancher" =>
        \A h \in Controllers : member[h] # 0 /\ tokens[h].control > 0 =>
            tokens[h].control = clusters[member[h]].control

(* Hosts are never split over two clusters while no run is led by a new controller put in      *)
(* front of an existing cluster (the first controller of the list becomes the leader and is    *)
(* given no `server:`), whatever else fails; and the token files are good for what later runs  *)
(* use them for: a member's is its cluster's, and a host is turned away only after one of the  *)
(* spoiling events. *)
OneCluster ==
    /\ TypeOK /\ MembersHoldTokens /\ JoinsAccepted
    /\ "leader" \notin spoilt => \A g, h \in Hosts : member[g] # 0 /\ member[h] # 0 => member[g] = member[h]
=============================================================================
