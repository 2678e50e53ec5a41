--------------------------------- MODULE Access ---------------------------------
(***************************************************************************)
(* What a run gives its operator: KubeConfig, which reads the admin        *)
(* credentials off a controller and merges them into the kubeconfig on the *)
(* operator's machine, and LabelNodes, which marks each node with its      *)
(* profile. Runs of several clusters share one kubeconfig. The host lock   *)
(* keeps two runs of one cluster apart, not two runs of two clusters. An   *)
(* engine may rotate its certificates, a controller may stop, a node may   *)
(* be removed, and a command on a host may fail.                           *)
(***************************************************************************)
EXTENDS Integers, Sequences, Functions

CONSTANTS Runs,        \* each the run of a cluster of its own
          Worlds,      \* the clusters: for each run its inventory, its nodes with the labels that are
                       \* true, and what the admin kubeconfig of its controllers looks like
          Lower,       \* names to their lower-case form
          NoneThere,   \* an entry that is not there
          MaxRotations, MaxSessions, MaxStops

Names == DOMAIN Lower
HostRecord == [name : Names, controller : BOOLEAN, running : BOOLEAN, profile : STRING]
(* The profiles the nodes carry are those of hosts of their name, or an operator's own. *)
OwnProfiles(hs, ns) ==
    \A n \in DOMAIN ns : \A g \in ns[n] \ {"given"} : \E i \in DOMAIN hs : hs[i].profile = g /\ Lower[hs[i].name] = Lower[n]

(* Nothing is not a value; the clusters have been labelled by runs before. *)
ASSUME AccessAssumption ==
    /\ NoneThere \notin Int /\ NoneThere \notin [ca : Int, extra : {"none", "proxy"}] /\ NoneThere \notin [cert : Int, key : Int]
    /\ \A w \in Worlds : \A c \in Runs : w[c].hosts \in Seq(HostRecord) /\ OwnProfiles(w[c].hosts, w[c].nodes)

VARIABLES file,        \* the admin kubeconfig of each cluster's controllers
          gen,         \* how often its certificates were rotated
          hosts, nodes,\* the inventory and the nodes of each cluster
          kube,        \* the operator's kubeconfig
          session,     \* each run
          lost,        \* clusters whose entry a run read over another's write may have removed
          stops, starts
accessVars == <<file, gen, hosts, nodes, kube, session, lost, stops, starts>>

Pieces == <<"ca", "cert", "key">>
NoCreds == [p \in Range(Pieces) |-> NoneThere]
Fresh == [pc |-> "idle", job |-> "none", leader |-> 0, creds |-> NoCreds, since |-> 0, next |-> 1, read |-> NoneThere, built |-> NoneThere, listed |-> NoneThere, at |-> 1, result |-> "none"]
NoEntry == [cluster |-> NoneThere, user |-> NoneThere, context |-> FALSE]

(* A cluster the operator described, with a field cargoship does not own. *)
GivenEntry == [cluster |-> [ca |-> 0, extra |-> "proxy"], user |-> NoneThere, context |-> FALSE]

AccessInit ==
    /\ \E w \in Worlds :
        /\ file = [c \in Runs |-> w[c].file] /\ hosts = [c \in Runs |-> w[c].hosts] /\ nodes = [c \in Runs |-> w[c].nodes]
    /\ gen = [c \in Runs |-> 1]
    /\ \E c \in Runs : kube = [entries |-> [d \in Runs |-> IF d = c THEN GivenEntry ELSE NoEntry], current |-> NoneThere]
    /\ session = [c \in Runs |-> Fresh] /\ lost = {} /\ stops = 0 /\ starts = 0

Go(c, r) == session' = [session EXCEPT ![c] = r]
Fail(c, e) == Go(c, [session[c] EXCEPT !.pc = "idle", !.result = e])

-----------------------------------------------------------------------------
(* KubeConfig *)

(* Prepare, the same in both phases: the first controller whose service runs. A KubeConfig that *)
(* does not write only builds the value. *)
Running(c) == {i \in DOMAIN hosts[c] : hosts[c][i].controller /\ hosts[c][i].running}
FirstRunning(c) == CHOOSE i \in Running(c) : \A k \in Running(c) : i <= k
Prepare(c) ==
    /\ session[c].pc = "idle" /\ starts < MaxSessions
    /\ starts' = starts + 1
    /\ \/ Running(c) = {} /\ Fail(c, "ErrNoControllers")
       \/ Running(c) # {} /\ \E j \in {"write", "build", "label"} : Go(c, [Fresh EXCEPT !.pc = "admin", !.job = j, !.leader = FirstRunning(c)])
    /\ UNCHANGED <<file, gen, hosts, nodes, kube, lost, stops>>

(* adminCredentials: the kubeconfig's own context, cluster and user; what it embeds is of the moment *)
(* it is read. *)
ReadAdmin(c) ==
    /\ session[c].pc = "admin"
    /\ IF ~file[c].readable THEN Fail(c, "unreadable")
       ELSE IF ~file[c].named THEN Fail(c, "ErrNoAdminCredentials")
       ELSE Go(c, [session[c] EXCEPT !.pc = "pieces", !.since = gen[c], !.creds = [p \in Range(Pieces) |-> IF file[c].holds[p] = "data" THEN gen[c] ELSE NoneThere]])
    /\ UNCHANGED <<file, gen, hosts, nodes, kube, lost, stops, starts>>

(* resolvePEM, for each piece in its turn: a file the kubeconfig names is read off the host now. *)
ResolvePEM(c) ==
    /\ session[c].pc = "pieces" /\ session[c].next <= Len(Pieces)
    /\ LET p == Pieces[session[c].next] IN
       IF file[c].holds[p] = "missing" THEN Fail(c, "unreadable")
       ELSE Go(c, [session[c] EXCEPT !.next = @ + 1, !.creds[p] = IF file[c].holds[p] = "path" THEN gen[c] ELSE @])
    /\ UNCHANGED <<file, gen, hosts, nodes, kube, lost, stops, starts>>

(* modifyCluster, modifyAuthInfo and merge: the entries of the cluster are made or updated in place, *)
(* and its context becomes the current one. *)
Entry(old, creds) ==
    [cluster |-> [ca |-> creds.ca, extra |-> IF old.cluster = NoneThere THEN "none" ELSE old.cluster.extra],
     user |-> [cert |-> creds.cert, key |-> creds.key], context |-> TRUE]
(* A bug: the entries on disk are not read first. *)
MergeFresh(k, c, creds) == [entries |-> [d \in Runs |-> IF d = c THEN Entry(NoEntry, creds) ELSE NoEntry], current |-> c]
Merge(k, c, creds) == [entries |-> [k.entries EXCEPT ![c] = Entry(@, creds)], current |-> c]

NewConfig == [entries |-> [d \in Runs |-> NoEntry], current |-> NoneThere]

(* Run of both phases: no piece may be missing. KubeConfig builds the value from nothing, and goes *)
(* on only to write it. *)
Build(c) ==
    /\ session[c].pc = "pieces" /\ session[c].next > Len(Pieces)
    /\ LET r == session[c] IN
       IF \E p \in Range(Pieces) : r.creds[p] = NoneThere THEN Fail(c, "ErrNoAdminCredentials")
       ELSE \/ r.job = "label" /\ Go(c, [r EXCEPT !.pc = "list"])
            \/ r.job = "write" /\ Go(c, [r EXCEPT !.pc = "read", !.built = Merge(NewConfig, c, r.creds)])
            \/ r.job = "build" /\ Go(c, [r EXCEPT !.pc = "idle", !.built = Merge(NewConfig, c, r.creds), !.result = "ok"])
    /\ UNCHANGED <<file, gen, hosts, nodes, kube, lost, stops, starts>>

(* writeConfig, first half. *)
GetStartingConfig(c) ==
    /\ session[c].pc = "read"
    /\ Go(c, [session[c] EXCEPT !.pc = "modify", !.read = kube])
    /\ UNCHANGED <<file, gen, hosts, nodes, kube, lost, stops, starts>>

(* clientcmd.ModifyConfig makes the file what it is given, entries that are not in it removed. *)
ModifyConfig(c) ==
    /\ session[c].pc = "modify"
    /\ kube' = Merge(session[c].read, c, session[c].creds)
    /\ lost' = (lost \ {c}) \union {d \in Runs \ {c} : kube.entries[d] # session[c].read.entries[d]}
    /\ Go(c, [session[c] EXCEPT !.pc = "idle", !.result = "ok"])
    /\ UNCHANGED <<file, gen, hosts, nodes, stops, starts>>

-----------------------------------------------------------------------------
(* LabelNodes *)

HostOf(c) == hosts[c][session[c].at]
NodeOf(c) == {n \in DOMAIN session[c].listed : Lower[n] = Lower[HostOf(c).name]}

(* The nodes are listed once. *)
ListNodes(c) ==
    /\ session[c].pc = "list"
    /\ Go(c, [session[c] EXCEPT !.pc = "label", !.listed = nodes[c], !.at = 1])
    /\ UNCHANGED <<file, gen, hosts, nodes, kube, lost, stops, starts>>

(* The label of a host's profile, unless the listed node has it; a host with no profile, or with no *)
(* node, is passed over, and a patch of a node that is gone ends the run. *)
LabelNode(c) ==
    /\ session[c].pc = "label" /\ session[c].at <= Len(hosts[c])
    /\ LET h == HostOf(c)  r == [session[c] EXCEPT !.at = @ + 1]
           skip == h.profile = "" \/ NodeOf(c) = {} \/ \E n \in NodeOf(c) : h.profile \in session[c].listed[n]
       IN  IF skip THEN Go(c, r) /\ UNCHANGED nodes
           ELSE \E n \in NodeOf(c) :
                IF n \in DOMAIN nodes[c] THEN nodes' = [nodes EXCEPT ![c][n] = @ \union {h.profile}] /\ Go(c, r)
                ELSE Fail(c, "patch") /\ UNCHANGED nodes
    /\ UNCHANGED <<file, gen, hosts, kube, lost, stops, starts>>

EndRun(c) ==
    /\ session[c].pc = "label" /\ session[c].at > Len(hosts[c])
    /\ Go(c, [session[c] EXCEPT !.pc = "idle", !.result = "ok"])
    /\ UNCHANGED <<file, gen, hosts, nodes, kube, lost, stops, starts>>

-----------------------------------------------------------------------------
(* The clusters. *)
Rotate(c) ==
    /\ gen[c] <= MaxRotations
    /\ gen' = [gen EXCEPT ![c] = @ + 1]
    /\ UNCHANGED <<file, hosts, nodes, kube, session, lost, stops, starts>>
StopController(c) ==
    /\ stops < MaxStops /\ stops' = stops + 1
    /\ \E i \in DOMAIN hosts[c] : hosts[c][i].running /\ hosts' = [hosts EXCEPT ![c][i].running = FALSE]
    /\ UNCHANGED <<file, gen, nodes, kube, session, lost, starts>>
RemoveNode(c) ==
    /\ stops < MaxStops /\ stops' = stops + 1
    /\ \E n \in DOMAIN nodes[c] : nodes' = [nodes EXCEPT ![c] = [m \in DOMAIN nodes[c] \ {n} |-> nodes[c][m]]]
    /\ UNCHANGED <<file, gen, hosts, kube, session, lost, starts>>

AccessNext == \E c \in Runs :
    \/ Prepare(c) \/ ReadAdmin(c) \/ ResolvePEM(c) \/ Build(c) \/ GetStartingConfig(c) \/ ModifyConfig(c)
    \/ ListNodes(c) \/ LabelNode(c) \/ EndRun(c)
    \/ Rotate(c) \/ StopController(c) \/ RemoveNode(c)
AccessSpec == AccessInit /\ [][AccessNext]_accessVars

-----------------------------------------------------------------------------
(* The kubeconfig always opens what it says: its current context is one whose cluster and user are  *)
(* in the file, and no context is without them. Runs of several clusters keep one another's entries *)
(* and what an operator added to them, unless one wrote between the other's read and its write.     *)
(* What a run builds carries its own cluster alone, and a certificate and a key that belong         *)
(* together unless the engine rotated them while they were read. A node never carries the profile   *)
(* of a host of another name (80_kubeconfig.go, 81_label_nodes.go).                                 *)
AccessSound ==
    /\ kube.current # NoneThere => kube.entries[kube.current].context
    /\ \A c \in Runs :
        LET e == kube.entries[c]  r == session[c] IN
        /\ e.context <=> e.user # NoneThere
        /\ e.context => e.cluster # NoneThere /\ NoneThere \notin {e.cluster.ca, e.user.cert, e.user.key}
        /\ (r.result = "ok" /\ r.read # NoneThere /\ c \notin lost) =>
            e.context /\ e.user.cert = r.creds.cert /\ e.cluster.extra = (IF r.read.entries[c].cluster = NoneThere THEN "none" ELSE r.read.entries[c].cluster.extra)
        /\ r.built # NoneThere => \A d \in Runs : (r.built.entries[d] # NoEntry) <=> d = c
        /\ (r.result = "ok" /\ r.since = gen[c]) => r.creds.cert = r.creds.key
        /\ OwnProfiles(hosts[c], nodes[c])
=============================================================================
