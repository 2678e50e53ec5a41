-------------------------- MODULE ResetClusterProofs --------------------------
(* Type correctness of ResetCluster, that a reset which keeps the cluster   *)
(* keeps etcd's quorum, and that it removes its targets and nothing else,   *)
(* for every cluster, every list of targets and every pattern of failures,  *)
(* cuts and runs.                                                           *)
EXTENDS ResetCluster, FiniteSetTheorems, TLAPS

\* The controllers that run; those of them that stay; the ones that are leaving.
Running == up \intersect Controllers
Staying == Running \ targets
Leaving == (member \union Running) \intersect targets
LostController == lost \intersect Controllers # {}

\* A member has a node, and the last member is the leader.
Members == member \subseteq node /\ member # {}

\* The hosts of a walk are of its role and among the targets, and the leader is not
\* one of them.
Walked ==
    /\ todo \subseteq hosts
    /\ walk \in {"drainW", "stopW", "deleteW"} => hosts \subseteq Workers
    /\ walk \in Serial => hosts \subseteq Controllers /\ leader \notin hosts
    /\ walk # "repoint" => hosts \subseteq Filtered
    /\ status = "run" \/ hosts = {}

\* What is known before the first refusal has been passed.
BeforePlan == status = "run" /\ walk = "prepareW" => member = Running

\* What the refusals leave: one controller at most is leaving, and its engine is
\* stopped before its node is deleted only if two controllers stay.
Planned ==
    /\ member \ targets = Staying /\ Staying # {}
    /\ \A x, y \in Leaving : x = y
    /\ ~keep => Leaving = {} \/ \E a, b \in Staying : a # b

\* How far the controller that leaves has got, walk by walk.
UpToStop ==
    /\ walk \in {"drainW", "stopW", "deleteW", "prepareC", "drainC"} => member = Running
    /\ walk = "stopC" /\ keep => member = Running
    /\ walk \in {"drainC", "stopC"} /\ keep => member \intersect targets \subseteq hosts \/ LostController
UpToDelete ==
    /\ walk = "deleteC" /\ keep =>
           member \subseteq up /\ (member \intersect targets \subseteq todo \/ LostController)
    /\ walk \in {"uninstall", "repoint"} /\ keep => member \intersect targets = {} \/ LostController
AtEnd == keep => member \intersect targets = {} \/ LostController

QuorumInv ==
    /\ status \notin {"run", "ok"} => ~whole
    /\ whole /\ Kept /\ HostnamesTell =>
          /\ BeforePlan
          /\ status = "run" /\ walk # "prepareW" => Planned /\ UpToStop /\ UpToDelete
          /\ status = "ok" => Planned /\ AtEnd

ResetInv == TypeOK /\ Members /\ Walked /\ QuorumInv

-----------------------------------------------------------------------------
(* Majorities.                                                             *)

\* A set of hosts is finite.
LEMMA FiniteHosts ==
  ASSUME NEW S, S \subseteq Hosts
  PROVE  IsFiniteSet(S) /\ Cardinality(S) \in Nat
<1>1. IsFiniteSet(Hosts)
  BY FS_Interval, ResetClusterAssumption DEF Hosts
<1>2. IsFiniteSet(S)
  BY <1>1, FS_Subset
<1> QED
  BY <1>2, FS_CardinalityType

\* Two different elements.
LEMMA TwoElements ==
  ASSUME NEW S, IsFiniteSet(S), NEW a \in S, NEW b \in S, a # b
  PROVE  Cardinality(S) >= 2
<1>1. IsFiniteSet({a}) /\ Cardinality({a}) = 1
  BY FS_Singleton
<1>2. IsFiniteSet({a, b}) /\ Cardinality({a, b}) = 2
  <2>1. {a, b} = {a} \union {b} /\ b \notin {a}
    OBVIOUS
  <2> QED
    BY <1>1, <2>1, FS_AddElement
<1>3. {a, b} \subseteq S
  OBVIOUS
<1> QED
  BY <1>2, <1>3, FS_Subset, FS_CardinalityType

\* Members that all run are a majority.
LEMMA AllUp ==
  ASSUME NEW M, NEW U, M \subseteq Hosts, M \subseteq U, M # {}
  PROVE  HasQuorum(M, U)
<1>1. M \intersect U = M
  OBVIOUS
<1>2. IsFiniteSet(M) /\ Cardinality(M) \in Nat
  BY FiniteHosts
<1>3. Cardinality(M) # 0
  BY <1>2, FS_EmptySet
<1> QED
  BY <1>1, <1>2, <1>3 DEF HasQuorum

\* Members of which all but one run, and at least two run, are a majority.
LEMMA AllButOneUp ==
  ASSUME NEW M, NEW U, M \subseteq Hosts,
         NEW S, S \subseteq M \intersect U,
         NEW a \in S, NEW b \in S, a # b,
         \A x, y \in M \ S : x = y
  PROVE  HasQuorum(M, U)
<1>1. IsFiniteSet(M) /\ IsFiniteSet(S) /\ IsFiniteSet(M \intersect U)
  BY FiniteHosts
<1>2. Cardinality(M) \in Nat /\ Cardinality(S) \in Nat /\ Cardinality(M \intersect U) \in Nat
  BY <1>1, FS_CardinalityType
<1>3. Cardinality(S) <= Cardinality(M \intersect U)
  BY <1>1, FS_Subset
<1>4. Cardinality(S) >= 2
  BY <1>1, TwoElements
<1>5. Cardinality(M) <= Cardinality(S) + 1
  <2>1. CASE M \ S = {}
    <3>1. M = S
      BY <2>1
    <3> QED
      BY <3>1, <1>2
  <2>2. CASE M \ S # {}
    <3>1. PICK x \in M \ S : TRUE
      BY <2>2
    <3>2. M = S \union {x} /\ x \notin S
      BY <3>1
    <3> QED
      BY <1>1, <1>2, <3>2, FS_AddElement
  <2> QED
    BY <2>1, <2>2
<1> QED
  BY <1>2, <1>3, <1>4, <1>5 DEF HasQuorum

\* The invariant gives the majority.
LEMMA InvGivesQuorum == ResetInv => QuorumKept
<1> SUFFICES ASSUME ResetInv, whole, Kept, HostnamesTell, ~(keep /\ lost \intersect Controllers # {})
             PROVE  HasQuorum(member, up)
  BY DEF QuorumKept, Quorum
<1>1. /\ member \subseteq Hosts /\ member \subseteq Controllers /\ member # {}
      /\ walk \in Walks /\ keep \in BOOLEAN
  BY ResetClusterAssumption DEF ResetInv, TypeOK, Members
<1>2. CASE member \subseteq up
  BY <1>1, <1>2, AllUp
<1>3. CASE ~(member \subseteq up)
  <2>1. Planned /\ ~keep
    <3>1. status \in {"run", "ok"}
      BY DEF ResetInv, QuorumInv
    <3>2. ~(status = "run" /\ walk = "prepareW")
      BY <1>3 DEF ResetInv, QuorumInv, BeforePlan, Running
    <3>3. Planned /\ (status = "run" => UpToStop /\ UpToDelete) /\ (status = "ok" => AtEnd)
      BY <3>1, <3>2 DEF ResetInv, QuorumInv
    <3>4. ~(member \intersect targets = {})
      BY <1>3, <3>3 DEF Planned, Staying, Running
    <3>5. ~(member = Running)
      BY <1>3 DEF Running
    <3>6. ASSUME keep PROVE FALSE
      BY <1>1, <1>3, <3>1, <3>2, <3>3, <3>4, <3>5, <3>6
         DEF UpToStop, UpToDelete, AtEnd, LostController, Walks
    <3> QED
      BY <3>3, <3>6
  <2>2. PICK a, b \in Staying : a # b
    BY <1>3, <2>1 DEF Planned, Leaving, Staying, Running
  <2>3. Staying \subseteq member \intersect up
    BY <2>1 DEF Planned, Staying, Running
  <2>4. \A x, y \in member \ Staying : x = y
    BY <2>1 DEF Planned, Staying, Running, Leaving
  <2> QED
    BY <1>1, <2>2, <2>3, <2>4, AllButOneUp
<1> QED
  BY <1>2, <1>3

-----------------------------------------------------------------------------
(* The actions of the cluster and of the operator.                         *)

\* The cluster as apply left it satisfies the invariant.
LEMMA InitInv == Init => ResetInv
<1> SUFFICES ASSUME Init PROVE ResetInv
  OBVIOUS
<1>1. TypeOK
  BY ResetClusterAssumption DEF Init, TypeOK, FirstOf, Hosts, NoHost, Walks
<1>2. Members
  BY ResetClusterAssumption DEF Init, Members
<1>3. Walked
  BY DEF Init, Walked, Serial
<1>4. QuorumInv
  BY DEF Init, QuorumInv
<1> QED
  BY <1>1, <1>2, <1>3, <1>4 DEF ResetInv

\* An engine that registers its node again gives a node and takes no membership.
LEMMA ReregisterInv ==
  ASSUME ResetInv, NEW h \in Hosts, Reregister(h)
  PROVE  ResetInv'
<1>1. TypeOK'
  BY DEF ResetInv, Reregister, TypeOK, historyVars
<1>2. Members' /\ Walked'
  BY DEF ResetInv, Reregister, historyVars, Members, Walked, Filtered
<1>3. QuorumInv'
  BY DEF ResetInv, Reregister, historyVars, QuorumInv, Kept, WholeCluster, Filtered, HostnamesTell,
         BeforePlan, Planned, UpToStop, UpToDelete, AtEnd, Running, Staying, Leaving, LostController
<1> QED
  BY <1>1, <1>2, <1>3 DEF ResetInv

\* An engine that dies by itself ends what a run was promised.
LEMMA EngineDiesInv ==
  ASSUME ResetInv, NEW h \in Hosts, EngineDies(h)
  PROVE  ResetInv'
<1>0. deaths' \in Nat
  BY DEF ResetInv, EngineDies, TypeOK
<1>1. TypeOK'
  <2>1. /\ up' \subseteq up /\ whole' = FALSE
        /\ UNCHANGED <<installed, node, cordoned, member, server, conf, targets, status, walk,
                       leader, keep, hosts, todo, bad, runs, lost, asked>>
    BY DEF EngineDies
  <2> QED
    BY <1>0, <2>1 DEF ResetInv, TypeOK
<1>2. Members' /\ Walked'
  BY DEF ResetInv, EngineDies, Members, Walked, Filtered
<1>3. QuorumInv'
  BY DEF ResetInv, EngineDies, QuorumInv
<1> QED
  BY <1>1, <1>2, <1>3 DEF ResetInv

\* A run starts with its promise only if every member runs.
LEMMA StartRunInv ==
  ASSUME ResetInv, NEW C \in SUBSET Hosts, NEW T \in TargetLists, StartRun(C, T)
  PROVE  ResetInv'
<1>0. whole' \in BOOLEAN /\ runs' \in Nat
  <2>1. whole' \in BOOLEAN
    BY DEF StartRun
  <2>2. runs' \in Nat
    BY DEF ResetInv, StartRun, TypeOK
  <2> QED
    BY <2>1, <2>2
<1>1. TypeOK'
  <2>1. /\ conf' \subseteq Hosts /\ targets' \subseteq conf' /\ asked' \subseteq Hosts
        /\ status' = "run" /\ walk' = "prepareW" /\ leader' = NoHost /\ keep' = FALSE
        /\ hosts' = {} /\ todo' = {} /\ bad' = FALSE /\ lost' = {}
    BY DEF ResetInv, StartRun, CheckTargetHosts, TypeOK
  <2>2. UNCHANGED <<clusterVars, deaths>>
    BY DEF StartRun
  <2> QED
    BY <1>0, <2>1, <2>2 DEF ResetInv, TypeOK, clusterVars, Walks
<1>2. Members' /\ Walked'
  BY DEF ResetInv, StartRun, clusterVars, Members, Walked, Serial
<1>3. QuorumInv'
  BY DEF ResetInv, StartRun, clusterVars, QuorumInv, BeforePlan, Running
<1> QED
  BY <1>1, <1>2, <1>3 DEF ResetInv

\* A run that ends without success promises nothing.
LEMMA EndInv ==
  ASSUME ResetInv, NEW s \in {"err", "cut"}, End(s),
         UNCHANGED <<clusterVars, conf, runs, deaths, asked>>
  PROVE  ResetInv'
<1>1. TypeOK'
  BY DEF ResetInv, End, TypeOK, clusterVars, Walks
<1>2. Members' /\ Walked'
  BY DEF ResetInv, End, clusterVars, Members, Walked, Serial
<1>3. QuorumInv'
  BY DEF ResetInv, End, QuorumInv
<1> QED
  BY <1>1, <1>2, <1>3 DEF ResetInv

-----------------------------------------------------------------------------
(* Prepare.                                                                *)

\* What the refusals have made sure of when a run that keeps the cluster gets past
\* them with every member running.
LEMMA NotRefused ==
  ASSUME TypeOK, ~Refused, Kept, member = Running, member # {}
  PROVE  /\ control # {} /\ surviving # {}
         /\ Staying # {} /\ member \ targets = Staying
         /\ \A x, y \in Leaving : x = y
         /\ ~KeepEngine => Leaving = {} \/ \E a, b \in Staying : a # b
<1> USE DEF control, surviving, removing, Running, Staying, Leaving
<1>1. control # {} /\ surviving # {}
  BY DEF Refused, Kept
<1>2. IsFiniteSet(removing) /\ IsFiniteSet(surviving)
      /\ Cardinality(removing) \in Nat /\ Cardinality(surviving) \in Nat
  <2>1. removing \subseteq Hosts /\ surviving \subseteq Hosts
    BY DEF TypeOK
  <2> QED
    BY <2>1, FiniteHosts
<1>3. Leaving = removing
  BY DEF TypeOK
<1>4. Cardinality(removing) <= 1
  BY <1>1, <1>2 DEF Refused
<1>5. \A x, y \in removing : x = y
  <2> SUFFICES ASSUME NEW x \in removing, NEW y \in removing, x # y
               PROVE  FALSE
    OBVIOUS
  <2>1. Cardinality(removing) >= 2
    BY <1>2, TwoElements
  <2> HIDE DEF removing
  <2> QED
    BY <1>2, <1>4, <2>1
<1>6. ASSUME ~KeepEngine, removing # {} PROVE \E a, b \in Staying : a # b
  <2>1. Cardinality(surviving) >= 2
    BY <1>1, <1>2, <1>6 DEF KeepEngine
  <2>2. PICK a \in surviving : TRUE
    BY <1>1
  <2>3. surviving # {a}
    BY <2>1, FS_Singleton
  <2> QED
    BY <2>2, <2>3
<1> QED
  BY <1>1, <1>3, <1>5, <1>6

\* Prepare refuses, or leaves a plan under which one controller at most leaves.
LEMMA PrepareInv ==
  ASSUME ResetInv, Prepare
  PROVE  ResetInv'
<1> USE DEF ResetInv
<1>0. status = "run" /\ walk \in {"prepareW", "prepareC"}
      /\ UNCHANGED <<clusterVars, conf, runs, deaths, asked>>
  BY DEF Prepare
<1>1. CASE Refused /\ End("err")
  BY <1>0, <1>1, EndInv
<1>2. CASE /\ ~Refused /\ control = {}
           /\ leader' = NoHost /\ keep' = FALSE
           /\ Enter(After(walk))
           /\ UNCHANGED <<targets, status, whole, lost>>
  <2>1. walk' \in {"prepareC", "uninstall"} /\ (walk' = "prepareC" => hosts' = {} /\ todo' = {})
        /\ (walk' = "uninstall" => hosts' = Filtered /\ todo' = Filtered) /\ bad' = FALSE
    BY <1>0, <1>2 DEF Enter, After, HostsOf
  <2>2. TypeOK'
    BY <1>0, <1>2, <2>1 DEF TypeOK, clusterVars, Walks, Filtered
  <2>3. Members' /\ Walked'
    BY <1>0, <1>2, <2>1 DEF Members, Walked, clusterVars, Serial, Filtered
  <2>4. ~(whole /\ Kept /\ HostnamesTell)
    <3>1. ASSUME whole, Kept, HostnamesTell PROVE member = Running
      BY <1>0, <3>1 DEF QuorumInv, BeforePlan, UpToStop
    <3> QED
      BY <1>2, <3>1, NotRefused DEF Members
  <2>5. QuorumInv'
    BY <1>0, <1>2, <2>4 DEF QuorumInv, Kept, WholeCluster, Filtered, HostnamesTell
  <2> QED
    BY <2>2, <2>3, <2>5
<1>3. ASSUME NEW candidates,
             ~Refused, control # {},
             leader' \in FirstOf(IF surviving # {} THEN surviving ELSE control),
             keep' = KeepEngine,
             candidates = {h \in Filtered \intersect ofRole(walk) \intersect node :
                                   NotLeader(walk, leader', h)},
             \/ leader' \in member /\ Quorum /\ hosts' = candidates /\ todo' = candidates /\ lost' = lost
             \/ hosts' = {} /\ todo' = {} /\ lost' = lost \union candidates,
             walk' \in IF walk = "prepareW" THEN {"drainW", "stopW"} ELSE {"drainC", "stopC"},
             bad' = FALSE,
             UNCHANGED <<targets, status, whole>>
      PROVE  ResetInv'
  <2>0. leader' \in Controllers /\ KeepEngine \in BOOLEAN
    BY <1>3 DEF FirstOf, control, surviving, KeepEngine
  <2>1. candidates \subseteq conf /\ candidates \subseteq Hosts
    BY <1>3 DEF TypeOK, Filtered
  <2>2. TypeOK'
    BY <1>0, <1>3, <2>0, <2>1 DEF TypeOK, clusterVars, Walks
  <2>3. Members'
    BY <1>0 DEF Members, clusterVars
  <2>4. Walked'
    <3>1. walk = "prepareC" => leader' \notin candidates
      BY <1>3 DEF NotLeader
    <3>2. hosts' \subseteq candidates /\ todo' \subseteq hosts'
      BY <1>3
    <3>3. candidates \subseteq ofRole(walk) /\ candidates \subseteq Filtered
      BY <1>3
    <3>4. Filtered' = Filtered /\ status' = "run"
      BY <1>0, <1>3 DEF Filtered
    <3> QED
      BY <1>0, <1>3, <3>1, <3>2, <3>3, <3>4 DEF Walked, Serial, ofRole
  <2>5. QuorumInv'
    <3> SUFFICES ASSUME whole, Kept, HostnamesTell
                 PROVE  Planned' /\ UpToStop' /\ UpToDelete'
      BY <1>0, <1>3 DEF QuorumInv, BeforePlan, Kept, WholeCluster, Filtered, HostnamesTell
    <3>1. member = Running
      BY <1>0 DEF QuorumInv, BeforePlan, UpToStop
    <3>2. /\ surviving # {}
          /\ Staying # {} /\ member \ targets = Staying
          /\ \A x, y \in Leaving : x = y
          /\ ~KeepEngine => Leaving = {} \/ \E a, b \in Staying : a # b
      BY <1>3, <3>1, NotRefused DEF Members
    <3>3. /\ Running' = Running /\ Staying' = Staying /\ Leaving' = Leaving
          /\ member' = member /\ targets' = targets
      BY <1>0, <1>3 DEF Running, Staying, Leaving, clusterVars
    <3>4. Planned'
      BY <1>3, <3>2, <3>3 DEF Planned
    <3>5. walk = "prepareC" => member \intersect targets \subseteq candidates
      <4> SUFFICES ASSUME walk = "prepareC", NEW c \in member, c \in targets
                   PROVE  c \in candidates
        OBVIOUS
      <4>1. c \in Filtered /\ c \in Controllers /\ c \in node
        BY DEF Filtered, TypeOK, Members
      <4>2. leader' \in surviving
        BY <1>3, <3>2 DEF FirstOf
      <4>3. leader' # c
        BY <4>2 DEF surviving
      <4>4. Hostname[c] # Hostname[leader']
        BY <2>0, <4>1, <4>3 DEF HostnamesTell
      <4> QED
        BY <1>3, <4>1, <4>4 DEF ofRole, NotLeader
    <3>6. UpToStop'
      <4>1. walk = "prepareC" =>
              member \intersect targets \subseteq hosts' \/ lost' \intersect Controllers # {} \/ member \intersect targets = {}
        BY <1>3, <3>5 DEF TypeOK
      <4> QED
        BY <1>0, <1>3, <3>1, <3>3, <4>1 DEF UpToStop, LostController
    <3>7. UpToDelete'
      BY <1>0, <1>3 DEF UpToDelete
    <3> QED
      BY <3>4, <3>6, <3>7
  <2> QED
    BY <2>2, <2>3, <2>4, <2>5
<1> QED
  BY <1>1, <1>2, <1>3 DEF Prepare

-----------------------------------------------------------------------------
(* The walks.                                                              *)

\* A visit of a host takes the controller that leaves one step further and no other.
LEMMA VisitInv ==
  ASSUME ResetInv, NEW h \in Hosts, Visit(h)
  PROVE  ResetInv'
<1> USE DEF ResetInv
<1>0. /\ status = "run" /\ h \in todo /\ todo' = todo \ {h}
      /\ UNCHANGED <<conf, targets, status, walk, leader, keep, hosts, runs, deaths, whole, asked>>
  BY DEF Visit, Turn, processVars
<1>a. (Kept' <=> Kept) /\ Filtered' = Filtered
  BY <1>0 DEF Kept, WholeCluster, Filtered
\* What a visit that leaves the membership alone has to show.
<1>b. ASSUME Members', TypeOK', whole /\ Kept /\ HostnamesTell => (Planned /\ UpToStop /\ UpToDelete)'
      PROVE  ResetInv'
  <2>1. Walked'
    BY <1>0, <1>a DEF Walked
  <2>2. walk # "prepareW"
    BY DEF Visit, Drains
  <2>3. QuorumInv'
    BY <1>0, <1>a, <1>b, <2>2 DEF QuorumInv, BeforePlan, HostnamesTell
  <2> QED
    BY <1>b, <2>1, <2>3
<1>c. walk # "prepareW" /\ (whole /\ Kept /\ HostnamesTell => Planned /\ UpToStop /\ UpToDelete)
  BY <1>0 DEF Visit, Drains, QuorumInv
<1>d. Kept /\ walk # "repoint" => h \in targets
  BY <1>0 DEF Kept, WholeCluster, Walked, Filtered
<1>1. CASE walk \in Drains /\ Drain(h)
  <2>1. TypeOK'
    BY <1>0, <1>1 DEF Drain, TypeOK
  <2>2. Members'
    BY <1>1 DEF Drain, Members
  <2>3. (Planned /\ UpToStop /\ UpToDelete) => (Planned /\ UpToStop /\ UpToDelete)'
    BY <1>0, <1>1 DEF Drain, Drains, Planned, UpToStop, UpToDelete, Running, Staying, Leaving,
                      LostController
  <2> QED
    BY <1>b, <1>c, <2>1, <2>2, <2>3
<1>2. CASE walk \in {"stopW", "stopC"} /\ Stop(h)
  <2>1. TypeOK'
    BY <1>0, <1>2 DEF Stop, TypeOK
  <2>2. Members'
    BY <1>2 DEF Stop, Members
  <2>3. ASSUME Planned, UpToStop, UpToDelete, Kept
        PROVE  (Planned /\ UpToStop /\ UpToDelete)'
    <3>1. CASE up' = up
      BY <1>0, <1>2, <2>3, <3>1 DEF Stop, Planned, UpToStop, UpToDelete, Running, Staying, Leaving,
                                    LostController
    <3>2. CASE walk = "stopW" /\ up' = up \ {h}
      <4>1. h \notin Controllers
        BY <1>0, <3>2 DEF Walked, Workers
      <4>2. Running' = Running
        BY <3>2, <4>1 DEF Running
      <4> QED
        BY <1>0, <1>2, <2>3, <3>2, <4>2 DEF Stop, Planned, UpToStop, UpToDelete, Staying, Leaving,
                                            LostController
    <3>3. CASE walk = "stopC" /\ ~keep /\ up' = up \ {h}
      <4>1. h \in targets
        BY <1>d, <2>3, <3>3
      <4> QED
        BY <1>0, <1>2, <2>3, <3>3, <4>1 DEF Stop, Planned, UpToStop, UpToDelete, Running, Staying, Leaving
    <3> QED
      BY <1>2, <3>1, <3>2, <3>3 DEF Stop
  <2> QED
    BY <1>b, <1>c, <2>1, <2>2, <2>3
<1>3. CASE walk \in {"deleteW", "deleteC"} /\ Delete(h)
  <2>1. TypeOK'
    BY <1>0, <1>3 DEF Delete, TypeOK
  <2>2. Members'
    <3>1. CASE member' = member
      BY <1>3, <3>1 DEF Delete, Members
    <3>2. CASE LeaderAnswers /\ node' = node \ {h} /\ member' = member \ {h}
      <4>1. leader \in member /\ member \subseteq Controllers
        BY <3>2 DEF LeaderAnswers, TypeOK
      <4>2. h # leader
        BY <1>0, <1>3, <4>1 DEF Walked, Serial, Workers
      <4> QED
        BY <3>2, <4>1, <4>2 DEF Members
    <3> QED
      BY <1>3, <3>1, <3>2 DEF Delete
  <2>3. ASSUME Planned, UpToStop, UpToDelete, Kept
        PROVE  (Planned /\ UpToStop /\ UpToDelete)'
    <3>1. h \in targets
      BY <1>3, <1>d, <2>3
    <3>2. Running' = Running /\ Staying' = Staying /\ member' \subseteq member /\ member \ {h} \subseteq member'
          /\ lost \subseteq lost'
      BY <1>0, <1>3 DEF Delete, Running, Staying
    <3>3. Planned'
      BY <1>0, <2>3, <3>1, <3>2 DEF Planned, Leaving
    <3>4. UpToStop'
      <4>1. walk = "deleteW" => member' = member
        BY <1>0, <1>3 DEF Delete, Walked, Workers, TypeOK
      <4> QED
        BY <1>0, <1>3, <2>3, <3>2, <4>1 DEF UpToStop
    <3>5. UpToDelete'
      <4>1. walk = "deleteC" => h \in Controllers
        BY <1>0 DEF Walked, Serial
      <4>2. h \notin member' \/ h \in lost'
        BY <1>3 DEF Delete
      <4>3. up' = up
        BY <1>3 DEF Delete
      <4> QED
        BY <1>0, <1>3, <2>3, <3>2, <4>1, <4>2, <4>3 DEF UpToDelete, LostController
    <3> QED
      BY <3>3, <3>4, <3>5
  <2> QED
    BY <1>b, <1>c, <2>1, <2>2, <2>3
<1>4. CASE walk = "uninstall" /\ Uninstall(h)
  <2>1. TypeOK'
    BY <1>0, <1>4 DEF Uninstall, TypeOK
  <2>2. Members'
    BY <1>4 DEF Uninstall, Members
  <2>3. ASSUME Planned, UpToStop, UpToDelete, Kept
        PROVE  (Planned /\ UpToStop /\ UpToDelete)'
    <3>1. h \in targets
      BY <1>4, <1>d, <2>3
    <3>2. /\ member' = member /\ lost' = lost
          /\ up' \subseteq up /\ up \ {h} \subseteq up'
      BY <1>4 DEF Uninstall
    <3>3. Staying' = Staying /\ Leaving' \subseteq Leaving
      BY <1>0, <3>1, <3>2 DEF Staying, Leaving, Running
    <3>4. Planned'
      BY <1>0, <2>3, <3>2, <3>3 DEF Planned
    <3>5. UpToStop' /\ UpToDelete'
      BY <1>0, <1>4, <2>3, <3>2 DEF UpToStop, UpToDelete, LostController
    <3> QED
      BY <3>4, <3>5
  <2> QED
    BY <1>b, <1>c, <2>1, <2>2, <2>3
<1>5. CASE walk = "repoint" /\ Repoint(h)
  <2>1. TypeOK'
    <3>1. serverFor(h) \subseteq Controllers \union {NoHost}
      BY DEF serverFor, FirstOf, survivors
    <3>2. server' \in [Controllers -> Controllers \union {NoHost}]
      BY <1>5, <3>1 DEF Repoint, TypeOK
    <3> QED
      BY <1>0, <1>5, <3>2 DEF Repoint, TypeOK
  <2>2. Members'
    BY <1>5 DEF Repoint, Members
  <2>3. (Planned /\ UpToStop /\ UpToDelete) => (Planned /\ UpToStop /\ UpToDelete)'
    BY <1>0, <1>5 DEF Repoint, Planned, UpToStop, UpToDelete, Running, Staying, Leaving,
                      LostController
  <2> QED
    BY <1>b, <1>c, <2>1, <2>2, <2>3
<1> QED
  BY <1>1, <1>2, <1>3, <1>4, <1>5 DEF Visit

\* The order of the walks that are left by EndWalk.
LEMMA AfterTable ==
  /\ After("drainW") = "stopW" /\ After("stopW") = "deleteW" /\ After("deleteW") = "prepareC"
  /\ After("drainC") = "stopC" /\ After("stopC") = "deleteC" /\ After("deleteC") = "uninstall"
  /\ After("uninstall") = "repoint"
  BY DEF After

\* A walk that ends hands over what the next one relies on.
LEMMA LeaveInv ==
  ASSUME ResetInv, todo = {} \/ bad, Leave
  PROVE  ResetInv'
<1> USE DEF ResetInv
<1>0. /\ status = "run" /\ walk \notin {"prepareW", "prepareC"}
      /\ UNCHANGED <<clusterVars, conf, runs, deaths, asked>>
  BY DEF Leave
<1>c. whole /\ Kept /\ HostnamesTell => Planned /\ UpToStop /\ UpToDelete
  BY <1>0 DEF QuorumInv
<1>1. CASE bad /\ walk \notin Drains /\ End("err")
  BY <1>0, <1>1, EndInv
<1>2. CASE ~bad /\ walk = "repoint" /\ End("ok")
  <2>1. TypeOK'
    BY <1>0, <1>2 DEF End, TypeOK, clusterVars, Walks
  <2>2. Members' /\ Walked'
    BY <1>0, <1>2 DEF End, Members, Walked, clusterVars, Serial
  <2>3. QuorumInv'
    <3> SUFFICES ASSUME whole, Kept, HostnamesTell
                 PROVE  (Planned /\ AtEnd)'
      BY <1>0, <1>2 DEF End, QuorumInv, BeforePlan, Kept, WholeCluster, Filtered, HostnamesTell
    <3> QED
      BY <1>0, <1>2, <1>c DEF End, clusterVars, Planned, UpToDelete, AtEnd, Running, Staying,
                              Leaving, LostController
  <2> QED
    BY <2>1, <2>2, <2>3
<1>3. CASE /\ bad => walk \in Drains
           /\ walk \in Drains \union {"stopW", "stopC"}
           /\ walk' = After(walk) /\ todo' = hosts /\ bad' = FALSE
           /\ UNCHANGED <<status, leader, hosts, targets, keep, whole, lost>>
  <2>1. \/ walk = "drainW" /\ walk' = "stopW"
        \/ walk = "stopW" /\ walk' = "deleteW"
        \/ walk = "drainC" /\ walk' = "stopC"
        \/ walk = "stopC" /\ walk' = "deleteC"
    BY <1>3, AfterTable DEF Drains
  <2>2. TypeOK'
    BY <1>0, <1>3, <2>1 DEF TypeOK, clusterVars, Walks
  <2>3. Members' /\ Walked'
    BY <1>0, <1>3, <2>1 DEF Members, Walked, clusterVars, Serial, Filtered
  <2>4. QuorumInv'
    <3> SUFFICES ASSUME whole, Kept, HostnamesTell
                 PROVE  (Planned /\ UpToStop /\ UpToDelete)'
      BY <1>0, <1>3, <2>1 DEF QuorumInv, BeforePlan, Kept, WholeCluster, Filtered, HostnamesTell
    <3>1. /\ Running' = Running /\ Staying' = Staying /\ Leaving' = Leaving
          /\ (LostController' <=> LostController)
      BY <1>0, <1>3 DEF Running, Staying, Leaving, LostController, clusterVars
    <3>2. Planned'
      BY <1>0, <1>3, <1>c, <3>1 DEF Planned, clusterVars
    <3>3. UpToStop'
      BY <1>0, <1>3, <1>c, <2>1, <3>1 DEF UpToStop, clusterVars
    <3>4. UpToDelete'
      BY <1>0, <1>3, <1>c, <2>1, <3>1 DEF UpToStop, UpToDelete, clusterVars, Running
    <3> QED
      BY <3>2, <3>3, <3>4
  <2> QED
    BY <2>2, <2>3, <2>4
<1>4. CASE /\ ~bad /\ walk \in {"deleteW", "deleteC", "uninstall"}
           /\ Enter(After(walk))
           /\ UNCHANGED <<status, leader, targets, keep, whole, lost>>
  <2>1. /\ \/ walk = "deleteW" /\ walk' = "prepareC"
           \/ walk = "deleteC" /\ walk' = "uninstall"
           \/ walk = "uninstall" /\ walk' = "repoint"
        /\ hosts' = HostsOf(walk') /\ todo' = hosts' /\ bad' = FALSE
    BY <1>4, AfterTable DEF Enter
  <2>2. hosts' \subseteq conf /\ (walk' = "uninstall" => hosts' = Filtered)
        /\ (walk' = "prepareC" => hosts' = {})
    BY <2>1 DEF HostsOf, Filtered, survivors, TypeOK
  <2>3. TypeOK'
    BY <1>0, <1>4, <2>1, <2>2 DEF TypeOK, clusterVars, Walks
  <2>4. Members' /\ Walked'
    BY <1>0, <1>4, <2>1, <2>2 DEF Members, Walked, clusterVars, Serial, Filtered
  <2>5. QuorumInv'
    <3> SUFFICES ASSUME whole, Kept, HostnamesTell
                 PROVE  (Planned /\ UpToStop /\ UpToDelete)'
      BY <1>0, <1>4, <2>1 DEF QuorumInv, BeforePlan, Kept, WholeCluster, Filtered, HostnamesTell
    <3>1. /\ Running' = Running /\ Staying' = Staying /\ Leaving' = Leaving
          /\ (LostController' <=> LostController)
      BY <1>0, <1>4 DEF Running, Staying, Leaving, LostController, clusterVars
    <3>2. Planned'
      BY <1>0, <1>4, <1>c, <3>1 DEF Planned, clusterVars
    <3>3. UpToStop'
      BY <1>0, <1>4, <1>c, <2>1, <3>1 DEF UpToStop, clusterVars
    <3>4. UpToDelete'
      <4>1. todo = {}
        BY <1>4
      <4> QED
        BY <1>0, <1>4, <1>c, <2>1, <3>1, <4>1 DEF UpToDelete, clusterVars
    <3> QED
      BY <3>2, <3>3, <3>4
  <2> QED
    BY <2>3, <2>4, <2>5
<1> QED
  BY <1>1, <1>2, <1>3, <1>4 DEF Leave

-----------------------------------------------------------------------------
(* Types and the quorum.                                                   *)

\* Every step keeps the invariant.
LEMMA StepInv == ResetInv /\ [Next]_vars => ResetInv'
<1> SUFFICES ASSUME ResetInv, [Next]_vars PROVE ResetInv'
  OBVIOUS
<1>1. CASE Prepare
  BY <1>1, PrepareInv
<1>2. CASE EndWalk
  BY <1>2, LeaveInv DEF EndWalk
<1>3. ASSUME NEW h \in Hosts, Visit(h) PROVE ResetInv'
  BY <1>3, VisitInv
<1>4. CASE Cut
  BY <1>4, EndInv DEF Cut
<1>5. ASSUME NEW C \in SUBSET Hosts, NEW T \in TargetLists, StartRun(C, T) PROVE ResetInv'
  BY <1>5, StartRunInv
<1>6. ASSUME NEW h \in Hosts, Reregister(h) PROVE ResetInv'
  BY <1>6, ReregisterInv
<1>7. ASSUME NEW h \in Hosts, EngineDies(h) PROVE ResetInv'
  BY <1>7, EngineDiesInv
<1>8. CASE UNCHANGED vars
  BY <1>8 DEF vars, clusterVars, historyVars, ResetInv, TypeOK, Members, Walked, QuorumInv, Filtered,
              Kept, WholeCluster, HostnamesTell, BeforePlan, Planned, UpToStop, UpToDelete, AtEnd,
              Running, Staying, Leaving, LostController
<1> QED
  BY <1>1, <1>2, <1>3, <1>4, <1>5, <1>6, <1>7, <1>8 DEF Next, Process

\* The specification keeps the inductive invariant.
THEOREM ResetInvariant == Spec => []ResetInv
  BY InitInv, StepInv, PTL DEF Spec

\* Every state of a reset is well typed: the leader is a controller, the phases'
\* hosts are hosts of the configuration, `server:` names controllers only.
THEOREM ResetTypeCorrect == Spec => []TypeOK
<1>1. ResetInv => TypeOK
  BY DEF ResetInv
<1> QED
  BY <1>1, ResetInvariant, PTL

\* A reset that keeps the cluster keeps etcd's quorum (planControllerRemovals), for
\* any number of controllers and any failures on the way.
THEOREM ResetKeepsQuorum == Spec => []QuorumKept
  BY ResetInvariant, InvGivesQuorum, PTL
-----------------------------------------------------------------------------
(* What a reset removes.                                                   *)

\* A worker's engine is stopped before its node is deleted, and so is a controller's
\* unless it is kept up for that.
StoppedFirst ==
    /\ \A h \in Workers \intersect up : h \in node
    /\ walk = "stopW" /\ ~bad => hosts \intersect up \subseteq todo
    /\ walk = "deleteW" => hosts \intersect up = {}
    /\ walk = "stopC" /\ ~bad /\ ~keep => hosts \intersect up \subseteq todo
    /\ walk = "deleteC" /\ ~keep => hosts \intersect up = {}

\* A set of one host at most.
AtMostOne(S) == \A a, b \in S : a = b

\* An engine is kept up while one controller runs beside it at most.
KeptForOne ==
    walk \in Serial /\ keep => targets # {} /\ AtMostOne(surviving) /\ AtMostOne(removing)

\* So a controller that runs without a node, which a run that was cut may leave, has
\* one other beside it at most, and the next run that removes it keeps it up too.
Unregistered == \A h \in control \ node : AtMostOne(control \ {h})

\* The targets that have still to lose their nodes or their memberships.
WorkersDue == targets \intersect Workers \intersect node
ControllersDue == targets \intersect (IF keep THEN member ELSE Controllers \intersect node)

\* How far the removal of the workers has got, and that of the controllers.
WorkersGo ==
    /\ walk \in {"drainW", "stopW"} => WorkersDue \subseteq hosts \union lost
    /\ walk = "deleteW" => WorkersDue \subseteq todo \union lost
    /\ walk \in {"prepareC", "drainC", "stopC", "deleteC", "uninstall", "repoint"} => WorkersDue \subseteq lost
ControllersGo ==
    /\ walk \in {"drainC", "stopC"} => ControllersDue \subseteq hosts \union lost
    /\ walk = "deleteC" => ControllersDue \subseteq todo \union lost
    /\ walk \in {"uninstall", "repoint"} => ControllersDue \subseteq lost
    /\ walk \in {"drainC", "stopC", "deleteC", "uninstall", "repoint"} /\ ~keep =>
           targets \intersect Controllers \intersect up \subseteq node
EnginesGo ==
    /\ walk = "uninstall" /\ ~bad => targets \intersect up \subseteq todo
    /\ walk = "repoint" => targets \intersect up = {}

GoneInv ==
    Kept /\ HostnamesTell =>
        /\ status = "run" => WorkersGo /\ ControllersGo /\ EnginesGo
        /\ status = "ok" => targets \intersect up = {} /\ WorkersDue \subseteq lost /\ ControllersDue \subseteq lost

\* A run visits, outside Repoint, only hosts it was told to remove.
AskedInv == SurvivorsUntouched /\ (status = "run" => Filtered \subseteq asked)

\* A survivor that has been repointed.
Repointed(h) == h \in installed /\ server[h] \in serverFor(h)
RepointInv ==
    removed # {} =>
        /\ status = "run" /\ walk = "repoint" /\ ~bad => \A h \in survivors \ todo : Repointed(h)
        /\ status = "ok" => \A h \in survivors : Repointed(h)

RemovalInv == StoppedFirst /\ KeptForOne /\ Unregistered /\ GoneInv /\ AskedInv /\ RepointInv

\* What the third disjunct of Prepare makes of the hosts to remove.
Picks(candidates) ==
    /\ ~Refused /\ control # {} /\ status' = "run" /\ targets' = targets /\ bad' = FALSE
    /\ leader' \in FirstOf(IF surviving # {} THEN surviving ELSE control)
    /\ keep' = KeepEngine
    /\ candidates = {h \in Filtered \intersect ofRole(walk) \intersect node : NotLeader(walk, leader', h)}
    /\ \/ hosts' = candidates /\ todo' = candidates /\ lost' = lost
       \/ hosts' = {} /\ todo' = {} /\ lost' = lost \union candidates
    /\ \/ walk = "prepareW" /\ walk' \in {"drainW", "stopW"}
       \/ walk = "prepareC" /\ walk' \in {"drainC", "stopC"}

\* Prepare refuses, passes on because no controller runs, or picks hosts.
LEMMA PrepareCases ==
  ASSUME Prepare
  PROVE  /\ status = "run" /\ walk \in {"prepareW", "prepareC"}
         /\ UNCHANGED <<clusterVars, conf, deaths, asked>>
         /\ \/ End("err")
            \/ /\ ~Refused /\ control = {} /\ UNCHANGED <<status, targets, lost>>
               /\ keep' = FALSE /\ bad' = FALSE
               /\ \/ walk' = "prepareC" /\ hosts' = {} /\ todo' = {}
                  \/ walk' = "uninstall" /\ hosts' = Filtered /\ todo' = Filtered
            \/ \E candidates : Picks(candidates)
<1>1. /\ status = "run" /\ walk \in {"prepareW", "prepareC"}
      /\ UNCHANGED <<clusterVars, conf, deaths, asked>>
  BY DEF Prepare
<1>2. After("prepareW") = "prepareC" /\ After("prepareC") = "uninstall"
  BY DEF After
<1>3. CASE ~Refused /\ control = {} /\ Enter(After(walk))
  BY <1>1, <1>2, <1>3 DEF Prepare, Enter, HostsOf
<1>4. ASSUME NEW candidates,
             ~Refused, control # {},
             leader' \in FirstOf(IF surviving # {} THEN surviving ELSE control),
             keep' = KeepEngine,
             candidates = {h \in Filtered \intersect ofRole(walk) \intersect node :
                                   NotLeader(walk, leader', h)},
             \/ hosts' = candidates /\ todo' = candidates /\ lost' = lost
             \/ hosts' = {} /\ todo' = {} /\ lost' = lost \union candidates,
             walk' \in IF walk = "prepareW" THEN {"drainW", "stopW"} ELSE {"drainC", "stopC"},
             bad' = FALSE,
             UNCHANGED <<targets, status, whole>>
      PROVE  Picks(candidates)
  BY <1>1, <1>4 DEF Picks
<1> QED
  BY <1>1, <1>3, <1>4 DEF Prepare

\* A walk that ends hands its hosts to the next, or enters a phase, or ends the run.
LEMMA LeaveCases ==
  ASSUME EndWalk
  PROVE  /\ status = "run" /\ UNCHANGED <<clusterVars, conf, deaths, asked>>
         /\ \/ End("err")
            \/ ~bad /\ todo = {} /\ walk = "repoint" /\ End("ok")
            \/ /\ UNCHANGED <<status, targets, keep, lost>> /\ bad' = FALSE
               /\ \/ /\ hosts' = hosts /\ todo' = hosts
                     /\ \/ walk = "drainW" /\ walk' = "stopW"
                        \/ walk = "stopW" /\ walk' = "deleteW" /\ ~bad /\ todo = {}
                        \/ walk = "drainC" /\ walk' = "stopC"
                        \/ walk = "stopC" /\ walk' = "deleteC" /\ ~bad /\ todo = {}
                  \/ /\ ~bad /\ todo = {} /\ hosts' = HostsOf(walk') /\ todo' = hosts'
                     /\ \/ walk = "deleteW" /\ walk' = "prepareC"
                        \/ walk = "deleteC" /\ walk' = "uninstall"
                        \/ walk = "uninstall" /\ walk' = "repoint"
<1>1. status = "run" /\ UNCHANGED <<clusterVars, conf, deaths, asked>>
  BY DEF EndWalk, Leave
<1>2. CASE bad /\ walk \notin Drains /\ End("err")
  BY <1>1, <1>2
<1>3. CASE ~bad /\ walk = "repoint" /\ End("ok")
  BY <1>1, <1>3 DEF EndWalk
<1>4. CASE /\ bad => walk \in Drains
           /\ walk \in Drains \union {"stopW", "stopC"}
           /\ walk' = After(walk) /\ todo' = hosts /\ bad' = FALSE
           /\ UNCHANGED <<status, leader, hosts, targets, keep, whole, lost>>
  BY <1>1, <1>4, AfterTable DEF EndWalk, Drains
<1>5. CASE /\ ~bad /\ walk \in {"deleteW", "deleteC", "uninstall"}
           /\ Enter(After(walk))
           /\ UNCHANGED <<status, leader, targets, keep, whole, lost>>
  BY <1>1, <1>5, AfterTable DEF EndWalk, Enter
<1> QED
  BY <1>2, <1>3, <1>4, <1>5 DEF EndWalk, Leave

-----------------------------------------------------------------------------
(* Hosts that no run was told to remove.                                   *)

\* Every step keeps AskedInv.
LEMMA AskedStep == ResetInv /\ AskedInv /\ [Next]_vars => AskedInv'
<1> SUFFICES ASSUME ResetInv, AskedInv, [Next]_vars PROVE AskedInv'
  OBVIOUS
<1>1. ASSUME UNCHANGED <<clusterVars, deaths, conf, asked>>,
             status' = "run" => status = "run" /\ targets' = targets
      PROVE  AskedInv'
  BY <1>1 DEF AskedInv, SurvivorsUntouched, Filtered, clusterVars
<1>2. CASE Prepare
  BY <1>1, <1>2 DEF Prepare, End
<1>3. CASE EndWalk
  BY <1>1, <1>3 DEF EndWalk, Leave, End
<1>4. CASE Cut
  BY <1>1, <1>4 DEF Cut, End
<1>5. ASSUME NEW C \in SUBSET Hosts, NEW T \in TargetLists, StartRun(C, T) PROVE AskedInv'
  BY <1>5 DEF StartRun, AskedInv, SurvivorsUntouched, Filtered, clusterVars
<1>6. ASSUME NEW h \in Hosts, Reregister(h) PROVE AskedInv'
  BY <1>6 DEF Reregister, historyVars, AskedInv, SurvivorsUntouched, Filtered
<1>7. ASSUME NEW h \in Hosts, EngineDies(h) PROVE AskedInv'
  <2>1. deaths' # 0
    BY <1>7 DEF EngineDies, ResetInv, TypeOK
  <2> QED
    BY <1>7, <2>1 DEF EngineDies, AskedInv, SurvivorsUntouched, Filtered
<1>8. ASSUME NEW h \in Hosts, Visit(h) PROVE AskedInv'
  <2>0. /\ UNCHANGED <<conf, targets, status, deaths, asked>> /\ status = "run"
        /\ walk # "repoint" => h \in asked
    BY <1>8 DEF Visit, Turn, processVars, ResetInv, Walked, AskedInv
  <2>1. CASE walk = "repoint" /\ Repoint(h)
    BY <2>0, <2>1 DEF Repoint, AskedInv, SurvivorsUntouched, Filtered
  <2>2. ASSUME walk # "repoint",
               Drain(h) \/ Stop(h) \/ Delete(h) \/ Uninstall(h)
        PROVE  AskedInv'
    <3>1. \A k \in Hosts \ {h} :
             /\ k \in up => k \in up'
             /\ k \in installed => k \in installed'
             /\ k \in node => k \in node'
             /\ k \in member => k \in member'
             /\ k \in cordoned' => k \in cordoned
      BY <2>2 DEF Drain, Stop, Delete, Uninstall
    <3> QED
      BY <2>0, <2>2, <3>1 DEF AskedInv, SurvivorsUntouched, Filtered
  <2> QED
    BY <1>8, <2>1, <2>2 DEF Visit, Drains
<1>9. CASE UNCHANGED vars
  BY <1>1, <1>9 DEF vars, historyVars
<1> QED
  BY <1>2, <1>3, <1>4, <1>5, <1>6, <1>7, <1>8, <1>9 DEF Next, Process

-----------------------------------------------------------------------------
(* The servers that the survivors name.                                    *)

\* Every step keeps RepointInv.
LEMMA RepointStep == ResetInv /\ RepointInv /\ [Next]_vars => RepointInv'
<1> SUFFICES ASSUME ResetInv, RepointInv, [Next]_vars PROVE RepointInv'
  OBVIOUS
<1>1. ASSUME status' \notin {"run", "ok"} \/ (status' = "run" /\ walk' # "repoint")
      PROVE  RepointInv'
  BY <1>1 DEF RepointInv
<1>2. ASSUME UNCHANGED <<installed, server, conf, targets, status, walk, bad, todo>>
      PROVE  RepointInv'
  BY <1>2 DEF RepointInv, Repointed, serverFor, survivors, removed
<1>3. CASE Prepare
  <2>1. status' = "err" \/ (walk' # "repoint" /\ status' = "run")
    BY <1>3, PrepareCases DEF End, Picks
  <2> QED
    BY <1>1, <2>1
<1>4. CASE EndWalk
  <2>0. UNCHANGED <<installed, server, conf>> /\ status = "run"
    BY <1>4, LeaveCases DEF clusterVars
  <2>1. CASE status' = "err"
    BY <1>1, <2>1
  <2>2. CASE ~bad /\ todo = {} /\ walk = "repoint" /\ End("ok")
    BY <2>0, <2>2 DEF RepointInv, Repointed, serverFor, survivors, removed, End
  <2>3. CASE status' = "run" /\ walk' # "repoint"
    BY <1>1, <2>3
  <2>4. CASE /\ UNCHANGED <<status, targets>>
             /\ hosts' = HostsOf(walk') /\ todo' = hosts' /\ walk' = "repoint"
    <3>1. survivors' = survivors /\ removed' = removed
      BY <2>0, <2>4 DEF survivors, removed
    <3>2. removed # {} => todo' = survivors
      BY <2>4 DEF HostsOf
    <3> QED
      BY <2>0, <2>4, <3>1, <3>2 DEF RepointInv
  <2> QED
    BY <1>4, <2>0, <2>1, <2>2, <2>3, <2>4, LeaveCases DEF End
<1>5. CASE Cut
  BY <1>1, <1>5 DEF Cut, End
<1>6. ASSUME NEW C \in SUBSET Hosts, NEW T \in TargetLists, StartRun(C, T) PROVE RepointInv'
  BY <1>1, <1>6 DEF StartRun
<1>7. ASSUME NEW h \in Hosts, Reregister(h) \/ EngineDies(h) PROVE RepointInv'
  BY <1>2, <1>7 DEF Reregister, EngineDies
<1>8. ASSUME NEW h \in Hosts, Visit(h) PROVE RepointInv'
  <2>0. UNCHANGED <<conf, targets, status, walk>> /\ status = "run" /\ todo' = todo \ {h}
    BY <1>8 DEF Visit, processVars
  <2>1. CASE walk # "repoint"
    BY <1>1, <2>0, <2>1
  <2>2. CASE walk = "repoint" /\ Repoint(h)
    <3> SUFFICES ASSUME removed # {}, ~bad', NEW k \in survivors, k \notin todo'
                 PROVE  Repointed(k)'
      BY <2>0, <2>2 DEF RepointInv, removed, survivors
    <3>1. PICK s \in serverFor(h) : server' = [server EXCEPT ![h] = s]
      BY <2>2 DEF Repoint
    <3>2. installed' = installed /\ ~bad /\ h \in installed
      BY <2>2 DEF Repoint
    <3>3. k \in Controllers /\ serverFor(k)' = serverFor(k)
      BY <2>0 DEF survivors, serverFor
    <3>4. CASE k = h
      BY <3>1, <3>2, <3>3, <3>4 DEF Repointed, ResetInv, TypeOK
    <3>5. CASE k # h
      <4>1. Repointed(k)
        BY <2>0, <2>2, <3>2, <3>5 DEF RepointInv
      <4> QED
        BY <3>1, <3>2, <3>3, <3>5, <4>1 DEF Repointed, ResetInv, TypeOK
    <3> QED
      BY <3>4, <3>5
  <2> QED
    BY <1>8, <2>1, <2>2 DEF Visit, Drains
<1>9. CASE UNCHANGED vars
  BY <1>2, <1>9 DEF vars, clusterVars
<1> QED
  BY <1>3, <1>4, <1>5, <1>6, <1>7, <1>8, <1>9 DEF Next, Process

\* The survivors that have been repointed agree.
LEMMA RepointAgrees == RepointInv => SurvivorsRepointed
  BY DEF RepointInv, Repointed, SurvivorsRepointed, serverFor, FirstOf

-----------------------------------------------------------------------------
(* Engines that are stopped, and engines that are kept up.                 *)

\* A set of hosts with one element at most, by its size.
LEMMA AtMostOneSize ==
  ASSUME NEW S, S \subseteq Hosts
  PROVE  Cardinality(S) \in Nat /\ (AtMostOne(S) <=> Cardinality(S) < 2)
<1>1. IsFiniteSet(S) /\ Cardinality(S) \in Nat
  BY FiniteHosts
<1>2. ASSUME AtMostOne(S) PROVE Cardinality(S) < 2
  <2>1. CASE S = {}
    BY <2>1, FS_EmptySet
  <2>2. CASE S # {}
    <3>1. PICK a \in S : TRUE
      BY <2>2
    <3>2. S = {a}
      BY <1>2, <3>1 DEF AtMostOne
    <3> QED
      BY <3>2, FS_Singleton
  <2> QED
    BY <2>1, <2>2
<1>3. ASSUME Cardinality(S) < 2 PROVE AtMostOne(S)
  <2> SUFFICES ASSUME NEW a \in S, NEW b \in S, a # b PROVE FALSE
    BY DEF AtMostOne
  <2>1. Cardinality(S) >= 2
    BY <1>1, TwoElements
  <2> QED
    BY <1>1, <1>3, <2>1
<1> QED
  BY <1>1, <1>2, <1>3

\* Engines are only ever stopped, and the configuration only loses hosts.
LEMMA ControlShrinks ==
  ASSUME ResetInv, [Next]_vars
  PROVE  up' \subseteq up /\ conf' \subseteq conf /\ control' \subseteq control
<1>1. up' \subseteq up
  BY PrepareCases, LeaveCases DEF Next, Process, Visit, Drain, Stop, Delete, Uninstall, Repoint, Cut, StartRun,
     Reregister, EngineDies, vars, clusterVars
<1>2. conf' \subseteq conf
  BY PrepareCases, LeaveCases DEF Next, Process, Visit, processVars, Cut, StartRun, Reregister, EngineDies, vars
<1> QED
  BY <1>1, <1>2 DEF control

\* Every step keeps StoppedFirst.
LEMMA StoppedStep == ResetInv /\ StoppedFirst /\ [Next]_vars => StoppedFirst'
<1> SUFFICES ASSUME ResetInv, StoppedFirst, [Next]_vars PROVE StoppedFirst'
  OBVIOUS
<1>0. up' \subseteq up
  BY ControlShrinks
<1>1. ASSUME node \subseteq node', walk' \notin {"stopW", "deleteW", "stopC", "deleteC"}
      PROVE  StoppedFirst'
  BY <1>0, <1>1 DEF StoppedFirst
<1>2. CASE Prepare
  <2>1. node' = node
    BY <1>2, PrepareCases DEF clusterVars
  <2>2. \/ walk' \notin {"stopW", "deleteW", "stopC", "deleteC"}
        \/ walk' \in {"stopW", "stopC"} /\ todo' = hosts'
    <3>1. ASSUME NEW candidates, Picks(candidates)
          PROVE  todo' = hosts' /\ walk' \in {"drainW", "stopW", "drainC", "stopC"}
      BY <3>1 DEF Picks
    <3> QED
      BY <1>2, <3>1, PrepareCases DEF End
  <2> QED
    BY <1>0, <1>1, <2>1, <2>2 DEF StoppedFirst
<1>3. CASE EndWalk
  <2>1. node' = node /\ up' = up
    BY <1>3, LeaveCases DEF clusterVars
  <2>2. \/ walk' \notin {"stopW", "deleteW", "stopC", "deleteC"}
        \/ walk' \in {"stopW", "stopC"} /\ todo' = hosts'
        \/ /\ (walk = "stopW" /\ walk' = "deleteW") \/ (walk = "stopC" /\ walk' = "deleteC")
           /\ ~bad /\ todo = {} /\ hosts' = hosts /\ keep' = keep
    BY <1>3, LeaveCases DEF End
  <2> QED
    BY <1>1, <2>1, <2>2 DEF StoppedFirst
<1>4. CASE Cut
  BY <1>1, <1>4 DEF Cut, End, clusterVars
<1>5. ASSUME NEW C \in SUBSET Hosts, NEW T \in TargetLists, StartRun(C, T) PROVE StoppedFirst'
  BY <1>1, <1>5 DEF StartRun, clusterVars
<1>6. ASSUME NEW h \in Hosts, Reregister(h) \/ EngineDies(h) PROVE StoppedFirst'
  BY <1>0, <1>6 DEF Reregister, EngineDies, StoppedFirst
<1>7. ASSUME NEW h \in Hosts, Visit(h) PROVE StoppedFirst'
  <2>0. UNCHANGED <<walk, keep, hosts>> /\ status = "run" /\ h \in todo /\ todo' = todo \ {h}
    BY <1>7 DEF Visit, Turn, processVars
  <2>1. CASE walk \in Drains /\ Drain(h)
    BY <1>1, <2>0, <2>1 DEF Drain, Drains
  <2>2. CASE walk \in {"stopW", "stopC"} /\ Stop(h)
    BY <1>0, <2>0, <2>2 DEF Stop, StoppedFirst, ResetInv, TypeOK
  <2>3. CASE walk \in {"deleteW", "deleteC"} /\ Delete(h)
    <3>1. h \in hosts
      BY <2>0 DEF ResetInv, Walked
    <3>2. h \notin Workers \intersect up
      BY <2>3, <3>1 DEF StoppedFirst, ResetInv, Walked, Serial, Workers
    <3> QED
      BY <2>0, <2>3, <3>2 DEF Delete, StoppedFirst
  <2>4. CASE (walk = "uninstall" /\ Uninstall(h)) \/ (walk = "repoint" /\ Repoint(h))
    BY <1>1, <2>0, <2>4 DEF Uninstall, Repoint
  <2> QED
    BY <1>7, <2>1, <2>2, <2>3, <2>4 DEF Visit
<1>8. CASE UNCHANGED vars
  BY <1>8 DEF vars, clusterVars, StoppedFirst
<1> QED
  BY <1>2, <1>3, <1>4, <1>5, <1>6, <1>7, <1>8 DEF Next, Process

\* Every step keeps KeptForOne.
LEMMA KeptForOneStep == ResetInv /\ KeptForOne /\ [Next]_vars => KeptForOne'
<1> SUFFICES ASSUME ResetInv, KeptForOne, [Next]_vars PROVE KeptForOne'
  OBVIOUS
<1>1. ASSUME UNCHANGED <<targets, keep>>, walk' \in Serial => walk \in Serial
      PROVE  KeptForOne'
  BY <1>1, ControlShrinks DEF KeptForOne, AtMostOne, surviving, removing
<1>2. ASSUME walk' \notin Serial PROVE KeptForOne'
  BY <1>2 DEF KeptForOne
<1>3. CASE Prepare
  <2>1. ASSUME NEW candidates, Picks(candidates) PROVE KeptForOne'
    <3> SUFFICES ASSUME keep' PROVE targets # {} /\ AtMostOne(surviving) /\ AtMostOne(removing)
      BY <1>3, <2>1, PrepareCases DEF Picks, KeptForOne, surviving, removing, control, clusterVars
    <3>1. ~Refused /\ KeepEngine
      BY <2>1 DEF Picks
    <3>2. surviving \subseteq Hosts /\ removing \subseteq Hosts
      BY DEF surviving, removing, control, ResetInv, TypeOK
    <3>3. Cardinality(surviving) < 2 /\ removing # {} /\ Cardinality(removing) < 2
      BY <3>1, <3>2, AtMostOneSize DEF Refused, KeepEngine
    <3> QED
      BY <3>2, <3>3, AtMostOneSize DEF removing
  <2> QED
    BY <1>2, <1>3, <2>1, PrepareCases DEF End, Serial
<1>4. CASE EndWalk
  <2>1. \/ walk' \notin Serial
        \/ walk \in Serial /\ UNCHANGED <<targets, keep>>
    BY <1>4, LeaveCases DEF End, Serial
  <2> QED
    BY <1>1, <1>2, <2>1
<1>5. CASE Cut
  BY <1>2, <1>5 DEF Cut, End, Serial
<1>6. ASSUME NEW C \in SUBSET Hosts, NEW T \in TargetLists, StartRun(C, T) PROVE KeptForOne'
  BY <1>2, <1>6 DEF StartRun, Serial
<1>7. ASSUME NEW h \in Hosts, Reregister(h) \/ EngineDies(h) \/ Visit(h) PROVE KeptForOne'
  BY <1>1, <1>7 DEF Reregister, EngineDies, Visit, processVars
<1>8. CASE UNCHANGED vars
  BY <1>1, <1>8 DEF vars
<1> QED
  BY <1>3, <1>4, <1>5, <1>6, <1>7, <1>8 DEF Next, Process

\* Every step keeps Unregistered: only a deletion takes a node away.
LEMMA UnregisteredStep ==
  ResetInv /\ StoppedFirst /\ KeptForOne /\ Unregistered /\ [Next]_vars => Unregistered'
<1> SUFFICES ASSUME ResetInv, StoppedFirst, KeptForOne, Unregistered, [Next]_vars PROVE Unregistered'
  OBVIOUS
<1>1. ASSUME node \subseteq node' PROVE Unregistered'
  BY <1>1, ControlShrinks DEF Unregistered, AtMostOne
<1>2. ASSUME NEW h \in Hosts, Visit(h), walk \in {"deleteW", "deleteC"}, Delete(h) PROVE Unregistered'
  <2>0. h \in hosts
    BY <1>2 DEF Visit, Turn, ResetInv, Walked
  <2>1. ASSUME h \in control PROVE AtMostOne(control \ {h})
    <3>1. walk = "deleteC"
      BY <1>2, <2>0, <2>1 DEF control, ResetInv, Walked, Workers
    <3>2. keep
      BY <2>0, <2>1, <3>1 DEF StoppedFirst, control
    <3>3. h \in targets
      BY <2>0, <3>1, <3>2 DEF ResetInv, Walked, Filtered, KeptForOne, Serial
    <3> QED
      BY <2>1, <3>1, <3>2, <3>3 DEF KeptForOne, Serial, AtMostOne, surviving, removing
  <2>2. node \ {h} \subseteq node'
    BY <1>2 DEF Delete
  <2> QED
    BY <2>1, <2>2, ControlShrinks DEF Unregistered, AtMostOne
<1>3. ASSUME ~(\E h \in Hosts : Visit(h) /\ walk \in {"deleteW", "deleteC"} /\ Delete(h))
      PROVE  node \subseteq node'
  BY <1>3, PrepareCases, LeaveCases
     DEF Next, Process, Visit, Drain, Stop, Uninstall, Repoint, Cut, StartRun, Reregister, EngineDies, vars, clusterVars
<1> QED
  BY <1>1, <1>2, <1>3

-----------------------------------------------------------------------------
(* Targets that are gone.                                                  *)

\* A reset that keeps the cluster has targets.
LEMMA KeptTargets == Kept => Filtered = targets /\ targets # {}
  BY DEF Kept, WholeCluster, Filtered

\* The hosts that Reset Worker and Reset Controller pick are all the targets of their
\* role that have a node: the leader is no target, and no two controllers share a name.
LEMMA PickedTargets ==
  ASSUME ResetInv, Kept, HostnamesTell, NEW candidates, Picks(candidates)
  PROVE  targets \intersect ofRole(walk) \intersect node \subseteq candidates
<1>1. surviving # {}
  BY DEF Picks, Refused, Kept
<1>2. leader' \in Controllers /\ leader' \notin targets
  BY <1>1 DEF Picks, FirstOf, surviving, control
<1>3. ASSUME NEW c \in targets, walk = "prepareC", c \in ofRole(walk) PROVE Hostname[c] # Hostname[leader']
  BY <1>2, <1>3 DEF ofRole, HostnamesTell
<1> QED
  BY <1>3, KeptTargets DEF Picks, NotLeader

\* A controller that has lost its node and still runs is not stopped first: another run
\* that removes it has to keep it up.
LEMMA UnregisteredIsKept ==
  ASSUME ResetInv, Unregistered, Kept, ~Refused, ~KeepEngine
  PROVE  targets \intersect Controllers \intersect up \subseteq node
<1> SUFFICES ASSUME NEW c \in targets, c \in Controllers, c \in up, c \notin node PROVE FALSE
  OBVIOUS
<1>1. c \in control /\ c \in removing
  BY DEF control, removing, ResetInv, TypeOK
<1>2. surviving # {}
  BY <1>1 DEF Refused, Kept
<1>3. AtMostOne(surviving)
  BY <1>1 DEF Unregistered, AtMostOne, surviving
<1>4. Cardinality(surviving) < 2
  <2>1. surviving \subseteq Hosts
    BY DEF surviving, control, ResetInv, TypeOK
  <2> QED
    BY <1>3, <2>1, AtMostOneSize
<1> QED
  BY <1>1, <1>2, <1>4 DEF KeepEngine

\* Prepare keeps GoneInv.
LEMMA GonePrepare ==
  ASSUME ResetInv, Unregistered, GoneInv, Prepare
  PROVE  GoneInv'
<1>0. status = "run" /\ walk \in {"prepareW", "prepareC"} /\ UNCHANGED <<up, node, member, conf>>
  BY PrepareCases DEF clusterVars
<1>1. CASE End("err")
  BY <1>1 DEF End, GoneInv
<1>2. CASE ~Refused /\ control = {} /\ targets' = targets
  <2>1. ~Kept
    BY <1>2 DEF Refused, Kept
  <2> QED
    BY <1>0, <1>2, <2>1 DEF GoneInv, Kept, WholeCluster, Filtered
<1>3. ASSUME NEW candidates, Picks(candidates) PROVE GoneInv'
  <2> SUFFICES ASSUME Kept, HostnamesTell PROVE (WorkersGo /\ ControllersGo /\ EnginesGo)'
    BY <1>0, <1>3 DEF Picks, GoneInv, Kept, WholeCluster, Filtered, HostnamesTell
  <2>1. targets \intersect ofRole(walk) \intersect node \subseteq hosts' \union lost'
    BY <1>3, PickedTargets DEF Picks
  <2>2. lost \subseteq lost' /\ targets' = targets /\ keep' = KeepEngine
    BY <1>3 DEF Picks
  <2>3. CASE walk = "prepareW" /\ walk' \in {"drainW", "stopW"}
    <3>1. WorkersDue' \subseteq hosts' \union lost'
      BY <1>0, <2>1, <2>2, <2>3 DEF WorkersDue, ofRole
    <3> QED
      BY <2>3, <3>1 DEF WorkersGo, ControllersGo, EnginesGo
  <2>4. CASE walk = "prepareC" /\ walk' \in {"drainC", "stopC"}
    <3>1. WorkersDue' \subseteq lost'
      BY <1>0, <2>2, <2>4 DEF WorkersDue, GoneInv, WorkersGo
    <3>2. ControllersDue' \subseteq hosts' \union lost'
      BY <1>0, <2>1, <2>2, <2>4 DEF ControllersDue, ofRole, ResetInv, Members, TypeOK
    <3>3. ~keep' => targets \intersect Controllers \intersect up \subseteq node
      BY <1>3, <2>2, UnregisteredIsKept DEF Picks
    <3> QED
      BY <1>0, <2>2, <2>4, <3>1, <3>2, <3>3 DEF WorkersGo, ControllersGo, EnginesGo
  <2> QED
    BY <1>3, <2>3, <2>4 DEF Picks
<1> QED
  BY <1>1, <1>2, <1>3, PrepareCases

\* The end of a walk keeps GoneInv.
LEMMA GoneLeave ==
  ASSUME ResetInv, StoppedFirst, GoneInv, EndWalk
  PROVE  GoneInv'
<1>0. status = "run" /\ UNCHANGED <<up, node, member, conf>>
  BY LeaveCases DEF clusterVars
<1>1. CASE End("err")
  BY <1>1 DEF End, GoneInv
<1>2. ASSUME UNCHANGED <<targets, keep, lost>>, Kept, HostnamesTell,
             WorkersGo /\ ControllersGo /\ EnginesGo =>
                \/ status' = "run" /\ (WorkersGo /\ ControllersGo /\ EnginesGo)'
                \/ /\ status' = "ok"
                   /\ targets \intersect up = {} /\ WorkersDue \subseteq lost /\ ControllersDue \subseteq lost
      PROVE  GoneInv'
  BY <1>0, <1>2 DEF GoneInv, WorkersDue, ControllersDue
<1>3. ASSUME UNCHANGED targets, ~(Kept /\ HostnamesTell) PROVE GoneInv'
  BY <1>0, <1>3 DEF GoneInv, Kept, WholeCluster, Filtered, HostnamesTell
<1>4. CASE ~bad /\ todo = {} /\ walk = "repoint" /\ End("ok")
  <2>1. UNCHANGED <<targets, keep, lost>> /\ status' = "ok"
    BY <1>4 DEF End
  <2> QED
    BY <1>2, <1>3, <1>4, <2>1 DEF WorkersGo, ControllersGo, EnginesGo
<1>5. CASE UNCHANGED <<status, targets, keep, lost>>
  <2>1. WorkersDue' = WorkersDue /\ ControllersDue' = ControllersDue
    BY <1>0, <1>5 DEF WorkersDue, ControllersDue
  <2>2. CASE /\ hosts' = hosts /\ todo' = hosts
             /\ \/ walk = "drainW" /\ walk' = "stopW"
                \/ walk = "stopW" /\ walk' = "deleteW" /\ ~bad /\ todo = {}
                \/ walk = "drainC" /\ walk' = "stopC"
                \/ walk = "stopC" /\ walk' = "deleteC" /\ ~bad /\ todo = {}
    BY <1>0, <1>2, <1>3, <1>5, <2>1, <2>2 DEF WorkersGo, ControllersGo, EnginesGo
  <2>3. CASE walk = "deleteW" /\ walk' = "prepareC" /\ todo = {}
    BY <1>0, <1>2, <1>3, <1>5, <2>1, <2>3 DEF WorkersGo, ControllersGo, EnginesGo
  <2>4. CASE walk = "deleteC" /\ walk' = "uninstall" /\ todo = {} /\ todo' = HostsOf(walk')
    <3>1. Kept => todo' = targets
      BY <2>4, KeptTargets DEF HostsOf
    <3> QED
      BY <1>0, <1>2, <1>3, <1>5, <2>1, <2>4, <3>1 DEF WorkersGo, ControllersGo, EnginesGo
  <2>5. CASE walk = "uninstall" /\ walk' = "repoint" /\ todo = {} /\ ~bad
    BY <1>0, <1>2, <1>3, <1>5, <2>1, <2>5 DEF WorkersGo, ControllersGo, EnginesGo
  <2> QED
    BY <1>0, <1>1, <1>4, <2>2, <2>3, <2>4, <2>5, LeaveCases
<1> QED
  BY <1>1, <1>4, <1>5, LeaveCases

\* A visit keeps GoneInv.
LEMMA GoneVisit ==
  ASSUME ResetInv, StoppedFirst, GoneInv, NEW h \in Hosts, Visit(h)
  PROVE  GoneInv'
<1>0. /\ UNCHANGED <<conf, targets, status, walk, keep, hosts>>
      /\ status = "run" /\ h \in todo /\ h \in hosts /\ todo' = todo \ {h}
  BY DEF Visit, Turn, processVars, ResetInv, Walked
<1> SUFFICES ASSUME Kept, HostnamesTell, WorkersGo, ControllersGo, EnginesGo
             PROVE  (WorkersGo /\ ControllersGo /\ EnginesGo)'
  BY <1>0 DEF GoneInv, Kept, WholeCluster, Filtered, HostnamesTell
<1>1. ASSUME UNCHANGED <<node, member, lost>>, up' \subseteq up,
             walk \notin {"deleteW", "deleteC", "uninstall"}
      PROVE  (WorkersGo /\ ControllersGo /\ EnginesGo)'
  BY <1>0, <1>1 DEF WorkersGo, ControllersGo, EnginesGo, WorkersDue, ControllersDue
<1>2. CASE walk \in Drains /\ Drain(h)
  BY <1>1, <1>2 DEF Drain, Drains
<1>3. CASE walk \in {"stopW", "stopC"} /\ Stop(h)
  BY <1>1, <1>3 DEF Stop
<1>4. CASE walk \in {"deleteW", "deleteC"} /\ Delete(h)
  <2>1. /\ node' \subseteq node /\ node \ {h} \subseteq node' /\ member' \subseteq member
        /\ lost \subseteq lost' /\ up' = up /\ (h \in lost' \/ (h \notin node' /\ h \notin member'))
    BY <1>4 DEF Delete
  <2>2. WorkersDue' \subseteq WorkersDue /\ ControllersDue' \subseteq ControllersDue
        /\ (h \in lost' \/ (h \notin WorkersDue' /\ h \notin ControllersDue'))
    BY <1>0, <2>1 DEF WorkersDue, ControllersDue
  <2>3. walk = "deleteC" /\ ~keep => h \notin up
    BY <1>0 DEF StoppedFirst
  <2> QED
    BY <1>0, <1>4, <2>1, <2>2, <2>3 DEF WorkersGo, ControllersGo, EnginesGo
<1>5. CASE walk = "uninstall" /\ Uninstall(h)
  <2>1. /\ UNCHANGED <<node, member, lost>> /\ up' \subseteq up
        /\ (up' = up \ {h} /\ bad' = bad) \/ bad' = TRUE
    BY <1>5 DEF Uninstall
  <2>2. WorkersDue' = WorkersDue /\ ControllersDue' = ControllersDue
    BY <1>0, <2>1 DEF WorkersDue, ControllersDue
  <2> QED
    BY <1>0, <1>5, <2>1, <2>2 DEF WorkersGo, ControllersGo, EnginesGo
<1>6. CASE walk = "repoint" /\ Repoint(h)
  BY <1>1, <1>6 DEF Repoint
<1> QED
  BY <1>2, <1>3, <1>4, <1>5, <1>6 DEF Visit

\* Every step keeps GoneInv.
LEMMA GoneStep ==
  ResetInv /\ StoppedFirst /\ Unregistered /\ GoneInv /\ [Next]_vars => GoneInv'
<1> SUFFICES ASSUME ResetInv, StoppedFirst, Unregistered, GoneInv, [Next]_vars PROVE GoneInv'
  OBVIOUS
<1>1. CASE Cut
  BY <1>1 DEF Cut, End, GoneInv
<1>2. ASSUME NEW C \in SUBSET Hosts, NEW T \in TargetLists, StartRun(C, T) PROVE GoneInv'
  BY <1>2 DEF StartRun, GoneInv, WorkersGo, ControllersGo, EnginesGo
<1>3. ASSUME NEW h \in Hosts, EngineDies(h) PROVE GoneInv'
  BY <1>3 DEF EngineDies, GoneInv, Kept, WholeCluster, Filtered, HostnamesTell, WorkersGo, ControllersGo,
              EnginesGo, WorkersDue, ControllersDue
<1>4. ASSUME NEW h \in Hosts, Reregister(h) PROVE GoneInv'
  <2>0. /\ UNCHANGED <<up, member, conf, targets, status, walk, keep, hosts, todo, bad, lost>>
        /\ node' = node \union {h} /\ h \in up /\ h \notin node
    BY <1>4 DEF Reregister, historyVars
  <2> SUFFICES ASSUME Kept, HostnamesTell,
                      status = "run" => WorkersGo /\ ControllersGo /\ EnginesGo,
                      status = "ok" => targets \intersect up = {} /\ WorkersDue \subseteq lost
                                         /\ ControllersDue \subseteq lost
               PROVE  /\ status = "run" => (WorkersGo /\ ControllersGo /\ EnginesGo)'
                      /\ status = "ok" => (targets \intersect up = {} /\ WorkersDue \subseteq lost
                                             /\ ControllersDue \subseteq lost)'
    BY <2>0 DEF GoneInv, Kept, WholeCluster, Filtered, HostnamesTell
  <2>1. WorkersDue' = WorkersDue
    BY <2>0 DEF WorkersDue, StoppedFirst
  <2>2. ASSUME status = "run" PROVE (WorkersGo /\ ControllersGo /\ EnginesGo)'
    <3>1. WorkersGo' /\ EnginesGo'
      BY <2>0, <2>1, <2>2 DEF WorkersGo, EnginesGo
    <3>2. ASSUME walk \in {"drainC", "stopC", "deleteC", "uninstall", "repoint"}
          PROVE  ControllersDue' = ControllersDue
      BY <2>0, <2>2, <3>2 DEF ControllersDue, ControllersGo
    <3>3. ControllersGo'
      BY <2>0, <2>2, <3>2 DEF ControllersGo
    <3> QED
      BY <3>1, <3>3
  <2>3. ASSUME status = "ok" PROVE ControllersDue' = ControllersDue
    BY <2>0, <2>3 DEF ControllersDue
  <2> QED
    BY <2>0, <2>1, <2>2, <2>3
<1>5. CASE UNCHANGED vars
  BY <1>5 DEF vars, clusterVars, historyVars, GoneInv, Kept, WholeCluster, Filtered, HostnamesTell, WorkersGo,
              ControllersGo, EnginesGo, WorkersDue, ControllersDue
<1> QED
  BY <1>1, <1>2, <1>3, <1>4, <1>5, GonePrepare, GoneLeave, GoneVisit DEF Next, Process

\* What the walks have done is what the operator may rely on.
LEMMA GoneAtEnd == ResetInv /\ GoneInv => GoneUnlessLost
<1> SUFFICES ASSUME ResetInv, GoneInv, status = "ok", Kept, HostnamesTell, NEW h \in targets
             PROVE  /\ h \notin up
                    /\ h \in member => h \in lost
                    /\ h \in node => h \in lost \/ (keep /\ h \in Controllers)
  BY DEF GoneUnlessLost
<1>1. h \in Hosts /\ member \subseteq node \intersect Controllers /\ keep \in BOOLEAN
  BY DEF ResetInv, TypeOK, Members
<1> QED
  BY <1>1 DEF GoneInv, WorkersDue, ControllersDue, Workers

-----------------------------------------------------------------------------
(* The removal.                                                            *)

\* A reset removes what it was told to and nothing else, and what stays agrees on its
\* server: for any cluster, any targets, any number of runs, wherever they stopped.
THEOREM ResetRemovesExactly == Spec => []RemovalExact
<1>1. Init => RemovalInv
  <2> SUFFICES ASSUME Init PROVE RemovalInv
    OBVIOUS
  <2>1. StoppedFirst /\ KeptForOne /\ AskedInv
    BY DEF Init, StoppedFirst, KeptForOne, AskedInv, SurvivorsUntouched, Serial, Workers
  <2>2. Unregistered /\ GoneInv /\ RepointInv
    BY DEF Init, Unregistered, control, GoneInv, RepointInv
  <2> QED
    BY <2>1, <2>2 DEF RemovalInv
<1>2. ResetInv /\ RemovalInv /\ [Next]_vars => RemovalInv'
  BY AskedStep, RepointStep, StoppedStep, KeptForOneStep, UnregisteredStep, GoneStep DEF RemovalInv
<1>3. ResetInv /\ RemovalInv => RemovalExact
  BY RepointAgrees, GoneAtEnd DEF RemovalInv, RemovalExact, AskedInv
<1> QED
  BY <1>1, <1>2, <1>3, ResetInvariant, PTL DEF Spec
=============================================================================
