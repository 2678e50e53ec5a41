------------------------------- MODULE Preflight -------------------------------
(***************************************************************************)
(* What a run learns of its hosts before it changes one: Connect,          *)
(* DetectOS, GatherFacts and ValidateHosts, and Disconnect at its end. An  *)
(* inventory lists hosts, each one what the configuration says of it and   *)
(* what the machine answers. The walk over the hosts is ParallelEach: a    *)
(* step for each host, in any order, and an error stops the run only once  *)
(* every step of the phase has ended (batches of it are in FleetApply).    *)
(***************************************************************************)
EXTENDS Integers, Sequences, FiniteSets, Functions

CONSTANTS Inventories,   \* the sequences of hosts a run may be given
          Profiles,      \* a function from profile names to what a profile sets
          Modules,       \* the operating systems a module is registered for
          Arches,        \* the architectures cargoship supports
          Carried,       \* those the package carries, {} for a package that says none
          Sanitized,     \* names of rules to what sanitizeName leaves of them
          V6,            \* the addresses that are not four numbers
          MaxSkew,       \* seconds a clock may be away from the median
          MaxDials       \* attempts that fit in Connect's ten minutes

IsList(s) == s \in Seq(Range(s))

ASSUME PreflightAssumption ==
    /\ \A l \in Inventories : IsList(l) /\ \A h \in DOMAIN l : IsList(l[h].rules) /\ IsList(l[h].like) /\ l[h].skew \in Int
    /\ \A p \in DOMAIN Profiles : IsList(Profiles[p].rules)
    /\ MaxSkew \in Nat

VARIABLES inv,      \* the inventory
          facts,    \* what the run knows of each host
          step,     \* the phase, or the function of it that is walking the hosts
          todo,     \* the hosts it has not done
          failed    \* the hosts it failed on
preflightVars == <<inv, facts, step, todo, failed>>

Listed == DOMAIN inv
None == ""

-----------------------------------------------------------------------------
(* Firewall rules of a configuration. *)

NormalizedDirection(r) == IF r.direction = None THEN "in" ELSE r.direction

(* A rule without a name is named for what it matches. *)
Key(r) == IF r.name # None THEN <<Sanitized[r.name]>>
    ELSE <<NormalizedDirection(r), r.action>> \o SelectSeq(<<r.source, r.ingress, r.egress, r.port.text, r.protocol>>, LAMBDA x : x # None)

InRange(n) == n >= 1 /\ n <= 65535
validatePort(p) ==
    \/ p.text = None
    \/ InRange(p.low) /\ (p.range => InRange(p.high) /\ p.high > p.low)

ValidateRule(r) ==
    /\ r.action \in {"allow", "deny", "reject"}
    /\ NormalizedDirection(r) \in {"in", "out", "forward"}
    /\ IF NormalizedDirection(r) = "forward" THEN r.ingress # None /\ r.egress # None ELSE r.ingress = None /\ r.egress = None
    /\ r.protocol \in {None, "tcp", "udp", "sctp", "dccp"}
    /\ validatePort(r.port)
    /\ r.port.text # None => r.protocol # None
    /\ r.source # "not-an-address"

ValidateRules(rs) ==
    /\ \A i \in DOMAIN rs : ValidateRule(rs[i])
    /\ \A i, j \in DOMAIN rs : Key(rs[i]) = Key(rs[j]) => i = j

(* FirewallConfig.Merge: the rules of the profile whose name the host does not use, once each. *)
MergeRules(own, update) ==
    LET merged[n \in 0..Len(update)] ==
            IF n = 0 THEN own
            ELSE IF \E i \in DOMAIN merged[n - 1] : Key(merged[n - 1][i]) = Key(update[n]) THEN merged[n - 1]
            ELSE Append(merged[n - 1], update[n])
    IN merged[Len(update)]

(* A list the host gives is kept, one it leaves out is the profile's, each entry once. *)
MergeList(own, update) ==
    LET copied[n \in 0..Len(update)] ==
            IF n = 0 THEN <<>>
            ELSE IF update[n] \in Range(copied[n - 1]) THEN copied[n - 1] ELSE Append(copied[n - 1], update[n])
    IN IF own # <<>> THEN own ELSE copied[Len(update)]

-----------------------------------------------------------------------------
Unknown == [connected |-> FALSE, dials |-> 0, os |-> None, arch |-> None, name |-> None, iface |-> None, addr |-> None,
            rules |-> <<>>, taints |-> <<>>, skew |-> 0, configurer |-> None]

PreflightInit ==
    /\ inv \in Inventories
    /\ facts = [h \in Listed |-> [Unknown EXCEPT !.iface = inv[h].iface, !.addr = inv[h].addr, !.rules = inv[h].rules, !.taints = inv[h].taints]]
    /\ step = "connect" /\ todo = Listed /\ failed = {}

(* The step is done on host h, and gives f; ok is FALSE when it fails. *)
Done(h, f, ok) ==
    /\ facts' = [facts EXCEPT ![h] = f]
    /\ todo' = todo \ {h}
    /\ failed' = IF ok THEN failed ELSE failed \union {h}
    /\ UNCHANGED <<inv, step>>

(* retry.Timeout: another attempt while there is time for one, and then the last error. *)
TryAgain(h) ==
    IF facts[h].dials < MaxDials THEN facts' = [facts EXCEPT ![h].dials = @ + 1] /\ UNCHANGED <<inv, step, todo, failed>>
    ELSE Done(h, facts[h], FALSE)

(* Connect.Run: a host that answers, one that may answer later, and one whose key is another's, *)
(* which is not tried again. *)
Connect(h) ==
    /\ step = "connect" /\ h \in todo
    /\ \E answer \in inv[h].answers :
        \/ answer = "ok" /\ Done(h, [facts[h] EXCEPT !.connected = TRUE], TRUE)
        \/ answer = "later" /\ TryAgain(h)
        \/ answer = "mismatch" /\ Done(h, facts[h], FALSE)

ResolveOSModule(release) == release \in Modules

(* The releases Host.ResolveConfigurer is asked for: the host's own, and then each one it is like; *)
(* none of a host whose release cannot be read. *)
Releases(h) == IF inv[h].os = None THEN <<>> ELSE <<inv[h].os>> \o inv[h].like

(* The first release with a module; the release that is left is the last one tried. *)
DetectOS(h) ==
    /\ step = "detect" /\ h \in todo
    /\ LET tried == Releases(h)
           hits == {i \in DOMAIN tried : ResolveOSModule(tried[i])}
       IN  \/ \E hit \in hits :
                /\ \A i \in hits : hit <= i
                /\ Done(h, [facts[h] EXCEPT !.os = tried[hit], !.configurer = tried[hit]], TRUE)
           \/ hits = {} /\ Done(h, [facts[h] EXCEPT !.os = IF tried = <<>> THEN None ELSE tried[Len(tried)]], FALSE)

(* What the host answers: its architecture, its name, the device of its private route, *)
Arch(h) == inv[h].uname
Hostname(h) == inv[h].answersTo
PrivateInterface(h) == inv[h].device
(* and the first address of the interface that is not the one dialed. *)
PrivateAddress(h) ==
    LET found == SelectSeq(inv[h].addrs, LAMBDA a : a \notin V6 /\ a # inv[h].public) IN IF found = <<>> THEN None ELSE found[1]

(* GatherFacts.investigateHost: what the configuration gives is not asked of the host. *)
InvestigateHost(h) ==
    /\ step = "investigate" /\ h \in todo
    /\ LET f == facts[h]
           name == IF inv[h].hostname # None THEN inv[h].hostname ELSE Hostname(h)
           iface == IF f.addr = None /\ f.iface = None THEN PrivateInterface(h) ELSE f.iface
           addr == IF f.addr = None /\ iface # None THEN PrivateAddress(h) ELSE f.addr
       IN  IF Arch(h) = None THEN Done(h, f, FALSE)
           ELSE IF name = None THEN Done(h, [f EXCEPT !.arch = Arch(h)], FALSE)
           ELSE Done(h, [f EXCEPT !.arch = Arch(h), !.name = name, !.iface = iface, !.addr = addr], TRUE)

(* GatherFacts.setupProfileOverrides. *)
SetupProfileOverrides(h) ==
    /\ step = "profiles" /\ h \in todo
    /\ Done(h, IF inv[h].profile \in DOMAIN Profiles
               THEN LET p == Profiles[inv[h].profile] IN
                    [facts[h] EXCEPT !.rules = MergeRules(@, p.rules), !.taints = MergeList(@, p.taints)]
               ELSE facts[h], TRUE)

(* hncount and privateaddrcount; a host whose address is not known counts for none. *)
Sharing(h, field) == Cardinality({g \in Listed : facts[g][field] = facts[h][field]})
UniqueName(h) == Sharing(h, "name") = 1
UniqueAddress(h) == facts[h].addr # None => Sharing(h, "addr") = 1

(* hostArch: only an architecture cargoship supports. *)
ParseArch(a) == a \in Arches
ArchCarried(h) == Carried # {} => ParseArch(facts[h].arch) /\ facts[h].arch \in Carried
FirewallUsable(h) == ValidateRules(facts[h].rules)

(* The six checks ValidateHosts makes of a host. *)
ValidateHost(h) ==
    /\ step = "validate" /\ h \in todo
    /\ Done(h, facts[h], /\ UniqueName(h) /\ UniqueAddress(h)
                         /\ inv[h].sudo /\ inv[h].fits
                         /\ FirewallUsable(h) /\ ArchCarried(h))

(* The clock of a host, against the clock here. *)
ReadClock(h) ==
    /\ step = "clocks" /\ h \in todo
    /\ Done(h, [facts[h] EXCEPT !.skew = inv[h].skew], inv[h].clock)

(* validateClockSkew: the skew in the middle of the sorted ones, the later of two (the least that *)
(* more than half of the hosts do not exceed), and how far a host is from it. *)
UpTo(k) == {h \in Listed : facts[h].skew <= k}
Middle == {k \in {facts[h].skew : h \in Listed} : Cardinality(UpTo(k)) > Len(inv) \div 2}
Median == CHOOSE m \in Middle : \A k \in Middle : m <= k
(* A bug: only clocks that are behind. *)
SignedDeviation(h) == facts[h].skew - Median
Deviation(h) == LET d == facts[h].skew - Median IN IF d < 0 THEN -d ELSE d

Following == [connect |-> "detect", detect |-> "investigate", investigate |-> "profiles", profiles |-> "validate",
              validate |-> "clocks", clocks |-> "ready"]
(* Functions of one phase run to the end of the phase, whatever failed in an earlier one. *)
SamePhase(s) == s = "investigate"

(* Every host has done the step: the run goes on, or ends with the errors. *)
NextStep ==
    /\ step \in DOMAIN Following /\ todo = {}
    /\ LET exceeding == step = "clocks" /\ \E h \in Listed : Deviation(h) > MaxSkew
       IN  IF (failed # {} /\ ~SamePhase(step)) \/ exceeding
           THEN step' = "failed" /\ UNCHANGED <<inv, facts, todo, failed>>
           ELSE /\ step' = Following[step]
                /\ todo' = (IF step = "clocks" THEN {} ELSE Listed)
                /\ UNCHANGED <<inv, facts, failed>>

(* Disconnect.Run, once the phases that use the facts are over. *)
Disconnect ==
    /\ step = "ready"
    /\ step' = "over" /\ facts' = [h \in Listed |-> [facts[h] EXCEPT !.connected = FALSE]]
    /\ UNCHANGED <<inv, todo, failed>>

PreflightNext ==
    \/ \E h \in Listed : \/ Connect(h) \/ DetectOS(h) \/ InvestigateHost(h) \/ SetupProfileOverrides(h)
                        \/ ValidateHost(h) \/ ReadClock(h)
    \/ NextStep \/ Disconnect

PreflightSpec == PreflightInit /\ [][PreflightNext]_preflightVars

-----------------------------------------------------------------------------
(* A run that gets past the checks works on hosts that cannot be taken for one another, whatever   *)
(* the configuration left to be discovered: each has a name, no two have one name or one private   *)
(* address, no two clocks are further apart than twice the limit, and each runs a system and an    *)
(* architecture the run can serve. On each host no two firewall rules are written under one name,  *)
(* the host's own rules and taints are as it gave them, and every rule of its profile is there,    *)
(* unless the host has one of that name (10_gather_facts.go, 11_validate_hosts.go).                *)
HostsApart ==
    step = "ready" =>
    /\ \A g, h \in Listed :
        /\ g # h => facts[g].name # facts[h].name /\ (facts[g].addr = facts[h].addr => facts[h].addr = None)
        /\ inv[g].skew - inv[h].skew <= 2 * MaxSkew
    /\ \A h \in Listed :
        LET f == facts[h]  own == inv[h].rules IN
        /\ f.connected /\ f.name # None /\ f.configurer \in {inv[h].os} \union Range(inv[h].like) /\ (Carried # {} => f.arch \in Carried)
        /\ Cardinality({Key(r) : r \in Range(f.rules)}) = Len(f.rules)
        /\ own = SubSeq(f.rules, 1, Len(own)) /\ (inv[h].taints # <<>> => f.taints = inv[h].taints)
        /\ inv[h].profile \in DOMAIN Profiles =>
            \A r \in Range(Profiles[inv[h].profile].rules) : r \in Range(f.rules) \/ \E o \in Range(own) \union Range(Profiles[inv[h].profile].rules) : o # r /\ Key(o) = Key(r)

=============================================================================
