------------------------------ MODULE Firewall ------------------------------
(* What a host's firewall does with a packet after the plans that were        *)
(* applied to it.  One neutral plan - trusted nodes and networks, exposed     *)
(* ports, ordered rules - is rendered by three backends: nftables replaces    *)
(* one table as a whole, ufw edits an ordered list of rules next to a record  *)
(* of its own, firewalld adds to zones, ipsets and policies.  Commands that   *)
(* fail are HostConfig's; here a command fails only when the firewall refuses *)
(* what it says.                                                              *)
EXTENDS Naturals, Sequences, SequencesExt, FiniteSets, FiniteSetsExt, TLC

CONSTANTS
    Covers,     \* an address or network: [family, atoms]; what parses as neither is not in its domain
    Lower,      \* the spellings of actions, directions and protocols, to lower case
    Kinds,      \* the backends
    Plans,      \* the plans of the documents, a sequence
    Packets,    \* [dir, src, dst, in, out, proto, port]
    MaxApplies

VARIABLES
    backend,    \* the host's backend
    chains,     \* nftables: the chains of the table `inet cargoship`
    list,       \* ufw: its rules, in order
    recorded,   \* ufw: the rules in cargoship's state file
    profile,    \* ufw: the ports of the profile cargoship-ports
    ipsets,     \* firewalld: the sources of the trusted zone
    service,    \* firewalld: the ports of the service distro-exposed-ports in the public zone
    zone,       \* firewalld: the ports and rich rules of the public zone
    policies,   \* firewalld: the policies, by file name
    past,       \* the numbers of the plans applied so far, the last one last
    ok,         \* did the last apply end without an error?
    clean       \* did all of them?

nftVars == chains
ufwVars == <<list, recorded, profile>>
firewalldVars == <<ipsets, service, zone, policies>>
firewallVars == <<backend, nftVars, ufwVars, firewalldVars, past, ok, clean>>

-----------------------------------------------------------------------------
(* Rules and packets.                                                       *)

\* A port is <<>> (any) or <<low, high>>.
NormalizedAction(r) == Lower[r.action]
NormalizedDirection(r) == IF r.direction = "" THEN "in" ELSE Lower[r.direction]
NormalizedProtocol(r) == Lower[r.protocol]

IsEmpty(p) == p.nodes = <<>> /\ p.cidrs = <<>> /\ p.ports = <<>> /\ p.rules = <<>> /\ p.policies = <<>>
Trusted(p) == p.nodes \o p.cidrs

InPorts(range, port) == range = <<>> \/ port \in range[1]..range[2]
InAddress(a, atom) == a \in {"", "any"} \/ (a \in DOMAIN Covers /\ atom \in Covers[a].atoms)
IsAddress(a) == a \notin {"", "any"}

\* A rendered rule matches on [dir, src, dst, in, out, proto, port]; "" and <<>> are any.
Match(dir, src, dst, in, out, proto, port) ==
    [dir |-> dir, src |-> src, dst |-> dst, in |-> in, out |-> out, proto |-> proto, port |-> port]
Matches(m, pkt) ==
    /\ m.dir = pkt.dir
    /\ InAddress(m.src, pkt.src) /\ InAddress(m.dst, pkt.dst)
    /\ m.in \in {"", pkt.in} /\ m.out \in {"", pkt.out}
    /\ m.proto \in {"", pkt.proto}
    /\ InPorts(m.port, pkt.port)
FromAny(dir, proto, port) == Match(dir, "", "", "", "", proto, port)
From(a) == Match("in", a, "", "", "", "", <<>>)
RuleMatch(r) ==
    Match(NormalizedDirection(r), r.source, r.destination, r.ingress, r.egress, NormalizedProtocol(r), r.port)

\* Addresses of two families in one rule: every firewall refuses it.
Mixed(r) == /\ IsAddress(r.source) /\ IsAddress(r.destination)
            /\ Covers[r.source].family # Covers[r.destination].family

\* The verdict of the first rule of a sequence that matches.
FirstOf(rules, pkt) ==
    LET M == {k \in DOMAIN rules : Matches(rules[k].match, pkt)}
    IN IF M = {} THEN "default" ELSE rules[Min(M)].verdict

-----------------------------------------------------------------------------
(* nftables: the table is rendered as a whole and replaces the one before.   *)

nftVerdict(action) == CASE action = "allow" -> "accept" [] action = "deny" -> "drop" [] action = "reject" -> "reject"

nftAddrFamily(a) == Covers[a].family
\* What parses as neither address nor network is left out.
NftSplitFamilies(addrs, family) ==
    SelectSeq(addrs, LAMBDA a : a \in DOMAIN Covers /\ Covers[a].family = family)

nftPortProtocol(port) == IF Lower[port.protocol] = "" THEN "tcp" ELSE Lower[port.protocol]
nftSortedProtocols(ports) ==
    SelectSeq(<<"sctp", "tcp", "udp">>, LAMBDA proto : \E k \in DOMAIN ports : nftPortProtocol(ports[k]) = proto)
nftPortsFor(ports, proto) == SelectSeq(ports, LAMBDA p : nftPortProtocol(p) = proto)

\* The elements of a named set; nft refuses two intervals that overlap and differ.
nftSets(p) ==
    [trusted |-> {{Covers[a].atoms : a \in ToSet(NftSplitFamilies(Trusted(p), f))} : f \in {4, 6}},
     ports |-> {{q.port[1]..q.port[2] : q \in ToSet(nftPortsFor(p.ports, proto))} : proto \in ToSet(nftSortedProtocols(p.ports))}]
Overlapping(set) == \E x, y \in set : x # y /\ x \intersect y # {}

nftRule(r) == [match |-> RuleMatch(r), verdict |-> nftVerdict(NormalizedAction(r))]
nftTrust(p) ==
    FlattenSeq([f \in 1..2 |-> LET addrs == NftSplitFamilies(Trusted(p), <<4, 6>>[f])
                               IN [k \in DOMAIN addrs |-> [match |-> From(addrs[k]), verdict |-> "accept"]]])
nftPorts(p) ==
    [k \in DOMAIN p.ports |-> [match |-> FromAny("in", nftPortProtocol(p.ports[k]), p.ports[k].port), verdict |-> "accept"]]

\* Mutant: the inventory's rules go in front of the trust.
rulesFirst(p) ==
    [c \in {"in", "out", "forward"} |->
        SelectSeq([k \in DOMAIN p.rules |-> nftRule(p.rules[k])] \o nftTrust(p) \o nftPorts(p), LAMBDA r : r.match.dir = c)]

\* The chains hook input, output and forward; each hook's rules keep the plan's order.
nftChainRules(p) ==
    [c \in {"in", "out", "forward"} |->
        SelectSeq(nftTrust(p) \o nftPorts(p) \o [k \in DOMAIN p.rules |-> nftRule(p.rules[k])], LAMBDA r : r.match.dir = c)]

\* `nft -c` refuses "any" as an address, two families in a rule and overlapping intervals.
nftRefuses(p) ==
    \/ \E r \in ToSet(p.rules) : r.source = "any" \/ r.destination = "any" \/ Mixed(r)
    \/ \E s \in nftSets(p).trusted : Overlapping(s)
    \/ \E s \in nftSets(p).ports : Overlapping(s)
nftRuleset(p) == IF IsEmpty(p) THEN [c \in {"in", "out", "forward"} |-> <<>>] ELSE nftChainRules(p)
nftEnforces(pkt) == FirstOf(chains[pkt.dir], pkt)

NftablesApply(p) ==
    /\ backend = "nftables"
    /\ chains' = (IF nftRefuses(p) THEN chains ELSE nftRuleset(p))
    /\ ok' = ~nftRefuses(p)
    /\ UNCHANGED <<ufwVars, firewalldVars>>

-----------------------------------------------------------------------------
(* ufw: the rules of the record that the plan has dropped are deleted, those *)
(* of the plan are added.                                                    *)

ufwProtocols == {"", "tcp", "udp"}
ufwAddress(a) == IF a = "" THEN "any" ELSE a
ufwLine(m, verdict, comment) == [match |-> m, verdict |-> verdict, comment |-> comment]
ProfileMatch == Match("in", "any", "any", "", "", "profile", <<>>)

ufwProfile(p) ==
    {[proto |-> IF Lower[q.protocol] = "" THEN "tcp" ELSE Lower[q.protocol], port |-> q.port] : q \in ToSet(p.ports)}
ufwTrust(p) ==
    LET addrs == SelectSeq(Trusted(p), LAMBDA a : a # "")
    IN [k \in DOMAIN addrs |-> ufwLine(Match("in", addrs[k], "any", "", "", "", <<>>), "accept", "cluster")]
ufwRule(r) ==
    ufwLine([RuleMatch(r) EXCEPT !.src = ufwAddress(r.source), !.dst = ufwAddress(r.destination)],
            nftVerdict(NormalizedAction(r)), <<"rule", r.name>>)

ufwRules(p) == (IF p.ports = <<>> THEN <<>> ELSE <<ufwLine(ProfileMatch, "accept", "ports")>>)
               \o ufwTrust(p) \o [k \in DOMAIN p.rules |-> ufwRule(p.rules[k])]

\* A rule is added at the end, or takes the place of the one with its match.
ufwAdd(rules, r) ==
    IF \E k \in DOMAIN rules : rules[k].match = r.match
    THEN [k \in DOMAIN rules |-> IF rules[k].match = r.match THEN r ELSE rules[k]]
    ELSE Append(rules, r)
\* A rule is deleted by its match and its action, whatever its comment.
stripComment(r) == [match |-> r.match, verdict |-> r.verdict]
deleteRule(rules, r) == SelectSeq(rules, LAMBDA x : stripComment(x) # stripComment(r))
\* ufw knows neither sctp nor dccp, takes one family in a rule and no source that does not parse.
ufwTakes(r) == /\ r.match.proto \in ufwProtocols \union {"profile"}
               /\ \A a \in {r.match.src, r.match.dst} : IsAddress(a) => a \in DOMAIN Covers
               /\ IsAddress(r.match.src) /\ IsAddress(r.match.dst) => Covers[r.match.src].family = Covers[r.match.dst].family

Deleted(p) == FoldSeq(LAMBDA r, rules : deleteRule(rules, r), list, SelectSeq(recorded, LAMBDA r : r \notin ToSet(ufwRules(p))))
\* The rules up to the first that ufw refuses.
Taken(p) == SelectSeq([k \in DOMAIN ufwRules(p) |-> <<k, ufwRules(p)[k]>>],
                      LAMBDA kr : \A j \in 1..kr[1] : ufwTakes(ufwRules(p)[j]))
Added(p, rules) == FoldLeft(LAMBDA acc, kr : ufwAdd(acc, kr[2]), rules, Taken(p))

\* Mutant: the dropped rules are deleted once the new ones stand.
addThenDelete(p) ==
    FoldSeq(LAMBDA r, rules : deleteRule(rules, r), Added(p, list), SelectSeq(recorded, LAMBDA r : r \notin ToSet(ufwRules(p))))

Reconcile(p) == Added(p, Deleted(p))

UFWApply(p) ==
    /\ backend = "ufw"
    /\ profile' = ufwProfile(p)
    /\ IF \E q \in ufwProfile(p) : q.proto \notin ufwProtocols
       THEN ok' = FALSE /\ UNCHANGED <<list, recorded>>
       ELSE /\ list' = Reconcile(p)
            /\ ok' = (Len(Taken(p)) = Len(ufwRules(p)))
            /\ recorded' = (IF ok' THEN ufwRules(p) ELSE recorded)
    /\ UNCHANGED <<nftVars, firewalldVars>>

\* The rule that names the profile stands for the profile's ports.
Expanded(r) ==
    IF r.match # ProfileMatch THEN <<r>>
    ELSE LET P == SetToSeq(profile) IN [k \in DOMAIN P |-> [r EXCEPT !.match = FromAny("in", P[k].proto, P[k].port)]]
ufwEnforces(pkt) == FirstOf(FlattenSeq([k \in DOMAIN list |-> Expanded(list[k])]), pkt)

-----------------------------------------------------------------------------
(* firewalld: sources of the trusted zone, the public zone, policies.        *)

firewalldTarget(action) == CASE action = "allow" -> "ACCEPT" [] action = "deny" -> "DROP" [] action = "reject" -> "REJECT"
Verdict(target) == CASE target = "ACCEPT" -> "accept" [] target = "DROP" -> "drop" [] target = "REJECT" -> "reject"

firewalldPolicy(r) ==
    [target |-> firewalldTarget(NormalizedAction(r)), in |-> r.ingress, out |-> r.egress,
     ports |-> IF r.port = <<>> THEN {} ELSE {[proto |-> NormalizedProtocol(r), port |-> r.port]}]

\* A rule that only names a port is a port of the zone; any other one is a rich rule of a family.
firewalldFamily(r) == IF \E a \in {r.source, r.destination} : a \in DOMAIN Covers /\ Covers[a].family = 6 THEN 6 ELSE 4
PortOnly(r) == r.source = "" /\ r.destination = "" /\ NormalizedDirection(r) = "in"
firewalldZoneCmd(r) ==
    IF PortOnly(r) THEN [family |-> {4, 6}, match |-> FromAny("in", NormalizedProtocol(r), r.port), target |-> "ACCEPT"]
    ELSE [family |-> {firewalldFamily(r)}, match |-> [RuleMatch(r) EXCEPT !.dir = "in"], target |-> firewalldTarget(NormalizedAction(r))]
firewalldRefuses(r) ==
    \/ PortOnly(r) /\ (r.port = <<>> \/ firewalldTarget(NormalizedAction(r)) # "ACCEPT")
    \/ r.source = "any" \/ r.destination = "any" \/ Mixed(r)

\* An empty list leaves the set of the plan before.
applyClusterTrust(p) ==
    [nodes |-> IF p.nodes = <<>> THEN ipsets.nodes ELSE ToSet(p.nodes),
     subnets |-> IF p.cidrs = <<>> THEN ipsets.subnets ELSE ToSet(p.cidrs)]
applyPorts(p) == IF p.ports = <<>> THEN service ELSE {[proto |-> q.protocol, port |-> q.port] : q \in ToSet(p.ports)}

Forward(r) == NormalizedDirection(r) = "forward"
\* The rules before the first in or out rule that is refused.
Rendered(p) ==
    {p.rules[k] : k \in {j \in DOMAIN p.rules : \A i \in 1..j : Forward(p.rules[i]) \/ ~firewalldRefuses(p.rules[i])}}
applyPolicies(p) == p.policies @@ policies

RulePolicies(p) ==
    [n \in {<<"cargoship", r.name>> : r \in {x \in Rendered(p) : Forward(x)}} |->
        firewalldPolicy(CHOOSE r \in Rendered(p) : Forward(r) /\ r.name = n[2])]
RuleCommands(p) == {firewalldZoneCmd(r) : r \in {x \in Rendered(p) : ~Forward(x)}}

\* What is written is in force after the restart that ends an apply; one that fails before
\* it leaves it to the next.
FirewalldApply(p) ==
    /\ backend = "firewalld"
    /\ ipsets' = applyClusterTrust(p)
    /\ service' = applyPorts(p)
    /\ policies' = RulePolicies(p) @@ applyPolicies(p)
    /\ zone' = zone \union RuleCommands(p)
    /\ ok' = (\A r \in ToSet(p.rules) : Forward(r) \/ ~firewalldRefuses(r))
    /\ UNCHANGED <<nftVars, ufwVars>>

\* External: a source of the trusted zone is accepted; in the public zone what denies goes
\* before what allows; a policy accepts its ports and does with the rest as its target says.
FromTrusted(pkt) == \E a \in ipsets.nodes \union ipsets.subnets : InAddress(a, pkt.src)
ZoneRules(pkt) == {z \in zone : Matches(z.match, pkt) /\ \E a \in DOMAIN Covers : pkt.src \in Covers[a].atoms /\ Covers[a].family \in z.family}
InService(pkt) == \E q \in service : q.proto = pkt.proto /\ InPorts(q.port, pkt.port)
ZoneVerdict(pkt) ==
    LET denies == {z \in ZoneRules(pkt) : z.target # "ACCEPT"}
    IN CASE FromTrusted(pkt) -> "accept"
         [] ~FromTrusted(pkt) /\ denies # {} -> Verdict((CHOOSE z \in denies : TRUE).target)
         [] ~FromTrusted(pkt) /\ denies = {} /\ (InService(pkt) \/ ZoneRules(pkt) # {}) -> "accept"
         [] OTHER -> "default"
PolicyVerdict(pkt) ==
    LET Between == {n \in DOMAIN policies : policies[n].in = pkt.in /\ policies[n].out = pkt.out}
        pol == policies[CHOOSE n \in Between : TRUE]
    IN IF Between = {} THEN "default"
       ELSE IF \E q \in pol.ports : q.proto = pkt.proto /\ InPorts(q.port, pkt.port) THEN "accept"
       ELSE Verdict(pol.target)
firewalldEnforces(pkt) ==
    CASE pkt.dir = "in" -> ZoneVerdict(pkt) [] pkt.dir = "forward" -> PolicyVerdict(pkt) [] pkt.dir = "out" -> "default"

-----------------------------------------------------------------------------
(* Applies.                                                                  *)

FirewallInit ==
    /\ backend \in Kinds
    /\ chains = [c \in {"in", "out", "forward"} |-> <<>>]
    /\ list = <<>> /\ recorded = <<>> /\ profile = {}
    /\ ipsets = [nodes |-> {}, subnets |-> {}] /\ service = {} /\ zone = {} /\ policies = <<>>
    /\ past = <<>> /\ ok = TRUE /\ clean = TRUE

\* A plan that asks for nothing is not applied, and what an earlier one left stays.
ConfigureFirewall(k) ==
    /\ Len(past) < MaxApplies
    /\ ~IsEmpty(Plans[k])
    /\ NftablesApply(Plans[k]) \/ UFWApply(Plans[k]) \/ FirewalldApply(Plans[k])
    /\ past' = Append(past, k)
    /\ clean' = (clean /\ ok')
    /\ UNCHANGED backend

FirewallNext == \E k \in DOMAIN Plans : ConfigureFirewall(k)
FirewallSpec == FirewallInit /\ [][FirewallNext]_firewallVars

-----------------------------------------------------------------------------
(* What the plan asks for.                                                   *)

Enforces(pkt) ==
    CASE backend = "nftables" -> nftEnforces(pkt) [] backend = "ufw" -> ufwEnforces(pkt) [] backend = "firewalld" -> firewalldEnforces(pkt)

\* The parts of a plan that match a packet: the cluster, the ports, then the rules in order.
TrustsSource(p, pkt) == pkt.dir = "in" /\ \E a \in ToSet(Trusted(p)) : a \in DOMAIN Covers /\ pkt.src \in Covers[a].atoms
Exposes(p, pkt) == pkt.dir = "in" /\ \E q \in ToSet(p.ports) : nftPortProtocol(q) = pkt.proto /\ InPorts(q.port, pkt.port)
Deciding(p, pkt) == {k \in DOMAIN p.rules : Matches(RuleMatch(p.rules[k]), pkt)}
PlanVerdict(p, pkt) ==
    IF TrustsSource(p, pkt) \/ Exposes(p, pkt) THEN "accept"
    ELSE IF Deciding(p, pkt) = {} THEN "default"
    ELSE nftVerdict(NormalizedAction(p.rules[Min(Deciding(p, pkt))]))

\* No packet has two answers in the plan, so that its order does not matter.
OrderFree(p) ==
    \A pkt \in Packets :
        Cardinality({nftVerdict(NormalizedAction(p.rules[k])) : k \in Deciding(p, pkt)}
                    \union (IF TrustsSource(p, pkt) \/ Exposes(p, pkt) THEN {"accept"} ELSE {})) <= 1
\* No rule of the plan has the match of another part of it.
OwnMatches(p) == \A j, k \in DOMAIN ufwRules(p) : ufwRules(p)[j].match = ufwRules(p)[k].match => ufwRules(p)[j].verdict = ufwRules(p)[k].verdict
\* What firewalld can say: no outgoing rules, forward rules between zones only, ports with
\* their protocols spelled out, the cluster in IPv4, no policies of its own kind.
Portable(p) ==
    /\ OrderFree(p) /\ p.policies = <<>>
    /\ \A a \in ToSet(Trusted(p)) : a \in DOMAIN Covers /\ Covers[a].family = 4
    /\ \A q \in ToSet(p.ports) : q.protocol \in {"tcp", "udp"}
    /\ \A r \in ToSet(p.rules) :
          CASE NormalizedDirection(r) = "out" -> FALSE
            [] NormalizedDirection(r) = "forward" -> r.source = "" /\ r.destination = "" /\ r.port = <<>> /\ r.protocol = ""
            [] OTHER -> TRUE

Applied == past # <<>> /\ ok
Now == Plans[past[Len(past)]]
Before == {Plans[past[k]] : k \in DOMAIN past}

\* Every node and network of the cluster reaches the host, whatever else the plan and the
\* plans before it ask for, on nftables and firewalld; on ufw when the plan is the first one
\* (and names no node in a rule of its own).
TrustStands ==
    \A pkt \in Packets :
        /\ Applied /\ TrustsSource(Now, pkt)
        /\ backend = "ufw" => Len(past) = 1 /\ OwnMatches(Now)
        => Enforces(pkt) = "accept"

\* The host does with every packet what the plan says: on nftables under every plan and
\* whatever came before; on ufw under a first plan, and under any later one whose order does
\* not matter; on firewalld, for plans it can express, unless an earlier one, which it never
\* takes back, decided otherwise.
PlanEnforced ==
    Applied /\ clean =>
        \A pkt \in Packets :
            LET wanted == PlanVerdict(Now, pkt)
                earlier == {PlanVerdict(p, pkt) : p \in Before} \ {"default"}
            IN CASE backend = "nftables" -> Enforces(pkt) = wanted
                 [] backend = "ufw" -> (Len(past) = 1 /\ OwnMatches(Now)) \/ OrderFree(Now) => Enforces(pkt) = wanted
                 [] backend = "firewalld" ->
                        (\A p \in Before : Portable(p)) /\ earlier \subseteq {wanted}
                            /\ (pkt.dir = "forward" => \A p \in Before : ~TrustsSource(p, [pkt EXCEPT !.dir = "in"]))
                        => Enforces(pkt) = wanted

\* The three backends do what one plan says: the cluster stays reachable and the plan decides.
FirewallAgrees == TrustStands /\ PlanEnforced
=============================================================================
