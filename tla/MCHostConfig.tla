---------------------------- MODULE MCHostConfig ----------------------------
(* HostConfig for TLC: an Enterprise Linux host with firewalld, a Debian one  *)
(* with ufw, one that has only nftables, and a package with two versions.   *)
EXTENDS HostConfig, TLC

MCKinds ==
    {[preferred |-> "firewalld", running |-> {"firewalld", "nftables"}, installed |-> {"firewalld", "nftables"},
      ruleset |-> FALSE, selinux |-> TRUE, fapolicyd |-> TRUE],
     [preferred |-> "ufw", running |-> {"ufw"}, installed |-> {"ufw"},
      ruleset |-> FALSE, selinux |-> FALSE, fapolicyd |-> FALSE],
     [preferred |-> "", running |-> {"nftables"}, installed |-> {"ufw", "nftables"},
      ruleset |-> TRUE, selinux |-> FALSE, fapolicyd |-> FALSE]}

MCConf ==
    <<[sysctl |-> TRUE, fapolicyd |-> TRUE, executables |-> FALSE, kernel |-> {"br"},
       hostEnv |-> "n1" :> 1, env |-> "n1" :> 2, nodes |-> <<<<1, "n1">>, <<2, "n2">>>>,
       modules |-> "m1" :> <<400, 1>>, booleans |-> "b1" :> TRUE, contexts |-> "c1" :> 1,
       rules |-> {<<"n1", "cluster">>, <<"p1", "old">>},
       files |-> "registries" :> 1 @@ "ca" :> 1 @@ "chart" :> 1],
      [sysctl |-> FALSE, fapolicyd |-> FALSE, executables |-> TRUE, kernel |-> {},
       hostEnv |-> <<>>, env |-> "n2" :> 1, nodes |-> <<<<1, "n2">>, <<1, "n1">>>>,
       modules |-> "m1" :> <<0, 2>> @@ "m2" :> <<300, 1>>, booleans |-> "b1" :> FALSE @@ "b2" :> TRUE,
       contexts |-> "c1" :> 2,
       rules |-> {<<"n1", "cluster">>, <<"p1", "new">>},
       files |-> "registries" :> 2 @@ "chart" :> 2 @@ "release" :> 2]>>

MCOriginal == "b1" :> FALSE @@ "b2" :> FALSE

-----------------------------------------------------------------------------
(* What the engine's files say: hosts of the three distros, and documents that change    *)
(* registries, policies and charts.                                                      *)

VARIABLES subject, node, onDisk, service, version, read, joined, doc, step, restarted, found, settled, again, trips
engineConfig == <<node, onDisk, service, version, read, joined, doc, step, restarted, found, settled, again, trips>>

NoAuth == [user |-> "", pass |-> "", token |-> ""]
Pair(u, p) == [NoAuth EXCEPT !.user = u, !.pass = p]
By(scheme, h) == <<[scheme |-> scheme, host |-> h, user |-> "", rewrite |-> {}]>>
TLS(ca) == <<[ca |-> ca, caFile |-> "", cert |-> "", key |-> "", skip |-> FALSE]>>
Reg(n, a, p, t) == [name |-> n, auth |-> a, proxy |-> p, tls |-> t]
Hub == Reg("docker.io", Pair("u", "p"), By("", "m:5000"), TLS("pem1"))
Quay == Reg("quay.io", Pair("u", "p"), By("https", "m:5000"), TLS("pem1"))
Own == Reg("r.io", [NoAuth EXCEPT !.token = "t"], <<>>, TLS("sealed-pem"))
Rest == Reg("*", Pair("s1", "s2"), By("http", "any"), <<>>)
Rewriting(w) == <<[Hub.proxy[1] EXCEPT !.rewrite = {w}]>>
Group == [compiles |-> TRUE, to |-> "a/$1", refs |-> {1}, groups |-> 1]
Lists ==
    <<<<Hub, Quay, Own>>, <<[Hub EXCEPT !.auth = Pair("s1", "s2"), !.proxy = Rewriting(Group)], [Quay EXCEPT !.auth = Pair("s2", "s1")], Own>>,
      <<Own, Rest>>, <<>>, <<Reg("x.io", NoAuth, By("", "m_5000"), TLS("pem2")), Hub>>,
      \* Lists that are refused.
      <<Hub, [Quay EXCEPT !.auth = Pair("u", "q")]>>, <<Hub, [Quay EXCEPT !.tls = TLS("pem2")]>>, <<Hub, Hub>>,
      <<[Hub EXCEPT !.proxy = By("ftp", "m:5000")]>>, <<[Hub EXCEPT !.proxy = Rewriting([Group EXCEPT !.refs = {2}])]>>,
      <<[Hub EXCEPT !.auth = [NoAuth EXCEPT !.user = "u"]]>>, <<[Hub EXCEPT !.tls[1].cert = "c"]>>, <<Reg("a/b", Pair("u", "p"), <<>>, <<>>)>>,
      <<Reg("r.io", NoAuth, <<>>, <<>>)>>, <<[Hub EXCEPT !.tls[1].ca = "text"]>>>>

Chart(w, e) == [wrapped |-> w, enabled |-> e, images |-> <<<<"k8s.io", "cni">>>>, values |-> "v"]
Kept(v) == [p \in {<<"kube-apiserver-arg">>, <<"cluster-cidr">>, <<"bogus">>} |-> <<v>>]
RancherDoc(r, audit, pss, cs, off, ver) ==
    [name |-> "pkg", version |-> ver, registries |-> Lists[r], audit |-> audit, pss |-> pss, manifest |-> cs, images |-> <<<<"k8s.io", "pause">>>>,
     config |-> IF off = "" THEN Kept("x") ELSE Kept("x") @@ (<<"disable">> :> <<off>>)]
OnOff(e) == "cni" :> Chart(TRUE, e) @@ "dns" :> Chart(FALSE, "unset")
RancherDocs ==
    <<RancherDoc(1, "", "", OnOff("unset"), "", "1.35.1"), RancherDoc(2, "audit", "", OnOff("false"), "", "1.35.1"),
      RancherDoc(3, "audit", "pss", OnOff("unset"), "dns", "9.1"), RancherDoc(4, "", "", <<>>, "", "1.35.1"),
      RancherDoc(5, "other", "", OnOff("odd"), "", "1.35.2")>>
    \o [k \in 1..(Len(Lists) - 5) |-> RancherDoc(k + 5, "", "", <<>>, "", "1.35.1")]
Nested == <<"networking", "serviceSubnet">> :> <<"10.1.0.0/16">> @@ <<"apiServer", "extraArgs">> :> <<"v">> @@ <<"apiServer", "bogus">> :> <<"x">>
UpstreamDocs == [k \in DOMAIN RancherDocs |-> [RancherDocs[k] EXCEPT !.manifest = <<>>, !.config = IF k = 3 THEN <<>> ELSE Nested]]

Node(d, c, l, n) == [distro |-> d, controller |-> c, leader |-> l, name |-> n, address |-> IF l THEN "10.0.0.1" ELSE "", labels |-> IF l THEN "" ELSE "a=b", taints |-> ""]
Common == {<<k>> : k \in {"node-name", "data-dir", "node-ip", "node-label", "node-taint", "token-file", "server"}}
ServerKeys == Common \union {<<k>> : k \in {"tls-san", "agent-token-file", "kube-apiserver-arg", "cluster-cidr", "disable"}}
PolicyKeys == {<<"audit-policy-file">>, <<"pod-security-admission-config-file">>}
Generated ==
    <<"rke2", "1.35">> :> [server |-> ServerKeys \union PolicyKeys, agent |-> Common \union PolicyKeys \union {<<"kube-apiserver-arg">>}]
    @@ <<"k3s", "1.35">> :> [server |-> ServerKeys, agent |-> Common]
    @@ <<"upstream", "1.35">> :> [server |-> {<<"networking">>, <<"networking", "serviceSubnet">>, <<"networking", "podSubnet">>, <<"imageRepository">>,
            <<"apiServer">>, <<"apiServer", "extraArgs">>}, agent |-> {}]

E == INSTANCE EngineConfig WITH host <- node, files <- onDisk, engine <- service, loaded <- read, pc <- step, runs <- trips,
    Hosts <- {Node("rke2", TRUE, TRUE, "a"), Node("rke2", TRUE, FALSE, "b"), Node("rke2", FALSE, FALSE, "w"), Node("k3s", TRUE, TRUE, "a"),
              Node("upstream", TRUE, TRUE, "a"), Node("upstream", FALSE, FALSE, "w")},
    Documents <- [rke2 |-> RancherDocs, k3s |-> RancherDocs, upstream |-> UpstreamDocs], Schema <- Generated,
    Minor <- "1.35.1" :> "1.35" @@ "1.35.2" :> "1.35" @@ "9.1" :> "9.1",
    Meta <- [tls |-> <<"a", "10.0.0.1">>, balancer |-> "lb", leader |-> "a", controllerToken |-> "ct", agentToken |-> "at"],
    BadNames <- {"a/b", "https://a", "a b"}, PEM <- {"pem1", "pem2"},
    Opens <- "s1" :> "u" @@ "s2" :> "p" @@ "sealed-pem" :> "pem3",
    Sanitized <- "m:5000" :> "m_5000" @@ "m_5000" :> "m_5000" @@ "r.io" :> "r.io" @@ "any" :> "any" @@ "x.io" :> "x.io" @@ "docker.io" :> "docker.io" @@ "quay.io" :> "quay.io",
    MaxRuns <- 3

-----------------------------------------------------------------------------
(* What the firewall enforces: plans that trust, expose, deny, reorder, drop and rename. *)

VARIABLES wall, chains, list, ufwRecord, profile, ipsets, portService, zone, policies, past, ok, clean
firewall == <<wall, chains, list, ufwRecord, profile, ipsets, portService, zone, policies, past, ok, clean>>

Rule(n, a, dir, src, dst, port, proto) ==
    [name |-> n, action |-> a, direction |-> dir, source |-> src, destination |-> dst,
     ingress |-> IF dir = "forward" THEN "z1" ELSE "", egress |-> IF dir = "forward" THEN "z2" ELSE "", port |-> port, protocol |-> proto]
In(n, a, src, port, proto) == Rule(n, a, "", src, "", port, proto)
FirewallPlan(nodes, ports, rs) == [nodes |-> nodes, cidrs |-> IF nodes = <<>> THEN <<>> ELSE <<"pods">>, ports |-> ports, rules |-> rs, policies |-> <<>>]
DenyNet == In("a", "Deny", "net", <<>>, "")
Api == <<[protocol |-> "TCP", port |-> <<1, 1>>]>>
Api4 == <<[protocol |-> "tcp", port |-> <<1, 1>>]>>
FirewallPlans ==
    <<FirewallPlan(<<"n1">>, Api, <<DenyNet>>),
      FirewallPlan(<<"n1", "n2">>, Api, <<DenyNet, In("b", "allow", "out", <<2, 3>>, "tcp")>>),
      \* The same match under another name, under another action, and in another order.
      FirewallPlan(<<"n1">>, <<>>, <<In("c", "deny", "out", <<>>, "udp"), In("d", "deny", "out", <<>>, "udp")>>),
      FirewallPlan(<<"n1">>, <<>>, <<In("d", "deny", "out", <<>>, "udp")>>),
      FirewallPlan(<<"n1">>, <<>>, <<In("d", "reject", "out", <<>>, "udp"), In("e", "allow", "out", <<>>, "")>>),
      FirewallPlan(<<"n1">>, <<>>, <<In("e", "allow", "out", <<>>, ""), In("d", "reject", "out", <<>>, "udp")>>),
      \* Plans firewalld can express, and one that denies a node.
      FirewallPlan(<<"n1">>, Api4, <<In("b", "allow", "", <<2, 3>>, "tcp"), In("f", "reject", "out", <<>>, "udp"), Rule("g", "deny", "forward", "", "", <<>>, "")>>),
      FirewallPlan(<<"n2">>, Api4, <<In("f", "reject", "out", <<>>, "udp"), Rule("h", "allow", "forward", "", "", <<>>, "")>>),
      FirewallPlan(<<"n1", "n2">>, <<>>, <<In("i", "deny", "n1", <<>>, "")>>),
      FirewallPlan(<<>>, <<>>, <<Rule("o", "deny", "Out", "", "net", <<>>, "")>>),
      FirewallPlan(<<>>, <<>>, <<Rule("q", "allow", "forward", "", "", <<2, 2>>, "tcp"), Rule("g", "deny", "forward", "", "", <<>>, "")>>),
      FirewallPlan(<<>>, <<>>, <<Rule("q", "allow", "forward", "", "", <<2, 2>>, "tcp")>>),
      \* Refused by one backend or another; the last one asks for nothing.
      FirewallPlan(<<"n1", "v6", "junk">>, Api, <<In("s", "allow", "out", <<2, 2>>, "sctp")>>),
      FirewallPlan(<<"n1", "v6">>, Api, <<DenyNet>>),
      FirewallPlan(<<"n1">>, Api, <<In("a", "allow", "any", <<2, 2>>, "tcp")>>),
      FirewallPlan(<<"n1">>, <<Api[1], [protocol |-> "", port |-> <<1, 3>>]>>, <<>>),
      FirewallPlan(<<"n1">>, <<>>, <<Rule("m", "deny", "", "n1", "v6", <<>>, "")>>),
      [FirewallPlan(<<>>, <<>>, <<>>) EXCEPT !.policies = <<"policy", "legacy">> :> [target |-> "DROP", in |-> "z1", out |-> "z2", ports |-> {}]],
      FirewallPlan(<<>>, <<>>, <<>>)>>
Sources == {"n1", "n2", "pod", "out", "six"}
FirewallPackets ==
    [dir : {"in", "out"}, src : Sources, dst : {"n1"}, in : {""}, out : {""}, proto : {"tcp", "udp"}, port : {1, 2}]
    \union [dir : {"forward"}, src : {"n1", "out"}, dst : {"pod"}, in : {"z1"}, out : {"z2"}, proto : {"tcp"}, port : {1, 2}]

W == INSTANCE Firewall WITH backend <- wall, recorded <- ufwRecord, service <- portService, Kinds <- {"nftables", "ufw", "firewalld"},
    Plans <- FirewallPlans, Packets <- FirewallPackets, MaxApplies <- 3,
    Covers <- "n1" :> [family |-> 4, atoms |-> {"n1"}] @@ "n2" :> [family |-> 4, atoms |-> {"n2"}] @@ "pods" :> [family |-> 4, atoms |-> {"pod"}]
              @@ "net" :> [family |-> 4, atoms |-> {"n1", "n2", "out"}] @@ "out" :> [family |-> 4, atoms |-> {"out"}] @@ "v6" :> [family |-> 6, atoms |-> {"six"}],
    Lower <- [x \in {"", "allow", "deny", "reject", "in", "out", "forward", "tcp", "udp", "sctp"} |-> x]
              @@ "Deny" :> "deny" @@ "Out" :> "out" @@ "TCP" :> "tcp"
FirewallIdle ==
    /\ wall = "nftables" /\ chains = <<>> /\ list = <<>> /\ ufwRecord = <<>> /\ profile = {} /\ ipsets = <<>> /\ portService = {}
    /\ zone = {} /\ policies = <<>> /\ past = <<>> /\ ok = TRUE /\ clean = TRUE

-----------------------------------------------------------------------------
EngineIdle ==
    /\ node = <<>> /\ onDisk = <<>> /\ service = "absent" /\ version = "" /\ read = <<>> /\ joined = FALSE /\ doc = 1 /\ step = "idle"
    /\ restarted = FALSE /\ found = <<>> /\ settled = 0 /\ again = FALSE /\ trips = 0
HostIdle == Init /\ kind = (CHOOSE k \in Kinds : TRUE) /\ cfg = 1
HostInit ==
    \/ subject = "host" /\ Init /\ EngineIdle /\ FirewallIdle
    \/ subject = "engine" /\ HostIdle /\ E!EngineInit /\ FirewallIdle
    \/ subject = "firewall" /\ HostIdle /\ EngineIdle /\ W!FirewallInit
HostNext ==
    \/ subject = "host" /\ Next /\ UNCHANGED <<subject, engineConfig, firewall>>
    \/ subject = "engine" /\ E!EngineNext /\ UNCHANGED <<subject, vars, firewall>>
    \/ subject = "firewall" /\ W!FirewallNext /\ UNCHANGED <<subject, vars, engineConfig>>
HostSpec == HostInit /\ [][HostNext]_<<subject, vars, engineConfig, firewall>>

(* The files of an engine: see EngineConfig. *)
EngineSound == subject = "engine" => E!EngineSound

(* What the three firewalls enforce: see Firewall. *)
FirewallAgrees == subject = "firewall" => W!FirewallAgrees
=============================================================================
