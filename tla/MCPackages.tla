----------------------------- MODULE MCPackages -----------------------------
(* A package of an image, two equal files, another, and a values file, for   *)
(* two architectures, between its build and its install.  The values that    *)
(* it ships (Values) and the actions that its build runs (Actions) share no  *)
(* state with that, so a behaviour is one of the three, which `subject`      *)
(* names.                                                                    *)
EXTENDS Packages, TLC

CONSTANTS p, q, amd64, arm64, k1, k2, Unset
TwoProcs == {p, q}
TwoArches == {amd64, arm64}
TwoKeys == {k1, k2}
Symmetric == Permutations(TwoProcs) \union Permutations(TwoArches) \union Permutations(TwoKeys)

Five == <<"image", "unit", "conf", "binary", "values">>
Groups == [image |-> "images", unit |-> "files", conf |-> "files", binary |-> "os", values |-> "values"]
Answers == [image |-> {5}, unit |-> {1}, conf |-> {3}, binary |-> {1, 2}, values |-> {4}]
Others == [image |-> {5}, unit |-> {7}, conf |-> {}, binary |-> {1, 8}, values |-> {9}]
Sums == [image |-> 0, unit |-> 0, conf |-> 0, binary |-> 1, values |-> 0]

VARIABLES subject, source, pkg, built, run, verdict,
          plan, stage, at, pc, clock, try, store, reached, cancelled, log

-----------------------------------------------------------------------------
(* Values of every kind, defined at create time and overridden; mappings that overlap, nest, grow   *)
(* lists and cannot be applied; documents of other versions; schemas, closed, open and refused.     *)
Leaf(kind, text) == [kind |-> kind, text |-> text, path |-> <<>>]
Template(path, default) == [kind |-> "template", text |-> default, path |-> path]
Text(t) == Leaf("str", t)
Null == Leaf("nil", "")
Twelve == Leaf("int", "12")
Path(s) == [dot |-> TRUE, segs |-> s]
Map(from, to) == [source |-> Path(from), target |-> Path(to)]
Empty == <<>>

Defaults == <<"a", "k">> :> Text("x") @@ <<"a", "on">> :> Leaf("bool", "true") @@ <<"n">> :> Twelve
Trees == {Empty, <<"a", "k">> :> Template(<<"n">>, ""), <<"a">> :> Text("flat"), <<"n">> :> Null,
          <<"l", "#0">> :> Text("0755") @@ <<"a", "on">> :> Text("false"),
          <<"m">> :> Text("x") @@ <<"l", "#1">> :> Twelve @@ <<"l", "#0">> :> Null}
EngineText == <<"cfg", "t">> :> Template(<<"a", "k">>, "") @@ <<"cfg", "d">> :> Template(<<"m">>, "0")
              @@ <<"cfg", "p">> :> Text("own")
MappingLists == {
    <<>>, <<Map(<<"a">>, <<"cfg", "x">>)>>, <<Map(<<"a">>, <<"cfg", "x">>), Map(<<"n">>, <<"cfg", "x", "k">>)>>,
    <<Map(<<"a">>, <<>>), Map(<<"n">>, <<"cfg", "p">>)>>, <<Map(<<"n">>, <<"cfg", "p", "q">>)>>,
    <<Map(<<"n">>, <<"cfg", "l", "#1">>), Map(<<"a", "k">>, <<"cfg", "l", "#0">>)>>,
    <<Map(<<>>, <<"cfg", "all">>), Map(<<"n">>, <<"cfg", "all", "a", "k">>)>>,
    <<Map(<<"a">>, <<"cfg", "x">>), Map(<<"a">>, <<"cfg", "y">>), Map(<<"n">>, <<"cfg", "y", "k">>)>>,
    <<Map(<<"a">>, <<"a">>), Map(<<>>, <<>>)>>,
    <<[Map(<<"n">>, <<"n">>) EXCEPT !.target.dot = FALSE]>>, <<Map(<<"n">>, <<"l", "#64">>)>>,
    <<Map(<<"l">>, <<"cfg", "p">>), Map(<<"l", "#0">>, <<"cfg", "t">>)>>}
Doc(v, ms) == [version |-> v, engine |-> EngineText, mappings |-> ms,
               files |-> <<"motd">> :> Template(<<"a", "k">>, "none"), gate |-> Path(<<"a", "on">>)]
Kinds == <<"a", "k">> :> {"str"} @@ <<"a", "on">> :> {"bool", "str"} @@ <<"n">> :> {"int"} @@ <<"l", "#0">> :> {"str"}
Schema(open, req, without, refs) ==
    [there |-> TRUE, refs |-> refs, open |-> open, kinds |-> Kinds, required |-> req, without |-> without, never |-> FALSE]
NoSchema == [there |-> FALSE, refs |-> FALSE, open |-> TRUE, kinds |-> Empty, required |-> {}, without |-> {}, never |-> FALSE]
Schemas == {NoSchema, Schema(FALSE, {<<"n">>, <<"a", "k">>}, {}, FALSE), Schema(TRUE, {<<"a">>}, {<<"m">>}, FALSE), Schema(TRUE, {}, {}, TRUE)}
New == "colonel-byte.dev"
One == Map(<<"a">>, <<"cfg", "x">>)
AllDefinitions == {[files |-> fs, schema |-> NoSchema, doc |-> Doc(New, ms)] : fs \in {<<>>, <<Defaults>>}, ms \in MappingLists}
    \union {[files |-> fs, schema |-> s, doc |-> Doc(New, <<One>>)] :
              s \in Schemas, fs \in {<<>>, <<Defaults>>} \union {<<Defaults, t>> : t \in Trees}}
Documents == {<<Doc("other", <<>>), Doc("deprecated", <<>>), Doc(New, <<One>>)>>, <<Doc("deprecated", <<>>), Doc("deprecated", <<One>>)>>, <<Doc("other", <<>>)>>}
Inventory(k, t) == [kind |-> k, values |-> t]
Given == {<<Inventory("inventory", t)>> : t \in Trees} \union
    {<<Inventory("inventory", <<"a">> :> Text("flat")), Inventory("package", Empty), Inventory("inventory", <<"m">> :> Twelve)>>, <<Inventory("none", Empty)>>}

V == INSTANCE Values WITH Definitions <- AllDefinitions, ForeignDocs <- Documents, Overrides <- Trees, Inventories <- Given

-----------------------------------------------------------------------------
(* Actions that set what others read, with and without retries and limits, and waits of each kind. *)
Act(w, r, t, reads, sets, puts) ==
    [wait |-> w, retries |-> r, total |-> t, reads |-> reads, sets |-> sets, puts |-> puts,
     pattern |-> {"x", "y"}, parses |-> {"y", "z"}]
Command(r, t, reads, sets, puts) == Act("none", r, t, reads, sets, puts)
Wait(w, t) == Act(w, Unset, t, Unset, Unset, Unset)
Before == {<<>>, <<Command(Unset, Unset, Unset, "v", "w")>>, <<Wait("cluster", Unset)>>,
           <<Command(2, 2, Unset, "v", Unset), [Wait("network", Unset) EXCEPT !.reads = "v"]>>}
After == {<<>>, <<Command(0, 1, "w", Unset, Unset)>>, <<Wait("network", 1), Wait("badcode", Unset)>>,
          <<Command(Unset, Unset, "v", "v", Unset), Command(0, Unset, "v", Unset, Unset)>>}
AllPlans == {[defaults |-> [retries |-> 1, total |-> 0], before |-> b, after |-> a] : b \in Before, a \in After}

A == INSTANCE Actions WITH Plans <- AllPlans, Outputs <- {"x", "y", "z"}, DefaultWait <- 3, MaxTime <- 6

-----------------------------------------------------------------------------
values == <<source, pkg, built, run, verdict>>
actions == <<plan, stage, at, pc, clock, try, store, reached, cancelled, log>>
ValuesIdle == source = <<>> /\ pkg = <<>> /\ built = <<>> /\ run = <<>> /\ verdict = <<>>
ActionsIdle ==
    /\ plan = <<>> /\ stage = "" /\ at = 0 /\ pc = "" /\ clock = 0 /\ try = <<>> /\ store = <<>>
    /\ reached = FALSE /\ cancelled = FALSE /\ log = <<>>

WholeInit ==
    \/ subject = "package" /\ PackagesInit /\ ValuesIdle /\ ActionsIdle
    \/ subject = "values" /\ PackagesInit /\ V!ValuesInit /\ ActionsIdle
    \/ subject = "actions" /\ PackagesInit /\ ValuesIdle /\ A!ActionsInit
WholeNext ==
    \/ subject = "package" /\ PackagesNext /\ UNCHANGED <<subject, values, actions>>
    \/ subject = "values" /\ V!ValuesNext /\ UNCHANGED <<subject, packageVars, actions>>
    \/ subject = "actions" /\ A!ActionsNext /\ UNCHANGED <<subject, packageVars, values>>
WholeSpec == WholeInit /\ [][WholeNext]_<<subject, packageVars, values, actions>>

(* What the actions of a build do (Actions) and what the values of a package mean (Values): see there. *)
CreationSound ==
    /\ subject = "values" => V!ValuesSound
    /\ subject = "actions" => A!ActionsSound
=============================================================================
