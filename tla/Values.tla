------------------------------- MODULE Values -------------------------------
(* The values of a package (pkg/helmvalues): files that are merged when the  *)
(* package is created and again, under the operator's overrides, when it is  *)
(* installed; the schema they are held to; and what is made of them, the     *)
(* engine configuration, the templated files and the gates of optional ones. *)
(*                                                                           *)
(* A tree of values is a function from the paths of its leaves, sequences of *)
(* keys and list indices, to the leaves; a scalar is a tree whose one path   *)
(* is empty.  Empty maps and lists are left out, and so are templates in     *)
(* keys.  Maps are shared by reference in the code: `links` keeps which      *)
(* branch of the engine configuration is a branch of the values.             *)
EXTENDS Naturals, SequencesExt

CONSTANTS
    Definitions,    \* what authors write: [files, schema, doc]
    ForeignDocs,    \* the documents of packages built elsewhere
    Overrides,      \* values of the cluster configuration and of --values
    Inventories     \* documents given to validate: sequences of [kind, values]

VARIABLES
    source,     \* the definition as its author has it now
    pkg,        \* the package: its documents, values files and schema
    built,      \* what the create-time actions read, and what was merged for them
    run,        \* the last install that got to its phases
    verdict     \* of a validate, until something else is done

valuesVars == <<source, pkg, built, run, verdict>>

-----------------------------------------------------------------------------
(* Paths and trees. *)

MaxIndex == 63
IndexOf(e) == CASE e = "#0" -> 0 [] e = "#1" -> 1 [] e = "#64" -> 64
IsIndex(e) == e \in {"#0", "#1", "#64"}

\* A segment is a key with the indices after it.
parsePath(segs) ==
    /\ segs # <<>> => ~IsIndex(segs[1])
    /\ \A i \in DOMAIN segs : segs[i] # "" /\ (IsIndex(segs[i]) => IndexOf(segs[i]) <= MaxIndex)

valuePath(path) == path.dot /\ parsePath(path.segs)

Below(p, q) == IsPrefix(p, q) /\ p # q
Comparable(p, q) == IsPrefix(p, q) \/ IsPrefix(q, p)
Cut(p, q) == SubSeq(q, Len(p) + 1, Len(q))

Sub(tree, p) ==
    [r \in {Cut(p, q) : q \in {x \in DOMAIN tree : IsPrefix(p, x)}} |-> tree[p \o r]]

Empty == [q \in {} |-> q]
IsMap(tree) == \A q \in DOMAIN tree : q # <<>> /\ ~IsIndex(q[1])

\* A path that runs into a scalar, a missing key or past a list is absent and no error.
GetValuePath(tree, segs) == [there |-> segs = <<>> \/ DOMAIN Sub(tree, segs) # {}, value |-> Sub(tree, segs)]

\* Lists are not merged: a leaf counts at the list it is in.
Atom(q) ==
    LET indices == {i \in DOMAIN q : IsIndex(q[i])} IN
    IF indices = {} THEN q ELSE SubSeq(q, 1, (CHOOSE i \in indices : \A j \in indices : i <= j) - 1)

\* A null is taken for a value that was not set.
MergeNulls(dst, src) ==
    LET set == {q \in DOMAIN src : src[q].kind # "nil"}
        kept == {q \in DOMAIN dst : \A s \in set : ~Comparable(Atom(q), Atom(s))}
    IN [q \in set \union kept |-> IF q \in set THEN src[q] ELSE dst[q]]

\* Neither argument is changed; src wins, key by key, and a scalar and a map replace each other.
MergeValues(dst, src) ==
    LET kept == {q \in DOMAIN dst : \A s \in DOMAIN src : ~Comparable(Atom(q), Atom(s))}
    IN [q \in DOMAIN src \union kept |-> IF q \in DOMAIN src THEN src[q] ELSE dst[q]]

\* setSegments: the path runs into a value that is no container.
setSegments(tree, p) ==
    \A q \in DOMAIN tree : Below(q, p) => tree[q].kind = "nil"

Null == [kind |-> "nil", text |-> "", path |-> <<>>]

\* setIndices: lists and maps do not stand in for each other, and a list grows to the index.
setIndices(tree, p) ==
    \A q \in DOMAIN tree : \A n \in DOMAIN p :
        n <= Len(q) /\ SubSeq(q, 1, n - 1) = SubSeq(p, 1, n - 1) => (IsIndex(q[n]) <=> IsIndex(p[n]))
Grown(tree, p) ==
    {q \in {SubSeq(p, 1, n - 1) \o <<"#0">> : n \in {i \in DOMAIN p : p[i] = "#1"}} : DOMAIN Sub(tree, q) = {}}

\* The leaves of value at p, in place of what is there and of the scalars above.
Put(tree, p, value) ==
    LET grown == Grown(tree, p)
        new == {p \o r : r \in DOMAIN value}
        kept == {q \in DOMAIN tree : ~Comparable(p, q)}
    IN [q \in new \union kept \union grown |->
            IF q \in new THEN value[Cut(p, q)] ELSE IF q \in kept THEN tree[q] ELSE Null]

-----------------------------------------------------------------------------
(* Mappings.  st holds the engine configuration, the values and their links. *)

\* Every path, of either tree, that names what the engine configuration has at p.
Names(st, p) ==
    LET Round(ns, i) ==
            ns \union {[in |-> "values", at |-> l.source \o Cut(l.target, n.at)] :
                         <<l, n>> \in {x \in st.links \X {y \in ns : y.in = "engine"} : Below(x[1].target, x[2].at)}}
               \union {[in |-> "engine", at |-> l.target \o Cut(l.source, n.at)] :
                         <<l, n>> \in {x \in st.links \X {y \in ns : y.in = "values"} : Below(x[1].source, x[2].at)}}
    IN FoldLeft(Round, {[in |-> "engine", at |-> p]}, <<1, 2, 3, 4>>)

\* A write goes to the one object that all of these paths lead to.
Write(st, p, value) ==
    LET names == Names(st, p)
        At(tree, which) == FoldLeft(LAMBDA t, n : Put(t, n.at, value), tree,
                                    SetToSeq({x \in names : x.in = which}))
    IN [st EXCEPT !.engine = At(@, "engine"), !.values = At(@, "values"),
                  !.links = {l \in @ : \A n \in names : n.in = "engine" => ~IsPrefix(n.at, l.target)}]

Failed(st) == [st EXCEPT !.ok = FALSE]

\* The root takes a map, which is copied and merged; any other target takes the value itself.
SetValuePath(st, target, from, value) ==
    IF ~valuePath(target) THEN Failed(st)
    ELSE IF target.segs = <<>> THEN
        IF ~IsMap(value) THEN Failed(st)
        ELSE FoldLeft(LAMBDA s, q : Write(s, q, Sub(value, q)), st, SetToSeq({Atom(q) : q \in DOMAIN value}))
    ELSE IF ~setSegments(st.engine, target.segs) \/ ~setIndices(st.engine, target.segs) THEN Failed(st)
    ELSE LET done == Write(st, target.segs, value) IN
         IF <<>> \in DOMAIN value THEN done
         ELSE [done EXCEPT !.links = @ \union {[target |-> target.segs, source |-> from]}]

\* A source that the values do not define leaves what is there.
ApplyMapping(st, m) ==
    LET got == GetValuePath(st.values, m.source.segs) IN
    IF ~st.ok \/ ~valuePath(m.source) THEN Failed(st)
    ELSE IF ~got.there THEN st
    ELSE SetValuePath(st, m.target, m.source.segs, got.value)

Mapped(engine, values, mappings) ==
    FoldLeft(ApplyMapping, [ok |-> TRUE, engine |-> engine, values |-> values, links |-> {}], mappings)

\* At create time a mapping that cannot be applied is a warning.
checkMappings(engine, values, mappings) ==
    LET Try(st, m) == LET next == ApplyMapping(st, m) IN IF next.ok THEN next ELSE st
    IN FoldLeft(Try, [ok |-> TRUE, engine |-> engine, values |-> values, links |-> {}], mappings).values

-----------------------------------------------------------------------------
(* Templates. *)

\* The type that a rendered text gets: no leading zeros, no floats.
typedScalar(text) ==
    [kind |-> CASE text \in {"true", "false"} -> "bool" [] text = "null" -> "nil"
                [] text \in {"0", "12"} -> "int" [] OTHER -> "str",
     text |-> text, path |-> <<>>]

\* A leaf that holds a template is text like any other until it is rendered.
KindOf(leaf) == IF leaf.kind = "template" THEN "str" ELSE leaf.kind
TextOf(value) ==
    IF <<>> \notin DOMAIN value THEN "map[]"
    ELSE IF value[<<>>].kind = "template" THEN "{{" ELSE value[<<>>].text
IsEmpty(value) == <<>> \in DOMAIN value /\ (value[<<>>].kind = "nil" \/ TextOf(value) \in {"", "false", "0"})

\* {{ .Values.path }}, with a text to default to; what prints as <no value> is refused.
RenderTemplate(leaf, values) ==
    LET got == GetValuePath(values, leaf.path)
        parent == GetValuePath(values, Front(leaf.path))
        text == IF leaf.text # "" /\ (~got.there \/ IsEmpty(got.value)) THEN leaf.text ELSE TextOf(got.value)
    IN IF leaf.kind # "template" THEN [ok |-> TRUE, leaf |-> leaf]
       ELSE IF \/ ~parent.there \/ ~IsMap(parent.value)
               \/ leaf.text = "" /\ (~got.there \/ (<<>> \in DOMAIN got.value /\ got.value[<<>>].kind = "nil"))
            THEN [ok |-> FALSE, leaf |-> leaf]
       ELSE [ok |-> TRUE, leaf |-> typedScalar(text)]

EvaluateValuesTemplates(tree, values) ==
    [ok |-> \A q \in DOMAIN tree : RenderTemplate(tree[q], values).ok,
     tree |-> [q \in DOMAIN tree |-> RenderTemplate(tree[q], values).leaf]]

-----------------------------------------------------------------------------
(* Schemas: the kinds of the leaves, whether there may be others, and which paths have to be set *)
(* or must not be. *)

\* References to other documents are refused, and so is a schema that does not compile.
ParseSchema(schema) == schema.there => ~schema.refs

Validate(schema, tree) ==
    schema.there =>
        /\ \A q \in DOMAIN tree : IF q \in DOMAIN schema.kinds THEN KindOf(tree[q]) \in schema.kinds[q] ELSE schema.open
        /\ \A p \in schema.required : GetValuePath(tree, p).there
        /\ \A p \in schema.without : ~GetValuePath(tree, p).there
        /\ ~schema.never

\* `required` goes wherever it stands: "not: required" becomes "not: {}", which nothing satisfies.
stripRequired(schema) ==
    [schema EXCEPT !.required = {}, !.without = {}, !.never = @ \/ schema.without # {}]

\* The graft under spec.config.values.
ComposeInventory(schema) == IF schema.there THEN stripRequired(schema) ELSE schema

DetectKind(doc) == doc.kind \in {"inventory", "package"}

-----------------------------------------------------------------------------
(* Loading. *)

LoadFiles(files) == FoldLeft(MergeValues, Empty, files)

\* A values file is YAML with a mapping at its top.
ParseFile(file) == IsMap(file)

LoadValues(files, schema, overrides) ==
    LET merged == FoldLeft(MergeValues, LoadFiles(files), overrides)
    IN [ok |-> (\A i \in DOMAIN files : ParseFile(files[i])) /\ ParseSchema(schema) /\ Validate(schema, merged),
        values |-> merged]

\* One document for each apiVersion; the newest that is known counts, and one that is listed twice
\* is an error.
Priority(version) == CASE version = "colonel-byte.dev" -> 2 [] version = "deprecated" -> 1 [] OTHER -> 0
ParseMultiDoc(docs) ==
    LET known == {i \in DOMAIN docs : Priority(docs[i].version) > 0}
        best == {i \in known : \A j \in known : Priority(docs[j].version) <= Priority(docs[i].version)}
    IN IF known = {} \/ \E i, j \in known : i # j /\ docs[i].version = docs[j].version
       THEN [ok |-> FALSE, doc |-> docs[1]]
       ELSE [ok |-> TRUE, doc |-> docs[CHOOSE i \in best : TRUE]]

\* The mappings first: what a value brings is then read as a template.
ApplyValuesMappedFirst(doc, values) ==
    LET st == Mapped(doc.engine, values, doc.mappings)
        rendered == EvaluateValuesTemplates(st.engine, values)
    IN [st EXCEPT !.ok = @ /\ rendered.ok, !.engine = rendered.tree]

\* The text that is rendered is the author's; then the mappings, and a copy of it all.
ApplyValues(doc, values) ==
    LET rendered == EvaluateValuesTemplates(doc.engine, values)
        st == Mapped(rendered.tree, values, doc.mappings)
    IN [st EXCEPT !.ok = @ /\ rendered.ok]

\* The files marked as templates, in place.
RenderFiles(doc, values) == EvaluateValuesTemplates(doc.files, values)

\* A gate that is not set, or not a boolean, is closed.
whenEnabled(gate, values) ==
    LET got == GetValuePath(values, gate.segs) IN
    valuePath(gate) /\ got.there /\ <<>> \in DOMAIN got.value /\ TextOf(got.value) = "true"

-----------------------------------------------------------------------------
NoSchema == [there |-> FALSE, refs |-> FALSE, open |-> TRUE, kinds |-> Empty, required |-> {},
             without |-> {}, never |-> FALSE]
NoPackage == [there |-> FALSE, docs |-> <<>>, files |-> <<>>, schema |-> NoSchema]
NoRun == [there |-> FALSE]

ValuesInit ==
    /\ source \in Definitions
    /\ pkg = NoPackage /\ built = NoRun /\ run = NoRun /\ verdict = NoRun

\* Values files are resolved once, when the package is created: the copies are what is checked and
\* what ships.  The actions of the build read what checkMappings leaves.
packageValues ==
    LET loaded == LoadValues(source.files, source.schema, <<>>)
        bare == source.files = <<>> /\ ~source.schema.there
    IN /\ ~pkg.there /\ (bare \/ loaded.ok)
       /\ pkg' = [there |-> TRUE, docs |-> <<source.doc>>, files |-> source.files, schema |-> source.schema]
       /\ built' = [there |-> TRUE, merged |-> loaded.values,
                    read |-> IF bare THEN Empty
                             ELSE checkMappings(source.doc.engine, loaded.values, source.doc.mappings)]
       /\ verdict' = NoRun
       /\ UNCHANGED <<source, run>>

\* A package that another version of cargoship built may carry several documents.
Foreign ==
    /\ ~pkg.there /\ verdict' = NoRun
    /\ \E docs \in ForeignDocs :
        pkg' = [there |-> TRUE, docs |-> docs, files |-> source.files, schema |-> source.schema]
    /\ UNCHANGED <<source, built, run>>

\* The author, or whoever serves a values file, changes it after the build.
Drift ==
    /\ built.there /\ ~run.there /\ source.files = pkg.files
    /\ \E d \in Definitions :
        /\ d.doc = source.doc /\ d.schema = source.schema /\ d.files # source.files
        /\ source' = d
    /\ verdict' = NoRun
    /\ UNCHANGED <<pkg, built, run>>

\* managerFromLayout: the cluster file over the package, --values over both.
Install ==
    /\ pkg.there /\ ~run.there
    /\ \E cluster \in Overrides, flags \in {<<>>} \union {<<o>> : o \in Overrides} :
        LET parsed == ParseMultiDoc(pkg.docs)
            doc == parsed.doc
            loaded == LoadValues(pkg.files, pkg.schema, <<cluster>> \o flags)
            applied == ApplyValues(doc, loaded.values)
            rendered == RenderFiles(doc, applied.values)
        IN /\ parsed.ok /\ loaded.ok /\ applied.ok /\ rendered.ok
           /\ run' = [there |-> TRUE, doc |-> doc, sources |-> pkg.files \o <<cluster>> \o flags,
                      values |-> loaded.values, read |-> applied.values, engine |-> applied.engine,
                      files |-> rendered.tree, gate |-> whenEnabled(doc.gate, applied.values)]
    /\ verdict' = NoRun
    /\ UNCHANGED <<source, pkg, built>>

\* packageValuesSchema: the package's, or the one of a definition that is still being written.
packageValuesSchema == {source.schema} \union (IF pkg.there THEN {pkg.schema} ELSE {})

\* validate --package: every document is checked, and one that cannot be read ends the command.
validate ==
    /\ ~run.there /\ ~verdict.there
    /\ \E docs \in Inventories, schema \in packageValuesSchema :
        LET composed == ComposeInventory(schema)
            Readable(i) == DetectKind(docs[i]) /\ docs[i].kind = "inventory"
            unread == {i \in DOMAIN docs : ~Readable(i)}
            reached == {i \in DOMAIN docs : \A j \in unread : i < j}
            failures == {i \in reached : ~Validate(composed, docs[i].values)}
        IN /\ ParseSchema(schema)
           /\ verdict' = [there |-> TRUE, docs |-> docs, schema |-> schema, failures |-> failures,
                          ok |-> unread = {} /\ failures = {}]
    /\ UNCHANGED <<source, pkg, built, run>>

ValuesNext == packageValues \/ Foreign \/ Drift \/ Install \/ validate
ValuesSpec == ValuesInit /\ [][ValuesNext]_valuesVars

-----------------------------------------------------------------------------
Sources(m, values) == GetValuePath(values, m.source.segs)
Applied(ms, values) == {i \in DOMAIN ms : Sources(ms[i], values).there}

\* A mapping writes inside a branch that an earlier one put there.
Nested(ms, values) ==
    \E i, j \in Applied(ms, values) :
        /\ i < j /\ ms[i].target.segs # <<>>
        /\ \E r \in DOMAIN Sources(ms[j], values).value : Below(ms[i].target.segs, ms[j].target.segs \o r)
        /\ ms[j].target.segs = <<>> \/ Below(ms[i].target.segs, ms[j].target.segs)

\* A leaf is that of the last of the package's files, the cluster's values and --values that says
\* anything there, whatever they say elsewhere.
LastWordCounts ==
    run.there => \A i \in DOMAIN run.sources : \A q \in DOMAIN run.sources[i] :
        LET over == \E j \in i + 1..Len(run.sources) : \E s \in DOMAIN run.sources[j] : Comparable(Atom(q), Atom(s))
        IN IF over THEN TRUE ELSE q \in DOMAIN run.values /\ run.values[q] = run.sources[i][q]

\* Every reader reads the merged values: the actions of a build, the templated files, the gates.
OneReading ==
    /\ built.there /\ built.read # Empty /\ ~Nested(pkg.docs[1].mappings, built.merged) => built.read = built.merged
    /\ run.there /\ ~Nested(run.doc.mappings, run.values) => run.read = run.values

\* A mapping that no later one touches moves its value unchanged, never read as a template; what no
\* mapping touches is the author's configuration, rendered.
EngineAsMapped ==
    run.there /\ ~Nested(run.doc.mappings, run.values) =>
        LET ms == run.doc.mappings
            applied == Applied(ms, run.values)
            own == EvaluateValuesTemplates(run.doc.engine, run.values).tree
        IN /\ \A i \in applied :
                 (\A j \in applied : i < j => ~Comparable(ms[i].target.segs, ms[j].target.segs)) =>
                     \A r \in DOMAIN Sources(ms[i], run.values).value :
                         run.engine[ms[i].target.segs \o r] = Sources(ms[i], run.values).value[r]
           /\ \A q \in DOMAIN own :
                 (\A i \in applied : ~Comparable(ms[i].target.segs, q)) => run.engine[q] = own[q]

\* What an install reads satisfies the schema that shipped; without overrides it is what the build
\* merged, however the files changed at their source since.
Sealed ==
    run.there =>
        /\ ~Nested(run.doc.mappings, run.values) => Validate(pkg.schema, run.read)
        /\ built.there /\ (\A i \in DOMAIN run.sources : i > Len(pkg.files) => run.sources[i] = Empty) =>
              run.values = built.merged

\* validate raises no false alarm: the values of a document that it refuses would not install over
\* any of the package's own files (for a schema that forbids no path).
NoFalseAlarm ==
    verdict.there /\ pkg.there /\ verdict.schema = pkg.schema /\ pkg.schema.without = {} =>
        \A i \in verdict.failures : ~LoadValues(pkg.files, pkg.schema, <<verdict.docs[i].values>>).ok

\* The values mean the same to everyone who reads them.
ValuesSound == LastWordCounts /\ OneReading /\ EngineAsMapped /\ Sealed /\ NoFalseAlarm
=============================================================================
