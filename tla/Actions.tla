------------------------------ MODULE Actions ------------------------------
(* The onCreate actions of a build (pkg/packager/actions, assemble/actions.go): *)
(* commands that are rendered just before they run, tried again when they fail, *)
(* under a limit on their total time, and whose output later actions read.      *)
EXTENDS Naturals, Sequences, FiniteSets

CONSTANTS
    Plans,          \* [defaults, before, after]: the actions of a definition
    Outputs,        \* what commands print
    Unset,          \* not given
    DefaultWait,    \* how long a wait waits unless its action says (5 minutes)
    MaxTime         \* bound on the clock

VARIABLES
    plan,
    stage,      \* "before", "files", "after", "built" or "failed"
    at,         \* the action of the set that is next or under way
    pc,         \* "render", "loop", "running" or "wait"
    clock,
    try,        \* the action under way: when it began, tries left, this try's begin, its text
    store,      \* the variables and values that actions set
    reached,    \* the endpoint of waits answers
    cancelled,  \* the build was interrupted
    log         \* the actions that went well, and what each printed

actionVars == <<plan, stage, at, pc, clock, try, store, reached, cancelled, log>>

Set == IF stage = "after" THEN plan.after ELSE plan.before
Action == Set[at]

-----------------------------------------------------------------------------
\* actionGetCfg: what the action says, else what its set says.
actionGetCfg(a) ==
    [retries |-> IF a.retries = Unset THEN plan.defaults.retries ELSE a.retries,
     total |-> IF a.total = Unset THEN plan.defaults.total ELSE a.total]
Limited == actionGetCfg(Action).total >= 1

NoTry == [began |-> 0, left |-> 0, begun |-> 0, runs |-> 0, text |-> Unset]

ActionsInit ==
    /\ plan \in Plans
    /\ stage = "before" /\ at = 1 /\ pc = "render" /\ clock = 0 /\ try = NoTry
    /\ store = [n \in {} |-> Unset] /\ reached = FALSE /\ cancelled = FALSE /\ log = <<>>

Fail == stage' = "failed" /\ pc' = "render" /\ UNCHANGED at

\* The set is over after its last action: the files and images of the package stand between the two.
Advance(here) ==
    /\ pc' = "render"
    /\ IF at < Len(Set) THEN at' = at + 1 /\ UNCHANGED stage
       ELSE at' = 1 /\ stage' = (IF here = "before" THEN "files" ELSE "built")

Working == stage \in {"before", "after"} /\ Set # <<>>

\* A set without actions.
Pass ==
    /\ stage \in {"before", "after"} /\ Set = <<>>
    /\ stage' = (IF stage = "before" THEN "files" ELSE "built")
    /\ UNCHANGED <<plan, at, pc, clock, try, store, reached, cancelled, log>>

\* Files and images.
Stage ==
    /\ stage = "files"
    /\ \/ stage' = "after" /\ ~cancelled
       \/ stage' = "failed"
    /\ UNCHANGED <<plan, at, pc, clock, try, store, reached, cancelled, log>>

\* renderAction: a name that nothing has set fails the action; a wait is rendered like a command.
renderAction ==
    /\ Working /\ pc = "render"
    /\ LET a == Action IN
       IF a.reads # Unset /\ a.reads \notin DOMAIN store THEN Fail /\ UNCHANGED try
       ELSE /\ try' = [began |-> clock, left |-> actionGetCfg(a).retries + 1, begun |-> clock, runs |-> 0,
                       text |-> IF a.reads = Unset THEN Unset ELSE store[a.reads]]
            /\ pc' = IF a.wait = "none" THEN "loop" ELSE "wait"
            /\ UNCHANGED <<stage, at>>
    /\ UNCHANGED <<plan, clock, store, reached, cancelled, log>>

\* The timer of the action has fired.
Spent == Limited /\ clock >= try.began + actionGetCfg(Action).total

\* A try that never looks at the timer of the action.
actionRunUntimed ==
    /\ Working /\ pc = "loop" /\ try.left > 0
    /\ pc' = "running" /\ try' = [try EXCEPT !.begun = clock, !.runs = @ + 1]
    /\ UNCHANGED <<plan, stage, at, clock, store, reached, cancelled, log>>

\* actionRun: a try begins; an interrupted build starts no command and uses the tries up.
actionRun ==
    /\ Working /\ pc = "loop" /\ try.left > 0 /\ ~Spent
    /\ IF cancelled THEN pc' = pc /\ try' = [try EXCEPT !.left = @ - 1]
       ELSE pc' = "running" /\ try' = [try EXCEPT !.begun = clock, !.runs = @ + 1]
    /\ UNCHANGED <<plan, stage, at, clock, store, reached, cancelled, log>>

\* The tries or the time are over.
GiveUp ==
    /\ Working /\ pc = "loop" /\ (try.left = 0 \/ Spent)
    /\ Fail
    /\ UNCHANGED <<plan, clock, try, store, reached, cancelled, log>>

Again == pc' = "loop" /\ try' = [try EXCEPT !.left = @ - 1] /\ UNCHANGED <<stage, at, log>>

\* A try has the whole of the limit to itself.
Overdue == Limited /\ clock >= try.begun + actionGetCfg(Action).total

Put(name, v) == [n \in DOMAIN store \union ({name} \ {Unset}) |-> IF n = name THEN v ELSE store[n]]

\* A variable that a failed try left is kept.
SetVariableOnce(a, out) == IF a.sets \in DOMAIN store THEN store ELSE Put(a.sets, out)

\* Set before its pattern is looked at.
SetVariable(a, out) == Put(a.sets, out)

\* parseAndSetValue: the output as text, or as what it parses to.
parseAndSetValue(a, out) == a.puts # Unset => out \in a.parses

CheckVariablePattern(a, out) == a.sets # Unset => out \in a.pattern

\* The command fails, or is killed; or its output is taken, and a variable stays set when the
\* pattern or the parser then refuses the output.
CommandEnds ==
    /\ Working /\ pc = "running"
    /\ \/ Again /\ UNCHANGED store
       \/ /\ ~Overdue /\ ~cancelled
          /\ \E out \in Outputs :
              LET a == Action
                  set == SetVariable(a, out)
              IN IF ~CheckVariablePattern(a, out) \/ ~parseAndSetValue(a, out) THEN store' = set /\ Again
                 ELSE /\ store' = [n \in DOMAIN set \union ({a.puts} \ {Unset}) |-> IF n = a.puts THEN out ELSE set[n]]
                      /\ log' = Append(log, [action |-> a, out |-> out, text |-> try.text])
                      /\ Advance(stage) /\ UNCHANGED try
    /\ UNCHANGED <<plan, clock, reached, cancelled>>

\* There is no cluster to wait for when a package is built.
runWaitClusterAction ==
    /\ Working /\ pc = "wait" /\ Action.wait = "cluster"
    /\ Fail
    /\ UNCHANGED <<plan, clock, try, store, reached, cancelled, log>>

\* The action's own limit only: the defaults of the set do not apply.
WaitLimit == IF Action.total # Unset /\ Action.total > 0 THEN Action.total ELSE DefaultWait

\* waitForNetwork: probes until the endpoint answers; the limit or an interrupt end it.
waitForNetwork ==
    /\ Working /\ pc = "wait" /\ Action.wait = "network"
    /\ \/ /\ reached /\ clock <= try.began + WaitLimit /\ ~cancelled
          /\ log' = Append(log, [action |-> Action, out |-> Unset, text |-> try.text]) /\ Advance(stage)
       \/ (clock >= try.began + WaitLimit \/ cancelled) /\ Fail /\ UNCHANGED log
    /\ UNCHANGED <<plan, clock, try, store, reached, cancelled>>

\* A status code that is none, or not a number, ends the wait at once.
probeHTTP ==
    /\ Working /\ pc = "wait" /\ Action.wait = "badcode"
    /\ Fail
    /\ UNCHANGED <<plan, clock, try, store, reached, cancelled, log>>

Tick ==
    /\ clock < MaxTime /\ clock' = clock + 1 /\ Working
    /\ \/ pc = "running" /\ ~Overdue
       \/ pc = "wait" /\ clock < try.began + WaitLimit
    /\ UNCHANGED <<plan, stage, at, pc, try, store, reached, cancelled, log>>

Reach == ~reached /\ reached' = TRUE /\ UNCHANGED <<plan, stage, at, pc, clock, try, store, cancelled, log>>
Cancel == Working /\ ~cancelled /\ cancelled' = TRUE /\ UNCHANGED <<plan, stage, at, pc, clock, try, store, reached, log>>

ActionsNext ==
    \/ Pass \/ Stage \/ renderAction \/ actionRun \/ GiveUp \/ CommandEnds
    \/ runWaitClusterAction \/ waitForNetwork \/ probeHTTP \/ Tick \/ Reach \/ Cancel

ActionsSpec == ActionsInit /\ [][ActionsNext]_actionVars

-----------------------------------------------------------------------------
\* A command is started once and for each retry, never after the limit, and its action is over
\* within twice the limit: a try that begins in time gets the whole of it again.
TriesBounded ==
    Working /\ pc \in {"loop", "running"} =>
        LET c == actionGetCfg(Action) IN
        /\ try.runs <= c.retries + 1
        /\ Limited => clock <= try.began + 2 * c.total
        /\ Limited /\ pc = "running" => try.begun < try.began + c.total

\* The output of the last action that went well and set the name, among the first n.
Said(name, n) ==
    LET setters == {i \in 1..n : name \in {log[i].action.sets, log[i].action.puts}}
    IN IF setters = {} THEN Unset ELSE log[CHOOSE i \in setters : \A j \in setters : j <= i].out

\* What an action reads was printed by a try that went well, though failed tries leave variables too.
ReadsWhatWentWell ==
    /\ \A i \in DOMAIN log : log[i].action.reads # Unset => log[i].text = Said(log[i].action.reads, i - 1)
    /\ Working /\ pc # "render" /\ Action.reads # Unset => try.text = Said(Action.reads, Len(log))

\* A package is built only when every action went well, in order, the files between the two sets.
AllInOrder ==
    LET done == [i \in DOMAIN log |-> log[i].action] IN
    /\ stage = "built" => done = plan.before \o plan.after
    /\ stage \in {"files", "after"} => SubSeq(done, 1, Len(plan.before)) = plan.before

\* The actions of a build.
ActionsSound == TriesBounded /\ ReadsWhatWentWell /\ AllInOrder
=============================================================================
