---------------------------- MODULE PhaseManager ----------------------------
(***************************************************************************)
(* Manager.Run of pkg/phase/05_manager.go: the loop that takes a command's *)
(* phases in order through Prepare, ShouldRun, Before, Run or DryRun and   *)
(* After, the deferred publication of the result and clean-up, the         *)
(* heartbeat status file it writes, and what the two readers of its result *)
(* say of the run: the run receipt and the Ansible module.                 *)
(*                                                                         *)
(* A phase is known by its position and by what it declares about itself:  *)
(* the optional interfaces it implements.  What its methods return, and    *)
(* whether they touched a host before they returned, is left open.         *)
(***************************************************************************)
EXTENDS Naturals

CONSTANTS
    NPhases,    \* len(m.phases)
    Kinds       \* the combinations of optional interfaces the phases have

\* dry     what ClassifyDryRun answers
\* cleans  implements withcleanup
\* reports what its changedReporter knows: nothing (it has none), some of its
\*         changes, each after it is made (hostChanges), or all of them, told
\*         before it acts (EngineConfigSyncHosts)
\* writes  changes hosts already in Prepare (EngineConfigSyncHosts does)
\* hooks   implements withBefore and withAfter
Kind == [dry : {"own", "readonly", "skip"}, cleans : BOOLEAN, reports : {"no", "some", "all"},
         writes : BOOLEAN, hooks : BOOLEAN]

ASSUME PhaseManagerAssumption ==
    /\ NPhases \in Nat
    /\ Kinds \subseteq {k \in Kind : k.dry = "readonly" => ~k.writes}

Phases == 1..NPhases

Sinks == {"ansible", "receipt"}
NoSink == "none"

VARIABLES
    dryRun,     \* Manager.DryRun
    kind,       \* [Phases -> Kinds]
    installed,  \* SUBSET Sinks: who put a ResultSink on the context
    ctxDone,    \* has the context been cancelled?
    at,         \* the loop's position in m.phases
    step,       \* where in the loop body, or in the deferred functions
    ran, planned, skipped,  \* SUBSET Phases: the slices, appended in order
    warned,     \* SUBSET Phases: the phases that have entries in warnings
    result,     \* "nil" or "err"
    touched,    \* SUBSET Phases: phases that changed something on a host
    marked,     \* SUBSET Phases: phases whose Changed answers true
    executed,   \* SUBSET Phases: phases whose Run or DryRun was called
    cleaned,    \* SUBSET Phases: phases whose CleanUp was called
    statusFile, \* the heartbeat: <<>> or <<phase, status>>
    sink,       \* [Sinks -> what the sink holds]
    report      \* [Sinks -> what its reader says of the run]

loopVars == <<at, step, ran, planned, skipped, warned, result>>
hostVars == <<touched, marked, executed>>
vars == <<dryRun, kind, installed, ctxDone, loopVars, hostVars, cleaned,
          statusFile, sink, report>>

Steps == {"start", "enter", "prepare", "shouldrun", "before", "exec", "after",
          "publish", "cleanup", "over", "reported"}

EmptySink == [observed |-> FALSE, ran |-> {}, planned |-> {}, skipped |-> {},
              warned |-> {}, changed |-> FALSE]

Silence == [ended |-> "none", changed |-> FALSE, signal |-> "none"]

TypeOK ==
    /\ dryRun \in BOOLEAN
    /\ kind \in [Phases -> Kinds]
    /\ installed \subseteq Sinks
    /\ ctxDone \in BOOLEAN
    /\ at \in 1..(NPhases + 1)
    /\ step \in Steps
    /\ step \in {"prepare", "shouldrun", "before", "exec", "after"} => at \in Phases
    /\ {ran, planned, skipped, warned, touched, marked, executed, cleaned} \subseteq SUBSET Phases
    /\ result \in {"nil", "err"}
    /\ statusFile \in {<<>>} \union (Phases \X {"running", "completed", "failed"})
    /\ sink \in [Sinks -> [observed : BOOLEAN, ran : SUBSET Phases,
                           planned : SUBSET Phases, skipped : SUBSET Phases,
                           warned : SUBSET Phases, changed : BOOLEAN]]
    /\ report \in [Sinks -> [ended : {"none", "ok", "failed", "skipped"}, changed : BOOLEAN,
                             signal : {"none", "unknown", "partial", "complete"}]]

Init ==
    /\ dryRun \in BOOLEAN
    /\ kind \in [Phases -> Kinds]
    /\ installed \in SUBSET Sinks
    /\ ctxDone = FALSE
    /\ at = 1
    /\ step = "start"
    /\ ran = {} /\ planned = {} /\ skipped = {} /\ warned = {}
    /\ result = "nil"
    /\ touched = {} /\ marked = {} /\ executed = {} /\ cleaned = {}
    /\ statusFile = <<>>
    /\ sink = [s \in Sinks |-> EmptySink]
    /\ report = [s \in Sinks |-> Silence]

-----------------------------------------------------------------------------
(* The loop.                                                               *)

Rest == UNCHANGED <<dryRun, kind, installed, cleaned, sink, report>>

\* ClassifyDryRun prefers a phase's own dry-run path to its being read-only.
SkipUnderDryRun == dryRun /\ kind[at].dry = "skip"

\* heartbeat.Update, with the status file configured.
Heartbeat(status) == statusFile' = <<at, status>>

\* `continue`: the loop goes on with the next phase.
NextPhase == at' = at + 1 /\ step' = "enter" /\ UNCHANGED result

\* `return result`: the deferred functions run.
Fail == result' = "err" /\ step' = "publish" /\ UNCHANGED at

Goto(s) == step' = s /\ UNCHANGED <<at, result>>

\* What a command does before its phases: the package and the configuration are
\* loaded and the manager is built.  A failure leaves every sink unobserved.
Begin ==
    /\ step = "start"
    /\ \/ Goto("enter")
       \/ result' = "err" /\ step' = "over" /\ UNCHANGED at
    /\ UNCHANGED <<ctxDone, ran, planned, skipped, warned, hostVars, statusFile>> /\ Rest

\* A module with no dry run of its own answers a check-mode task without running.
RefuseCheck ==
    /\ step = "start" /\ dryRun /\ "ansible" \in installed
    /\ report' = [report EXCEPT !["ansible"] = [ended |-> "skipped", changed |-> FALSE,
                                                signal |-> "unknown"]]
    /\ Goto("reported")
    /\ UNCHANGED <<dryRun, kind, installed, ctxDone, ran, planned, skipped, warned, hostVars,
                   cleaned, statusFile, sink>>

\* Mutant of Enter: only a failure is written to the status file.
EnterSilent ==
    /\ step = "enter" /\ at \in Phases
    /\ \/ ctxDone /\ Fail /\ Heartbeat("failed")
       \/ ~ctxDone /\ Goto("prepare") /\ UNCHANGED statusFile
    /\ UNCHANGED <<ctxDone, ran, planned, skipped, warned, hostVars>> /\ Rest

Enter ==
    /\ step = "enter" /\ at \in Phases
    /\ \/ ctxDone /\ Fail /\ Heartbeat("failed")
       \/ ~ctxDone /\ Goto("prepare") /\ Heartbeat("running")
    /\ UNCHANGED <<ctxDone, ran, planned, skipped, warned, hostVars>> /\ Rest

\* A dry run writes nothing in Prepare.
MayWrite(p) == IF kind[p].writes /\ ~dryRun THEN {{}, {p}} ELSE {{}}

\* Mutant of Prepare: the `continue` after a failed Prepare is missing.
PrepareFallsThrough ==
    /\ step = "prepare"
    /\ UNCHANGED <<touched, marked>>
    /\ \/ Goto("shouldrun") /\ UNCHANGED planned
       \/ ~SkipUnderDryRun /\ Fail /\ UNCHANGED planned
       \/ SkipUnderDryRun /\ Goto("shouldrun") /\ planned' = planned \union {at}
    /\ UNCHANGED <<ctxDone, ran, skipped, warned, executed, statusFile>> /\ Rest

\* Prepare succeeds or fails.  One that writes fails before it has written, or
\* between two hosts when the context is cancelled; it marks a host once all its
\* files are written, and otherwise leaves it to Run.  A phase that a dry run was
\* going to skip anyway is reported as planned when it cannot prepare.
Prepare ==
    /\ step = "prepare"
    /\ \E w \in MayWrite(at) :
          /\ touched' = touched \union w
          /\ marked' \in {marked, marked \union w}
          /\ \/ Goto("shouldrun") /\ UNCHANGED planned
             \/ /\ w = {} \/ ctxDone
                /\ ~SkipUnderDryRun /\ Fail /\ UNCHANGED planned
             \/ SkipUnderDryRun /\ NextPhase /\ planned' = planned \union {at}
    /\ UNCHANGED <<ctxDone, ran, skipped, warned, executed, statusFile>> /\ Rest

\* Mutant of ShouldRun: a dry run does not stop before the phase.
ShouldRunUngated ==
    /\ step = "shouldrun"
    /\ \/ skipped' = skipped \union {at} /\ NextPhase
       \/ Goto("before") /\ UNCHANGED skipped
    /\ UNCHANGED <<ctxDone, ran, planned, warned, hostVars, statusFile>> /\ Rest

\* A host whose files could not all be written in Prepare is left to Run, and
\* keeps the phase from being skipped.
ShouldRun ==
    /\ step = "shouldrun"
    /\ \/ /\ at \in touched => at \in marked
          /\ skipped' = skipped \union {at} /\ NextPhase /\ UNCHANGED planned
       \/ /\ SkipUnderDryRun
          /\ planned' = planned \union {at} /\ NextPhase /\ UNCHANGED skipped
       \/ ~SkipUnderDryRun /\ Goto("before") /\ UNCHANGED <<planned, skipped>>
    /\ UNCHANGED <<ctxDone, ran, warned, hostVars, statusFile>> /\ Rest

\* The in-phase hook may change the host too.
Before ==
    /\ step = "before"
    /\ \/ ~kind[at].hooks /\ Goto("exec") /\ UNCHANGED touched
       \/ /\ kind[at].hooks
          /\ touched' = touched \union (IF dryRun THEN {} ELSE {at})
          /\ Goto("exec") \/ Fail
    /\ UNCHANGED <<ctxDone, ran, planned, skipped, warned, marked, executed, statusFile>> /\ Rest

\* What Run or DryRun leaves in the loop's slices, whether or not it failed.
Executed ==
    /\ executed' = executed \union {at}
    /\ ran' = ran \union {at}
    /\ warned' \in {warned, warned \union {at}}

\* DryRun changes nothing; there is no "completed" heartbeat on this path.
DryRun ==
    /\ step = "exec" /\ dryRun /\ kind[at].dry = "own"
    /\ Executed
    /\ NextPhase \/ Fail
    /\ UNCHANGED <<ctxDone, planned, skipped, touched, marked, statusFile>> /\ Rest

\* Mutant of Marks: EngineConfigSyncHosts marks its hosts once they are synced.
MarksOnSuccess(p, done) ==
    IF kind[p].reports = "no" \/ ~done THEN {{}} ELSE {{}, {p}}

\* What Run tells its changedReporter: everything, before the first drain, or a
\* write at a time, after it is made.
Marks(p, done) ==
    IF kind[p].reports = "all" THEN {{p}}
    ELSE IF kind[p].reports = "some" /\ p \in touched' THEN {{}, {p}} ELSE {{}}

\* Run may fail halfway through its changes.
Run ==
    /\ step = "exec" /\ ~(dryRun /\ kind[at].dry = "own")
    /\ Executed
    /\ touched' \in {touched} \union
                    (IF kind[at].dry = "readonly" THEN {} ELSE {touched \union {at}})
    /\ \/ Goto("after") /\ UNCHANGED statusFile
       \/ Fail /\ Heartbeat("failed")
    /\ \E m \in Marks(at, step' = "after") : marked' = marked \union m
    /\ UNCHANGED <<ctxDone, planned, skipped>> /\ Rest

After ==
    /\ step = "after"
    /\ \/ NextPhase /\ Heartbeat("completed")
       \/ kind[at].hooks /\ Fail /\ UNCHANGED statusFile
    /\ UNCHANGED <<ctxDone, ran, planned, skipped, warned, hostVars>> /\ Rest

\* The loop is over.  heartbeat.Clear removes the path heartbeat.Init was given,
\* and no command calls Init: the file named by CARGOSHIP_STATUS_FILE stays.
Finish ==
    /\ step = "enter" /\ at = NPhases + 1
    /\ Goto("publish")
    /\ UNCHANGED <<ctxDone, ran, planned, skipped, warned, hostVars, statusFile>> /\ Rest

-----------------------------------------------------------------------------
(* The deferred functions, and what reads the result.                      *)

\* RunResult.Changed: the phases that ran or were skipped, and that report.
ChangedOf(R, S) == \E p \in R \union S : kind[p].reports # "no" /\ p \in marked

\* The sink ctx.Value finds is the one installed last: the command's receipt
\* sink hides the one the Ansible module put on the context before.
Innermost ==
    IF "receipt" \in installed THEN "receipt"
    ELSE IF "ansible" \in installed THEN "ansible" ELSE NoSink

\* publish merges into an empty result; merge leaves the warnings out.
Merged(s) == [s EXCEPT !.observed = TRUE, !.ran = @ \union ran,
                       !.planned = @ \union planned, !.skipped = @ \union skipped,
                       !.changed = @ \/ ChangedOf(ran, skipped)]

Publish ==
    /\ step = "publish"
    /\ sink' = IF Innermost = NoSink THEN sink
               ELSE [sink EXCEPT ![Innermost] = Merged(@)]
    /\ Goto("cleanup")
    /\ UNCHANGED <<dryRun, kind, installed, ctxDone, ran, planned, skipped, warned,
                   hostVars, cleaned, statusFile, report>>

\* Mutant of CleanUp: the phase that failed is not asked.
CleanUpBeforeFailed ==
    /\ step = "cleanup"
    /\ cleaned' = IF result = "err" THEN {p \in ran : p < at /\ kind[p].cleans} ELSE {}
    /\ Goto("over")
    /\ UNCHANGED <<dryRun, kind, installed, ctxDone, ran, planned, skipped, warned,
                   hostVars, statusFile, sink, report>>

\* Only a failed run cleans up, and every phase that executed is asked.
CleanUp ==
    /\ step = "cleanup"
    /\ cleaned' = IF result = "err" THEN {p \in ran : kind[p].cleans} ELSE {}
    /\ Goto("over")
    /\ UNCHANGED <<dryRun, kind, installed, ctxDone, ran, planned, skipped, warned,
                   hostVars, statusFile, sink, report>>

-----------------------------------------------------------------------------
(* What the readers say.                                                   *)

\* RunResult.Signal, from Undeclared.
SignalOf(s) ==
    IF \A p \in s.ran \union s.planned \union s.skipped : kind[p].reports # "no"
    THEN "complete" ELSE "partial"

\* RunResult.Outstanding.
Outstanding(s) == \E p \in s.planned : kind[p].reports # "no"

\* The answer both readers give of a run they observed.
Answer(s) == IF dryRun THEN Outstanding(s) ELSE s.changed

\* outcomeOf: a run that never reached its phases is unchanged and unknown.  Apply
\* and engine-config sync return what their phases return without keeping it in
\* runErr, so their receipt of a run that fails in its phases says it succeeded.
ReceiptOf(s, keeps) ==
    [ended |-> IF result = "nil" \/ (s.observed /\ ~keeps) THEN "ok" ELSE "failed",
     changed |-> s.observed /\ Answer(s),
     signal |-> IF s.observed THEN SignalOf(s) ELSE "unknown"]

\* runAction and reportChanged: a failed command, or a generated inventory that
\* cannot be removed, leaves the response as it was built; a command that
\* succeeds unobserved counts as a change.
ModuleAnswer(s, removed) ==
    IF result = "err" \/ ~removed
    THEN [ended |-> "failed", changed |-> FALSE, signal |-> "unknown"]
    ELSE [ended |-> "ok", changed |-> ~s.observed \/ Answer(s),
          signal |-> IF s.observed THEN SignalOf(s) ELSE "unknown"]

\* The receipt is not written when no path was given or the write fails.
Report ==
    /\ step = "over"
    /\ \E written, removed, keeps \in BOOLEAN :
          report' = [ansible |-> IF "ansible" \in installed
                                 THEN ModuleAnswer(sink["ansible"], removed) ELSE Silence,
                     receipt |-> IF "receipt" \in installed /\ written
                                 THEN ReceiptOf(sink["receipt"], keeps) ELSE Silence]
    /\ Goto("reported")
    /\ UNCHANGED <<dryRun, kind, installed, ctxDone, ran, planned, skipped, warned, hostVars,
                   cleaned, statusFile, sink>>

Interrupt ==
    /\ step \notin {"publish", "cleanup", "over", "reported"} /\ ~ctxDone
    /\ ctxDone' = TRUE
    /\ UNCHANGED <<loopVars, hostVars, statusFile>> /\ Rest

Next ==
    \/ Enter \/ Prepare \/ ShouldRun \/ Before \/ DryRun \/ Run \/ After \/ Finish
    \/ Publish \/ CleanUp \/ Interrupt \/ Begin \/ RefuseCheck \/ Report

Spec == Init /\ [][Next]_vars /\ WF_vars(Next)

-----------------------------------------------------------------------------
(* Properties.                                                             *)

Over == step \in {"over", "reported"}

\* "A phase added later is safe without anyone having remembered to think about
\* it": in a dry run no phase changes a host, in Prepare, in a hook or in Run,
\* and no phase that declares nothing is executed.
DryRunLeavesHostsAlone ==
    dryRun => touched = {} /\ \A p \in executed : kind[p].dry # "skip"

\* The result accounts for the phases: every one the loop has passed is in
\* exactly one of Ran, Planned and Skipped, and after a failure only the phase
\* that failed in Prepare or Before is in none.
EveryPhaseAccounted ==
    /\ ran \intersect planned = {} /\ ran \intersect skipped = {}
    /\ planned \intersect skipped = {}
    /\ \A p \in Phases : p < at => p \in ran \union planned \union skipped
    /\ \A p \in Phases : p > at => p \notin ran \union planned \union skipped

\* A failed run cleans up exactly the phases it executed, the failed one
\* included, and a successful one cleans up nothing.
CleanUpCoversExecuted ==
    Over => cleaned = {p \in executed : kind[p].cleans /\ result = "err"}

\* The changes that EngineConfigSyncHosts is bound to report: of a phase that got
\* past Prepare and its hooks.
Reportable == {p \in touched : kind[p].reports = "all" /\ p \in executed \union skipped}

\* Nobody is told that nothing changed when something did: a receipt or a module
\* that observed the run and says unchanged speaks of a run without a reportable
\* change, failed or not; "complete" means that no phase of the run kept silent;
\* of a dry run it answers whether a reporting phase is outstanding; and a task
\* that ends well and says unchanged was observed.
ReportsHonest ==
    \A s \in Sinks :
        LET r == report[s] IN
        /\ r.signal \in {"partial", "complete"} /\ ~dryRun /\ ~r.changed => Reportable = {}
        /\ r.signal = "complete" =>
              \A p \in executed \union planned \union skipped : kind[p].reports # "no"
        /\ r.signal \in {"partial", "complete"} /\ dryRun =>
              (r.changed <=> \E p \in planned : kind[p].reports # "no")
        /\ r.ended = "ok" /\ s = "ansible" /\ ~r.changed => sink[s].observed

\* A reader of the status file is not misled about where the run is: inside the
\* loop body the file names the phase in progress, afterwards that phase or the one
\* before, it says failed of a failed run only, and completed only of a phase that ran.
StatusFileCurrent ==
    statusFile # <<>> =>
        /\ \/ statusFile[1] = at
           \/ statusFile[1] + 1 = at /\ step \in {"enter", "publish", "cleanup", "over", "reported"}
        /\ statusFile[2] = "failed" => result = "err"
        /\ statusFile[2] = "completed" => statusFile[1] \in ran
=============================================================================
