------------------------------ MODULE CommandProofs ------------------------------
(* What the operator's commands guarantee.  PhaseManager: a run of any number of  *)
(* phases of any kinds, and what is read from its result.  Vault: the commands    *)
(* on the credentials in the operator's file, for all credentials, keys and ways  *)
(* of naming them, and any number of commands at once.  Receipts: what is kept of *)
(* the runs, for any fleet, command lines, phases and number of processes.        *)
EXTENDS PhaseManager, Vault, Receipts, FiniteSetTheorems, WellFoundedInduction, TLAPS

-----------------------------------------------------------------------------
(* PhaseManager: the invariant. *)

\* The loop's position decides which phases the slices may name: those passed
\* are named, those ahead are not, and the current one is named by Ran alone
\* once it has executed.
Named == ran \union planned \union skipped

Position ==
    /\ kind \in [Phases -> Kinds]
    /\ at \in 1..(NPhases + 1)
    /\ step \in Steps
    /\ step \in {"prepare", "shouldrun", "before", "exec", "after"} => at \in Phases
    /\ {ran, planned, skipped, touched, executed} \subseteq SUBSET Phases
    /\ \A p \in Phases : p < at => p \in Named
    /\ \A p \in Named : p <= at
    /\ step \in {"start", "enter", "prepare", "shouldrun", "before", "exec"} =>
          \A p \in Named : p < at
    /\ step = "start" => at = 1 /\ result = "nil"
    /\ step = "after" => at \in ran

\* Executing a phase and recording it in Ran go together.
RanIsExecuted == ran = executed

Disjoint ==
    /\ ran \intersect planned = {} /\ ran \intersect skipped = {}
    /\ planned \intersect skipped = {}

CleanedAtEnd ==
    cleaned = IF Over THEN {p \in ran : kind[p].cleans /\ result = "err"} ELSE {}

\* In a dry run a phase that declares nothing is stopped before its hooks.
GateHolds == dryRun /\ step \in {"before", "exec", "after"} => kind[at].dry # "skip"

ManagerInv ==
    /\ Position /\ Disjoint /\ RanIsExecuted /\ CleanedAtEnd /\ GateHolds
    /\ DryRunLeavesHostsAlone

-----------------------------------------------------------------------------
LEMMA ManagerInit == Init => ManagerInv
  BY PhaseManagerAssumption
     DEF Init, ManagerInv, Position, Named, Disjoint, RanIsExecuted, CleanedAtEnd, Over,
         GateHolds, DryRunLeavesHostsAlone, Phases, Steps

\* A step of the loop keeps the position of the phases in the three slices.
LEMMA ManagerStep == ManagerInv /\ [Next]_vars => ManagerInv'
  <1> SUFFICES ASSUME ManagerInv, [Next]_vars  PROVE ManagerInv'
    OBVIOUS
  <1>n. NPhases \in Nat
    BY PhaseManagerAssumption
  <1> USE <1>n
  <1> USE DEF ManagerInv, Position, Named, Disjoint, RanIsExecuted, CleanedAtEnd, Over,
              GateHolds, DryRunLeavesHostsAlone, Phases, Steps
  <1>1. CASE Enter
    BY <1>1 DEF Enter, Fail, Goto, Rest, hostVars
  <1>2. CASE Prepare
    <2>1. PICK w \in MayWrite(at) : touched' = touched \union w
      BY <1>2 DEF Prepare
    <2>2. touched' \subseteq Phases /\ (dryRun => touched' = touched)
      BY <1>2, <2>1 DEF Prepare, MayWrite
    <2>3. UNCHANGED <<dryRun, kind, ran, skipped, executed, cleaned>>
      BY <1>2 DEF Prepare, Rest
    <2>4. CASE Goto("shouldrun") /\ UNCHANGED planned
      BY <1>2, <2>2, <2>3, <2>4 DEF Prepare, Goto
    <2>5. CASE Fail /\ UNCHANGED planned
      BY <1>2, <2>2, <2>3, <2>5 DEF Prepare, Fail
    <2>6. CASE NextPhase /\ planned' = planned \union {at}
      BY <1>2, <2>2, <2>3, <2>6 DEF Prepare, NextPhase
    <2> QED  BY <1>2, <2>4, <2>5, <2>6 DEF Prepare
  <1>3. CASE ShouldRun
    <2>1. UNCHANGED <<dryRun, kind, ran, executed, touched, cleaned>>
      BY <1>3 DEF ShouldRun, Rest, hostVars
    <2>2. CASE skipped' = skipped \union {at} /\ NextPhase /\ UNCHANGED planned
      BY <1>3, <2>1, <2>2 DEF ShouldRun, NextPhase
    <2>3. CASE planned' = planned \union {at} /\ NextPhase /\ UNCHANGED skipped
      BY <1>3, <2>1, <2>3 DEF ShouldRun, NextPhase
    <2>4. CASE ~SkipUnderDryRun /\ Goto("before") /\ UNCHANGED <<planned, skipped>>
      BY <1>3, <2>1, <2>4 DEF ShouldRun, Goto, SkipUnderDryRun
    <2> QED  BY <1>3, <2>2, <2>3, <2>4 DEF ShouldRun
  <1>4. CASE Before
    <2>1. UNCHANGED <<dryRun, kind, ran, planned, skipped, executed, cleaned>>
      BY <1>4 DEF Before, Rest
    <2>2. touched' \subseteq Phases /\ (dryRun => touched' = touched)
      BY <1>4 DEF Before
    <2>3. CASE Goto("exec")
      BY <1>4, <2>1, <2>2, <2>3 DEF Before, Goto
    <2>4. CASE Fail
      BY <1>4, <2>1, <2>2, <2>4 DEF Before, Fail
    <2> QED  BY <1>4, <2>3, <2>4 DEF Before
  <1>5. CASE DryRun
    <2>1. /\ UNCHANGED <<dryRun, kind, planned, skipped, touched, cleaned>>
          /\ ran' = ran \union {at} /\ executed' = executed \union {at}
      BY <1>5 DEF DryRun, Executed, Rest
    <2>2. CASE NextPhase
      BY <1>5, <2>1, <2>2 DEF DryRun, NextPhase
    <2>3. CASE Fail
      BY <1>5, <2>1, <2>3 DEF DryRun, Fail
    <2> QED  BY <1>5, <2>2, <2>3 DEF DryRun
  <1>6. CASE Run
    <2>1. /\ UNCHANGED <<dryRun, kind, planned, skipped, cleaned>>
          /\ ran' = ran \union {at} /\ executed' = executed \union {at}
      BY <1>6 DEF Run, Executed, Rest
    <2>2. touched' \subseteq Phases
      BY <1>6 DEF Run
    <2>3. dryRun => kind[at].dry = "readonly"
      <3>1. at \in Phases
        BY <1>6 DEF Run
      <3>2. dryRun => kind[at].dry \notin {"own", "skip"}
        BY <1>6 DEF Run
      <3> QED  BY <3>1, <3>2, PhaseManagerAssumption DEF Kind
    <2>4. dryRun => touched' = touched
      BY <1>6, <2>3 DEF Run
    <2>5. CASE Goto("after")
      BY <1>6, <2>1, <2>2, <2>4, <2>5 DEF Run, Goto
    <2>6. CASE Fail
      BY <1>6, <2>1, <2>2, <2>4, <2>6 DEF Run, Fail
    <2> QED  BY <1>6, <2>5, <2>6 DEF Run
  <1>7. CASE After
    <2>1. UNCHANGED <<dryRun, kind, ran, planned, skipped, executed, touched, cleaned>>
      BY <1>7 DEF After, Rest, hostVars
    <2>2. CASE NextPhase
      <3>1. \A p \in Phases : p < at + 1 => p \in Named
        <4>1. at \in ran \union planned \union skipped
          BY <1>7 DEF After
        <4> QED  BY <4>1
      <3> QED  BY <1>7, <2>1, <2>2, <3>1 DEF After, NextPhase
    <2>3. CASE Fail
      BY <1>7, <2>1, <2>3 DEF After, Fail
    <2> QED  BY <1>7, <2>2, <2>3 DEF After
  <1>8. CASE Finish
    BY <1>8 DEF Finish, Goto, Rest, hostVars
  <1>9. CASE Publish
    BY <1>9 DEF Publish, Goto, hostVars
  <1>10. CASE CleanUp
    BY <1>10 DEF CleanUp, Goto, hostVars
  <1>11. CASE Interrupt
    BY <1>11 DEF Interrupt, loopVars, hostVars, Rest
  <1>12. CASE Begin
    <2>1. UNCHANGED <<dryRun, kind, at, ran, planned, skipped, executed, touched, cleaned>>
      BY <1>12 DEF Begin, Goto, Rest, hostVars
    <2>2. ran = {}
      BY <1>12 DEF Begin
    <2> QED  BY <1>12, <2>1, <2>2 DEF Begin, Goto
  <1>13. CASE RefuseCheck
    BY <1>13 DEF RefuseCheck, Goto, hostVars
  <1>14. CASE Report
    BY <1>14 DEF Report, Goto, hostVars
  <1>15. CASE UNCHANGED vars
    BY <1>15 DEF vars, loopVars, hostVars
  <1> QED
    BY <1>1, <1>2, <1>3, <1>4, <1>5, <1>6, <1>7, <1>8, <1>9, <1>10, <1>11, <1>12, <1>13,
       <1>14, <1>15 DEF Next

\* A dry run changes no host and executes no phase that has not said how it
\* behaves under one, whatever the phases are.
THEOREM DryRunSafe == Spec => []DryRunLeavesHostsAlone
  <1>1. ManagerInv => DryRunLeavesHostsAlone
    BY DEF ManagerInv
  <1> QED  BY <1>1, ManagerInit, ManagerStep, PTL DEF Spec

\* The result names every phase the loop has passed in exactly one slice.
THEOREM ResultAccounts == Spec => []EveryPhaseAccounted
  <1>1. ManagerInv => EveryPhaseAccounted
    BY PhaseManagerAssumption
       DEF ManagerInv, Position, Named, Disjoint, EveryPhaseAccounted, Phases
  <1> QED  BY <1>1, ManagerInit, ManagerStep, PTL DEF Spec

\* Clean-up asks exactly the executed phases that have a CleanUp, after a failure
\* only.
THEOREM CleanUpComplete == Spec => []CleanUpCoversExecuted
  <1>1. ManagerInv => CleanUpCoversExecuted
    BY DEF ManagerInv, CleanedAtEnd, RanIsExecuted, CleanUpCoversExecuted
  <1> QED  BY <1>1, ManagerInit, ManagerStep, PTL DEF Spec
-----------------------------------------------------------------------------
(* What the readers of the result may rely on.                             *)

\* A change that has to be reported is marked by the time the loop has passed it.
ChangesMarked == Reportable \subseteq marked

\* What a sink holds once the run has published to it.
Published == Merged(EmptySink)

SinkHolds ==
    /\ sink \in [Sinks -> {EmptySink, Published}]
    /\ step \notin {"cleanup", "over", "reported"} => sink = [s \in Sinks |-> EmptySink]

SilentBefore == step # "reported" => report = [s \in Sinks |-> Silence]

ReaderInv == ManagerInv /\ ChangesMarked /\ SinkHolds /\ SilentBefore /\ ReportsHonest

LEMMA PublishedSlices ==
    /\ Published.observed = TRUE /\ Published.ran = ran /\ Published.planned = planned
    /\ Published.skipped = skipped
    /\ Published.changed <=> ChangedOf(ran, skipped)
    /\ Published.changed \in BOOLEAN
  <1>1. /\ Published.observed = TRUE /\ Published.ran = ran /\ Published.planned = planned
        /\ Published.skipped = skipped
    BY DEF Published, Merged, EmptySink
  <1>2. Published.changed = (EmptySink.changed \/ ChangedOf(ran, skipped))
    BY DEF Published, Merged, EmptySink
  <1>3. EmptySink.changed = FALSE
    BY DEF EmptySink
  <1> QED  BY <1>1, <1>2, <1>3

LEMMA ReaderInit == Init => ReaderInv
  <1> SUFFICES ASSUME Init  PROVE ReaderInv
    OBVIOUS
  <1>1. ManagerInv
    BY ManagerInit
  <1>2. ChangesMarked /\ SinkHolds /\ SilentBefore
    BY DEF Init, ChangesMarked, Reportable, SinkHolds, SilentBefore
  <1>3. \A s \in Sinks : report[s].signal = "none" /\ report[s].ended = "none"
    BY DEF Init, Silence
  <1>4. ReportsHonest
    BY <1>3 DEF ReportsHonest
  <1> QED  BY <1>1, <1>2, <1>4 DEF ReaderInv

\* No action takes a mark back, and what becomes reportable is marked with it.
LEMMA MarkedStep == ManagerInv /\ ChangesMarked /\ [Next]_vars => ChangesMarked'
  <1> SUFFICES ASSUME ManagerInv, ChangesMarked, [Next]_vars,
                      NEW p \in touched', kind'[p].reports = "all",
                      p \in executed' \union skipped'
               PROVE  p \in marked'
    BY DEF ChangesMarked, Reportable
  <1>0. /\ kind' = kind
        /\ p \in touched /\ p \in executed \union skipped => p \in marked
        /\ executed = ran
        /\ step \in {"prepare", "before", "exec"} => at \notin executed \union skipped
    <2>1. kind' = kind
      BY DEF Next, Enter, Prepare, ShouldRun, Before, DryRun, Run, After, Finish, Publish,
             CleanUp, Interrupt, Begin, RefuseCheck, Report, Rest, vars
    <2>2. executed = ran
      BY DEF ManagerInv, RanIsExecuted
    <2>3. step \in {"prepare", "before", "exec"} => at \notin executed \union skipped
      BY <2>2, PhaseManagerAssumption DEF ManagerInv, Position, Named, Phases
    <2> QED  BY <2>1, <2>2, <2>3 DEF ChangesMarked, Reportable
  <1>1. ASSUME UNCHANGED <<touched, marked, executed, skipped>>  PROVE p \in marked'
    BY <1>0, <1>1
  <1>2. CASE Prepare
    <2>1. PICK w \in MayWrite(at) : touched' = touched \union w /\ marked' \in {marked, marked \union w}
      BY <1>2 DEF Prepare
    <2>2. w \subseteq {at} /\ UNCHANGED <<executed, skipped>> /\ step = "prepare"
      BY <1>2 DEF Prepare, MayWrite
    <2> QED  BY <1>0, <2>1, <2>2
  <1>3. CASE ShouldRun
    <2>1. UNCHANGED <<touched, marked, executed>>
      BY <1>3 DEF ShouldRun, hostVars
    <2>2. skipped' = skipped \/ (skipped' = skipped \union {at} /\ (at \in touched => at \in marked))
      BY <1>3 DEF ShouldRun
    <2> QED  BY <1>0, <2>1, <2>2
  <1>4. CASE Before
    <2>1. touched' \subseteq touched \union {at} /\ UNCHANGED <<marked, executed, skipped>> /\ step = "before"
      BY <1>4 DEF Before
    <2> QED  BY <1>0, <2>1
  <1>5. CASE DryRun
    <2>1. touched = {} /\ touched' = touched
      BY <1>5 DEF DryRun, ManagerInv, DryRunLeavesHostsAlone
    <2> QED  BY <2>1
  <1>6. CASE Run
    <2>1. PICK m \in Marks(at, step' = "after") : marked' = marked \union m
      BY <1>6 DEF Run
    <2>2. executed' = executed \union {at} /\ skipped' = skipped /\ touched' \subseteq touched \union {at}
      BY <1>6 DEF Run, Executed
    <2>3. CASE p = at
      <3>1. kind[at].reports = "all"
        BY <1>0, <2>3
      <3> QED  BY <2>1, <2>3, <3>1 DEF Marks
    <2>4. CASE p # at
      BY <1>0, <2>1, <2>2, <2>4
    <2> QED  BY <2>3, <2>4
  <1> QED  BY <1>1, <1>2, <1>3, <1>4, <1>5, <1>6
           DEF Next, Enter, After, Finish, Publish, CleanUp, Interrupt, Begin, RefuseCheck,
               Report, loopVars, hostVars, vars

\* A sink is empty until the run publishes, and then holds the loop's slices.
LEMMA SinkStep == ManagerInv /\ SinkHolds /\ [Next]_vars => SinkHolds'
  <1> SUFFICES ASSUME ManagerInv, SinkHolds, [Next]_vars  PROVE SinkHolds'
    OBVIOUS
  <1>1. ASSUME step \notin {"publish", "cleanup", "over", "reported"}, sink' = sink
        PROVE  SinkHolds'
    <2>1. sink' = [s \in Sinks |-> EmptySink]
      BY <1>1 DEF SinkHolds
    <2> QED  BY <2>1 DEF SinkHolds, EmptySink
  <1>2. CASE Publish
    <2>1. sink = [s \in Sinks |-> EmptySink]
      BY <1>2 DEF Publish, SinkHolds
    <2>2. Published' = Published
      BY <1>2 DEF Publish, Published, Merged, EmptySink, ChangedOf, hostVars
    <2>3. Innermost \in Sinks \union {NoSink}
      BY DEF Innermost, Sinks
    <2>4. Merged(EmptySink) = Published
      BY DEF Published
    <2>5. sink' \in [Sinks -> {EmptySink, Published}]
      <3>1. CASE Innermost = NoSink
        BY <1>2, <2>1, <3>1 DEF Publish
      <3>2. CASE Innermost # NoSink
        <4>1. Innermost \in Sinks
          BY <2>3, <3>2
        <4>2. sink[Innermost] = EmptySink
          BY <2>1, <4>1
        <4>3. sink' = [sink EXCEPT ![Innermost] = Published]
          BY <1>2, <2>4, <3>2, <4>2 DEF Publish
        <4> QED  BY <2>1, <4>1, <4>3
      <3> QED  BY <3>1, <3>2
    <2>6. step' = "cleanup"
      BY <1>2 DEF Publish, Goto
    <2> QED  BY <2>2, <2>5, <2>6 DEF SinkHolds, EmptySink
  <1>3. ASSUME step \in {"cleanup", "over"}, step' \in {"over", "reported"},
               UNCHANGED <<sink, kind, ran, planned, skipped, marked>>
        PROVE  SinkHolds'
    <2>1. Published' = Published
      BY <1>3 DEF Published, Merged, EmptySink, ChangedOf
    <2> QED  BY <1>3, <2>1 DEF SinkHolds, EmptySink
  <1>4. CASE CleanUp \/ Report
    BY <1>3, <1>4 DEF CleanUp, Report, Goto, hostVars
  <1>5. CASE UNCHANGED vars
    <2>1. Published' = Published
      BY <1>5 DEF Published, Merged, EmptySink, ChangedOf, vars, loopVars, hostVars
    <2> QED  BY <1>5, <2>1 DEF SinkHolds, EmptySink, vars, loopVars
  <1> QED  BY <1>1, <1>2, <1>4, <1>5
           DEF Next, Enter, Prepare, ShouldRun, Before, DryRun, Run, After, Finish,
               Interrupt, Begin, RefuseCheck, Rest

LEMMA SilentStep == SilentBefore /\ [Next]_vars => SilentBefore'
  BY DEF SilentBefore, Next, Enter, Prepare, ShouldRun, Before, DryRun, Run, After, Finish,
         Publish, CleanUp, Interrupt, Begin, RefuseCheck, Report, Rest, Goto, NextPhase, Fail,
         vars, loopVars

\* What an observed sink says, told by either reader.
LEMMA AnswerHonest ==
    ASSUME ReaderInv, NEW s \in Sinks, sink[s].observed
    PROVE  /\ ~dryRun /\ ~Answer(sink[s]) => Reportable = {}
           /\ SignalOf(sink[s]) = "complete" =>
                 \A p \in executed \union planned \union skipped : kind[p].reports # "no"
           /\ dryRun => (Answer(sink[s]) <=> \E p \in planned : kind[p].reports # "no")
  <1>1. sink[s] = Published
    BY DEF ReaderInv, SinkHolds, EmptySink
  <1>2. executed = ran
    BY DEF ReaderInv, ManagerInv, RanIsExecuted
  <1>3. ~dryRun /\ ~Answer(sink[s]) => Reportable = {}
    <2> SUFFICES ASSUME ~dryRun, NEW p \in Reportable  PROVE Answer(sink[s])
      OBVIOUS
    <2>1. p \in marked /\ kind[p].reports = "all" /\ p \in ran \union skipped
      BY <1>2 DEF Reportable, ReaderInv, ChangesMarked
    <2>2. ChangedOf(ran, skipped)
      BY <2>1 DEF ChangedOf
    <2> QED  BY <1>1, <2>2, PublishedSlices DEF Answer
  <1>4. SignalOf(sink[s]) = "complete" =>
           \A p \in executed \union planned \union skipped : kind[p].reports # "no"
    BY <1>1, <1>2, PublishedSlices DEF SignalOf
  <1>5. dryRun => (Answer(sink[s]) <=> \E p \in planned : kind[p].reports # "no")
    BY <1>1, PublishedSlices DEF Answer, Outstanding
  <1> QED  BY <1>3, <1>4, <1>5

LEMMA HonestStep == ReaderInv /\ [Next]_vars => ReportsHonest'
  <1> SUFFICES ASSUME ReaderInv, [Next]_vars  PROVE ReportsHonest'
    OBVIOUS
  <1> DEFINE Answered == {"partial", "complete"}
  \* Until the readers speak there is nothing to be honest about.
  <1>1. ASSUME report' = [s \in Sinks |-> Silence]  PROVE ReportsHonest'
    BY <1>1 DEF ReportsHonest, Silence
  <1>2. CASE RefuseCheck
    <2>1. report = [s \in Sinks |-> Silence]
      BY <1>2 DEF RefuseCheck, ReaderInv, SilentBefore
    <2>2. \A s \in Sinks : report'[s].signal \in {"none", "unknown"} /\ report'[s].ended # "ok"
      BY <1>2, <2>1 DEF RefuseCheck, Silence, Sinks
    <2> QED  BY <2>2 DEF ReportsHonest
  <1>3. CASE Report
    <2>0. /\ UNCHANGED <<dryRun, kind, planned, skipped, executed, touched, sink>>
          /\ Reportable' = Reportable
      BY <1>3 DEF Report, hostVars, Reportable
    <2>1. \A s \in Sinks : SignalOf(sink[s]) \in Answered
      BY DEF SignalOf
    <2>2. PICK written \in BOOLEAN, removed \in BOOLEAN, keeps \in BOOLEAN :
             report' = [ansible |-> IF "ansible" \in installed
                                    THEN ModuleAnswer(sink["ansible"], removed) ELSE Silence,
                        receipt |-> IF "receipt" \in installed /\ written
                                    THEN ReceiptOf(sink["receipt"], keeps) ELSE Silence]
      BY <1>3 DEF Report
    <2>3. ASSUME NEW s \in Sinks
          PROVE  /\ report'[s].signal \in Answered =>
                       /\ sink[s].observed /\ report'[s].signal = SignalOf(sink[s])
                       /\ report'[s].changed <=> Answer(sink[s])
                 /\ report'[s].ended = "ok" /\ s = "ansible" /\ ~report'[s].changed => sink[s].observed
      <3>0. sink[s].observed \in BOOLEAN /\ Answer(sink[s]) \in BOOLEAN
        <4>1. Outstanding(sink[s]) \in BOOLEAN
          BY DEF Outstanding
        <4>2. sink[s] \in {EmptySink, Published}
          BY DEF ReaderInv, SinkHolds
        <4>3. sink[s].observed \in BOOLEAN /\ sink[s].changed \in BOOLEAN
          <5>1. CASE sink[s] = EmptySink
            BY <5>1 DEF EmptySink
          <5>2. CASE sink[s] = Published
            BY <5>2, PublishedSlices
          <5> QED  BY <4>2, <5>1, <5>2
        <4>4. CASE dryRun
          BY <4>1, <4>3, <4>4 DEF Answer
        <4>5. CASE ~dryRun
          BY <4>3, <4>5 DEF Answer
        <4> QED  BY <4>4, <4>5
      <3>1. CASE s = "ansible"
        <4>1. report'[s] \in {Silence, ModuleAnswer(sink[s], removed)}
          BY <2>2, <3>1
        <4> QED  BY <2>1, <3>0, <3>1, <4>1 DEF ModuleAnswer, Silence
      <3>2. CASE s = "receipt"
        <4>1. report'[s] \in {Silence, ReceiptOf(sink[s], keeps)}
          BY <2>2, <3>2
        <4> QED  BY <2>1, <3>0, <3>2, <4>1 DEF ReceiptOf, Silence
      <3> QED  BY <3>1, <3>2 DEF Sinks
    <2> HIDE DEF Answered
    <2>4. ASSUME NEW s \in Sinks, report'[s].signal \in Answered
          PROVE  /\ ~dryRun /\ ~report'[s].changed => Reportable = {}
                 /\ report'[s].signal = "complete" =>
                       \A p \in executed \union planned \union skipped : kind[p].reports # "no"
                 /\ dryRun => (report'[s].changed <=> \E p \in planned : kind[p].reports # "no")
      BY <2>3, <2>4, AnswerHonest
    <2> USE DEF Answered
    <2> QED  BY <2>0, <2>3, <2>4 DEF ReportsHonest
  <1>4. CASE UNCHANGED vars
    <2>1. Reportable' = Reportable
      BY <1>4 DEF Reportable, vars, loopVars, hostVars
    <2> QED  BY <1>4, <2>1 DEF ReportsHonest, ReaderInv, vars, loopVars, hostVars
  <1>5. ASSUME step # "reported", report' = report  PROVE ReportsHonest'
    BY <1>1, <1>5 DEF ReaderInv, SilentBefore
  <1> QED  BY <1>2, <1>3, <1>4, <1>5
           DEF Next, Enter, Prepare, ShouldRun, Before, DryRun, Run, After, Finish, Publish,
               CleanUp, Interrupt, Begin, Rest

\* What TypeOK says beyond the invariant of the readers.
Typed ==
    /\ dryRun \in BOOLEAN /\ installed \subseteq Sinks /\ ctxDone \in BOOLEAN
    /\ warned \subseteq Phases /\ marked \subseteq Phases
    /\ result \in {"nil", "err"}
    /\ statusFile \in {<<>>} \union (Phases \X {"running", "completed", "failed"})
    /\ report \in [Sinks -> [ended : {"none", "ok", "failed", "skipped"}, changed : BOOLEAN,
                             signal : {"none", "unknown", "partial", "complete"}]]

LEMMA TypedStep == ReaderInv /\ Typed /\ [Next]_vars => Typed'
  <1> SUFFICES ASSUME ReaderInv, Typed, [Next]_vars  PROVE Typed'
    OBVIOUS
  <1> DEFINE Said == [ended : {"none", "ok", "failed", "skipped"}, changed : BOOLEAN,
                      signal : {"none", "unknown", "partial", "complete"}]
  <1>a. step \in {"prepare", "shouldrun", "before", "exec", "after"} => at \in Phases
    BY DEF ReaderInv, ManagerInv, Position
  <1>1. dryRun' \in BOOLEAN /\ installed' \subseteq Sinks /\ ctxDone' \in BOOLEAN
    BY DEF Typed, Next, Enter, Prepare, ShouldRun, Before, DryRun, Run, After, Finish, Publish,
           CleanUp, Interrupt, Begin, RefuseCheck, Report, Rest, vars
  <1>2. warned' \subseteq Phases
    <2>1. warned' = warned \/ (step = "exec" /\ warned' = warned \union {at})
      BY DEF Next, Enter, Prepare, ShouldRun, Before, DryRun, Run, Executed, After, Finish,
             Publish, CleanUp, Interrupt, Begin, RefuseCheck, Report, vars, loopVars
    <2> QED  BY <1>a, <2>1 DEF Typed
  <1>3. marked' \subseteq Phases
    <2>1. CASE Prepare
      <3>1. PICK w \in MayWrite(at) : marked' \in {marked, marked \union w}
        BY <2>1 DEF Prepare
      <3> QED  BY <1>a, <2>1, <3>1 DEF Prepare, MayWrite, Typed
    <2>2. CASE Run
      <3>1. PICK m \in Marks(at, step' = "after") : marked' = marked \union m
        BY <2>2 DEF Run
      <3>2. m \subseteq {at}
        BY DEF Marks
      <3> QED  BY <1>a, <2>2, <3>1, <3>2 DEF Run, Typed
    <2>3. CASE marked' = marked
      BY <2>3 DEF Typed
    <2> QED  BY <2>1, <2>2, <2>3
             DEF Next, Enter, ShouldRun, Before, DryRun, After, Finish, Publish, CleanUp,
                 Interrupt, Begin, RefuseCheck, Report, vars, hostVars
  <1>4. result' \in {"nil", "err"}
    BY DEF Typed, Next, Enter, Prepare, ShouldRun, Before, DryRun, Run, After, Finish, Publish,
           CleanUp, Interrupt, Begin, RefuseCheck, Report, Goto, Fail, NextPhase, vars, loopVars
  <1>5. statusFile' \in {<<>>} \union (Phases \X {"running", "completed", "failed"})
    <2>1. \/ statusFile' = statusFile
          \/ at \in Phases /\ \E w \in {"running", "completed", "failed"} : statusFile' = <<at, w>>
      BY <1>a DEF Next, Enter, Prepare, ShouldRun, Before, DryRun, Run, After, Finish, Publish,
             CleanUp, Interrupt, Begin, RefuseCheck, Report, Heartbeat, vars
    <2> QED  BY <2>1 DEF Typed
  <1>6. report' \in [Sinks -> Said]
    <2>1. CASE report' = report
      BY <2>1 DEF Typed
    <2>2. CASE RefuseCheck
      BY <2>2 DEF RefuseCheck, Typed, Sinks
    <2>3. CASE Report
      <3>1. PICK written \in BOOLEAN, removed \in BOOLEAN, keeps \in BOOLEAN :
               report' = [ansible |-> IF "ansible" \in installed
                                      THEN ModuleAnswer(sink["ansible"], removed) ELSE Silence,
                          receipt |-> IF "receipt" \in installed /\ written
                                      THEN ReceiptOf(sink["receipt"], keeps) ELSE Silence]
        BY <2>3 DEF Report
      <3>2. Silence \in Said
        BY DEF Silence
      <3>3. ASSUME NEW s \in Sinks  PROVE ModuleAnswer(sink[s], removed) \in Said
        <4>1. (~sink[s].observed \/ Answer(sink[s])) \in BOOLEAN
          OBVIOUS
        <4> QED  BY <4>1 DEF ModuleAnswer, SignalOf
      <3>4. ASSUME NEW s \in Sinks  PROVE ReceiptOf(sink[s], keeps) \in Said
        <4>1. (sink[s].observed /\ Answer(sink[s])) \in BOOLEAN
          OBVIOUS
        <4> QED  BY <4>1 DEF ReceiptOf, SignalOf
      <3> HIDE DEF Said
      <3> QED  BY <3>1, <3>2, <3>3, <3>4 DEF Sinks
    <2> QED  BY <2>1, <2>2, <2>3
             DEF Next, Enter, Prepare, ShouldRun, Before, DryRun, Run, After, Finish, Publish,
                 CleanUp, Interrupt, Begin, Rest, vars
  <1> QED  BY <1>1, <1>2, <1>3, <1>4, <1>5, <1>6 DEF Typed

\* The status file follows the loop.
LEMMA StatusStep == ManagerInv /\ StatusFileCurrent /\ [Next]_vars => StatusFileCurrent'
  <1> SUFFICES ASSUME ManagerInv, StatusFileCurrent, [Next]_vars, statusFile' # <<>>
               PROVE  /\ \/ statusFile'[1] = at'
                         \/ /\ statusFile'[1] + 1 = at'
                            /\ step' \in {"enter", "publish", "cleanup", "over", "reported"}
                      /\ statusFile'[2] = "failed" => result' = "err"
                      /\ statusFile'[2] = "completed" => statusFile'[1] \in ran'
    BY DEF StatusFileCurrent
  <1>a. at \in Nat
    BY PhaseManagerAssumption DEF ManagerInv, Position
  <1> USE <1>a DEF StatusFileCurrent
  <1>1. CASE Enter
    BY <1>1 DEF Enter, Heartbeat, Fail, Goto
  <1>2. CASE Prepare
    BY <1>2 DEF Prepare, Fail, Goto, NextPhase
  <1>3. CASE ShouldRun
    BY <1>3 DEF ShouldRun, Goto, NextPhase
  <1>4. CASE Before
    BY <1>4 DEF Before, Fail, Goto
  <1>5. CASE DryRun
    BY <1>5 DEF DryRun, Executed, Fail, NextPhase
  <1>6. CASE Run
    BY <1>6 DEF Run, Executed, Fail, Goto, Heartbeat
  <1>7. CASE After
    <2>1. at \in ran
      BY <1>7 DEF After, ManagerInv, Position
    <2> QED  BY <1>7, <2>1 DEF After, Fail, NextPhase, Heartbeat
  <1>8. CASE Finish \/ Publish \/ CleanUp \/ RefuseCheck \/ Report
    BY <1>8 DEF Finish, Publish, CleanUp, RefuseCheck, Report, Goto
  <1>9. CASE Begin
    BY <1>9 DEF Begin, Goto
  <1>10. CASE Interrupt \/ UNCHANGED vars
    BY <1>10 DEF Interrupt, vars, loopVars
  <1> QED  BY <1>1, <1>2, <1>3, <1>4, <1>5, <1>6, <1>7, <1>8, <1>9, <1>10 DEF Next

\* For every list of phases a reader of the status file is told the phase in
\* progress, or the last one once the loop is between phases or over.
THEOREM StatusFollows == Spec => []StatusFileCurrent
  <1>1. Init => StatusFileCurrent
    BY DEF Init, StatusFileCurrent
  <1> QED  BY <1>1, ManagerInit, ManagerStep, StatusStep, PTL DEF Spec

\* Whatever the phases of a command are and wherever it fails, neither the receipt
\* nor the Ansible module says unchanged of a run in which a phase that reports all
\* its changes made one, nor complete while a phase kept silent.
THEOREM ReadersHonest == Spec => []ReportsHonest
  <1>1. ReaderInv /\ [Next]_vars => ReaderInv'
    BY ManagerStep, MarkedStep, SinkStep, SilentStep, HonestStep DEF ReaderInv
  <1>2. ReaderInv => ReportsHonest
    BY DEF ReaderInv
  <1> QED  BY <1>1, <1>2, ReaderInit, PTL DEF Spec

\* The manager's variables keep their types, whatever its phases are and wherever
\* they fail.
THEOREM TypeCorrect == Spec => []TypeOK
  <1>1. Init => ReaderInv /\ Typed
    <2>1. Init => Typed
      <3> SUFFICES ASSUME Init  PROVE Typed
        OBVIOUS
      <3>1. installed \subseteq Sinks /\ dryRun \in BOOLEAN
        BY DEF Init
      <3>2. statusFile \in {<<>>} \union (Phases \X {"running", "completed", "failed"})
        BY DEF Init
      <3>3. report \in [Sinks -> [ended : {"none", "ok", "failed", "skipped"}, changed : BOOLEAN,
                                 signal : {"none", "unknown", "partial", "complete"}]]
        BY DEF Init, Silence
      <3> QED  BY <3>1, <3>2, <3>3 DEF Init, Typed
    <2> QED  BY <2>1, ReaderInit
  <1>2. ReaderInv /\ Typed /\ [Next]_vars => ReaderInv' /\ Typed'
    BY ManagerStep, MarkedStep, SinkStep, SilentStep, HonestStep, TypedStep DEF ReaderInv
  <1>3. ReaderInv /\ Typed => TypeOK
    <2> SUFFICES ASSUME ReaderInv, Typed  PROVE TypeOK
      OBVIOUS
    <2> DEFINE Held == [observed : BOOLEAN, ran : SUBSET Phases, planned : SUBSET Phases,
                        skipped : SUBSET Phases, warned : SUBSET Phases, changed : BOOLEAN]
    <2>1. {ran, planned, skipped, touched, executed} \subseteq SUBSET Phases
      BY DEF ReaderInv, ManagerInv, Position
    <2>2. cleaned \subseteq Phases
      BY <2>1 DEF ReaderInv, ManagerInv, CleanedAtEnd
    <2>3. EmptySink \in Held
      BY DEF EmptySink
    <2>4. Published \in Held
      <3>1. {} \union ran = ran /\ {} \union planned = planned /\ {} \union skipped = skipped
        OBVIOUS
      <3>2. \A c \in BOOLEAN : [EmptySink EXCEPT !.observed = TRUE, !.ran = @ \union ran,
               !.planned = @ \union planned, !.skipped = @ \union skipped, !.changed = c] \in Held
        BY <2>1, <3>1 DEF EmptySink
      <3>3. (EmptySink.changed \/ ChangedOf(ran, skipped)) \in BOOLEAN
        OBVIOUS
      <3> QED  BY <3>2, <3>3 DEF Published, Merged
    <2>5. sink \in [Sinks -> Held]
      BY <2>3, <2>4 DEF ReaderInv, SinkHolds
    <2> QED  BY <2>1, <2>2, <2>5 DEF TypeOK, Typed, ReaderInv, ManagerInv, Position
  <1> QED  BY <1>1, <1>2, <1>3, PTL DEF Spec

-----------------------------------------------------------------------------
(* Vault *)

(* Induction along a sequence. *)
LEMMA LeastOf ==
    ASSUME NEW T, T \subseteq Nat, T # {}
    PROVE  \E m \in T : \A k \in T : m <= k
<1>1. PICK m \in T : \A k \in T : <<k, m>> \notin OpToRel(<, Nat)
  <2>. DEFINE R == OpToRel(<, Nat)
  <2>1. IsWellFoundedOn(R, Nat)
    BY NatLessThanWellFounded
  <2>. HIDE DEF R
  <2>2. \E m \in T : \A k \in T : ~(<<k, m>> \in R)
    BY <2>1, WFMin
  <2>. QED
    BY <2>2 DEF R
<1>2. \A k \in T : ~(k < m)
  BY <1>1, Zenon DEF OpToRel
<1>. QED
  BY <1>2

LEMMA InductionTo ==
    ASSUME NEW n \in Nat, NEW T, 0 \in T, \A i \in 1..n : i - 1 \in T => i \in T
    PROVE  \A i \in 0..n : i \in T
<1>. DEFINE Out == {i \in 0..n : i \notin T}
<1>. SUFFICES ASSUME Out # {} PROVE FALSE
  OBVIOUS
<1>1. PICK m \in Out : \A k \in Out : m <= k
  <2>1. Out \subseteq Nat /\ Out # {}
    OBVIOUS
  <2>. HIDE DEF Out
  <2>. QED
    BY <2>1, LeastOf
<1>2. m - 1 \in 0..n /\ m - 1 \notin Out
  BY <1>1
<1>. QED
  BY <1>1, <1>2

(* A value worked out one step after the other, each from the one before, is there. *)
StepsTo(g, d0, n, move) == g[0] = d0 /\ \A i \in 1..n : g[i] = move[<<g[i - 1], i>>]
LEMMA StepByStep ==
    ASSUME NEW D, NEW d0 \in D, NEW n \in Nat, NEW move \in [D \X (1..n) -> D]
    PROVE  \E g \in [0..n -> D] : StepsTo(g, d0, n, move)
<1>. DEFINE Upto(m) == {g \in [0..m -> D] : g[0] = d0 /\ \A i \in 1..m : g[i] = move[<<g[i - 1], i>>]}
           T == {m \in 0..n : Upto(m) # {}}
<1>1. 0 \in T
  <2>1. [i \in 0..0 |-> d0] \in Upto(0)
    OBVIOUS
  <2>. QED
    BY <2>1
<1>2. ASSUME NEW i \in 1..n, i - 1 \in T PROVE i \in T
  <2>1. PICK g \in [0..(i - 1) -> D] : g[0] = d0 /\ \A j \in 1..(i - 1) : g[j] = move[<<g[j - 1], j>>]
    BY <1>2
  <2>. DEFINE h == [j \in 0..i |-> IF j = i THEN move[<<g[i - 1], i>>] ELSE g[j]]
  <2>2. h \in [0..i -> D]
    BY <2>1
  <2>3. h[0] = d0
    BY <2>1
  <2>4. \A j \in 1..i : h[j] = move[<<h[j - 1], j>>]
    <3>. TAKE j \in 1..i
    <3>1. j - 1 \in 0..i /\ j - 1 # i /\ j \in 0..i
      OBVIOUS
    <3>2. h[j - 1] = g[j - 1]
      BY <3>1
    <3>3. h[j] = move[<<g[j - 1], j>>]
      <4>1. CASE j = i
        BY <4>1, <3>1
      <4>2. CASE j # i
        <5>1. j \in 1..(i - 1) /\ h[j] = g[j]
          BY <4>2, <3>1
        <5>. QED
          BY <5>1, <2>1
      <4>. QED
        BY <4>1, <4>2
    <3>. HIDE DEF h
    <3>. QED
      BY <3>2, <3>3
  <2>. HIDE DEF h
  <2>5. h \in Upto(i)
    BY <2>2, <2>3, <2>4
  <2>. QED
    BY <2>5
<1>3. n \in T
  <2>. HIDE DEF T
  <2>. QED
    BY <1>1, <1>2, InductionTo
<1>. QED
  BY <1>3 DEF StepsTo

-----------------------------------------------------------------------------
(* The values and documents there are, over the identities generated. *)
NoValue == Value(Empty, <<>>)
Layers(gen) == [fmt : {"vault"}, by : {{pw} : pw \in Passwords}] \union [fmt : {"age"}, by : (SUBSET gen) \ {{}}]
Values(gen) == {v \in [plain : Nodes \union {Empty}, layers : Seq(Layers(gen))] : Len(v.layers) <= MaxLayers}
Plains(n) == {n} \union (IF n \in Blank THEN {Empty} ELSE {})
Docs(gen) == {d \in [vals : [Nodes -> Values(gen)], record : SUBSET gen, block : Styles, awkward : SUBSET Nodes] :
                 (\A n \in Nodes : d.vals[n].plain \in Plains(n)) /\ (d.record # {} => d.block)}
AnyDoc == Docs(AgeKeys) \union {NoDoc}

-----------------------------------------------------------------------------
(* Walking the credentials of a file *)

LEMMA FirstPath ==
    ASSUME NEW n \in CredentialNodes
    PROVE  \E i \in credentialPaths : NodeOf[PathSeq[i]] = n
<1>. DEFINE T == {i \in 1..Len(PathSeq) : NodeOf[PathSeq[i]] = n}
<1>1. Len(PathSeq) \in Nat /\ T \subseteq Nat
  BY VaultAssumption
<1>2. T # {}
  BY VaultAssumption DEF CredentialNodes, Credentials, Range
<1>3. PICK m \in T : \A k \in T : m <= k
  <2>. HIDE DEF T
  <2>. QED
    BY <1>1, <1>2, LeastOf
<1>4. \A j \in 1..(m - 1) : NodeOf[PathSeq[j]] # n
  BY <1>1, <1>3
<1>. QED
  BY <1>3, <1>4 DEF credentialPaths

LEMMA PathsLead ==
    ASSUME NEW i \in 1..Len(PathSeq)
    PROVE  PathSeq[i] \in Credentials /\ PathSeq[i] \in Paths /\ NodeOf[PathSeq[i]] \in CredentialNodes
<1>1. PathSeq[i] \in Credentials
  BY VaultAssumption
<1>. QED
  BY <1>1 DEF CredentialNodes, Paths

LEMMA CredentialsAreNodes == CredentialNodes \subseteq Nodes /\ Credentials \subseteq Paths
BY DEF CredentialNodes, Nodes, Paths

\* A document with another value, and what a rewrite comes to.
With(d, n, v) == [d EXCEPT !.vals = [@ EXCEPT ![n] = v]]
Gives(r, gen, d, n, v) == r = Failure \/ (r = Done(With(d, n, v)) /\ With(d, n, v) \in Docs(gen))

\* One step of a walk that leaves a value as it is, notes it, or turns it into another.
Moves(acc, next, i, want, new, able) ==
    LET path == PathSeq[i] v == At(acc.doc, path) IN
    \/ ~next.ok
    \/ /\ acc.ok
       /\ \/ /\ i \notin credentialPaths \/ v = NoValue \/ want[v] = "no"
             /\ next.doc = acc.doc /\ next.changed = acc.changed /\ next.skipped = acc.skipped
          \/ /\ i \in credentialPaths /\ v # NoValue /\ want[v] = "skip"
             /\ next.doc = acc.doc /\ next.changed = acc.changed /\ next.skipped = acc.skipped \union {path}
          \/ /\ i \in credentialPaths /\ v # NoValue /\ want[v] = "yes" /\ v \in able
             /\ next.doc = With(acc.doc, NodeOf[path], new[v])
             /\ next.changed = acc.changed \union {path} /\ next.skipped = acc.skipped

\* The values a walk turns, and the document it leaves.
Turned(src, want) == {n \in CredentialNodes : src.vals[n] # NoValue /\ want[src.vals[n]] = "yes"}
Walked(src, want, new) ==
    [src EXCEPT !.vals = [n \in Nodes |-> IF n \in Turned(src, want) THEN new[src.vals[n]] ELSE src.vals[n]]]
Noted(src, want) == {path \in Credentials : At(src, path) # NoValue /\ want[At(src, path)] = "skip"}

WalkEnds(src, r, want, new, able) ==
    /\ r.doc = Walked(src, want, new)
    /\ \A n \in CredentialNodes : src.vals[n] # NoValue =>
          want[src.vals[n]] \in {"yes", "no", "skip"} /\ (want[src.vals[n]] = "yes" => src.vals[n] \in able)
    /\ r.changed # {} => Turned(src, want) # {}
    /\ r.skipped \subseteq Noted(src, want)
    /\ r.skipped = {} => Noted(src, want) = {}

LEMMA WalkThrough ==
    ASSUME NEW gen, NEW src \in Docs(gen), NEW want, NEW new, NEW able, NEW g,
           g[0] = Done(src),
           \A i \in 1..Len(PathSeq) : Moves(g[i - 1], g[i], i, want, new, able),
           g[Len(PathSeq)].ok
    PROVE  WalkEnds(src, g[Len(PathSeq)], want, new, able)
<1>. DEFINE Visited(i) == {NodeOf[PathSeq[j]] : j \in {k \in credentialPaths : k <= i}}
            Turns(i) == {n \in Visited(i) : src.vals[n] # NoValue /\ want[src.vals[n]] = "yes"}
            Vals(i) == [n \in Nodes |-> IF n \in Turns(i) THEN new[src.vals[n]] ELSE src.vals[n]]
            Upto(i) ==
              /\ g[i].doc = [src EXCEPT !.vals = Vals(i)]
              /\ \A n \in Visited(i) : src.vals[n] # NoValue =>
                   want[src.vals[n]] \in {"yes", "no", "skip"} /\ (want[src.vals[n]] = "yes" => src.vals[n] \in able)
              /\ g[i].changed # {} => Turns(i) # {}
              /\ g[i].skipped \subseteq Noted(src, want)
              /\ \A n \in Visited(i) : src.vals[n] # NoValue /\ want[src.vals[n]] = "skip" => g[i].skipped # {}
            T == {i \in 0..Len(PathSeq) : g[i].ok => Upto(i)}
<1>1. Len(PathSeq) \in Nat /\ src \in [vals : [Nodes -> Values(gen)], record : SUBSET gen, block : Styles, awkward : SUBSET Nodes]
  BY VaultAssumption DEF Docs
<1>2. 0 \in T
  <2>1. Visited(0) = {}
    BY <1>1 DEF credentialPaths
  <2>2. Vals(0) = src.vals
    BY <1>1, <2>1
  <2>3. g[0].doc = src /\ g[0].changed = {} /\ g[0].skipped = {}
    BY DEF Done
  <2>4. [src EXCEPT !.vals = src.vals] = src
    BY <1>1
  <2>. HIDE DEF Visited, Vals
  <2>. QED
    BY <1>1, <2>1, <2>2, <2>3, <2>4
<1>3. ASSUME NEW i \in 1..Len(PathSeq), i - 1 \in T PROVE i \in T
  <2>. SUFFICES ASSUME g[i].ok PROVE Upto(i)
    BY <1>1
  <2>. DEFINE path == PathSeq[i]
              n0 == NodeOf[path]
              v == At(g[i - 1].doc, path)
  <2>1. g[i - 1].ok /\ Upto(i - 1) /\ Moves(g[i - 1], g[i], i, want, new, able)
    BY <1>3, <1>1 DEF Moves
  <2>2. path \in Credentials /\ n0 \in Nodes /\ n0 \in CredentialNodes
    BY PathsLead, CredentialsAreNodes
  <2>3. CASE i \notin credentialPaths
    <3>1. Visited(i) = Visited(i - 1)
      <4>1. {k \in credentialPaths : k <= i} = {k \in credentialPaths : k <= i - 1}
        BY <2>3, <1>1 DEF credentialPaths
      <4>. QED
        BY <4>1
    <3>2. g[i].doc = g[i - 1].doc /\ g[i].changed = g[i - 1].changed /\ g[i].skipped = g[i - 1].skipped
      BY <2>1, <2>3 DEF Moves
    <3>. HIDE DEF Visited
    <3>. QED
      BY <2>1, <3>1, <3>2
  <2>4. CASE i \in credentialPaths
    <3>1. Visited(i) = Visited(i - 1) \union {n0}
      <4>1. {k \in credentialPaths : k <= i} = {k \in credentialPaths : k <= i - 1} \union {i}
        BY <2>4, <1>1 DEF credentialPaths
      <4>. QED
        BY <4>1
    <3>2. n0 \notin Visited(i - 1)
      BY <2>4, <1>1 DEF credentialPaths
    <3>3. v = src.vals[n0] /\ v = At(src, path)
      BY <2>1, <2>2, <3>2, <1>1 DEF At
    <3>. HIDE DEF Visited
    <3>4. CASE v = NoValue \/ want[v] = "no"
      <4>1. g[i].doc = g[i - 1].doc /\ g[i].changed = g[i - 1].changed /\ g[i].skipped = g[i - 1].skipped
        BY <2>1, <2>4, <3>4 DEF Moves
      <4>2. Turns(i) = Turns(i - 1)
        BY <3>1, <3>3, <3>4
      <4>. QED
        BY <2>1, <3>1, <3>3, <3>4, <4>1, <4>2
    <3>5. CASE v # NoValue /\ want[v] = "skip"
      <4>1. g[i].doc = g[i - 1].doc /\ g[i].changed = g[i - 1].changed /\ g[i].skipped = g[i - 1].skipped \union {path}
        BY <2>1, <2>4, <3>5 DEF Moves
      <4>2. Turns(i) = Turns(i - 1)
        BY <3>1, <3>3, <3>5
      <4>3. path \in Noted(src, want)
        BY <2>2, <3>3, <3>5 DEF Noted
      <4>. QED
        BY <2>1, <3>1, <3>3, <3>5, <4>1, <4>2, <4>3
    <3>6. CASE v # NoValue /\ want[v] = "yes"
      <4>1. /\ v \in able
            /\ g[i].doc = [g[i - 1].doc EXCEPT !.vals = [@ EXCEPT ![n0] = new[v]]]
            /\ g[i].skipped = g[i - 1].skipped
        BY <2>1, <2>4, <3>6 DEF Moves, With
      <4>2. Turns(i) = Turns(i - 1) \union {n0}
        BY <3>1, <3>3, <3>6
      <4>3. Vals(i) = [Vals(i - 1) EXCEPT ![n0] = new[v]]
        BY <4>2, <2>2, <3>3
      <4>4. g[i].doc = [src EXCEPT !.vals = Vals(i)]
        <5>. HIDE DEF Vals
        <5>. QED
          BY <2>1, <4>1, <4>3, <1>1
      <4>5. Turns(i) # {}
        BY <4>2
      <4>6. \A n \in Visited(i) : src.vals[n] # NoValue =>
              want[src.vals[n]] \in {"yes", "no", "skip"} /\ (want[src.vals[n]] = "yes" => src.vals[n] \in able)
        <5>1. \A n \in Visited(i - 1) : src.vals[n] # NoValue =>
                want[src.vals[n]] \in {"yes", "no", "skip"} /\ (want[src.vals[n]] = "yes" => src.vals[n] \in able)
          BY <2>1
        <5>2. want[src.vals[n0]] = "yes" /\ src.vals[n0] \in able
          BY <3>3, <3>6, <4>1
        <5>. HIDE DEF n0, v
        <5>. QED
          BY <3>1, <5>1, <5>2
      <4>7. \A n \in Visited(i) : src.vals[n] # NoValue /\ want[src.vals[n]] = "skip" => g[i].skipped # {}
        BY <2>1, <3>1, <3>3, <3>6, <4>1
      <4>8. g[i].skipped \subseteq Noted(src, want)
        BY <2>1, <4>1
      <4>. HIDE DEF Turns, Vals
      <4>. QED
        BY <4>4, <4>5, <4>6, <4>7, <4>8
    <3>. QED
      BY <2>1, <2>4, <3>4, <3>5, <3>6 DEF Moves
  <2>. QED
    BY <2>3, <2>4
<1>4. Upto(Len(PathSeq))
  <2>1. Len(PathSeq) \in T
    <3>. HIDE DEF T
    <3>1. \A i \in 1..Len(PathSeq) : i - 1 \in T => i \in T
      BY <1>3
    <3>2. \A i \in 0..Len(PathSeq) : i \in T
      BY <1>1, <1>2, <3>1, InductionTo
    <3>. QED
      BY <1>1, <3>2
  <2>. QED
    BY <2>1
<1>5. Visited(Len(PathSeq)) = CredentialNodes
  <2>1. \A i \in credentialPaths : i \in 1..Len(PathSeq) /\ i <= Len(PathSeq)
    BY <1>1 DEF credentialPaths
  <2>. QED
    BY <2>1, FirstPath, PathsLead
<1>6. Turns(Len(PathSeq)) = Turned(src, want)
  BY <1>5 DEF Turned
<1>7. \A path \in Noted(src, want) : g[Len(PathSeq)].skipped # {}
  BY <1>4, <1>5 DEF Noted, At, CredentialNodes
<1>. HIDE DEF Visited, Turns
<1>. QED
  BY <1>4, <1>5, <1>6, <1>7 DEF WalkEnds, Walked

-----------------------------------------------------------------------------
(* Values *)

LEMMA LayersGrow ==
    ASSUME NEW gen, NEW more, gen \subseteq more
    PROVE  Layers(gen) \subseteq Layers(more) /\ Values(gen) \subseteq Values(more)
<1>1. Layers(gen) \subseteq Layers(more)
  BY DEF Layers
<1>2. Seq(Layers(gen)) \subseteq Seq(Layers(more))
  BY <1>1
<1>. QED
  BY <1>1, <1>2 DEF Values

LEMMA DocsGrow ==
    ASSUME NEW gen, NEW more, gen \subseteq more
    PROVE  Docs(gen) \subseteq Docs(more)
<1>1. Values(gen) \subseteq Values(more)
  BY LayersGrow
<1>2. [Nodes -> Values(gen)] \subseteq [Nodes -> Values(more)]
  BY <1>1
<1>3. SUBSET gen \subseteq SUBSET more
  OBVIOUS
<1>. QED
  BY <1>2, <1>3 DEF Docs

LEMMA TopOf ==
    ASSUME NEW gen, NEW v \in Values(gen)
    PROVE  /\ Len(v.layers) \in Nat /\ Len(v.layers) <= MaxLayers
           /\ IsEncrypted(v) <=> Len(v.layers) > 0
           /\ IsEncrypted(v) => Top(v) \in Layers(gen)
           /\ ~IsEncrypted(v) => v.layers = <<>>
<1>1. v.layers \in Seq(Layers(gen)) /\ Len(v.layers) <= MaxLayers
  BY DEF Values
<1>. QED
  BY <1>1 DEF IsEncrypted, Top

LEMMA UnwrappedOf ==
    ASSUME NEW gen, NEW v \in Values(gen), IsEncrypted(v)
    PROVE  /\ Unwrapped(v) \in Values(gen) /\ Unwrapped(v).plain = v.plain
           /\ Len(Unwrapped(v).layers) = Len(v.layers) - 1
           /\ IsEncrypted(Unwrapped(v)) <=> Len(v.layers) > 1
<1>1. v.layers \in Seq(Layers(gen)) /\ Len(v.layers) \in Nat /\ Len(v.layers) > 0 /\ Len(v.layers) <= MaxLayers
  BY TopOf DEF Values
<1>. DEFINE rest == SubSeq(v.layers, 1, Len(v.layers) - 1)
<1>2. rest \in Seq(Layers(gen)) /\ Len(rest) = Len(v.layers) - 1
  BY <1>1
<1>3. Unwrapped(v) = [plain |-> v.plain, layers |-> rest]
  BY DEF Unwrapped, Values
<1>. HIDE DEF rest
<1>4. rest # <<>> <=> Len(rest) > 0
  BY <1>1, <1>2
<1>5. MaxLayers \in Nat
  BY VaultAssumption
<1>. QED
  BY <1>1, <1>2, <1>3, <1>4, <1>5 DEF IsEncrypted, Values

LEMMA EncryptedOf ==
    ASSUME NEW gen, NEW v \in Values(gen), NEW key \in Layers(gen)
    PROVE  /\ Len(v.layers) < MaxLayers => EncryptValue(v, key) \in Values(gen)
           /\ EncryptValue(v, key).plain = v.plain
           /\ EncryptValue(v, key).layers = Append(v.layers, key)
           /\ IsEncrypted(EncryptValue(v, key)) /\ Top(EncryptValue(v, key)) = key
<1>1. v.layers \in Seq(Layers(gen)) /\ Len(v.layers) \in Nat
  BY TopOf DEF Values
<1>. DEFINE more == Append(v.layers, key)
<1>2. more \in Seq(Layers(gen)) /\ Len(more) = Len(v.layers) + 1 /\ more[Len(more)] = key
  BY <1>1
<1>3. EncryptValue(v, key) = [plain |-> v.plain, layers |-> more]
  <2>1. v \in [plain : Nodes \union {Empty}, layers : Seq(Layers(gen))] /\ EncryptValue(v, key) = [v EXCEPT !.layers = more]
    BY DEF EncryptValue, Values
  <2>. HIDE DEF more
  <2>. QED
    BY <2>1
<1>. HIDE DEF more
<1>4. more # <<>>
  BY <1>1, <1>2
<1>5. MaxLayers \in Nat
  BY VaultAssumption
<1>6. EncryptValue(v, key).layers = Append(v.layers, key)
  BY <1>3 DEF more
<1>. QED
  BY <1>1, <1>2, <1>3, <1>4, <1>5, <1>6 DEF IsEncrypted, Values, Top

LEMMA RekeyedOf ==
    ASSUME NEW gen, NEW v \in Values(gen), IsEncrypted(v), ~IsEncrypted(Unwrapped(v)), NEW to \in Layers(gen)
    PROVE  /\ EncryptValue(Unwrapped(v), to) \in Values(gen)
           /\ EncryptValue(Unwrapped(v), to).plain = v.plain
           /\ EncryptValue(Unwrapped(v), to).layers = <<to>>
<1>1. Unwrapped(v) \in Values(gen) /\ Unwrapped(v).plain = v.plain /\ Unwrapped(v).layers = <<>>
  BY UnwrappedOf, TopOf
<1>2. Len(Unwrapped(v).layers) < MaxLayers
  BY <1>1, VaultAssumption
<1>3. Append(<<>>, to) = <<to>>
  OBVIOUS
<1>. QED
  BY <1>1, <1>2, <1>3, EncryptedOf

-----------------------------------------------------------------------------
(* Outcomes *)

Outcomes(gen) ==
    {r \in [ok : BOOLEAN, doc : Docs(gen) \union {NoDoc}, changed : SUBSET Paths, skipped : SUBSET Paths] :
        r.ok => r.doc \in Docs(gen)}

LEMMA OutcomesThere ==
    ASSUME NEW gen
    PROVE  /\ Failure \in Outcomes(gen)
           /\ \A d \in Docs(gen) : Done(d) \in Outcomes(gen)
BY DEF Outcomes, Failure, Done

\* What is written reads back, or the rewrite fails.
LEMMA RewriteReadsBack ==
    ASSUME NEW gen, NEW d \in Docs(gen), NEW n \in Nodes, NEW v \in Values(gen), v.plain \in Plains(n)
    PROVE  Gives(Rewritten(d, n, v), gen, d, n, v)
<1>. DEFINE new == With(d, n, v)
            bad == [d EXCEPT !.vals = [@ EXCEPT ![n] = Value(Garbled, <<>>)]]
<1>1. d \in [vals : [Nodes -> Values(gen)], record : SUBSET gen, block : Styles, awkward : SUBSET Nodes]
  BY DEF Docs
<1>2. new \in Docs(gen)
  <2>1. new \in [vals : [Nodes -> Values(gen)], record : SUBSET gen, block : Styles, awkward : SUBSET Nodes]
    BY <1>1 DEF With
  <2>2. \A m \in Nodes : new.vals[m].plain \in Plains(m)
    BY <1>1 DEF Docs, With
  <2>3. new.record # {} => new.block
    BY <1>1 DEF Docs, With
  <2>. QED
    BY <2>1, <2>2, <2>3 DEF Docs
<1>3. CASE n \in d.awkward
  <2>1. spliceScalar(d, n, v) = bad
    BY <1>1, <1>3 DEF spliceScalar
  <2>2. bad.vals[n] = Value(Garbled, <<>>)
    BY <1>1
  <2>3. Value(Garbled, <<>>) # v
    <3>1. v.plain # Garbled
      <4>1. Garbled \notin Nodes /\ Garbled # Empty
        BY VaultAssumption DEF Garbled, Empty
      <4>. QED
        BY <4>1 DEF Plains
    <3>. QED
      BY <3>1 DEF Value
  <2>. HIDE DEF bad
  <2>. QED
    BY <2>1, <2>2, <2>3 DEF Rewritten, verifiedRewrite, Gives
<1>4. CASE n \notin d.awkward
  <2>1. spliceScalar(d, n, v) = new
    BY <1>1, <1>4 DEF spliceScalar, With
  <2>2. new.vals[n] = v
    BY <1>1 DEF With
  <2>3. Rewritten(d, n, v) = Done(new)
    <3>. HIDE DEF new
    <3>. QED
      BY <2>1, <2>2 DEF Rewritten, verifiedRewrite
  <2>. QED
    BY <1>2, <2>3 DEF Gives
<1>. QED
  BY <1>3, <1>4

LEMMA ValueMoves ==
    ASSUME NEW gen, NEW acc \in Outcomes(gen), NEW i \in credentialPaths, NEW want, NEW new, NEW able, NEW w, NEW r,
           NEW v, v = At(acc.doc, PathSeq[i]),
           acc.ok => w = want[v],
           acc.ok /\ w = "yes" => Gives(r, gen, acc.doc, NodeOf[PathSeq[i]], new[v]) /\ (r.ok => v \in able)
    PROVE  /\ rewriteValue(acc, PathSeq[i], w, r) \in Outcomes(gen)
           /\ Moves(acc, rewriteValue(acc, PathSeq[i], w, r), i, want, new, able)
<1>. DEFINE path == PathSeq[i]
            next == With(acc.doc, NodeOf[path], new[v])
            out == rewriteValue(acc, path, w, r)
<1>1. path \in Paths
  BY PathsLead DEF credentialPaths
<1>2. acc \in [ok : BOOLEAN, doc : Docs(gen) \union {NoDoc}, changed : SUBSET Paths, skipped : SUBSET Paths]
      /\ (acc.ok => acc.doc \in Docs(gen))
  BY DEF Outcomes
<1>3. scalarAtPath(acc.doc, path) <=> v # NoValue
  BY DEF scalarAtPath, NoValue
<1>4. CASE ~acc.ok
  <2>1. out = acc
    BY <1>4 DEF rewriteValue
  <2>. QED
    BY <1>2, <1>4, <2>1 DEF Moves, Outcomes
<1>5. CASE acc.ok /\ (v = NoValue \/ w = "no")
  <2>1. out = acc
    BY <1>3, <1>5 DEF rewriteValue
  <2>. QED
    BY <1>2, <1>5, <2>1 DEF Moves, Outcomes
<1>6. CASE acc.ok /\ v # NoValue /\ w = "skip"
  <2>1. out = [acc EXCEPT !.skipped = @ \union {path}]
    BY <1>3, <1>6 DEF rewriteValue
  <2>. QED
    BY <1>1, <1>2, <1>6, <2>1 DEF Moves, Outcomes
<1>7. CASE acc.ok /\ v # NoValue /\ w = "yes" /\ r.ok
  <2>1. out = [acc EXCEPT !.doc = r.doc, !.changed = @ \union {path}]
    BY <1>3, <1>7 DEF rewriteValue
  <2>2. r.doc = next /\ next \in Docs(gen) /\ v \in able
    BY <1>7 DEF Gives, Failure, Done
  <2>3. w = want[v]
    BY <1>7
  <2>. HIDE DEF next
  <2>4. out \in Outcomes(gen) /\ out.doc = next /\ out.changed = acc.changed \union {path} /\ out.skipped = acc.skipped
    BY <1>1, <1>2, <2>1, <2>2 DEF Outcomes
  <2>. HIDE DEF out
  <2>. QED
    BY <1>7, <2>2, <2>3, <2>4 DEF Moves, next, out
<1>8. CASE acc.ok /\ v # NoValue /\ w \notin {"no", "skip"} /\ ~(w = "yes" /\ r.ok)
  <2>1. out = Failure
    BY <1>3, <1>8 DEF rewriteValue
  <2>2. Failure \in Outcomes(gen) /\ ~Failure.ok
    BY OutcomesThere DEF Failure
  <2>. HIDE DEF out
  <2>3. Moves(acc, out, i, want, new, able)
    BY <2>1, <2>2 DEF Moves
  <2>. QED
    BY <2>1, <2>2, <2>3 DEF out
<1>. QED
  BY <1>4, <1>5, <1>6, <1>7, <1>8

LEMMA PassedOver ==
    ASSUME NEW gen, NEW acc \in Outcomes(gen), NEW i, i \notin credentialPaths, NEW want, NEW new, NEW able
    PROVE  Moves(acc, acc, i, want, new, able)
BY DEF Moves

LEMMA ValueThere ==
    ASSUME NEW gen, NEW d \in Docs(gen), NEW path \in Paths
    PROVE  /\ NodeOf[path] \in Nodes /\ At(d, path) = d.vals[NodeOf[path]] /\ At(d, path) \in Values(gen)
           /\ At(d, path).plain \in Plains(NodeOf[path])
BY DEF Docs, At, Nodes

\* A walk is worked out from beginning to end.
LEMMA StaysIn ==
    ASSUME NEW D, NEW n \in Nat, NEW w, w[0] \in D, \A i \in 1..n : w[i - 1] \in D => w[i] \in D
    PROVE  \A i \in 0..n : w[i] \in D
<1>. DEFINE T == {i \in 0..n : w[i] \in D}
<1>1. 0 \in T /\ \A i \in 1..n : i - 1 \in T => i \in T
  OBVIOUS
<1>. HIDE DEF T
<1>2. \A i \in 0..n : i \in T
  BY <1>1, InductionTo
<1>. QED
  BY <1>2 DEF T

-----------------------------------------------------------------------------
(* encrypt-file *)

EncryptWanted(v, key, force) ==
    IF force \/ ~IsEncrypted(v) THEN "yes"
    ELSE IF Top(v).fmt = "vault" /\ key.fmt = "vault" THEN Probe(v, key)
    ELSE "skip"
EncryptNext(acc, i, key, force) ==
    rewriteNext(acc, i, LAMBDA v : EncryptWanted(v, key, force), LAMBDA doc, path : EncryptAtPath(doc, path, key, TRUE))
EncryptWalk(src, key, force) ==
    rewriteConfig(src, LAMBDA v : EncryptWanted(v, key, force), LAMBDA doc, path : EncryptAtPath(doc, path, key, TRUE))
EncryptWant(gen, key, force) == [v \in Values(gen) |-> EncryptWanted(v, key, force)]
EncryptNew(gen, key) == [v \in Values(gen) |-> EncryptValue(v, key)]

LEMMA EncryptAt ==
    ASSUME NEW gen, NEW d \in Docs(gen), NEW path \in Paths, NEW key \in Layers(gen), NEW force,
           NEW v, v = At(d, path), NEW r, r = EncryptAtPath(d, path, key, force)
    PROVE  Gives(r, gen, d, NodeOf[path], EncryptValue(v, key)) /\ (r.ok => force \/ ~IsEncrypted(v))
<1>. DEFINE n == NodeOf[path]
<1>1. n \in Nodes /\ v \in Values(gen) /\ v.plain \in Plains(n)
  BY ValueThere
<1>2. CASE (IsEncrypted(v) /\ ~force) \/ Len(v.layers) = MaxLayers
  BY <1>2 DEF EncryptAtPath, Gives, Failure
<1>3. CASE ~((IsEncrypted(v) /\ ~force) \/ Len(v.layers) = MaxLayers)
  <2>1. r = Rewritten(d, n, EncryptValue(v, key))
    BY <1>3 DEF EncryptAtPath
  <2>2. Len(v.layers) < MaxLayers
    BY <1>1, <1>3, TopOf, VaultAssumption
  <2>3. EncryptValue(v, key) \in Values(gen) /\ EncryptValue(v, key).plain \in Plains(n)
    BY <1>1, <2>2, EncryptedOf
  <2>. HIDE DEF n
  <2>4. Gives(r, gen, d, n, EncryptValue(v, key))
    BY <1>1, <2>1, <2>3, RewriteReadsBack
  <2>. QED
    BY <1>3, <2>4 DEF n
<1>. QED
  BY <1>2, <1>3

LEMMA EncryptMoves ==
    ASSUME NEW gen, NEW acc \in Outcomes(gen), NEW i \in 1..Len(PathSeq), NEW key \in Layers(gen), NEW force
    PROVE  /\ EncryptNext(acc, i, key, force) \in Outcomes(gen)
           /\ Moves(acc, EncryptNext(acc, i, key, force), i, EncryptWant(gen, key, force), EncryptNew(gen, key), Values(gen))
<1>1. CASE i \notin credentialPaths
  <2>1. EncryptNext(acc, i, key, force) = acc
    BY <1>1 DEF EncryptNext, rewriteNext
  <2>. QED
    BY <1>1, <2>1, PassedOver
<1>2. CASE i \in credentialPaths
  <2>. DEFINE path == PathSeq[i]
              v == At(acc.doc, path)
              w == EncryptWanted(v, key, force)
              r == EncryptAtPath(acc.doc, path, key, TRUE)
  <2>1. EncryptNext(acc, i, key, force) = rewriteValue(acc, path, w, r)
    BY <1>2 DEF EncryptNext, rewriteNext
  <2>2. ASSUME acc.ok
        PROVE  /\ w = EncryptWant(gen, key, force)[v]
               /\ Gives(r, gen, acc.doc, NodeOf[path], EncryptNew(gen, key)[v]) /\ v \in Values(gen)
    <3>1. acc.doc \in Docs(gen) /\ path \in Paths
      BY <2>2, PathsLead DEF Outcomes
    <3>2. v \in Values(gen)
      BY <3>1, ValueThere
    <3>3. EncryptNew(gen, key)[v] = EncryptValue(v, key) /\ EncryptWant(gen, key, force)[v] = w
      BY <3>2 DEF EncryptNew, EncryptWant
    <3>4. Gives(r, gen, acc.doc, NodeOf[path], EncryptValue(v, key))
      <4>. HIDE DEF path
      <4>. QED
        BY <3>1, EncryptAt
    <3>. HIDE DEF v, r, w
    <3>. QED
      BY <3>2, <3>3, <3>4
  <2>. HIDE DEF w, r
  <2>3. /\ rewriteValue(acc, path, w, r) \in Outcomes(gen)
        /\ Moves(acc, rewriteValue(acc, path, w, r), i, EncryptWant(gen, key, force), EncryptNew(gen, key), Values(gen))
    BY <1>2, <2>2, ValueMoves
  <2>. QED
    BY <2>1, <2>3
<1>. QED
  BY <1>1, <1>2

LEMMA EncryptWalks ==
    ASSUME NEW gen, NEW src \in Docs(gen), NEW key \in Layers(gen), NEW force \in BOOLEAN
    PROVE  LET r == EncryptWalk(src, key, force) IN
           /\ r \in Outcomes(gen)
           /\ r.ok => WalkEnds(src, r, EncryptWant(gen, key, force), EncryptNew(gen, key), Values(gen))
<1>. DEFINE n == Len(PathSeq)
            Is(g) == g = [i \in 0..n |-> IF i = 0 THEN Done(src) ELSE EncryptNext(g[i - 1], i, key, force)]
            w == CHOOSE g : Is(g)
<1>1. EncryptWalk(src, key, force) = w[n]
  BY Zenon DEF EncryptWalk, rewriteConfig, EncryptNext
<1>2. n \in Nat /\ Done(src) \in Outcomes(gen)
  BY VaultAssumption, OutcomesThere
<1>3. \E g : Is(g)
  <2>. DEFINE move == [x \in Outcomes(gen) \X (1..n) |-> EncryptNext(x[1], x[2], key, force)]
  <2>1. move \in [Outcomes(gen) \X (1..n) -> Outcomes(gen)]
    BY EncryptMoves
  <2>2. \A x \in Outcomes(gen), i \in 1..n : move[<<x, i>>] = EncryptNext(x, i, key, force)
    OBVIOUS
  <2>. HIDE DEF move, n
  <2>3. PICK g \in [0..n -> Outcomes(gen)] : StepsTo(g, Done(src), n, move)
    BY <1>2, <2>1, StepByStep
  <2>4. \A i \in 1..n : g[i] = EncryptNext(g[i - 1], i, key, force)
    <3>1. \A i \in 1..n : i - 1 \in 0..n
      BY <1>2
    <3>. QED
      BY <2>2, <2>3, <3>1 DEF StepsTo
  <2>. QED
    BY <1>2, <2>3, <2>4 DEF StepsTo
<1>4. Is(w)
  BY <1>3, Zenon
<1>. HIDE DEF w
<1>5. w[0] = Done(src) /\ \A i \in 1..n : w[i] = EncryptNext(w[i - 1], i, key, force)
  BY <1>2, <1>4
<1>6. \A i \in 0..n : w[i] \in Outcomes(gen)
  <2>1. \A i \in 1..n : w[i - 1] \in Outcomes(gen) => w[i] \in Outcomes(gen)
    BY <1>5, EncryptMoves
  <2>. QED
    BY <1>2, <1>5, <2>1, StaysIn
<1>7. \A i \in 1..n : Moves(w[i - 1], w[i], i, EncryptWant(gen, key, force), EncryptNew(gen, key), Values(gen))
  BY <1>2, <1>5, <1>6, EncryptMoves
<1>8. w[n].ok => WalkEnds(src, w[n], EncryptWant(gen, key, force), EncryptNew(gen, key), Values(gen))
  BY <1>5, <1>7, WalkThrough
<1>. QED
  BY <1>1, <1>2, <1>6, <1>8

-----------------------------------------------------------------------------
(* decrypt-file *)

DecryptWanted(v) == IF IsEncrypted(v) THEN "yes" ELSE "no"
DecryptNext(acc, i, ring) ==
    rewriteNext(acc, i, LAMBDA v : DecryptWanted(v), LAMBDA doc, path : DecryptAtPath(doc, path, ring))
DecryptWalk(src, ring) ==
    rewriteConfig(src, LAMBDA v : DecryptWanted(v), LAMBDA doc, path : DecryptAtPath(doc, path, ring))
DecryptWant(gen) == [v \in Values(gen) |-> DecryptWanted(v)]
DecryptNew(gen) == [v \in Values(gen) |-> Unwrapped(v)]

LEMMA DecryptAt ==
    ASSUME NEW gen, NEW d \in Docs(gen), NEW path \in Paths, NEW ring,
           NEW v, v = At(d, path), NEW r, r = DecryptAtPath(d, path, ring)
    PROVE  Gives(r, gen, d, NodeOf[path], Unwrapped(v))
<1>. DEFINE n == NodeOf[path]
<1>1. n \in Nodes /\ v \in Values(gen) /\ v.plain \in Plains(n)
  BY ValueThere
<1>2. CASE ~IsEncrypted(v) \/ ~CanRead(v, ring)
  BY <1>2 DEF DecryptAtPath, Gives
<1>3. CASE IsEncrypted(v) /\ CanRead(v, ring)
  <2>1. r = Rewritten(d, n, Unwrapped(v))
    BY <1>3 DEF DecryptAtPath
  <2>2. Unwrapped(v) \in Values(gen) /\ Unwrapped(v).plain \in Plains(n)
    BY <1>1, <1>3, UnwrappedOf
  <2>. HIDE DEF n
  <2>3. Gives(r, gen, d, n, Unwrapped(v))
    BY <1>1, <2>1, <2>2, RewriteReadsBack
  <2>. QED
    BY <2>3 DEF n
<1>. QED
  BY <1>2, <1>3

LEMMA DecryptMoves ==
    ASSUME NEW gen, NEW acc \in Outcomes(gen), NEW i \in 1..Len(PathSeq), NEW ring
    PROVE  /\ DecryptNext(acc, i, ring) \in Outcomes(gen)
           /\ Moves(acc, DecryptNext(acc, i, ring), i, DecryptWant(gen), DecryptNew(gen), Values(gen))
<1>1. CASE i \notin credentialPaths
  <2>1. DecryptNext(acc, i, ring) = acc
    BY <1>1 DEF DecryptNext, rewriteNext
  <2>. QED
    BY <1>1, <2>1, PassedOver
<1>2. CASE i \in credentialPaths
  <2>. DEFINE path == PathSeq[i]
              v == At(acc.doc, path)
              w == DecryptWanted(v)
              r == DecryptAtPath(acc.doc, path, ring)
  <2>1. DecryptNext(acc, i, ring) = rewriteValue(acc, path, w, r)
    BY <1>2 DEF DecryptNext, rewriteNext
  <2>2. ASSUME acc.ok
        PROVE  /\ w = DecryptWant(gen)[v]
               /\ Gives(r, gen, acc.doc, NodeOf[path], DecryptNew(gen)[v]) /\ v \in Values(gen)
    <3>1. acc.doc \in Docs(gen) /\ path \in Paths
      BY <2>2, PathsLead DEF Outcomes
    <3>2. v \in Values(gen)
      BY <3>1, ValueThere
    <3>3. DecryptNew(gen)[v] = Unwrapped(v) /\ DecryptWant(gen)[v] = w
      BY <3>2 DEF DecryptNew, DecryptWant
    <3>4. Gives(r, gen, acc.doc, NodeOf[path], Unwrapped(v))
      <4>. HIDE DEF path
      <4>. QED
        BY <3>1, DecryptAt
    <3>. HIDE DEF v, r, w
    <3>. QED
      BY <3>2, <3>3, <3>4
  <2>. HIDE DEF w, r
  <2>3. /\ rewriteValue(acc, path, w, r) \in Outcomes(gen)
        /\ Moves(acc, rewriteValue(acc, path, w, r), i, DecryptWant(gen), DecryptNew(gen), Values(gen))
    BY <1>2, <2>2, ValueMoves
  <2>. QED
    BY <2>1, <2>3
<1>. QED
  BY <1>1, <1>2

LEMMA DecryptWalks ==
    ASSUME NEW gen, NEW src \in Docs(gen), NEW ring
    PROVE  LET r == DecryptWalk(src, ring) IN
           /\ r \in Outcomes(gen)
           /\ r.ok => WalkEnds(src, r, DecryptWant(gen), DecryptNew(gen), Values(gen))
<1>. DEFINE n == Len(PathSeq)
            Is(g) == g = [i \in 0..n |-> IF i = 0 THEN Done(src) ELSE DecryptNext(g[i - 1], i, ring)]
            w == CHOOSE g : Is(g)
<1>1. DecryptWalk(src, ring) = w[n]
  BY Zenon DEF DecryptWalk, rewriteConfig, DecryptNext
<1>2. n \in Nat /\ Done(src) \in Outcomes(gen)
  BY VaultAssumption, OutcomesThere
<1>3. \E g : Is(g)
  <2>. DEFINE move == [x \in Outcomes(gen) \X (1..n) |-> DecryptNext(x[1], x[2], ring)]
  <2>1. move \in [Outcomes(gen) \X (1..n) -> Outcomes(gen)]
    BY DecryptMoves
  <2>2. \A x \in Outcomes(gen), i \in 1..n : move[<<x, i>>] = DecryptNext(x, i, ring)
    OBVIOUS
  <2>. HIDE DEF move, n
  <2>3. PICK g \in [0..n -> Outcomes(gen)] : StepsTo(g, Done(src), n, move)
    BY <1>2, <2>1, StepByStep
  <2>4. \A i \in 1..n : g[i] = DecryptNext(g[i - 1], i, ring)
    <3>1. \A i \in 1..n : i - 1 \in 0..n
      BY <1>2
    <3>. QED
      BY <2>2, <2>3, <3>1 DEF StepsTo
  <2>. QED
    BY <1>2, <2>3, <2>4 DEF StepsTo
<1>4. Is(w)
  BY <1>3, Zenon
<1>. HIDE DEF w
<1>5. w[0] = Done(src) /\ \A i \in 1..n : w[i] = DecryptNext(w[i - 1], i, ring)
  BY <1>2, <1>4
<1>6. \A i \in 0..n : w[i] \in Outcomes(gen)
  <2>1. \A i \in 1..n : w[i - 1] \in Outcomes(gen) => w[i] \in Outcomes(gen)
    BY <1>5, DecryptMoves
  <2>. QED
    BY <1>2, <1>5, <2>1, StaysIn
<1>7. \A i \in 1..n : Moves(w[i - 1], w[i], i, DecryptWant(gen), DecryptNew(gen), Values(gen))
  BY <1>2, <1>5, <1>6, DecryptMoves
<1>8. w[n].ok => WalkEnds(src, w[n], DecryptWant(gen), DecryptNew(gen), Values(gen))
  BY <1>5, <1>7, WalkThrough
<1>. QED
  BY <1>1, <1>2, <1>6, <1>8

-----------------------------------------------------------------------------
(* rekey *)

RekeyWanted(v, from) == IF ~IsEncrypted(v) THEN "no" ELSE IF CanRead(v, from) THEN "yes" ELSE "error"
RekeyNext(acc, i, from, to) ==
    rewriteNext(acc, i, LAMBDA v : RekeyWanted(v, from), LAMBDA doc, path : RekeyAtPath(doc, path, from, to))
RekeyWalk(src, from, to) ==
    rewriteConfig(src, LAMBDA v : RekeyWanted(v, from), LAMBDA doc, path : RekeyAtPath(doc, path, from, to))
RekeyWant(gen, from) == [v \in Values(gen) |-> RekeyWanted(v, from)]
RekeyNew(gen, to) == [v \in Values(gen) |-> EncryptValue(Unwrapped(v), to)]

\* What can be moved onto another key.
Single(gen, to) == {v \in Values(gen) : to # NoLayer /\ IsEncrypted(v) /\ ~IsEncrypted(Unwrapped(v))}

LEMMA RekeyAt ==
    ASSUME NEW gen, NEW d \in Docs(gen), NEW path \in Paths, NEW from, NEW to \in Layers(gen) \union {NoLayer},
           NEW v, v = At(d, path), NEW r, r = RekeyAtPath(d, path, from, to)
    PROVE  Gives(r, gen, d, NodeOf[path], EncryptValue(Unwrapped(v), to)) /\ (r.ok => v \in Single(gen, to))
<1>. DEFINE n == NodeOf[path]
<1>1. n \in Nodes /\ v \in Values(gen) /\ v.plain \in Plains(n)
  BY ValueThere
<1>2. CASE v \notin Single(gen, to) \/ ~CanRead(v, from)
  <2>1. r = Failure
    BY <1>1, <1>2 DEF RekeyAtPath, Single
  <2>. QED
    BY <2>1 DEF Gives, Failure
<1>3. CASE v \in Single(gen, to) /\ CanRead(v, from)
  <2>1. r = Rewritten(d, n, EncryptValue(Unwrapped(v), to))
    BY <1>3 DEF RekeyAtPath, Single
  <2>2. EncryptValue(Unwrapped(v), to) \in Values(gen) /\ EncryptValue(Unwrapped(v), to).plain \in Plains(n)
    BY <1>1, <1>3, RekeyedOf DEF Single
  <2>. HIDE DEF n
  <2>3. Gives(r, gen, d, n, EncryptValue(Unwrapped(v), to))
    BY <1>1, <2>1, <2>2, RewriteReadsBack
  <2>. QED
    BY <1>3, <2>3 DEF n
<1>. QED
  BY <1>2, <1>3

LEMMA RekeyMoves ==
    ASSUME NEW gen, NEW acc \in Outcomes(gen), NEW i \in 1..Len(PathSeq), NEW from, NEW to \in Layers(gen) \union {NoLayer}
    PROVE  /\ RekeyNext(acc, i, from, to) \in Outcomes(gen)
           /\ Moves(acc, RekeyNext(acc, i, from, to), i, RekeyWant(gen, from), RekeyNew(gen, to), Single(gen, to))
<1>1. CASE i \notin credentialPaths
  <2>1. RekeyNext(acc, i, from, to) = acc
    BY <1>1 DEF RekeyNext, rewriteNext
  <2>. QED
    BY <1>1, <2>1, PassedOver
<1>2. CASE i \in credentialPaths
  <2>. DEFINE path == PathSeq[i]
              v == At(acc.doc, path)
              w == RekeyWanted(v, from)
              r == RekeyAtPath(acc.doc, path, from, to)
  <2>1. RekeyNext(acc, i, from, to) = rewriteValue(acc, path, w, r)
    BY <1>2 DEF RekeyNext, rewriteNext
  <2>2. ASSUME acc.ok
        PROVE  /\ w = RekeyWant(gen, from)[v]
               /\ Gives(r, gen, acc.doc, NodeOf[path], RekeyNew(gen, to)[v]) /\ (r.ok => v \in Single(gen, to))
    <3>1. acc.doc \in Docs(gen) /\ path \in Paths
      BY <2>2, PathsLead DEF Outcomes
    <3>2. v \in Values(gen)
      BY <3>1, ValueThere
    <3>3. RekeyNew(gen, to)[v] = EncryptValue(Unwrapped(v), to) /\ RekeyWant(gen, from)[v] = w
      BY <3>2 DEF RekeyNew, RekeyWant
    <3>4. Gives(r, gen, acc.doc, NodeOf[path], EncryptValue(Unwrapped(v), to)) /\ (r.ok => v \in Single(gen, to))
      <4>. HIDE DEF path
      <4>. QED
        BY <3>1, RekeyAt
    <3>. HIDE DEF v, r, w
    <3>. QED
      BY <3>2, <3>3, <3>4
  <2>. HIDE DEF w, r
  <2>3. /\ rewriteValue(acc, path, w, r) \in Outcomes(gen)
        /\ Moves(acc, rewriteValue(acc, path, w, r), i, RekeyWant(gen, from), RekeyNew(gen, to), Single(gen, to))
    BY <1>2, <2>2, ValueMoves
  <2>. QED
    BY <2>1, <2>3
<1>. QED
  BY <1>1, <1>2

LEMMA RekeyWalks ==
    ASSUME NEW gen, NEW src \in Docs(gen), NEW from, NEW to \in Layers(gen) \union {NoLayer}
    PROVE  LET r == RekeyWalk(src, from, to) IN
           /\ r \in Outcomes(gen)
           /\ r.ok => WalkEnds(src, r, RekeyWant(gen, from), RekeyNew(gen, to), Single(gen, to))
<1>. DEFINE n == Len(PathSeq)
            Is(g) == g = [i \in 0..n |-> IF i = 0 THEN Done(src) ELSE RekeyNext(g[i - 1], i, from, to)]
            w == CHOOSE g : Is(g)
<1>1. RekeyWalk(src, from, to) = w[n]
  BY Zenon DEF RekeyWalk, rewriteConfig, RekeyNext
<1>2. n \in Nat /\ Done(src) \in Outcomes(gen)
  BY VaultAssumption, OutcomesThere
<1>3. \E g : Is(g)
  <2>. DEFINE move == [x \in Outcomes(gen) \X (1..n) |-> RekeyNext(x[1], x[2], from, to)]
  <2>1. move \in [Outcomes(gen) \X (1..n) -> Outcomes(gen)]
    BY RekeyMoves
  <2>2. \A x \in Outcomes(gen), i \in 1..n : move[<<x, i>>] = RekeyNext(x, i, from, to)
    OBVIOUS
  <2>. HIDE DEF move, n
  <2>3. PICK g \in [0..n -> Outcomes(gen)] : StepsTo(g, Done(src), n, move)
    BY <1>2, <2>1, StepByStep
  <2>4. \A i \in 1..n : g[i] = RekeyNext(g[i - 1], i, from, to)
    <3>1. \A i \in 1..n : i - 1 \in 0..n
      BY <1>2
    <3>. QED
      BY <2>2, <2>3, <3>1 DEF StepsTo
  <2>. QED
    BY <1>2, <2>3, <2>4 DEF StepsTo
<1>4. Is(w)
  BY <1>3, Zenon
<1>. HIDE DEF w
<1>5. w[0] = Done(src) /\ \A i \in 1..n : w[i] = RekeyNext(w[i - 1], i, from, to)
  BY <1>2, <1>4
<1>6. \A i \in 0..n : w[i] \in Outcomes(gen)
  <2>1. \A i \in 1..n : w[i - 1] \in Outcomes(gen) => w[i] \in Outcomes(gen)
    BY <1>5, RekeyMoves
  <2>. QED
    BY <1>2, <1>5, <2>1, StaysIn
<1>7. \A i \in 1..n : Moves(w[i - 1], w[i], i, RekeyWant(gen, from), RekeyNew(gen, to), Single(gen, to))
  BY <1>2, <1>5, <1>6, RekeyMoves
<1>8. w[n].ok => WalkEnds(src, w[n], RekeyWant(gen, from), RekeyNew(gen, to), Single(gen, to))
  BY <1>5, <1>7, WalkThrough
<1>. QED
  BY <1>1, <1>2, <1>6, <1>8

-----------------------------------------------------------------------------
(* encrypt-path and decrypt-path *)

Onwards(gen, src, keep) ==
    {r \in Outcomes(gen) : r.ok =>
        /\ r.doc.block = src.block
        /\ keep => \A n \in Nodes : IsEncrypted(src.vals[n]) => IsEncrypted(r.doc.vals[n])}

EncryptPathsNext(acc, path, key, force) == rewriteAt(acc, path, LAMBDA doc, place : EncryptAtPath(doc, place, key, force))
EncryptPaths(src, paths, key, force) == AtPaths(src, paths, LAMBDA doc, path : EncryptAtPath(doc, path, key, force))
DecryptPathsNext(acc, path, ring) == rewriteAt(acc, path, LAMBDA doc, place : DecryptAtPath(doc, place, ring))
DecryptPaths(src, paths, ring) == AtPaths(src, paths, LAMBDA doc, path : DecryptAtPath(doc, path, ring))

LEMMA PathsTyped == canonicalYAMLPaths \subseteq Seq(Paths)
<1>. SUFFICES ASSUME NEW x \in canonicalYAMLPaths PROVE x \in Seq(Paths)
  OBVIOUS
<1>1. PICK ps \in ArgLists :
        /\ \A i \in 1..Len(ps) : parseYAMLPath(ps[i]) # {}
        /\ x = [i \in 1..Len(ps) |-> CanonicalYAMLPath(ps[i])]
  BY DEF canonicalYAMLPaths
<1>2. Len(ps) \in Nat /\ \A i \in 1..Len(ps) : ps[i].path \in Paths
  <2>. DEFINE Paired == [spelling : STRING, path : Paths]
  <2>1. \A xs \in Paired : xs.path \in Paths
    OBVIOUS
  <2>2. ps \in Seq(Paired)
    BY VaultAssumption
  <2>. HIDE DEF Paired
  <2>3. Len(ps) \in Nat /\ \A i \in 1..Len(ps) : ps[i] \in Paired
    BY <2>2
  <2>. QED
    BY <2>1, <2>3
<1>3. \A i \in 1..Len(ps) : CanonicalYAMLPath(ps[i]) = ps[i].path
  BY <1>1 DEF CanonicalYAMLPath, parseYAMLPath
<1>. QED
  BY <1>1, <1>2, <1>3

LEMMA GoesOn ==
    ASSUME NEW gen, NEW src, NEW keep, NEW acc \in Onwards(gen, src, keep), acc.ok, NEW path \in Paths,
           NEW v, NEW r, Gives(r, gen, acc.doc, NodeOf[path], v), r.ok /\ keep => IsEncrypted(v)
    PROVE  [r EXCEPT !.changed = {path}] \in Onwards(gen, src, keep)
<1>. DEFINE n0 == NodeOf[path]
            next == With(acc.doc, n0, v)
<1>1. acc.doc \in Docs(gen) /\ acc.doc.block = src.block
      /\ (keep => \A n \in Nodes : IsEncrypted(src.vals[n]) => IsEncrypted(acc.doc.vals[n]))
  BY DEF Onwards, Outcomes
<1>2. CASE r = Failure
  BY <1>2 DEF Failure, Onwards, Outcomes
<1>3. CASE r = Done(next) /\ next \in Docs(gen)
  <2>1. [r EXCEPT !.changed = {path}] = [ok |-> TRUE, doc |-> next, changed |-> {path}, skipped |-> {}]
    <3>. HIDE DEF next
    <3>1. r = [ok |-> TRUE, doc |-> next, changed |-> {}, skipped |-> {}]
      BY <1>3 DEF Done
    <3>2. r \in [ok : BOOLEAN, doc : {next}, changed : {{}}, skipped : {{}}]
      BY <3>1
    <3>3. [r EXCEPT !.changed = {path}] = [ok |-> r.ok, doc |-> r.doc, changed |-> {path}, skipped |-> r.skipped]
      BY <3>2
    <3>. QED
      BY <3>1, <3>3
  <2>2. next.block = src.block
    BY <1>1 DEF With, Docs
  <2>3. ASSUME keep, NEW n \in Nodes, IsEncrypted(src.vals[n]) PROVE IsEncrypted(next.vals[n])
    <3>1. IsEncrypted(acc.doc.vals[n]) /\ IsEncrypted(v)
      BY <1>1, <1>3, <2>3 DEF Done
    <3>2. next.vals[n] = IF n = n0 THEN v ELSE acc.doc.vals[n]
      BY <1>1 DEF With, Docs
    <3>. QED
      BY <3>1, <3>2
  <2>. HIDE DEF next
  <2>. QED
    BY <1>3, <2>1, <2>2, <2>3 DEF Onwards, Outcomes
<1>. QED
  BY <1>2, <1>3 DEF Gives

LEMMA EncryptPathsStep ==
    ASSUME NEW gen, NEW src, NEW acc \in Onwards(gen, src, TRUE), NEW path \in Paths, NEW key \in Layers(gen), NEW force
    PROVE  EncryptPathsNext(acc, path, key, force) \in Onwards(gen, src, TRUE)
<1>1. CASE ~acc.ok
  BY <1>1 DEF EncryptPathsNext, rewriteAt
<1>2. CASE acc.ok
  <2>. DEFINE r == EncryptAtPath(acc.doc, path, key, force)
              v == EncryptValue(At(acc.doc, path), key)
  <2>1. acc.doc \in Docs(gen)
    BY <1>2 DEF Onwards, Outcomes
  <2>2. Gives(r, gen, acc.doc, NodeOf[path], v)
    BY <2>1, EncryptAt
  <2>3. IsEncrypted(v)
    BY <2>1, ValueThere, EncryptedOf
  <2>. HIDE DEF r, v
  <2>4. [r EXCEPT !.changed = {path}] \in Onwards(gen, src, TRUE)
    BY <1>2, <2>2, <2>3, GoesOn
  <2>. QED
    BY <1>2, <2>4 DEF EncryptPathsNext, rewriteAt, r
<1>. QED
  BY <1>1, <1>2

LEMMA DecryptPathsStep ==
    ASSUME NEW gen, NEW src, NEW acc \in Onwards(gen, src, FALSE), NEW path \in Paths, NEW ring
    PROVE  DecryptPathsNext(acc, path, ring) \in Onwards(gen, src, FALSE)
<1>1. CASE ~acc.ok
  BY <1>1 DEF DecryptPathsNext, rewriteAt
<1>2. CASE acc.ok
  <2>. DEFINE r == DecryptAtPath(acc.doc, path, ring)
              v == Unwrapped(At(acc.doc, path))
  <2>1. acc.doc \in Docs(gen)
    BY <1>2 DEF Onwards, Outcomes
  <2>2. Gives(r, gen, acc.doc, NodeOf[path], v)
    BY <2>1, DecryptAt
  <2>. HIDE DEF r, v
  <2>3. [r EXCEPT !.changed = {path}] \in Onwards(gen, src, FALSE)
    BY <1>2, <2>2, GoesOn
  <2>. QED
    BY <1>2, <2>3 DEF DecryptPathsNext, rewriteAt, r
<1>. QED
  BY <1>1, <1>2

LEMMA EncryptPathsWalk ==
    ASSUME NEW gen, NEW src \in Docs(gen), NEW paths \in Seq(Paths), NEW key \in Layers(gen), NEW force
    PROVE  EncryptPaths(src, paths, key, force) \in Onwards(gen, src, TRUE)
<1>. DEFINE n == Len(paths)
            D == Onwards(gen, src, TRUE)
            Is(g) == g = [i \in 0..n |-> IF i = 0 THEN Done(src) ELSE EncryptPathsNext(g[i - 1], paths[i], key, force)]
            w == CHOOSE g : Is(g)
<1>1. EncryptPaths(src, paths, key, force) = w[n]
  BY Zenon DEF EncryptPaths, AtPaths, EncryptPathsNext
<1>2. n \in Nat /\ Done(src) \in D /\ \A i \in 1..n : paths[i] \in Paths
  BY OutcomesThere DEF Onwards, Done
<1>3. \A x \in D, i \in 1..n : EncryptPathsNext(x, paths[i], key, force) \in D
  BY <1>2, EncryptPathsStep
<1>. HIDE DEF D
<1>4. \E g : Is(g)
  <2>. DEFINE move == [x \in D \X (1..n) |-> EncryptPathsNext(x[1], paths[x[2]], key, force)]
  <2>1. move \in [D \X (1..n) -> D]
    BY <1>3
  <2>2. \A x \in D, i \in 1..n : move[<<x, i>>] = EncryptPathsNext(x, paths[i], key, force)
    OBVIOUS
  <2>. HIDE DEF move, n
  <2>3. PICK g \in [0..n -> D] : StepsTo(g, Done(src), n, move)
    BY <1>2, <2>1, StepByStep
  <2>4. \A i \in 1..n : g[i] = EncryptPathsNext(g[i - 1], paths[i], key, force)
    <3>1. \A i \in 1..n : i - 1 \in 0..n
      BY <1>2
    <3>. QED
      BY <2>2, <2>3, <3>1 DEF StepsTo
  <2>. QED
    BY <1>2, <2>3, <2>4 DEF StepsTo
<1>5. Is(w)
  BY <1>4, Zenon
<1>. HIDE DEF w
<1>6. w[0] = Done(src) /\ \A i \in 1..n : w[i] = EncryptPathsNext(w[i - 1], paths[i], key, force)
  BY <1>2, <1>5
<1>7. \A i \in 0..n : w[i] \in D
  <2>1. \A i \in 1..n : w[i - 1] \in D => w[i] \in D
    BY <1>3, <1>6
  <2>. QED
    BY <1>2, <1>6, <2>1, StaysIn
<1>8. w[n] \in D
  BY <1>2, <1>7
<1>9. w[n] \in Onwards(gen, src, TRUE)
  BY <1>8 DEF D
<1>. HIDE DEF n
<1>. QED
  BY <1>1, <1>9

LEMMA DecryptPathsWalk ==
    ASSUME NEW gen, NEW src \in Docs(gen), NEW paths \in Seq(Paths), NEW ring
    PROVE  DecryptPaths(src, paths, ring) \in Onwards(gen, src, FALSE)
<1>. DEFINE n == Len(paths)
            D == Onwards(gen, src, FALSE)
            Is(g) == g = [i \in 0..n |-> IF i = 0 THEN Done(src) ELSE DecryptPathsNext(g[i - 1], paths[i], ring)]
            w == CHOOSE g : Is(g)
<1>1. DecryptPaths(src, paths, ring) = w[n]
  BY Zenon DEF DecryptPaths, AtPaths, DecryptPathsNext
<1>2. n \in Nat /\ Done(src) \in D /\ \A i \in 1..n : paths[i] \in Paths
  BY OutcomesThere DEF Onwards, Done
<1>3. \A x \in D, i \in 1..n : DecryptPathsNext(x, paths[i], ring) \in D
  BY <1>2, DecryptPathsStep
<1>. HIDE DEF D
<1>4. \E g : Is(g)
  <2>. DEFINE move == [x \in D \X (1..n) |-> DecryptPathsNext(x[1], paths[x[2]], ring)]
  <2>1. move \in [D \X (1..n) -> D]
    BY <1>3
  <2>2. \A x \in D, i \in 1..n : move[<<x, i>>] = DecryptPathsNext(x, paths[i], ring)
    OBVIOUS
  <2>. HIDE DEF move, n
  <2>3. PICK g \in [0..n -> D] : StepsTo(g, Done(src), n, move)
    BY <1>2, <2>1, StepByStep
  <2>4. \A i \in 1..n : g[i] = DecryptPathsNext(g[i - 1], paths[i], ring)
    <3>1. \A i \in 1..n : i - 1 \in 0..n
      BY <1>2
    <3>. QED
      BY <2>2, <2>3, <3>1 DEF StepsTo
  <2>. QED
    BY <1>2, <2>3, <2>4 DEF StepsTo
<1>5. Is(w)
  BY <1>4, Zenon
<1>. HIDE DEF w
<1>6. w[0] = Done(src) /\ \A i \in 1..n : w[i] = DecryptPathsNext(w[i - 1], paths[i], ring)
  BY <1>2, <1>5
<1>7. \A i \in 0..n : w[i] \in D
  <2>1. \A i \in 1..n : w[i - 1] \in D => w[i] \in D
    BY <1>3, <1>6
  <2>. QED
    BY <1>2, <1>6, <2>1, StaysIn
<1>8. w[n] \in D
  BY <1>2, <1>7
<1>9. w[n] \in Onwards(gen, src, FALSE)
  BY <1>8 DEF D
<1>. HIDE DEF n
<1>. QED
  BY <1>1, <1>9

-----------------------------------------------------------------------------
(* The documents the commands over a whole file work out *)

LEMMA WalkedDoc ==
    ASSUME NEW gen, NEW src \in Docs(gen), NEW want, NEW new
    PROVE  /\ Walked(src, want, new).record = src.record /\ Walked(src, want, new).block = src.block
           /\ \A n \in Nodes : Walked(src, want, new).vals[n] =
                IF n \in Turned(src, want) THEN new[src.vals[n]] ELSE src.vals[n]
<1>. DEFINE vals == [n \in Nodes |-> IF n \in Turned(src, want) THEN new[src.vals[n]] ELSE src.vals[n]]
<1>1. src \in [vals : [Nodes -> Values(gen)], record : SUBSET gen, block : Styles, awkward : SUBSET Nodes]
  BY DEF Docs
<1>2. Walked(src, want, new) = [src EXCEPT !.vals = vals]
  BY DEF Walked
<1>3. \A n \in Nodes : vals[n] = IF n \in Turned(src, want) THEN new[src.vals[n]] ELSE src.vals[n]
  OBVIOUS
<1>. HIDE DEF vals
<1>. QED
  BY <1>1, <1>2, <1>3

\* The record is the recipients a file is left with where it can be written.
Recorded(d, named) == [d EXCEPT !.record = named]
LEMMA RecordedDoc ==
    ASSUME NEW gen, NEW d \in Docs(gen), NEW named \in SUBSET gen
    PROVE  /\ d.block \/ named = {} => Recorded(d, named) \in Docs(gen)
           /\ Recorded(d, named).record = named /\ Recorded(d, named).block = d.block /\ Recorded(d, named).vals = d.vals
<1>1. d \in [vals : [Nodes -> Values(gen)], record : SUBSET gen, block : Styles, awkward : SUBSET Nodes]
  BY DEF Docs
<1>2. Recorded(d, named) \in [vals : [Nodes -> Values(gen)], record : SUBSET gen, block : Styles, awkward : SUBSET Nodes]
  BY <1>1 DEF Recorded
<1>3. Recorded(d, named).record = named /\ Recorded(d, named).block = d.block /\ Recorded(d, named).vals = d.vals
  BY <1>1 DEF Recorded
<1>4. \A n \in Nodes : d.vals[n].plain \in Plains(n)
  BY DEF Docs
<1>. QED
  BY <1>2, <1>3, <1>4 DEF Docs

LEMMA AgeNames ==
    ASSUME NEW gen, NEW key \in Layers(gen)
    PROVE  /\ key.fmt \in {"vault", "age"}
           /\ key.fmt = "age" => key.by \in SUBSET gen /\ key.by # {}
           /\ key = [fmt |-> key.fmt, by |-> key.by]
<1>1. CASE key \in [fmt : {"vault"}, by : {{pw} : pw \in Passwords}]
  <2>. DEFINE B == {{pw} : pw \in Passwords}
  <2>1. key \in [fmt : {"vault"}, by : B]
    BY <1>1
  <2>. HIDE DEF B
  <2>. QED
    BY <2>1
<1>2. CASE key \in [fmt : {"age"}, by : (SUBSET gen) \ {{}}]
  <2>. DEFINE B == (SUBSET gen) \ {{}}
  <2>1. key \in [fmt : {"age"}, by : B]
    BY <1>2
  <2>2. \A x \in B : x \in SUBSET gen /\ x # {}
    OBVIOUS
  <2>. HIDE DEF B
  <2>. QED
    BY <2>1, <2>2
<1>. QED
  BY <1>1, <1>2 DEF Layers

LEMMA RecordRecipients ==
    ASSUME NEW gen, NEW d \in Docs(gen), NEW key \in Layers(gen), key.fmt = "age"
    PROVE  /\ recordRecipients(d, key) \in Docs(gen)
           /\ recordRecipients(d, key).record = IF d.block THEN key.by ELSE {}
           /\ recordRecipients(d, key).block = d.block /\ recordRecipients(d, key).vals = d.vals
<1>1. key.by \in SUBSET gen
  BY AgeNames
<1>2. recordRecipients(d, key) = IF d.block THEN Recorded(d, key.by) ELSE d
  BY DEF recordRecipients, metadataValues, renderRecipientRecord, Recorded
<1>3. ~d.block => d.record = {}
  BY DEF Docs
<1>4. d.block => Recorded(d, key.by) \in Docs(gen)
  BY <1>1, RecordedDoc
<1>5. Recorded(d, key.by).record = key.by /\ Recorded(d, key.by).block = d.block /\ Recorded(d, key.by).vals = d.vals
  BY <1>1, RecordedDoc
<1>. QED
  BY <1>1, <1>2, <1>3, <1>4, <1>5

LEMMA StripRecord ==
    ASSUME NEW gen, NEW d \in Docs(gen)
    PROVE  /\ stripRecordWhenNoAge(d) \in Docs(gen)
           /\ stripRecordWhenNoAge(d).record = IF HasAge(d) THEN d.record ELSE {}
           /\ stripRecordWhenNoAge(d).block = d.block /\ stripRecordWhenNoAge(d).vals = d.vals
<1>1. stripRecordWhenNoAge(d) = IF HasAge(d) \/ ~d.block THEN d ELSE Recorded(d, {})
  BY DEF stripRecordWhenNoAge, stripRecipientRecord, metadataValues, renderRecipientRecord, Recorded
<1>2. ~d.block => d.record = {}
  BY DEF Docs
<1>3. {} \in SUBSET gen
  OBVIOUS
<1>4. Recorded(d, {}) \in Docs(gen)
  BY <1>3, RecordedDoc
<1>5. Recorded(d, {}).record = {} /\ Recorded(d, {}).block = d.block /\ Recorded(d, {}).vals = d.vals
  BY <1>3, RecordedDoc
<1>. QED
  BY <1>1, <1>2, <1>4, <1>5

LEMMA OutcomeWithDoc ==
    ASSUME NEW gen, NEW r \in Outcomes(gen), r.ok, NEW d \in Docs(gen)
    PROVE  LET out == [r EXCEPT !.doc = d] IN
           /\ out \in Outcomes(gen) /\ out.ok /\ out.doc = d /\ out.changed = r.changed /\ out.skipped = r.skipped
BY DEF Outcomes

\* Of a value that is there encrypt-file makes one that is encrypted with its key on top, or leaves
\* it encrypted as it was and says so.
LEMMA EncryptFileEnds ==
    ASSUME NEW gen, NEW src \in Docs(gen), NEW key \in Layers(gen), NEW force \in BOOLEAN,
           NEW r, r = EncryptConfig(src, key, force), r.ok
    PROVE  /\ r \in Outcomes(gen) /\ r.doc.block = src.block
           /\ \A n \in Nodes : n \notin CredentialNodes \/ src.vals[n] = NoValue => r.doc.vals[n] = src.vals[n]
           /\ \A n \in CredentialNodes : src.vals[n] # NoValue =>
                /\ IsEncrypted(r.doc.vals[n])
                /\ \/ Top(r.doc.vals[n]) = key
                   \/ /\ r.doc.vals[n] = src.vals[n] /\ r.skipped # {}
                      /\ ~(Top(src.vals[n]).fmt = "vault" /\ key.fmt = "vault")
           /\ r.doc.record = IF key.fmt = "age" /\ r.changed # {} THEN (IF src.block THEN key.by ELSE {}) ELSE src.record
           /\ \A path \in r.skipped : path \in Credentials /\ IsEncrypted(At(src, path)) /\ At(src, path) # NoValue
                                      /\ r.doc.vals[NodeOf[path]] = src.vals[NodeOf[path]]
<1>. DEFINE r0 == EncryptWalk(src, key, force)
            want == EncryptWant(gen, key, force)
            new == EncryptNew(gen, key)
<1>1. r = IF r0.ok /\ key.fmt = "age" /\ r0.changed # {} THEN [r0 EXCEPT !.doc = recordRecipients(r0.doc, key)] ELSE r0
  BY Zenon DEF EncryptConfig, EncryptWalk, EncryptWanted
<1>. HIDE DEF r0
<1>2. r0 \in Outcomes(gen) /\ (r0.ok => WalkEnds(src, r0, want, new, Values(gen)))
  BY EncryptWalks DEF r0
<1>3. r0.ok
  BY <1>1, <1>2 DEF Outcomes
<1>4. r0.doc \in Docs(gen) /\ r0.doc = Walked(src, want, new)
  BY <1>2, <1>3 DEF Outcomes, WalkEnds
<1>5. /\ r0.doc.record = src.record /\ r0.doc.block = src.block
      /\ \A n \in Nodes : r0.doc.vals[n] = IF n \in Turned(src, want) THEN new[src.vals[n]] ELSE src.vals[n]
  BY <1>4, WalkedDoc
<1>6. /\ r \in Outcomes(gen) /\ r.changed = r0.changed /\ r.skipped = r0.skipped
      /\ r.doc.block = src.block /\ r.doc.vals = r0.doc.vals
      /\ r.doc.record = IF key.fmt = "age" /\ r.changed # {} THEN (IF src.block THEN key.by ELSE {}) ELSE src.record
  <2>1. CASE key.fmt = "age" /\ r0.changed # {}
    <3>. DEFINE d == recordRecipients(r0.doc, key)
    <3>1. d \in Docs(gen) /\ d.block = src.block /\ d.vals = r0.doc.vals /\ d.record = IF src.block THEN key.by ELSE {}
      BY <1>4, <1>5, <2>1, RecordRecipients
    <3>2. r = [r0 EXCEPT !.doc = d]
      BY <1>1, <1>3, <2>1
    <3>. HIDE DEF d
    <3>3. r \in Outcomes(gen) /\ r.doc = d /\ r.changed = r0.changed /\ r.skipped = r0.skipped
      BY <1>2, <1>3, <3>1, <3>2, OutcomeWithDoc
    <3>. QED
      BY <2>1, <3>1, <3>3
  <2>2. CASE ~(key.fmt = "age" /\ r0.changed # {})
    BY <1>1, <1>2, <1>5, <2>2
  <2>. QED
    BY <2>1, <2>2
<1>7. ASSUME NEW n \in Nodes, n \notin CredentialNodes \/ src.vals[n] = NoValue PROVE r.doc.vals[n] = src.vals[n]
  BY <1>5, <1>6, <1>7 DEF Turned
<1>8. \A n \in Nodes : src.vals[n] \in Values(gen) /\ want[src.vals[n]] = EncryptWanted(src.vals[n], key, force)
                       /\ new[src.vals[n]] = EncryptValue(src.vals[n], key)
  BY DEF Docs, EncryptWant, EncryptNew
<1>9. ASSUME NEW n \in CredentialNodes, src.vals[n] # NoValue
      PROVE  /\ IsEncrypted(r.doc.vals[n])
             /\ \/ Top(r.doc.vals[n]) = key
                \/ /\ r.doc.vals[n] = src.vals[n] /\ r.skipped # {}
                   /\ ~(Top(src.vals[n]).fmt = "vault" /\ key.fmt = "vault")
  <2>. DEFINE v == src.vals[n]
              w == EncryptWanted(v, key, force)
  <2>1. n \in Nodes /\ v \in Values(gen) /\ want[v] = w /\ new[v] = EncryptValue(v, key)
    BY <1>8, CredentialsAreNodes
  <2>2. w \in {"yes", "no", "skip"}
    BY <1>2, <1>3, <1>9, <2>1 DEF WalkEnds
  <2>3. CASE w = "yes"
    <3>1. r.doc.vals[n] = EncryptValue(v, key)
      BY <1>5, <1>6, <1>9, <2>1, <2>3 DEF Turned
    <3>. QED
      BY <2>1, <3>1, EncryptedOf
  <2>4. CASE w = "no"
    <3>1. r.doc.vals[n] = v
      BY <1>5, <1>6, <1>9, <2>1, <2>4 DEF Turned
    <3>2. IsEncrypted(v) /\ Top(v) = key
      BY <2>4 DEF EncryptWanted, Probe
    <3>. QED
      BY <3>1, <3>2
  <2>5. CASE w = "skip"
    <3>1. r.doc.vals[n] = v
      BY <1>5, <1>6, <1>9, <2>1, <2>5 DEF Turned
    <3>2. IsEncrypted(v) /\ ~(Top(v).fmt = "vault" /\ key.fmt = "vault")
      BY <2>5 DEF EncryptWanted, Probe
    <3>3. PICK path \in Credentials : NodeOf[path] = n
      BY DEF CredentialNodes
    <3>4. path \in Noted(src, want)
      BY <1>9, <2>1, <2>5, <3>3 DEF Noted, At
    <3>5. r.skipped # {}
      BY <1>2, <1>3, <1>6, <3>4 DEF WalkEnds
    <3>. QED
      BY <3>1, <3>2, <3>5
  <2>. QED
    BY <2>2, <2>3, <2>4, <2>5
<1>10. ASSUME NEW path \in r.skipped
       PROVE  path \in Credentials /\ IsEncrypted(At(src, path)) /\ At(src, path) # NoValue
              /\ r.doc.vals[NodeOf[path]] = src.vals[NodeOf[path]]
  <2>. DEFINE v == At(src, path)
  <2>1. path \in Credentials /\ v # NoValue /\ want[v] = "skip"
    BY <1>2, <1>3, <1>6 DEF WalkEnds, Noted
  <2>2. NodeOf[path] \in Nodes /\ v = src.vals[NodeOf[path]]
    BY <2>1, ValueThere, CredentialsAreNodes
  <2>3. EncryptWanted(v, key, force) = "skip"
    BY <1>8, <2>1, <2>2
  <2>4. IsEncrypted(v)
    BY <2>3 DEF EncryptWanted
  <2>5. r.doc.vals[NodeOf[path]] = v
    BY <1>5, <1>6, <2>1, <2>2 DEF Turned
  <2>. QED
    BY <2>1, <2>2, <2>4, <2>5
<1>. QED
  BY <1>6, <1>7, <1>9, <1>10

\* What decrypt-file finds encrypted loses its outer layer.
LEMMA DecryptFileEnds ==
    ASSUME NEW gen, NEW src \in Docs(gen), NEW ring, NEW r, r = DecryptConfig(src, ring), r.ok
    PROVE  /\ r \in Outcomes(gen) /\ r.doc.block = src.block
           /\ \A n \in Nodes : r.doc.vals[n] =
                IF n \in CredentialNodes /\ IsEncrypted(src.vals[n]) THEN Unwrapped(src.vals[n]) ELSE src.vals[n]
           /\ r.doc.record = IF HasAge(r.doc) THEN src.record ELSE {}
<1>. DEFINE r0 == DecryptWalk(src, ring)
            want == DecryptWant(gen)
            new == DecryptNew(gen)
            d == stripRecordWhenNoAge(r0.doc)
<1>1. r = IF r0.ok THEN [r0 EXCEPT !.doc = d] ELSE r0
  BY Zenon DEF DecryptConfig, DecryptWalk, DecryptWanted
<1>. HIDE DEF r0
<1>2. r0 \in Outcomes(gen) /\ (r0.ok => WalkEnds(src, r0, want, new, Values(gen)))
  BY DecryptWalks DEF r0
<1>3. r0.ok
  BY <1>1
<1>4. r0.doc \in Docs(gen) /\ r0.doc = Walked(src, want, new)
  BY <1>2, <1>3 DEF Outcomes, WalkEnds
<1>5. /\ r0.doc.record = src.record /\ r0.doc.block = src.block
      /\ \A n \in Nodes : r0.doc.vals[n] = IF n \in Turned(src, want) THEN new[src.vals[n]] ELSE src.vals[n]
  BY <1>4, WalkedDoc
<1>6. d \in Docs(gen) /\ d.block = src.block /\ d.vals = r0.doc.vals
      /\ d.record = IF HasAge(r0.doc) THEN src.record ELSE {}
  BY <1>4, <1>5, StripRecord
<1>7. HasAge(d) = HasAge(r0.doc)
  BY <1>6 DEF HasAge
<1>8. r \in Outcomes(gen) /\ r.doc = d
  <2>. HIDE DEF d
  <2>. QED
    BY <1>1, <1>2, <1>3, <1>6, OutcomeWithDoc
<1>9. ASSUME NEW n \in Nodes
      PROVE  r0.doc.vals[n] = IF n \in CredentialNodes /\ IsEncrypted(src.vals[n]) THEN Unwrapped(src.vals[n]) ELSE src.vals[n]
  <2>. DEFINE v == src.vals[n]
  <2>1. v \in Values(gen) /\ want[v] = DecryptWanted(v) /\ new[v] = Unwrapped(v)
    BY DEF Docs, DecryptWant, DecryptNew
  <2>2. ~IsEncrypted(NoValue)
    BY DEF IsEncrypted, NoValue, Value
  <2>3. n \in Turned(src, want) <=> n \in CredentialNodes /\ IsEncrypted(v)
    BY <2>1, <2>2 DEF Turned, DecryptWanted
  <2>. QED
    BY <1>5, <2>1, <2>3
<1>. HIDE DEF d
<1>. QED
  BY <1>6, <1>7, <1>8, <1>9

\* What rekey finds encrypted is then under the new key alone.
LEMMA RekeyEnds ==
    ASSUME NEW gen, NEW src \in Docs(gen), NEW from, NEW to \in Layers(gen) \union {NoLayer},
           NEW r, r = RekeyConfig(src, from, to), r.ok, r.changed # {}
    PROVE  /\ r \in Outcomes(gen) /\ r.doc.block = src.block /\ to \in Layers(gen)
           /\ \A n \in Nodes : r.doc.vals[n] =
                IF n \in CredentialNodes /\ IsEncrypted(src.vals[n]) THEN EncryptValue(Unwrapped(src.vals[n]), to) ELSE src.vals[n]
           /\ \A n \in CredentialNodes : IsEncrypted(src.vals[n]) => ~IsEncrypted(Unwrapped(src.vals[n]))
           /\ \E n \in CredentialNodes : IsEncrypted(src.vals[n])
           /\ r.doc.record = IF to.fmt = "age" THEN (IF src.block THEN to.by ELSE {})
                             ELSE IF HasAge(r.doc) THEN src.record ELSE {}
<1>. DEFINE r0 == RekeyWalk(src, from, to)
            want == RekeyWant(gen, from)
            new == RekeyNew(gen, to)
            d == IF to.fmt = "age" THEN recordRecipients(r0.doc, to) ELSE stripRecordWhenNoAge(r0.doc)
<1>1. r = IF ~r0.ok \/ r0.changed = {} THEN r0 ELSE [r0 EXCEPT !.doc = d]
  <2>1. r = IF ~r0.ok \/ r0.changed = {} THEN r0
            ELSE IF to.fmt = "age" THEN [r0 EXCEPT !.doc = recordRecipients(r0.doc, to)]
            ELSE [r0 EXCEPT !.doc = stripRecordWhenNoAge(r0.doc)]
    BY Zenon DEF RekeyConfig, RekeyWalk, RekeyWanted
  <2>. HIDE DEF r0
  <2>. QED
    BY <2>1
<1>. HIDE DEF r0
<1>2. r0 \in Outcomes(gen) /\ (r0.ok => WalkEnds(src, r0, want, new, Single(gen, to)))
  BY RekeyWalks DEF r0
<1>3. r0.ok /\ r0.changed # {}
  BY <1>1
<1>4. r0.doc \in Docs(gen) /\ r0.doc = Walked(src, want, new)
  BY <1>2, <1>3 DEF Outcomes, WalkEnds
<1>5. /\ r0.doc.record = src.record /\ r0.doc.block = src.block
      /\ \A n \in Nodes : r0.doc.vals[n] = IF n \in Turned(src, want) THEN new[src.vals[n]] ELSE src.vals[n]
  BY <1>4, WalkedDoc
<1>6. ASSUME NEW n \in CredentialNodes, IsEncrypted(src.vals[n])
      PROVE  n \in Turned(src, want) /\ src.vals[n] \in Single(gen, to)
  <2>. DEFINE v == src.vals[n]
  <2>1. v \in Values(gen) /\ want[v] = RekeyWanted(v, from)
    BY CredentialsAreNodes DEF Docs, RekeyWant
  <2>2. v # NoValue
    BY <1>6 DEF IsEncrypted, NoValue, Value
  <2>3. want[v] \in {"yes", "no", "skip"} /\ (want[v] = "yes" => v \in Single(gen, to))
    BY <1>2, <1>3, <2>2 DEF WalkEnds
  <2>4. want[v] = "yes"
    BY <1>6, <2>1, <2>3 DEF RekeyWanted
  <2>. QED
    BY <2>2, <2>3, <2>4 DEF Turned
<1>7. ASSUME NEW n \in Turned(src, want) PROVE n \in CredentialNodes /\ IsEncrypted(src.vals[n])
  <2>1. n \in CredentialNodes /\ n \in Nodes /\ want[src.vals[n]] = "yes"
    BY CredentialsAreNodes DEF Turned
  <2>2. want[src.vals[n]] = RekeyWanted(src.vals[n], from)
    BY <2>1 DEF Docs, RekeyWant
  <2>. QED
    BY <2>1, <2>2 DEF RekeyWanted
<1>8. \E n \in CredentialNodes : IsEncrypted(src.vals[n])
  BY <1>2, <1>3, <1>7 DEF WalkEnds
<1>9. to \in Layers(gen) /\ \A n \in CredentialNodes : IsEncrypted(src.vals[n]) => ~IsEncrypted(Unwrapped(src.vals[n]))
  BY <1>6, <1>8 DEF Single
<1>10. d \in Docs(gen) /\ d.block = src.block /\ d.vals = r0.doc.vals
       /\ d.record = IF to.fmt = "age" THEN (IF src.block THEN to.by ELSE {})
                     ELSE IF HasAge(r0.doc) THEN src.record ELSE {}
  <2>1. CASE to.fmt = "age"
    BY <1>4, <1>5, <1>9, <2>1, RecordRecipients
  <2>2. CASE to.fmt # "age"
    BY <1>4, <1>5, <2>2, StripRecord
  <2>. QED
    BY <2>1, <2>2
<1>11. HasAge(d) = HasAge(r0.doc)
  BY <1>10 DEF HasAge
<1>12. r \in Outcomes(gen) /\ r.doc = d
  <2>. HIDE DEF d
  <2>. QED
    BY <1>1, <1>2, <1>3, <1>10, OutcomeWithDoc
<1>13. ASSUME NEW n \in Nodes
       PROVE  r0.doc.vals[n] = IF n \in CredentialNodes /\ IsEncrypted(src.vals[n]) THEN EncryptValue(Unwrapped(src.vals[n]), to)
                               ELSE src.vals[n]
  <2>1. new[src.vals[n]] = EncryptValue(Unwrapped(src.vals[n]), to)
    BY DEF Docs, RekeyNew
  <2>. QED
    BY <1>5, <1>6, <1>7, <2>1
<1>. HIDE DEF d
<1>. QED
  BY <1>8, <1>9, <1>10, <1>11, <1>12, <1>13

-----------------------------------------------------------------------------
(* What a command that is about to replace the file has done *)

Mixes(w) ==
    (/\ w.cmd \in {"encrypt-file", "decrypt-file", "rekey"} /\ OneOpensAll(w.base)
     /\ w.cmd = "decrypt-file" => Once(w.base)) => OneOpensAll(w.doc)
Tells(w) == w.cmd = "encrypt-file" /\ w.skipped = {} => \A v \in Secrets(w.doc) : IsEncrypted(v) /\ Top(v) = w.key
Moved(w) == w.cmd = "rekey" => \A n \in CredentialNodes : IsEncrypted(w.base.vals[n]) => w.doc.vals[n].layers = <<w.key>>
Records(w) ==
    /\ (w.cmd \in {"decrypt-file", "rekey"} /\ w.doc.record # {}) => HasAge(w.doc)
    /\ (/\ w.cmd \in {"encrypt-file", "decrypt-file", "rekey"} /\ w.skipped = {} /\ Truthful(w.base)
        /\ Once(w.base)) => Truthful(w.doc)
Covers(w) ==
    w.cmd \notin {"decrypt-file", "decrypt-path"} =>
        \A n \in CredentialNodes : IsEncrypted(w.base.vals[n]) => IsEncrypted(w.doc.vals[n])
SoundWork(w) == Mixes(w) /\ Tells(w) /\ Moved(w) /\ Records(w) /\ Covers(w)

LEMMA SecretAt ==
    ASSUME NEW d, NEW v \in Secrets(d)
    PROVE  v # NoValue /\ \E n \in CredentialNodes : v = d.vals[n]
BY DEF Secrets, NoValue

LEMMA EncryptedIsSecret ==
    ASSUME NEW d, NEW n \in CredentialNodes, IsEncrypted(d.vals[n])
    PROVE  d.vals[n] \in Secrets(d) /\ d.vals[n] \in Wrapped(d) /\ d.vals[n] # NoValue
BY DEF Secrets, Wrapped, NoValue, Value, IsEncrypted

LEMMA NoRecord ==
    ASSUME NEW gen, NEW d \in Docs(gen), ~d.block
    PROVE  d.record = {}
BY DEF Docs

LEMMA EncryptFileSound ==
    ASSUME NEW gen, NEW src \in Docs(gen), NEW key \in Layers(gen), NEW force \in BOOLEAN,
           NEW r, r = EncryptConfig(src, key, force), r.ok, r.changed # {},
           NEW w, w.cmd = "encrypt-file", w.base = src, w.doc = r.doc, w.skipped = r.skipped, w.key = key
    PROVE  SoundWork(w)
<1>1. /\ r \in Outcomes(gen) /\ r.doc.block = src.block
      /\ \A n \in Nodes : n \notin CredentialNodes \/ src.vals[n] = NoValue => r.doc.vals[n] = src.vals[n]
      /\ \A n \in CredentialNodes : src.vals[n] # NoValue =>
           /\ IsEncrypted(r.doc.vals[n])
           /\ \/ Top(r.doc.vals[n]) = key
              \/ /\ r.doc.vals[n] = src.vals[n] /\ r.skipped # {}
                 /\ ~(Top(src.vals[n]).fmt = "vault" /\ key.fmt = "vault")
      /\ r.doc.record = IF key.fmt = "age" THEN (IF src.block THEN key.by ELSE {}) ELSE src.record
  BY EncryptFileEnds
<1>2. key.fmt \in {"vault", "age"}
  BY AgeNames
\* Every secret of the new document has the key on top or was there before.
<1>3. ASSUME NEW v \in Secrets(r.doc)
      PROVE  /\ IsEncrypted(v)
             /\ \/ Top(v) = key
                \/ /\ r.skipped # {} /\ v \in Wrapped(src)
                   /\ ~(Top(v).fmt = "vault" /\ key.fmt = "vault")
  <2>1. PICK n \in CredentialNodes : v = r.doc.vals[n] /\ v # NoValue
    BY SecretAt
  <2>2. src.vals[n] # NoValue
    BY <1>1, <2>1, CredentialsAreNodes
  <2>3. /\ IsEncrypted(v)
        /\ \/ Top(v) = key
           \/ /\ v = src.vals[n] /\ r.skipped # {}
              /\ ~(Top(v).fmt = "vault" /\ key.fmt = "vault")
    BY <1>1, <2>1, <2>2
  <2>4. v = src.vals[n] => v \in Wrapped(src)
    BY <2>3, EncryptedIsSecret
  <2>. QED
    BY <2>3, <2>4
<1>4. Mixes(w)
  <2>. SUFFICES ASSUME OneOpensAll(src), NEW u \in Vaulted(r.doc), NEW v \in Vaulted(r.doc) PROVE Top(u).by = Top(v).by
    BY DEF Mixes, OneOpensAll
  <2>1. u \in Secrets(r.doc) /\ v \in Secrets(r.doc) /\ Top(u).fmt = "vault" /\ Top(v).fmt = "vault"
    BY DEF Vaulted, Wrapped
  <2>2. CASE key.fmt = "vault"
    BY <1>3, <2>1, <2>2
  <2>3. CASE key.fmt = "age"
    <3>1. u \in Wrapped(src) /\ v \in Wrapped(src)
      BY <1>3, <2>1, <2>3
    <3>. QED
      BY <2>1, <3>1 DEF OneOpensAll, Vaulted
  <2>. QED
    BY <1>2, <2>2, <2>3
<1>5. Tells(w)
  BY <1>3 DEF Tells
<1>6. Records(w)
  <2>. SUFFICES ASSUME r.skipped = {}, r.doc.record # {}, NEW v \in Wrapped(r.doc), Top(v).fmt = "age"
                PROVE  Top(v).by = r.doc.record
    BY DEF Records, Truthful
  <2>1. Top(v) = key
    BY <1>3 DEF Wrapped
  <2>. QED
    BY <1>1, <2>1
<1>7. Covers(w)
  <2>. SUFFICES ASSUME NEW n \in CredentialNodes, IsEncrypted(src.vals[n]) PROVE IsEncrypted(r.doc.vals[n])
    BY DEF Covers
  <2>1. src.vals[n] # NoValue
    BY EncryptedIsSecret
  <2>. QED
    BY <1>1, <2>1
<1>8. Moved(w)
  BY DEF Moved
<1>. QED
  BY <1>4, <1>5, <1>6, <1>7, <1>8 DEF SoundWork

LEMMA DecryptFileSound ==
    ASSUME NEW gen, NEW src \in Docs(gen), NEW ring, NEW r, r = DecryptConfig(src, ring), r.ok,
           NEW w, w.cmd = "decrypt-file", w.base = src, w.doc = r.doc
    PROVE  SoundWork(w)
<1>1. /\ \A n \in Nodes : r.doc.vals[n] =
           IF n \in CredentialNodes /\ IsEncrypted(src.vals[n]) THEN Unwrapped(src.vals[n]) ELSE src.vals[n]
      /\ r.doc.record = IF HasAge(r.doc) THEN src.record ELSE {}
  BY DecryptFileEnds
\* Of values that are under one layer none stays encrypted.
<1>2. ASSUME Once(src) PROVE Wrapped(r.doc) = {}
  <2>. SUFFICES ASSUME NEW v \in Wrapped(r.doc) PROVE FALSE
    OBVIOUS
  <2>1. IsEncrypted(v) /\ v \in Secrets(r.doc)
    BY DEF Wrapped
  <2>2. PICK n \in CredentialNodes : v = r.doc.vals[n]
    BY <2>1, SecretAt
  <2>3. n \in Nodes /\ src.vals[n] \in Values(gen) /\ Len(src.vals[n].layers) <= 1
    BY <1>2, CredentialsAreNodes DEF Docs, Once
  <2>4. IsEncrypted(src.vals[n]) /\ v = Unwrapped(src.vals[n])
    BY <1>1, <2>1, <2>2, <2>3
  <2>5. Len(src.vals[n].layers) > 1
    BY <2>1, <2>3, <2>4, UnwrappedOf
  <2>. QED
    BY <2>3, <2>5, TopOf
<1>3. Mixes(w)
  BY <1>2 DEF Mixes, OneOpensAll, Vaulted
<1>4. Records(w)
  BY <1>1, <1>2 DEF Records, Truthful
<1>. QED
  BY <1>3, <1>4 DEF SoundWork, Tells, Moved, Covers

LEMMA RekeySound ==
    ASSUME NEW gen, NEW src \in Docs(gen), NEW from, NEW to \in Layers(gen) \union {NoLayer},
           NEW r, r = RekeyConfig(src, from, to), r.ok, r.changed # {},
           NEW w, w.cmd = "rekey", w.base = src, w.doc = r.doc, w.key = to
    PROVE  SoundWork(w)
<1>1. /\ r \in Outcomes(gen) /\ r.doc.block = src.block /\ to \in Layers(gen)
      /\ \A n \in Nodes : r.doc.vals[n] =
           IF n \in CredentialNodes /\ IsEncrypted(src.vals[n]) THEN EncryptValue(Unwrapped(src.vals[n]), to) ELSE src.vals[n]
      /\ \A n \in CredentialNodes : IsEncrypted(src.vals[n]) => ~IsEncrypted(Unwrapped(src.vals[n]))
      /\ \E n \in CredentialNodes : IsEncrypted(src.vals[n])
      /\ r.doc.record = IF to.fmt = "age" THEN (IF src.block THEN to.by ELSE {})
                        ELSE IF HasAge(r.doc) THEN src.record ELSE {}
  BY RekeyEnds
<1>2. ASSUME NEW n \in CredentialNodes, IsEncrypted(src.vals[n])
      PROVE  r.doc.vals[n].layers = <<to>> /\ IsEncrypted(r.doc.vals[n]) /\ Top(r.doc.vals[n]) = to
  <2>1. src.vals[n] \in Values(gen) /\ n \in Nodes
    BY CredentialsAreNodes DEF Docs
  <2>2. r.doc.vals[n] = EncryptValue(Unwrapped(src.vals[n]), to)
    BY <1>1, <1>2, <2>1
  <2>3. Unwrapped(src.vals[n]) \in Values(gen)
    BY <1>2, <2>1, UnwrappedOf
  <2>. QED
    BY <1>1, <1>2, <2>1, <2>2, <2>3, RekeyedOf, EncryptedOf
<1>3. ASSUME NEW v \in Wrapped(r.doc) PROVE Top(v) = to
  <2>1. IsEncrypted(v) /\ v \in Secrets(r.doc)
    BY DEF Wrapped
  <2>2. PICK n \in CredentialNodes : v = r.doc.vals[n]
    BY <2>1, SecretAt
  <2>3. IsEncrypted(src.vals[n])
    BY <1>1, <2>1, <2>2, CredentialsAreNodes
  <2>. QED
    BY <1>2, <2>2, <2>3
<1>4. Mixes(w)
  BY <1>3 DEF Mixes, OneOpensAll, Vaulted
<1>5. Moved(w)
  BY <1>2 DEF Moved
<1>6. Records(w)
  <2>1. to.fmt = "age" => HasAge(r.doc)
    BY <1>1, <1>2, CredentialsAreNodes DEF HasAge
  <2>2. r.doc.record # {} => HasAge(r.doc)
    BY <1>1, <2>1
  <2>3. Truthful(r.doc)
    BY <1>1, <1>3 DEF Truthful, Wrapped
  <2>. QED
    BY <2>2, <2>3 DEF Records
<1>7. Covers(w)
  BY <1>2 DEF Covers
<1>. QED
  BY <1>4, <1>5, <1>6, <1>7 DEF SoundWork, Tells

LEMMA PathsSound ==
    ASSUME NEW gen, NEW src, NEW r, NEW w, w.base = src, w.doc = r.doc, r.ok,
           \/ w.cmd = "encrypt-path" /\ r \in Onwards(gen, src, TRUE)
           \/ w.cmd = "decrypt-path"
    PROVE  SoundWork(w)
<1>1. Covers(w)
  BY CredentialsAreNodes DEF Covers, Onwards
<1>. QED
  BY <1>1 DEF SoundWork, Mixes, Tells, Moved, Records

-----------------------------------------------------------------------------
(* The keys *)

LEMMA KeysWrite ==
    ASSUME NEW gen \in SUBSET AgeKeys, NEW key \in WriteKeys[gen]
    PROVE  key \in Layers(gen)
<1>1. PICK k \in ResolveKeyring(gen) : EncryptFormat(k) \in {"age", "vault"} /\ key = EncryptKey(k)
  BY DEF WriteKeys
<1>2. k.pw \in Passwords \union {NoPassword} /\ k.recips \in SUBSET gen
  BY DEF ResolveKeyring
<1>3. CASE EncryptFormat(k) = "age"
  <2>1. k.recips # {}
    BY <1>3 DEF EncryptFormat
  <2>2. key = [fmt |-> "age", by |-> k.recips]
    BY <1>1, <1>3 DEF EncryptKey
  <2>. QED
    BY <1>2, <2>1, <2>2 DEF Layers
<1>4. CASE EncryptFormat(k) = "vault"
  <2>1. k.pw \in Passwords
    BY <1>2, <1>4 DEF EncryptFormat
  <2>2. key = [fmt |-> "vault", by |-> {k.pw}]
    BY <1>1, <1>4 DEF EncryptKey
  <2>. QED
    BY <2>1, <2>2 DEF Layers
<1>. QED
  BY <1>1, <1>3, <1>4

LEMMA RingsRead ==
    ASSUME NEW gen \in SUBSET AgeKeys, NEW ring \in ReadRings[gen]
    PROVE  ring \in [pw : Passwords \union {NoPassword}, ids : SUBSET AgeKeys]
<1>1. PICK k \in ResolveKeyring(gen) : ring = [pw |-> k.pw, ids |-> k.ids]
  BY DEF ReadRings
<1>2. k.pw \in Passwords \union {NoPassword} /\ k.ids \in SUBSET gen
  BY DEF ResolveKeyring
<1>. QED
  BY <1>1, <1>2

LEMMA TargetTyped ==
    ASSUME NEW gen \in SUBSET AgeKeys, NEW ring, ring.pw \in Passwords \union {NoPassword},
           NEW recips \in SUBSET gen, NEW newPw \in Passwords \union {NoPassword}
    PROVE  RekeyTarget(ring, recips, newPw) \in Layers(gen) \union {NoLayer}
<1>. DEFINE to == RekeyTarget(ring, recips, newPw)
<1>1. CASE recips # {} /\ newPw = NoPassword
  <2>1. to = [fmt |-> "age", by |-> recips]
    BY <1>1 DEF RekeyTarget
  <2>. QED
    BY <1>1, <2>1 DEF Layers
<1>2. CASE recips # {} /\ newPw # NoPassword
  BY <1>2 DEF RekeyTarget
<1>3. CASE recips = {}
  <2>. DEFINE pw == IF newPw = NoPassword THEN ring.pw ELSE newPw
  <2>1. to = IF pw = NoPassword THEN NoLayer ELSE [fmt |-> "vault", by |-> {pw}]
    BY <1>3 DEF RekeyTarget
  <2>2. pw \in Passwords \union {NoPassword}
    OBVIOUS
  <2>. HIDE DEF pw, to
  <2>3. pw # NoPassword => [fmt |-> "vault", by |-> {pw}] \in Layers(gen)
    BY <2>2 DEF Layers
  <2>4. to \in Layers(gen) \union {NoLayer}
    BY <2>1, <2>3
  <2>. QED
    BY <2>4 DEF to
<1>. QED
  BY <1>1, <1>2, <1>3

-----------------------------------------------------------------------------
(* The commands *)

Pcs == {"idle", "writing", "verified", "configured", "synced", "applied", "refused"}
Commands == {"", "encrypt-file", "decrypt-file", "rekey", "encrypt-path", "decrypt-path", "apply"}
Jobs == [pc : Pcs, cmd : Commands, base : AnyDoc, doc : AnyDoc, skipped : SUBSET Paths,
         key : Layers(AgeKeys) \union {NoLayer}, ring : [pw : Passwords \union {NoPassword}, ids : SUBSET AgeKeys],
         cfg : [Credentials -> Values(AgeKeys)] \union {<<>>}]

VaultTypes ==
    /\ file \in Docs(Generated) /\ proc \in [Procs -> Jobs]
    /\ keyfile \in [KeyFiles -> AgeKeys \union {NoKey}]
    /\ raced \in BOOLEAN /\ ops \in 0..MaxOps[file.block]

\* A command has worked soundly on a document of this file, over the identities there are.
WorkedOn(w, gen, block) ==
    w.pc = "writing" => /\ w.base \in Docs(gen) /\ w.doc \in Docs(gen)
                        /\ w.doc.block = block /\ SoundWork(w)

\* An apply holds the credentials it has verified, less the layers it has taken off them.
TwiceIn(base, c) == Len(At(base, c).layers) > 1
Verified(w) ==
    /\ w.pc \in {"verified", "configured", "synced", "applied", "refused"} =>
         w.base \in Docs(AgeKeys) /\ w.cfg \in [Credentials -> Values(AgeKeys)]
    /\ w.pc = "verified" => Readable(w.cfg, w.ring) /\ \A c \in Credentials : w.cfg[c] = At(w.base, c)
    /\ w.pc \in {"configured", "synced", "applied"} => \A c \in Credentials : IsEncrypted(w.cfg[c]) => TwiceIn(w.base, c)
    /\ w.pc = "refused" => \E c \in Credentials : TwiceIn(w.base, c)

VaultInv ==
    /\ VaultTypes
    /\ \A p \in Procs : WorkedOn(proc[p], Generated, file.block) /\ Verified(proc[p])

LEMMA GeneratedTyped ==
    ASSUME keyfile \in [KeyFiles -> AgeKeys \union {NoKey}]
    PROVE  Generated \in SUBSET AgeKeys
BY DEF Generated, NoKey

LEMMA IdleJob ==
    /\ Idle \in Jobs
    /\ Idle.pc = "idle"
<1>1. NoDoc \in AnyDoc
  BY DEF AnyDoc
<1>2. NoRing \in [pw : Passwords \union {NoPassword}, ids : SUBSET AgeKeys]
  BY DEF NoRing
<1>. QED
  BY <1>1, <1>2 DEF Idle, Jobs, Pcs, Commands

LEMMA IdleKeeps ==
    ASSUME NEW gen, NEW block, NEW w, w.pc = "idle"
    PROVE  WorkedOn(w, gen, block) /\ Verified(w)
BY DEF WorkedOn, Verified

LEMMA VaultInitially == VaultInit => VaultInv
<1>. SUFFICES ASSUME VaultInit PROVE VaultInv
  OBVIOUS
<1>1. PICK block \in Styles :
        file = [vals |-> [n \in Nodes |-> Value(IF n \in Blank THEN Empty ELSE n, <<>>)],
                record |-> {}, block |-> block, awkward |-> {}]
  BY DEF VaultInit
<1>. DEFINE vals == [n \in Nodes |-> Value(IF n \in Blank THEN Empty ELSE n, <<>>)]
<1>2. \A n \in Nodes : vals[n] \in Values(Generated) /\ vals[n].plain \in Plains(n)
  <2>. SUFFICES ASSUME NEW n \in Nodes PROVE vals[n] \in Values(Generated) /\ vals[n].plain \in Plains(n)
    OBVIOUS
  <2>1. <<>> \in Seq(Layers(Generated)) /\ Len(<<>>) <= MaxLayers
    BY VaultAssumption
  <2>. QED
    BY <2>1 DEF Value, Values, Plains
<1>3. vals \in [Nodes -> Values(Generated)]
  BY <1>2
<1>4. file.vals = vals /\ file.record = {} /\ file.block = block /\ file.awkward = {}
  BY <1>1
<1>5. file \in Docs(Generated)
  <2>. HIDE DEF vals
  <2>1. file = [vals |-> vals, record |-> {}, block |-> block, awkward |-> {}]
    BY <1>1 DEF vals
  <2>2. {} \in SUBSET Generated /\ {} \in SUBSET Nodes
    OBVIOUS
  <2>3. file \in [vals : [Nodes -> Values(Generated)], record : SUBSET Generated, block : Styles, awkward : SUBSET Nodes]
    BY <1>3, <2>1, <2>2
  <2>. QED
    BY <1>2, <1>4, <2>3 DEF Docs
<1>6. proc \in [Procs -> Jobs] /\ \A p \in Procs : proc[p].pc = "idle"
  BY IdleJob DEF VaultInit
<1>7. keyfile \in [KeyFiles -> AgeKeys \union {NoKey}] /\ raced \in BOOLEAN
  BY DEF VaultInit
<1>8. ops \in 0..MaxOps[file.block]
  BY <1>4, VaultAssumption DEF VaultInit
<1>. QED
  BY <1>5, <1>6, <1>7, <1>8, IdleKeeps DEF VaultInv, VaultTypes

\* One command moves on: what the others have worked out stays sound.
LEMMA OneMovesOn ==
    ASSUME VaultInv, NEW p \in Procs, NEW w \in Jobs, proc' = [proc EXCEPT ![p] = w],
           WorkedOn(w, Generated, file.block), Verified(w),
           UNCHANGED <<file, keyfile, raced>>, ops' \in 0..MaxOps[file.block]
    PROVE  VaultInv'
<1>1. Generated' = Generated
  BY DEF Generated
<1>2. VaultTypes'
  <2>1. file' = file /\ keyfile' = keyfile /\ raced' = raced
    OBVIOUS
  <2>2. proc' \in [Procs -> Jobs]
    BY DEF VaultInv, VaultTypes
  <2>. QED
    BY <1>1, <2>1, <2>2 DEF VaultInv, VaultTypes
<1>3. ASSUME NEW q \in Procs PROVE WorkedOn(proc'[q], Generated, file.block) /\ Verified(proc'[q])
  <2>1. proc'[q] = IF q = p THEN w ELSE proc[q]
    BY DEF VaultInv, VaultTypes
  <2>. QED
    BY <2>1 DEF VaultInv
<1>. QED
  BY <1>1, <1>2, <1>3 DEF VaultInv

\* The record of a command that has worked out its document, one field after the other.
Filled(w, pc, cmd, base, doc, left, key) ==
    [w EXCEPT !.pc = pc, !.cmd = cmd, !.base = base, !.doc = doc, !.skipped = left, !.key = key]
LEMMA FilledFields ==
    ASSUME NEW w, w = [pc |-> w.pc, cmd |-> w.cmd, base |-> w.base, doc |-> w.doc, skipped |-> w.skipped,
                       key |-> w.key, ring |-> w.ring, cfg |-> w.cfg],
           NEW pc, NEW cmd, NEW base, NEW doc, NEW left, NEW key
    PROVE  Filled(w, pc, cmd, base, doc, left, key)
             = [pc |-> pc, cmd |-> cmd, base |-> base, doc |-> doc, skipped |-> left, key |-> key,
                ring |-> w.ring, cfg |-> w.cfg]
<1>. DEFINE w1 == [w EXCEPT !.pc = pc]
            w2 == [w1 EXCEPT !.cmd = cmd]
            w3 == [w2 EXCEPT !.base = base]
            w4 == [w3 EXCEPT !.doc = doc]
            w5 == [w4 EXCEPT !.skipped = left]
            w6 == [w5 EXCEPT !.key = key]
<1>1. Filled(w, pc, cmd, base, doc, left, key) = w6
  BY Zenon DEF Filled
<1>2. w1 = [pc |-> pc, cmd |-> w.cmd, base |-> w.base, doc |-> w.doc, skipped |-> w.skipped, key |-> w.key,
            ring |-> w.ring, cfg |-> w.cfg]
  OBVIOUS
<1>. HIDE DEF w1
<1>3. w2 = [pc |-> pc, cmd |-> cmd, base |-> w.base, doc |-> w.doc, skipped |-> w.skipped, key |-> w.key,
            ring |-> w.ring, cfg |-> w.cfg]
  BY <1>2
<1>. HIDE DEF w2
<1>4. w3 = [pc |-> pc, cmd |-> cmd, base |-> base, doc |-> w.doc, skipped |-> w.skipped, key |-> w.key,
            ring |-> w.ring, cfg |-> w.cfg]
  BY <1>3
<1>. HIDE DEF w3
<1>5. w4 = [pc |-> pc, cmd |-> cmd, base |-> base, doc |-> doc, skipped |-> w.skipped, key |-> w.key,
            ring |-> w.ring, cfg |-> w.cfg]
  BY <1>4
<1>. HIDE DEF w4
<1>6. w5 = [pc |-> pc, cmd |-> cmd, base |-> base, doc |-> doc, skipped |-> left, key |-> w.key,
            ring |-> w.ring, cfg |-> w.cfg]
  BY <1>5
<1>. HIDE DEF w5
<1>7. w6 = [pc |-> pc, cmd |-> cmd, base |-> base, doc |-> doc, skipped |-> left, key |-> key,
            ring |-> w.ring, cfg |-> w.cfg]
  BY <1>6
<1>. HIDE DEF w6
<1>. QED
  BY <1>1, <1>7

LEMMA WorkOutKeeps ==
    ASSUME VaultInv, NEW p \in Procs, NEW cmd \in Commands, NEW r \in Outcomes(Generated),
           NEW key \in Layers(Generated) \union {NoLayer}, WorkOut(p, cmd, r, key),
           r.doc.block = file.block,
           \A w : w.cmd = cmd /\ w.base = file /\ w.doc = r.doc /\ w.skipped = r.skipped /\ w.key = key => SoundWork(w)
    PROVE  VaultInv'
<1>. DEFINE w == [Idle EXCEPT !.pc = "writing", !.cmd = cmd, !.base = file, !.doc = r.doc, !.skipped = r.skipped, !.key = key]
<1>1. /\ r.ok /\ proc' = [proc EXCEPT ![p] = w] /\ UNCHANGED <<file, keyfile, raced>>
      /\ ops < MaxOps[file.block] /\ ops' = ops + 1
  BY DEF WorkOut, Op
<1>2. w = [pc |-> "writing", cmd |-> cmd, base |-> file, doc |-> r.doc, skipped |-> r.skipped, key |-> key,
           ring |-> NoRing, cfg |-> <<>>]
  <2>. DEFINE x == Filled(Idle, "writing", cmd, file, r.doc, r.skipped, key)
  <2>1. w = x
    BY Zenon DEF Filled
  <2>2. x = [pc |-> "writing", cmd |-> cmd, base |-> file, doc |-> r.doc, skipped |-> r.skipped, key |-> key,
             ring |-> NoRing, cfg |-> <<>>]
    <3>1. Idle = [pc |-> Idle.pc, cmd |-> Idle.cmd, base |-> Idle.base, doc |-> Idle.doc, skipped |-> Idle.skipped,
                  key |-> Idle.key, ring |-> Idle.ring, cfg |-> Idle.cfg]
      BY DEF Idle
    <3>2. Idle.ring = NoRing /\ Idle.cfg = <<>>
      BY DEF Idle
    <3>. QED
      BY <3>1, <3>2, FilledFields
  <2>. QED
    BY <2>1, <2>2, Zenon
<1>. HIDE DEF w
<1>3. Generated \in SUBSET AgeKeys /\ Docs(Generated) \subseteq Docs(AgeKeys) /\ Layers(Generated) \subseteq Layers(AgeKeys)
  BY GeneratedTyped, DocsGrow, LayersGrow DEF VaultInv, VaultTypes
<1>4. file \in Docs(Generated) /\ r.doc \in Docs(Generated) /\ r.skipped \in SUBSET Paths
  BY <1>1 DEF Outcomes, VaultInv, VaultTypes
<1>5. w \in Jobs
  <2>1. NoRing \in [pw : Passwords \union {NoPassword}, ids : SUBSET AgeKeys]
    BY DEF NoRing
  <2>2. file \in AnyDoc /\ r.doc \in AnyDoc /\ key \in Layers(AgeKeys) \union {NoLayer}
    BY <1>3, <1>4 DEF AnyDoc
  <2>3. "writing" \in Pcs
    BY DEF Pcs
  <2>. QED
    BY <1>2, <1>4, <2>1, <2>2, <2>3 DEF Jobs
<1>6. SoundWork(w)
  BY <1>2
<1>7. WorkedOn(w, Generated, file.block) /\ Verified(w)
  BY <1>2, <1>4, <1>6 DEF WorkedOn, Verified
<1>8. ops' \in 0..MaxOps[file.block]
  BY <1>1, <1>4, VaultAssumption DEF VaultInv, VaultTypes, Docs
<1>. QED
  BY <1>1, <1>5, <1>7, <1>8, OneMovesOn

LEMMA CommandsKeep ==
    ASSUME VaultInv, NEW p \in Procs,
           EncryptFile(p) \/ DecryptFile(p) \/ Rekey(p) \/ EncryptPath(p) \/ DecryptPath(p)
    PROVE  VaultInv'
<1>1. Generated \in SUBSET AgeKeys /\ file \in Docs(Generated)
  BY GeneratedTyped DEF VaultInv, VaultTypes
<1>2. {"encrypt-file", "decrypt-file", "rekey", "encrypt-path", "decrypt-path"} \subseteq Commands
  BY DEF Commands
<1>3. CASE EncryptFile(p)
  <2>1. PICK key \in WriteKeys[Generated], force \in BOOLEAN :
          WorkOut(p, "encrypt-file", EncryptConfig(file, key, force), key)
    BY <1>3 DEF EncryptFile
  <2>. DEFINE r == EncryptConfig(file, key, force)
  <2>2. key \in Layers(Generated) /\ r.ok /\ r.changed # {}
    BY <1>1, <2>1, KeysWrite DEF WorkOut
  <2>3. r \in Outcomes(Generated) /\ r.doc.block = file.block
    BY <1>1, <2>2, EncryptFileEnds
  <2>4. \A w : w.cmd = "encrypt-file" /\ w.base = file /\ w.doc = r.doc /\ w.skipped = r.skipped /\ w.key = key => SoundWork(w)
    BY <1>1, <2>2, EncryptFileSound
  <2>. HIDE DEF r
  <2>. QED
    BY <1>2, <2>1, <2>2, <2>3, <2>4, WorkOutKeeps DEF r
<1>4. CASE DecryptFile(p)
  <2>1. PICK ring \in ReadRings[Generated] : WorkOut(p, "decrypt-file", DecryptConfig(file, ring), NoLayer)
    BY <1>4 DEF DecryptFile
  <2>. DEFINE r == DecryptConfig(file, ring)
  <2>2. r.ok
    BY <2>1 DEF WorkOut
  <2>3. r \in Outcomes(Generated) /\ r.doc.block = file.block
    BY <1>1, <2>2, DecryptFileEnds
  <2>4. \A w : w.cmd = "decrypt-file" /\ w.base = file /\ w.doc = r.doc /\ w.skipped = r.skipped /\ w.key = NoLayer => SoundWork(w)
    BY <1>1, <2>2, DecryptFileSound
  <2>. HIDE DEF r
  <2>. QED
    BY <1>2, <2>1, <2>3, <2>4, WorkOutKeeps DEF r
<1>5. CASE Rekey(p)
  <2>1. PICK ring \in ReadRings[Generated], rs \in SUBSET Generated, newPw \in Passwords \union {NoPassword} :
          WorkOut(p, "rekey", RekeyConfig(file, ring, RekeyTarget(ring, rs, newPw)), RekeyTarget(ring, rs, newPw))
    BY <1>5 DEF Rekey
  <2>. DEFINE to == RekeyTarget(ring, rs, newPw)
              r == RekeyConfig(file, ring, to)
  <2>2. to \in Layers(Generated) \union {NoLayer}
    <3>1. ring.pw \in Passwords \union {NoPassword}
      BY <1>1, RingsRead
    <3>. QED
      BY <1>1, <3>1, TargetTyped
  <2>. HIDE DEF to
  <2>3. r.ok /\ r.changed # {}
    BY <2>1 DEF WorkOut, to
  <2>4. r \in Outcomes(Generated) /\ r.doc.block = file.block
    BY <1>1, <2>2, <2>3, RekeyEnds
  <2>5. \A w : w.cmd = "rekey" /\ w.base = file /\ w.doc = r.doc /\ w.skipped = r.skipped /\ w.key = to => SoundWork(w)
    BY <1>1, <2>2, <2>3, RekeySound
  <2>6. WorkOut(p, "rekey", r, to)
    BY <2>1 DEF to
  <2>. HIDE DEF r
  <2>. QED
    BY <1>2, <2>2, <2>4, <2>5, <2>6, WorkOutKeeps
<1>6. CASE EncryptPath(p)
  <2>1. PICK key \in WriteKeys[Generated], force \in BOOLEAN, paths \in canonicalYAMLPaths :
          WorkOut(p, "encrypt-path", EncryptPaths(file, paths, key, force), key)
    BY <1>6 DEF EncryptPath, EncryptPaths
  <2>. DEFINE r == EncryptPaths(file, paths, key, force)
  <2>2. key \in Layers(Generated) /\ r.ok
    BY <1>1, <2>1, KeysWrite DEF WorkOut
  <2>3. r \in Onwards(Generated, file, TRUE)
    BY <1>1, <2>2, PathsTyped, EncryptPathsWalk
  <2>. HIDE DEF r
  <2>4. r \in Outcomes(Generated) /\ r.doc.block = file.block
    BY <2>2, <2>3 DEF Onwards
  <2>5. \A w : w.cmd = "encrypt-path" /\ w.base = file /\ w.doc = r.doc /\ w.skipped = r.skipped /\ w.key = key => SoundWork(w)
    BY <2>2, <2>3, PathsSound
  <2>. QED
    BY <1>2, <2>1, <2>2, <2>4, <2>5, WorkOutKeeps DEF r
<1>7. CASE DecryptPath(p)
  <2>1. PICK ring \in ReadRings[Generated], paths \in canonicalYAMLPaths :
          WorkOut(p, "decrypt-path", DecryptPaths(file, paths, ring), NoLayer)
    BY <1>7 DEF DecryptPath, DecryptPaths
  <2>. DEFINE r == DecryptPaths(file, paths, ring)
  <2>2. r.ok
    BY <2>1 DEF WorkOut
  <2>3. r \in Onwards(Generated, file, FALSE)
    BY <1>1, PathsTyped, DecryptPathsWalk
  <2>. HIDE DEF r
  <2>4. r \in Outcomes(Generated) /\ r.doc.block = file.block
    BY <2>2, <2>3 DEF Onwards
  <2>5. \A w : w.cmd = "decrypt-path" /\ w.base = file /\ w.doc = r.doc /\ w.skipped = r.skipped /\ w.key = NoLayer => SoundWork(w)
    BY <2>2, PathsSound
  <2>. QED
    BY <1>2, <2>1, <2>4, <2>5, WorkOutKeeps DEF r
<1>. QED
  BY <1>3, <1>4, <1>5, <1>6, <1>7

\* The file changes within its style, identities are added, or a command is over.
LEMMA OthersStand ==
    ASSUME VaultInv, file' \in Docs(Generated'), file'.block = file.block, Generated \subseteq Generated',
           keyfile' \in [KeyFiles -> AgeKeys \union {NoKey}], raced' \in BOOLEAN, ops' = ops,
           proc' \in [Procs -> Jobs], \A q \in Procs : proc'[q] = proc[q] \/ proc'[q] = Idle
    PROVE  VaultInv'
<1>1. VaultTypes'
  BY DEF VaultInv, VaultTypes
<1>2. Docs(Generated) \subseteq Docs(Generated')
  BY DocsGrow
<1>3. ASSUME NEW q \in Procs PROVE WorkedOn(proc'[q], Generated', file'.block) /\ Verified(proc'[q])
  <2>1. CASE proc'[q] = Idle
    BY <2>1, IdleJob, IdleKeeps
  <2>2. CASE proc'[q] = proc[q]
    <3>1. WorkedOn(proc[q], Generated, file.block) /\ Verified(proc[q])
      BY DEF VaultInv
    <3>2. WorkedOn(proc[q], Generated', file'.block)
      BY <1>2, <3>1 DEF WorkedOn
    <3>. QED
      BY <2>2, <3>1, <3>2
  <2>. QED
    BY <2>1, <2>2
<1>. QED
  BY <1>1, <1>3 DEF VaultInv

\* A command that is over leaves the others as they were.
LEMMA OverKeeps ==
    ASSUME VaultInv, NEW p \in Procs, proc' = [proc EXCEPT ![p] = Idle]
    PROVE  proc' \in [Procs -> Jobs] /\ \A q \in Procs : proc'[q] = proc[q] \/ proc'[q] = Idle
BY IdleJob DEF VaultInv, VaultTypes

LEMMA ReplaceKeeps ==
    ASSUME VaultInv, NEW p \in Procs, Replace(p) \/ ReplaceFails(p) \/ Applied(p)
    PROVE  VaultInv'
<1>1. proc' = [proc EXCEPT ![p] = Idle] /\ UNCHANGED <<keyfile, ops>>
  BY DEF Replace, ReplaceFails, Applied
<1>2. Generated' = Generated /\ keyfile' \in [KeyFiles -> AgeKeys \union {NoKey}]
  BY <1>1 DEF Generated, VaultInv, VaultTypes
<1>3. file' \in Docs(Generated) /\ file'.block = file.block
  <2>1. CASE Replace(p)
    BY <2>1 DEF Replace, VaultInv, WorkedOn
  <2>2. CASE ReplaceFails(p) \/ Applied(p)
    BY <2>2 DEF ReplaceFails, Applied, VaultInv, VaultTypes
  <2>. QED
    BY <2>1, <2>2
<1>4. raced' \in BOOLEAN
  BY DEF Replace, ReplaceFails, Applied, VaultInv, VaultTypes
<1>. QED
  BY <1>1, <1>2, <1>3, <1>4, OverKeeps, OthersStand

\* There is a number left for one more identity while a file has none.
LEMMA OneMoreKey ==
    ASSUME keyfile \in [KeyFiles -> AgeKeys \union {NoKey}], NEW f \in KeyFiles, keyfile[f] = NoKey
    PROVE  Cardinality(Generated) + 1 \in AgeKeys
<1>. DEFINE Others == KeyFiles \ {f}
            Image == {keyfile[g] : g \in Others}
            Held == [g \in Others |-> keyfile[g]]
<1>1. IsFiniteSet(KeyFiles) /\ IsFiniteSet(Others) /\ Cardinality(Others) = Cardinality(KeyFiles) - 1
  BY VaultAssumption, FS_RemoveElement
<1>2. Held \in Surjection(Others, Image)
  BY DEF Surjection
<1>3. IsFiniteSet(Image) /\ Cardinality(Image) <= Cardinality(Others)
  <2>. HIDE DEF Others, Image, Held
  <2>. QED
    BY <1>1, <1>2, FS_Surjection
<1>4. Generated \subseteq Image
  BY DEF Generated
<1>. HIDE DEF Image
<1>5. Cardinality(Generated) <= Cardinality(Image)
  BY <1>3, <1>4, FS_Subset
<1>6. Cardinality(Generated) \in Nat /\ Cardinality(KeyFiles) \in Nat /\ Cardinality(Image) \in Nat
  BY <1>1, <1>3, <1>4, FS_Subset, FS_CardinalityType
<1>. HIDE DEF Others
<1>. QED
  BY <1>1, <1>3, <1>5, <1>6 DEF AgeKeys

LEMMA KeygenKeeps ==
    ASSUME VaultInv, NEW f \in KeyFiles, Keygen(f)
    PROVE  VaultInv'
<1>. DEFINE k == Cardinality(Generated) + 1
<1>1. keyfile \in [KeyFiles -> AgeKeys \union {NoKey}] /\ file \in Docs(Generated)
  BY DEF VaultInv, VaultTypes
<1>2. keyfile[f] = NoKey /\ keyfile' = [keyfile EXCEPT ![f] = k] /\ UNCHANGED <<file, proc, raced, ops>>
  BY DEF Keygen
<1>3. k \in AgeKeys
  BY <1>1, <1>2, OneMoreKey
<1>. HIDE DEF k
<1>4. keyfile' \in [KeyFiles -> AgeKeys \union {NoKey}]
  BY <1>1, <1>2, <1>3
<1>5. Generated \subseteq Generated'
  <2>. SUFFICES ASSUME NEW g \in KeyFiles, keyfile[g] # NoKey PROVE keyfile[g] = keyfile'[g]
    BY DEF Generated
  <2>. QED
    BY <1>1, <1>2
<1>6. file' \in Docs(Generated')
  BY <1>1, <1>2, <1>5, DocsGrow
<1>. QED
  BY <1>2, <1>4, <1>5, <1>6, OthersStand DEF VaultInv, VaultTypes

LEMMA FillKeeps ==
    ASSUME VaultInv, NEW n \in Nodes, Fill(n)
    PROVE  VaultInv'
<1>1. PICK odd \in {{}, {n}} : file' = [file EXCEPT !.vals[n] = Value(n, <<>>), !.awkward = @ \union odd]
  BY DEF Fill
<1>2. UNCHANGED <<proc, keyfile, raced, ops>>
  BY DEF Fill
<1>. DEFINE v == Value(n, <<>>)
            d == With(file, n, v)
            more == file.awkward \union odd
            out == [d EXCEPT !.awkward = more]
<1>3. file' = out
  <2>1. file' = [d EXCEPT !.awkward = d.awkward \union odd] /\ d.awkward = file.awkward
    BY <1>1 DEF With, VaultInv, VaultTypes, Docs
  <2>. QED
    BY <2>1
<1>4. file \in Docs(Generated)
  BY DEF VaultInv, VaultTypes
<1>5. Generated' = Generated
  BY <1>2 DEF Generated
<1>6. file' \in Docs(Generated) /\ file'.block = file.block
  <2>1. v \in Values(Generated) /\ v.plain \in Plains(n)
    <3>1. <<>> \in Seq(Layers(Generated)) /\ Len(<<>>) <= MaxLayers
      BY VaultAssumption
    <3>. QED
      BY <3>1 DEF Value, Values, Plains
  <2>. HIDE DEF v
  <2>2. file \in [vals : [Nodes -> Values(Generated)], record : SUBSET Generated, block : Styles, awkward : SUBSET Nodes]
    BY <1>4 DEF Docs
  <2>3. d \in [vals : [Nodes -> Values(Generated)], record : SUBSET Generated, block : Styles, awkward : SUBSET Nodes]
    BY <2>1, <2>2 DEF With
  <2>4. d.record = file.record /\ d.block = file.block /\ \A m \in Nodes : d.vals[m].plain \in Plains(m)
    BY <1>4, <2>1, <2>2 DEF With, Docs
  <2>. HIDE DEF d
  <2>5. more \in SUBSET Nodes
    BY <2>2
  <2>. HIDE DEF more
  <2>6. out \in [vals : [Nodes -> Values(Generated)], record : SUBSET Generated, block : Styles, awkward : SUBSET Nodes]
        /\ out.record = d.record /\ out.block = d.block /\ out.vals = d.vals
    BY <2>3, <2>5
  <2>7. file.record # {} => file.block
    BY <1>4 DEF Docs
  <2>. HIDE DEF out
  <2>. QED
    BY <1>3, <2>4, <2>6, <2>7 DEF Docs
<1>. QED
  BY <1>2, <1>5, <1>6, OthersStand DEF VaultInv, VaultTypes
\* The record of an apply that has verified the credentials.
Checked(w, pc, cmd, base, ring, cfg) ==
    [w EXCEPT !.pc = pc, !.cmd = cmd, !.base = base, !.ring = ring, !.cfg = cfg]
LEMMA CheckedFields ==
    ASSUME NEW w, w = [pc |-> w.pc, cmd |-> w.cmd, base |-> w.base, doc |-> w.doc, skipped |-> w.skipped,
                       key |-> w.key, ring |-> w.ring, cfg |-> w.cfg],
           NEW pc, NEW cmd, NEW base, NEW ring, NEW cfg
    PROVE  Checked(w, pc, cmd, base, ring, cfg)
             = [pc |-> pc, cmd |-> cmd, base |-> base, doc |-> w.doc, skipped |-> w.skipped, key |-> w.key,
                ring |-> ring, cfg |-> cfg]
<1>. DEFINE w1 == [w EXCEPT !.pc = pc]
            w2 == [w1 EXCEPT !.cmd = cmd]
            w3 == [w2 EXCEPT !.base = base]
            w4 == [w3 EXCEPT !.ring = ring]
            w5 == [w4 EXCEPT !.cfg = cfg]
<1>1. Checked(w, pc, cmd, base, ring, cfg) = w5
  BY Zenon DEF Checked
<1>2. w1 = [pc |-> pc, cmd |-> w.cmd, base |-> w.base, doc |-> w.doc, skipped |-> w.skipped, key |-> w.key,
            ring |-> w.ring, cfg |-> w.cfg]
  OBVIOUS
<1>. HIDE DEF w1
<1>3. w2 = [pc |-> pc, cmd |-> cmd, base |-> w.base, doc |-> w.doc, skipped |-> w.skipped, key |-> w.key,
            ring |-> w.ring, cfg |-> w.cfg]
  BY <1>2
<1>. HIDE DEF w2
<1>4. w3 = [pc |-> pc, cmd |-> cmd, base |-> base, doc |-> w.doc, skipped |-> w.skipped, key |-> w.key,
            ring |-> w.ring, cfg |-> w.cfg]
  BY <1>3
<1>. HIDE DEF w3
<1>5. w4 = [pc |-> pc, cmd |-> cmd, base |-> base, doc |-> w.doc, skipped |-> w.skipped, key |-> w.key,
            ring |-> ring, cfg |-> w.cfg]
  BY <1>4
<1>. HIDE DEF w4
<1>6. w5 = [pc |-> pc, cmd |-> cmd, base |-> base, doc |-> w.doc, skipped |-> w.skipped, key |-> w.key,
            ring |-> ring, cfg |-> cfg]
  BY <1>5
<1>. HIDE DEF w5
<1>. QED
  BY <1>1, <1>6

LEMMA ReadingRings ==
    ASSUME NEW gen \in SUBSET AgeKeys, NEW k \in ReadRings[gen]
    PROVE  k \in [pw : Passwords \union {NoPassword}, ids : SUBSET AgeKeys]
BY RingsRead

\* A credential is at one of the values of the file.
LEMMA CredentialAt ==
    ASSUME NEW gen, NEW d \in Docs(gen), NEW c \in Credentials
    PROVE  NodeOf[c] \in CredentialNodes /\ NodeOf[c] \in Nodes /\ At(d, c) = d.vals[NodeOf[c]] /\ At(d, c) \in Values(gen)
BY CredentialsAreNodes DEF CredentialNodes, At, Docs

LEMMA VerifyKeeps ==
    ASSUME VaultInv, NEW p \in Procs, VerifyRegistryAuth(p)
    PROVE  VaultInv'
<1>1. PICK k \in ReadRings[Generated] :
        /\ Readable(Copy, k)
        /\ proc' = [proc EXCEPT ![p] = [Idle EXCEPT !.pc = "verified", !.cmd = "apply", !.base = file,
                                                    !.ring = k, !.cfg = Copy]]
  BY DEF VerifyRegistryAuth
<1>2. UNCHANGED <<file, keyfile, raced, ops>>
  BY DEF VerifyRegistryAuth
<1>3. Generated \in SUBSET AgeKeys /\ file \in Docs(Generated) /\ file \in Docs(AgeKeys)
  BY GeneratedTyped, DocsGrow DEF VaultInv, VaultTypes
<1>. DEFINE cfg == Copy
            w == Checked(Idle, "verified", "apply", file, k, cfg)
<1>4. proc' = [proc EXCEPT ![p] = w]
  BY <1>1, Zenon DEF Checked
<1>5. w = [pc |-> "verified", cmd |-> "apply", base |-> file, doc |-> NoDoc, skipped |-> {}, key |-> NoLayer,
           ring |-> k, cfg |-> cfg]
  <2>1. Idle = [pc |-> Idle.pc, cmd |-> Idle.cmd, base |-> Idle.base, doc |-> Idle.doc, skipped |-> Idle.skipped,
                key |-> Idle.key, ring |-> Idle.ring, cfg |-> Idle.cfg]
    BY DEF Idle
  <2>2. Idle.doc = NoDoc /\ Idle.skipped = {} /\ Idle.key = NoLayer
    BY DEF Idle
  <2>. HIDE DEF cfg
  <2>. QED
    BY <2>1, <2>2, CheckedFields
<1>. HIDE DEF w
<1>6. cfg \in [Credentials -> Values(AgeKeys)] /\ \A c \in Credentials : cfg[c] = At(file, c)
  BY <1>3, CredentialAt DEF Copy
<1>7. Readable(cfg, k)
  BY <1>1
<1>. HIDE DEF cfg
<1>8. w \in Jobs
  <2>1. "verified" \in Pcs /\ "apply" \in Commands /\ file \in AnyDoc /\ NoDoc \in AnyDoc
    BY <1>3 DEF Pcs, Commands, AnyDoc
  <2>2. k \in [pw : Passwords \union {NoPassword}, ids : SUBSET AgeKeys]
    BY <1>1, <1>3, ReadingRings
  <2>. QED
    BY <1>5, <1>6, <2>1, <2>2 DEF Jobs
<1>9. WorkedOn(w, Generated, file.block)
  BY <1>5 DEF WorkedOn
<1>10. Verified(w)
  <2>1. w.pc = "verified" /\ w.base = file /\ w.cfg = cfg /\ w.ring = k
    BY <1>5
  <2>. QED
    BY <1>3, <1>6, <1>7, <2>1 DEF Verified
<1>11. ops' \in 0..MaxOps[file.block] /\ UNCHANGED <<file, keyfile, raced>>
  BY <1>2 DEF VaultInv, VaultTypes
<1>. QED
  BY <1>4, <1>8, <1>9, <1>10, <1>11, OneMovesOn

\* What an apply takes a layer off reads in the clear, or was wrapped twice.
LEMMA DeliverKeeps ==
    ASSUME VaultInv, NEW p \in Procs, NEW from, NEW to, Deliver(p, from, to),
           <<from, to>> \in {<<"verified", "configured">>, <<"configured", "synced">>, <<"synced", "applied">>}
    PROVE  VaultInv'
<1>. DEFINE job == proc[p]
            cfg == DecryptRegistryAuth(job.cfg)
            w1 == [job EXCEPT !.pc = to]
            w2 == [w1 EXCEPT !.cfg = cfg]
            out == [job EXCEPT !.pc = "refused"]
<1>1. /\ from \in {"verified", "configured", "synced"} /\ to \in {"configured", "synced", "applied"}
      /\ job.pc = from
  BY DEF Deliver
<1>2. job \in Jobs /\ Verified(job) /\ job.base \in Docs(AgeKeys) /\ job.cfg \in [Credentials -> Values(AgeKeys)]
  BY <1>1 DEF VaultInv, VaultTypes, Verified
<1>3. ops' \in 0..MaxOps[file.block] /\ UNCHANGED <<file, keyfile, raced>>
  BY DEF Deliver, VaultInv, VaultTypes
<1>4. CASE Readable(job.cfg, job.ring)
  <2>1. proc' = [proc EXCEPT ![p] = w2]
    BY <1>4 DEF Deliver, VaultInv, VaultTypes
  <2>2. \A c \in Credentials : /\ cfg[c] = IF IsEncrypted(job.cfg[c]) THEN Unwrapped(job.cfg[c]) ELSE job.cfg[c]
                               /\ cfg[c] \in Values(AgeKeys)
                               /\ IsEncrypted(cfg[c]) => IsEncrypted(job.cfg[c]) /\ Len(job.cfg[c].layers) > 1
    BY <1>2, UnwrappedOf DEF DecryptRegistryAuth
  <2>3. cfg \in [Credentials -> Values(AgeKeys)]
    BY <2>2 DEF DecryptRegistryAuth
  <2>4. \A c \in Credentials : IsEncrypted(cfg[c]) => TwiceIn(job.base, c)
    BY <1>1, <1>2, <2>2 DEF Verified, TwiceIn
  <2>. HIDE DEF cfg, job
  <2>5. w1 \in Jobs /\ w1.pc = to /\ w1.base = job.base
    BY <1>1, <1>2 DEF Jobs, Pcs
  <2>. HIDE DEF w1
  <2>6. w2 \in Jobs /\ w2.pc = to /\ w2.base = job.base /\ w2.cfg = cfg
    BY <2>3, <2>5 DEF Jobs
  <2>. HIDE DEF w2
  <2>7. WorkedOn(w2, Generated, file.block) /\ Verified(w2)
    BY <1>1, <1>2, <2>3, <2>4, <2>6 DEF WorkedOn, Verified
  <2>. QED
    BY <1>3, <2>1, <2>6, <2>7, OneMovesOn
<1>5. CASE ~Readable(job.cfg, job.ring)
  <2>1. proc' = [proc EXCEPT ![p] = out]
    BY <1>5 DEF Deliver, VaultInv, VaultTypes
  <2>2. \E c \in Credentials : TwiceIn(job.base, c)
    BY <1>1, <1>2, <1>5 DEF Verified, Readable
  <2>. HIDE DEF job
  <2>3. out \in Jobs /\ out.pc = "refused" /\ out.base = job.base /\ out.cfg = job.cfg
    BY <1>2 DEF Jobs, Pcs
  <2>. HIDE DEF out
  <2>4. WorkedOn(out, Generated, file.block) /\ Verified(out)
    BY <1>2, <2>2, <2>3 DEF WorkedOn, Verified
  <2>. QED
    BY <1>3, <2>1, <2>3, <2>4, OneMovesOn
<1>. QED
  BY <1>4, <1>5

LEMMA VaultKept == VaultInv /\ [VaultNext]_vaultVars => VaultInv'
<1>. SUFFICES ASSUME VaultInv, [VaultNext]_vaultVars PROVE VaultInv'
  OBVIOUS
<1>1. ASSUME NEW p \in Procs, EncryptFile(p) \/ DecryptFile(p) \/ Rekey(p) \/ EncryptPath(p) \/ DecryptPath(p)
      PROVE  VaultInv'
  BY <1>1, CommandsKeep
<1>2. ASSUME NEW p \in Procs, Replace(p) \/ ReplaceFails(p) \/ Applied(p)
      PROVE  VaultInv'
  BY <1>2, ReplaceKeeps
<1>3. ASSUME NEW p \in Procs, VerifyRegistryAuth(p) PROVE VaultInv'
  BY <1>3, VerifyKeeps
<1>4. ASSUME NEW p \in Procs, ConfigureEngine(p) \/ SyncControllers(p) \/ SyncWorkers(p)
      PROVE  VaultInv'
  BY <1>4, DeliverKeeps DEF ConfigureEngine, SyncControllers, SyncWorkers
<1>5. ASSUME NEW f \in KeyFiles, Keygen(f) PROVE VaultInv'
  BY <1>5, KeygenKeeps
<1>6. ASSUME NEW n \in Nodes, Fill(n) PROVE VaultInv'
  BY <1>6, FillKeeps
<1>7. CASE UNCHANGED vaultVars
  <2>1. UNCHANGED <<file, proc, keyfile, raced, ops>>
    BY <1>7 DEF vaultVars
  <2>2. Generated' = Generated
    BY <2>1 DEF Generated
  <2>. QED
    BY <2>1, <2>2, OthersStand DEF VaultInv, VaultTypes
<1>. QED
  BY <1>1, <1>2, <1>3, <1>4, <1>5, <1>6, <1>7 DEF VaultNext

LEMMA VaultInvariant == VaultSpec => []VaultInv
<1>. QED
  BY VaultInitially, VaultKept, PTL DEF VaultSpec
-----------------------------------------------------------------------------
(* What the invariant says of the vault *)

LEMMA WritingSound ==
    ASSUME VaultInv, NEW w \in Writing
    PROVE  SoundWork(w) /\ w.base \in Docs(Generated) /\ w.doc \in Docs(Generated)
BY DEF VaultInv, Writing, WorkedOn

LEMMA FileTyped == VaultInv => VaultTypeOK
<1>. SUFFICES ASSUME VaultInv PROVE VaultTypeOK
  OBVIOUS
<1>1. file \in Docs(Generated) /\ Generated \in SUBSET AgeKeys
  BY GeneratedTyped DEF VaultInv, VaultTypes
<1>2. ASSUME NEW n \in Nodes
      PROVE  /\ file.vals[n].plain \in {n, Empty, Garbled} /\ Len(file.vals[n].layers) <= MaxLayers
             /\ \A i \in 1..Len(file.vals[n].layers) : file.vals[n].layers[i] \in Layers(Generated)
  BY <1>1 DEF Docs, Plains, Values
<1>3. ASSUME NEW l \in Layers(Generated)
      PROVE  (l.fmt = "vault" /\ \E pw \in Passwords : l.by = {pw}) \/ (l.fmt = "age" /\ l.by \subseteq AgeKeys /\ l.by # {})
  BY <1>1 DEF Layers
<1>4. file.record \subseteq AgeKeys
  BY <1>1 DEF Docs
<1>5. \A p \in Procs : proc[p].pc \in {"idle", "writing", "verified", "configured", "synced", "applied", "refused"}
  BY DEF VaultInv, VaultTypes, Jobs, Pcs
<1>. QED
  BY <1>2, <1>3, <1>4, <1>5 DEF VaultTypeOK, VaultInv, VaultTypes

LEMMA KeptAndHeld == VaultInv => SecretsKept /\ RecipientsHeld
<1>. SUFFICES ASSUME VaultInv PROVE SecretsKept /\ RecipientsHeld
  OBVIOUS
<1>1. file \in Docs(Generated)
  BY DEF VaultInv, VaultTypes
<1>2. SecretsKept
  BY <1>1, WritingSound DEF SecretsKept, Docs, Plains
<1>3. RecipientsHeld
  <2>. SUFFICES ASSUME NEW n \in Nodes, NEW i \in 1..Len(file.vals[n].layers), file.vals[n].layers[i].fmt = "age"
                PROVE  file.vals[n].layers[i].by \subseteq Generated
    BY DEF RecipientsHeld
  <2>1. file.vals[n].layers[i] \in Layers(Generated)
    BY <1>1 DEF Docs, Values
  <2>. QED
    BY <2>1 DEF Layers
<1>. QED
  BY <1>2, <1>3

\* A record that is true is of the recipients of every value left alone, so that they are told apart.
LEMMA ReportsOthers == VaultInv => RecordReported
<1>. SUFFICES ASSUME VaultInv, Truthful(file), NEW key \in WriteKeys[Generated],
                     EncryptConfig(file, key, FALSE).ok, key.fmt = "age"
              PROVE  LET r == EncryptConfig(file, key, FALSE)
                         said == reportRecipientRecord(file, r, key)
                         others == \E path \in r.skipped : Top(At(file, path)).fmt = "age" /\ Top(At(file, path)) # key
                     IN /\ (others /\ file.record # {}) => "others" \in said
                        /\ (\A v \in Secrets(r.doc) : Top(v) = key) => "others" \notin said
                        /\ r.changed # {} => (r.doc.record = key.by \/ "unrecorded" \in said)
  BY DEF RecordReported
<1>. DEFINE r == EncryptConfig(file, key, FALSE)
            said == reportRecipientRecord(file, r, key)
<1>1. file \in Docs(Generated) /\ key \in Layers(Generated)
  BY GeneratedTyped, KeysWrite DEF VaultInv, VaultTypes
<1>2. /\ r \in Outcomes(Generated)
      /\ r.doc.record = IF key.fmt = "age" /\ r.changed # {} THEN (IF file.block THEN key.by ELSE {}) ELSE file.record
      /\ \A path \in r.skipped : path \in Credentials /\ IsEncrypted(At(file, path)) /\ At(file, path) # NoValue
                                 /\ r.doc.vals[NodeOf[path]] = file.vals[NodeOf[path]]
  <2>. DEFINE force == FALSE
  <2>1. force \in BOOLEAN /\ r = EncryptConfig(file, key, force) /\ r.ok
    BY Zenon
  <2>. HIDE DEF force, r
  <2>. QED
    BY <1>1, <2>1, EncryptFileEnds
<1>. HIDE DEF r
<1>3. ASSUME NEW path \in r.skipped, Top(At(file, path)).fmt = "age", file.record = key.by, file.record # {}
      PROVE  Top(At(file, path)) = key
  <2>1. At(file, path) \in Values(Generated) /\ IsEncrypted(At(file, path)) /\ At(file, path) \in Wrapped(file)
    BY <1>1, <1>2, CredentialAt, EncryptedIsSecret
  <2>2. Top(At(file, path)).by = key.by
    BY <1>3, <2>1 DEF Truthful
  <2>3. Top(At(file, path)) \in Layers(Generated)
    BY <2>1, TopOf
  <2>. QED
    BY <1>1, <1>3, <2>2, <2>3 DEF Layers
<1>4. ASSUME NEW path \in r.skipped, \A v \in Secrets(r.doc) : Top(v) = key, file.record # {}
      PROVE  file.record = key.by
  <2>1. NodeOf[path] \in CredentialNodes /\ At(file, path) = r.doc.vals[NodeOf[path]] /\ IsEncrypted(At(file, path))
    BY <1>1, <1>2, CredentialAt
  <2>2. At(file, path) \in Secrets(r.doc) /\ At(file, path) \in Wrapped(file)
    BY <1>1, <1>2, <2>1, CredentialAt, EncryptedIsSecret
  <2>3. Top(At(file, path)) = key
    BY <1>4, <2>2
  <2>. QED
    BY <1>4, <2>2, <2>3 DEF Truthful
<1>5. /\ "others" \in said <=> r.skipped # {} /\ file.record # {} /\ file.record # key.by
      /\ r.changed # {} /\ r.doc.record = {} => "unrecorded" \in said
  BY DEF reportRecipientRecord, RecordedRecipients, SameRecipients
<1>. HIDE DEF said
<1>6. r.changed # {} => r.doc.record \in {{}, key.by}
  BY <1>2
<1>7. (\E path \in r.skipped : Top(At(file, path)).fmt = "age" /\ Top(At(file, path)) # key) /\ file.record # {} => "others" \in said
  BY <1>3, <1>5
<1>8. (\A v \in Secrets(r.doc) : Top(v) = key) => "others" \notin said
  BY <1>4, <1>5
<1>. QED
  BY <1>5, <1>6, <1>7, <1>8 DEF said, r

LEMMA AppliesAgain == VaultInv => AppliedAsVerified
BY DEF VaultInv, Verified, TwiceIn, AppliedAsVerified

(* The vault: under its layers every value is what the operator wrote, in the file and in every    *)
(* document about to replace it; the identity of every recipient is still in a file; one password  *)
(* opens what one opened; the record is of who can read; a silent encrypt-file and every rekey     *)
(* have done all they say; and what an apply verified its phases can read.                         *)
THEOREM VaultStaysSound == VaultSpec => []VaultSound
<1>1. VaultInv => VaultSound
  <2>. SUFFICES ASSUME VaultInv PROVE VaultSound
    OBVIOUS
  <2>1. VaultTypeOK /\ SecretsKept /\ RecipientsHeld /\ RecordReported /\ AppliedAsVerified
    BY FileTyped, KeptAndHeld, ReportsOthers, AppliesAgain
  <2>2. OnePassword
    BY WritingSound DEF OnePassword, SoundWork, Mixes
  <2>3. RecordCurrent
    BY WritingSound DEF RecordCurrent, SoundWork, Records
  <2>4. SilentMeansDone
    BY WritingSound DEF SilentMeansDone, SoundWork, Tells
  <2>5. RekeyedWhole
    BY WritingSound DEF RekeyedWhole, SoundWork, Moved
  <2>. QED
    BY <2>1, <2>2, <2>3, <2>4, <2>5 DEF VaultSound
<1>. QED
  BY <1>1, VaultInvariant, PTL

\* Only a file that is replaced loses an encryption.
LEMMA OnlyReplaced ==
    ASSUME VaultInv, [VaultNext]_vaultVars, NEW n \in CredentialNodes, IsEncrypted(file.vals[n]),
           ~IsEncrypted(file'.vals[n])
    PROVE  \E p \in Procs : Replace(p)
<1>1. CASE file' = file
  BY <1>1
<1>2. ASSUME NEW m \in Nodes, Fill(m) PROVE IsEncrypted(file'.vals[n])
  <2>1. file \in Docs(Generated) /\ n \in Nodes
    BY CredentialsAreNodes DEF VaultInv, VaultTypes
  <2>2. m # n
    BY <1>2 DEF Fill, IsEncrypted, Value
  <2>3. file'.vals[n] = file.vals[n]
    BY <1>2, <2>1, <2>2 DEF Fill, Docs
  <2>. QED
    BY <2>3
<1>. QED
  BY <1>1, <1>2
     DEF VaultNext, vaultVars, WorkOut, EncryptFile, DecryptFile, Rekey, EncryptPath, DecryptPath, ReplaceFails,
         VerifyRegistryAuth, Deliver, ConfigureEngine, SyncControllers, SyncWorkers, Applied, Keygen

(* A credential that is encrypted in the file is never in the clear there again but by a command   *)
(* to decrypt, or by one that worked on a file that has changed since.                             *)
THEOREM EncryptionStays == VaultSpec => EncryptedStays
<1>1. ASSUME VaultInv, [VaultNext]_vaultVars, NEW n \in CredentialNodes, IsEncrypted(file.vals[n]),
             ~IsEncrypted(file'.vals[n])
      PROVE  raced' \/ \E p \in Procs : proc[p].pc = "writing" /\ proc[p].cmd \in {"decrypt-file", "decrypt-path"}
  <2>1. PICK p \in Procs : Replace(p)
    BY <1>1, OnlyReplaced
  <2>2. proc[p].pc = "writing" /\ file' = proc[p].doc /\ raced' = (raced \/ file # proc[p].base)
    BY <2>1 DEF Replace
  <2>3. Covers(proc[p])
    BY <1>1, <2>2 DEF VaultInv, WorkedOn, SoundWork
  <2>4. CASE file # proc[p].base
    BY <2>2, <2>4
  <2>5. CASE file = proc[p].base
    BY <1>1, <2>2, <2>3, <2>5 DEF Covers
  <2>. QED
    BY <2>4, <2>5
<1>2. VaultInv /\ [VaultNext]_vaultVars =>
        [\A n \in CredentialNodes : IsEncrypted(file.vals[n]) /\ ~IsEncrypted(file'.vals[n]) =>
           \/ raced'
           \/ \E p \in Procs : proc[p].pc = "writing" /\ proc[p].cmd \in {"decrypt-file", "decrypt-path"}]_vaultVars
  BY <1>1
<1>. QED
  BY <1>2, VaultInvariant, PTL DEF VaultSpec, EncryptedStays

-----------------------------------------------------------------------------
(* Receipts: numbers in their order. *)

LEMMA Extreme ==
    ASSUME NEW S, IsFiniteSet(S), S # {}, NEW R,
           \A x \in S : <<x, x>> \notin R,
           \A x, y, z \in S : <<x, y>> \in R /\ <<y, z>> \in R => <<x, z>> \in R
    PROVE  \E m \in S : \A k \in S : <<k, m>> \notin R
<1>. DEFINE Below(y) == {x \in S : <<x, y>> \in R}
            T == {Cardinality(Below(y)) : y \in S}
<1>1. \A y \in S : IsFiniteSet(Below(y)) /\ Cardinality(Below(y)) \in Nat
  <2>. SUFFICES ASSUME NEW y \in S PROVE IsFiniteSet(Below(y)) /\ Cardinality(Below(y)) \in Nat
    OBVIOUS
  <2>1. Below(y) \in SUBSET S
    OBVIOUS
  <2>. HIDE DEF Below
  <2>. QED
    BY <2>1, FS_Subset, FS_CardinalityType
<1>2. PICK n \in T : \A k \in T : n <= k
  <2>1. T \subseteq Nat /\ T # {}
    <3>. HIDE DEF Below
    <3>. QED
      BY <1>1
  <2>. HIDE DEF T
  <2>. QED
    BY <2>1, LeastOf
<1>3. PICK m \in S : n = Cardinality(Below(m))
  <2>. HIDE DEF Below
  <2>. QED
    BY <1>2
<1>4. ASSUME NEW k \in S, <<k, m>> \in R PROVE FALSE
  <2>1. Below(k) \in SUBSET Below(m) /\ k \in Below(m) /\ k \notin Below(k)
    BY <1>4
  <2>. HIDE DEF Below
  <2>2. Cardinality(Below(m)) <= Cardinality(Below(k))
    BY <1>2, <1>3
  <2>3. Cardinality(Below(k)) <= Cardinality(Below(m)) /\ (Cardinality(Below(m)) = Cardinality(Below(k)) => Below(m) = Below(k))
    BY <2>1, <1>1, FS_Subset
  <2>. QED
    BY <2>1, <2>2, <2>3, <1>1
<1>. QED
  BY <1>4

LEMMA LeastAndGreatest ==
    ASSUME NEW S, IsFiniteSet(S), S # {}, S \subseteq Int
    PROVE  (\E m \in S : \A k \in S : m <= k) /\ (\E m \in S : \A k \in S : k <= m)
<1>. DEFINE Lt == {p \in S \X S : p[1] < p[2]}
            Gt == {p \in S \X S : p[1] > p[2]}
<1>1. \A x, y \in S : (<<x, y>> \in Lt <=> x < y) /\ (<<x, y>> \in Gt <=> x > y)
  OBVIOUS
<1>. HIDE DEF Lt, Gt
<1>2. \E m \in S : \A k \in S : <<k, m>> \notin Lt
  <2>1. (\A x \in S : <<x, x>> \notin Lt) /\ \A x, y, z \in S : <<x, y>> \in Lt /\ <<y, z>> \in Lt => <<x, z>> \in Lt
    BY <1>1
  <2>. QED
    BY <2>1, Extreme
<1>3. \E m \in S : \A k \in S : <<k, m>> \notin Gt
  <2>1. (\A x \in S : <<x, x>> \notin Gt) /\ \A x, y, z \in S : <<x, y>> \in Gt /\ <<y, z>> \in Gt => <<x, z>> \in Gt
    BY <1>1
  <2>. QED
    BY <2>1, Extreme
<1>4. \E m \in S : \A k \in S : m <= k
  <2>1. PICK m \in S : \A k \in S : <<k, m>> \notin Lt
    BY <1>2
  <2>2. \A k \in S : ~(k < m)
    BY <1>1, <2>1
  <2>. QED
    BY <2>2
<1>5. \E m \in S : \A k \in S : k <= m
  <2>1. PICK m \in S : \A k \in S : <<k, m>> \notin Gt
    BY <1>3
  <2>2. \A k \in S : ~(k > m)
    BY <1>1, <2>1
  <2>. QED
    BY <2>2
<1>. QED
  BY <1>4, <1>5

LEMMA FirstNumbers == ASSUME NEW n \in Nat PROVE IsFiniteSet(1..n) /\ Cardinality(1..n) = n
<1>1. IsFiniteSet(1..n) /\ Cardinality(1..n) = IF 1 > n THEN 0 ELSE n - 1 + 1
  BY FS_Interval
<1>. QED
  BY <1>1

Rising(s) == \A i, j \in DOMAIN s : i < j => s[i] < s[j]

LEMMA Orderly ==
    ASSUME NEW S, IsFiniteSet(S), S \subseteq Int
    PROVE  \E s \in [1..Cardinality(S) -> S] : Rising(s)
<1>. DEFINE T == {i \in 0..Cardinality(S) : \A Q \in SUBSET S : Cardinality(Q) = i => \E s \in [1..i -> Q] : Rising(s)}
<1>0. Cardinality(S) \in Nat
  BY FS_CardinalityType
<1>1. 0 \in T
  <2>. SUFFICES ASSUME NEW Q \in SUBSET S PROVE \E s \in [1..0 -> Q] : Rising(s)
    BY <1>0
  <2>1. [i \in 1..0 |-> i] \in [1..0 -> Q] /\ Rising([i \in 1..0 |-> i])
    BY DEF Rising
  <2>. QED
    BY <2>1
<1>2. ASSUME NEW i \in 1..Cardinality(S), i - 1 \in T PROVE i \in T
  <2>. SUFFICES ASSUME NEW Q \in SUBSET S, Cardinality(Q) = i PROVE \E s \in [1..i -> Q] : Rising(s)
    BY <1>0
  <2>1. IsFiniteSet(Q) /\ Q # {} /\ Q \subseteq Int
    <3>1. IsFiniteSet(Q)
      BY FS_Subset
    <3>2. Q # {}
      BY <1>0, FS_EmptySet
    <3>. QED
      BY <3>1, <3>2
  <2>2. PICK m \in Q : \A k \in Q : k <= m
    BY <2>1, LeastAndGreatest
  <2>3. Cardinality(Q \ {m}) = i - 1
    BY <2>1, FS_RemoveElement
  <2>4. PICK s \in [1..(i - 1) -> Q \ {m}] : Rising(s)
    BY <1>2, <2>3
  <2>. DEFINE t == [k \in 1..i |-> IF k = i THEN m ELSE s[k]]
  <2>5. t \in [1..i -> Q]
    BY <2>4
  <2>6. Rising(t)
    <3>. SUFFICES ASSUME NEW a \in 1..i, NEW b \in 1..i, a < b PROVE t[a] < t[b]
      BY DEF Rising
    <3>1. a \in 1..(i - 1) /\ t[a] = s[a] /\ s[a] \in Q \ {m}
      BY <2>4
    <3>2. CASE b = i
      <4>1. t[b] = m /\ s[a] \in Int /\ m \in Int /\ s[a] <= m /\ s[a] # m
        BY <3>1, <3>2, <2>1, <2>2
      <4>. QED
        BY <4>1, <3>1
    <3>3. CASE b # i
      BY <3>1, <3>3, <2>4 DEF Rising
    <3>. QED
      BY <3>2, <3>3
  <2>. HIDE DEF t
  <2>. QED
    BY <2>5, <2>6
<1>. HIDE DEF T
<1>3. \A i \in 0..Cardinality(S) : i \in T
  BY <1>0, <1>1, <1>2, InductionTo
<1>. QED
  BY <1>0, <1>3 DEF T

\* Every number of a finite set has one place in its order.
LEMMA InItsPlace ==
    ASSUME NEW S, IsFiniteSet(S), S \subseteq Int
    PROVE  /\ InOrder(S) \in [1..Cardinality(S) -> S] /\ Rising(InOrder(S)) /\ Cardinality(S) \in Nat
           /\ \A i, j \in 1..Cardinality(S) : InOrder(S)[i] = InOrder(S)[j] => i = j
           /\ \A x \in S : \E i \in 1..Cardinality(S) : InOrder(S)[i] = x
<1>. DEFINE n == Cardinality(S)
            s == InOrder(S)
<1>0. n \in Nat
  BY FS_CardinalityType
<1>1. s \in [1..n -> S] /\ Rising(s)
  <2>1. s = CHOOSE t \in [1..n -> S] : Rising(t)
    BY DEF InOrder, Rising
  <2>. HIDE DEF s
  <2>. QED
    BY <2>1, Orderly
<1>. HIDE DEF s, n
<1>2. \A i, j \in 1..n : s[i] = s[j] => i = j
  <2>. SUFFICES ASSUME NEW i \in 1..n, NEW j \in 1..n, i # j PROVE s[i] # s[j]
    OBVIOUS
  <2>1. s[i] \in Int /\ s[j] \in Int
    BY <1>1
  <2>2. s[i] < s[j] \/ s[j] < s[i]
    BY <1>0, <1>1 DEF Rising
  <2>. QED
    BY <2>1, <2>2
<1>3. s \in Surjection(1..n, S)
  <2>1. s \in Injection(1..n, S)
    BY <1>1, <1>2 DEF Injection, IsInjective
  <2>2. Cardinality(1..n) = n
    BY <1>0, FirstNumbers
  <2>. QED
    BY <2>1, <2>2, FS_Injection DEF n
<1>. QED
  BY <1>0, <1>1, <1>2, <1>3 DEF n, s, Surjection

\* The first numbers stand first.
LEMMA FirstStand ==
    ASSUME NEW S, IsFiniteSet(S), S \subseteq Nat \ {0}, NEW n \in Nat, 1..n \subseteq S
    PROVE  \A i \in 1..n : i \in 1..Cardinality(S) /\ InOrder(S)[i] = i
<1>. DEFINE m == Cardinality(S)
            s == InOrder(S)
            T == {i \in 0..n : i = 0 \/ (i \in 1..m /\ s[i] = i)}
<1>1. /\ s \in [1..m -> S] /\ Rising(s) /\ m \in Nat
      /\ \A x \in S : \E i \in 1..m : s[i] = x
  <2>1. S \subseteq Int
    OBVIOUS
  <2>. QED
    BY <2>1, InItsPlace
<1>. HIDE DEF m, s
<1>2. 0 \in T
  OBVIOUS
<1>3. ASSUME NEW i \in 1..n, i - 1 \in T PROVE i \in T
  <2>1. PICK j \in 1..m : s[j] = i
    BY <1>1
  <2>2. j >= i
    <3>1. CASE i = 1
      BY <3>1, <2>1
    <3>2. CASE i # 1
      <4>1. i - 1 \in 1..m /\ s[i - 1] = i - 1
        BY <3>2, <1>3
      <4>2. ~(j < i - 1) /\ j # i - 1
        BY <4>1, <2>1, <1>1 DEF Rising
      <4>. QED
        BY <4>2
    <3>. QED
      BY <3>1, <3>2
  <2>3. i \in 1..m
    BY <2>2, <1>1
  <2>4. s[i] \in Nat /\ s[i] >= i
    <3>1. s[i] \in Nat \ {0}
      BY <2>3, <1>1
    <3>2. CASE i = 1
      BY <3>1, <3>2
    <3>3. CASE i # 1
      <4>1. i - 1 \in 1..m /\ s[i - 1] = i - 1
        BY <3>3, <1>3
      <4>2. s[i - 1] < s[i]
        BY <4>1, <2>3, <1>1 DEF Rising
      <4>. QED
        BY <3>1, <4>1, <4>2
    <3>. QED
      BY <3>2, <3>3
  <2>5. j = i
    <3>1. ~(i < j)
      BY <2>1, <2>3, <2>4, <1>1 DEF Rising
    <3>. QED
      BY <3>1, <2>2
  <2>. QED
    BY <2>1, <2>3, <2>5
<1>. HIDE DEF T
<1>4. \A i \in 0..n : i \in T
  BY <1>2, <1>3, InductionTo
<1>. QED
  BY <1>4 DEF T, m, s

-----------------------------------------------------------------------------
(* Receipts: the hosts of a phase, and the phases of a run. *)

Change == [host : Int, changed : BOOLEAN, diffs : Nat]

LEMMA HostKnown ==
    ASSUME NEW ledger \in Ledgers
    PROVE  /\ ledger \in Seq(PhaseRecord) /\ DOMAIN ledger = 1..Len(ledger) /\ Len(ledger) \in Nat
           /\ \A k \in DOMAIN ledger : ledger[k] \in PhaseRecord /\ ledger[k].visits \in Seq(HostVisit)
           /\ \A k \in DOMAIN ledger : \A i \in DOMAIN ledger[k].visits : ledger[k].visits[i].host \in KnownHosts
<1>1. ledger \in Seq(PhaseRecord)
  BY ReceiptsAssumption
<1>2. DOMAIN ledger = 1..Len(ledger) /\ Len(ledger) \in Nat /\ \A k \in DOMAIN ledger : ledger[k] \in PhaseRecord
  BY <1>1
<1>3. \A k \in DOMAIN ledger : ledger[k].visits \in Seq(HostVisit)
  BY <1>2 DEF PhaseRecord
<1>4. ASSUME NEW k \in DOMAIN ledger, NEW i \in DOMAIN ledger[k].visits PROVE ledger[k].visits[i].host \in KnownHosts
  <2>1. ledger[k] \in UNION {Range(l) : l \in Ledgers}
    BY DEF Range
  <2>2. ledger[k].visits[i] \in Range(ledger[k].visits)
    BY DEF Range
  <2>3. ledger[k].visits[i] \in UNION {Range(ph.visits) : ph \in UNION {Range(l) : l \in Ledgers}}
    BY <2>1, <2>2
  <2>. QED
    BY <2>3 DEF KnownHosts
<1>. QED
  BY <1>1, <1>2, <1>3, <1>4

LEMMA FleetKnown ==
    /\ Fleet \in Seq(Machine) /\ DOMAIN Fleet = 1..Len(Fleet) /\ Len(Fleet) \in Nat
    /\ \A i \in DOMAIN Fleet : Fleet[i] \in KnownHosts /\ Fleet[i] \in Machine
    /\ \A i, j \in DOMAIN Fleet : Fleet[i] = Fleet[j] => i = j
BY ReceiptsAssumption DEF KnownHosts, Range, IsInjective

LEMMA KnownMachines == KnownHosts \subseteq Machine
<1>1. Range(Fleet) \subseteq Machine
  BY FleetKnown DEF Range
<1>2. ASSUME NEW v \in UNION {Range(ph.visits) : ph \in UNION {Range(l) : l \in Ledgers}} PROVE v.host \in Machine
  <2>1. PICK ph \in UNION {Range(l) : l \in Ledgers} : v \in Range(ph.visits)
    BY <1>2
  <2>2. PICK l \in Ledgers : ph \in Range(l)
    BY <2>1
  <2>3. PICK k \in DOMAIN l : ph = l[k]
    BY <2>2 DEF Range
  <2>4. ph.visits \in Seq(HostVisit)
    BY <2>3, HostKnown
  <2>5. PICK i \in DOMAIN ph.visits : v = ph.visits[i]
    BY <2>1 DEF Range
  <2>6. v \in HostVisit
    BY <2>4, <2>5
  <2>. QED
    BY <2>6 DEF HostVisit
<1>. QED
  BY <1>1, <1>2 DEF KnownHosts

LEMMA Apart ==
    ASSUME NEW m \in Nat, NEW a \in Nat, NEW b \in Nat, NEW p \in 0..m, NEW q \in 0..m, (m + 1) * a + p = (m + 1) * b + q
    PROVE  a = b
<1>1. ASSUME NEW x \in Nat, NEW y \in Nat, x < y PROVE (m + 1) * x + (m + 1) <= (m + 1) * y
  <2>1. PICK d \in Nat : y = x + 1 + d
    <3>1. y - x - 1 \in Nat /\ y = x + 1 + (y - x - 1)
      BY <1>1
    <3>. QED
      BY <3>1
  <2>2. (m + 1) * y = (m + 1) * x + (m + 1) + (m + 1) * d
    BY <2>1
  <2>3. (m + 1) * d \in Nat /\ (m + 1) * x \in Nat
    OBVIOUS
  <2>. QED
    BY <2>2, <2>3
<1>2. (m + 1) * a \in Nat /\ (m + 1) * b \in Nat
  OBVIOUS
<1>3. ~(a < b)
  <2>. SUFFICES ASSUME a < b PROVE FALSE
    OBVIOUS
  <2>1. (m + 1) * a + (m + 1) <= (m + 1) * b
    BY <1>1
  <2>. QED
    BY <2>1, <1>2
<1>4. ~(b < a)
  <2>. SUFFICES ASSUME b < a PROVE FALSE
    OBVIOUS
  <2>1. (m + 1) * b + (m + 1) <= (m + 1) * a
    BY <1>1
  <2>. QED
    BY <2>1, <1>2
<1>. QED
  BY <1>3, <1>4

\* An address is of one host of those the run speaks of.
LEMMA OneAddress ==
    /\ \A h \in Machine : ConfiguredAddress(h) \in Nat
    /\ \A g, h \in KnownHosts : ConfiguredAddress(g) = ConfiguredAddress(h) => g = h
<1>0. MaxPort \in Nat
  BY ReceiptsAssumption
<1>. DEFINE port(h) == IF h.port \in {0, 22} THEN 0 ELSE h.port
<1>1. ASSUME NEW h \in Machine
      PROVE  /\ h = [at |-> h.at, port |-> h.port] /\ h.at \in Nat /\ port(h) \in 0..MaxPort
             /\ ConfiguredAddress(h) = (MaxPort + 1) * h.at + port(h)
  BY <1>0 DEF Machine, ConfiguredAddress
<1>2. ASSUME NEW h \in Machine PROVE ConfiguredAddress(h) \in Nat
  <2>1. h.at \in Nat /\ port(h) \in Nat /\ ConfiguredAddress(h) = (MaxPort + 1) * h.at + port(h)
    BY <1>1, <1>0
  <2>. HIDE DEF port
  <2>2. (MaxPort + 1) * h.at \in Nat
    BY <2>1, <1>0
  <2>. QED
    BY <2>1, <2>2
<1>3. ASSUME NEW g \in KnownHosts, NEW h \in KnownHosts, ConfiguredAddress(g) = ConfiguredAddress(h) PROVE g = h
  <2>1. g \in Machine /\ h \in Machine
    BY KnownMachines
  <2>2. g.at = h.at
    <3>1. /\ g.at \in Nat /\ h.at \in Nat /\ port(g) \in 0..MaxPort /\ port(h) \in 0..MaxPort
          /\ (MaxPort + 1) * g.at + port(g) = (MaxPort + 1) * h.at + port(h)
      BY <1>1, <2>1, <1>3
    <3>. HIDE DEF port
    <3>. QED
      BY <3>1, <1>0, Apart
  <2>3. port(g) = port(h)
    <3>1. /\ g.at \in Nat /\ port(g) \in 0..MaxPort /\ port(h) \in 0..MaxPort
          /\ (MaxPort + 1) * g.at + port(g) = (MaxPort + 1) * g.at + port(h)
      BY <1>1, <2>1, <1>3, <2>2
    <3>. HIDE DEF port
    <3>2. (MaxPort + 1) * g.at \in Nat
      BY <1>0, <3>1
    <3>. QED
      BY <3>1, <3>2, <1>0
  <2>4. CASE g.port \in {0, 22} /\ h.port \in {0, 22}
    BY <2>2, <2>4, ReceiptsAssumption
  <2>5. CASE ~(g.port \in {0, 22} /\ h.port \in {0, 22})
    <3>1. g.port = h.port
      BY <2>3, <2>5
    <3>. QED
      BY <3>1, <2>2, <1>1, <2>1
  <2>. QED
    BY <2>4, <2>5
<1>. QED
  BY <1>2, <1>3

LEMMA Pictures ==
    ASSUME NEW f, IsFiniteSet(DOMAIN f)
    PROVE  IsFiniteSet({f[x] : x \in DOMAIN f})
<1>. DEFINE g == [x \in DOMAIN f |-> f[x]]
            S == {f[x] : x \in DOMAIN f}
<1>1. g \in Surjection(DOMAIN f, S)
  BY DEF Surjection
<1>. HIDE DEF g, S
<1>. QED
  BY <1>1, FS_Surjection DEF S

\* The record of a phase has one entry of each host that it visited, and says of it what the visits did.
LEMMA EntryOfEach ==
    ASSUME NEW visits \in Seq(HostVisit)
    PROVE  /\ HostsChanged(visits) \in Seq(Change)
           /\ \A i, j \in DOMAIN HostsChanged(visits) : HostsChanged(visits)[i].host = HostsChanged(visits)[j].host => i = j
           /\ \A j \in DOMAIN HostsChanged(visits) :
                 /\ HostsChanged(visits)[j] = HostChange(visits, HostsChanged(visits)[j].host)
                 /\ \E i \in DOMAIN visits : ConfiguredAddress(visits[i].host) = HostsChanged(visits)[j].host
           /\ \A i \in DOMAIN visits : \E j \in DOMAIN HostsChanged(visits) :
                 HostsChanged(visits)[j].host = ConfiguredAddress(visits[i].host)
<1>. DEFINE address == [i \in DOMAIN visits |-> ConfiguredAddress(visits[i].host)]
            S == {address[i] : i \in DOMAIN address}
            hosts == InOrder(S)
            H == HostsChanged(visits)
<1>1. DOMAIN visits = 1..Len(visits) /\ Len(visits) \in Nat /\ \A i \in DOMAIN visits : visits[i].host \in Machine
  <2>1. DOMAIN visits = 1..Len(visits) /\ Len(visits) \in Nat /\ \A i \in DOMAIN visits : visits[i] \in HostVisit
    OBVIOUS
  <2>. QED
    BY <2>1 DEF HostVisit
<1>2. IsFiniteSet(DOMAIN visits)
  BY <1>1, FirstNumbers
<1>3. IsFiniteSet(S) /\ S \subseteq Int
  <2>1. IsFiniteSet(S)
    <3>1. IsFiniteSet(DOMAIN address)
      BY <1>2
    <3>. HIDE DEF address
    <3>. QED
      BY <3>1, Pictures
  <2>2. S \subseteq Int
    BY <1>1, OneAddress
  <2>. QED
    BY <2>1, <2>2
<1>4. S = {ConfiguredAddress(visits[i].host) : i \in DOMAIN visits}
  OBVIOUS
<1>5. H = [i \in DOMAIN hosts |-> HostChange(visits, hosts[i])]
  BY <1>4 DEF HostsChanged
<1>6. /\ hosts \in [1..Cardinality(S) -> S] /\ Cardinality(S) \in Nat
      /\ \A i, j \in 1..Cardinality(S) : hosts[i] = hosts[j] => i = j
      /\ \A x \in S : \E i \in 1..Cardinality(S) : hosts[i] = x
  <2>. HIDE DEF S
  <2>. QED
    BY <1>3, InItsPlace
<1>. HIDE DEF hosts, H, S
<1>7. \A a \in Int : HostChange(visits, a) \in Change
  <2>. SUFFICES ASSUME NEW a \in Int PROVE HostChange(visits, a) \in Change
    OBVIOUS
  <2>. DEFINE files == {i \in {k \in DOMAIN visits : ConfiguredAddress(visits[k].host) = a} : visits[i].what = "file"}
  <2>1. files \in SUBSET DOMAIN visits
    OBVIOUS
  <2>. HIDE DEF files
  <2>2. Cardinality(files) \in Nat
    BY <2>1, <1>2, FS_Subset, FS_CardinalityType
  <2>. QED
    BY <2>2 DEF HostChange, Change, files
<1>8. DOMAIN H = 1..Cardinality(S) /\ \A i \in DOMAIN H : H[i] = HostChange(visits, hosts[i]) /\ hosts[i] \in S /\ H[i].host = hosts[i]
  BY <1>5, <1>6 DEF HostChange
<1>9. H \in Seq(Change)
  <2>1. \A i \in DOMAIN H : H[i] \in Change
    BY <1>3, <1>7, <1>8
  <2>2. H = [i \in 1..Cardinality(S) |-> H[i]]
    BY <1>5, <1>8
  <2>. QED
    BY <2>1, <2>2, <1>6, <1>8
<1>10. \A i, j \in DOMAIN H : H[i].host = H[j].host => i = j
  BY <1>6, <1>8
<1>11. \A j \in DOMAIN H : H[j] = HostChange(visits, H[j].host) /\ \E i \in DOMAIN visits : ConfiguredAddress(visits[i].host) = H[j].host
  BY <1>4, <1>8
<1>12. ASSUME NEW i \in DOMAIN visits PROVE \E j \in DOMAIN H : H[j].host = ConfiguredAddress(visits[i].host)
  <2>1. ConfiguredAddress(visits[i].host) \in S
    BY <1>4
  <2>. QED
    BY <2>1, <1>6, <1>8
<1>. QED
  BY <1>9, <1>10, <1>11, <1>12 DEF H

LEMMA OneAfterTheOther ==
    ASSUME NEW T, NEW s \in Seq(T), NEW t \in Seq(T)
    PROVE  /\ s \o t \in Seq(T) /\ Len(s \o t) = Len(s) + Len(t) /\ Len(s) \in Nat /\ Len(t) \in Nat
           /\ \A i \in 1..(Len(s) + Len(t)) : (s \o t)[i] = IF i <= Len(s) THEN s[i] ELSE t[i - Len(s)]
OBVIOUS

\* The parts of a receipt hold each phase of the run once.
LEMMA EveryPhaseOnce ==
    ASSUME NEW ledger \in Ledgers
    PROVE  \E p \in Bijection(1..Len(ledger), 1..Len(ledger)) :
               phasesOf(ledger) = [i \in 1..Len(ledger) |-> phaseResult(ledger[p[i]])]
<1>. DEFINE D == 1..Len(ledger)
            Of(d) == {k \in DOMAIN ledger : ledger[k].as = d}
            A == Of("ran")
            B == Of("planned")
            C == Of("skipped")
            a == InOrder(A)
            b == InOrder(B)
            c == InOrder(C)
            all == a \o b \o c
<1>1. DOMAIN ledger = D /\ Len(ledger) \in Nat /\ \A k \in D : ledger[k].as \in {"ran", "planned", "skipped"}
  BY HostKnown DEF PhaseRecord
<1>2. IsFiniteSet(D) /\ Cardinality(D) = Len(ledger) /\ D \subseteq Int
  BY <1>1, FirstNumbers
<1>3. /\ A \subseteq D /\ B \subseteq D /\ C \subseteq D /\ A \union B \union C = D
      /\ A \intersect B = {} /\ (A \union B) \intersect C = {}
  BY <1>1
<1>4. phasesOf(ledger) = [i \in DOMAIN all |-> phaseResult(ledger[all[i]])]
  BY DEF phasesOf
<1>. HIDE DEF D, A, B, C
<1>5. IsFiniteSet(A) /\ IsFiniteSet(B) /\ IsFiniteSet(C) /\ A \subseteq Int /\ B \subseteq Int /\ C \subseteq Int
  BY <1>2, <1>3, FS_Subset
<1>. DEFINE na == Cardinality(A)
            nb == Cardinality(B)
            nc == Cardinality(C)
<1>6. /\ na \in Nat /\ a \in [1..na -> A] /\ \A i, j \in 1..na : a[i] = a[j] => i = j
      /\ nb \in Nat /\ b \in [1..nb -> B] /\ \A i, j \in 1..nb : b[i] = b[j] => i = j
      /\ nc \in Nat /\ c \in [1..nc -> C] /\ \A i, j \in 1..nc : c[i] = c[j] => i = j
  BY <1>5, InItsPlace
<1>7. Len(ledger) = na + nb + nc
  <2>1. IsFiniteSet(A \union B) /\ Cardinality(A \union B) = na + nb - Cardinality(A \intersect B)
    BY <1>5, FS_Union
  <2>2. Cardinality((A \union B) \union C) = Cardinality(A \union B) + nc - Cardinality((A \union B) \intersect C)
    BY <1>5, <2>1, FS_Union
  <2>3. Cardinality(A \intersect B) = 0 /\ Cardinality((A \union B) \intersect C) = 0
    BY <1>3, FS_EmptySet
  <2>. HIDE DEF na, nb, nc
  <2>. QED
    <3>1. Cardinality(A \union B) = na + nb
      BY <1>6, <2>1, <2>3
    <3>2. Cardinality(D) = Cardinality(A \union B) + nc
      <4>1. Cardinality((A \union B) \union C) = na + nb + nc - 0
        BY <2>2, <2>3, <3>1
      <4>2. na + nb + nc - 0 = na + nb + nc
        BY <1>6
      <4>3. (A \union B) \union C = D
        BY <1>3
      <4>. QED
        BY <4>1, <4>2, <4>3, <3>1
    <3>. QED
      BY <1>2, <3>1, <3>2
<1>. HIDE DEF a, b, c, na, nb, nc
<1>8. /\ all \in Seq(D) /\ DOMAIN all = 1..(na + nb + nc)
      /\ \A i \in 1..(na + nb + nc) : all[i] = IF i <= na THEN a[i] ELSE IF i <= na + nb THEN b[i - na] ELSE c[i - na - nb]
  <2>1. a \in Seq(D) /\ b \in Seq(D) /\ c \in Seq(D) /\ Len(a) = na /\ Len(b) = nb /\ Len(c) = nc
    BY <1>3, <1>6
  <2>2. a \o b \in Seq(D) /\ Len(a \o b) = na + nb /\ \A i \in 1..(na + nb) : (a \o b)[i] = IF i <= na THEN a[i] ELSE b[i - na]
    BY <2>1, <1>6
  <2>. DEFINE ab == a \o b
  <2>3. all = ab \o c
    OBVIOUS
  <2>. HIDE DEF ab, all
  <2>4. ab \in Seq(D) /\ Len(ab) = na + nb /\ \A i \in 1..(na + nb) : ab[i] = IF i <= na THEN a[i] ELSE b[i - na]
    BY <2>2 DEF ab
  <2>5. all \in Seq(D) /\ Len(all) = na + nb + nc
    <3>1. ab \o c \in Seq(D) /\ Len(ab \o c) = Len(ab) + Len(c)
      BY <2>1, <2>4, OneAfterTheOther
    <3>. QED
      BY <2>1, <2>3, <2>4, <3>1
  <2>6. ASSUME NEW i \in 1..(na + nb + nc)
        PROVE  all[i] = IF i <= na THEN a[i] ELSE IF i <= na + nb THEN b[i - na] ELSE c[i - na - nb]
    <3>1. all[i] = IF i <= na + nb THEN ab[i] ELSE c[i - (na + nb)]
      <4>1. \A k \in 1..(Len(ab) + Len(c)) : (ab \o c)[k] = IF k <= Len(ab) THEN ab[k] ELSE c[k - Len(ab)]
        BY <2>1, <2>4, OneAfterTheOther
      <4>2. i \in 1..(Len(ab) + Len(c))
        BY <2>1, <2>4
      <4>. QED
        BY <2>1, <2>3, <2>4, <4>1, <4>2
    <3>2. i - (na + nb) = i - na - nb
      BY <1>6
    <3>3. i <= na + nb => i \in 1..(na + nb)
      BY <1>6
    <3>4. i <= na + nb => ab[i] = IF i <= na THEN a[i] ELSE b[i - na]
      BY <3>3, <2>4
    <3>5. i <= na => i <= na + nb
      BY <1>6
    <3>. QED
      BY <3>1, <3>2, <3>4, <3>5
  <2>. QED
    BY <2>5, <2>6
<1>. HIDE DEF all
<1>9. all \in [D -> D]
  BY <1>7, <1>8 DEF D
<1>10. ASSUME NEW i \in D, NEW j \in D, all[i] = all[j] PROVE i = j
  <2>1. i \in 1..(na + nb + nc) /\ j \in 1..(na + nb + nc)
    BY <1>7 DEF D
  <2>2. ASSUME NEW x \in 1..(na + nb + nc)
        PROVE  \/ x \in 1..na /\ all[x] = a[x] /\ all[x] \in A
               \/ x - na \in 1..nb /\ all[x] = b[x - na] /\ all[x] \in B
               \/ x - na - nb \in 1..nc /\ all[x] = c[x - na - nb] /\ all[x] \in C
    <3>1. CASE x <= na
      BY <3>1, <1>6, <1>8
    <3>2. CASE ~(x <= na) /\ x <= na + nb
      <4>1. x - na \in 1..nb /\ all[x] = b[x - na]
        BY <3>2, <1>6, <1>8
      <4>. QED
        BY <4>1, <1>6
    <3>3. CASE ~(x <= na) /\ ~(x <= na + nb)
      <4>1. x - na - nb \in 1..nc /\ all[x] = c[x - na - nb]
        BY <3>3, <1>6, <1>8
      <4>. QED
        BY <4>1, <1>6
    <3>. QED
      BY <3>1, <3>2, <3>3
  <2>3. CASE all[i] \in A
    <3>1. i \in 1..na /\ j \in 1..na /\ a[i] = a[j]
      BY <2>1, <2>2, <2>3, <1>3, <1>10
    <3>. QED
      BY <3>1, <1>6
  <2>4. CASE all[i] \in B
    <3>1. i - na \in 1..nb /\ j - na \in 1..nb /\ b[i - na] = b[j - na]
      BY <2>1, <2>2, <2>4, <1>3, <1>10
    <3>2. i - na = j - na
      BY <3>1, <1>6
    <3>. QED
      BY <3>2, <2>1, <1>6
  <2>5. CASE all[i] \in C
    <3>1. i - na - nb \in 1..nc /\ j - na - nb \in 1..nc /\ c[i - na - nb] = c[j - na - nb]
      BY <2>1, <2>2, <2>5, <1>3, <1>10
    <3>2. i - na - nb = j - na - nb
      BY <3>1, <1>6
    <3>. QED
      BY <3>2, <2>1, <1>6
  <2>6. all[i] \in D
    BY <1>9
  <2>. QED
    BY <2>3, <2>4, <2>5, <2>6, <1>3
<1>11. all \in Bijection(D, D)
  <2>1. all \in Injection(D, D)
    BY <1>9, <1>10 DEF Injection, IsInjective
  <2>2. all \in Surjection(D, D)
    BY <2>1, <1>2, FS_Injection
  <2>. QED
    BY <2>1, <2>2 DEF Bijection
<1>12. phasesOf(ledger) = [i \in D |-> phaseResult(ledger[all[i]])]
  BY <1>4, <1>9
<1>. QED
  BY <1>11, <1>12 DEF D

\* As many numbers are sent into a set as it has.
LEMMA Recount ==
    ASSUME NEW n \in Nat, NEW p \in Bijection(1..n, 1..n), NEW A, A \subseteq 1..n
    PROVE  Cardinality({i \in 1..n : p[i] \in A}) = Cardinality(A) /\ IsFiniteSet(A) /\ Cardinality(A) \in Nat
<1>. DEFINE Q == {i \in 1..n : p[i] \in A}
            g == [i \in Q |-> p[i]]
<1>1. p \in [1..n -> 1..n] /\ (\A i, j \in 1..n : p[i] = p[j] => i = j) /\ \A k \in 1..n : \E i \in 1..n : p[i] = k
  BY DEF Bijection, Injection, Surjection, IsInjective
<1>2. IsFiniteSet(Q) /\ IsFiniteSet(A)
  <2>1. IsFiniteSet(1..n) /\ Q \subseteq 1..n
    BY FirstNumbers
  <2>. HIDE DEF Q
  <2>. QED
    BY <2>1, FS_Subset
<1>3. g \in [Q -> A] /\ \A i, j \in Q : g[i] = g[j] => i = j
  BY <1>1
<1>4. \A k \in A : \E i \in Q : g[i] = k
  BY <1>1
<1>. HIDE DEF Q, g
<1>5. g \in Bijection(Q, A)
  BY <1>3, <1>4 DEF Bijection, Injection, Surjection, IsInjective
<1>6. Cardinality(A) = Cardinality(Q)
  BY <1>2, <1>5, FS_Bijection DEF ExistsBijection
<1>. QED
  BY <1>2, <1>6, FS_CardinalityType DEF Q

\* The record of a phase names a host, and says that it was changed, as the visits to it did.
LEMMA PhaseTells ==
    ASSUME NEW ledger \in Ledgers, NEW k \in DOMAIN ledger, NEW h \in KnownHosts
    PROVE  LET H == HostsChanged(ledger[k].visits)
               Own == {v \in Range(ledger[k].visits) : v.host = h}
           IN /\ (\E j \in DOMAIN H : H[j].host = ConfiguredAddress(h)) <=> Own # {}
              /\ (\E j \in DOMAIN H : H[j].host = ConfiguredAddress(h) /\ H[j].changed) <=> \E v \in Own : v.what # "observed"
<1>. DEFINE visits == ledger[k].visits
            H == HostsChanged(visits)
            a == ConfiguredAddress(h)
            Own == {v \in Range(visits) : v.host = h}
<1>1. visits \in Seq(HostVisit) /\ \A i \in DOMAIN visits : visits[i].host \in KnownHosts
  BY HostKnown
<1>. HIDE DEF visits
<1>2. \A i \in DOMAIN visits : ConfiguredAddress(visits[i].host) = a <=> visits[i].host = h
  BY <1>1, OneAddress
<1>3. /\ \A j \in DOMAIN H : /\ H[j] = HostChange(visits, H[j].host)
                             /\ \E i \in DOMAIN visits : ConfiguredAddress(visits[i].host) = H[j].host
      /\ \A i \in DOMAIN visits : \E j \in DOMAIN H : H[j].host = ConfiguredAddress(visits[i].host)
  BY <1>1, EntryOfEach
<1>. HIDE DEF H, a
<1>4. (\E j \in DOMAIN H : H[j].host = a) <=> \E i \in DOMAIN visits : visits[i].host = h
  BY <1>2, <1>3
<1>5. \A j \in DOMAIN H : H[j].host = a => (H[j].changed <=> \E i \in DOMAIN visits : visits[i].host = h /\ visits[i].what # "observed")
  <2>1. HostChange(visits, a).changed <=> \E i \in DOMAIN visits : ConfiguredAddress(visits[i].host) = a /\ visits[i].what # "observed"
    BY DEF HostChange
  <2>. QED
    BY <2>1, <1>2, <1>3
<1>6. Own # {} <=> \E i \in DOMAIN visits : visits[i].host = h
  BY DEF Range
<1>7. (\E v \in Own : v.what # "observed") <=> \E i \in DOMAIN visits : visits[i].host = h /\ visits[i].what # "observed"
  BY DEF Range
<1>8. (\E j \in DOMAIN H : H[j].host = a /\ H[j].changed) <=> \E v \in Own : v.what # "observed"
  BY <1>4, <1>5, <1>7
<1>. HIDE DEF Own
<1>9. (\E j \in DOMAIN H : H[j].host = a) <=> Own # {}
  BY <1>4, <1>6
<1>. QED
  BY <1>8, <1>9 DEF visits, H, a, Own

Counts == [changed : BOOLEAN, named : Nat, reporting : Nat]

\* The summary of a host over the phases is that over the ledger.
LEMMA SummaryTells ==
    ASSUME NEW ledger \in Ledgers, NEW h \in KnownHosts
    PROVE  LET phases == phasesOf(ledger)
               s == HostSummary(phases, ConfiguredAddress(h))
               Of(k) == {v \in Range(ledger[k].visits) : v.host = h}
               Telling == {k \in DOMAIN ledger : ledger[k].declared}
           IN /\ s \in Counts
              /\ s.changed <=> \E k \in Telling : \E v \in Of(k) : v.what # "observed"
              /\ s.named = Cardinality({k \in Telling : Of(k) # {}})
              /\ s.named > 0 => \E k \in Telling : Of(k) # {}
              /\ s.named > 0 => s.reporting = Len(ledger) - HostsUndeclared(phases)
              /\ Len(phases) = Len(ledger)
<1>. DEFINE n == Len(ledger)
            phases == phasesOf(ledger)
            a == ConfiguredAddress(h)
            Of(k) == {v \in Range(ledger[k].visits) : v.host = h}
            Telling == {k \in DOMAIN ledger : ledger[k].declared}
            Spoken == {k \in Telling : Of(k) # {}}
            Reporting == {i \in DOMAIN phases : phases[i].declared}
            Naming == {i \in Reporting : Names(phases[i], a)}
            s == HostSummary(phases, a)
<1>1. n \in Nat /\ DOMAIN ledger = 1..n /\ \A k \in DOMAIN ledger : ledger[k].declared \in BOOLEAN
  BY HostKnown DEF PhaseRecord
<1>2. PICK p \in Bijection(1..n, 1..n) : phases = [i \in 1..n |-> phaseResult(ledger[p[i]])]
  BY EveryPhaseOnce
<1>3. p \in [1..n -> 1..n] /\ \A k \in 1..n : \E i \in 1..n : p[i] = k
  BY DEF Bijection, Injection, Surjection
<1>. DEFINE Host(k) == \E j \in DOMAIN HostsChanged(ledger[k].visits) : HostsChanged(ledger[k].visits)[j].host = a
            HostTouched(k) == \E j \in DOMAIN HostsChanged(ledger[k].visits) :
                         HostsChanged(ledger[k].visits)[j].host = a /\ HostsChanged(ledger[k].visits)[j].changed
<1>4. \A k \in 1..n : (Host(k) <=> Of(k) # {}) /\ (HostTouched(k) <=> \E v \in Of(k) : v.what # "observed")
  BY <1>1, PhaseTells
<1>5. /\ DOMAIN phases = 1..n
      /\ \A i \in 1..n : /\ phases[i].declared = ledger[p[i]].declared
                         /\ phases[i].declared => phases[i].hosts = HostsChanged(ledger[p[i]].visits)
  BY <1>2 DEF phaseResult
<1>6. \A i \in 1..n : /\ i \in Reporting <=> p[i] \in Telling
                      /\ i \in Naming <=> p[i] \in Spoken
                      /\ i \in Naming => ((\E j \in DOMAIN phases[i].hosts : phases[i].hosts[j].host = a /\ phases[i].hosts[j].changed)
                                           <=> \E v \in Of(p[i]) : v.what # "observed")
  <2>. SUFFICES ASSUME NEW i \in 1..n
       PROVE  /\ i \in Reporting <=> p[i] \in Telling
              /\ i \in Naming <=> p[i] \in Spoken
              /\ i \in Naming => ((\E j \in DOMAIN phases[i].hosts : phases[i].hosts[j].host = a /\ phases[i].hosts[j].changed)
                                   <=> \E v \in Of(p[i]) : v.what # "observed")
    OBVIOUS
  <2>1. p[i] \in 1..n
    BY <1>3
  <2>2. (Host(p[i]) <=> Of(p[i]) # {}) /\ (HostTouched(p[i]) <=> \E v \in Of(p[i]) : v.what # "observed")
    BY <1>4, <2>1
  <2>. HIDE DEF phases, a
  <2>3. i \in Reporting <=> p[i] \in Telling
    BY <1>1, <1>5, <2>1
  <2>4. i \in Reporting => (Names(phases[i], a) <=> Host(p[i]))
    BY <1>5 DEF Names
  <2>5. i \in Reporting =>
           ((\E j \in DOMAIN phases[i].hosts : phases[i].hosts[j].host = a /\ phases[i].hosts[j].changed) <=> HostTouched(p[i]))
    BY <1>5
  <2>. HIDE DEF Of, Host, HostTouched, Telling, Reporting
  <2>. QED
    BY <2>1, <2>2, <2>3, <2>4, <2>5
<1>7. Reporting = {i \in 1..n : p[i] \in Telling} /\ Naming = {i \in 1..n : p[i] \in Spoken}
  <2>1. Reporting \subseteq 1..n /\ Naming \subseteq Reporting
    BY <1>5
  <2>. HIDE DEF Reporting, Naming, Telling, Spoken
  <2>. QED
    BY <2>1, <1>6
<1>8. /\ Cardinality(Reporting) = Cardinality(Telling) /\ Cardinality(Telling) \in Nat
      /\ Cardinality(Naming) = Cardinality(Spoken) /\ Cardinality(Spoken) \in Nat /\ IsFiniteSet(Spoken)
  <2>1. Telling \subseteq 1..n /\ Spoken \subseteq 1..n
    BY <1>1
  <2>. HIDE DEF Reporting, Naming, Telling, Spoken
  <2>. QED
    BY <1>1, <1>7, <2>1, Recount
<1>9. Naming = {} <=> Spoken = {}
  <2>1. Spoken \subseteq 1..n
    BY <1>1
  <2>2. Naming = {i \in 1..n : p[i] \in Spoken}
    BY <1>7
  <2>3. \A k \in 1..n : \E i \in 1..n : p[i] = k
    BY <1>3
  <2>. HIDE DEF Naming, Spoken, n
  <2>. QED
    BY <2>1, <2>2, <2>3
<1>10. s = IF Naming = {} THEN [changed |-> FALSE, named |-> 0, reporting |-> 0]
           ELSE [changed |-> \E i \in Naming : \E j \in DOMAIN phases[i].hosts :
                                phases[i].hosts[j].host = a /\ phases[i].hosts[j].changed,
                 named |-> Cardinality(Naming), reporting |-> Cardinality(Reporting)]
  BY DEF HostSummary
<1>11. (\E i \in Naming : \E j \in DOMAIN phases[i].hosts : phases[i].hosts[j].host = a /\ phases[i].hosts[j].changed)
        <=> \E k \in Telling : \E v \in Of(k) : v.what # "observed"
  <2>1. (\E k \in Telling : \E v \in Of(k) : v.what # "observed") <=> \E k \in Spoken : \E v \in Of(k) : v.what # "observed"
    OBVIOUS
  <2>2. Spoken \subseteq 1..n /\ Naming \subseteq 1..n
    BY <1>1, <1>5
  <2>3. \A k \in Spoken : \E i \in Naming : p[i] = k
    <3>. HIDE DEF Naming, Spoken
    <3>. QED
      BY <1>3, <1>7, <2>2
  <2>. HIDE DEF Naming, Spoken, Of, Telling, phases, a
  <2>. QED
    BY <1>6, <2>1, <2>2, <2>3
<1>12. s.named = Cardinality(Spoken) /\ (s.named > 0 => Spoken # {})
  <2>1. Cardinality({}) = 0
    BY FS_EmptySet
  <2>. HIDE DEF Naming, Spoken, Reporting, s
  <2>2. Cardinality(Spoken) > 0 => Spoken # {}
    BY <2>1
  <2>3. Naming = {} => s.named = 0 /\ Cardinality(Spoken) = 0
    BY <1>9, <1>10, <2>1
  <2>4. Naming # {} => s.named = Cardinality(Spoken)
    BY <1>8, <1>10
  <2>. QED
    BY <2>2, <2>3, <2>4
<1>13. s.changed <=> \E k \in Telling : \E v \in Of(k) : v.what # "observed"
  <2>1. Naming = {} => ~\E i \in Naming : \E j \in DOMAIN phases[i].hosts : phases[i].hosts[j].host = a /\ phases[i].hosts[j].changed
    OBVIOUS
  <2>. HIDE DEF Naming, Of, Telling, phases, a, s, Reporting
  <2>2. s.changed <=> \E i \in Naming : \E j \in DOMAIN phases[i].hosts : phases[i].hosts[j].host = a /\ phases[i].hosts[j].changed
    BY <1>10, <2>1
  <2>. QED
    BY <2>2, <1>11
<1>14. s.named > 0 => s.reporting = n - HostsUndeclared(phases)
  <2>. DEFINE Mute == {i \in DOMAIN phases : ~phases[i].declared}
  <2>1. HostsUndeclared(phases) = Cardinality(Mute)
    BY DEF HostsUndeclared
  <2>2. Reporting \subseteq 1..n /\ Mute = (1..n) \ Reporting /\ (1..n) \intersect Reporting = Reporting
    BY <1>5
  <2>. HIDE DEF Mute, Reporting, Telling
  <2>3. Cardinality(Mute) = n - Cardinality(Reporting)
    <3>1. n \in Nat
      BY <1>1
    <3>. HIDE DEF n
    <3>2. IsFiniteSet(1..n) /\ Cardinality(1..n) = n
      BY <3>1, FirstNumbers
    <3>3. Cardinality((1..n) \ Reporting) = Cardinality(1..n) - Cardinality((1..n) \intersect Reporting)
      BY <3>2, FS_Difference
    <3>. QED
      BY <3>2, <3>3, <2>2
  <2>4. Cardinality(Reporting) = n - Cardinality(Mute)
    BY <2>3, <1>1, <1>8
  <2>. HIDE DEF s, Naming, Spoken, phases
  <2>5. s.named > 0 => s.reporting = Cardinality(Reporting)
    BY <1>10, <1>8
  <2>. QED
    BY <2>1, <2>4, <2>5
<1>15. s \in Counts
  <2>. HIDE DEF Naming, Reporting, phases, a, s, Telling, Spoken
  <2>. QED
    BY <1>8, <1>10 DEF Counts
<1>16. Len(phases) = n
  BY <1>1, <1>2
<1>17. s.named > 0 => \E k \in Telling : Of(k) # {}
  BY <1>12
<1>. HIDE DEF Telling, Of, s, phases, n
<1>. QED
  BY <1>12, <1>13, <1>14, <1>15, <1>16, <1>17 DEF Telling, Of, s, phases, n, Spoken, a

-----------------------------------------------------------------------------
(* Receipts: what a receipt records, and its redaction. *)

LEMMA ArgsRedacted ==
    ASSUME NEW line \in Lines
    PROVE  redactArgs(line) \in Seq(Argument) /\ \A i \in DOMAIN redactArgs(line) : ~redactArgs(line)[i].secret
<1>. DEFINE n == Len(line)
            F(f) == [i \in DOMAIN line |-> i > 1 /\ line[i - 1].kind = "credential" /\ ~f[i - 1]]
            value == CHOOSE f : f = F(f)
<1>1. line \in Seq(Argument) /\ DOMAIN line = 1..n /\ n \in Nat /\ \A i \in 1..n : line[i] \in Argument
  <2>1. line \in Seq(Argument)
    BY ReceiptsAssumption
  <2>. QED
    BY <2>1
<1>2. PICK values \in [DOMAIN line -> BOOLEAN] :
          ValueWords(line, values) /\ \A i \in DOMAIN line : line[i].secret => line[i].kind = "joined" \/ values[i]
  BY ReceiptsAssumption
<1>3. redactArgs(line) = [i \in DOMAIN line |-> IF value[i] \/ line[i].kind = "joined" THEN Hidden ELSE line[i]]
  BY DEF redactArgs
<1>4. values = F(values)
  BY <1>2, Zenon DEF ValueWords
<1>5. value = F(value)
  <2>. HIDE DEF F
  <2>. QED
    BY <1>4
<1>. HIDE DEF value
<1>6. \A i \in 1..n : value[i] = values[i]
  <2>. DEFINE T == {i \in 0..n : i = 0 \/ value[i] = values[i]}
  <2>1. 0 \in T
    BY <1>1
  <2>2. ASSUME NEW i \in 1..n, i - 1 \in T PROVE i \in T
    <3>1. value[i] = (i > 1 /\ line[i - 1].kind = "credential" /\ ~value[i - 1])
      BY <1>1, <1>5, Zenon
    <3>2. values[i] = (i > 1 /\ line[i - 1].kind = "credential" /\ ~values[i - 1])
      BY <1>1, <1>4, Zenon
    <3>3. i > 1 => value[i - 1] = values[i - 1]
      BY <2>2
    <3>4. value[i] = values[i]
      BY <3>1, <3>2, <3>3, Zenon
    <3>. QED
      BY <3>4, <1>1
  <2>. HIDE DEF T
  <2>3. \A i \in 0..n : i \in T
    BY <1>1, <2>1, <2>2, InductionTo
  <2>4. \A i \in 1..n : i \in 0..n /\ i # 0
    BY <1>1
  <2>. QED
    BY <2>3, <2>4 DEF T
<1>7. Hidden \in Argument /\ ~Hidden.secret
  BY DEF Hidden, Argument
<1>8. redactArgs(line) \in Seq(Argument)
  <2>1. \A i \in 1..n : (IF value[i] \/ line[i].kind = "joined" THEN Hidden ELSE line[i]) \in Argument
    BY <1>1, <1>7
  <2>. QED
    BY <2>1, <1>1, <1>3
<1>9. ASSUME NEW i \in 1..n PROVE ~redactArgs(line)[i].secret
  <2>1. CASE value[i] \/ line[i].kind = "joined"
    BY <2>1, <1>1, <1>3, <1>7
  <2>2. CASE ~(value[i] \/ line[i].kind = "joined")
    <3>1. ~values[i] /\ line[i].kind # "joined"
      BY <2>2, <1>6
    <3>2. redactArgs(line)[i] = line[i]
      BY <2>2, <1>1, <1>3
    <3>. QED
      BY <3>1, <3>2, <1>1, <1>2
  <2>. QED
    BY <2>1, <2>2
<1>. QED
  BY <1>1, <1>3, <1>8, <1>9

HostRow == [address : Int, summary : Counts]
PhaseEntry == [disposition : {"ran", "planned", "skipped"}, declared : BOOLEAN, hosts : Seq(Change)]
RunRecord == [redacted : BOOLEAN, run : Nat, args : Seq(Argument), phases : Seq(PhaseEntry), hosts : Seq(HostRow)]

\* The hosts of the phases of a receipt are all in the list that the aliases are made from.
LEMMA PhaseHostsListed ==
    ASSUME NEW r, r.phases \in Seq(PhaseEntry)
    PROVE  /\ phaseHosts(r) \in Seq(Int)
           /\ \A k \in DOMAIN r.phases : \A j \in DOMAIN r.phases[k].hosts :
                 \E i \in DOMAIN phaseHosts(r) : phaseHosts(r)[i] = r.phases[k].hosts[j].host
<1>. DEFINE n == Len(r.phases)
            In(k) == [j \in DOMAIN r.phases[k].hosts |-> r.phases[k].hosts[j].host]
            F(f) == [k \in 0..n |-> IF k = 0 THEN <<>> ELSE f[k - 1] \o In(k)]
            upTo == CHOOSE f : f = F(f)
            move == [x \in Seq(Int) \X (1..n) |-> x[1] \o In(x[2])]
<1>1. n \in Nat /\ DOMAIN r.phases = 1..n /\ \A k \in 1..n : r.phases[k] \in PhaseEntry /\ r.phases[k].hosts \in Seq(Change)
  <2>1. n \in Nat /\ DOMAIN r.phases = 1..n /\ \A k \in 1..n : r.phases[k] \in PhaseEntry
    OBVIOUS
  <2>. HIDE DEF n
  <2>. QED
    BY <2>1 DEF PhaseEntry
<1>2. \A k \in 1..n : In(k) \in Seq(Int)
  <2>. SUFFICES ASSUME NEW k \in 1..n PROVE In(k) \in Seq(Int)
    OBVIOUS
  <2>1. \A j \in DOMAIN r.phases[k].hosts : r.phases[k].hosts[j].host \in Int
    <3>1. \A j \in DOMAIN r.phases[k].hosts : r.phases[k].hosts[j] \in Change
      BY <1>1
    <3>. QED
      BY <3>1 DEF Change
  <2>. QED
    BY <2>1, <1>1
<1>3. phaseHosts(r) = upTo[n]
  BY DEF phaseHosts
<1>. HIDE DEF n
<1>4. move \in [Seq(Int) \X (1..n) -> Seq(Int)] /\ <<>> \in Seq(Int)
  <2>1. \A x \in Seq(Int) \X (1..n) : x[1] \o In(x[2]) \in Seq(Int)
    <3>. HIDE DEF In
    <3>. QED
      BY <1>2
  <2>. QED
    BY <2>1
<1>5. PICK g \in [0..n -> Seq(Int)] : StepsTo(g, <<>>, n, move)
  <2>. HIDE DEF move
  <2>. QED
    BY <1>1, <1>4, StepByStep
<1>6. g = F(g)
  <2>1. \A k \in 1..n : g[k] = g[k - 1] \o In(k)
    <3>. SUFFICES ASSUME NEW k \in 1..n PROVE g[k] = g[k - 1] \o In(k)
      OBVIOUS
    <3>1. g[k] = move[<<g[k - 1], k>>]
      BY <1>5 DEF StepsTo
    <3>2. g[k - 1] \in Seq(Int)
      BY <1>1, <1>5
    <3>. HIDE DEF In
    <3>. QED
      BY <3>1, <3>2
  <2>2. g[0] = <<>>
    BY <1>5 DEF StepsTo
  <2>3. \A k \in 0..n : g[k] = IF k = 0 THEN <<>> ELSE g[k - 1] \o In(k)
    <3>. HIDE DEF In
    <3>. TAKE k \in 0..n
    <3>1. CASE k = 0
      BY <3>1, <2>2
    <3>2. CASE k # 0
      <4>1. k \in 1..n
        BY <3>2, <1>1
      <4>. QED
        BY <4>1, <3>2, <2>1
    <3>. QED
      BY <3>1, <3>2
  <2>. HIDE DEF In
  <2>. QED
    BY <2>3
<1>7. upTo = F(upTo)
  <2>. HIDE DEF F
  <2>. QED
    BY <1>6
<1>. HIDE DEF upTo, In, move
<1>70. upTo[0] = <<>>
  BY <1>1, <1>7
<1>71. \A k \in 1..n : upTo[k] = upTo[k - 1] \o In(k)
  <2>. TAKE k \in 1..n
  <2>1. k \in 0..n /\ k # 0
    BY <1>1
  <2>2. DOMAIN upTo = 0..n /\ upTo[k] = IF k = 0 THEN <<>> ELSE upTo[k - 1] \o In(k)
    BY <2>1, <1>7, Zenon
  <2>. QED
    BY <2>1, <2>2
<1>. DEFINE T == {k \in 0..n : upTo[k] \in Seq(Int) /\ \A m \in 1..k : \A j \in DOMAIN In(m) : \E i \in DOMAIN upTo[k] : upTo[k][i] = In(m)[j]}
<1>8. 0 \in T
  <2>1. upTo[0] \in Seq(Int)
    BY <1>4, <1>70
  <2>2. 0 \in 0..n /\ 1..0 = {}
    BY <1>1
  <2>. QED
    BY <2>1, <2>2
<1>9. ASSUME NEW k \in 1..n, k - 1 \in T PROVE k \in T
  <2>1. upTo[k] = upTo[k - 1] \o In(k) /\ k \in 0..n
    BY <1>1, <1>71
  <2>2. upTo[k - 1] \in Seq(Int) /\ \A m \in 1..(k - 1) : \A j \in DOMAIN In(m) : \E i \in DOMAIN upTo[k - 1] : upTo[k - 1][i] = In(m)[j]
    BY <1>9
  <2>. DEFINE u == upTo[k - 1]
              v == In(k)
  <2>. HIDE DEF u, v
  <2>3. u \in Seq(Int) /\ v \in Seq(Int) /\ upTo[k] = u \o v
    BY <2>1, <2>2, <1>2 DEF u, v
  <2>4. /\ u \o v \in Seq(Int) /\ Len(u \o v) = Len(u) + Len(v) /\ Len(u) \in Nat /\ Len(v) \in Nat
        /\ DOMAIN u = 1..Len(u) /\ DOMAIN v = 1..Len(v) /\ DOMAIN (u \o v) = 1..(Len(u) + Len(v))
        /\ \A i \in 1..(Len(u) + Len(v)) : (u \o v)[i] = IF i <= Len(u) THEN u[i] ELSE v[i - Len(u)]
    BY <2>3, OneAfterTheOther
  <2>5. ASSUME NEW m \in 1..k, NEW j \in DOMAIN In(m) PROVE \E i \in DOMAIN upTo[k] : upTo[k][i] = In(m)[j]
    <3>1. CASE m = k
      <4>1. j \in 1..Len(v) /\ In(m)[j] = v[j]
        BY <3>1, <2>4 DEF v
      <4>2. Len(u) + j \in 1..(Len(u) + Len(v)) /\ (u \o v)[Len(u) + j] = v[j]
        BY <4>1, <2>4
      <4>. QED
        BY <4>1, <4>2, <2>3, <2>4
    <3>2. CASE m # k
      <4>1. m \in 1..(k - 1)
        BY <3>2
      <4>2. PICK i \in DOMAIN u : u[i] = In(m)[j]
        BY <4>1, <2>2 DEF u
      <4>3. i \in 1..(Len(u) + Len(v)) /\ (u \o v)[i] = u[i]
        BY <2>4
      <4>. QED
        BY <4>2, <4>3, <2>3, <2>4
    <3>. QED
      BY <3>1, <3>2
  <2>6. upTo[k] \in Seq(Int)
    BY <2>3, <2>4
  <2>. QED
    BY <2>1, <2>5, <2>6
<1>. HIDE DEF T
<1>10. n \in T
  <2>1. \A i \in 0..n : i \in T
    BY <1>1, <1>8, <1>9, InductionTo
  <2>. QED
    BY <2>1, <1>1
<1>11. upTo[n] \in Seq(Int) /\ \A m \in 1..n : \A j \in DOMAIN In(m) : \E i \in DOMAIN upTo[n] : upTo[n][i] = In(m)[j]
  BY <1>10 DEF T
<1>12. \A k \in 1..n : \A j \in DOMAIN r.phases[k].hosts : j \in DOMAIN In(k) /\ In(k)[j] = r.phases[k].hosts[j].host
  BY DEF In
<1>13. phaseHosts(r) \in Seq(Int) /\ \A m \in 1..n : \A j \in DOMAIN In(m) : \E i \in DOMAIN phaseHosts(r) : phaseHosts(r)[i] = In(m)[j]
  BY <1>3, <1>11
<1>14. ASSUME NEW k \in DOMAIN r.phases, NEW j \in DOMAIN r.phases[k].hosts
       PROVE  \E i \in DOMAIN phaseHosts(r) : phaseHosts(r)[i] = r.phases[k].hosts[j].host
  <2>1. k \in 1..n
    BY <1>1
  <2>2. j \in DOMAIN In(k) /\ In(k)[j] = r.phases[k].hosts[j].host
    BY <2>1, <1>12
  <2>3. \E i \in DOMAIN phaseHosts(r) : phaseHosts(r)[i] = In(k)[j]
    BY <2>1, <2>2, <1>13
  <2>. QED
    BY <2>2, <2>3
<1>. QED
  BY <1>13, <1>14

\* Each address that a receipt mentions has an alias of its own, and the rows have the first ones.
LEMMA AliasOfEach ==
    ASSUME NEW r, r.phases \in Seq(PhaseEntry), r.hosts \in Seq(HostRow),
           \A i, j \in DOMAIN r.hosts : r.hosts[i].address = r.hosts[j].address => i = j
    PROVE  LET names == hostAliases(r)
               Mentioned == {r.hosts[i].address : i \in DOMAIN r.hosts}
                            \union UNION {{r.phases[k].hosts[j].host : j \in DOMAIN r.phases[k].hosts} : k \in DOMAIN r.phases}
           IN /\ \A a \in Mentioned : Alias(names, a) \in Int /\ Alias(names, a) < 0
              /\ \A a, b \in Mentioned : Alias(names, a) = Alias(names, b) => a = b
              /\ \A i \in DOMAIN r.hosts : Alias(names, r.hosts[i].address) = -i
<1>. DEFINE rows == [i \in DOMAIN r.hosts |-> r.hosts[i].address]
            others == phaseHosts(r)
            mentions == rows \o others
            S == {i \in DOMAIN mentions : \A j \in 1..(i - 1) : mentions[j] # mentions[i]}
            firsts == InOrder(S)
            names == hostAliases(r)
            Mentioned == {r.hosts[i].address : i \in DOMAIN r.hosts}
                            \union UNION {{r.phases[k].hosts[j].host : j \in DOMAIN r.phases[k].hosts} : k \in DOMAIN r.phases}
            n == Len(r.hosts)
<1>1. /\ n \in Nat /\ DOMAIN r.hosts = 1..n /\ rows \in Seq(Int) /\ Len(rows) = n
      /\ \A i \in 1..n : rows[i] = r.hosts[i].address
      /\ \A i, j \in 1..n : rows[i] = rows[j] => i = j
  <2>1. n \in Nat /\ DOMAIN r.hosts = 1..n /\ \A i \in 1..n : r.hosts[i] \in HostRow
    OBVIOUS
  <2>. HIDE DEF n
  <2>2. \A i \in 1..n : r.hosts[i].address \in Int
    BY <2>1 DEF HostRow
  <2>3. rows \in Seq(Int) /\ Len(rows) = n
    BY <2>1, <2>2
  <2>4. \A i \in 1..n : rows[i] = r.hosts[i].address
    BY <2>1
  <2>. QED
    BY <2>1, <2>3, <2>4
<1>2. /\ others \in Seq(Int)
      /\ \A k \in DOMAIN r.phases : \A j \in DOMAIN r.phases[k].hosts :
            \E i \in DOMAIN others : others[i] = r.phases[k].hosts[j].host
  BY PhaseHostsListed
<1>3. names = [i \in DOMAIN firsts |-> mentions[firsts[i]]]
  BY DEF hostAliases
<1>. HIDE DEF rows, others, n, firsts, names
<1>4. /\ mentions \in Seq(Int) /\ Len(others) \in Nat /\ DOMAIN mentions = 1..(n + Len(others)) /\ n + Len(others) \in Nat
      /\ \A i \in 1..(n + Len(others)) : mentions[i] = IF i <= n THEN rows[i] ELSE others[i - n]
  <2>1. /\ rows \o others \in Seq(Int) /\ Len(rows \o others) = Len(rows) + Len(others) /\ Len(others) \in Nat
        /\ \A i \in 1..(Len(rows) + Len(others)) : (rows \o others)[i] = IF i <= Len(rows) THEN rows[i] ELSE others[i - Len(rows)]
    <3>1. rows \in Seq(Int) /\ others \in Seq(Int)
      BY <1>1, <1>2
    <3>. HIDE DEF mentions
    <3>. QED
      BY <3>1, OneAfterTheOther
  <2>. QED
    BY <2>1, <1>1
<1>. HIDE DEF mentions
<1>. DEFINE m == n + Len(others)
<1>. HIDE DEF m
<1>5. /\ m \in Nat /\ n \in 0..m /\ DOMAIN mentions = 1..m
      /\ \A i \in 1..n : mentions[i] = rows[i]
      /\ \A a \in Mentioned : \E i \in 1..m : mentions[i] = a
  <2>1. m \in Nat /\ n \in 0..m /\ DOMAIN mentions = 1..m /\ \A i \in 1..n : mentions[i] = rows[i]
    BY <1>1, <1>4 DEF m
  <2>2. ASSUME NEW i \in DOMAIN r.hosts PROVE \E k \in 1..m : mentions[k] = r.hosts[i].address
    <3>1. i \in 1..m /\ mentions[i] = r.hosts[i].address
      BY <1>1, <2>1
    <3>. QED
      BY <3>1
  <2>3. ASSUME NEW k \in DOMAIN r.phases, NEW j \in DOMAIN r.phases[k].hosts
        PROVE  \E i \in 1..m : mentions[i] = r.phases[k].hosts[j].host
    <3>1. PICK i \in DOMAIN others : others[i] = r.phases[k].hosts[j].host
      BY <1>2
    <3>2. i \in 1..Len(others)
      BY <1>2
    <3>3. n + i \in 1..m /\ ~(n + i <= n) /\ (n + i) - n = i
      BY <3>2, <1>1, <1>4 DEF m
    <3>4. mentions[n + i] = others[i]
      BY <3>3, <1>4 DEF m
    <3>. QED
      BY <3>1, <3>3, <3>4
  <2>4. ASSUME NEW a \in Mentioned PROVE \E i \in 1..m : mentions[i] = a
    <3>1. CASE a \in {r.hosts[i].address : i \in DOMAIN r.hosts}
      BY <3>1, <2>2
    <3>2. CASE a \in UNION {{r.phases[k].hosts[j].host : j \in DOMAIN r.phases[k].hosts} : k \in DOMAIN r.phases}
      BY <3>2, <2>3
    <3>. QED
      BY <3>1, <3>2
  <2>. QED
    BY <2>1, <2>4
<1>6. S \subseteq 1..m /\ IsFiniteSet(S) /\ S \subseteq Int /\ S \subseteq Nat \ {0}
  <2>1. S \subseteq 1..m
    BY <1>5
  <2>. HIDE DEF S
  <2>. QED
    <3>1. IsFiniteSet(1..m)
      BY <1>5, FirstNumbers
    <3>2. IsFiniteSet(S)
      BY <2>1, <3>1, FS_Subset
    <3>3. 1..m \subseteq Int /\ 1..m \subseteq Nat \ {0}
      BY <1>5
    <3>. QED
      BY <2>1, <3>2, <3>3
<1>7. 1..n \subseteq S
  <2>. SUFFICES ASSUME NEW i \in 1..n PROVE i \in S
    OBVIOUS
  <2>1. i \in 1..m /\ \A j \in 1..(i - 1) : j \in 1..n /\ j # i
    BY <1>1, <1>5
  <2>2. \A j \in 1..(i - 1) : mentions[j] # mentions[i]
    BY <2>1, <1>1, <1>5
  <2>. QED
    BY <2>1, <2>2, <1>5
<1>. DEFINE c == Cardinality(S)
<1>8. /\ firsts \in [1..c -> S] /\ c \in Nat /\ \A x \in S : \E i \in 1..c : firsts[i] = x
      /\ \A i, j \in 1..c : firsts[i] = firsts[j] => i = j
      /\ \A i \in 1..n : i \in 1..c /\ firsts[i] = i
  <2>. HIDE DEF S
  <2>1. \A i \in 1..n : i \in 1..Cardinality(S) /\ InOrder(S)[i] = i
    BY <1>1, <1>6, <1>7, FirstStand
  <2>. QED
    BY <2>1, <1>6, InItsPlace DEF firsts
<1>. HIDE DEF c
<1>9. DOMAIN names = 1..c /\ \A i \in 1..c : names[i] = mentions[firsts[i]]
  BY <1>3, <1>8
<1>10. \A i, j \in 1..c : names[i] = names[j] => i = j
  <2>. SUFFICES ASSUME NEW i \in 1..c, NEW j \in 1..c, names[i] = names[j] PROVE i = j
    OBVIOUS
  <2>1. firsts[i] \in S /\ firsts[j] \in S /\ mentions[firsts[i]] = mentions[firsts[j]]
    BY <1>8, <1>9
  <2>2. firsts[i] = firsts[j]
    <3>. DEFINE x == firsts[i]
                y == firsts[j]
    <3>. HIDE DEF x, y
    <3>1. x \in 1..m /\ y \in 1..m /\ mentions[x] = mentions[y]
          /\ (\A k \in 1..(x - 1) : mentions[k] # mentions[x]) /\ \A k \in 1..(y - 1) : mentions[k] # mentions[y]
      BY <2>1, <1>6 DEF x, y
    <3>2. ~(x < y) /\ ~(y < x)
      BY <3>1, <1>5
    <3>3. x = y
      BY <3>1, <3>2, <1>5
    <3>. QED
      BY <3>3 DEF x, y
  <2>. QED
    BY <2>2, <1>8
<1>11. ASSUME NEW a \in Mentioned PROVE \E i \in 1..c : names[i] = a
  <2>. DEFINE Places == {i \in 1..m : mentions[i] = a}
  <2>. HIDE DEF Mentioned
  <2>1. Places # {} /\ Places \subseteq Nat
    <3>1. \E i \in 1..m : mentions[i] = a
      BY <1>5
    <3>. QED
      BY <3>1, <1>5
  <2>2. PICK x \in Places : \A k \in Places : x <= k
    <3>. HIDE DEF Places
    <3>. QED
      BY <2>1, LeastOf
  <2>3. x \in S
    <3>1. x \in 1..m /\ mentions[x] = a
      BY <2>2
    <3>2. \A j \in 1..(x - 1) : j \in 1..m /\ j \notin Places
      BY <3>1, <2>2, <1>5
    <3>. QED
      BY <3>1, <3>2, <1>5
  <2>4. PICK i \in 1..c : firsts[i] = x
    BY <2>3, <1>8
  <2>. QED
    BY <2>2, <2>4, <1>9
<1>12. \A a \in Mentioned : \A i \in 1..c : names[i] = a => Alias(names, a) = -i
  <2>. SUFFICES ASSUME NEW a \in Mentioned, NEW i \in 1..c, names[i] = a PROVE Alias(names, a) = -i
    OBVIOUS
  <2>1. a \in Range(names)
    BY <1>9 DEF Range
  <2>2. (CHOOSE k \in DOMAIN names : names[k] = a) = i
    BY <1>9, <1>10
  <2>. QED
    BY <2>1, <2>2 DEF Alias
<1>13. ASSUME NEW a \in Mentioned PROVE Alias(names, a) \in Int /\ Alias(names, a) < 0
  <2>1. PICK i \in 1..c : names[i] = a
    BY <1>11
  <2>2. Alias(names, a) = -i
    BY <2>1, <1>12
  <2>. QED
    BY <2>2, <1>8
<1>14. ASSUME NEW a \in Mentioned, NEW b \in Mentioned, Alias(names, a) = Alias(names, b) PROVE a = b
  <2>1. PICK i \in 1..c : names[i] = a
    BY <1>11
  <2>2. PICK j \in 1..c : names[j] = b
    BY <1>11
  <2>3. -i = -j
    BY <2>1, <2>2, <1>12, <1>14
  <2>4. i = j
    BY <2>3, <1>8
  <2>. QED
    BY <2>1, <2>2, <2>4
<1>15. ASSUME NEW i \in DOMAIN r.hosts PROVE Alias(names, r.hosts[i].address) = -i
  <2>1. i \in 1..n /\ r.hosts[i].address \in Mentioned
    BY <1>1
  <2>2. i \in 1..c /\ names[i] = r.hosts[i].address
    BY <2>1, <1>1, <1>5, <1>8, <1>9
  <2>. QED
    BY <2>1, <2>2, <1>12
<1>. HIDE DEF Mentioned
<1>16. /\ \A a \in Mentioned : Alias(names, a) \in Int /\ Alias(names, a) < 0
       /\ \A a, b \in Mentioned : Alias(names, a) = Alias(names, b) => a = b
       /\ \A i \in DOMAIN r.hosts : Alias(names, r.hosts[i].address) = -i
  BY <1>13, <1>14, <1>15
<1>. QED
  BY <1>16 DEF Mentioned, names

NothingSecret(b) == \A i \in DOMAIN b.args : ~b.args[i].secret

\* A receipt that was not redacted tells hosts apart by their addresses.
ToldApart(b) ==
    /\ \A i, j \in DOMAIN b.hosts : b.hosts[i].address = b.hosts[j].address => i = j
    /\ \A k \in DOMAIN b.phases : \A i, j \in DOMAIN b.phases[k].hosts : b.phases[k].hosts[i].host = b.phases[k].hosts[j].host => i = j

\* What AliasesApart says of one that was.
Aliased(b) ==
    /\ \A i \in DOMAIN b.hosts : b.hosts[i].address = -i
    /\ \A k \in DOMAIN b.phases : \A i, j \in DOMAIN b.phases[k].hosts :
          /\ b.phases[k].hosts[i].host < 0 /\ b.phases[k].hosts[i].diffs = 0
          /\ i # j => b.phases[k].hosts[i].host # b.phases[k].hosts[j].host

SoundRecord(b) == b \in RunRecord /\ NothingSecret(b) /\ IF b.redacted THEN Aliased(b) ELSE ToldApart(b)

LEMMA PhasesTyped ==
    ASSUME NEW ledger \in Ledgers
    PROVE  /\ phasesOf(ledger) \in Seq(PhaseEntry)
           /\ \A k \in DOMAIN phasesOf(ledger) : \A i, j \in DOMAIN phasesOf(ledger)[k].hosts :
                 phasesOf(ledger)[k].hosts[i].host = phasesOf(ledger)[k].hosts[j].host => i = j
<1>. DEFINE n == Len(ledger)
            phases == phasesOf(ledger)
<1>1. PICK p \in Bijection(1..n, 1..n) : phases = [i \in 1..n |-> phaseResult(ledger[p[i]])]
  BY EveryPhaseOnce
<1>2. n \in Nat /\ p \in [1..n -> 1..n] /\ DOMAIN ledger = 1..n
  BY HostKnown DEF Bijection, Injection
<1>. HIDE DEF phases, n
<1>3. ASSUME NEW k \in 1..n
      PROVE  /\ phaseResult(ledger[k]) \in PhaseEntry
             /\ \A i, j \in DOMAIN phaseResult(ledger[k]).hosts :
                   phaseResult(ledger[k]).hosts[i].host = phaseResult(ledger[k]).hosts[j].host => i = j
  <2>1. ledger[k] \in PhaseRecord /\ ledger[k].visits \in Seq(HostVisit)
    BY <1>2, HostKnown
  <2>2. /\ HostsChanged(ledger[k].visits) \in Seq(Change)
        /\ \A i, j \in DOMAIN HostsChanged(ledger[k].visits) :
              HostsChanged(ledger[k].visits)[i].host = HostsChanged(ledger[k].visits)[j].host => i = j
    BY <2>1, EntryOfEach
  <2>3. ledger[k].as \in {"ran", "planned", "skipped"} /\ ledger[k].declared \in BOOLEAN
    BY <2>1 DEF PhaseRecord
  <2>4. <<>> \in Seq(Change) /\ DOMAIN <<>> = {}
    OBVIOUS
  <2>5. phaseResult(ledger[k]).hosts = (IF ledger[k].declared THEN HostsChanged(ledger[k].visits) ELSE <<>>)
    BY DEF phaseResult
  <2>6. \A i, j \in DOMAIN phaseResult(ledger[k]).hosts :
            phaseResult(ledger[k]).hosts[i].host = phaseResult(ledger[k]).hosts[j].host => i = j
    BY <2>2, <2>4, <2>5
  <2>7. phaseResult(ledger[k]) \in PhaseEntry
    BY <2>2, <2>3, <2>4 DEF phaseResult, PhaseEntry
  <2>. QED
    BY <2>6, <2>7
<1>4. phases \in Seq(PhaseEntry)
  <2>1. \A i \in 1..n : phaseResult(ledger[p[i]]) \in PhaseEntry
    BY <1>2, <1>3
  <2>. QED
    BY <1>1, <1>2, <2>1
<1>5. \A k \in DOMAIN phases : \A i, j \in DOMAIN phases[k].hosts : phases[k].hosts[i].host = phases[k].hosts[j].host => i = j
  BY <1>1, <1>2, <1>3
<1>. QED
  BY <1>4, <1>5 DEF phases

\* A receipt that is built is sound, and its rows answer for the ledger.
LEMMA BuildSound ==
    ASSUME NEW n \in Nat, NEW ledger \in Ledgers, NEW line \in Lines, NEW reached \in BOOLEAN
    PROVE  LET b == Build(n, ledger, line, reached) IN
           /\ SoundRecord(b) /\ ~b.redacted /\ b.run = n
           /\ reached => Answers(ledger, b)
<1>. DEFINE phases == IF reached THEN phasesOf(ledger) ELSE <<>>
            hosts == IF reached THEN hostsOf(phases) ELSE <<>>
            b == Build(n, ledger, line, reached)
<1>1. b = [redacted |-> FALSE, run |-> n, args |-> redactArgs(line), phases |-> phases, hosts |-> hosts]
  BY DEF Build
<1>2. /\ phases \in Seq(PhaseEntry)
      /\ \A k \in DOMAIN phases : \A i, j \in DOMAIN phases[k].hosts : phases[k].hosts[i].host = phases[k].hosts[j].host => i = j
  <2>1. CASE reached
    BY <2>1, PhasesTyped
  <2>2. CASE ~reached
    BY <2>2
  <2>. QED
    BY <2>1, <2>2
<1>. DEFINE a(i) == ConfiguredAddress(Fleet[i])
<1>3. reached => hosts = [i \in DOMAIN Fleet |-> [address |-> a(i), summary |-> HostSummary(phasesOf(ledger), a(i))]]
  BY DEF hostsOf
<1>4. ASSUME NEW i \in DOMAIN Fleet PROVE a(i) \in Int /\ HostSummary(phasesOf(ledger), a(i)) \in Counts
  <2>1. Fleet[i] \in KnownHosts /\ Fleet[i] \in Machine
    BY FleetKnown
  <2>2. a(i) \in Nat
    BY <2>1, OneAddress
  <2>3. HostSummary(phasesOf(ledger), a(i)) \in Counts
    BY <2>1, SummaryTells
  <2>. QED
    BY <2>2, <2>3
<1>5. hosts \in Seq(HostRow) /\ \A i, j \in DOMAIN hosts : hosts[i].address = hosts[j].address => i = j
  <2>1. CASE reached
    <3>1. DOMAIN Fleet = 1..Len(Fleet) /\ Len(Fleet) \in Nat
      BY FleetKnown
    <3>2. \A i \in DOMAIN Fleet : [address |-> a(i), summary |-> HostSummary(phasesOf(ledger), a(i))] \in HostRow
      BY <1>4 DEF HostRow
    <3>3. \A i, j \in DOMAIN Fleet : a(i) = a(j) => i = j
      BY FleetKnown, OneAddress
    <3>. HIDE DEF a, hosts
    <3>4. hosts \in Seq(HostRow)
      BY <2>1, <1>3, <3>1, <3>2
    <3>. QED
      BY <2>1, <1>3, <3>3, <3>4
  <2>2. CASE ~reached
    BY <2>2
  <2>. QED
    BY <2>1, <2>2
<1>6. redactArgs(line) \in Seq(Argument) /\ \A i \in DOMAIN redactArgs(line) : ~redactArgs(line)[i].secret
  BY ArgsRedacted
<1>. HIDE DEF hosts, phases, b
<1>7. b \in RunRecord
  BY <1>1, <1>2, <1>5, <1>6 DEF RunRecord
<1>8. NothingSecret(b) /\ ~b.redacted /\ b.run = n
  BY <1>1, <1>6 DEF NothingSecret
<1>9. ToldApart(b)
  BY <1>1, <1>2, <1>5 DEF ToldApart
<1>10. ASSUME reached PROVE Answers(ledger, b)
  <2>1. b.hosts = [i \in DOMAIN Fleet |-> [address |-> a(i), summary |-> HostSummary(phasesOf(ledger), a(i))]]
        /\ b.phases = phasesOf(ledger)
    BY <1>1, <1>3, <1>10 DEF phases
  <2>. SUFFICES ASSUME NEW i \in DOMAIN Fleet
       PROVE LET row == b.hosts[i]
                 Of(k) == {v \in Range(ledger[k].visits) : v.host = Fleet[i]}
                 Telling == {k \in DOMAIN ledger : ledger[k].declared}
             IN /\ row.summary.changed <=> \E k \in Telling : \E v \in Of(k) : v.what # "observed"
                /\ row.summary.named = Cardinality({k \in Telling : Of(k) # {}})
                /\ changedCell(row.summary) = "no" => \E k \in Telling : Of(k) # {}
                /\ row.summary.named > 0 =>
                      row.summary.reporting = Len(ledger) - HostsUndeclared(b.phases)
                /\ Len(b.phases) = Len(ledger)
    BY <2>1 DEF Answers
  <2>. DEFINE s == HostSummary(phasesOf(ledger), a(i))
  <2>2. LET Of(k) == {v \in Range(ledger[k].visits) : v.host = Fleet[i]}
            Telling == {k \in DOMAIN ledger : ledger[k].declared}
        IN /\ s \in Counts
           /\ s.changed <=> \E k \in Telling : \E v \in Of(k) : v.what # "observed"
           /\ s.named = Cardinality({k \in Telling : Of(k) # {}})
           /\ s.named > 0 => \E k \in Telling : Of(k) # {}
           /\ s.named > 0 => s.reporting = Len(ledger) - HostsUndeclared(phasesOf(ledger))
           /\ Len(phasesOf(ledger)) = Len(ledger)
    BY FleetKnown, SummaryTells
  <2>3. b.hosts[i].summary = s
    BY <2>1
  <2>. HIDE DEF s
  <2>4. changedCell(s) = "no" => s.named > 0
    BY <2>2 DEF changedCell, Counts
  <2>. QED
    BY <2>1, <2>2, <2>3, <2>4
<1>11. SoundRecord(b)
  BY <1>7, <1>8, <1>9 DEF SoundRecord
<1>. QED
  BY <1>8, <1>10, <1>11 DEF b

LEMMA IsSequence ==
    ASSUME NEW T, NEW n \in Nat, NEW f, f = [i \in 1..n |-> f[i]], \A i \in 1..n : f[i] \in T
    PROVE  f \in Seq(T)
OBVIOUS

\* The copy of a sound receipt is sound.
LEMMA RedactSound ==
    ASSUME NEW r, SoundRecord(r), ~r.redacted
    PROVE  SoundRecord(Redact(r)) /\ Redact(r).redacted
<1>. DEFINE names == hostAliases(r)
            Mentioned == {r.hosts[i].address : i \in DOMAIN r.hosts}
                            \union UNION {{r.phases[k].hosts[j].host : j \in DOMAIN r.phases[k].hosts} : k \in DOMAIN r.phases}
            c == Redact(r)
            rows == [i \in DOMAIN r.hosts |-> [r.hosts[i] EXCEPT !.address = Alias(names, r.hosts[i].address)]]
            entries(k) == [j \in DOMAIN r.phases[k].hosts |->
                              [r.phases[k].hosts[j] EXCEPT !.host = Alias(names, r.phases[k].hosts[j].host), !.diffs = 0]]
            phases == [k \in DOMAIN r.phases |-> [r.phases[k] EXCEPT !.hosts = entries(k)]]
<1>1. r \in RunRecord /\ ToldApart(r)
  BY DEF SoundRecord
<1>2. r.phases \in Seq(PhaseEntry) /\ r.hosts \in Seq(HostRow) /\ r.run \in Nat
      /\ r = [redacted |-> r.redacted, run |-> r.run, args |-> r.args, phases |-> r.phases, hosts |-> r.hosts]
  BY <1>1 DEF RunRecord
<1>3. /\ \A a \in Mentioned : Alias(names, a) \in Int /\ Alias(names, a) < 0
      /\ \A a, b \in Mentioned : Alias(names, a) = Alias(names, b) => a = b
      /\ \A i \in DOMAIN r.hosts : Alias(names, r.hosts[i].address) = -i
  BY <1>1, <1>2, AliasOfEach DEF ToldApart
<1>4. c = [redacted |-> TRUE, run |-> r.run, args |-> <<>>, phases |-> phases, hosts |-> rows]
  <2>1. c = [r EXCEPT !.redacted = TRUE, !.args = <<>>, !.hosts = rows, !.phases = phases]
    BY DEF Redact
  <2>. HIDE DEF rows, phases, c
  <2>. QED
    BY <2>1, <1>1 DEF RunRecord
<1>. HIDE DEF names, c, Mentioned
<1>5. /\ DOMAIN r.hosts = 1..Len(r.hosts) /\ Len(r.hosts) \in Nat /\ \A i \in DOMAIN r.hosts : r.hosts[i] \in HostRow
      /\ DOMAIN r.phases = 1..Len(r.phases) /\ Len(r.phases) \in Nat /\ \A k \in DOMAIN r.phases : r.phases[k] \in PhaseEntry
  BY <1>2
<1>6. \A i \in DOMAIN rows : rows[i] \in HostRow /\ rows[i].address = -i
  <2>. SUFFICES ASSUME NEW i \in DOMAIN r.hosts PROVE rows[i] \in HostRow /\ rows[i].address = -i
    OBVIOUS
  <2>1. Alias(names, r.hosts[i].address) = -i /\ -i \in Int
    BY <1>3, <1>5
  <2>2. r.hosts[i] \in HostRow
    BY <1>5
  <2>. QED
    BY <2>1, <2>2 DEF HostRow
<1>7. \A k \in DOMAIN r.phases : \A j \in DOMAIN r.phases[k].hosts :
         r.phases[k].hosts \in Seq(Change) /\ r.phases[k].hosts[j] \in Change /\ r.phases[k].hosts[j].host \in Mentioned
  <2>. SUFFICES ASSUME NEW k \in DOMAIN r.phases, NEW j \in DOMAIN r.phases[k].hosts
       PROVE  r.phases[k].hosts \in Seq(Change) /\ r.phases[k].hosts[j] \in Change /\ r.phases[k].hosts[j].host \in Mentioned
    OBVIOUS
  <2>1. r.phases[k].hosts \in Seq(Change)
    BY <1>5 DEF PhaseEntry
  <2>2. r.phases[k].hosts[j] \in Change
    BY <2>1
  <2>3. r.phases[k].hosts[j].host \in Mentioned
    BY DEF Mentioned
  <2>. QED
    BY <2>1, <2>2, <2>3
<1>8. ASSUME NEW k \in DOMAIN r.phases
      PROVE  /\ entries(k) \in Seq(Change)
             /\ \A i, j \in DOMAIN entries(k) : /\ entries(k)[i].host < 0 /\ entries(k)[i].diffs = 0
                                                /\ i # j => entries(k)[i].host # entries(k)[j].host
  <2>0. r.phases[k].hosts \in Seq(Change)
    BY <1>5 DEF PhaseEntry
  <2>. DEFINE H == r.phases[k].hosts
  <2>1. H \in Seq(Change) /\ DOMAIN H = 1..Len(H) /\ Len(H) \in Nat
    BY <2>0
  <2>2. \A j \in DOMAIN H : H[j] \in Change /\ Alias(names, H[j].host) \in Int /\ Alias(names, H[j].host) < 0
    BY <1>3, <1>7
  <2>3. \A i, j \in DOMAIN H : Alias(names, H[i].host) = Alias(names, H[j].host) => i = j
    BY <1>1, <1>3, <1>7 DEF ToldApart
  <2>. DEFINE E == entries(k)
  <2>4. E = [j \in DOMAIN H |-> [H[j] EXCEPT !.host = Alias(names, H[j].host), !.diffs = 0]]
    OBVIOUS
  <2>. HIDE DEF H, E
  <2>5. \A j \in DOMAIN H : E[j] \in Change /\ E[j].host = Alias(names, H[j].host) /\ E[j].diffs = 0
    BY <2>2, <2>4 DEF Change
  <2>6. E \in Seq(Change) /\ DOMAIN E = DOMAIN H
    <3>1. DOMAIN E = 1..Len(H) /\ E = [j \in 1..Len(H) |-> E[j]]
      BY <2>1, <2>4
    <3>. QED
      BY <3>1, <2>1, <2>5
  <2>7. \A i, j \in DOMAIN E : E[i].host < 0 /\ E[i].diffs = 0 /\ (i # j => E[i].host # E[j].host)
    BY <2>2, <2>3, <2>5, <2>6
  <2>. QED
    BY <2>6, <2>7 DEF E
<1>. HIDE DEF entries
<1>9. \A k \in DOMAIN r.phases : phases[k] \in PhaseEntry /\ phases[k].hosts = entries(k)
  BY <1>5, <1>8 DEF PhaseEntry
<1>10. rows \in Seq(HostRow)
  <2>1. DOMAIN rows = 1..Len(r.hosts)
    BY <1>5
  <2>. HIDE DEF rows
  <2>2. rows = [i \in 1..Len(r.hosts) |-> rows[i]]
    BY <2>1 DEF rows
  <2>. QED
    BY <1>5, <1>6, <2>1, <2>2, IsSequence
<1>11. phases \in Seq(PhaseEntry)
  <2>1. DOMAIN phases = 1..Len(r.phases)
    BY <1>5
  <2>2. phases = [k \in 1..Len(r.phases) |-> phases[k]]
    BY <2>1
  <2>. HIDE DEF phases
  <2>. QED
    BY <1>5, <1>9, <2>1, <2>2, IsSequence
<1>12. DOMAIN phases = DOMAIN r.phases
  OBVIOUS
<1>. HIDE DEF rows, phases
<1>13. c \in RunRecord
  BY <1>2, <1>4, <1>10, <1>11 DEF RunRecord
<1>14. NothingSecret(c) /\ c.redacted
  BY <1>4 DEF NothingSecret
<1>15. Aliased(c)
  BY <1>4, <1>6, <1>8, <1>9, <1>12 DEF Aliased
<1>. QED
  BY <1>13, <1>14, <1>15 DEF SoundRecord, c

-----------------------------------------------------------------------------
(* Receipts: the invariant. *)

RunEntry == [command : CommandNames, at : 0..MaxClock, path : Templated \union {Literal, NoPath}, said : BOOLEAN, copied : BOOLEAN]

InHandAt(w) == writer[w].pc \in {"open", "write"}
Pending(w) == writer[w].pc \in {"run", "open", "write"} /\ writer[w].n # 0

\* Another run was given the path, or a copy was written over what is there.
Shares(n) == \E m \in DOMAIN history \ {n} : history[m].path = history[n].path
Excused(n) == history[n].copied \/ history[n].path = Literal \/ Shares(n)

\* What a process holds: the record of a run that was not said to be written, or a copy of one.
WriterHolds(w) ==
    \/ writer[w] = Resting
    \/ /\ writer[w] \in [pc : {"run"}, n : DOMAIN history, line : Lines, path : Templated \union {Literal, NoPath}]
       /\ writer[w].path = history[writer[w].n].path /\ ~history[writer[w].n].said
    \/ /\ writer[w] \in [pc : {"open", "write"}, n : DOMAIN history \union {0}, path : ReceiptPaths,
                         ledger : Ledgers \union {<<>>}, body : RunRecord]
       /\ SoundRecord(writer[w].body)
       /\ writer[w].n # 0 =>
             /\ writer[w].path = history[writer[w].n].path /\ ~history[writer[w].n].said
             /\ ~writer[w].body.redacted /\ writer[w].body.run = writer[w].n
             /\ writer[w].ledger # <<>> => Answers(writer[w].ledger, writer[w].body)
             /\ writer[w].pc = "write" => onDisk[writer[w].path].state = "empty" \/ Excused(writer[w].n)
       /\ writer[w].n = 0 =>
             writer[w].path \in {Shared, Literal} \/ \E m \in DOMAIN history : history[m].path = writer[w].path /\ history[m].copied

DiskHolds(x) ==
    /\ onDisk[x].state = "whole" => SoundRecord(onDisk[x].body)
    /\ onDisk[x].state # "none" => x \in {Shared, Literal} \/ \E m \in DOMAIN history : history[m].path = x

TrailOf(n) ==
    history[n].said =>
        /\ history[n].path # NoPath
        /\ \/ Excused(n)
           \/ LET f == onDisk[history[n].path] IN f.state = "whole" /\ f.body.run = n /\ ~f.body.redacted

ReceiptsInv ==
    /\ clock \in 0..MaxClock /\ history \in Seq(RunEntry)
    /\ DOMAIN writer = Writers /\ \A w \in Writers : WriterHolds(w)
    /\ DOMAIN onDisk = ReceiptPaths /\ \A x \in ReceiptPaths : DiskHolds(x)
    /\ \A w, v \in Writers : Pending(w) /\ Pending(v) /\ writer[w].n = writer[v].n => w = v
    /\ \A n \in DOMAIN history : TrailOf(n)

LEMMA PathsApart ==
    /\ Literal # Shared /\ NoPath \notin ReceiptPaths /\ Literal \notin Templated /\ Shared \notin Templated
    /\ MaxClock \in Nat
<1>1. {Literal, Shared, NoPath} \intersect (CommandNames \X Nat) = {} /\ Literal # Shared /\ NoPath \notin {Literal, Shared} /\ MaxClock \in Nat
  BY ReceiptsAssumption
<1>2. Templated \subseteq CommandNames \X Nat
  BY <1>1 DEF Templated
<1>. QED
  BY <1>1, <1>2 DEF ReceiptPaths

LEMMA ReceiptsFromInv == ReceiptsInv => ReceiptsSound
<1>. SUFFICES ASSUME ReceiptsInv PROVE ReceiptsSound
  OBVIOUS
<1>1. ASSUME NEW r \in InHand
      PROVE  SoundRecord(r.body) /\ (r.n # 0 /\ r.ledger # <<>> => Answers(r.ledger, r.body))
  <2>1. PICK w \in Writers : r = writer[w] /\ writer[w].pc \in {"open", "write"}
    BY DEF InHand
  <2>2. WriterHolds(w)
    BY DEF ReceiptsInv
  <2>. QED
    BY <2>1, <2>2 DEF WriterHolds, Resting
<1>2. ASSUME NEW b \in Bodies \union {r.body : r \in InHand} PROVE SoundRecord(b)
  <2>1. CASE b \in Bodies
    <3>1. PICK x \in ReceiptPaths : Read(x) /\ b = onDisk[x].body
      BY <2>1 DEF Bodies
    <3>. QED
      BY <3>1 DEF ReceiptsInv, DiskHolds, Read
  <2>2. CASE b \in {r.body : r \in InHand}
    BY <2>2, <1>1
  <2>. QED
    BY <2>1, <2>2
<1>3. RowsAnswer
  BY <1>1 DEF RowsAnswer
<1>4. NoSecrets
  BY <1>2 DEF NoSecrets, SoundRecord, NothingSecret
<1>5. AliasesApart
  BY <1>2 DEF AliasesApart, SoundRecord, Aliased
<1>6. TrailKept
  BY DEF TrailKept, ReceiptsInv, TrailOf, Excused, Shares
<1>. QED
  BY <1>3, <1>4, <1>5, <1>6 DEF ReceiptsSound

LEMMA ReceiptsInitially == ReceiptsInit => ReceiptsInv
<1>. SUFFICES ASSUME ReceiptsInit PROVE ReceiptsInv
  OBVIOUS
<1>1. clock \in 0..MaxClock /\ history \in Seq(RunEntry) /\ DOMAIN history = {}
  BY PathsApart DEF ReceiptsInit
<1>2. DOMAIN writer = Writers /\ \A w \in Writers : writer[w] = Resting
  BY DEF ReceiptsInit
<1>3. DOMAIN onDisk = ReceiptPaths /\ \A x \in ReceiptPaths : onDisk[x].state = "none"
  BY DEF ReceiptsInit, Nothing
<1>. QED
  BY <1>1, <1>2, <1>3 DEF ReceiptsInv, WriterHolds, DiskHolds, Pending, Resting

\* What each run was given is not forgotten, nor that a copy went over it.
HistoryGrows ==
    /\ DOMAIN history \subseteq DOMAIN history'
    /\ \A n \in DOMAIN history : history'[n].path = history[n].path /\ (history[n].copied => history'[n].copied)

LEMMA HistoryTyped ==
    ASSUME ReceiptsInv
    PROVE  /\ DOMAIN history = 1..Len(history) /\ Len(history) \in Nat
           /\ \A n \in DOMAIN history : history[n] \in RunEntry /\ history[n].path \in Templated \union {Literal, NoPath}
<1>1. DOMAIN history = 1..Len(history) /\ Len(history) \in Nat /\ \A n \in DOMAIN history : history[n] \in RunEntry
  BY DEF ReceiptsInv
<1>. QED
  BY <1>1 DEF RunEntry

LEMMA ExcusedStays ==
    ASSUME HistoryGrows, NEW n \in DOMAIN history, Excused(n)
    PROVE  Excused(n)'
BY DEF HistoryGrows, Excused, Shares

\* A process that takes no part in a step holds what it held.
LEMMA OthersHold ==
    ASSUME ReceiptsInv, HistoryGrows, NEW w \in Writers, writer'[w] = writer[w],
           Pending(w) => ~history'[writer[w].n].said,
           writer[w].pc = "write" /\ writer[w].n # 0 =>
               \/ onDisk'[writer[w].path] = onDisk[writer[w].path]
               \/ onDisk'[writer[w].path].state = "empty"
               \/ Excused(writer[w].n)
    PROVE  WriterHolds(w)'
<1>. DEFINE r == writer[w]
<1>0. WriterHolds(w)
  BY DEF ReceiptsInv
<1>1. CASE r = Resting
  BY <1>1 DEF WriterHolds
<1>2. CASE /\ r \in [pc : {"run"}, n : DOMAIN history, line : Lines, path : Templated \union {Literal, NoPath}]
           /\ r.path = history[r.n].path /\ ~history[r.n].said
  <2>1. r.n # 0 /\ r.pc = "run" /\ r.n \in DOMAIN history
    BY <1>2, HistoryTyped
  <2>2. r.path = history'[r.n].path /\ ~history'[r.n].said
    BY <1>2, <2>1 DEF HistoryGrows, Pending
  <2>3. r \in [pc : {"run"}, n : DOMAIN history', line : Lines, path : Templated \union {Literal, NoPath}]
    BY <1>2 DEF HistoryGrows
  <2>. QED
    BY <2>2, <2>3 DEF WriterHolds
<1>3. CASE /\ r \in [pc : {"open", "write"}, n : DOMAIN history \union {0}, path : ReceiptPaths,
                     ledger : Ledgers \union {<<>>}, body : RunRecord]
           /\ SoundRecord(r.body)
           /\ r.n # 0 =>
                 /\ r.path = history[r.n].path /\ ~history[r.n].said
                 /\ ~r.body.redacted /\ r.body.run = r.n
                 /\ r.ledger # <<>> => Answers(r.ledger, r.body)
                 /\ r.pc = "write" => onDisk[r.path].state = "empty" \/ Excused(r.n)
           /\ r.n = 0 =>
                 r.path \in {Shared, Literal} \/ \E m \in DOMAIN history : history[m].path = r.path /\ history[m].copied
  <2>. HIDE DEF r
  <2>0. r = writer[w] /\ r' = r
    BY DEF r
  <2>1. r \in [pc : {"open", "write"}, n : DOMAIN history' \union {0}, path : ReceiptPaths, ledger : Ledgers \union {<<>>}, body : RunRecord]
    BY <1>3 DEF HistoryGrows
  <2>2. ASSUME r.n # 0
        PROVE  /\ r.path = history'[r.n].path /\ ~history'[r.n].said
               /\ ~r.body.redacted /\ r.body.run = r.n
               /\ r.ledger # <<>> => Answers(r.ledger, r.body)
               /\ r.pc = "write" => onDisk'[r.path].state = "empty" \/ Excused(r.n)'
    <3>1. r.n \in DOMAIN history /\ r.pc \in {"open", "write"}
      BY <1>3, <2>2
    <3>2. r.path = history'[r.n].path /\ ~history'[r.n].said
      BY <1>3, <2>0, <2>2, <3>1 DEF HistoryGrows, Pending
    <3>3. Excused(r.n) => Excused(r.n)'
      BY <3>1, <2>0, ExcusedStays
    <3>4. r.pc = "write" => onDisk'[r.path].state = "empty" \/ Excused(r.n)'
      BY <1>3, <2>0, <2>2, <3>3
    <3>. QED
      BY <1>3, <2>2, <3>2, <3>4
  <2>3. r.n = 0 => r.path \in {Shared, Literal} \/ \E m \in DOMAIN history' : history'[m].path = r.path /\ history'[m].copied
    BY <1>3 DEF HistoryGrows
  <2>4. writer'[w] = r
    BY <2>0
  <2>5. Answers(r.ledger, r.body) => Answers(writer[w].ledger, writer[w].body)'
    BY <2>4
  <2>6. Excused(r.n)' => Excused(writer[w].n)'
    BY <2>0, <2>4
  <2>. QED
    BY <1>3, <2>1, <2>2, <2>3, <2>4, <2>5, <2>6 DEF WriterHolds
<1>. QED
  BY <1>0, <1>1, <1>2, <1>3 DEF WriterHolds

LEMMA DiskStays ==
    ASSUME ReceiptsInv, HistoryGrows, NEW x \in ReceiptPaths, onDisk'[x] = onDisk[x]
    PROVE  DiskHolds(x)'
BY DEF ReceiptsInv, HistoryGrows, DiskHolds

\* Who is about to write where a run's receipt is writes its own, or over one that is excused.
LEMMA FitToWrite ==
    ASSUME ReceiptsInv, NEW w \in Writers, InHandAt(w), NEW n \in DOMAIN history,
           history[n].path = writer[w].path, n # writer[w].n
    PROVE  Excused(n)
<1>1. WriterHolds(w) /\ writer[w] # Resting /\ writer[w].pc # "run"
  BY DEF ReceiptsInv, InHandAt, Resting
<1>2. /\ writer[w].n \in DOMAIN history \union {0}
      /\ writer[w].n # 0 => writer[w].path = history[writer[w].n].path
      /\ writer[w].n = 0 =>
             writer[w].path \in {Shared, Literal} \/ \E m \in DOMAIN history : history[m].path = writer[w].path /\ history[m].copied
  BY <1>1 DEF WriterHolds
<1>3. CASE writer[w].n # 0
  BY <1>2, <1>3 DEF Excused, Shares
<1>4. CASE writer[w].n = 0 /\ writer[w].path \in {Shared, Literal}
  <2>1. history[n].path # Shared
    BY HistoryTyped, PathsApart DEF ReceiptPaths
  <2>. QED
    BY <1>4, <2>1 DEF Excused
<1>5. CASE \E m \in DOMAIN history : history[m].path = writer[w].path /\ history[m].copied
  BY <1>5 DEF Excused, Shares
<1>. QED
  BY <1>2, <1>3, <1>4, <1>5

LEMMA StartKeeps == ASSUME ReceiptsInv, NEW w \in Writers, startReceipt(w) PROVE ReceiptsInv'
<1>. DEFINE k == Len(history) + 1
<1>0. PICK c \in CommandNames, setting \in Settings, line \in Lines :
          /\ history' = Append(history, [command |-> c, at |-> clock, path |-> expandReceiptPath(setting, c), said |-> FALSE, copied |-> FALSE])
          /\ Becomes(w, [pc |-> "run", n |-> k, line |-> line, path |-> expandReceiptPath(setting, c)])
  BY DEF startReceipt
<1>. DEFINE path == expandReceiptPath(setting, c)
            entry == [command |-> c, at |-> clock, path |-> path, said |-> FALSE, copied |-> FALSE]
<1>1. writer[w].pc = "rest" /\ UNCHANGED <<clock, onDisk>> /\ clock \in 0..MaxClock /\ history \in Seq(RunEntry)
  BY DEF startReceipt, ReceiptsInv
<1>2. DOMAIN history = 1..Len(history) /\ Len(history) \in Nat
  BY HistoryTyped
<1>3. path \in Templated \union {Literal, NoPath}
  <2>1. <<c, clock>> \in Templated
    BY <1>1 DEF Templated
  <2>. QED
    BY <2>1 DEF expandReceiptPath
<1>. HIDE DEF path
<1>4. entry \in RunEntry
  BY <1>1, <1>3 DEF RunEntry
<1>5. history' = Append(history, entry)
  BY <1>0 DEF path
<1>6. /\ history' \in Seq(RunEntry) /\ DOMAIN history' = 1..k /\ k \in Nat /\ k \notin DOMAIN history
      /\ history'[k] = entry /\ \A n \in DOMAIN history : history'[n] = history[n]
  <2>. HIDE DEF entry
  <2>1. history' \in Seq(RunEntry) /\ Len(history') = k
    BY <1>1, <1>4, <1>5
  <2>2. history'[k] = entry /\ \A n \in 1..Len(history) : history'[n] = history[n]
    BY <1>1, <1>2, <1>5
  <2>. QED
    BY <2>1, <2>2, <1>2
<1>7. HistoryGrows
  BY <1>2, <1>6 DEF HistoryGrows
<1>8. writer' = [writer EXCEPT ![w] = [pc |-> "run", n |-> k, line |-> line, path |-> path]] /\ DOMAIN writer = Writers
  BY <1>0 DEF Becomes, path, ReceiptsInv
<1>9. \A v \in Writers : WriterHolds(v)'
  <2>1. WriterHolds(w)'
    BY <1>3, <1>6, <1>8 DEF WriterHolds
  <2>2. ASSUME NEW v \in Writers, v # w PROVE WriterHolds(v)'
    <3>1. writer'[v] = writer[v]
      BY <1>8, <2>2
    <3>2. WriterHolds(v)
      BY DEF ReceiptsInv
    <3>3. Pending(v) => writer[v].n \in DOMAIN history /\ ~history[writer[v].n].said
      BY <3>2 DEF WriterHolds, Pending, Resting
    <3>4. Pending(v) => ~history'[writer[v].n].said
      BY <3>3, <1>6
    <3>. QED
      BY <3>1, <3>4, <1>1, <1>7, OthersHold
  <2>. QED
    BY <2>1, <2>2
<1>10. \A x \in ReceiptPaths : DiskHolds(x)'
  BY <1>1, <1>7, DiskStays
<1>11. \A v \in Writers : Pending(v) => writer[v].n \in DOMAIN history
  BY DEF ReceiptsInv, WriterHolds, Pending, Resting
<1>12. ASSUME NEW u \in Writers, NEW v \in Writers, Pending(u)', Pending(v)', writer'[u].n = writer'[v].n PROVE u = v
  <2>1. \A z \in Writers : z # w => writer'[z] = writer[z]
    BY <1>8
  <2>2. \A z \in Writers : z # w /\ Pending(z)' => Pending(z) /\ writer'[z].n # k
    BY <2>1, <1>6, <1>11 DEF Pending
  <2>3. writer'[w].n = k
    BY <1>8
  <2>. QED
    BY <1>12, <2>1, <2>2, <2>3 DEF ReceiptsInv
<1>13. ASSUME NEW n \in DOMAIN history' PROVE TrailOf(n)'
  <2>1. CASE n = k
    BY <2>1, <1>6 DEF TrailOf
  <2>2. CASE n # k
    <3>1. n \in DOMAIN history
      BY <2>2, <1>2, <1>6
    <3>2. TrailOf(n) /\ (Excused(n) => Excused(n)') /\ history'[n] = history[n] /\ onDisk' = onDisk
      BY <3>1, <1>1, <1>6, <1>7, ExcusedStays DEF ReceiptsInv
    <3>. QED
      BY <3>2 DEF TrailOf
  <2>. QED
    BY <2>1, <2>2
<1>14. DOMAIN writer' = Writers /\ DOMAIN onDisk' = ReceiptPaths /\ clock' \in 0..MaxClock
  BY <1>1, <1>8 DEF ReceiptsInv
<1>. QED
  BY <1>6, <1>9, <1>10, <1>12, <1>13, <1>14 DEF ReceiptsInv

LEMMA FinishKeeps == ASSUME ReceiptsInv, NEW w \in Writers, finish(w) PROVE ReceiptsInv'
<1>0. PICK ledger \in Ledgers, reached \in BOOLEAN :
        Becomes(w, IF writer[w].path = NoPath THEN Resting
                   ELSE [pc |-> "open", n |-> writer[w].n, path |-> writer[w].path,
                         ledger |-> IF reached THEN ledger ELSE <<>>,
                         body |-> Build(writer[w].n, ledger, writer[w].line, reached)])
  BY DEF finish
<1>. DEFINE r == writer[w]
            body == Build(r.n, ledger, r.line, reached)
            next == [pc |-> "open", n |-> r.n, path |-> r.path, ledger |-> IF reached THEN ledger ELSE <<>>, body |-> body]
<1>1. r.pc = "run" /\ UNCHANGED <<clock, onDisk, history>>
  BY DEF finish
<1>2. /\ r.n \in DOMAIN history /\ r.line \in Lines /\ r.path \in Templated \union {Literal, NoPath}
      /\ r.path = history[r.n].path /\ ~history[r.n].said /\ r.n \in Nat \ {0}
  <2>1. WriterHolds(w) /\ DOMAIN history = 1..Len(history) /\ Len(history) \in Nat
    BY HistoryTyped DEF ReceiptsInv
  <2>2. r # Resting /\ r.pc \notin {"open", "write"}
    BY <1>1 DEF Resting
  <2>3. /\ r.n \in DOMAIN history /\ r.line \in Lines /\ r.path \in Templated \union {Literal, NoPath}
        /\ r.path = history[r.n].path /\ ~history[r.n].said
    BY <2>1, <2>2 DEF WriterHolds
  <2>. QED
    BY <2>1, <2>3
<1>3. SoundRecord(body) /\ ~body.redacted /\ body.run = r.n /\ (reached => Answers(ledger, body))
  <2>. HIDE DEF r
  <2>. QED
    BY <1>2, BuildSound
<1>4. writer' = [writer EXCEPT ![w] = IF r.path = NoPath THEN Resting ELSE next] /\ DOMAIN writer = Writers
  BY <1>0 DEF Becomes, ReceiptsInv
<1>. HIDE DEF body
<1>5. HistoryGrows
  BY <1>1 DEF HistoryGrows
<1>6. WriterHolds(w)'
  <2>1. CASE r.path = NoPath
    BY <2>1, <1>4 DEF WriterHolds
  <2>2. CASE r.path # NoPath
    <3>1. writer'[w] = next
      BY <2>2, <1>4
    <3>2. next \in [pc : {"open", "write"}, n : DOMAIN history \union {0}, path : ReceiptPaths, ledger : Ledgers \union {<<>>}, body : RunRecord]
      BY <2>2, <1>2, <1>3 DEF ReceiptPaths, SoundRecord
    <3>3. next.ledger # <<>> => Answers(next.ledger, next.body)
      BY <1>3
    <3>4. /\ next.n # 0 /\ next.pc # "write" /\ SoundRecord(next.body) /\ next.path = history[next.n].path /\ ~history[next.n].said
          /\ ~next.body.redacted /\ next.body.run = next.n
      BY <1>2, <1>3
    <3>. HIDE DEF next
    <3>. QED
      BY <3>1, <3>2, <3>3, <3>4, <1>1 DEF WriterHolds
  <2>. QED
    BY <2>1, <2>2
<1>7. ASSUME NEW v \in Writers, v # w PROVE WriterHolds(v)'
  <2>1. writer'[v] = writer[v]
    BY <1>4, <1>7
  <2>2. Pending(v) => ~history'[writer[v].n].said
    BY <1>1 DEF ReceiptsInv, WriterHolds, Pending, Resting
  <2>. QED
    BY <2>1, <2>2, <1>1, <1>5, OthersHold
<1>8. \A x \in ReceiptPaths : DiskHolds(x)'
  BY <1>1, <1>5, DiskStays
<1>9. ASSUME NEW u \in Writers, NEW v \in Writers, Pending(u)', Pending(v)', writer'[u].n = writer'[v].n PROVE u = v
  <2>1. \A z \in Writers : Pending(z)' => Pending(z) /\ writer'[z].n = writer[z].n
    <3>. SUFFICES ASSUME NEW z \in Writers, Pending(z)' PROVE Pending(z) /\ writer'[z].n = writer[z].n
      OBVIOUS
    <3>1. CASE z = w
      BY <3>1, <1>1, <1>2, <1>4 DEF Pending, Resting
    <3>2. CASE z # w
      BY <3>2, <1>4 DEF Pending
    <3>. QED
      BY <3>1, <3>2
  <2>. QED
    BY <1>9, <2>1 DEF ReceiptsInv
<1>10. ASSUME NEW n \in DOMAIN history' PROVE TrailOf(n)'
  BY <1>1 DEF ReceiptsInv, TrailOf, Excused, Shares
<1>11. DOMAIN writer' = Writers /\ DOMAIN onDisk' = ReceiptPaths /\ clock' \in 0..MaxClock /\ history' \in Seq(RunEntry)
  BY <1>1, <1>4 DEF ReceiptsInv
<1>. QED
  BY <1>6, <1>7, <1>8, <1>9, <1>10, <1>11 DEF ReceiptsInv

LEMMA TickKeeps == ASSUME ReceiptsInv, Tick PROVE ReceiptsInv'
<1>1. clock' \in 0..MaxClock /\ UNCHANGED <<writer, onDisk, history>>
  BY PathsApart DEF Tick, ReceiptsInv
<1>2. HistoryGrows
  BY <1>1 DEF HistoryGrows
<1>3. ASSUME NEW v \in Writers PROVE WriterHolds(v)'
  <2>1. Pending(v) => ~history'[writer[v].n].said
    BY <1>1 DEF ReceiptsInv, WriterHolds, Pending, Resting
  <2>. QED
    BY <2>1, <1>1, <1>2, OthersHold
<1>4. \A x \in ReceiptPaths : DiskHolds(x)'
  BY <1>1, <1>2, DiskStays
<1>5. \A n \in DOMAIN history' : TrailOf(n)'
  BY <1>1 DEF ReceiptsInv, TrailOf, Excused, Shares
<1>6. \A u, v \in Writers : Pending(u)' /\ Pending(v)' /\ writer'[u].n = writer'[v].n => u = v
  BY <1>1 DEF ReceiptsInv, Pending
<1>. QED
  BY <1>1, <1>3, <1>4, <1>5, <1>6 DEF ReceiptsInv

LEMMA LetGoKeeps ==
    ASSUME ReceiptsInv, NEW w \in Writers, writer' = [writer EXCEPT ![w] = Resting], UNCHANGED <<clock, onDisk, history>>
    PROVE  ReceiptsInv'
<1>1. HistoryGrows
  BY DEF HistoryGrows
<1>2. DOMAIN writer = Writers /\ writer'[w] = Resting /\ \A v \in Writers : v # w => writer'[v] = writer[v]
  BY DEF ReceiptsInv
<1>3. WriterHolds(w)'
  BY <1>2 DEF WriterHolds
<1>4. ASSUME NEW v \in Writers, v # w PROVE WriterHolds(v)'
  <2>1. Pending(v) => ~history'[writer[v].n].said
    BY DEF ReceiptsInv, WriterHolds, Pending, Resting
  <2>. QED
    BY <2>1, <1>1, <1>2, <1>4, OthersHold
<1>5. \A x \in ReceiptPaths : DiskHolds(x)'
  BY <1>1, DiskStays
<1>6. \A n \in DOMAIN history' : TrailOf(n)'
  BY DEF ReceiptsInv, TrailOf, Excused, Shares
<1>7. ASSUME NEW u \in Writers, NEW v \in Writers, Pending(u)', Pending(v)', writer'[u].n = writer'[v].n PROVE u = v
  <2>1. \A z \in Writers : Pending(z)' => Pending(z) /\ writer'[z] = writer[z]
    BY <1>2 DEF Pending, Resting
  <2>. QED
    BY <1>7, <2>1 DEF ReceiptsInv
<1>8. DOMAIN writer' = Writers /\ DOMAIN onDisk' = ReceiptPaths /\ clock' \in 0..MaxClock /\ history' \in Seq(RunEntry)
  BY DEF ReceiptsInv
<1>. QED
  BY <1>3, <1>4, <1>5, <1>6, <1>7, <1>8 DEF ReceiptsInv

\* Where a process opens or writes, the receipts of the other runs are kept or excused.
LEMMA OverItOnly ==
    ASSUME ReceiptsInv, HistoryGrows, NEW w \in Writers, InHandAt(w), NEW n \in DOMAIN history, n # writer[w].n,
           history'[n].said = history[n].said, \A x \in ReceiptPaths : x # writer[w].path => onDisk'[x] = onDisk[x]
    PROVE  TrailOf(n)'
<1>1. TrailOf(n) /\ history'[n].path = history[n].path /\ history[n].path \in ReceiptPaths \union {NoPath}
  BY HistoryTyped DEF ReceiptsInv, HistoryGrows, ReceiptPaths
<1>2. CASE Excused(n)
  BY <1>1, <1>2, ExcusedStays DEF TrailOf
<1>3. CASE ~Excused(n)
  <2>1. history[n].path # writer[w].path
    BY <1>3, FitToWrite
  <2>. QED
    BY <1>1, <1>3, <2>1 DEF TrailOf
<1>. QED
  BY <1>2, <1>3

\* Where a process opens or writes, only its own receipt, or one that is excused, is lost.
LEMMA OpenKeeps == ASSUME ReceiptsInv, NEW w \in Writers, Open(w) PROVE ReceiptsInv'
<1>. DEFINE r == writer[w]
            p == writer[w].path
<1>1. r.pc = "open" /\ UNCHANGED <<clock, history>> /\ DOMAIN writer = Writers /\ DOMAIN onDisk = ReceiptPaths
  BY DEF Open, ReceiptsInv
<1>2. HistoryGrows
  BY <1>1 DEF HistoryGrows
<1>3. WriterHolds(w) /\ r # Resting /\ r.pc # "run" /\ InHandAt(w)
  BY <1>1 DEF ReceiptsInv, InHandAt, Resting
<1>4. CASE Becomes(w, Resting) /\ UNCHANGED onDisk
  <2>1. writer' = [writer EXCEPT ![w] = Resting]
    BY <1>4 DEF Becomes
  <2>. QED
    BY <2>1, <1>1, <1>4, LetGoKeeps
<1>5. CASE /\ Becomes(w, [writer[w] EXCEPT !.pc = "write"])
           /\ onDisk' = [onDisk EXCEPT ![writer[w].path] = [state |-> "empty", body |-> <<>>]]
  <2>0. r \in [pc : {"open", "write"}, n : DOMAIN history \union {0}, path : ReceiptPaths, ledger : Ledgers \union {<<>>}, body : RunRecord]
    BY <1>3 DEF WriterHolds
  <2>. DEFINE next == [r EXCEPT !.pc = "write"]
  <2>1. writer' = [writer EXCEPT ![w] = next]
    BY <1>5 DEF Becomes
  <2>2. p \in ReceiptPaths /\ onDisk'[p] = [state |-> "empty", body |-> <<>>] /\ \A x \in ReceiptPaths : x # p => onDisk'[x] = onDisk[x]
    BY <2>0, <1>1, <1>5
  <2>3. /\ next \in [pc : {"open", "write"}, n : DOMAIN history \union {0}, path : ReceiptPaths, ledger : Ledgers \union {<<>>}, body : RunRecord]
        /\ next.n = r.n /\ next.path = r.path /\ next.ledger = r.ledger /\ next.body = r.body /\ next.pc = "write"
    BY <2>0
  <2>4. Answers(r.ledger, r.body) => Answers(next.ledger, next.body)
    BY <2>3
  <2>. HIDE DEF next
  <2>5. WriterHolds(w)'
    <3>1. writer'[w] = next
      BY <2>1, <1>1
    <3>2. /\ SoundRecord(next.body)
          /\ next.n # 0 =>
                /\ next.path = history[next.n].path /\ ~history[next.n].said
                /\ ~next.body.redacted /\ next.body.run = next.n
                /\ next.ledger # <<>> => Answers(next.ledger, next.body)
          /\ next.n = 0 =>
                next.path \in {Shared, Literal} \/ \E m \in DOMAIN history : history[m].path = next.path /\ history[m].copied
      BY <2>3, <2>4, <1>3 DEF WriterHolds
    <3>3. onDisk'[next.path].state = "empty"
      BY <2>2, <2>3
    <3>. QED
      BY <3>1, <3>2, <3>3, <2>3, <1>1 DEF WriterHolds
  <2>6. ASSUME NEW v \in Writers, v # w PROVE WriterHolds(v)'
    <3>1. writer'[v] = writer[v]
      BY <2>1, <2>6
    <3>2. Pending(v) => ~history'[writer[v].n].said
      BY <1>1 DEF ReceiptsInv, WriterHolds, Pending, Resting
    <3>3. writer[v].pc = "write" => onDisk'[writer[v].path] = onDisk[writer[v].path] \/ onDisk'[writer[v].path].state = "empty"
      <4>1. writer[v].pc = "write" => writer[v].path \in ReceiptPaths
        BY DEF ReceiptsInv, WriterHolds, Resting
      <4>. QED
        BY <4>1, <2>2
    <3>. QED
      BY <3>1, <3>2, <3>3, <1>2, OthersHold
  <2>7. ASSUME NEW x \in ReceiptPaths PROVE DiskHolds(x)'
    <3>1. CASE x # p
      BY <3>1, <2>2, <1>2, DiskStays
    <3>2. CASE x = p
      <4>1. x \in {Shared, Literal} \/ \E m \in DOMAIN history : history[m].path = x
        BY <3>2, <1>3, <2>0 DEF WriterHolds
      <4>. QED
        BY <3>2, <4>1, <2>2, <1>1 DEF DiskHolds
    <3>. QED
      BY <3>1, <3>2
  <2>8. ASSUME NEW u \in Writers, NEW v \in Writers, Pending(u)', Pending(v)', writer'[u].n = writer'[v].n PROVE u = v
    <3>1. \A z \in Writers : Pending(z)' => Pending(z) /\ writer'[z].n = writer[z].n
      BY <2>1, <2>3, <1>1 DEF Pending
    <3>. QED
      BY <2>8, <3>1 DEF ReceiptsInv
  <2>9. ASSUME NEW n \in DOMAIN history' PROVE TrailOf(n)'
    <3>1. CASE n = r.n
      <4>1. ~history[n].said
        BY <3>1, <1>1, <1>3, HistoryTyped DEF WriterHolds
      <4>. QED
        BY <4>1, <1>1 DEF TrailOf
    <3>2. CASE n # r.n
      BY <3>2, <2>2, <1>1, <1>2, <1>3, OverItOnly
    <3>. QED
      BY <3>1, <3>2
  <2>. QED
    BY <2>1, <2>5, <2>6, <2>7, <2>8, <2>9, <1>1, <1>5 DEF ReceiptsInv
<1>. QED
  BY <1>4, <1>5 DEF Open

LEMMA WriteKeeps == ASSUME ReceiptsInv, NEW w \in Writers, Write(w) PROVE ReceiptsInv'
<1>. DEFINE r == writer[w]
            p == writer[w].path
            Partial == [state |-> "garbled", body |-> <<>>]
            Whole == [state |-> "whole", body |-> r.body]
<1>1. r.pc = "write" /\ UNCHANGED clock /\ DOMAIN writer = Writers /\ DOMAIN onDisk = ReceiptPaths
  BY DEF Write, ReceiptsInv
<1>2. WriterHolds(w) /\ r # Resting /\ r.pc # "run" /\ InHandAt(w)
  BY <1>1 DEF ReceiptsInv, InHandAt, Resting
<1>3. /\ r \in [pc : {"open", "write"}, n : DOMAIN history \union {0}, path : ReceiptPaths, ledger : Ledgers \union {<<>>}, body : RunRecord]
      /\ SoundRecord(r.body)
      /\ r.n # 0 => /\ r.path = history[r.n].path /\ ~history[r.n].said /\ ~r.body.redacted /\ r.body.run = r.n
                    /\ onDisk[r.path].state = "empty" \/ Excused(r.n)
      /\ p \in {Shared, Literal} \/ \E m \in DOMAIN history : history[m].path = p
  BY <1>1, <1>2 DEF WriterHolds
<1>4. /\ writer' = [writer EXCEPT ![w] = Resting]
      /\ \/ onDisk' = [onDisk EXCEPT ![p] = Partial] /\ history' = history
         \/ \E whole \in IF onDisk[p].state = "empty" THEN {TRUE} ELSE BOOLEAN :
               /\ onDisk' = [onDisk EXCEPT ![p] = IF whole THEN Whole ELSE Partial]
               /\ history' = IF r.n = 0 THEN history ELSE [history EXCEPT ![r.n].said = TRUE]
  BY DEF Write, Becomes
<1>5. p \in ReceiptPaths /\ (r.n = 0 \/ r.n \in DOMAIN history) /\ DOMAIN history = 1..Len(history) /\ Len(history) \in Nat
  BY <1>3, HistoryTyped
<1>6. \/ history' = history
      \/ r.n # 0 /\ history' = [history EXCEPT ![r.n].said = TRUE] /\ (onDisk'[p] = Whole \/ onDisk[p].state # "empty")
  BY <1>1, <1>4, <1>5
<1>7. (onDisk'[p] = Whole \/ onDisk'[p] = Partial) /\ (\A x \in ReceiptPaths : x # p => onDisk'[x] = onDisk[x]) /\ DOMAIN onDisk' = ReceiptPaths
  BY <1>1, <1>4, <1>5
<1>. HIDE DEF r, p, Partial, Whole
<1>8. /\ history' \in Seq(RunEntry) /\ DOMAIN history' = DOMAIN history
      /\ \A n \in DOMAIN history : history'[n].path = history[n].path /\ history'[n].copied = history[n].copied
      /\ \A n \in DOMAIN history : n # r.n => history'[n] = history[n]
  <2>0. history \in Seq(RunEntry) /\ \A n \in DOMAIN history : history[n] \in RunEntry
    BY HistoryTyped DEF ReceiptsInv
  <2>1. CASE history' = history
    BY <2>0, <2>1
  <2>2. CASE r.n # 0 /\ history' = [history EXCEPT ![r.n].said = TRUE]
    <3>1. r.n \in DOMAIN history
      BY <2>2, <1>5
    <3>2. /\ DOMAIN history' = DOMAIN history /\ \A n \in DOMAIN history : n # r.n => history'[n] = history[n]
          /\ history'[r.n] = [history[r.n] EXCEPT !.said = TRUE]
      BY <2>2, <3>1
    <3>3. history'[r.n] \in RunEntry /\ history'[r.n].path = history[r.n].path /\ history'[r.n].copied = history[r.n].copied
      BY <2>0, <3>1, <3>2 DEF RunEntry
    <3>4. \A n \in DOMAIN history : history'[n] \in RunEntry
      BY <2>0, <3>2, <3>3
    <3>5. history' = [n \in 1..Len(history) |-> history'[n]]
      BY <2>2, <1>5
    <3>6. history' \in Seq(RunEntry)
      BY <3>4, <3>5, <1>5, IsSequence
    <3>. QED
      BY <3>2, <3>3, <3>6
  <2>. QED
    BY <2>1, <2>2, <1>6
<1>9. HistoryGrows
  BY <1>8 DEF HistoryGrows
<1>10. DOMAIN writer' = Writers /\ writer'[w] = Resting /\ \A v \in Writers : v # w => writer'[v] = writer[v]
  BY <1>1, <1>4
<1>11. WriterHolds(w)'
  BY <1>10 DEF WriterHolds
<1>12. ASSUME NEW v \in Writers, v # w PROVE WriterHolds(v)'
  <2>1. Pending(v) => writer[v].n \in DOMAIN history /\ ~history[writer[v].n].said
    BY DEF ReceiptsInv, WriterHolds, Pending, Resting
  <2>2. Pending(v) => writer[v].n # r.n
    <3>. SUFFICES ASSUME Pending(v), writer[v].n = r.n PROVE FALSE
      OBVIOUS
    <3>1. Pending(w)
      BY <2>1, <1>1 DEF Pending, r
    <3>. QED
      BY <3>1, <1>12 DEF ReceiptsInv, r
  <2>3. Pending(v) => ~history'[writer[v].n].said
    BY <2>1, <2>2, <1>8
  <2>4. ASSUME writer[v].pc = "write", writer[v].n # 0
        PROVE  onDisk'[writer[v].path] = onDisk[writer[v].path] \/ Excused(writer[v].n)
    <3>1. Pending(v) /\ WriterHolds(v) /\ writer[v] # Resting
      BY <2>4 DEF Pending, Resting, ReceiptsInv
    <3>2. writer[v].path \in ReceiptPaths /\ writer[v].path = history[writer[v].n].path
      BY <3>1, <2>4 DEF WriterHolds
    <3>3. CASE writer[v].path = p
      BY <3>1, <3>2, <3>3, <2>1, <2>2, <1>2, FitToWrite DEF r, p
    <3>4. CASE writer[v].path # p
      BY <3>2, <3>4, <1>7
    <3>. QED
      BY <3>3, <3>4
  <2>5. writer'[v] = writer[v]
    BY <1>10, <1>12
  <2>. QED
    BY <2>3, <2>4, <2>5, <1>9, OthersHold
<1>13. ASSUME NEW x \in ReceiptPaths PROVE DiskHolds(x)'
  <2>1. CASE x # p
    BY <2>1, <1>7, <1>9, DiskStays
  <2>2. CASE x = p
    <3>1. x \in {Shared, Literal} \/ \E m \in DOMAIN history' : history'[m].path = x
      BY <2>2, <1>3, <1>8
    <3>2. onDisk'[x].state = "whole" => SoundRecord(onDisk'[x].body)
      BY <2>2, <1>3, <1>7 DEF Whole, Partial
    <3>. QED
      BY <3>1, <3>2 DEF DiskHolds
  <2>. QED
    BY <2>1, <2>2
<1>14. ASSUME NEW u \in Writers, NEW v \in Writers, Pending(u)', Pending(v)', writer'[u].n = writer'[v].n PROVE u = v
  <2>1. \A z \in Writers : Pending(z)' => Pending(z) /\ writer'[z] = writer[z]
    BY <1>10 DEF Pending, Resting
  <2>. QED
    BY <1>14, <2>1 DEF ReceiptsInv
<1>15. ASSUME NEW n \in DOMAIN history PROVE TrailOf(n)'
  <2>1. CASE n # r.n
    BY <2>1, <1>2, <1>7, <1>8, <1>9, OverItOnly DEF r, p
  <2>2. CASE n = r.n
    <3>1. r.n # 0 /\ p = history[n].path /\ history'[n].path = p /\ p # NoPath /\ ~history[n].said /\ ~r.body.redacted /\ r.body.run = n
      BY <2>2, <1>3, <1>5, <1>8, PathsApart DEF p, r
    <3>2. CASE history' = history
      BY <3>1, <3>2 DEF TrailOf
    <3>3. CASE onDisk'[p] = Whole
      BY <3>1, <3>3 DEF TrailOf, Whole
    <3>4. CASE onDisk[p].state # "empty"
      <4>1. Excused(n)
        BY <3>1, <3>4, <2>2, <1>3 DEF p, r
      <4>2. Excused(n)'
        BY <4>1, <1>9, ExcusedStays
      <4>. QED
        BY <3>1, <4>2 DEF TrailOf
    <3>. QED
      BY <3>2, <3>3, <3>4, <1>6
  <2>. QED
    BY <2>1, <2>2
<1>16. clock' \in 0..MaxClock
  BY <1>1 DEF ReceiptsInv
<1>. QED
  BY <1>7, <1>8, <1>10, <1>11, <1>12, <1>13, <1>14, <1>15, <1>16 DEF ReceiptsInv

LEMMA RedactKeeps == ASSUME ReceiptsInv, NEW w \in Writers, redactReceipt(w) PROVE ReceiptsInv'
<1>0. PICK x \in ReceiptPaths, out \in {Shared, Literal} :
        /\ Read(x) /\ ~onDisk[x].body.redacted
        /\ Becomes(w, [pc |-> "open", n |-> 0, path |-> IF out = Shared THEN Shared ELSE x, ledger |-> <<>>,
                       body |-> Redact(onDisk[x].body)])
        /\ history' = [n \in DOMAIN history |->
               IF out # Shared /\ history[n].path = x THEN [history[n] EXCEPT !.copied = TRUE] ELSE history[n]]
  BY DEF redactReceipt
<1>. DEFINE copy == Redact(onDisk[x].body)
            next == [pc |-> "open", n |-> 0, path |-> IF out = Shared THEN Shared ELSE x, ledger |-> <<>>, body |-> copy]
<1>1. writer[w].pc = "rest" /\ UNCHANGED <<clock, onDisk>> /\ DOMAIN writer = Writers
  BY DEF redactReceipt, ReceiptsInv
<1>2. SoundRecord(copy)
  <2>1. SoundRecord(onDisk[x].body)
    BY <1>0 DEF ReceiptsInv, DiskHolds, Read
  <2>. QED
    BY <2>1, <1>0, RedactSound
<1>3. x \in {Shared, Literal} \/ \E m \in DOMAIN history : history[m].path = x
  BY <1>0 DEF ReceiptsInv, DiskHolds, Read
<1>4. writer' = [writer EXCEPT ![w] = next]
  BY <1>0 DEF Becomes
<1>. HIDE DEF copy
<1>5. DOMAIN history = 1..Len(history) /\ Len(history) \in Nat /\ \A n \in DOMAIN history : history[n] \in RunEntry
  BY HistoryTyped
<1>6. DOMAIN history' = DOMAIN history /\ \A n \in DOMAIN history :
         /\ history'[n] \in RunEntry /\ history'[n].path = history[n].path /\ history'[n].said = history[n].said
         /\ history[n].copied => history'[n].copied
         /\ out # Shared /\ history[n].path = x => history'[n].copied
  <2>. SUFFICES ASSUME NEW n \in DOMAIN history
       PROVE  /\ history'[n] \in RunEntry /\ history'[n].path = history[n].path /\ history'[n].said = history[n].said
              /\ history[n].copied => history'[n].copied
              /\ out # Shared /\ history[n].path = x => history'[n].copied
    BY <1>0
  <2>1. CASE out # Shared /\ history[n].path = x
    <3>1. history'[n] = [history[n] EXCEPT !.copied = TRUE]
      BY <1>0, <2>1
    <3>. QED
      BY <3>1, <1>5 DEF RunEntry
  <2>2. CASE ~(out # Shared /\ history[n].path = x)
    <3>1. history'[n] = history[n]
      BY <1>0, <2>2
    <3>. QED
      BY <3>1, <2>2, <1>5
  <2>. QED
    BY <2>1, <2>2
<1>7. history' \in Seq(RunEntry)
  <2>1. history' = [n \in 1..Len(history) |-> history'[n]]
    <3>1. history' = [n \in DOMAIN history' |-> history'[n]]
      BY <1>0
    <3>. QED
      BY <3>1, <1>5, <1>6
  <2>. QED
    BY <2>1, <1>5, <1>6, IsSequence
<1>8. HistoryGrows
  BY <1>6 DEF HistoryGrows
<1>9. WriterHolds(w)'
  <2>1. writer'[w] = next
    BY <1>1, <1>4
  <2>2. next.path \in ReceiptPaths /\ next.n = 0 /\ next.pc = "open" /\ SoundRecord(next.body)
    BY <1>0, <1>2 DEF ReceiptPaths
  <2>3. next \in [pc : {"open", "write"}, n : DOMAIN history' \union {0}, path : ReceiptPaths, ledger : Ledgers \union {<<>>}, body : RunRecord]
    BY <2>2, <1>2 DEF SoundRecord
  <2>4. next.path \in {Shared, Literal} \/ \E m \in DOMAIN history' : history'[m].path = next.path /\ history'[m].copied
    BY <1>3, <1>6
  <2>. HIDE DEF next
  <2>. QED
    BY <2>1, <2>2, <2>3, <2>4 DEF WriterHolds
<1>10. ASSUME NEW v \in Writers, v # w PROVE WriterHolds(v)'
  <2>1. writer'[v] = writer[v]
    BY <1>1, <1>4, <1>10
  <2>2. Pending(v) => writer[v].n \in DOMAIN history /\ ~history[writer[v].n].said
    BY DEF ReceiptsInv, WriterHolds, Pending, Resting
  <2>3. Pending(v) => ~history'[writer[v].n].said
    BY <2>2, <1>6
  <2>. QED
    BY <2>1, <2>3, <1>1, <1>8, OthersHold
<1>11. \A y \in ReceiptPaths : DiskHolds(y)'
  BY <1>1, <1>8, DiskStays
<1>12. ASSUME NEW u \in Writers, NEW v \in Writers, Pending(u)', Pending(v)', writer'[u].n = writer'[v].n PROVE u = v
  <2>1. ASSUME NEW z \in Writers, Pending(z)' PROVE Pending(z) /\ writer'[z] = writer[z]
    <3>1. CASE z = w
      BY <3>1, <2>1, <1>1, <1>4 DEF Pending
    <3>2. CASE z # w
      BY <3>2, <2>1, <1>1, <1>4 DEF Pending
    <3>. QED
      BY <3>1, <3>2
  <2>. QED
    BY <1>12, <2>1 DEF ReceiptsInv
<1>13. ASSUME NEW n \in DOMAIN history' PROVE TrailOf(n)'
  <2>1. n \in DOMAIN history /\ TrailOf(n) /\ (Excused(n) => Excused(n)')
    BY <1>6, <1>8, ExcusedStays DEF ReceiptsInv
  <2>2. history'[n].path = history[n].path /\ history'[n].said = history[n].said /\ onDisk' = onDisk
    BY <2>1, <1>1, <1>6
  <2>. QED
    BY <2>1, <2>2 DEF TrailOf
<1>14. DOMAIN writer' = Writers /\ DOMAIN onDisk' = ReceiptPaths /\ clock' \in 0..MaxClock
  BY <1>1, <1>4 DEF ReceiptsInv
<1>. QED
  BY <1>7, <1>9, <1>10, <1>11, <1>12, <1>13, <1>14 DEF ReceiptsInv

LEMMA ReceiptsKept == ReceiptsInv /\ [ReceiptsNext]_receiptVars => ReceiptsInv'
<1>. SUFFICES ASSUME ReceiptsInv, [ReceiptsNext]_receiptVars PROVE ReceiptsInv'
  OBVIOUS
<1>1. ASSUME NEW w \in Writers, startReceipt(w) \/ finish(w) \/ Open(w) \/ Write(w) \/ redactReceipt(w) PROVE ReceiptsInv'
  BY <1>1, StartKeeps, FinishKeeps, OpenKeeps, WriteKeeps, RedactKeeps
<1>2. CASE UNCHANGED receiptVars
  BY <1>2 DEF receiptVars, ReceiptsInv, WriterHolds, DiskHolds, TrailOf, Excused, Shares, Pending
<1>. QED
  BY <1>1, <1>2, TickKeeps DEF ReceiptsNext

\* The rows of a receipt answer for what the run did, no secret of its command line is in it, a copy of it
\* names no host and tells all apart, and a receipt that was said to be written stays as it was, unless its
\* path was given to another run or a copy put over it.  For every fleet, command line and sequence of phases.
THEOREM ReceiptsStaySound == ReceiptsSpec => []ReceiptsSound
<1>1. ReceiptsInit => ReceiptsInv
  BY ReceiptsInitially
<1>2. ReceiptsInv /\ [ReceiptsNext]_receiptVars => ReceiptsInv'
  BY ReceiptsKept
<1>3. ReceiptsInv => ReceiptsSound
  BY ReceiptsFromInv
<1>. QED
  BY <1>1, <1>2, <1>3, PTL DEF ReceiptsSpec
=============================================================================
