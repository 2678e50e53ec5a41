--------------------------- MODULE HostLockProofs ---------------------------
(* What HostLock guarantees for every number of processes and hosts, every *)
(* timing and every fault the model admits.                                *)
EXTENDS HostLock, TLAPS

\* Unless h's lock is forfeited, h has one holder, the holder's file is there,
\* and it does not carry another process's ID.
HolderOf(h) ==
    ~forfeited[h] =>
        \A i \in Instances : Holds(i, h) =>
            /\ content[h] # Absent
            /\ \A j \in Instances : content[h] = j \/ Holds(j, h) => j = i

OneHolder == \A h \in Hosts : HolderOf(h)

\* A process that works has a live ticker on every host.
WorkerTicks ==
    \A i \in Instances : Working(i) => \A h \in Hosts : pc[i][h] = "ticking"

\* The inductive strengthening of ExclusiveUnlessForfeited.
LockInv == TypeOK /\ OneHolder /\ WorkerTicks

-----------------------------------------------------------------------------
\* The helper every failed try ends with keeps the goroutine's variables typed.
LEMMA RefuseType ==
    ASSUME TypeOK, NEW i \in Instances, NEW h \in Hosts, Refuse(i, h)
    PROVE  /\ attempts' \in [Instances -> [Hosts -> Nat]]
           /\ timer' \in [Instances -> [Hosts -> Nat]]
           /\ pc' \in [Instances -> [Hosts -> PCs]]
           /\ \E label \in {"wait", "refused"} : Goto(i, h, label)
  <1>1. attempts' \in [Instances -> [Hosts -> Nat]]
    BY DEF Refuse, TypeOK
  <1>2. \E label \in {"wait", "refused"} : Goto(i, h, label)
    BY DEF Refuse
  <1>3. pc' \in [Instances -> [Hosts -> PCs]]
    BY <1>2 DEF Goto, TypeOK, PCs
  <1>4. timer' \in [Instances -> [Hosts -> Nat]]
    <2>1. RetryEvery \in Nat
      BY HostLockAssumption
    <2>2. timer' = timer \/ timer' = [timer EXCEPT ![i][h] = RetryEvery]
      BY DEF Refuse
    <2>3. CASE timer' = timer
      BY <2>3 DEF TypeOK
    <2>4. CASE timer' = [timer EXCEPT ![i][h] = RetryEvery]
      BY <2>1, <2>4 DEF TypeOK
    <2> QED  BY <2>2, <2>3, <2>4
  <1> QED  BY <1>1, <1>2, <1>3, <1>4

\* Moving one goroutine leaves every other one where it is.
LEMMA GotoFrame ==
    ASSUME TypeOK, NEW i \in Instances, NEW h \in Hosts, NEW label, Goto(i, h, label)
    PROVE  /\ pc'[i][h] = label
           /\ \A j \in Instances : \A k \in Hosts :
                 (j # i \/ k # h) => pc'[j][k] = pc[j][k]
  BY DEF Goto, TypeOK

LEMMA GotoType ==
    ASSUME TypeOK, NEW i \in Instances, NEW h \in Hosts, NEW label \in PCs,
           Goto(i, h, label)
    PROVE  pc' \in [Instances -> [Hosts -> PCs]]
  BY DEF Goto, TypeOK

LEMMA SetFileType ==
    ASSUME TypeOK, NEW h \in Hosts, NEW c \in Contents, SetFile(h, c)
    PROVE  content' \in [Hosts -> Contents] /\ age' \in [Hosts -> 0..StaleAfter]
  BY HostLockAssumption DEF SetFile, TypeOK

LEMMA ContinueType ==
    ASSUME TypeOK, NEW i \in Instances, NEW h \in Hosts, NEW label \in PCs,
           Continue(i, h, label)
    PROVE  /\ attempts' \in [Instances -> [Hosts -> Nat]]
           /\ timer' \in [Instances -> [Hosts -> Nat]]
           /\ pc' \in [Instances -> [Hosts -> PCs]]
  <1>1. pc' \in [Instances -> [Hosts -> PCs]]
    BY GotoType DEF Continue
  <1> QED  BY <1>1 DEF Continue, TypeOK

\* A step of tryLock keeps the types.
LEMMA TryLockType ==
    ASSUME TypeOK, NEW i \in Instances, NEW h \in Hosts, TryLockStep(i, h)
    PROVE  TypeOK'
  <1> DEFINE Moved == /\ attempts' \in [Instances -> [Hosts -> Nat]]
                      /\ timer' \in [Instances -> [Hosts -> Nat]]
                      /\ pc' \in [Instances -> [Hosts -> PCs]]
             File == content' \in [Hosts -> Contents] /\ age' \in [Hosts -> 0..StaleAfter]
             Step(label) == Refuse(i, h) \/ Continue(i, h, label)
  <1>1. ASSUME NEW label \in PCs, Step(label)  PROVE Moved
    <2>1. CASE Refuse(i, h)
      BY <2>1, RefuseType
    <2>2. CASE Continue(i, h, label)
      BY <2>2, ContinueType
    <2> QED  BY <1>1, <2>1, <2>2
  <1>2. ASSUME NEW c \in Contents, FileUnchanged \/ SetFile(h, c)  PROVE File
    <2>1. CASE FileUnchanged
      BY <2>1 DEF FileUnchanged, TypeOK
    <2>2. CASE SetFile(h, c)
      BY <2>2, SetFileType
    <2> QED  BY <1>2, <2>1, <2>2
  <1>3. FileUnchanged => File
    BY DEF FileUnchanged, TypeOK
  <1>c. /\ {"open", "install", "write", "undo", "stat", "read", "remove",
            "locked", "refused"} \subseteq PCs
        /\ {Absent, Empty, Other, i} \subseteq Contents
    BY DEF PCs, InFlight, Contents
  <1> HIDE DEF Moved, File
  <1>4. CASE OpenFile(i, h)
    <2>1. Moved /\ File
      BY <1>4, <1>1, <1>3, <1>c DEF OpenFile
    <2> QED  BY <1>4, <2>1 DEF OpenFile, TypeOK, Moved, File
  <1>5. CASE OpenNew(i, h)
    <2>1. Moved
      BY <1>5, <1>1, <1>c DEF OpenNew
    <2>2. File
      BY <1>5, <1>2, <1>3, <1>c DEF OpenNew
    <2>3. forfeited' \in [Hosts -> BOOLEAN]
      <3>1. CASE forfeited' = forfeited
        BY <3>1 DEF TypeOK
      <3>2. CASE forfeited' = [forfeited EXCEPT ![h] = @ \/ content[h] # Absent]
        BY <3>2 DEF TypeOK
      <3> QED  BY <1>5, <3>1, <3>2 DEF OpenNew
    <2> QED  BY <1>5, <2>1, <2>2, <2>3 DEF OpenNew, TypeOK, Moved, File
  <1>6. CASE WriteId(i, h)
    <2>1. Moved
      BY <1>6, <1>1, <1>c DEF WriteId
    <2>2. File
      BY <1>6, <1>2, <1>3, <1>c DEF WriteId, Overwrite
    <2> QED  BY <1>6, <2>1, <2>2 DEF WriteId, TypeOK, Moved, File
  <1>7. CASE UndoWrite(i, h)
    <2>1. Moved /\ File
      BY <1>7, <1>1, <1>2, <1>3, <1>c DEF UndoWrite
    <2> QED  BY <1>7, <2>1 DEF UndoWrite, TypeOK, Moved, File
  <1>8. CASE Stat(i, h)
    <2>1. Moved /\ File
      BY <1>8, <1>1, <1>3, <1>c DEF Stat
    <2>2. statAge' \in [Instances -> [Hosts -> 0..StaleAfter]]
      <3>1. CASE statAge' = statAge
        BY <3>1 DEF TypeOK
      <3>2. CASE statAge' = [statAge EXCEPT ![i][h] = age[h]]
        BY <3>2 DEF TypeOK
      <3> QED  BY <1>8, <3>1, <3>2 DEF Stat
    <2> QED  BY <1>8, <2>1, <2>2 DEF Stat, TypeOK, Moved, File
  <1>9. CASE Read(i, h)
    <2>1. Moved /\ File
      BY <1>9, <1>1, <1>3, <1>c DEF Read
    <2>2. statAge' \in [Instances -> [Hosts -> 0..StaleAfter]]
      BY <1>9, HostLockAssumption DEF Read, TypeOK
    <2> QED  BY <1>9, <2>1, <2>2 DEF Read, TypeOK, Moved, File
  <1>10. CASE Remove(i, h)
    <2>1. Moved
      BY <1>10, <1>1, <1>c DEF Remove
    <2>2. File
      BY <1>10, <1>2, <1>3, <1>c DEF Remove
    <2>3. forfeited' \in [Hosts -> BOOLEAN]
      <3>1. CASE forfeited' = forfeited
        BY <3>1 DEF TypeOK
      <3>2. CASE forfeited' = [forfeited EXCEPT ![h] = TRUE]
        BY <3>2 DEF TypeOK
      <3> QED  BY <1>10, <3>1, <3>2 DEF Remove
    <2> QED  BY <1>10, <2>1, <2>2, <2>3 DEF Remove, TypeOK, Moved, File
  <1>11. CASE Retry(i, h)
    <2>1. Moved
      BY <1>11, <1>1, <1>c DEF Retry
    <2> QED  BY <1>11, <2>1 DEF Retry, TypeOK, Moved
  <1> QED  BY <1>4, <1>5, <1>6, <1>7, <1>8, <1>9, <1>10, <1>11 DEF TryLockStep

LEMMA TypeInit == Init => TypeOK
  BY HostLockAssumption DEF Init, TypeOK, Contents, Statuses, PCs

LEMMA GoneType ==
    ASSUME TypeOK, NEW i \in Instances, NEW st \in Statuses, Gone(i, st)
    PROVE  TypeOK'
  BY DEF Gone, TypeOK, PCs

LEMMA TypeStep == TypeOK /\ [Next]_vars => TypeOK'
  <1> SUFFICES ASSUME TypeOK, [Next]_vars  PROVE TypeOK'
    OBVIOUS
  <1>1. ASSUME NEW i \in Instances, Start(i)  PROVE TypeOK'
    BY <1>1 DEF Start, TypeOK, Statuses, PCs, InFlight
  <1>2. ASSUME NEW i \in Instances, NEW h \in Hosts, TryLockStep(i, h)  PROVE TypeOK'
    BY <1>2, TryLockType
  <1>3. ASSUME NEW i \in Instances, NEW h \in Hosts, Touch(i, h)  PROVE TypeOK'
    <2>1. timer' \in [Instances -> [Hosts -> Nat]]
      <3>1. TouchEvery \in Nat
        BY HostLockAssumption
      <3> QED  BY <1>3, <3>1 DEF Touch, TypeOK
    <2>2. content' \in [Hosts -> Contents] /\ age' \in [Hosts -> 0..StaleAfter]
      <3>1. CASE FileUnchanged
        BY <3>1 DEF FileUnchanged, TypeOK
      <3>2. CASE SetFile(h, IF content[h] = Absent THEN Empty ELSE content[h])
        <4>1. (IF content[h] = Absent THEN Empty ELSE content[h]) \in Contents
          BY DEF TypeOK, Contents
        <4> QED  BY <3>2, <4>1, SetFileType
      <3> QED  BY <1>3, <3>1, <3>2 DEF Touch
    <2> QED  BY <1>3, <2>1, <2>2 DEF Touch, TypeOK
  <1>4. ASSUME NEW i \in Instances, NEW h \in Hosts, Release(i, h)  PROVE TypeOK'
    <2>1. pc' \in [Instances -> [Hosts -> PCs]]
      <3>1. "released" \in PCs
        BY DEF PCs
      <3> QED  BY <1>4, <3>1, GotoType DEF Release
    <2>2. content' \in [Hosts -> Contents] /\ age' \in [Hosts -> 0..StaleAfter]
      <3>1. CASE FileUnchanged
        BY <3>1 DEF FileUnchanged, TypeOK
      <3>2. CASE SetFile(h, Absent)
        <4>1. Absent \in Contents
          BY DEF Contents
        <4> QED  BY <3>2, <4>1, SetFileType
      <3> QED  BY <1>4, <3>1, <3>2 DEF Release
    <2> QED  BY <1>4, <2>1, <2>2 DEF Release, TypeOK
  <1>5. ASSUME NEW i \in Instances, StartTickers(i)  PROVE TypeOK'
    <2>1. TouchEvery \in Nat
      BY HostLockAssumption
    <2>2. timer' \in [Instances -> [Hosts -> Nat]]
      BY <1>5, <2>1 DEF StartTickers, TypeOK
    <2> QED  BY <1>5, <2>2 DEF StartTickers, TypeOK, Statuses, PCs
  <1>6. ASSUME NEW i \in Instances, FailLocking(i) \/ FailRun(i) \/ Crash(i)
        PROVE TypeOK'
    <2>1. {"failed", "crashed"} \subseteq Statuses
      BY DEF Statuses
    <2> QED  BY <1>6, <2>1, GoneType DEF FailLocking, FailRun, Crash
  <1>7. ASSUME NEW i \in Instances, Unlocked(i) \/ Unlock(i) \/ Interrupt(i)
        PROVE TypeOK'
    <2>1. CASE Unlocked(i)
      BY <2>1 DEF Unlocked, TypeOK, Statuses
    <2>2. CASE Unlock(i)
      BY <2>2 DEF Unlock, TypeOK, Statuses
    <2>3. CASE Interrupt(i)
      BY <2>3 DEF Interrupt, TypeOK
    <2> QED  BY <1>7, <2>1, <2>2, <2>3
  <1>8. CASE Tick
    <2>1. \A n \in 0..StaleAfter : Older(n) \in 0..StaleAfter
      BY HostLockAssumption DEF Older
    <2>2. \A n \in Nat : Sooner(n) \in Nat
      BY DEF Sooner
    <2>3. age' \in [Hosts -> 0..StaleAfter]
      BY <1>8, <2>1 DEF Tick, TypeOK
    <2>4. statAge' \in [Instances -> [Hosts -> 0..StaleAfter]]
      BY <1>8, <2>1 DEF Tick, TypeOK
    <2>5. timer' \in [Instances -> [Hosts -> Nat]]
      BY <1>8, <2>2 DEF Tick, TypeOK
    <2> QED  BY <1>8, <2>3, <2>4, <2>5 DEF Tick, TypeOK
  <1>9. CASE UNCHANGED vars
    BY <1>9 DEF vars, TypeOK
  <1> QED  BY <1>1, <1>2, <1>3, <1>4, <1>5, <1>6, <1>7, <1>8, <1>9
           DEF Next, InstanceStep

\* The variables of the lock protocol keep their types, whatever the processes,
\* the hosts and the timing.
THEOREM TypeCorrect == Spec => []TypeOK
  BY TypeInit, TypeStep, PTL DEF Spec

-----------------------------------------------------------------------------
\* OneHolder is a statement about each host, so a step on host h has to be
\* looked at for h alone: what it says of the others is unchanged.
LEMMA HolderFrame ==
    ASSUME NEW k \in Hosts, HolderOf(k), content'[k] = content[k],
           forfeited[k] => forfeited'[k],
           \A j \in Instances : Holds(j, k)' => Holds(j, k)
    PROVE  HolderOf(k)'
  BY DEF HolderOf

\* A failed try makes nobody a holder.
LEMMA RefuseHolds ==
    ASSUME TypeOK, NEW i \in Instances, NEW h \in Hosts, Refuse(i, h)
    PROVE  /\ ~Holds(i, h)'
           /\ \A j \in Instances : j # i => Holds(j, h)' = Holds(j, h)
  <1>1. PICK label \in {"wait", "refused"} : Goto(i, h, label)
    BY RefuseType
  <1> QED  BY <1>1, GotoFrame DEF Holds

\* Continuing makes only i a holder, if anybody.
LEMMA ContinueHolds ==
    ASSUME TypeOK, NEW i \in Instances, NEW h \in Hosts, NEW label,
           Continue(i, h, label)
    PROVE  /\ Holds(i, h)' = (label \in {"write", "undo", "locked", "ticking"})
           /\ \A j \in Instances : j # i => Holds(j, h)' = Holds(j, h)
  BY GotoFrame DEF Continue, Holds

\* A step of tryLock on h leaves every other host's lock alone.
LEMMA TryLockElsewhere ==
    ASSUME TypeOK, NEW i \in Instances, NEW h \in Hosts, TryLockStep(i, h),
           NEW k \in Hosts, k # h
    PROVE  /\ content'[k] = content[k]
           /\ forfeited'[k] = forfeited[k]
           /\ \A j \in Instances : pc'[j][k] = pc[j][k]
  <1>1. content'[k] = content[k]
    BY DEF TryLockStep, OpenFile, OpenNew, WriteId, UndoWrite, Stat, Read, Remove,
           Retry, SetFile, FileUnchanged, TypeOK
  <1>2. forfeited'[k] = forfeited[k]
    BY DEF TryLockStep, OpenFile, OpenNew, WriteId, UndoWrite, Stat, Read, Remove,
           Retry, TypeOK
  <1>3. \E label \in PCs : Goto(i, h, label)
    BY DEF TryLockStep, OpenFile, OpenNew, WriteId, UndoWrite, Stat, Read, Remove,
           Retry, Refuse, Continue, PCs, InFlight
  <1> QED  BY <1>1, <1>2, <1>3, GotoFrame

\* A step of tryLock keeps the host's single holder.
LEMMA TryLockHolder ==
    ASSUME TypeOK, NEW i \in Instances, NEW h \in Hosts, HolderOf(h), TryLockStep(i, h)
    PROVE  HolderOf(h)'
  <1> DEFINE NotHolding == {"install", "stat", "read", "remove", "open", "refused"}
             Drops == Refuse(i, h) \/ \E label \in NotHolding : Continue(i, h, label)
             Keeps == \E label \in {"write", "undo", "locked"} : Continue(i, h, label)
  <1>1. ASSUME Drops  PROVE \A j \in Instances : Holds(j, h)' => j # i /\ Holds(j, h)
    <2>1. CASE Refuse(i, h)
      BY <2>1, RefuseHolds
    <2>2. ASSUME NEW label \in NotHolding, Continue(i, h, label)
          PROVE  \A j \in Instances : Holds(j, h)' => j # i /\ Holds(j, h)
      BY <2>2, ContinueHolds
    <2> QED  BY <1>1, <2>1, <2>2
  <1>2. ASSUME Keeps  PROVE \A j \in Instances : Holds(j, h)' => j = i \/ Holds(j, h)
    BY <1>2, ContinueHolds
  <1> HIDE DEF Drops, Keeps
  \* Nobody new holds and the file is as it was.
  <1>3. ASSUME content' = content, forfeited' = forfeited, Drops  PROVE HolderOf(h)'
    BY <1>1, <1>3, HolderFrame
  \* i held before, so it is the only holder, and it stops holding.
  <1>4. ASSUME Holds(i, h), forfeited' = forfeited, Drops  PROVE HolderOf(h)'
    BY <1>1, <1>4 DEF HolderOf
  \* i held before, goes on holding, and the file stays or becomes i's.
  <1>5. ASSUME Holds(i, h), forfeited' = forfeited, Keeps,
               content'[h] \in {content[h], i, Other}
        PROVE  HolderOf(h)'
    <2>1. Other # Absent /\ Other \notin Instances /\ Absent \notin Instances
      BY HostLockAssumption
    <2> QED  BY <1>2, <1>5, <2>1 DEF HolderOf
  <1>6. CASE OpenFile(i, h)
    <2>1. Drops
      BY <1>6 DEF OpenFile, Drops
    <2> QED  BY <1>3, <1>6, <2>1 DEF OpenFile, FileUnchanged
  <1>7. CASE OpenNew(i, h)
    <2>1. CASE SetFile(h, Empty) /\ (forfeited' = [forfeited EXCEPT ![h] = @ \/ content[h] # Absent])
               /\ (Keeps \/ Drops)
      <3>1. SUFFICES ASSUME ~forfeited'[h]  PROVE HolderOf(h)'
        BY DEF HolderOf
      <3>2. ~forfeited[h] /\ content[h] = Absent
        BY <2>1, <3>1 DEF TypeOK
      <3>3. \A j \in Instances : ~Holds(j, h)
        BY <3>2 DEF HolderOf
      <3>4. \A j \in Instances : Holds(j, h)' => j = i
        BY <1>1, <1>2, <2>1, <3>3
      <3>5. content'[h] = Empty
        BY <2>1 DEF SetFile, TypeOK
      <3>6. Empty # Absent /\ Empty \notin Instances
        BY HostLockAssumption
      <3> QED  BY <3>4, <3>5, <3>6 DEF HolderOf
    <2>2. CASE FileUnchanged /\ forfeited' = forfeited /\ Drops
      BY <1>3, <2>2 DEF FileUnchanged
    <2> QED  BY <1>7, <2>1, <2>2 DEF OpenNew, Drops, Keeps
  <1>8. CASE WriteId(i, h)
    <2>1. Holds(i, h) /\ forfeited' = forfeited
      BY <1>8 DEF WriteId, Holds
    <2>2. Keeps
      BY <1>8 DEF WriteId, Keeps
    <2>3. content'[h] \in {content[h], i, Other}
      BY <1>8 DEF WriteId, Overwrite, SetFile, FileUnchanged, TypeOK
    <2> QED  BY <1>5, <2>1, <2>2, <2>3
  <1>9. CASE UndoWrite(i, h)
    BY <1>4, <1>9 DEF UndoWrite, Holds, Drops
  <1>10. CASE Stat(i, h)
    <2>1. Drops
      BY <1>10 DEF Stat, Drops
    <2> QED  BY <1>3, <1>10, <2>1 DEF Stat, FileUnchanged
  <1>11. CASE Read(i, h)
    <2>1. content' = content /\ forfeited' = forfeited
      BY <1>11 DEF Read, FileUnchanged
    <2>2. CASE Drops
      BY <1>3, <2>1, <2>2
    <2>3. CASE content[h] = i /\ Keeps
      <3>1. Absent \notin Instances
        BY HostLockAssumption
      <3> QED  BY <1>2, <2>1, <2>3, <3>1 DEF HolderOf
    <2> QED  BY <1>11, <2>2, <2>3 DEF Read, Drops, Keeps
  <1>12. CASE Remove(i, h)
    <2>1. CASE forfeited' = [forfeited EXCEPT ![h] = TRUE]
      BY <2>1 DEF HolderOf, TypeOK
    <2>2. CASE FileUnchanged /\ forfeited' = forfeited /\ Drops
      BY <1>3, <2>2 DEF FileUnchanged
    <2> QED  BY <1>12, <2>1, <2>2 DEF Remove, Drops
  <1>13. CASE Retry(i, h)
    <2>1. Drops
      BY <1>13 DEF Retry, Drops
    <2> QED  BY <1>3, <1>13, <2>1 DEF Retry
  <1> QED
    BY <1>6, <1>7, <1>8, <1>9, <1>10, <1>11, <1>12, <1>13 DEF TryLockStep

\* The other steps of a process keep the single holder of every host.
LEMMA HolderStep == LockInv /\ [Next]_vars => OneHolder'
  <1> SUFFICES ASSUME LockInv, [Next]_vars, NEW k \in Hosts  PROVE HolderOf(k)'
    BY DEF OneHolder
  <1>0. TypeOK /\ HolderOf(k)
    BY DEF LockInv, OneHolder
  <1>1. ASSUME NEW i \in Instances, NEW h \in Hosts, TryLockStep(i, h)
        PROVE  HolderOf(k)'
    <2>1. CASE k = h
      BY <1>0, <1>1, <2>1, TryLockHolder
    <2>2. CASE k # h
      BY <1>0, <1>1, <2>2, TryLockElsewhere, HolderFrame DEF Holds
    <2> QED  BY <2>1, <2>2
  <1>2. ASSUME NEW i \in Instances, NEW h \in Hosts, Touch(i, h)  PROVE HolderOf(k)'
    <2>1. pc' = pc /\ forfeited' = forfeited
      BY <1>2 DEF Touch
    <2>2. \A j \in Instances : Holds(j, k)' <=> Holds(j, k)
      BY <2>1 DEF Holds
    <2>3. content'[k] = content[k] \/ (content[k] = Absent /\ content'[k] = Empty)
      BY <1>0, <1>2 DEF Touch, SetFile, FileUnchanged, TypeOK
    <2>4. Empty # Absent /\ Empty \notin Instances
      BY HostLockAssumption
    <2> QED  BY <1>0, <2>1, <2>2, <2>3, <2>4 DEF HolderOf
  <1>3. ASSUME NEW i \in Instances, NEW h \in Hosts, Release(i, h)  PROVE HolderOf(k)'
    <2>1. \A j \in Instances : Holds(j, k)' => Holds(j, k) /\ (j # i \/ k # h)
      BY <1>0, <1>3, GotoFrame DEF Release, Holds
    <2>2. forfeited' = forfeited
      BY <1>3 DEF Release
    <2>3. CASE k = h
      <3>1. Holds(i, h)
        BY <1>3 DEF Release, Holds
      <3> QED  BY <1>0, <2>1, <2>2, <2>3, <3>1 DEF HolderOf
    <2>4. CASE k # h
      <3>1. content'[k] = content[k]
        BY <1>0, <1>3, <2>4 DEF Release, SetFile, FileUnchanged, TypeOK
      <3> QED  BY <1>0, <2>1, <2>2, <3>1, HolderFrame
    <2> QED  BY <2>3, <2>4
  <1>4. ASSUME NEW i \in Instances, StartTickers(i)  PROVE HolderOf(k)'
    <2>1. \A j \in Instances : Holds(j, k)' => Holds(j, k)
      BY <1>0, <1>4 DEF StartTickers, Holds, TypeOK
    <2> QED  BY <1>0, <1>4, <2>1, HolderFrame DEF StartTickers
  <1>5. ASSUME NEW i \in Instances, NEW st, Gone(i, st)  PROVE HolderOf(k)'
    <2>1. \A j \in Instances : Holds(j, k)' => Holds(j, k)
      BY <1>0, <1>5 DEF Gone, Holds, TypeOK
    <2> QED  BY <1>0, <1>5, <2>1, HolderFrame DEF Gone
  <1>6. ASSUME NEW i \in Instances, Start(i)  PROVE HolderOf(k)'
    <2>1. \A j \in Instances : Holds(j, k)' => Holds(j, k)
      BY <1>0, <1>6 DEF Start, Holds, TypeOK
    <2> QED  BY <1>0, <1>6, <2>1, HolderFrame DEF Start
  <1>7. ASSUME UNCHANGED <<content, pc, forfeited>>  PROVE HolderOf(k)'
    BY <1>0, <1>7 DEF HolderOf, Holds
  <1> QED  BY <1>1, <1>2, <1>3, <1>4, <1>5, <1>6, <1>7
           DEF Next, InstanceStep, FailLocking, FailRun, Crash, Unlock, Unlocked,
               Interrupt, Tick, vars

\* A working process keeps its tickers: only Unlock, the end of the process and
\* an interrupt take them away, and none of them leaves it working.
LEMMA WorkerStep == LockInv /\ [Next]_vars => WorkerTicks'
  <1> SUFFICES ASSUME LockInv, [Next]_vars, NEW w \in Instances, Working(w)',
                      NEW k \in Hosts
               PROVE  pc'[w][k] = "ticking"
    BY DEF WorkerTicks
  <1>0. TypeOK /\ (Working(w) => \A h \in Hosts : pc[w][h] = "ticking")
    BY DEF LockInv, WorkerTicks
  <1>1. ASSUME NEW i \in Instances, NEW h \in Hosts, TryLockStep(i, h)
        PROVE  pc'[w][k] = "ticking"
    <2>1. status' = status /\ ctxDone' = ctxDone
      BY <1>1 DEF TryLockStep, OpenFile, OpenNew, WriteId, UndoWrite, Stat, Read,
                  Remove, Retry
    <2>2. pc[w][k] = "ticking" /\ pc[w][h] = "ticking"
      BY <1>0, <2>1 DEF Working
    <2>3. pc[i][h] # "ticking"
      BY <1>1 DEF TryLockStep, OpenFile, OpenNew, WriteId, UndoWrite, Stat, Read,
                  Remove, Retry
    <2>4. \E label \in PCs : Goto(i, h, label)
      BY <1>1 DEF TryLockStep, OpenFile, OpenNew, WriteId, UndoWrite, Stat, Read,
                  Remove, Retry, Refuse, Continue, PCs, InFlight
    <2> QED  BY <1>0, <2>2, <2>3, <2>4, GotoFrame
  <1>2. ASSUME NEW i \in Instances, NEW h \in Hosts, Touch(i, h)
        PROVE  pc'[w][k] = "ticking"
    BY <1>0, <1>2 DEF Touch, Working
  <1>3. ASSUME NEW i \in Instances, NEW h \in Hosts, Release(i, h)
        PROVE  pc'[w][k] = "ticking"
    <2>1. Working(w) /\ w # i
      BY <1>3 DEF Release, Working
    <2> QED  BY <1>0, <1>3, <2>1, GotoFrame DEF Release
  <1>4. ASSUME NEW i \in Instances, StartTickers(i)  PROVE pc'[w][k] = "ticking"
    BY <1>0, <1>4 DEF StartTickers, Working, TypeOK
  <1>5. ASSUME NEW i \in Instances, NEW st \in {"failed", "crashed"}, Gone(i, st)
        PROVE  pc'[w][k] = "ticking"
    BY <1>0, <1>5 DEF Gone, Working, TypeOK
  <1>6. ASSUME NEW i \in Instances, Start(i)  PROVE pc'[w][k] = "ticking"
    BY <1>0, <1>6 DEF Start, Working, TypeOK
  <1>7. ASSUME NEW i \in Instances, Unlock(i) \/ Unlocked(i) \/ Interrupt(i)
        PROVE  pc'[w][k] = "ticking"
    BY <1>0, <1>7 DEF Unlock, Unlocked, Interrupt, Working, TypeOK
  <1>8. ASSUME UNCHANGED <<status, ctxDone, pc>>  PROVE pc'[w][k] = "ticking"
    BY <1>0, <1>8 DEF Working
  <1> QED  BY <1>1, <1>2, <1>3, <1>4, <1>5, <1>6, <1>7, <1>8
           DEF Next, InstanceStep, FailLocking, FailRun, Crash, Tick, vars

\* Two processes between Lock and Unlock at once means that on every host a lock
\* file was installed over another or taken over as stale: there is no third way
\* to lose the exclusive lock, whatever fails, crashes or is interrupted.
THEOREM Exclusive == Spec => []ExclusiveUnlessForfeited
  <1>1. Init => LockInv
    <2>1. Init => OneHolder /\ WorkerTicks
      BY DEF Init, OneHolder, HolderOf, WorkerTicks, Working, Holds
    <2> QED  BY <2>1, TypeInit DEF LockInv
  <1>2. LockInv /\ [Next]_vars => LockInv'
    BY TypeStep, HolderStep, WorkerStep DEF LockInv
  <1>3. LockInv => ExclusiveUnlessForfeited
    BY DEF LockInv, OneHolder, HolderOf, WorkerTicks, Holds, ExclusiveUnlessForfeited
  <1> QED  BY <1>1, <1>2, <1>3, PTL DEF Spec
-----------------------------------------------------------------------------
(* The lease: where a step of the lock protocol leads a client's seat.     *)

\* A goroutine inside tryLock or retry.Times belongs to a process that has not
\* left its Lock phase.
Trying(i, h) == pc[i][h] \in InFlight \union {"wait"}

TryingIsLocking ==
    \A i \in Instances : (\E h \in Hosts : Trying(i, h)) => status[i] = "locking"

\* A step of tryLock leaves the processes' standing alone, and goes on or stops.
LEMMA TryLockStanding ==
    ASSUME TypeOK, NEW i \in Instances, NEW h \in Hosts, TryLockStep(i, h)
    PROVE  /\ status' = status
           /\ ctxDone' = ctxDone
           /\ Trying(i, h)
           /\ \E label \in PCs : Goto(i, h, label)
  <1>1. status' = status /\ ctxDone' = ctxDone
    BY DEF TryLockStep, OpenFile, OpenNew, WriteId, UndoWrite, Stat, Read,
           Remove, Retry
  <1>2. Trying(i, h)
    BY DEF TryLockStep, OpenFile, OpenNew, WriteId, UndoWrite, Stat, Read,
           Remove, Retry, Trying, InFlight
  <1>3. \E label \in PCs : Goto(i, h, label)
    BY DEF TryLockStep, OpenFile, OpenNew, WriteId, UndoWrite, Stat, Read,
           Remove, Retry, Refuse, Continue, PCs, InFlight
  <1> QED  BY <1>1, <1>2, <1>3

LEMMA TryingStep == TypeOK /\ TryingIsLocking /\ [Next]_vars => TryingIsLocking'
  <1> SUFFICES ASSUME TypeOK, TryingIsLocking, [Next]_vars, NEW w \in Instances,
                      NEW k \in Hosts, Trying(w, k)'
               PROVE  status'[w] = "locking"
    BY DEF TryingIsLocking
  <1>0. \A h \in Hosts : Trying(w, h) => status[w] = "locking"
    BY DEF TryingIsLocking
  <1>1. ASSUME NEW i \in Instances, NEW h \in Hosts, TryLockStep(i, h)
        PROVE  status'[w] = "locking"
    <2>1. /\ status' = status
          /\ Trying(i, h)
          /\ \E label \in PCs : Goto(i, h, label)
      BY <1>1, TryLockStanding
    <2>2. CASE w = i /\ k = h
      BY <1>0, <2>1, <2>2
    <2>3. CASE w # i \/ k # h
      BY <1>0, <2>1, <2>3, GotoFrame DEF Trying
    <2> QED  BY <2>2, <2>3
  <1>2. ASSUME NEW i \in Instances, NEW h \in Hosts, Touch(i, h)
        PROVE  status'[w] = "locking"
    BY <1>0, <1>2 DEF Touch, Trying
  <1>3. ASSUME NEW i \in Instances, NEW h \in Hosts, Release(i, h)
        PROVE  status'[w] = "locking"
    <2>1. w # i \/ k # h
      BY <1>3, GotoFrame DEF Release, Trying, InFlight
    <2> QED  BY <1>0, <1>3, <2>1, GotoFrame DEF Release, Trying
  <1>4. ASSUME NEW i \in Instances, StartTickers(i)  PROVE status'[w] = "locking"
    BY <1>0, <1>4 DEF StartTickers, Trying, InFlight, TypeOK
  <1>5. ASSUME NEW i \in Instances, NEW st, Gone(i, st)  PROVE status'[w] = "locking"
    BY <1>0, <1>5 DEF Gone, Trying, InFlight, TypeOK
  <1>6. ASSUME NEW i \in Instances, Start(i)  PROVE status'[w] = "locking"
    BY <1>0, <1>6 DEF Start, Trying, TypeOK
  <1>7. ASSUME NEW i \in Instances, Unlock(i) \/ Unlocked(i)  PROVE status'[w] = "locking"
    BY <1>0, <1>7 DEF Unlock, Unlocked, Trying, TypeOK
  <1>8. ASSUME UNCHANGED <<status, pc>>  PROVE status'[w] = "locking"
    BY <1>0, <1>8 DEF Trying
  <1> QED  BY <1>1, <1>2, <1>3, <1>4, <1>5, <1>6, <1>7, <1>8
           DEF Next, InstanceStep, FailLocking, FailRun, Crash, Interrupt, Tick, vars

\* The refinement mapping, written out.
seatOf == [i \in Instances |-> SeatOf(i)]
lostHosts == {h \in Hosts : forfeited[h]}

\* A step that moves one process's seat, at most, and forfeits nothing.
LEMMA SeatMoves ==
    ASSUME TypeOK, NEW i \in Instances, forfeited' = forfeited,
           \A j \in Instances : j # i => status'[j] = status[j] /\ ctxDone'[j] = ctxDone[j]
    PROVE  /\ seatOf' = [seatOf EXCEPT ![i] = SeatOf(i)']
           /\ lostHosts' = lostHosts
  <1>1. \A j \in Instances : j # i => SeatOf(j)' = SeatOf(j)
    BY DEF SeatOf, Working
  <1>2. seatOf' = [j \in Instances |-> SeatOf(j)']
    BY DEF seatOf
  <1>3. [seatOf EXCEPT ![i] = SeatOf(i)'] = [j \in Instances |-> IF j = i THEN SeatOf(i)' ELSE SeatOf(j)]
    BY DEF seatOf
  <1> QED  BY <1>1, <1>2, <1>3 DEF lostHosts

\* A step that moves no seat takes nothing from anybody, or takes one host while
\* a process is still in its Lock phase.
LEMMA SeatsStay ==
    ASSUME status' = status, ctxDone' = ctxDone
    PROVE  seatOf' = seatOf
  BY DEF seatOf, SeatOf, Working

LEMMA LeaseStep ==
    ASSUME LockInv, LockInv', TryingIsLocking, [Next]_vars
    PROVE  [LeaseOnHosts!LeaseNext]_(LeaseOnHosts!leaseVars)
  <1> DEFINE Same == seatOf' = seatOf /\ lostHosts' = lostHosts
             Sits(i, s) == seatOf' = [seatOf EXCEPT ![i] = s] /\ lostHosts' = lostHosts
  <1>0. TypeOK /\ TypeOK'
    BY DEF LockInv
  <1>s. \A i \in Instances : seatOf[i] = SeatOf(i)
    BY DEF seatOf
  <1>a. ASSUME Same  PROVE [LeaseOnHosts!LeaseNext]_(LeaseOnHosts!leaseVars)
    BY <1>a DEF LeaseOnHosts!leaseVars, seatOf, lostHosts
  <1>b. ASSUME NEW i \in Instances, SeatOf(i) = "out", Sits(i, "asking")
        PROVE  LeaseOnHosts!LeaseNext
    BY <1>b, <1>s DEF LeaseOnHosts!LeaseNext, LeaseOnHosts!Ask, LeaseOnHosts!Sit, seatOf, lostHosts
  <1>c. ASSUME NEW i \in Instances, SeatOf(i) = "in", Sits(i, "leaving")
        PROVE  LeaseOnHosts!LeaseNext
    BY <1>c, <1>s DEF LeaseOnHosts!LeaseNext, LeaseOnHosts!StartLeaving, LeaseOnHosts!Sit, seatOf, lostHosts
  <1>d. ASSUME NEW i \in Instances, SeatOf(i) \in {"asking", "in", "leaving"}, Sits(i, "left")
        PROVE  LeaseOnHosts!LeaseNext
    BY <1>d, <1>s DEF LeaseOnHosts!LeaseNext, LeaseOnHosts!Leave, LeaseOnHosts!Sit, seatOf, lostHosts
  <1>e. ASSUME NEW i \in Instances, SeatOf(i) = "asking", Sits(i, "in"),
               (\A d \in Instances : SeatOf(d) # "in") \/ lostHosts = Hosts
        PROVE  LeaseOnHosts!LeaseNext
    BY <1>e, <1>s DEF LeaseOnHosts!LeaseNext, LeaseOnHosts!Acquire, LeaseOnHosts!Sit, seatOf, lostHosts
  <1>f. ASSUME NEW i \in Instances, NEW h \in Hosts, SeatOf(i) = "asking",
               seatOf' = seatOf, lostHosts' = lostHosts \union {h}
        PROVE  LeaseOnHosts!LeaseNext
    BY <1>f, <1>s DEF LeaseOnHosts!LeaseNext, LeaseOnHosts!Lose, seatOf, lostHosts
  <1> HIDE DEF Same, Sits
  <1>1. ASSUME NEW i \in Instances, NEW h \in Hosts, TryLockStep(i, h)
        PROVE  [LeaseOnHosts!LeaseNext]_(LeaseOnHosts!leaseVars)
    <2>1. seatOf' = seatOf
      BY <1>0, <1>1, TryLockStanding, SeatsStay
    <2>2. SeatOf(i) = "asking"
      BY <1>0, <1>1, TryLockStanding DEF TryingIsLocking, SeatOf
    <2>3. \/ forfeited' = forfeited
          \/ \E b \in BOOLEAN : forfeited' = [forfeited EXCEPT ![h] = b] /\ (forfeited[h] => b)
      BY <1>0, <1>1 DEF TryLockStep, OpenFile, OpenNew, WriteId, UndoWrite, Stat, Read,
                        Remove, Retry, TypeOK
    <2>4. lostHosts' = lostHosts \/ lostHosts' = lostHosts \union {h}
      BY <1>0, <2>3 DEF lostHosts, TypeOK
    <2> QED  BY <1>a, <1>f, <2>1, <2>2, <2>4 DEF Same
  <1>2. ASSUME UNCHANGED <<status, ctxDone, forfeited>>
        PROVE  [LeaseOnHosts!LeaseNext]_(LeaseOnHosts!leaseVars)
    BY <1>a, <1>2, SeatsStay DEF Same, lostHosts
  <1>3. ASSUME NEW i \in Instances, Start(i)  PROVE LeaseOnHosts!LeaseNext
    <2>1. SeatOf(i) = "out" /\ SeatOf(i)' = "asking"
      BY <1>0, <1>3 DEF Start, SeatOf, TypeOK
    <2> QED  BY <1>0, <1>3, <1>b, <2>1, SeatMoves DEF Start, TypeOK, Sits
  <1>4. ASSUME NEW i \in Instances, StartTickers(i)  PROVE LeaseOnHosts!LeaseNext
    <2>1. SeatOf(i) = "asking" /\ SeatOf(i)' = "in"
      BY <1>0, <1>4 DEF StartTickers, LockReturned, SeatOf, Working, TypeOK
    <2>2. Sits(i, "in")
      BY <1>0, <1>4, <2>1, SeatMoves DEF StartTickers, TypeOK, Sits
    <2>3. (\A d \in Instances : SeatOf(d) # "in") \/ lostHosts = Hosts
      <3>1. SUFFICES ASSUME NEW d \in Instances, SeatOf(d) = "in"  PROVE lostHosts = Hosts
        OBVIOUS
      <3>2. d # i /\ Working(d)' /\ Working(i)'
        BY <1>0, <1>4, <2>1, <3>1 DEF StartTickers, SeatOf, Working, TypeOK
      <3>3. ExclusiveUnlessForfeited'
        BY DEF LockInv, OneHolder, HolderOf, WorkerTicks, Holds, ExclusiveUnlessForfeited
      <3>4. \A h \in Hosts : forfeited'[h]
        BY <3>2, <3>3 DEF ExclusiveUnlessForfeited
      <3> QED  BY <1>4, <3>4 DEF StartTickers, lostHosts
    <2> QED  BY <1>e, <2>1, <2>2, <2>3
  <1>5. ASSUME NEW i \in Instances, NEW st \in {"failed", "crashed"}, Gone(i, st),
               status[i] \in {"locking", "working", "releasing"}
        PROVE  LeaseOnHosts!LeaseNext
    <2>1. SeatOf(i) \in {"asking", "in", "leaving"} /\ SeatOf(i)' = "left"
      BY <1>0, <1>5 DEF Gone, SeatOf, Working, TypeOK
    <2> QED  BY <1>0, <1>5, <1>d, <2>1, SeatMoves DEF Gone, TypeOK, Sits
  <1>6. ASSUME NEW i \in Instances, Unlock(i)  PROVE LeaseOnHosts!LeaseNext
    <2>1. SeatOf(i) = "in" /\ SeatOf(i)' = "leaving"
      BY <1>0, <1>6 DEF Unlock, SeatOf, Working, TypeOK
    <2> QED  BY <1>0, <1>6, <1>c, <2>1, SeatMoves DEF Unlock, TypeOK, Sits
  <1>7. ASSUME NEW i \in Instances, Unlocked(i)  PROVE LeaseOnHosts!LeaseNext
    <2>1. SeatOf(i) = "leaving" /\ SeatOf(i)' = "left"
      BY <1>0, <1>7 DEF Unlocked, SeatOf, Working, TypeOK
    <2> QED  BY <1>0, <1>7, <1>d, <2>1, SeatMoves DEF Unlocked, TypeOK, Sits
  <1>8. ASSUME NEW i \in Instances, Interrupt(i)
        PROVE  [LeaseOnHosts!LeaseNext]_(LeaseOnHosts!leaseVars)
    <2>1. Sits(i, SeatOf(i)')
      BY <1>0, <1>8, SeatMoves DEF Interrupt, TypeOK, Sits
    <2>2. CASE status[i] = "locking"
      <3>1. SeatOf(i)' = SeatOf(i)
        BY <1>8, <2>2 DEF Interrupt, SeatOf
      <3> QED  BY <1>a, <1>s, <2>1, <3>1 DEF Same, Sits, seatOf
    <2>3. CASE status[i] = "working"
      <3>1. SeatOf(i) = "in" /\ SeatOf(i)' = "leaving"
        BY <1>0, <1>8, <2>3 DEF Interrupt, SeatOf, Working, TypeOK
      <3> QED  BY <1>c, <2>1, <3>1
    <2> QED  BY <1>8, <2>2, <2>3 DEF Interrupt
  <1>9. ASSUME NEW i \in Instances, FailLocking(i) \/ FailRun(i) \/ Crash(i)
        PROVE  LeaseOnHosts!LeaseNext
    BY <1>5, <1>9 DEF FailLocking, FailRun, Crash, LockReturned
  <1> QED  BY <1>1, <1>2, <1>3, <1>4, <1>6, <1>7, <1>8, <1>9
           DEF Next, InstanceStep, Touch, Release, Tick, vars

\* The lock protocol implements the lease for every set of processes and hosts:
\* every shell command of tryLock, every touch and every failure is a step of the
\* lease or changes nothing that its clients can see.
THEOREM Refines == Spec => ImplementsLease
  <1>1. Init => LockInv /\ TryingIsLocking
    <2>1. Init => OneHolder /\ WorkerTicks /\ TryingIsLocking
      BY DEF Init, OneHolder, HolderOf, WorkerTicks, Working, Holds, TryingIsLocking,
             Trying, InFlight
    <2> QED  BY <2>1, TypeInit DEF LockInv
  <1>2. LockInv /\ TryingIsLocking /\ [Next]_vars => LockInv' /\ TryingIsLocking'
    BY TypeStep, HolderStep, WorkerStep, TryingStep DEF LockInv
  <1>3. Init => LeaseOnHosts!LeaseInit
    BY DEF Init, LeaseOnHosts!LeaseInit, SeatOf
  <1>4. LockInv /\ LockInv' /\ TryingIsLocking /\ [Next]_vars
           => [LeaseOnHosts!LeaseNext]_(LeaseOnHosts!leaseVars)
    BY LeaseStep
  <1> QED  BY <1>1, <1>2, <1>3, <1>4, PTL DEF Spec, ImplementsLease, LeaseOnHosts!LeaseSpec
-----------------------------------------------------------------------------
(* What Unlock leaves, and how old a held file gets, when no remote command *)
(* fails.  (A delete or a touch that fails is only logged, and its file is  *)
(* left to expire.)                                                         *)

\* A goroutine whose process has not started, or whose Unlock is over, is where
\* the process says.
AtRest ==
    \A i \in Instances : \A h \in Hosts :
        /\ status[i] = "idle" => pc[i][h] = "idle"
        /\ status[i] = "done" => pc[i][h] = "released"

\* A file with i's ID was written by i, which has not deleted it yet.
OwnFile(i, h) == content[h] = i => pc[i][h] \in {"locked", "ticking", "dead"}
WriterKnown == \A i \in Instances : \A h \in Hosts : OwnFile(i, h)

\* A goroutine that has its lock waits for the other hosts in the Lock phase.
LockedIsLocking ==
    \A i \in Instances : \A h \in Hosts : pc[i][h] = "locked" => status[i] = "locking"

\* What a step of tryLock may do when no command fails: the file gets i's ID only
\* with i's goroutine at "locked", and a goroutine is at "locked" after it wrote
\* its ID, or after it removed the file, or with the file its own already.
LEMMA TryLockFile ==
    ASSUME ~IOFails, TypeOK, NEW i \in Instances, NEW h \in Hosts, TryLockStep(i, h)
    PROVE  /\ content'[h] = content[h] \/ age'[h] = 0
           /\ pc[i][h] \notin {"locked", "ticking", "released", "idle", "dead"}
           /\ content'[h] \in {content[h], Empty, Absent, i, Other}
           /\ content'[h] # content[h] /\ content'[h] = i => pc'[i][h] = "locked"
           /\ pc'[i][h] \in {"write", "undo"} => content'[h] = Empty /\ age'[h] = 0
           /\ pc'[i][h] = "locked" => age'[h] = 0 \/ content[h] = i
           /\ age'[h] \in {age[h], 0}
           /\ pc'[i][h] # "ticking"
  <1>a. ASSUME Refuse(i, h)  PROVE pc'[i][h] \in {"wait", "refused"}
    BY <1>a, RefuseType, GotoFrame
  <1>b. ASSUME NEW label, Continue(i, h, label)  PROVE pc'[i][h] = label
    BY <1>b, GotoFrame DEF Continue
  <1>c. ASSUME NEW c, SetFile(h, c)  PROVE content'[h] = c /\ age'[h] = 0
    BY <1>c DEF SetFile, TypeOK
  <1>d. ASSUME FileUnchanged  PROVE content'[h] = content[h] /\ age'[h] = age[h]
    BY <1>d DEF FileUnchanged
  <1>1. CASE OpenFile(i, h)
    BY <1>1, <1>a, <1>b, <1>d DEF OpenFile
  <1>2. CASE OpenNew(i, h)
    <2>1. content'[h] = Empty /\ age'[h] = 0 /\ pc'[i][h] = "write"
      BY <1>2, <1>b, <1>c DEF OpenNew
    <2>2. Empty \notin Instances
      BY HostLockAssumption
    <2> QED  BY <1>2, <2>1, <2>2 DEF OpenNew
  <1>3. CASE WriteId(i, h)
    <2>1. content'[h] \in {i, Other} /\ age'[h] = 0 /\ pc'[i][h] = "locked"
      BY <1>3, <1>b, <1>c DEF WriteId, Overwrite
    <2> QED  BY <1>3, <2>1 DEF WriteId
  <1>4. CASE UndoWrite(i, h)
    <2>1. content'[h] = Absent /\ age'[h] = 0 /\ pc'[i][h] \in {"wait", "refused"}
      BY <1>4, <1>a, <1>c DEF UndoWrite
    <2>2. Absent \notin Instances
      BY HostLockAssumption
    <2> QED  BY <1>4, <2>1, <2>2 DEF UndoWrite
  <1>5. CASE Stat(i, h)
    BY <1>5, <1>a, <1>b, <1>d DEF Stat
  <1>6. CASE Read(i, h)
    BY <1>6, <1>a, <1>b, <1>d DEF Read
  <1>7. CASE Remove(i, h)
    <2>1. CASE SetFile(h, Absent) /\ Continue(i, h, "locked")
      <3>1. content'[h] = Absent /\ age'[h] = 0 /\ pc'[i][h] = "locked"
        BY <2>1, <1>b, <1>c
      <3>2. Absent \notin Instances
        BY HostLockAssumption
      <3> QED  BY <1>7, <3>1, <3>2 DEF Remove
    <2>2. CASE FileUnchanged /\ Refuse(i, h)
      BY <1>7, <2>2, <1>a, <1>d DEF Remove
    <2> QED  BY <1>7, <2>1, <2>2 DEF Remove
  <1>8. CASE Retry(i, h)
    BY <1>8, <1>b DEF Retry
  <1> QED  BY <1>1, <1>2, <1>3, <1>4, <1>5, <1>6, <1>7, <1>8 DEF TryLockStep

LEMMA AtRestStep == TypeOK /\ AtRest /\ [Next]_vars => AtRest'
  <1> SUFFICES ASSUME TypeOK, AtRest, [Next]_vars, NEW w \in Instances, NEW k \in Hosts
               PROVE  /\ status'[w] = "idle" => pc'[w][k] = "idle"
                      /\ status'[w] = "done" => pc'[w][k] = "released"
    BY DEF AtRest
  <1> DEFINE Rests == /\ status'[w] = "idle" => pc'[w][k] = "idle"
                      /\ status'[w] = "done" => pc'[w][k] = "released"
  <1>0. /\ status[w] = "idle" => pc[w][k] = "idle"
        /\ status[w] = "done" => pc[w][k] = "released"
    BY DEF AtRest
  <1>1. ASSUME NEW i \in Instances, NEW h \in Hosts, TryLockStep(i, h)  PROVE Rests
    <2>1. /\ status' = status
          /\ Trying(i, h)
          /\ \E label \in PCs : Goto(i, h, label)
      BY <1>1, TryLockStanding
    <2>2. CASE w = i /\ k = h
      BY <1>0, <2>1, <2>2 DEF Trying, InFlight
    <2>3. CASE w # i \/ k # h
      BY <1>0, <2>1, <2>3, GotoFrame
    <2> QED  BY <2>2, <2>3
  <1>2. ASSUME NEW i \in Instances, NEW h \in Hosts, Touch(i, h)  PROVE Rests
    BY <1>0, <1>2 DEF Touch
  <1>3. ASSUME NEW i \in Instances, NEW h \in Hosts, Release(i, h)  PROVE Rests
    <2>1. status' = status /\ pc[i][h] = "ticking" /\ Goto(i, h, "released")
      BY <1>3 DEF Release
    <2> QED  BY <1>0, <2>1, GotoFrame
  <1>4. ASSUME NEW i \in Instances, StartTickers(i)  PROVE Rests
    BY <1>0, <1>4 DEF StartTickers, TypeOK
  <1>5. ASSUME NEW i \in Instances, NEW st \in {"failed", "crashed"}, Gone(i, st)  PROVE Rests
    BY <1>0, <1>5 DEF Gone, TypeOK
  <1>6. ASSUME NEW i \in Instances, Start(i)  PROVE Rests
    BY <1>0, <1>6 DEF Start, TypeOK
  <1>7. ASSUME NEW i \in Instances, Unlock(i) \/ Unlocked(i)  PROVE Rests
    BY <1>0, <1>7 DEF Unlock, Unlocked, TypeOK
  <1>8. ASSUME UNCHANGED <<status, pc>>  PROVE Rests
    BY <1>0, <1>8
  <1> QED  BY <1>1, <1>2, <1>3, <1>4, <1>5, <1>6, <1>7, <1>8
           DEF Next, InstanceStep, FailLocking, FailRun, Crash, Interrupt, Tick, vars

LEMMA WriterStep ==
    ASSUME ~IOFails, TypeOK, AtRest, WriterKnown, [Next]_vars
    PROVE  WriterKnown'
  <1> SUFFICES ASSUME NEW w \in Instances, NEW k \in Hosts  PROVE OwnFile(w, k)'
    BY DEF WriterKnown
  <1>0. OwnFile(w, k) /\ (status[w] = "idle" => pc[w][k] = "idle")
    BY DEF WriterKnown, AtRest
  <1>c. Absent \notin Instances /\ Empty \notin Instances /\ Other \notin Instances
    BY HostLockAssumption
  <1>1. ASSUME NEW i \in Instances, NEW h \in Hosts, TryLockStep(i, h)
        PROVE  OwnFile(w, k)'
    <2>1. CASE k # h
      BY <1>0, <1>1, <2>1, TryLockElsewhere DEF OwnFile
    <2>2. CASE k = h /\ w = i
      BY <1>0, <1>1, <1>c, <2>2, TryLockFile DEF OwnFile
    <2>3. CASE k = h /\ w # i
      <3>1. pc'[w][k] = pc[w][k]
        BY <1>1, <2>3, TryLockStanding, GotoFrame
      <3>2. content'[h] \in {content[h], Empty, Absent, i, Other}
        BY <1>1, TryLockFile
      <3> QED  BY <1>0, <1>c, <2>3, <3>1, <3>2 DEF OwnFile
    <2> QED  BY <2>1, <2>2, <2>3
  <1>2. ASSUME NEW i \in Instances, NEW h \in Hosts, Touch(i, h)  PROVE OwnFile(w, k)'
    <2>1. content'[k] \in {content[k], Empty} /\ pc' = pc
      BY <1>2 DEF Touch, SetFile, FileUnchanged, TypeOK
    <2> QED  BY <1>0, <1>c, <2>1 DEF OwnFile
  <1>3. ASSUME NEW i \in Instances, NEW h \in Hosts, Release(i, h)  PROVE OwnFile(w, k)'
    <2>1. SetFile(h, Absent) /\ Goto(i, h, "released")
      BY <1>3 DEF Release
    <2>2. CASE k = h
      BY <1>c, <2>1, <2>2 DEF SetFile, OwnFile, TypeOK
    <2>3. CASE k # h
      <3>1. content'[k] = content[k]
        BY <2>1, <2>3 DEF SetFile, TypeOK
      <3> QED  BY <1>0, <2>1, <2>3, <3>1, GotoFrame DEF OwnFile
    <2> QED  BY <2>2, <2>3
  <1>4. ASSUME NEW i \in Instances, StartTickers(i)  PROVE OwnFile(w, k)'
    BY <1>0, <1>4 DEF StartTickers, OwnFile, TypeOK
  <1>5. ASSUME NEW i \in Instances, NEW st, Gone(i, st)  PROVE OwnFile(w, k)'
    BY <1>0, <1>5 DEF Gone, OwnFile, TypeOK
  <1>6. ASSUME NEW i \in Instances, Start(i)  PROVE OwnFile(w, k)'
    BY <1>0, <1>6 DEF Start, OwnFile, TypeOK
  <1>7. ASSUME UNCHANGED <<content, pc>>  PROVE OwnFile(w, k)'
    BY <1>0, <1>7 DEF OwnFile
  <1> QED  BY <1>1, <1>2, <1>3, <1>4, <1>5, <1>6, <1>7
           DEF Next, InstanceStep, FailLocking, FailRun, Crash, Unlock, Unlocked, Interrupt, Tick, vars

\* When no command fails, a process whose Unlock is over has no lock file on any
\* host, for any number of processes and hosts: not the file it wrote first, nor one
\* it was given back by a touch.
THEOREM Releases ==
    ASSUME ~IOFails
    PROVE  Spec => []UnlockReleases
  <1> DEFINE Inv == TypeOK /\ AtRest /\ WriterKnown
  <1>1. Init => Inv
    <2>1. Init => AtRest
      BY DEF Init, AtRest
    <2>2. Init => WriterKnown
      BY HostLockAssumption DEF Init, WriterKnown, OwnFile
    <2> QED  BY <2>1, <2>2, TypeInit
  <1>2. Inv /\ [Next]_vars => Inv'
    BY TypeStep, AtRestStep, WriterStep
  <1>3. Inv => UnlockReleases
    BY DEF AtRest, WriterKnown, OwnFile, UnlockReleases
  <1> QED  BY <1>1, <1>2, <1>3, PTL DEF Spec

-----------------------------------------------------------------------------
LEMMA LockedStep ==
    TypeOK /\ TryingIsLocking /\ LockedIsLocking /\ [Next]_vars => LockedIsLocking'
  <1> SUFFICES ASSUME TypeOK, TryingIsLocking, LockedIsLocking, [Next]_vars,
                      NEW w \in Instances, NEW k \in Hosts, pc'[w][k] = "locked"
               PROVE  status'[w] = "locking"
    BY DEF LockedIsLocking
  <1>0. pc[w][k] = "locked" \/ Trying(w, k) => status[w] = "locking"
    BY DEF LockedIsLocking, TryingIsLocking
  <1>1. ASSUME NEW i \in Instances, NEW h \in Hosts, TryLockStep(i, h)
        PROVE  status'[w] = "locking"
    <2>1. /\ status' = status
          /\ Trying(i, h)
          /\ \E label \in PCs : Goto(i, h, label)
      BY <1>1, TryLockStanding
    <2>2. CASE w = i /\ k = h
      BY <1>0, <2>1, <2>2
    <2>3. CASE w # i \/ k # h
      BY <1>0, <2>1, <2>3, GotoFrame
    <2> QED  BY <2>2, <2>3
  <1>2. ASSUME NEW i \in Instances, NEW h \in Hosts, Touch(i, h)
        PROVE  status'[w] = "locking"
    BY <1>0, <1>2 DEF Touch
  <1>3. ASSUME NEW i \in Instances, NEW h \in Hosts, Release(i, h)
        PROVE  status'[w] = "locking"
    <2>1. status' = status /\ Goto(i, h, "released")
      BY <1>3 DEF Release
    <2> QED  BY <1>0, <2>1, GotoFrame
  <1>4. ASSUME NEW i \in Instances, StartTickers(i)  PROVE status'[w] = "locking"
    BY <1>0, <1>4 DEF StartTickers, TypeOK
  <1>5. ASSUME NEW i \in Instances, NEW st, Gone(i, st)  PROVE status'[w] = "locking"
    BY <1>0, <1>5 DEF Gone, TypeOK
  <1>6. ASSUME NEW i \in Instances, Start(i)  PROVE status'[w] = "locking"
    BY <1>0, <1>6 DEF Start, TypeOK
  <1>7. ASSUME NEW i \in Instances, Unlock(i) \/ Unlocked(i)  PROVE status'[w] = "locking"
    BY <1>0, <1>7 DEF Unlock, Unlocked, TypeOK
  <1>8. ASSUME UNCHANGED <<status, pc>>  PROVE status'[w] = "locking"
    BY <1>0, <1>8
  <1> QED  BY <1>1, <1>2, <1>3, <1>4, <1>5, <1>6, <1>7, <1>8
           DEF Next, InstanceStep, FailLocking, FailRun, Crash, Interrupt, Tick, vars

\* The age of a file that i holds: none until the tickers start, and after that the
\* age and the time to the next touch make at most one period.
FreshFor(i, h) ==
    /\ pc[i][h] \in {"write", "undo", "locked"} /\ content[h] # Absent => age[h] = 0
    /\ pc[i][h] = "ticking" =>
          /\ timer[i][h] <= TouchEvery
          /\ content[h] # Absent => age[h] + timer[i][h] <= TouchEvery

Fresh == \A i \in Instances : \A h \in Hosts : FreshFor(i, h)

\* Time passes while nobody is in the middle of a command; the tickers have their
\* next touch ahead of them.
LEMMA FreshTick ==
    ASSUME ~SlowCommands, \A h, k \in Hosts : h = k, TypeOK, LockedIsLocking,
           NEW i \in Instances, NEW h \in Hosts, FreshFor(i, h), Tick
    PROVE  FreshFor(i, h)'
  <1>1. Quiet /\ pc' = pc /\ content' = content
    BY DEF Tick
  <1>2. pc[i][h] \notin InFlight /\ (pc[i][h] = "ticking" => timer[i][h] > 0)
    BY <1>1 DEF Quiet, Waiting
  <1>3. pc[i][h] # "locked"
    <2> SUFFICES ASSUME pc[i][h] = "locked"  PROVE FALSE
      OBVIOUS
    <2>1. status[i] = "locking" /\ \A k \in Hosts : pc[i][k] = "locked"
      BY DEF LockedIsLocking
    <2> QED  BY <1>1, <2>1 DEF Quiet, LockReturned
  <1>4. CASE pc[i][h] = "ticking"
    <2>1. age'[h] <= age[h] + 1 /\ age[h] \in Nat /\ age'[h] \in Nat
      BY HostLockAssumption DEF Tick, Older, TypeOK
    <2>2. timer[i][h] \in Nat /\ timer[i][h] > 0 /\ TouchEvery \in Nat
      BY <1>2, <1>4, HostLockAssumption DEF TypeOK
    <2>3. timer'[i][h] = timer[i][h] - 1
      BY <1>4, <2>2 DEF Tick, Waiting, Sooner
    <2>4. timer[i][h] <= TouchEvery /\ (content[h] # Absent => age[h] + timer[i][h] <= TouchEvery)
      BY <1>4 DEF FreshFor
    <2> QED  BY <1>1, <1>4, <2>1, <2>2, <2>3, <2>4 DEF FreshFor
  <1>5. CASE pc[i][h] # "ticking"
    BY <1>1, <1>2, <1>3, <1>5 DEF FreshFor, InFlight
  <1> QED  BY <1>4, <1>5

LEMMA FreshStep ==
    ASSUME ~IOFails, ~SlowCommands, \A h, k \in Hosts : h = k,
           TypeOK, WriterKnown, LockedIsLocking, Fresh, [Next]_vars
    PROVE  Fresh'
  <1> SUFFICES ASSUME NEW w \in Instances, NEW k \in Hosts  PROVE FreshFor(w, k)'
    BY DEF Fresh
  <1>0. FreshFor(w, k) /\ OwnFile(w, k)
    BY DEF Fresh, WriterKnown
  <1>t. /\ TouchEvery \in Nat /\ age[k] \in Nat
        /\ timer[w][k] \in Nat
    BY HostLockAssumption DEF TypeOK
  \* A step that leaves w's goroutine and timer alone, and the file or its age too, or
  \* makes the file new.
  <1>a. ASSUME pc'[w][k] = pc[w][k], timer'[w][k] = timer[w][k],
               \/ age'[k] = 0
               \/ age'[k] = age[k] /\ content'[k] = content[k]
        PROVE  FreshFor(w, k)'
    BY <1>0, <1>a, <1>t DEF FreshFor
  <1>1. ASSUME NEW i \in Instances, NEW h \in Hosts, TryLockStep(i, h)
        PROVE  FreshFor(w, k)'
    <2>0. k = h
      OBVIOUS
    <2>1. CASE w = i
      <3>1. pc'[w][k] \in {"write", "undo", "locked"} => age'[k] = 0
        BY <1>0, <1>1, <2>0, <2>1, TryLockFile DEF OwnFile
      <3>2. pc'[w][k] # "ticking"
        BY <1>1, <2>0, <2>1, TryLockFile
      <3> QED  BY <3>1, <3>2 DEF FreshFor
    <2>2. CASE w # i
      <3>1. pc'[w][k] = pc[w][k]
        BY <1>1, <2>2, TryLockStanding, GotoFrame
      <3>2. timer'[w][k] = timer[w][k]
        BY <1>1, <2>2 DEF TryLockStep, OpenFile, OpenNew, WriteId, UndoWrite, Stat, Read,
                          Remove, Retry, Refuse, Continue, TypeOK
      <3>3. age'[k] = 0 \/ (age'[k] = age[k] /\ content'[k] = content[k])
        BY <1>1, <2>0, TryLockFile
      <3> QED  BY <1>a, <3>1, <3>2, <3>3
    <2> QED  BY <2>1, <2>2
  <1>2. ASSUME NEW i \in Instances, NEW h \in Hosts, Touch(i, h)  PROVE FreshFor(w, k)'
    <2>0. k = h
      OBVIOUS
    <2>1. age'[k] = 0 /\ pc' = pc
      BY <1>2, <2>0 DEF Touch, SetFile, TypeOK
    <2>2. timer'[w][k] \in {timer[w][k], TouchEvery}
      BY <1>2 DEF Touch, TypeOK
    <2> QED  BY <1>0, <1>t, <2>1, <2>2 DEF FreshFor
  <1>3. ASSUME NEW i \in Instances, NEW h \in Hosts, Release(i, h)  PROVE FreshFor(w, k)'
    <2>0. k = h
      OBVIOUS
    <2>1. /\ age'[k] = 0 /\ timer' = timer
          /\ Goto(i, h, "released")
      BY <1>3, <2>0 DEF Release, SetFile, TypeOK
    <2>2. pc'[w][k] \in {pc[w][k], "released"}
      BY <2>1, GotoFrame
    <2> QED  BY <1>0, <1>t, <2>1, <2>2 DEF FreshFor
  <1>4. ASSUME NEW i \in Instances, StartTickers(i)  PROVE FreshFor(w, k)'
    <2>0. age' = age /\ content' = content
      BY <1>4 DEF StartTickers
    <2>1. CASE w = i
      <3>1. pc[w][k] = "locked" /\ pc'[w][k] = "ticking" /\ timer'[w][k] = TouchEvery
        BY <1>4, <2>1 DEF StartTickers, TypeOK
      <3> QED  BY <1>0, <1>t, <2>0, <3>1 DEF FreshFor
    <2>2. CASE w # i
      <3>1. pc'[w][k] = pc[w][k] /\ timer'[w][k] = timer[w][k]
        BY <1>4, <2>2 DEF StartTickers, TypeOK
      <3> QED  BY <1>a, <2>0, <3>1
    <2> QED  BY <2>1, <2>2
  <1>5. ASSUME NEW i \in Instances, NEW st, Gone(i, st)  PROVE FreshFor(w, k)'
    <2>1. pc'[w][k] \in {pc[w][k], "dead"} /\ UNCHANGED <<content, age, timer>>
      BY <1>5 DEF Gone, TypeOK
    <2> QED  BY <1>0, <2>1 DEF FreshFor
  <1>6. ASSUME NEW i \in Instances, Start(i)  PROVE FreshFor(w, k)'
    <2>1. pc'[w][k] \in {pc[w][k], "open"} /\ UNCHANGED <<content, age, timer>>
      BY <1>6 DEF Start, TypeOK
    <2> QED  BY <1>0, <2>1 DEF FreshFor
  <1>7. CASE Tick
    BY <1>0, <1>7, FreshTick
  <1>8. ASSUME UNCHANGED <<content, age, pc, timer>>  PROVE FreshFor(w, k)'
    BY <1>0, <1>8 DEF FreshFor
  <1> QED  BY <1>1, <1>2, <1>3, <1>4, <1>5, <1>6, <1>7, <1>8
           DEF Next, InstanceStep, FailLocking, FailRun, Crash, Unlock, Unlocked, Interrupt, vars

\* When commands neither fail nor take time, the tickers of startTicker keep the file
\* of a process from expiring, whatever the other processes do: on one host, because
\* the tickers of several start only once the last of them is locked.
THEOREM StaysFresh ==
    ASSUME ~IOFails, ~SlowCommands, \A h, k \in Hosts : h = k
    PROVE  Spec => []HeldLockStaysFresh
  <1> DEFINE Inv == /\ TypeOK /\ AtRest /\ WriterKnown
                    /\ TryingIsLocking /\ LockedIsLocking /\ Fresh
  <1>1. Init => Inv
    <2>1. Init => AtRest /\ TryingIsLocking /\ LockedIsLocking /\ Fresh
      BY DEF Init, AtRest, TryingIsLocking, Trying, InFlight, LockedIsLocking, Fresh, FreshFor
    <2>2. Init => WriterKnown
      BY HostLockAssumption DEF Init, WriterKnown, OwnFile
    <2> QED  BY <2>1, <2>2, TypeInit
  <1>2. Inv /\ [Next]_vars => Inv'
    BY TypeStep, AtRestStep, WriterStep, TryingStep, LockedStep, FreshStep
  <1>3. Inv => HeldLockStaysFresh
    <2> SUFFICES ASSUME Inv, NEW i \in Instances, NEW h \in Hosts, Holds(i, h), content[h] # Absent
                 PROVE  age[h] < StaleAfter
      BY DEF HeldLockStaysFresh
    <2>1. /\ TouchEvery \in Nat \ {0} /\ StaleAfter \in Nat /\ TouchEvery < StaleAfter
          /\ age[h] \in Nat /\ timer[i][h] \in Nat
      BY HostLockAssumption DEF TypeOK
    <2>2. FreshFor(i, h)
      BY DEF Fresh
    <2> QED  BY <2>1, <2>2 DEF FreshFor, Holds
  <1> QED  BY <1>1, <1>2, <1>3, PTL DEF Spec
=============================================================================
