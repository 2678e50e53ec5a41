------------------------------ MODULE HostLock ------------------------------
(***************************************************************************)
(* The exclusive host lock: pkg/phase/91_lock.go and 92_unlock.go, the     *)
(* retry.Times loop that drives it, and the remote file operations it is   *)
(* built on.                                                               *)
(*                                                                         *)
(* Several cargoship processes (Instances) run the Lock phase against the  *)
(* same hosts.  In each process one goroutine per host runs tryLock, every *)
(* remote command of which is a step of its own here, because the file     *)
(* operations are shell commands sent over SSH: OpenFile(O_CREATE|O_EXCL)  *)
(* is a stat followed by an install(1), not one system call.               *)
(*                                                                         *)
(* Time is counted in ticks.  `age` is how long ago a lock file's mtime    *)
(* lies; all clocks agree.                                                 *)
(***************************************************************************)
EXTENDS Integers

CONSTANTS
    Instances,      \* cargoship processes, named by their instanceID
    Hosts,          \* hosts of the cluster; at most Manager.Concurrency of them
    Absent,         \* content of a lock file that does not exist
    Empty,          \* content of one created and not yet written
    Other,          \* content that is no running instance's ID
    MaxAttempts,    \* retry.Times(ctx, 10, ...)
    RetryEvery,     \* retry.Interval, 15 s
    TouchEvery,     \* the ticker of startTicker, 10 s
    StaleAfter,     \* tryLock's expiry, 30 s
    IOFails,        \* may a remote command fail?
    Crashes,        \* may a process die without running anything more?
    Interrupts,     \* may SIGINT cancel the context?
    SlowCommands    \* may time pass while a command is in flight?

ASSUME HostLockAssumption ==
    /\ Absent \notin Instances /\ Empty \notin Instances /\ Other \notin Instances
    /\ Absent # Empty /\ Absent # Other /\ Empty # Other
    /\ MaxAttempts \in Nat \ {0, 1}
    /\ RetryEvery \in Nat \ {0}
    /\ TouchEvery \in Nat \ {0}
    /\ StaleAfter \in Nat /\ TouchEvery < StaleAfter
    /\ {IOFails, Crashes, Interrupts, SlowCommands} \subseteq BOOLEAN

VARIABLES
    content,    \* [Hosts -> Contents]: what the lock file holds
    age,        \* [Hosts -> 0..StaleAfter]: time since its mtime, saturating
    status,     \* [Instances -> ...]: where the process is in its run
    ctxDone,    \* [Instances -> BOOLEAN]: has its context been cancelled?
    pc,         \* [Instances -> [Hosts -> ...]]: its goroutine for a host
    attempts,   \* [Instances -> [Hosts -> Nat]]: failed tries so far
    timer,      \* [Instances -> [Hosts -> Nat]]: ticks to the next ticker fire
    statAge,    \* [Instances -> [Hosts -> Nat]]: age of the mtime Stat returned
    forfeited   \* [Hosts -> BOOLEAN]: history, see OpenNew and Remove

vars == <<content, age, status, ctxDone, pc, attempts, timer, statAge, forfeited>>

Contents == Instances \union {Absent, Empty, Other}

Statuses == {"idle", "locking", "working", "releasing", "done", "failed", "crashed"}

\* Steps of the goroutine a process runs for a host.
InFlight == {"open", "install", "write", "undo", "stat", "read", "remove"}
PCs == InFlight \union
       {"idle", "wait", "refused", "locked", "ticking", "released", "dead"}

TypeOK ==
    /\ content \in [Hosts -> Contents]
    /\ age \in [Hosts -> 0..StaleAfter]
    /\ status \in [Instances -> Statuses]
    /\ ctxDone \in [Instances -> BOOLEAN]
    /\ pc \in [Instances -> [Hosts -> PCs]]
    /\ attempts \in [Instances -> [Hosts -> Nat]]
    /\ timer \in [Instances -> [Hosts -> Nat]]
    /\ statAge \in [Instances -> [Hosts -> 0..StaleAfter]]
    /\ forfeited \in [Hosts -> BOOLEAN]

\* A host starts without a lock file, or with the one an earlier process left.
Init ==
    /\ content \in [Hosts -> {Absent, Other}]
    /\ age = [h \in Hosts |-> 0]
    /\ status = [i \in Instances |-> "idle"]
    /\ ctxDone = [i \in Instances |-> FALSE]
    /\ pc = [i \in Instances |-> [h \in Hosts |-> "idle"]]
    /\ attempts = [i \in Instances |-> [h \in Hosts |-> 0]]
    /\ timer = [i \in Instances |-> [h \in Hosts |-> 0]]
    /\ statAge = [i \in Instances |-> [h \in Hosts |-> 0]]
    /\ forfeited = [h \in Hosts |-> FALSE]

-----------------------------------------------------------------------------
(* Helpers: one goroutine's control, and the lock file it works on.        *)

Goto(i, h, label) == pc' = [pc EXCEPT ![i][h] = label]

SetFile(h, c) ==
    /\ content' = [content EXCEPT ![h] = c]
    /\ age' = [age EXCEPT ![h] = 0]

FileUnchanged == UNCHANGED <<content, age>>

\* Mutant of Refuse: the attempts are not counted.
RefuseForever(i, h) ==
    /\ Goto(i, h, "wait")
    /\ timer' = [timer EXCEPT ![i][h] = RetryEvery]
    /\ UNCHANGED attempts

\* tryLock returned an error: retry.Times gives up after MaxAttempts tries
\* and otherwise waits for its ticker, unless the context is done by then.
Refuse(i, h) ==
    /\ attempts' = [attempts EXCEPT ![i][h] = @ + 1]
    /\ IF attempts[i][h] + 1 >= MaxAttempts
         THEN Goto(i, h, "refused") /\ UNCHANGED timer
         ELSE /\ Goto(i, h, "wait")
              /\ timer' = [timer EXCEPT ![i][h] = RetryEvery]

\* tryLock goes on with its next command.
Continue(i, h, label) == Goto(i, h, label) /\ UNCHANGED <<attempts, timer>>

-----------------------------------------------------------------------------
(* The Lock phase.                                                         *)

\* Lock.Run: parallelDo starts startLock for every host.
Start(i) ==
    /\ status[i] = "idle"
    /\ status' = [status EXCEPT ![i] = "locking"]
    /\ pc' = [pc EXCEPT ![i] = [h \in Hosts |-> "open"]]
    /\ UNCHANGED <<content, age, ctxDone, attempts, timer, statAge, forfeited>>

\* OpenFile, first command: stat tells a new file from an existing one.
OpenFile(i, h) ==
    /\ pc[i][h] = "open"
    /\ FileUnchanged
    /\ \/ Continue(i, h, IF content[h] = Absent THEN "install" ELSE "stat")
       \/ IOFails /\ Refuse(i, h)
    /\ UNCHANGED <<status, ctxDone, statAge, forfeited>>

\* OpenFile, second command: install(1) leaves an empty file, whether or not
\* one has appeared since the stat.  Replacing one forfeits the host's lock.
OpenNew(i, h) ==
    /\ pc[i][h] = "install"
    /\ \/ /\ SetFile(h, Empty)
          /\ forfeited' = [forfeited EXCEPT ![h] = @ \/ content[h] # Absent]
          /\ \/ Continue(i, h, "write")
             \/ IOFails /\ Refuse(i, h)      \* the stat that follows failed
       \/ /\ IOFails /\ Refuse(i, h)
          /\ FileUnchanged
          /\ UNCHANGED forfeited
    /\ UNCHANGED <<status, ctxDone, statAge>>

\* What dd(1) with conv=notrunc leaves when i's ID is written over a content:
\* over another ID, the tail of a longer one stays behind.
Overwrite(i, old) == IF old \in {Absent, Empty, i} THEN {i} ELSE {i, Other}

\* f.Write and f.Close (which sends no command).  tryLock returns nil.
WriteId(i, h) ==
    /\ pc[i][h] = "write"
    /\ \/ /\ \E c \in Overwrite(i, content[h]) : SetFile(h, c)
          /\ Continue(i, h, "locked")
       \/ /\ IOFails /\ Continue(i, h, "undo")
          /\ FileUnchanged
    /\ UNCHANGED <<status, ctxDone, statAge, forfeited>>

\* The write failed: the file is deleted, whoever's it is, and the try fails.
UndoWrite(i, h) ==
    /\ pc[i][h] = "undo"
    /\ \/ SetFile(h, Absent)
       \/ IOFails /\ FileUnchanged
    /\ Refuse(i, h)
    /\ UNCHANGED <<status, ctxDone, statAge, forfeited>>

\* The file exists: Stat fetches its mtime.
Stat(i, h) ==
    /\ pc[i][h] = "stat"
    /\ FileUnchanged
    /\ \/ /\ content[h] # Absent
          /\ statAge' = [statAge EXCEPT ![i][h] = age[h]]
          /\ Continue(i, h, "read")
       \/ /\ content[h] = Absent \/ IOFails
          /\ Refuse(i, h)
          /\ UNCHANGED statAge
    /\ UNCHANGED <<status, ctxDone, forfeited>>

\* Mutant of Read: an empty file is taken for one's own.
ReadEmptyAsOwn(i, h) ==
    /\ pc[i][h] = "read"
    /\ FileUnchanged
    /\ IF content[h] \in {i, Empty} THEN Continue(i, h, "locked") ELSE Refuse(i, h)
    /\ UNCHANGED <<status, ctxDone, statAge, forfeited>>

\* Mutant of Read: another instance's lock never expires.
ReadWithoutExpiry(i, h) ==
    /\ pc[i][h] = "read"
    /\ FileUnchanged
    /\ IF content[h] = i THEN Continue(i, h, "locked") ELSE Refuse(i, h)
    /\ UNCHANGED <<status, ctxDone, statAge, forfeited>>

\* ReadFile, then the decision: ours, too fresh, or stale.
Read(i, h) ==
    /\ pc[i][h] = "read"
    /\ FileUnchanged
    /\ \/ /\ content[h] = i
          /\ Continue(i, h, "locked")
       \/ /\ content[h] \notin {i, Absent}
          /\ statAge[i][h] >= StaleAfter
          /\ Continue(i, h, "remove")
       \/ /\ \/ content[h] = Absent \/ IOFails
             \/ content[h] # i /\ statAge[i][h] < StaleAfter
          /\ Refuse(i, h)
    /\ statAge' = [statAge EXCEPT ![i][h] = 0]      \* goes out of scope
    /\ UNCHANGED <<status, ctxDone, forfeited>>

\* `return h.DeleteFile(lfp)`: when rm succeeds tryLock reports success, and
\* no lock file is left.  rm of a missing file is an error.
Remove(i, h) ==
    /\ pc[i][h] = "remove"
    /\ \/ /\ content[h] # Absent
          /\ SetFile(h, Absent)
          /\ forfeited' = [forfeited EXCEPT ![h] = TRUE]
          /\ Continue(i, h, "locked")
       \/ /\ content[h] = Absent \/ IOFails
          /\ FileUnchanged
          /\ UNCHANGED forfeited
          /\ Refuse(i, h)
    /\ UNCHANGED <<status, ctxDone, statAge>>

\* retry.Times: the ticker fires, or the context is done.
Retry(i, h) ==
    /\ pc[i][h] = "wait"
    /\ \/ timer[i][h] = 0 /\ Continue(i, h, "open")
       \/ ctxDone[i] /\ Continue(i, h, "refused")
    /\ UNCHANGED <<content, age, status, ctxDone, statAge, forfeited>>

LockReturned(i) ==
    /\ status[i] = "locking"
    /\ \A h \in Hosts : pc[i][h] \in {"locked", "refused"}

\* Mutant of StartTickers: the first touch comes after 30 s, as Explanation says.
StartTickersLate(i) ==
    /\ LockReturned(i)
    /\ \A h \in Hosts : pc[i][h] = "locked"
    /\ ~ctxDone[i]
    /\ status' = [status EXCEPT ![i] = "working"]
    /\ pc' = [pc EXCEPT ![i] = [h \in Hosts |-> "ticking"]]
    /\ timer' = [timer EXCEPT ![i] = [h \in Hosts |-> StaleAfter]]
    /\ UNCHANGED <<content, age, ctxDone, attempts, statAge, forfeited>>

\* Mutant of StartTickers: an interrupt during the phase is not looked at.
StartTickersInterrupted(i) ==
    /\ LockReturned(i)
    /\ \A h \in Hosts : pc[i][h] = "locked"
    /\ status' = [status EXCEPT ![i] = "working"]
    /\ pc' = [pc EXCEPT ![i] = [h \in Hosts |-> "ticking"]]
    /\ timer' = [timer EXCEPT ![i] = [h \in Hosts |-> TouchEvery]]
    /\ UNCHANGED <<content, age, ctxDone, attempts, statAge, forfeited>>

\* Every startLock returned nil: the tickers start and the phase is over.
StartTickers(i) ==
    /\ LockReturned(i)
    /\ \A h \in Hosts : pc[i][h] = "locked"
    /\ ~ctxDone[i]
    /\ status' = [status EXCEPT ![i] = "working"]
    /\ pc' = [pc EXCEPT ![i] = [h \in Hosts |-> "ticking"]]
    /\ timer' = [timer EXCEPT ![i] = [h \in Hosts |-> TouchEvery]]
    /\ UNCHANGED <<content, age, ctxDone, attempts, statAge, forfeited>>

\* A process that is gone: its goroutines are, its lock files are not.
Gone(i, st) ==
    /\ status' = [status EXCEPT ![i] = st]
    /\ pc' = [pc EXCEPT ![i] = [h \in Hosts |-> "dead"]]
    /\ UNCHANGED <<content, age, ctxDone, attempts, timer, statAge, forfeited>>

\* Lock.Run returned an error, the run ends and main exits with status 1.
\* Lock.CleanUp has no context parameter, so the manager never calls it.
FailLocking(i) ==
    /\ LockReturned(i)
    /\ ctxDone[i] \/ \E h \in Hosts : pc[i][h] = "refused"
    /\ Gone(i, "failed")

-----------------------------------------------------------------------------
(* The rest of the run, with a ticker goroutine per host.                  *)

\* The ticker fires: Touch creates a missing file, empty.
Touch(i, h) ==
    /\ pc[i][h] = "ticking"
    /\ timer[i][h] = 0
    /\ \/ SetFile(h, IF content[h] = Absent THEN Empty ELSE content[h])
       \/ IOFails /\ FileUnchanged
    /\ timer' = [timer EXCEPT ![i][h] = TouchEvery]
    /\ UNCHANGED <<status, ctxDone, pc, attempts, statAge, forfeited>>

\* Unlock.Run calls Cancel, which cancels every ticker and waits for them.
Unlock(i) ==
    /\ status[i] = "working"
    /\ ~ctxDone[i]
    /\ status' = [status EXCEPT ![i] = "releasing"]
    /\ UNCHANGED <<content, age, ctxDone, pc, attempts, timer, statAge, forfeited>>

\* A ticker sees its context done and deletes the file, whoever's it is.
Release(i, h) ==
    /\ pc[i][h] = "ticking"
    /\ status[i] = "releasing" \/ ctxDone[i]
    /\ \/ SetFile(h, Absent)
       \/ IOFails /\ FileUnchanged
    /\ Goto(i, h, "released")
    /\ UNCHANGED <<status, ctxDone, attempts, timer, statAge, forfeited>>

\* Mutant of Unlocked: Cancel does not wait for the tickers.
UnlockedAtOnce(i) ==
    /\ status[i] = "releasing"
    /\ status' = [status EXCEPT ![i] = "done"]
    /\ UNCHANGED <<content, age, ctxDone, pc, attempts, timer, statAge, forfeited>>

\* wg.Wait returns: every ticker has deleted its file and the phase is over.
Unlocked(i) ==
    /\ status[i] = "releasing"
    /\ \A h \in Hosts : pc[i][h] = "released"
    /\ status' = [status EXCEPT ![i] = "done"]
    /\ UNCHANGED <<content, age, ctxDone, pc, attempts, timer, statAge, forfeited>>

\* A phase after Lock fails, or the manager sees the cancelled context: the
\* run returns an error and main calls os.Exit.
FailRun(i) == status[i] = "working" /\ Gone(i, "failed")

\* main's first SIGINT or SIGTERM cancels the context the tickers derive from.
Interrupt(i) ==
    /\ Interrupts
    /\ status[i] \in {"locking", "working"}
    /\ ~ctxDone[i]
    /\ ctxDone' = [ctxDone EXCEPT ![i] = TRUE]
    /\ UNCHANGED <<content, age, status, pc, attempts, timer, statAge, forfeited>>

Crash(i) ==
    /\ Crashes
    /\ status[i] \in {"locking", "working", "releasing"}
    /\ Gone(i, "crashed")

-----------------------------------------------------------------------------
(* Time.                                                                   *)

Waiting(i, h) == pc[i][h] \in {"wait", "ticking"}

\* No goroutine has a command to send: time passes only between them, unless
\* SlowCommands lets a command take as long as it likes.
Quiet ==
    /\ \A i \in Instances : \A h \in Hosts :
          /\ pc[i][h] \notin InFlight
          /\ Waiting(i, h) => timer[i][h] > 0 /\ ~ctxDone[i]
    /\ \A i \in Instances : status[i] # "releasing" /\ ~LockReturned(i)

Older(n) == IF n < StaleAfter THEN n + 1 ELSE n
Sooner(n) == IF n > 0 THEN n - 1 ELSE 0

Tick ==
    /\ SlowCommands \/ Quiet
    /\ age' = [h \in Hosts |-> Older(age[h])]
    /\ statAge' = [i \in Instances |-> [h \in Hosts |->
                     IF pc[i][h] = "read" THEN Older(statAge[i][h])
                                          ELSE statAge[i][h]]]
    /\ timer' = [i \in Instances |-> [h \in Hosts |->
                   IF Waiting(i, h) THEN Sooner(timer[i][h]) ELSE timer[i][h]]]
    /\ UNCHANGED <<content, status, ctxDone, pc, attempts, forfeited>>

-----------------------------------------------------------------------------
TryLockStep(i, h) ==
    \/ OpenFile(i, h) \/ OpenNew(i, h) \/ WriteId(i, h) \/ UndoWrite(i, h)
    \/ Stat(i, h) \/ Read(i, h) \/ Remove(i, h) \/ Retry(i, h)

\* Steps a live process takes on its own: the ones fairness is about.
InstanceStep(i) ==
    \/ \E h \in Hosts : TryLockStep(i, h) \/ Touch(i, h) \/ Release(i, h)
    \/ StartTickers(i) \/ FailLocking(i) \/ Unlocked(i)

Next ==
    \/ \E i \in Instances :
          \/ Start(i) \/ InstanceStep(i) \/ Unlock(i) \/ FailRun(i)
          \/ Interrupt(i) \/ Crash(i)
    \/ Tick

Spec == Init /\ [][Next]_vars

\* A live process keeps sending its commands and time keeps passing.  Nothing
\* makes a process start, finish its work, fail or be interrupted.
Fairness ==
    /\ \A i \in Instances : WF_vars(StartTickers(i) \/ FailLocking(i) \/ Unlocked(i))
    /\ \A i \in Instances : \A h \in Hosts :
          /\ WF_vars(TryLockStep(i, h))
          /\ WF_vars(Touch(i, h))
          /\ WF_vars(Release(i, h))
    /\ WF_vars(Tick)

FairSpec == Spec /\ Fairness

-----------------------------------------------------------------------------
(* Properties.                                                             *)

\* i's goroutine for h is past the point where it believes the file its own.
Holds(i, h) == pc[i][h] \in {"write", "undo", "locked", "ticking"}

\* i is in the phases between Lock and Unlock and has not been interrupted.
Working(i) == status[i] = "working" /\ ~ctxDone[i]

\* What tryLock does guarantee: two processes work at once only when, on every
\* host, one of them installed its file over an existing one (the stat and the
\* install of OpenFile are two commands) or took over a lock as stale.
ExclusiveUnlessForfeited ==
    \A i, j \in Instances :
        Working(i) /\ Working(j) /\ i # j => \A h \in Hosts : forfeited[h]

\* Where a process stands as a client of the lease on its hosts.
SeatOf(i) ==
    IF status[i] = "idle" THEN "out"
    ELSE IF status[i] = "locking" THEN "asking"
    ELSE IF Working(i) THEN "in"
    ELSE IF status[i] \in {"working", "releasing"} THEN "leaving"
    ELSE "left"

LeaseOnHosts == INSTANCE Lease WITH
    Clients <- Instances,
    seat <- [i \in Instances |-> SeatOf(i)],
    lost <- {h \in Hosts : forfeited[h]}

\* The Lock and Unlock phases implement the lease: a process interrupted while it
\* waits never gets to work, one that stopped working does not start again, and
\* nobody but a process still in its Lock phase takes a host from its holder.
ImplementsLease == LeaseOnHosts!LeaseSpec

\* "held for the rest of the run": a file that a live process counts on is
\* never old enough for another process to take it over as stale.
HeldLockStaysFresh ==
    \A i \in Instances : \A h \in Hosts :
        Holds(i, h) /\ content[h] # Absent => age[h] < StaleAfter

\* Test_92_Unlock: the lock file a process wrote is gone once its Unlock is over,
\* so that the next run does not have to wait for it to expire.
UnlockReleases ==
    \A i \in Instances : \A h \in Hosts : status[i] = "done" => content[h] # i

\* retry.Times bounds the wait: processes that find each other's lock files
\* do not wait on one another for ever.
LockingEnds ==
    \A i \in Instances : status[i] = "locking" ~> status[i] # "locking"

\* Tries that i can still make for h before its lock file would be judged stale
\* are enough: the retries outlast StaleAfter.
OutlastsExpiry(i, h) ==
    (MaxAttempts - attempts[i][h] - 1) * RetryEvery >= StaleAfter

Left(i) == status[i] \in {"idle", "done", "failed", "crashed"}
Alone(i) == \A j \in Instances \ {i} : Left(j)

WaitsAlone(i) ==
    /\ status[i] = "locking"
    /\ \A h \in Hosts : OutlastsExpiry(i, h)
    /\ Alone(i)

\* A lock file nobody keeps alive delays a run and does not fail it: a process
\* that is locking, has the retries for it and stays alone gets the lock.
AbandonedLockGivesWay ==
    \A i \in Instances :
        WaitsAlone(i) ~> (status[i] \in {"working", "crashed"} \/ ctxDone[i] \/ ~Alone(i))
=============================================================================
