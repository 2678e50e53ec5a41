------------------------------ MODULE Receipts ------------------------------
(* The record of a run: what the phases noted of each host, the receipt that *)
(* is built from it, the file it is written to, and its copy for sharing     *)
(* (internal/receipt, cmd/receipt.go, cmd/misc_redact_receipt.go).           *)
EXTENDS Integers, Sequences, FiniteSets, Functions

CONSTANTS
    Writers,        \* processes of the management node
    Fleet,          \* the hosts of the cluster configuration in its order: [at, port], numbers
    Ledgers,        \* what the phases of a run did: sequences of [as, declared, visits]
    Lines,          \* command lines: sequences of [kind, secret]
    CommandNames,   \* "apply", "reset", ...
    Settings,       \* receipt paths as given: "none", "literal", "template"
    NoPath,         \* no receipt was asked for
    Literal,        \* a path without placeholders
    Shared,         \* where an operator puts a redacted copy
    MaxPort,        \* the last port of a machine
    MaxClock,       \* bound on the seconds that pass
    MaxReceipts     \* bound on the runs

Machine == [at : Nat \ {0}, port : 0..MaxPort]
HostVisit == [host : Machine, what : {"observed", "changed", "file"}]
PhaseRecord == [as : {"ran", "planned", "skipped"}, declared : BOOLEAN, visits : Seq(HostVisit)]
Argument == [kind : {"flag", "joined", "credential", "hidden"}, secret : BOOLEAN]

\* The value of a credential flag is the word after it, which is no flag whatever it looks like.
ValueWords(line, values) ==
    \A i \in DOMAIN line : values[i] = (i > 1 /\ line[i - 1].kind = "credential" /\ ~values[i - 1])

KnownHosts == Range(Fleet) \union {v.host : v \in UNION {Range(ph.visits) : ph \in UNION {Range(l) : l \in Ledgers}}}

\* A host is listed once and spelled in one way; a secret is a credential flag's value, beside it or behind it.
ASSUME ReceiptsAssumption ==
    /\ Fleet \in Seq(Machine) /\ IsInjective(Fleet)
    /\ Ledgers \subseteq Seq(PhaseRecord)
    /\ \A g, h \in KnownHosts : g.at = h.at /\ {g.port, h.port} \subseteq {0, 22} => g = h
    /\ Lines \subseteq Seq(Argument)
    /\ \A line \in Lines : \E values \in [DOMAIN line -> BOOLEAN] :
        ValueWords(line, values) /\ \A i \in DOMAIN line : line[i].secret => line[i].kind = "joined" \/ values[i]
    /\ Literal # Shared /\ NoPath \notin {Literal, Shared} /\ {Literal, Shared, NoPath} \intersect (CommandNames \X Nat) = {}
    /\ {MaxPort, MaxClock, MaxReceipts} \subseteq Nat

VARIABLES
    clock,          \* seconds
    writer,         \* what a process does, with the record it holds
    onDisk,         \* what is at a path: [state, body]
    history         \* the runs: their command, second, path and whether they said "written"

receiptVars == <<clock, writer, onDisk, history>>

-----------------------------------------------------------------------------
(* What a phase records of the hosts it visits, in the order its goroutines end. *)

\* Mutant of ConfiguredAddress: hosts behind one address are told apart by nothing.
AddressAlone(h) == h.at

\* A host is known by the address in its configuration, and by the port unless it is ssh's own.
ConfiguredAddress(h) == (MaxPort + 1) * h.at + (IF h.port \in {0, 22} THEN 0 ELSE h.port)

\* observed, changedHost, changedFile: the first mention makes the entry.
HostChange(visits, address) ==
    LET own == {i \in DOMAIN visits : ConfiguredAddress(visits[i].host) = address} IN
    [host |-> address, changed |-> \E i \in own : visits[i].what # "observed",
     diffs |-> Cardinality({i \in own : visits[i].what = "file"})]

\* The elements of a set of numbers in their order.
InOrder(S) == CHOOSE s \in [1..Cardinality(S) -> S] : \A i, j \in DOMAIN s : i < j => s[i] < s[j]

\* By address, and not in the order of the visits.
HostsChanged(visits) ==
    LET hosts == InOrder({ConfiguredAddress(visits[i].host) : i \in DOMAIN visits}) IN
    [i \in DOMAIN hosts |-> HostChange(visits, hosts[i])]

phaseResult(ph) ==
    [disposition |-> ph.as, declared |-> ph.declared, hosts |-> IF ph.declared THEN HostsChanged(ph.visits) ELSE <<>>]

Names(r, h) == \E i \in DOMAIN r.hosts : r.hosts[i].host = h

\* HostSummaries: a host that no phase named has no line.
HostSummary(phases, h) ==
    LET Reporting == {i \in DOMAIN phases : phases[i].declared}
        Naming == {i \in Reporting : Names(phases[i], h)}
    IN IF Naming = {} THEN [changed |-> FALSE, named |-> 0, reporting |-> 0]
       ELSE [changed |-> \E i \in Naming : \E j \in DOMAIN phases[i].hosts :
                            phases[i].hosts[j].host = h /\ phases[i].hosts[j].changed,
             named |-> Cardinality(Naming), reporting |-> Cardinality(Reporting)]

\* Every host of the configuration has a row, whether or not a phase spoke for it.
hostsOf(phases) ==
    [i \in DOMAIN Fleet |-> LET a == ConfiguredAddress(Fleet[i]) IN [address |-> a, summary |-> HostSummary(phases, a)]]

\* The cells of the table that is printed: nothing is said of a host that no phase named.
changedCell(summary) ==
    IF summary.reporting = 0 \/ summary.named = 0 THEN "-" ELSE IF summary.changed THEN "yes" ELSE "no"

\* What the note under the table counts.
HostsUndeclared(phases) == Cardinality({i \in DOMAIN phases : ~phases[i].declared})

-----------------------------------------------------------------------------
(* The receipt. *)

Hidden == [kind |-> "hidden", secret |-> FALSE]

\* --flag value and --flag=value, for the flags that carry a secret.
redactArgs(line) ==
    LET value[i \in DOMAIN line] == i > 1 /\ line[i - 1].kind = "credential" /\ ~value[i - 1]
    IN [i \in DOMAIN line |-> IF value[i] \/ line[i].kind = "joined" THEN Hidden ELSE line[i]]

\* The phases that ran, then the planned and the skipped ones, each in the order of the run.
phasesOf(ledger) ==
    LET Under(d) == InOrder({k \in DOMAIN ledger : ledger[k].as = d})
        all == Under("ran") \o Under("planned") \o Under("skipped")
    IN [i \in DOMAIN all |-> phaseResult(ledger[all[i]])]

Build(n, ledger, line, reached) ==
    LET phases == IF reached THEN phasesOf(ledger) ELSE <<>> IN
    [redacted |-> FALSE, run |-> n, args |-> redactArgs(line), phases |-> phases,
     hosts |-> IF reached THEN hostsOf(phases) ELSE <<>>]

\* The addresses of the rows alone: one that only a phase names has no alias.
rowAliases(r) == [i \in DOMAIN r.hosts |-> r.hosts[i].address]

\* The hosts of the phases, one phase after the other.
phaseHosts(r) ==
    LET upTo[k \in 0..Len(r.phases)] ==
            IF k = 0 THEN <<>> ELSE upTo[k - 1] \o [j \in DOMAIN r.phases[k].hosts |-> r.phases[k].hosts[j].host]
    IN upTo[Len(r.phases)]

\* The addresses a receipt mentions, the configuration's first, each once: its place is its alias.
hostAliases(r) ==
    LET mentions == [i \in DOMAIN r.hosts |-> r.hosts[i].address] \o phaseHosts(r)
        firsts == InOrder({i \in DOMAIN mentions : \A j \in 1..(i - 1) : mentions[j] # mentions[i]})
    IN [i \in DOMAIN firsts |-> mentions[firsts[i]]]

\* host-01, host-02, ... are -1, -2, ...; an address without an alias becomes the empty string, 0.
Alias(names, a) == IF a \in Range(names) THEN -(CHOOSE i \in DOMAIN names : names[i] = a) ELSE 0

\* A copy: the aliases for the addresses everywhere, no diff and no command line.
Redact(r) ==
    LET names == hostAliases(r)
        row(h) == [h EXCEPT !.address = Alias(names, h.address)]
        entry(h) == [h EXCEPT !.host = Alias(names, h.host), !.diffs = 0]
        phase(p) == [p EXCEPT !.hosts = [j \in DOMAIN p.hosts |-> entry(p.hosts[j])]]
    IN [r EXCEPT !.redacted = TRUE, !.args = <<>>, !.hosts = [i \in DOMAIN r.hosts |-> row(r.hosts[i])],
                 !.phases = [k \in DOMAIN r.phases |-> phase(r.phases[k])]]

-----------------------------------------------------------------------------
(* Files and commands. *)

Nothing == [state |-> "none", body |-> <<>>]
Resting == [pc |-> "rest"]

Templated == CommandNames \X (0..MaxClock)
ReceiptPaths == {Shared, Literal} \union Templated

ReceiptsInit ==
    /\ clock = 0
    /\ writer = [w \in Writers |-> Resting]
    /\ onDisk = [x \in ReceiptPaths |-> Nothing]
    /\ history = <<>>

Becomes(w, r) == writer' = [writer EXCEPT ![w] = r]

\* An unknown placeholder is refused before the run starts.
expandReceiptPath(setting, command) ==
    CASE setting = "none" -> NoPath
      [] setting = "literal" -> Literal
      [] OTHER -> <<command, clock>>

\* startReceipt, before anything that can fail; the command line is taken down at once.
startReceipt(w) ==
    /\ writer[w].pc = "rest" /\ Len(history) < MaxReceipts
    /\ \E c \in CommandNames, setting \in Settings, line \in Lines :
        LET path == expandReceiptPath(setting, c) IN
        /\ history' = Append(history, [command |-> c, at |-> clock, path |-> path, said |-> FALSE, copied |-> FALSE])
        /\ Becomes(w, [pc |-> "run", n |-> Len(history) + 1, line |-> line, path |-> path])
    /\ UNCHANGED <<clock, onDisk>>

\* The run ends, before or after its phases; the deferred finisher builds the record either way.
finish(w) ==
    /\ writer[w].pc = "run"
    /\ \E ledger \in Ledgers, reached \in BOOLEAN :
        Becomes(w, IF writer[w].path = NoPath THEN Resting
                   ELSE [pc |-> "open", n |-> writer[w].n, path |-> writer[w].path,
                         ledger |-> IF reached THEN ledger ELSE <<>>,
                         body |-> Build(writer[w].n, ledger, writer[w].line, reached)])
    /\ UNCHANGED <<clock, onDisk, history>>

\* O_CREATE and O_TRUNC; a write that fails from here on leaves what it leaves.
Open(w) ==
    /\ writer[w].pc = "open"
    /\ \/ Becomes(w, Resting) /\ UNCHANGED onDisk
       \/ /\ Becomes(w, [writer[w] EXCEPT !.pc = "write"])
          /\ onDisk' = [onDisk EXCEPT ![writer[w].path] = [state |-> "empty", body |-> <<>>]]
    /\ UNCHANGED <<clock, history>>

\* The body goes over what another writer put there since the truncation: a longer one's tail
\* stays, and what is there does not parse.
Write(w) ==
    /\ writer[w].pc = "write"
    /\ LET x == writer[w].path
           Partial == [state |-> "garbled", body |-> <<>>]
       IN \/ Becomes(w, Resting) /\ onDisk' = [onDisk EXCEPT ![x] = Partial] /\ UNCHANGED history
          \/ \E whole \in IF onDisk[x].state = "empty" THEN {TRUE} ELSE BOOLEAN :
                /\ onDisk' = [onDisk EXCEPT ![x] =
                       IF whole THEN [state |-> "whole", body |-> writer[w].body] ELSE Partial]
                /\ history' = IF writer[w].n = 0 THEN history ELSE [history EXCEPT ![writer[w].n].said = TRUE]
                /\ Becomes(w, Resting)
    /\ UNCHANGED clock

\* A receipt that was cut or written over does not parse.
Read(x) == onDisk[x].state = "whole"

\* redact-receipt: a redacted one is refused, and the copy goes where the operator says, which
\* may be the file it was read from (Literal).
redactReceipt(w) ==
    /\ writer[w].pc = "rest"
    /\ \E x \in ReceiptPaths, out \in {Shared, Literal} :
        /\ Read(x) /\ ~onDisk[x].body.redacted
        /\ Becomes(w, [pc |-> "open", n |-> 0, path |-> IF out = Shared THEN Shared ELSE x, ledger |-> <<>>,
                       body |-> Redact(onDisk[x].body)])
        /\ history' = [n \in DOMAIN history |->
               IF out # Shared /\ history[n].path = x THEN [history[n] EXCEPT !.copied = TRUE] ELSE history[n]]
    /\ UNCHANGED <<clock, onDisk>>

Tick ==
    /\ clock < MaxClock /\ clock' = clock + 1
    /\ UNCHANGED <<writer, onDisk, history>>

ReceiptsNext ==
    \/ \E w \in Writers : startReceipt(w) \/ finish(w) \/ Open(w) \/ Write(w) \/ redactReceipt(w)
    \/ Tick

ReceiptsSpec == ReceiptsInit /\ [][ReceiptsNext]_receiptVars

-----------------------------------------------------------------------------
InHand == {writer[w] : w \in {v \in Writers : writer[v].pc \in {"open", "write"}}}
Bodies == {onDisk[x].body : x \in {y \in ReceiptPaths : Read(y)}}

Answers(ledger, body) ==
    \A i \in DOMAIN body.hosts :
        LET row == body.hosts[i]
            Of(k) == {v \in Range(ledger[k].visits) : v.host = Fleet[i]}
            Telling == {k \in DOMAIN ledger : ledger[k].declared}
        IN /\ row.summary.changed <=> \E k \in Telling : \E v \in Of(k) : v.what # "observed"
           /\ row.summary.named = Cardinality({k \in Telling : Of(k) # {}})
           /\ changedCell(row.summary) = "no" => \E k \in Telling : Of(k) # {}
           /\ row.summary.named > 0 =>
                 row.summary.reporting = Len(ledger) - HostsUndeclared(body.phases)
           /\ Len(body.phases) = Len(ledger)

\* The rows of a receipt answer for the ledger it was built from: a host is changed if and only if a
\* phase that reports per host changed it, in whatever order the hosts were visited and whatever
\* address it shares, the counts beside it never say more than the phases did, and no phase is lost.
RowsAnswer == \A r \in {x \in InHand : x.n # 0 /\ x.ledger # <<>>} : Answers(r.ledger, r.body)

\* No value of a credential flag is in a command line that a receipt records.
NoSecrets == \A b \in Bodies \union {r.body : r \in InHand} : \A i \in DOMAIN b.args : ~b.args[i].secret

\* In a redacted receipt every mention of a host is an alias, and no two hosts share one: the
\* configuration's are its first, in its order.
AliasesApart ==
    \A b \in {x \in Bodies \union {r.body : r \in InHand} : x.redacted} :
        /\ \A i \in DOMAIN b.hosts : b.hosts[i].address = -i
        /\ \A k \in DOMAIN b.phases : \A i, j \in DOMAIN b.phases[k].hosts :
              /\ b.phases[k].hosts[i].host < 0 /\ b.phases[k].hosts[i].diffs = 0
              /\ i # j => b.phases[k].hosts[i].host # b.phases[k].hosts[j].host

\* The audit trail: the receipt of a run that said it wrote one is still there, whole and in full,
\* unless another run was given the same path or a copy was written over it.
TrailKept ==
    \A n \in {i \in DOMAIN history : history[i].said /\ ~history[i].copied /\ history[i].path # Literal} :
        LET f == onDisk[history[n].path] IN
        \/ f.state = "whole" /\ f.body.run = n /\ ~f.body.redacted
        \/ \E m \in DOMAIN history \ {n} : history[m].path = history[n].path

\* What the records of the runs say is so, stays so, and is fit to be shared once redacted.
ReceiptsSound == RowsAnswer /\ NoSecrets /\ AliasesApart /\ TrailKept
=============================================================================
