--------------------------------- MODULE Vault ---------------------------------
(***************************************************************************)
(* The credentials of a cluster configuration: the vault commands that     *)
(* encrypt, decrypt and rekey them in the operator's file, the keys they   *)
(* do it with, and the apply that reads them.                              *)
(*                                                                         *)
(* A value is a plaintext under layers of encryption, the outermost last.  *)
(* Two paths may name one value through an alias of YAML.  A command reads *)
(* the file, works out the new document in memory and replaces the file,   *)
(* with nothing to keep a second command or an editor out in between.      *)
(***************************************************************************)
EXTENDS Naturals, Sequences, FiniteSets, Functions

CONSTANTS
    Procs,      \* commands at work
    PathSeq,    \* the paths apply decrypts, in the order they are walked
    OtherPaths, \* further paths an operator may name
    NodeOf,     \* [path -> the value it names]
    Blank,      \* values that are empty to begin with
    ArgLists,      \* the sequences of paths an operator may type, each a spelling and a path
    Styles,     \* whether metadata is a block mapping, where recipients can be recorded
    Passwords,  \* Ansible Vault passwords
    NoPassword,
    KeyFiles,   \* names of age identity files
    MaxLayers, MaxOps   \* bounds; the commands, for each way metadata is written

Credentials == Range(PathSeq)
Paths == Credentials \union OtherPaths
Nodes == {NodeOf[path] : path \in Paths}
AgeKeys == 1..Cardinality(KeyFiles)
Empty == "empty"
Garbled == "garbled"
NoKey == 0

ASSUME VaultAssumption ==
    /\ PathSeq \in Seq(Credentials) /\ ArgLists \subseteq Seq([spelling : STRING, path : Paths])
    /\ NoPassword \notin Passwords /\ IsFiniteSet(KeyFiles)
    /\ Styles \subseteq BOOLEAN /\ {Empty, Garbled} \intersect Nodes = {}
    /\ MaxLayers \in Nat \ {0} /\ MaxOps \in [Styles -> Nat]

VARIABLES
    file,       \* the configuration: its values, the recipients it records, how it is written
    proc,       \* [Procs -> a command, or an apply with the credentials it gives the hosts]
    keyfile,    \* [KeyFiles -> the identity in it, NoKey for no file]
    raced,      \* a command replaced a file that had changed since it was read
    ops

vaultVars == <<file, proc, keyfile, raced, ops>>

Value(s, layers) == [plain |-> s, layers |-> layers]
IsEncrypted(v) == v.layers # <<>>
Top(v) == v.layers[Len(v.layers)]
Unwrapped(v) == [v EXCEPT !.layers = SubSeq(@, 1, Len(@) - 1)]

(* parseYAML resolves anchors and aliases: a path leads to the value an anchor holds. *)
At(doc, path) == doc.vals[NodeOf[path]]

NoDoc == [vals |-> <<>>, record |-> {}, block |-> FALSE, awkward |-> {}]
NoRing == [pw |-> NoPassword, ids |-> {}]
NoLayer == [fmt |-> "none", by |-> {}]
Idle == [pc |-> "idle", cmd |-> "", base |-> NoDoc, doc |-> NoDoc, skipped |-> {}, key |-> NoLayer,
         ring |-> NoRing, cfg |-> <<>>]

VaultTypeOK ==
    /\ \A n \in Nodes :
        /\ file.vals[n].plain \in {n, Empty, Garbled} /\ Len(file.vals[n].layers) <= MaxLayers
        /\ \A i \in 1..Len(file.vals[n].layers) :
            LET l == file.vals[n].layers[i] IN
            \/ l.fmt = "vault" /\ \E pw \in Passwords : l.by = {pw}
            \/ l.fmt = "age" /\ l.by \subseteq AgeKeys /\ l.by # {}
    /\ file.record \subseteq AgeKeys
    /\ \A p \in Procs : proc[p].pc \in {"idle", "writing", "verified", "configured", "synced", "applied", "refused"}
    /\ keyfile \in [KeyFiles -> AgeKeys \union {NoKey}]
    /\ raced \in BOOLEAN /\ ops \in 0..MaxOps[file.block]

VaultInit ==
    /\ \E block \in Styles :
        file = [vals |-> [n \in Nodes |-> Value(IF n \in Blank THEN Empty ELSE n, <<>>)],
                record |-> {}, block |-> block, awkward |-> {}]
    /\ proc = [p \in Procs |-> Idle]
    /\ keyfile = [f \in KeyFiles |-> NoKey]
    /\ raced = FALSE /\ ops = 0

Op == ops < MaxOps[file.block] /\ ops' = ops + 1

-----------------------------------------------------------------------------
(* Keys *)

Generated == {keyfile[f] : f \in KeyFiles} \ {NoKey}

(* ResolveKeyring: a password from a flag or the environment, identities from the files named,     *)
(* recipients from flags and the config file or from the environment. *)
ResolveKeyring(gen) ==
    {k \in [pw : Passwords \union {NoPassword}, pwFlag : BOOLEAN, ids : SUBSET gen,
            recips : SUBSET gen, ageFlag : BOOLEAN] :
        (k.pw = NoPassword => ~k.pwFlag) /\ (k.recips = {} => ~k.ageFlag)}

EncryptFormat(k) ==
    IF k.recips = {} THEN IF k.pw = NoPassword THEN "none" ELSE "vault"
    ELSE IF k.ageFlag /\ k.pwFlag THEN "both" ELSE "age"

(* The key a keyring encrypts with, and what it reads with. *)
EncryptKey(k) == IF EncryptFormat(k) = "age" THEN [fmt |-> "age", by |-> k.recips]
                 ELSE [fmt |-> "vault", by |-> {k.pw}]
WriteKeys == [gen \in SUBSET AgeKeys |->
    {EncryptKey(k) : k \in {x \in ResolveKeyring(gen) : EncryptFormat(x) \in {"age", "vault"}}}]
ReadRings == [gen \in SUBSET AgeKeys |-> {[pw |-> k.pw, ids |-> k.ids] : k \in ResolveKeyring(gen)}]

(* RekeyTarget: recipients, a new password, or else the password the file is read with. *)
RekeyTarget(ring, recips, newPw) ==
    IF recips # {} THEN IF newPw = NoPassword THEN [fmt |-> "age", by |-> recips] ELSE NoLayer
    ELSE LET pw == IF newPw = NoPassword THEN ring.pw ELSE newPw IN
         IF pw = NoPassword THEN NoLayer ELSE [fmt |-> "vault", by |-> {pw}]

EncryptValue(v, key) == [v EXCEPT !.layers = Append(@, key)]

(* DecryptValue: the header says which key it takes. *)
CanRead(v, ring) ==
    IF Top(v).fmt = "vault" THEN Top(v).by = {ring.pw} ELSE Top(v).by \intersect ring.ids # {}

\* Mutant of Keygen: the file is replaced.
KeygenOverwrites(f) ==
    /\ Cardinality(Generated) < Cardinality(KeyFiles)
    /\ keyfile' = [keyfile EXCEPT ![f] = Cardinality(Generated) + 1]
    /\ UNCHANGED <<file, proc, raced, ops>>

(* keygen, into a file that is not there. *)
Keygen(f) ==
    /\ keyfile[f] = NoKey
    /\ keyfile' = [keyfile EXCEPT ![f] = Cardinality(Generated) + 1]
    /\ UNCHANGED <<file, proc, raced, ops>>

-----------------------------------------------------------------------------
(* Rewriting one value. An outcome is a document or a failure. *)

Done(doc) == [ok |-> TRUE, doc |-> doc, changed |-> {}, skipped |-> {}]
Failure == [ok |-> FALSE, doc |-> NoDoc, changed |-> {}, skipped |-> {}]

(* spliceScalar writes over the bytes of the value, which it finds wrong in some hand-written YAML. *)
spliceScalar(doc, n, v) ==
    [doc EXCEPT !.vals[n] = IF n \in doc.awkward THEN Value(Garbled, <<>>) ELSE v]

\* Mutant of verifiedRewrite: what was written is taken to be right.
verifiedRewriteTrusting(doc, n, want) == Done(doc)

(* verifiedRewrite: the value has to read back as it was written. *)
verifiedRewrite(doc, n, want) == IF doc.vals[n] = want THEN Done(doc) ELSE Failure

Rewritten(doc, n, v) == verifiedRewrite(spliceScalar(doc, n, v), n, v)

EncryptAtPath(doc, path, key, force) ==
    LET n == NodeOf[path] v == At(doc, path) IN
    IF (IsEncrypted(v) /\ ~force) \/ Len(v.layers) = MaxLayers THEN Failure
    ELSE Rewritten(doc, n, EncryptValue(v, key))

DecryptAtPath(doc, path, ring) ==
    LET n == NodeOf[path] v == At(doc, path) IN
    IF ~IsEncrypted(v) THEN Failure
    ELSE IF ~CanRead(v, ring) THEN Failure
    ELSE Rewritten(doc, n, Unwrapped(v))

\* Mutant of RekeyAtPath: only the outer layer is looked at.
RekeyAtPathOuter(doc, path, from, to) ==
    LET n == NodeOf[path] v == At(doc, path) IN
    IF ~IsEncrypted(v) \/ ~CanRead(v, from) \/ to = NoLayer THEN Failure
    ELSE Rewritten(doc, n, EncryptValue(Unwrapped(v), to))

RekeyAtPath(doc, path, from, to) ==
    LET n == NodeOf[path] v == At(doc, path) IN
    IF ~IsEncrypted(v) \/ to = NoLayer THEN Failure
    ELSE IF ~CanRead(v, from) \/ IsEncrypted(Unwrapped(v)) THEN Failure
    ELSE Rewritten(doc, n, EncryptValue(Unwrapped(v), to))

-----------------------------------------------------------------------------
(* Rewriting the credentials of a file *)

(* credentialPaths: of the paths that name one value, the first. *)
credentialPaths ==
    {i \in 1..Len(PathSeq) : \A j \in 1..(i - 1) : NodeOf[PathSeq[j]] # NodeOf[PathSeq[i]]}

(* There is something at the path to rewrite: it is in the document and has a value. *)
scalarAtPath(doc, path) == At(doc, path) # Value(Empty, <<>>)

(* rewriteConfig over the credentials of the file.  Of a value it is wanted "yes", "no", "skip" *)
(* (no, and say so) or "error"; the first error ends it. *)
rewriteValue(acc, path, wanted, r) ==
    IF ~acc.ok \/ ~scalarAtPath(acc.doc, path) \/ wanted = "no" THEN acc
    ELSE IF wanted = "skip" THEN [acc EXCEPT !.skipped = @ \union {path}]
    ELSE IF wanted = "yes" /\ r.ok THEN [acc EXCEPT !.doc = r.doc, !.changed = @ \union {path}]
    ELSE Failure

rewriteNext(acc, i, wanted(_), rewrite(_, _)) ==
    LET path == PathSeq[i] IN
    IF i \in credentialPaths THEN rewriteValue(acc, path, wanted(At(acc.doc, path)), rewrite(acc.doc, path)) ELSE acc

rewriteConfig(src, wanted(_), rewrite(_, _)) ==
    LET walked[i \in 0..Len(PathSeq)] ==
            IF i = 0 THEN Done(src) ELSE rewriteNext(walked[i - 1], i, wanted, rewrite)
    IN walked[Len(PathSeq)]

(* The record of who can read the file is kept under metadata, where that is a block mapping. *)
metadataValues(doc) == doc.block

(* The record is a set of keys: their order, and the comment of a key, say nothing about who can  *)
(* read the file.  No key, no record. *)
RecordedRecipients(doc) == doc.record
SameRecipients(recorded, named) == recorded = named
renderRecipientRecord(doc, named) == [doc EXCEPT !.record = named]

recordRecipients(doc, key) == IF metadataValues(doc) THEN renderRecipientRecord(doc, key.by) ELSE doc

HasAge(doc) == \E n \in Nodes : IsEncrypted(doc.vals[n]) /\ Top(doc.vals[n]).fmt = "age"

stripRecipientRecord(doc) == IF metadataValues(doc) THEN renderRecipientRecord(doc, {}) ELSE doc

stripRecordWhenNoAge(doc) == IF HasAge(doc) THEN doc ELSE stripRecipientRecord(doc)

(* A vaulted value has to be one the password reads. *)
Probe(v, key) == IF Top(v) = key THEN "no" ELSE "error"

(* A value that is encrypted and cannot be moved onto the key given is left and reported. *)
EncryptConfig(src, key, force) ==
    LET wanted(v) ==
            IF force \/ ~IsEncrypted(v) THEN "yes"
            ELSE IF Top(v).fmt = "vault" /\ key.fmt = "vault" THEN Probe(v, key)
            ELSE "skip"
        r == rewriteConfig(src, wanted, LAMBDA doc, path : EncryptAtPath(doc, path, key, TRUE))
    IN IF r.ok /\ key.fmt = "age" /\ r.changed # {} THEN [r EXCEPT !.doc = recordRecipients(@, key)] ELSE r

(* What encrypt-file says about the record: that it could not be written, and that the values left *)
(* as they were are for others than the recipients named. *)
reportRecipientRecord(src, r, key) ==
    {w \in {"unrecorded", "others"} :
        /\ key.fmt = "age"
        /\ w = "unrecorded" => r.changed # {} /\ RecordedRecipients(r.doc) = {}
        /\ w = "others" => /\ r.skipped # {} /\ RecordedRecipients(src) # {}
                           /\ ~SameRecipients(RecordedRecipients(src), key.by)}

DecryptConfig(src, ring) ==
    LET r == rewriteConfig(src, LAMBDA v : IF IsEncrypted(v) THEN "yes" ELSE "no",
                           LAMBDA doc, path : DecryptAtPath(doc, path, ring))
    IN IF r.ok THEN [r EXCEPT !.doc = stripRecordWhenNoAge(@)] ELSE r

RekeyConfig(src, from, to) ==
    LET wanted(v) == IF ~IsEncrypted(v) THEN "no" ELSE IF CanRead(v, from) THEN "yes" ELSE "error"
        r == rewriteConfig(src, wanted, LAMBDA doc, path : RekeyAtPath(doc, path, from, to))
    IN IF ~r.ok \/ r.changed = {} THEN r
       ELSE IF to.fmt = "age" THEN [r EXCEPT !.doc = recordRecipients(@, to)]
       ELSE [r EXCEPT !.doc = stripRecordWhenNoAge(@)]

(* encrypt-path and decrypt-path, over the paths named. *)
rewriteAt(acc, path, rewrite(_, _)) ==
    IF acc.ok THEN [rewrite(acc.doc, path) EXCEPT !.changed = {path}] ELSE acc

AtPaths(src, paths, rewrite(_, _)) ==
    LET walked[i \in 0..Len(paths)] ==
            IF i = 0 THEN Done(src) ELSE rewriteAt(walked[i - 1], paths[i], rewrite)
    IN walked[Len(paths)]

-----------------------------------------------------------------------------
(* Commands *)

(* A path is typed with or without its root; one with a key in quotes has no spelling that reads   *)
(* back and is refused. *)
parseYAMLPath(typed) == IF typed.spelling \in {"$.", ".", ""} THEN {typed.path} ELSE {}
CanonicalYAMLPath(typed) == CHOOSE path \in parseYAMLPath(typed) : TRUE

(* Each path once, however it is spelled. Two paths may still name one value. *)
canonicalYAMLPaths ==
    {[i \in 1..Len(ps) |-> CanonicalYAMLPath(ps[i])] : ps \in
        {xs \in ArgLists : /\ \A i \in 1..Len(xs) : parseYAMLPath(xs[i]) # {}
                        /\ \A i, j \in 1..Len(xs) : i # j => CanonicalYAMLPath(xs[i]) # CanonicalYAMLPath(xs[j])}}

(* A command read the file and has the document to replace it with; one that fails, or has nothing *)
(* to change, or is a dry run, leaves everything as it was. *)
WorkOut(p, cmd, r, key) ==
    /\ proc[p].pc = "idle" /\ \A q \in Procs : proc[q].cmd # "apply"
    /\ Op
    /\ r.ok /\ r.changed # {}
    /\ proc' = [proc EXCEPT ![p] = [Idle EXCEPT !.pc = "writing", !.cmd = cmd, !.base = file,
                                                !.doc = r.doc, !.skipped = r.skipped, !.key = key]]
    /\ UNCHANGED <<file, keyfile, raced>>

EncryptFile(p) == \E key \in WriteKeys[Generated], force \in BOOLEAN :
    WorkOut(p, "encrypt-file", EncryptConfig(file, key, force), key)
DecryptFile(p) == \E ring \in ReadRings[Generated] :
    WorkOut(p, "decrypt-file", DecryptConfig(file, ring), NoLayer)
Rekey(p) == \E ring \in ReadRings[Generated], rs \in SUBSET Generated, newPw \in Passwords \union {NoPassword} :
    LET to == RekeyTarget(ring, rs, newPw) IN WorkOut(p, "rekey", RekeyConfig(file, ring, to), to)

\* Mutant of EncryptPath: a value that is encrypted already is decrypted.
EncryptPathToggles(p) == \E key \in WriteKeys[Generated], force \in BOOLEAN, paths \in canonicalYAMLPaths :
    WorkOut(p, "encrypt-path", AtPaths(file, paths, LAMBDA doc, path :
        IF force THEN Rewritten(doc, NodeOf[path], [At(doc, path) EXCEPT !.layers = <<>>])
        ELSE EncryptAtPath(doc, path, key, force)), key)

EncryptPath(p) == \E key \in WriteKeys[Generated], force \in BOOLEAN, paths \in canonicalYAMLPaths :
    WorkOut(p, "encrypt-path", AtPaths(file, paths, LAMBDA doc, path : EncryptAtPath(doc, path, key, force)), key)
DecryptPath(p) == \E ring \in ReadRings[Generated], paths \in canonicalYAMLPaths :
    WorkOut(p, "decrypt-path", AtPaths(file, paths, LAMBDA doc, path : DecryptAtPath(doc, path, ring)), NoLayer)

(* writeFileInPlace: a temporary file beside it, and a rename. *)
Replace(p) ==
    /\ proc[p].pc = "writing"
    /\ file' = proc[p].doc
    /\ raced' = (raced \/ file # proc[p].base)
    /\ proc' = [proc EXCEPT ![p] = Idle]
    /\ UNCHANGED <<keyfile, ops>>

(* The write fails or the process dies. *)
ReplaceFails(p) ==
    /\ proc[p].pc = "writing"
    /\ proc' = [proc EXCEPT ![p] = Idle]
    /\ UNCHANGED <<file, keyfile, raced, ops>>

(* The operator writes a credential into the file, in one YAML or another. *)
Fill(n) ==
    /\ file.vals[n] = Value(Empty, <<>>)
    /\ \E odd \in {{}, {n}} : file' = [file EXCEPT !.vals[n] = Value(n, <<>>), !.awkward = @ \union odd]
    /\ UNCHANGED <<proc, keyfile, raced, ops>>

-----------------------------------------------------------------------------
(* Apply *)

Copy == [c \in Credentials |-> At(file, c)]

(* DecryptRegistryAuth takes one layer off every encrypted credential, in the copy in memory. *)
Readable(cfg, k) == \A c \in Credentials : IsEncrypted(cfg[c]) => CanRead(cfg[c], k)
DecryptRegistryAuth(cfg) ==
    [c \in Credentials |-> IF IsEncrypted(cfg[c]) THEN Unwrapped(cfg[c]) ELSE cfg[c]]

\* Mutant of VerifyRegistryAuth: it looks for a key of the right kind.
VerifyRegistryAuthKind(p) ==
    /\ \A q \in Procs : proc[q].pc = "idle"
    /\ \E k \in ReadRings[Generated] :
        /\ \A c \in Credentials : IsEncrypted(Copy[c]) =>
             IF Top(Copy[c]).fmt = "vault" THEN k.pw # NoPassword ELSE k.ids # {}
        /\ proc' = [proc EXCEPT ![p] = [Idle EXCEPT !.pc = "verified", !.cmd = "apply", !.base = file,
                                                    !.ring = k, !.cfg = Copy]]
    /\ UNCHANGED <<file, keyfile, raced, ops>>

(* The command verifies the credentials on a copy before it starts. It reads the file once and     *)
(* never writes it, so that nothing is lost by running it while no other command is under way. *)
VerifyRegistryAuth(p) ==
    /\ \A q \in Procs : proc[q].pc = "idle"
    /\ \E k \in ReadRings[Generated] :
        /\ Readable(Copy, k)
        /\ proc' = [proc EXCEPT ![p] = [Idle EXCEPT !.pc = "verified", !.cmd = "apply", !.base = file,
                                                    !.ring = k, !.cfg = Copy]]
    /\ UNCHANGED <<file, keyfile, raced, ops>>

(* A phase decrypts them for good and writes them to the hosts; the one after it does so again. *)
Deliver(p, from, to) ==
    /\ proc[p].pc = from
    /\ IF Readable(proc[p].cfg, proc[p].ring)
       THEN proc' = [proc EXCEPT ![p] = [@ EXCEPT !.pc = to, !.cfg = DecryptRegistryAuth(proc[p].cfg)]]
       ELSE proc' = [proc EXCEPT ![p].pc = "refused"]
    /\ UNCHANGED <<file, keyfile, raced, ops>>

ConfigureEngine(p) == Deliver(p, "verified", "configured")
SyncControllers(p) == Deliver(p, "configured", "synced")
SyncWorkers(p) == Deliver(p, "synced", "applied")

Applied(p) ==
    /\ proc[p].pc \in {"applied", "refused"} /\ proc' = [proc EXCEPT ![p] = Idle]
    /\ UNCHANGED <<file, keyfile, raced, ops>>

VaultNext ==
    \/ \E p \in Procs :
        \/ EncryptFile(p) \/ DecryptFile(p) \/ Rekey(p) \/ EncryptPath(p) \/ DecryptPath(p)
        \/ Replace(p) \/ ReplaceFails(p)
        \/ VerifyRegistryAuth(p) \/ ConfigureEngine(p) \/ SyncControllers(p) \/ SyncWorkers(p) \/ Applied(p)
    \/ \E f \in KeyFiles : Keygen(f)
    \/ \E n \in Nodes : Fill(n)

VaultSpec == VaultInit /\ [][VaultNext]_vaultVars

-----------------------------------------------------------------------------
Writing == {proc[p] : p \in {q \in Procs : proc[q].pc = "writing"}}
CredentialNodes == {NodeOf[c] : c \in Credentials}
Secrets(doc) == {doc.vals[n] : n \in CredentialNodes} \ {Value(Empty, <<>>)}
Wrapped(doc) == {v \in Secrets(doc) : IsEncrypted(v)}

(* Under its layers every value is what the operator wrote, in the file and in every document that *)
(* is about to replace it, whatever was done to it and however its YAML is written: the plaintext  *)
(* is nowhere else once a command has replaced it. *)
SecretsKept ==
    \A doc \in {file} \union {w.doc : w \in Writing}, n \in Nodes :
        doc.vals[n].plain \in {n} \union (IF n \in Blank THEN {Empty} ELSE {})

(* The identity of every recipient the file was ever encrypted to is still in a file: keygen never *)
(* writes over one. *)
RecipientsHeld ==
    \A n \in Nodes : \A i \in 1..Len(file.vals[n].layers) :
        LET l == file.vals[n].layers[i] IN l.fmt = "age" => l.by \subseteq Generated

Once(doc) == \A n \in Nodes : Len(doc.vals[n].layers) <= 1

Vaulted(doc) == {v \in Wrapped(doc) : Top(v).fmt = "vault"}
OneOpensAll(doc) == \A u, v \in Vaulted(doc) : Top(u).by = Top(v).by

(* A command over the whole file never mixes passwords: an apply reads with one.  Under an age     *)
(* layer that decrypt-file takes off, values that were wrapped twice may be of several passwords.  *)
OnePassword ==
    \A w \in Writing :
        (/\ w.cmd \in {"encrypt-file", "decrypt-file", "rekey"} /\ OneOpensAll(w.base)
         /\ w.cmd = "decrypt-file" => Once(w.base)) => OneOpensAll(w.doc)

(* encrypt-file that has nothing to report leaves every credential under the key it was given. *)
SilentMeansDone ==
    \A w \in Writing : w.cmd = "encrypt-file" /\ w.skipped = {} =>
        \A v \in Secrets(w.doc) : IsEncrypted(v) /\ Top(v) = w.key

(* rekey leaves every credential that was encrypted under the new key and no other, so that the    *)
(* new key alone opens the file; two paths to one value included. *)
RekeyedWhole ==
    \A w \in Writing : w.cmd = "rekey" =>
        \A n \in CredentialNodes : IsEncrypted(w.base.vals[n]) => w.doc.vals[n].layers = <<w.key>>

(* The record names the recipients of every credential that is encrypted to some. *)
Truthful(doc) ==
    doc.record # {} => \A v \in Wrapped(doc) : Top(v).fmt = "age" => Top(v).by = doc.record

(* After decrypt-file and rekey the file records recipients only while something in it is          *)
(* encrypted to them, and a record that is true stays true through every command over the whole    *)
(* file that leaves nothing out, short of a value that was wrapped twice. *)
RecordCurrent ==
    \A w \in Writing :
        /\ (w.cmd \in {"decrypt-file", "rekey"} /\ w.doc.record # {}) => HasAge(w.doc)
        /\ (/\ w.cmd \in {"encrypt-file", "decrypt-file", "rekey"} /\ w.skipped = {} /\ Truthful(w.base)
            /\ Once(w.base)) => Truthful(w.doc)

(* While the record is true, encrypt-file says so when a credential it leaves alone is for others  *)
(* than the recipients it was given, one that changes nothing included, and says nothing when all  *)
(* of them are for those; a file it encrypts either records them or is reported. *)
RecordReported ==
    (proc = [p \in Procs |-> Idle] /\ Truthful(file)) => \A key \in WriteKeys[Generated] :
        LET r == EncryptConfig(file, key, FALSE)
            said == reportRecipientRecord(file, r, key)
            others == \E path \in r.skipped : Top(At(file, path)).fmt = "age" /\ Top(At(file, path)) # key
        IN (r.ok /\ key.fmt = "age") =>
            /\ (others /\ file.record # {}) => "others" \in said
            /\ (\A v \in Secrets(r.doc) : Top(v) = key) => "others" \notin said
            /\ r.changed # {} => (r.doc.record = key.by \/ "unrecorded" \in said)

(* What the command verified at the start is what its phases read later: the hosts are given       *)
(* plaintexts and no phase is refused one, short of a value that was wrapped twice. *)
AppliedAsVerified ==
    \A p \in Procs :
        LET base == proc[p].base
            Twice(c) == Len(At(base, c).layers) > 1 IN
        /\ proc[p].pc \in {"configured", "synced", "applied"} =>
             \A c \in Credentials : IsEncrypted(proc[p].cfg[c]) => Twice(c)
        /\ proc[p].pc = "refused" => \E c \in Credentials : Twice(c)

(* A credential that is encrypted in the file is never in the clear there again but by a command   *)
(* to decrypt, or by one that worked on a file that has changed since. *)
EncryptedStays ==
    [][\A n \in CredentialNodes : IsEncrypted(file.vals[n]) /\ ~IsEncrypted(file'.vals[n]) =>
        \/ raced'
        \/ \E p \in Procs : proc[p].pc = "writing" /\ proc[p].cmd \in {"decrypt-file", "decrypt-path"}]_vaultVars

(* What the commands leave holds what the operator wrote and can be opened again: its          *)
(* recipients' identities are kept, one password opens all of it, the recipients it records are *)
(* the ones it is encrypted to, and a command over the whole file that has nothing to report    *)
(* has left every credential under the key it was given and under that one alone; *)
(* and an apply finds what it verified.                                          *)
VaultSound ==
    /\ VaultTypeOK /\ SecretsKept
    /\ RecipientsHeld /\ OnePassword /\ RecordCurrent /\ RecordReported
    /\ SilentMeansDone /\ RekeyedWhole /\ AppliedAsVerified
================================================================================
