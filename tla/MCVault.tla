-------------------------------- MODULE MCVault --------------------------------
(* Two registries that share one password by an alias, a certificate of one of *)
(* them, not set to begin with, and a value elsewhere in the file; and the     *)
(* lines of a file, where a value of up to three characters may stand.         *)
EXTENDS Vault, TLC

CONSTANTS p, q, w1, w2, f1, f2
TwoProcs == {p, q}
TwoPasswords == {w1, w2}
TwoFiles == {f1, f2}
Symmetric == Permutations(TwoProcs) \union Permutations(TwoPasswords) \union Permutations(TwoFiles)
Commands == (TRUE :> 3) @@ (FALSE :> 2)
Walk == <<"r0.pass", "r0.ca", "r1.pass">>
Names == ("r0.pass" :> "pass") @@ ("r0.ca" :> "ca") @@ ("r1.pass" :> "pass") @@ ("note" :> "note")
Typed(spelling, path) == [spelling |-> spelling, path |-> path]
Arguments == {<<Typed("", "note")>>, <<Typed("$.", "r0.pass"), Typed(".", "r1.pass")>>,
              <<Typed(".", "note"), Typed("$.", "note")>>, <<Typed("quoted", "note")>>}

-----------------------------------------------------------------------------
VARIABLES subject, text, origin, secret, written, refused
lines == <<text, origin, secret, written, refused>>

Written(indent, dash, key, s, rest) ==
    [indent |-> indent, dash |-> dash, key |-> key, text |-> s, rest |-> rest]
Key(n, key) == Written(n, FALSE, key, <<"a">>, "")
Entry(n, key) == Written(n, TRUE, key, <<"a">>, "")
Gap == Written(0, FALSE, "", <<>>, "")
InBlock(l, n) == <<[l EXCEPT !.text = <<"|", "-">>], Written(n, FALSE, "", <<"$">>, ""), Written(n, FALSE, "", <<"c">>, "")>>
InLine(l) == <<[l EXCEPT !.text = <<"quote", "$", "\\n", "c", "quote">>]>>
Document(ls, ended) == [lines |-> ls, ended |-> ended]

(* Under a key and in a list, before another key, a blank line and the end of the file, on a line  *)
(* of its own with a comment behind it, and in a flow collection. *)
Layouts ==
    {Document(<<Key(0, "auth")>> \o v \o after, TRUE) :
        v \in {InBlock(Key(2, "pass"), 4), InLine(Key(2, "pass"))},
        after \in {<<Key(2, "user"), Key(0, "next")>>, <<Gap, Key(2, "user")>>, <<>>}}
    \union
    {Document(<<Entry(0, "user")>> \o InBlock(Key(2, "pass"), 4) \o <<Entry(0, "user")>>, TRUE),
     Document(<<Entry(2, "user")>> \o InBlock(Entry(2, "pass"), 6) \o <<Entry(2, "user")>>, TRUE),
     Document(<<Key(0, "user"), [Key(0, "pass") EXCEPT !.text = <<>>]>> \o InLine(Written(4, FALSE, "", <<>>, "#")), FALSE),
     Document(<<Key(0, "user")>> \o InLine(Key(0, "pass")), FALSE),
     Document(<<Key(0, "user")>> \o InLine(Written(0, FALSE, "pass", <<>>, "}")) \o <<Key(0, "next")>>, TRUE)}
ShortValues ==
    UNION {[1..n -> {"a", " ", "nl", "ctl", "?", "bad", "quote"}] : n \in 0..3} \union
    {<<"a", " ", "nl", "a">>, <<"a", "nl", " ", "a">>, <<"nl", "nl", "a", "nl">>, <<"a", "nl", "nl", "a">>}

S == INSTANCE Scalars WITH Values <- ShortValues, Documents <- Layouts, MaxRounds <- 3

Nothing == Document(<<>>, TRUE)
FileInit ==
    /\ VaultInit /\ subject = "file"
    /\ text = Nothing /\ origin = Nothing /\ secret = <<>> /\ written = <<>> /\ refused = FALSE
LinesInit == S!Init /\ subject = "lines" /\ VaultInit /\ file.block
encryptAtPath == subject = "lines" /\ S!encryptAtPath /\ UNCHANGED <<vaultVars, subject>>
decryptAtPath == subject = "lines" /\ S!decryptAtPath /\ UNCHANGED <<vaultVars, subject>>
SecretsSpec ==
    /\ FileInit \/ LinesInit
    /\ [][\/ subject = "file" /\ VaultNext /\ UNCHANGED <<subject, lines>>
          \/ encryptAtPath
          \/ decryptAtPath]_<<vaultVars, subject, lines>>

(* What the commands write into the lines of a file is the value they were given, and nothing else  *)
(* of the file is touched (Scalars). *)
LinesExact == subject = "lines" => S!RewritesExact
================================================================================
