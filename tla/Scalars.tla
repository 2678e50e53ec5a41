-------------------------------- MODULE Scalars --------------------------------
(***************************************************************************)
(* How the vault commands write a value into the operator's YAML: the      *)
(* style a decrypted value is given, and the splice that puts it, or its   *)
(* ciphertext, over the lines of the old one and leaves the others alone.  *)
(*                                                                         *)
(* A document is its lines.  A line is its leading spaces, whether a "- "  *)
(* follows them, the key, the text of the value and what comes after it;   *)
(* text is a sequence of the characters the code tells apart.              *)
(***************************************************************************)
EXTENDS Naturals, Sequences, FiniteSets, SequencesExt

CONSTANTS
    Values,     \* what may be encrypted
    Documents,  \* where the value of the key "pass" may stand, ciphertext to begin with
    MaxRounds   \* times it is decrypted

SP == " "       \* a blank
NL == "nl"      \* a line break
CTL == "ctl"    \* a control character
BAD == "bad"    \* a byte that is not UTF-8
QUOTE == "quote"

VARIABLES
    text,       \* [lines, ended]: the document, and whether its last line has a line break
    origin,     \* the document to begin with
    secret,     \* what was encrypted
    written,    \* the documents that decryptions left
    refused     \* a rewrite was refused

vars == <<text, origin, secret, written, refused>>

-----------------------------------------------------------------------------
(* Text and lines *)

Ends(s, c) == s # <<>> /\ Last(s) = c
Spaces(n) == [i \in 1..n |-> SP]
Lead(s) == Cardinality({i \in 1..Len(s) : \A j \in 1..i : s[j] = SP})
Rear(s, c) == Cardinality({i \in 1..Len(s) : \A j \in i..Len(s) : s[j] = c})
TrimRight(s, c) == SubSeq(s, 1, Len(s) - Rear(s, c))
TrimLeft(s) == SubSeq(s, Lead(s) + 1, Len(s))

Split(s) ==
    FoldLeft(LAMBDA ls, c : IF c = NL THEN Append(ls, <<>>) ELSE [ls EXCEPT ![Len(ls)] = Append(@, c)],
             << <<>> >>, s)
Join(ls) == FoldLeft(LAMBDA s, l : s \o l \o <<NL>>, <<>>, ls)

Line(indent, dash, key, s, rest) ==
    [indent |-> indent, dash |-> dash, key |-> key, text |-> s, rest |-> rest]
Content(indent, s) ==
    IF s = <<>> THEN Line(0, FALSE, "", <<>>, "") ELSE Line(indent + Lead(s), FALSE, "", TrimLeft(s), "")
IsBlank(l) == l.key = "" /\ l.text = <<>>

(* The column of the key of a line, past the "- " of a list entry. *)
KeyColumn(l) == l.indent + (IF l.dash THEN 2 ELSE 0)

(* Where the content of a block scalar on the line goes: two past the key, or one past the value *)
(* that stands on a line of its own. *)
keyColumnOn(l) == IF l.key # "" THEN KeyColumn(l) + 2 ELSE l.indent + 1

\* Mutant of blockEndOffset: blank lines end a block.
blockEndAtBlank(d, i) ==
    CHOOSE j \in i..Len(d) :
        /\ \A k \in (i + 1)..j : ~IsBlank(d[k]) /\ d[k].indent > d[i].indent
        /\ j < Len(d) => (IsBlank(d[j + 1]) \/ d[j + 1].indent <= d[i].indent)

(* The last line of the block scalar whose header is on line i: the next line of text at the       *)
(* header line's leading spaces or fewer ends it, and the blank lines before that are its own. *)
blockEndOffset(d, i) ==
    CHOOSE j \in i..Len(d) :
        /\ \A k \in (i + 1)..j : IsBlank(d[k]) \/ d[k].indent > d[i].indent
        /\ j < Len(d) => (~IsBlank(d[j + 1]) /\ d[j + 1].indent <= d[i].indent)

-----------------------------------------------------------------------------
(* What YAML reads *)

NoValue == <<"no value">>

(* A header is the introducer and its indicators; a quoted scalar ends on its line. *)
blockHeaderAt(s) == s # <<>> /\ s[1] \in {"|", ">"} /\ \A i \in 2..Len(s) : s[i] \in {"+", "-"}
quotedScalarAt(s) == Len(s) > 1 /\ s[1] = QUOTE /\ Last(s) = QUOTE

Escaped(c) == CASE c = NL -> "\\n" [] c = CTL -> "\\x" [] c = QUOTE -> "\\q" [] OTHER -> c
Unescaped(c) == CASE c = "\\n" -> NL [] c = "\\x" -> CTL [] c = "\\q" -> QUOTE [] OTHER -> c

(* The content lines of a block scalar whose key is at column col; their indentation is that of    *)
(* the first that is not blank. *)
BlockLines(d, i, col) ==
    LET Own(k) == IsBlank(d[k]) \/ (d[k].key = "" /\ d[k].indent > col)
        last == CHOOSE j \in i..Len(d) :
            (\A k \in (i + 1)..j : Own(k)) /\ (j < Len(d) => ~Own(j + 1))
    IN SubSeq(d, i + 1, last)

ReadBlock(header, ls, broken) ==
    LET texts == {k \in 1..Len(ls) : ~IsBlank(ls[k])}
        base == IF texts = {} THEN 0 ELSE ls[CHOOSE k \in texts : \A j \in texts : k <= j].indent
        From(l) == IF l.indent > base THEN Spaces(l.indent - base) \o l.text ELSE l.text
        all == Join([k \in 1..Len(ls) |-> From(ls[k])])
        body == IF broken \/ all = <<>> THEN all ELSE Front(all)
        kept == TrimRight(body, NL)
    IN IF \E k \in texts : ls[k].indent < base THEN NoValue
       ELSE CASE Ends(header, "-") -> kept
              [] Ends(header, "+") -> body
              [] OTHER -> IF kept # <<>> /\ kept # body THEN kept \o <<NL>> ELSE kept

(* A plain scalar: a "? " opens a key, and a control character is not read as it stands. *)
ReadPlain(s) ==
    LET t == TrimRight(TrimLeft(s), SP) IN
    IF t = <<>> \/ Contains(t, CTL) \/ (Len(t) > 1 /\ t[1] = "?" /\ t[2] = SP) THEN NoValue ELSE t

(* scalarNodeAtPath: the line the value of the key stands on, its own or the one after it. *)
scalarNodeAtPath(d) ==
    LET k == CHOOSE i \in 1..Len(d) : d[i].key = "pass" IN
    IF d[k].text = <<>> THEN k + 1 ELSE k

(* inFlowCollection: what stands after the value closes the collection it stands in. *)
inFlowCollection(l) == l.rest = "}"

(* A literal has its content, a string its text; a block scalar in a flow collection is no YAML. *)
scalarValue(doc) ==
    LET d == doc.lines
        i == scalarNodeAtPath(d)
        col == KeyColumn(d[CHOOSE k \in 1..Len(d) : d[k].key = "pass"])
        ls == BlockLines(d, i, col)
    IN CASE blockHeaderAt(d[i].text) /\ inFlowCollection(d[i]) -> NoValue
         [] blockHeaderAt(d[i].text) -> ReadBlock(d[i].text, ls, doc.ended \/ i + Len(ls) < Len(d))
         [] quotedScalarAt(d[i].text) -> [k \in 1..(Len(d[i].text) - 2) |-> Unescaped(d[i].text[k + 1])]
         [] OTHER -> ReadPlain(d[i].text)

-----------------------------------------------------------------------------
(* Rendering a value *)

quoteScalar(v) == <<QUOTE>> \o [i \in 1..Len(v) |-> Escaped(v[i])] \o <<QUOTE>>

(* The encoder's choice: plain where it thinks it may, a block for more than one line. *)
Marshal(v) ==
    LET ls == Split(v)
        header == CASE Rear(v, NL) > 1 -> <<"|", "+">> [] Rear(v, NL) = 1 -> <<"|">> [] OTHER -> <<"|", "-">>
    IN CASE Contains(v, NL) -> [head |-> header, tail |-> IF Ends(v, NL) THEN Front(ls) ELSE ls]
         [] v = <<>> \/ SP \in {v[1], Last(v)} \/ v[1] \in {QUOTE, "|", ">"} -> [head |-> quoteScalar(v), tail |-> <<>>]
         [] OTHER -> [head |-> v, tail |-> <<>>]

(* scalarReadsBack: the scalar is read as the value of a key on its own. *)
scalarReadsBack(scalar, v) ==
    scalarValue([lines |-> <<Line(0, FALSE, "pass", scalar.head, "")>>
                               \o [i \in 1..Len(scalar.tail) |-> Content(2, scalar.tail[i])],
                 ended |-> TRUE]) = v

\* Mutant of blockSafe: blanks at the end of a line are written into a block.
blockSafeBlanks(v) ==
    /\ (v # <<>> => \E i \in 1..Len(v) : v[i] # NL)
    /\ \A i \in 1..Len(v) : v[i] # CTL

(* What a block scalar, or a plain one, carries and keeps when blanks at the ends of lines are    *)
(* trimmed. *)
blockSafe(v) ==
    LET ls == Split(v)
        first == CHOOSE i \in 1..Len(ls) : ls[i] # <<>> /\ \A j \in 1..(i - 1) : ls[j] = <<>>
    IN /\ (v # <<>> => \E i \in 1..Len(v) : v[i] # NL)
       /\ \A i \in 1..Len(v) : v[i] # CTL
       /\ Contains(v, NL) =>
            /\ v[1] = NL => ls[first][1] # SP
            /\ \A i \in 1..Len(ls) : ~Ends(ls[i], SP)

ValidUTF8(v) == ~Contains(v, BAD)

(* In a flow collection a value is quoted onto its line. *)
renderScalar(v, flow) ==
    LET encoded == Marshal(v)
        quoted == [head |-> quoteScalar(v), tail |-> <<>>]
    IN IF ~flow /\ blockSafe(v) /\ scalarReadsBack(encoded, v) THEN encoded ELSE quoted

-----------------------------------------------------------------------------
(* Rewriting the document *)

(* spliceScalar: the head takes the value's place on its line, with what stands after it there,    *)
(* and the rest goes below; a document that ended at the value without a line break gets one. *)
spliceScalar(doc, scalar) ==
    LET d == doc.lines
        i == scalarNodeAtPath(d)
        end == IF blockHeaderAt(d[i].text) THEN blockEndOffset(d, i) ELSE i
        tail == [k \in 1..Len(scalar.tail) |-> Content(keyColumnOn(d[i]), scalar.tail[k])]
    IN [lines |-> SubSeq(d, 1, i - 1) \o <<[d[i] EXCEPT !.text = scalar.head]>> \o tail
                      \o SubSeq(d, end + 1, Len(d)),
        ended |-> doc.ended \/ end = Len(d)]

(* A ciphertext has several lines, with a line break at the end in one of the formats. *)
Ciphertexts == {<<"$", NL, "c">>, <<"$", NL, "c", NL>>}
IsEncrypted(v) == v # <<>> /\ v[1] = "$"
Stripped(c) == TrimRight(c, NL)

spliceCiphertext(doc, c) ==
    LET flow == inFlowCollection(doc.lines[scalarNodeAtPath(doc.lines)]) IN
    spliceScalar(doc, IF flow THEN [head |-> quoteScalar(Stripped(c)), tail |-> <<>>]
                      ELSE [head |-> <<"|", "-">>, tail |-> Split(Stripped(c))])

Init ==
    /\ origin \in Documents /\ secret \in Values
    /\ text = origin /\ written = <<>> /\ refused = FALSE

Flow == inFlowCollection(text.lines[scalarNodeAtPath(text.lines)])

(* verifiedRewrite: what was written has to read back, or the document stays as it is. *)
verifiedRewrite(doc, want) ==
    IF scalarValue(doc) = want THEN text' = doc /\ UNCHANGED refused ELSE refused' = TRUE /\ UNCHANGED text

encryptAtPath ==
    /\ ~IsEncrypted(scalarValue(text)) /\ Len(written) < MaxRounds
    /\ \E c \in Ciphertexts : verifiedRewrite(spliceCiphertext(text, c), Stripped(c))
    /\ UNCHANGED <<origin, secret, written>>

decryptAtPath ==
    /\ IsEncrypted(scalarValue(text)) /\ ~refused
    /\ IF ValidUTF8(secret) THEN verifiedRewrite(spliceScalar(text, renderScalar(secret, Flow)), secret)
       ELSE refused' = TRUE /\ UNCHANGED text
    /\ written' = (IF refused' THEN written ELSE Append(written, text'))
    /\ UNCHANGED <<origin, secret>>

Next == encryptAtPath \/ decryptAtPath

-----------------------------------------------------------------------------
(* An editor that takes the blanks off the ends of lines. *)
Trimmed(doc) ==
    LET Trim(l) == IF IsBlank(l) THEN Content(0, <<>>) ELSE [l EXCEPT !.text = TrimRight(@, SP)]
    IN [doc EXCEPT !.lines = [i \in 1..Len(@) |-> Trim(@[i])]]

(* The lines of the other keys, and what is not the value on its own. *)
Others(doc) ==
    LET keys == SelectSeq(doc.lines, LAMBDA l : l.key # "")
    IN [i \in 1..Len(keys) |-> IF keys[i].key = "pass" THEN [keys[i] EXCEPT !.text = <<>>] ELSE keys[i]]

(* A decrypted value reads as what was encrypted, in whatever document it stands and after an      *)
(* editor has trimmed it; the lines of the other keys are as the operator wrote them.  A value      *)
(* that is not text stays encrypted, and so does one that ends in blank lines before a blank line   *)
(* of the document, which would become part of it; no other is refused.  However often it is        *)
(* encrypted and decrypted, from the second time on the document is the same. *)
RewritesExact ==
    /\ ~IsEncrypted(scalarValue(text)) => scalarValue(text) = secret /\ scalarValue(Trimmed(text)) = secret
    /\ Others(text) = Others(origin)
    /\ refused => \/ ~ValidUTF8(secret)
                  \/ Rear(secret, NL) > 1 /\ \E i \in 1..Len(origin.lines) : IsBlank(origin.lines[i])
    /\ \A i \in 3..Len(written) : written[i] = written[2]
================================================================================
