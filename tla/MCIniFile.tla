------------------------------ MODULE MCIniFile ------------------------------
(***************************************************************************)
(* The instance of IniFile for TLC: files of up to MaxLines of these       *)
(* lines.  Their texts are two sections, a key with two values, the halves *)
(* of another such line, a comment, and one character by itself.           *)
(***************************************************************************)
EXTENDS IniFile, SequencesExt

CONSTANT MaxLines

Texts == {"[a]", "[b]", "k=1", "k=2", "k", "=2", "#", "x", ""}
Assigns == {"k=1", "k=2", "=2"}

\* iniparser_line, of these texts: a comment, a section in brackets, or a key up to the
\* first "=" and a value up to a comment.  Keys that are not "k" are not told apart, nor
\* values of more than one text.
FoundIn(t) ==
  LET c == SelectSeq(t, LAMBDA x : x # "")
      i == SelectInSeq(c, LAMBDA x : x \in Assigns)
      digit == IF c[i] = "k=1" THEN "1" ELSE "2"
      Is(kind, name, v) == [kind |-> kind, name |-> name, val |-> v]
  IN CASE c = <<>> \/ Head(c) = "#" -> Is("comment", "", "null")
       [] OTHER ->
     CASE Head(c) \in {"[a]", "[b]"} /\ Last(c) \in {"[a]", "[b]"} ->
            Is("section", IF Head(c) = "[a]" THEN "a" ELSE "b", "null")
       [] OTHER ->
     CASE i = 0 \/ Head(c) = "=2" -> Is("error", "", "null")
       [] OTHER ->
            Is("value",
               IF i = 1 \/ (i = 2 /\ Head(c) = "k" /\ c[i] = "=2") THEN "k" ELSE "other",
               IF i = Len(c) THEN digit ELSE IF c[i + 1] = "#" THEN digit ELSE "more")

Whole(t) == [text |-> t, cont |-> FALSE, eol |-> TRUE, single |-> FALSE]
Lines ==
  {Whole(t) : t \in {"[a]", "[b]", "k=1", "k=2", "=2", "#"}}
  \cup {[Whole(t) EXCEPT !.cont = TRUE] : t \in {"[a]", "k=1", "k", "#", ""}}
  \cup {[Whole("k=1") EXCEPT !.eol = FALSE],
        [Whole("x") EXCEPT !.eol = FALSE, !.single = TRUE]}

\* One character without a newline stands at the end; the longest files begin with a
\* section.
AllFiles ==
  {f \in UNION {[1..m -> Lines] : m \in 0..MaxLines} :
     /\ \A i \in DOMAIN f : f[i].single => i = Len(f)
     /\ Len(f) = MaxLines => f[1].text \in {"[a]", "[b]"}}
AllKeys == ({"", "a", "b"} \X {"k", "other"}) \cup {<<"a", "">>, <<"b", "">>}
WantedKeys == {<<"a", "k">>}
=============================================================================
