------------------------------ MODULE MCDisplay ------------------------------
(***************************************************************************)
(* Instance of Display for TLC: two columns; a welcome has a full first    *)
(* line and a second, which is a name, a refusal and the default text have *)
(* a short first line only.                                                *)
(***************************************************************************)
EXTENDS Display

CONSTANTS d0, welcome, name, refused

Line(text, len) == [text |-> text, len |-> len]
MCDefaults == <<Line(d0, 1), Line(Blank, 0)>>
MCMessages == {<<Line(welcome, 2), Line(name, 1)>>, <<Line(refused, 1), Line(Blank, 0)>>}
=============================================================================
