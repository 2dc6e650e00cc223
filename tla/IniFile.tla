-------------------------------- MODULE IniFile -------------------------------
(***************************************************************************)
(* The configuration: iniparser_load reads config.ini line by line into a  *)
(* dictionary, init() takes its values from there and frees it.  Every     *)
(* restart reads the file again, which may have been edited meanwhile.     *)
(*                                                                         *)
(* A line is its text and three marks.  A line that ends in a backslash    *)
(* goes on in the next; what iniparser_line finds in the texts that are    *)
(* joined that way is a parameter: blanks, quotes and case are gone, a key *)
(* may be split, and a section be swallowed by the line before.            *)
(***************************************************************************)
EXTENDS Dictionary, Sequences, FiniteSetsExt

CONSTANTS
  Files,      \* the contents of config.ini in their time
  Text,       \* what stands in a line before the backslash or the newline
  Empty,      \* nothing does
  Found(_),   \* iniparser_line: what is found in a sequence of texts, joined
  NoSection,  \* before the first section
  NoKey,      \* the key of a section itself is its name
  Wanted,     \* the strings init() copies
  MaxEdits    \* bound: calls of iniparser_set and iniparser_unset after a load

\* Does it go on?  Does it end in a newline?  Is it one character without one?
Line == [text : Text, cont : BOOLEAN, eol : BOOLEAN, single : BOOLEAN]
Parsed == [kind : {"section", "value", "comment", "error"}, name : STRING, val : Vals]

\* The texts of the lines i to j.
Joined(f, i, j) == [h \in 1..(j - i + 1) |-> f[i + h - 1].text]

\* The sections a value of the file may be in.
SectionsOf(f) ==
  LET found == {Found(Joined(f, i, j)) : i \in DOMAIN f, j \in DOMAIN f}
  IN {NoSection} \cup {l.name : l \in {m \in found : m.kind = "section"}}

\* fgets stops early at the end of the file, or where the buffer is full, which one
\* character does not fill.
ASSUME IniFileAssumption ==
  /\ MaxEdits \in Nat /\ Wanted \subseteq Keys
  /\ Files \subseteq Seq(Line)
  /\ \A f \in Files : \A i \in DOMAIN f :
       /\ f[i].single => i = Len(f) /\ ~f[i].eol /\ ~f[i].cont
       /\ \A j \in i..Len(f) :
            LET l == Found(Joined(f, i, j))
            IN /\ l \in Parsed
               /\ l.kind = "section" => <<l.name, NoKey>> \in Keys
               /\ l.kind = "value" => \A s \in SectionsOf(f) : <<s, l.name>> \in Keys

VARIABLES
  file,     \* what is read, until the dictionary has changed or been used
  pos,      \* lines read
  section,
  part,     \* the texts before that go on in the next line
  errs,
  phase,    \* "off", "reading", "loaded", "running", "exited" or "crashed"
  edits

readVars == <<file, pos, section, part, errs>>
vars == <<dictVars, readVars, phase, edits>>

Nothing == <<>>
FileInit == /\ file = <<>> /\ pos = 0 /\ section = NoSection
            /\ part = Nothing /\ errs = 0
Init == DictInit /\ FileInit /\ phase = "off" /\ edits = 0

\* dictionary_del: the dictionary, and with it what was read for it, is gone.
Delete == /\ n' = 0 /\ size' = DICTMINSZ
          /\ key' = [i \in 0..(DICTMINSZ - 1) |-> Hole]
          /\ val' = [i \in 0..(DICTMINSZ - 1) |-> Hole]
Forget == /\ file' = <<>> /\ pos' = 0 /\ section' = NoSection
          /\ part' = Nothing /\ errs' = 0

\* main() or restart(): init() opens the file.
Launch ==
  /\ phase \in {"off", "running"}
  /\ phase' = "reading"
  /\ file' \in Files
  /\ UNCHANGED <<dictVars, pos, section, part, errs, edits>>

\* dictionary_set returns 0, which takes the place of the errors so far.
Take(l) ==
  \/ l.kind = "comment" /\ UNCHANGED <<dictVars, section, errs>>
  \/ /\ l.kind = "section"
     /\ section' = l.name
     /\ Set(<<l.name, NoKey>>, NULL)
     /\ errs' = 0
  \/ /\ l.kind = "value"
     /\ Set(<<section, l.name>>, l.val)
     /\ errs' = 0
     /\ UNCHANGED section
  \/ /\ l.kind = "error"
     /\ errs' = errs + 1
     /\ UNCHANGED <<dictVars, section>>

Current == file[pos + 1]
Reading == phase = "reading" /\ pos < Len(file)
NextLine == pos' = pos + 1 /\ UNCHANGED <<file, phase, edits>>

\* Mutant: the buffer is not cleared after a line that goes on.
ReadLineAlone ==
  /\ Reading /\ Current.eol /\ ~Current.cont
  /\ Take(Found(<<Current.text>>))
  /\ part' = Nothing
  /\ NextLine

ReadLine ==
  /\ Reading /\ Current.eol /\ ~Current.cont
  /\ Take(Found(Append(part, Current.text)))
  /\ part' = Nothing
  /\ NextLine

ReadPart ==
  /\ Reading /\ Current.eol /\ Current.cont
  /\ part' = Append(part, Current.text)
  /\ NextLine
  /\ UNCHANGED <<dictVars, section, errs>>

\* One character is in the buffer: iniparser_load goes on before it looks for the
\* newline.
Overlooked == Current.single /\ \A i \in DOMAIN part : part[i] = Empty

SkipLine ==
  /\ Reading /\ ~Current.eol /\ Overlooked
  /\ part' = Nothing
  /\ NextLine
  /\ UNCHANGED <<dictVars, section, errs>>

Refuse == Delete /\ Forget /\ phase' = "exited" /\ UNCHANGED edits

\* No newline where fgets has stopped: the line is too long, or the last one of
\* a file that does not end in a newline.
RefuseLine == Reading /\ ~Current.eol /\ ~Overlooked /\ Refuse

\* A line that was to go on is not looked at any more.  Without a dictionary
\* init() ends the process.
EndOfFile ==
  /\ phase = "reading" /\ pos = Len(file)
  /\ IF errs # 0 THEN Refuse
     ELSE phase' = "loaded" /\ UNCHANGED <<dictVars, readVars, edits>>

\* iniparser_set and iniparser_unset, which the daemon does not call.
Edit ==
  /\ phase = "loaded" /\ edits < MaxEdits
  /\ \E k \in Keys : Unset(k) \/ \E v \in Vals : Set(k, v)
  /\ edits' = edits + 1
  /\ Forget /\ UNCHANGED phase

\* init() copies its strings, a NULL one too, and frees the dictionary.
Configure ==
  /\ phase = "loaded"
  /\ IF \A k \in Wanted : Get(k) \notin {Missing, NULL}
     THEN phase' = "running" /\ Delete
     ELSE phase' = "crashed" /\ UNCHANGED dictVars
  /\ Forget /\ edits' = 0

Next == \/ Launch \/ ReadLine \/ ReadPart \/ SkipLine \/ RefuseLine \/ EndOfFile
        \/ Edit \/ Configure

Spec == Init /\ [][Next]_vars
-----------------------------------------------------------------------------
TypeOK ==
  /\ DictTypeOK
  /\ file \in Files \cup {<<>>} /\ pos \in 0..Len(file)
  /\ section \in SectionsOf(file)
  /\ part \in Seq(Text)
  /\ errs \in 0..Len(file)
  /\ phase \in {"off", "reading", "loaded", "running", "exited", "crashed"}
  /\ edits \in 0..MaxEdits

(***************************************************************************)
(* What a file says, without reading it line by line.                      *)
(***************************************************************************)
\* The lines that say something, with those before that go on in them.
Ends == {j \in DOMAIN file : file[j].eol /\ ~file[j].cont}
First(f, j) ==
  CHOOSE i \in 1..j : (i > 1 => ~f[i - 1].cont) /\ \A h \in i..(j - 1) : f[h].cont
Written(f, j) == Found(Joined(f, First(f, j), j))

SectionAt(j) ==
  LET before == {i \in Ends : i < j /\ Written(file, i).kind = "section"}
  IN IF before = {} THEN NoSection ELSE Written(file, Max(before)).name

Names(j, k) ==
  \/ Written(file, j).kind = "section" /\ k = <<Written(file, j).name, NoKey>>
  \/ Written(file, j).kind = "value" /\ k = <<SectionAt(j), Written(file, j).name>>
Says(k) ==
  LET lines == {j \in Ends : Names(j, k)}
      l == Written(file, Max(lines))
  IN IF lines = {} THEN Missing ELSE IF l.kind = "section" THEN NULL ELSE l.val

\* A last line that may be lost, a syntax error or not: one character, and no newline.
Lost(f, j) == f[j].single /\ \A h \in First(f, j)..(j - 1) : f[h].text = Empty

\* What is loaded is what the file says: of each key the value given last under
\* the section it stands in, however often sections and keys come back and wherever
\* a line is split.  A file is loaded only if every line ends, but for a last one of one
\* character, which is overlooked, and if no error is the last thing in it but
\* comments.  (An error before a good line is forgotten.)
LoadedIsWritten ==
  phase = "loaded" =>
    /\ edits = 0 => \A k \in Keys : Get(k) = Says(k)
    /\ \A j \in DOMAIN file : file[j].eol \/ Lost(file, j)
    /\ \A j \in Ends : Written(file, j).kind = "error" =>
         \E i \in Ends : i > j /\ Written(file, i).kind \in {"section", "value"}

\* The types, and the arrays in order however often keys come and go.
IniFileInv == TypeOK /\ SlotsInOrder

\* The arrays behave as one map that changes a key at a time.
ImplementsMap == Map!Spec
=============================================================================
