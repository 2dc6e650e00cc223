------------------------------- MODULE Registry ------------------------------
(***************************************************************************)
(* Who is enrolled where.  An enrolled finger is in three places: the      *)
(* flash of the exit scanner (on which people enroll), that of the entry   *)
(* scanner, and the database (tables User, Fingerprint, UserFingerprint).  *)
(* What ties them is a template number, chosen by looking for a free one   *)
(* on the exit scanner alone.  The commands of main.cpp change the three   *)
(* places one after the other; a step may fail, and most results are not   *)
(* looked at.                                                              *)
(*                                                                         *)
(* The flash of a scanner and the database outlive the process: a crash is *)
(* a return to the prompt from the middle of a command.                    *)
(***************************************************************************)
EXTENDS Integers, FiniteSets, FiniteSetsExt

CONSTANTS
  Users,       \* people, each with one e-mail
  Fingers,     \* their fingers
  Owner,       \* Owner[f]: whose finger f is
  Nothing,     \* an empty template slot or row; the name of nobody
  MAX_FGP_COUNT,  \* template numbers are 0..MAX_FGP_COUNT-1
  Commands,    \* lines typed at the prompt, of those modelled here
  Faults,      \* what may fail: see RegistryAssumption
  MaxLinks,    \* bound: row numbers of UserFingerprint
  MaxMishaps   \* bound: kinds of lasting faults in a behaviour

ASSUME RegistryAssumption ==
  /\ Nothing \notin Users \cup Fingers
  /\ Owner \in [Fingers -> Users]
  /\ MAX_FGP_COUNT \in Nat \ {0}
  /\ Commands \subseteq {"enroll", "create user", "delete fingerprint",
                         "delete all fingerprints", "reload fingerprints"}
  /\ Faults \subseteq {"scan", "GetTemplate", "SetTemplate", "answer", "DeleteID",
                       "DeleteAll", "restore", "database", "crash"}
  /\ MaxLinks \in Nat /\ MaxMishaps \in Nat

VARIABLES
  accounts,    \* table User
  rows,        \* table Fingerprint: rows[id] is the template of number id
  links,       \* table UserFingerprint: [row, fgp_id, user_id]
  entry, exit, \* the scanners' templates by number
  at,          \* the step of the command the main thread is in
  user,        \* the user the command is about
  finger,      \* whose template enroll() has in its buffer
  id,          \* enrollid, or the reload loop's idx
  count,       \* the reload loop's max_fgp
  erased,      \* numbers whose fingerprints the operator has deleted
  mishaps      \* lasting faults that have occurred

tables == <<accounts, rows, links>>
devices == <<entry, exit>>
vars == <<tables, devices, at, user, finger, id, count, erased, mishaps>>

Ids == 0..(MAX_FGP_COUNT - 1)
Slots == [Ids -> Fingers \cup {Nothing}]
Empty == [i \in Ids |-> Nothing]
Link == [row : 1..MaxLinks, fgp_id : Ids, user_id : Users]

Init ==
  /\ accounts = {} /\ rows = Empty /\ links = {}
  /\ entry = Empty /\ exit = Empty
  /\ at = "prompt" /\ user = Nothing /\ finger = Nothing
  /\ id = 0 /\ count = 0
  /\ erased = {} /\ mishaps = {}

\* A step goes well, or fails in one of the ways that are explored.  A scan or a
\* transfer that the module refuses has changed nothing, or the code undoes what
\* went before.  The other faults last, and are remembered: among them "answer",
\* an answer of a module that is lost or too late.  The module may have done what
\* it was asked; the code takes what happens to be in its buffer for the answer.
Undone == {"scan", "GetTemplate", "SetTemplate"}
Well == UNCHANGED mishaps
Mishap(fault) ==
  /\ fault \in Faults
  /\ mishaps' = mishaps \cup ({fault} \ Undone)
  /\ Cardinality(mishaps') <= MaxMishaps

Holds(device, f) == \E i \in Ids : device[i] = f

\* SQLite numbers a row one above the largest number in its table, and goes
\* through a table in the order of these numbers.
Oldest(ls) == CHOOSE l \in ls : \A m \in ls : l.row <= m.row
Latest(ls) == CHOOSE l \in ls : \A m \in ls : m.row <= l.row
NextRow == IF links = {} THEN 1 ELSE Latest(links).row + 1

(***************************************************************************)
(* Enrollment.                                                             *)
(***************************************************************************)
\* CheckEnrolled(0), CheckEnrolled(1), ... until one is free on the exit
\* scanner.  A full scanner gives a number it will refuse.
FreeNumber == Min({i \in Ids : exit[i] = Nothing} \cup {MAX_FGP_COUNT})

\* The module enrolls a finger that it does not hold under a free number in range.
Enrolls(f) == id \in Ids /\ exit[id] = Nothing /\ ~Holds(exit, f)

\* "enroll" and "create user": an unknown e-mail becomes a user.  Only
\* "create user" may stop there.
TypeEnroll(u) ==
  /\ at = "prompt"
  /\ Commands \cap {"enroll", "create user"} # {}
  /\ NextRow <= MaxLinks
  /\ \/ u \in accounts /\ UNCHANGED accounts
     \/ u \notin accounts /\ accounts' = accounts \cup {u}
  /\ \/ /\ at' = "scan" /\ user' = u
        /\ \/ id' = FreeNumber /\ Well
           \/ id' \in 0..MAX_FGP_COUNT /\ Mishap("answer")
     \/ /\ "create user" \in Commands /\ u \notin accounts
        /\ UNCHANGED <<at, user, id>> /\ Well
  /\ UNCHANGED <<rows, links, devices, finger, count, erased>>

\* EnrollStart, whose result is not looked at, and the three scans; Enroll3
\* stores the template.
ScanFinger(f) ==
  /\ at = "scan" /\ Owner[f] = user
  /\ Enrolls(f)
  /\ exit' = [exit EXCEPT ![id] = f]
  /\ at' = "download"
  /\ UNCHANGED <<tables, entry, user, finger, id, count, erased, mishaps>>

\* The end of a command; what only the command needed is forgotten.
Done ==
  /\ at' = "prompt" /\ user' = Nothing /\ finger' = Nothing
  /\ id' = 0 /\ count' = 0

\* The module refuses a scan, and says so: nothing was enrolled, so nothing is
\* removed.
ScanRefused ==
  /\ at = "scan"
  /\ \/ Mishap("scan")
     \/ (\E f \in Fingers : Owner[f] = user /\ ~Enrolls(f)) /\ Well
  /\ Done
  /\ UNCHANGED <<tables, devices, erased>>

\* The answer to a scan is lost.  Whether or not the module has stored the
\* template, enroll() takes the finger for enrolled, or it gives up without
\* removing anything.
ScanUnanswered(f) ==
  /\ at = "scan" /\ Owner[f] = user
  /\ \/ UNCHANGED exit
     \/ Enrolls(f) /\ exit' = [exit EXCEPT ![id] = f]
  /\ \/ at' = "download" /\ UNCHANGED <<user, finger, id, count>>
     \/ Done
  /\ Mishap("answer")
  /\ UNCHANGED <<tables, entry, erased>>

\* GetTemplate from the exit scanner, which refuses a number it has nothing
\* under.  If the answer or the data are lost, that is a failure too.
Download ==
  /\ at = "download"
  /\ \/ /\ id \in Ids /\ exit[id] # Nothing
        /\ at' = "upload" /\ finger' = exit[id] /\ Well
     \/ /\ at' = "undo" /\ UNCHANGED finger
        /\ \/ (id \in Ids => exit[id] = Nothing) /\ Well
           \/ Mishap("GetTemplate")
  /\ UNCHANGED <<tables, devices, user, id, count, erased>>

\* What SetTemplate returns when the module takes the template, when it finds
\* the finger under number i already, and when it refuses it otherwise.
Accepted == 0
DuplicateOf(i) == i
Failed == -1

\* SetTemplate(f, i, false) on a scanner with these templates: the contents
\* after it and what it returns.  A second parameter word of 0 leaves the module's
\* check for duplicates on.
SetTemplate(device, f, i) ==
  IF Holds(device, f)
  THEN [slots |-> device, ret |-> DuplicateOf(CHOOSE j \in Ids : device[j] = f)]
  ELSE [slots |-> [device EXCEPT ![i] = f], ret |-> Accepted]

\* The module refuses the template, and says so.
NotSet(device) == [slots |-> device, ret |-> Failed]

Uploaded(r) ==
  /\ entry' = r.slots
  /\ at' = IF r.ret = 0 THEN "row" ELSE "undo"

\* Mutant: enrollment goes on whatever SetTemplate returned.
UploadUnchecked ==
  /\ at = "upload"
  /\ at' = "row"
  /\ \/ entry' = SetTemplate(entry, finger, id).slots /\ Well
     \/ UNCHANGED entry /\ Mishap("SetTemplate")
  /\ UNCHANGED <<tables, exit, user, finger, id, count, erased>>

\* SetTemplate to the entry scanner: 0 is success.  If an answer is lost, the
\* entry scanner holds the template or does not, and enroll() goes on or undoes
\* what it did on the exit scanner.
Upload ==
  /\ at = "upload"
  /\ \/ Uploaded(SetTemplate(entry, finger, id)) /\ Well
     \/ Uploaded(NotSet(entry)) /\ Mishap("SetTemplate")
     \/ /\ entry' \in {entry, SetTemplate(entry, finger, id).slots}
        /\ at' \in {"row", "undo"}
        /\ Mishap("answer")
  /\ UNCHANGED <<tables, exit, user, finger, id, count, erased>>

\* Mutant: a number that has a row keeps it.
InsertOnly ==
  /\ at = "row"
  /\ IF rows[id] = Nothing THEN rows' = [rows EXCEPT ![id] = finger]
                           ELSE UNCHANGED rows
  /\ at' = "link"
  /\ UNCHANGED <<accounts, links, devices, user, finger, id, count, erased,
                 mishaps>>

\* db_insert_fingerprint: insert or update the row, then link it to the user.
\* The second statement is executed whatever became of the first, and
\* enroll() does not look at the result.
InsertRow ==
  /\ at = "row"
  /\ \/ rows' = [rows EXCEPT ![id] = finger] /\ Well
     \/ UNCHANGED rows /\ Mishap("database")
  /\ at' = "link"
  /\ UNCHANGED <<accounts, links, devices, user, finger, id, count, erased>>

\* Mutant: a number that has a link is not linked again.
InsertLinkOnce ==
  /\ at = "link"
  /\ links' = IF \E l \in links : l.fgp_id = id THEN links
              ELSE links \cup {[row |-> NextRow, fgp_id |-> id, user_id |-> user]}
  /\ erased' = erased \ {id}
  /\ Done /\ Well
  /\ UNCHANGED <<accounts, rows, devices>>

InsertLink ==
  /\ at = "link"
  /\ \/ /\ links' = links \cup {[row |-> NextRow, fgp_id |-> id, user_id |-> user]}
        /\ Well
     \/ UNCHANGED links /\ Mishap("database")
  /\ erased' = erased \ {id}
  /\ Done
  /\ UNCHANGED <<accounts, rows, devices>>

\* DeleteID on the exit scanner after a failed transfer, whatever is under the
\* number.
RemoveEnrolled ==
  /\ at = "undo"
  /\ \/ id \in Ids /\ exit' = [exit EXCEPT ![id] = Nothing] /\ Well
     \/ id \notin Ids /\ UNCHANGED exit /\ Well
     \/ UNCHANGED exit /\ Mishap("DeleteID")
  /\ Done
  /\ UNCHANGED <<tables, entry, erased>>

(***************************************************************************)
(* "delete fingerprint": db_delete_user_data(id, false), in the database.  *)
(***************************************************************************)
LinksOf(u) == {l \in links : l.user_id = u}

\* The subselect that is compared with = stands for its first row.
TypeDelete(u) ==
  /\ at = "prompt" /\ "delete fingerprint" \in Commands
  /\ u \in accounts
  /\ \/ /\ rows' = IF LinksOf(u) = {} THEN rows
                  ELSE [rows EXCEPT ![Oldest(LinksOf(u)).fgp_id] = Nothing]
        /\ Well
     \/ UNCHANGED rows /\ Mishap("database")
  /\ user' = u
  /\ at' = "unlink"
  /\ UNCHANGED <<accounts, links, devices, finger, id, count, erased>>

Unlink ==
  /\ at = "unlink"
  /\ \/ /\ links' = links \ LinksOf(user)
        /\ erased' = erased \cup {l.fgp_id : l \in LinksOf(user)}
        /\ Well
     \/ UNCHANGED <<links, erased>> /\ Mishap("database")
  /\ Done
  /\ UNCHANGED <<accounts, rows, devices>>

(***************************************************************************)
(* "delete all fingerprints" and "reload fingerprints".                    *)
(***************************************************************************)
\* DeleteAll on a scanner; nobody looks at the result.
DeleteAll(device) ==
  \/ device' = Empty /\ Well
  \/ UNCHANGED device /\ Mishap("DeleteAll")

TypeWipe ==
  /\ at = "prompt" /\ "delete all fingerprints" \in Commands
  /\ at' = "wipe"
  /\ DeleteAll(entry)
  /\ UNCHANGED <<tables, exit, user, finger, id, count, erased>>

WipeExit ==
  /\ at = "wipe"
  /\ DeleteAll(exit)
  /\ Done
  /\ UNCHANGED <<tables, entry, erased>>

TypeReload ==
  /\ at = "prompt" /\ "reload fingerprints" \in Commands
  /\ at' = "clear"
  /\ DeleteAll(entry)
  /\ UNCHANGED <<tables, exit, user, finger, id, count, erased>>

\* "reload fingerprints" counts the rows after clearing both scanners...
ClearExit ==
  /\ at = "clear"
  /\ DeleteAll(exit)
  /\ count' = Cardinality({i \in Ids : rows[i] # Nothing})
  /\ at' = "reload"
  /\ UNCHANGED <<tables, entry, user, finger, id, erased>>

\* ... and takes that for a bound of their numbers.  What SetTemplate returns
\* is not looked at.
LoadTemplate ==
  /\ at = "reload" /\ id < count
  /\ id' = id + 1
  /\ IF rows[id] = Nothing THEN UNCHANGED devices /\ Well
     ELSE LET loaded(device) == SetTemplate(device, rows[id], id).slots IN
          \/ entry' = loaded(entry) /\ exit' = loaded(exit) /\ Well
          \/ /\ entry' \in {entry, loaded(entry)}
             /\ exit' \in {exit, loaded(exit)}
             /\ Mishap("restore")
  /\ UNCHANGED <<tables, at, user, finger, count, erased>>

\* Mutant: the loop stops one short.
ReloadedShort == at = "reload" /\ id + 1 >= count

Reloaded == at = "reload" /\ id = count

FinishReload ==
  /\ Reloaded
  /\ Done
  /\ UNCHANGED <<tables, devices, erased, mishaps>>

\* Power cut, watchdog or ctrl-c: the tables and the scanners keep what they
\* have, the command is forgotten.
Crash ==
  /\ at # "prompt" /\ Mishap("crash")
  /\ Done
  /\ UNCHANGED <<tables, devices, erased>>

Enroll == \/ \E u \in Users : TypeEnroll(u)
          \/ \E f \in Fingers : ScanFinger(f) \/ ScanUnanswered(f)
          \/ ScanRefused \/ Download \/ Upload \/ InsertRow \/ InsertLink
          \/ RemoveEnrolled
Delete == Unlink \/ \E u \in Users : TypeDelete(u)
Reload == \/ TypeWipe \/ WipeExit
          \/ TypeReload \/ ClearExit \/ LoadTemplate \/ FinishReload
Next == Enroll \/ Delete \/ Reload \/ Crash

Spec == Init /\ [][Next]_vars
-----------------------------------------------------------------------------
\* The user who was linked to the number last.
LastBound(i) ==
  LET named == {l \in links : l.fgp_id = i}
  IN IF named = {} THEN Nothing ELSE Latest(named).user_id

TypeOK ==
  /\ accounts \subseteq Users /\ rows \in Slots
  /\ links \subseteq Link
  /\ entry \in Slots /\ exit \in Slots
  /\ at \in {"prompt", "scan", "download", "upload", "row", "link", "undo",
             "unlink", "wipe", "clear", "reload"}
  /\ user \in Users \cup {Nothing} /\ finger \in Fingers \cup {Nothing}
  /\ id \in 0..MAX_FGP_COUNT /\ count \in 0..MAX_FGP_COUNT
  /\ erased \subseteq Ids

AtRest == at = "prompt"

\* Did none of these faults occur?
Without(faults) == mishaps \cap faults = {}

\* Between commands a number stands for the same finger on both scanners, and
\* whoever gets in gets out: enroll() copies to the entry scanner what it has
\* enrolled on the exit scanner, or removes it again.  Modules may refuse scans and
\* transfers and the database may fail, as long as every answer arrives.
DevicesAgree ==
  AtRest /\ Without({"answer", "DeleteID", "DeleteAll", "restore", "crash"}) => entry = exit

\* Whoever can open the door is in the database under that number, unless the
\* operator deleted the row: as long as every answer arrives, an enrollment that
\* fails leaves nothing, and no reload or wipe, failing or not, brings in what an
\* enrollment did not leave.
TemplatesRecorded ==
  AtRest /\ Without({"answer", "DeleteID", "database", "crash"}) =>
    \A i \in Ids : exit[i] # Nothing => rows[i] = exit[i] \/ i \in erased

\* The last user a number was bound to is the owner of the template that the
\* exit scanner holds under it, as long as every answer arrives.  (db_get_user_name
\* takes the first user instead.)
BoundToOwner ==
  AtRest /\ Without({"answer", "DeleteID", "database", "crash"}) =>
    \A i \in Ids : exit[i] # Nothing /\ i \notin erased =>
                    LastBound(i) = Owner[exit[i]]

\* The types, and whose a template is.
RegistryInv == TypeOK /\ BoundToOwner

\* After a reload whoever has a row opens both doors again, under one number or
\* another, if scanners and transfers work and the row's number is below the
\* number of rows.  (Deletions leave gaps: rows above them are not reloaded.)
ReloadRestores ==
  Reloaded /\ Without({"DeleteAll", "restore"}) =>
    \A i \in 0..(count - 1) : rows[i] # Nothing =>
      \E j \in Ids : rows[j] = rows[i] /\ entry[j] = rows[i] /\ exit[j] = rows[i]
=============================================================================
