---------------------------- MODULE RegistryProofs ----------------------------
(***************************************************************************)
(* Proofs about Registry, for any people, fingers, numbers, commands and   *)
(* faults: which fingers the two scanners hold, whom the database takes    *)
(* them for, and what a reload brings back.  And about Template, for       *)
(* templates of any length: what becomes of their bytes on that way.       *)
(***************************************************************************)
EXTENDS Registry, Template, FiniteSetTheorems, WellFoundedInduction, TLAPS
-----------------------------------------------------------------------------
\* From the scan that stores a finger to the end of its enrollment.
Enrolling == {"download", "upload", "undo", "row", "link"}

\* What the registers of a command hold in its steps.
Registers ==
  /\ at \in {"prompt", "unlink", "wipe", "clear"} => id = 0
  /\ at \in {"scan", "unlink"} \cup Enrolling => user \in Users
  /\ at \in {"upload", "row", "link"} => id \in Ids /\ finger \in Fingers
  /\ at = "reload" => id <= count
  /\ at \in {"scan"} \cup Enrolling => NextRow <= MaxLinks

\* What an enrollment can rely on as long as every answer arrives: the number it has
\* found is free until the user's finger is under it, and that is what it copies.
Answered ==
  /\ at = "scan" => id = MAX_FGP_COUNT \/ exit[id] = Nothing
  /\ at \in Enrolling => id \in Ids /\ exit[id] \in Fingers /\ Owner[exit[id]] = user
  /\ at \in {"upload", "row", "link"} => exit[id] = finger

\* The entry scanner is behind the exit scanner by the finger of an enrollment
\* that has not been copied, and ahead of it by a DeleteAll.
Copied ==
  /\ at \in {"download", "upload", "undo"} =>
       /\ entry[id] = Nothing /\ exit = [entry EXCEPT ![id] = exit[id]]
       /\ ~Holds(entry, exit[id])
  /\ at \in {"wipe", "clear"} => entry = Empty
  /\ at \notin {"download", "upload", "undo", "wipe", "clear"} => entry = exit

\* What the exit scanner holds is recorded, or being so, or deleted, or being so.
Recorded ==
  \A i \in Ids : exit[i] # Nothing =>
    \/ rows[i] = exit[i]
    \/ i \in erased
    \/ i = id /\ at \in {"download", "upload", "undo", "row"}
    \/ at = "unlink" /\ \E l \in LinksOf(user) : l.fgp_id = i

\* The last link of a recorded finger is its owner's, or is to be inserted.
Bound ==
  /\ \A i \in Ids : rows[i] # Nothing /\ i \notin erased =>
       LastBound(i) = Owner[rows[i]] \/ (at = "link" /\ i = id)
  /\ at = "link" => rows[id] = finger

\* Each row the reload loop has passed is on both scanners, and nothing else is.
Restored ==
  /\ at = "clear" => entry = Empty
  /\ at = "reload" =>
       /\ entry = exit
       /\ \A j \in Ids : entry[j] # Nothing => rows[j] = entry[j]
       /\ \A i \in Ids : i < id /\ rows[i] # Nothing =>
            \E j \in Ids : rows[j] = rows[i] /\ entry[j] = rows[i]

\* The faults after which the two scanners may differ.
Diverging == {"answer", "DeleteID", "DeleteAll", "restore", "crash"}

\* The faults after which what the exit scanner holds may be in no row.
Losing == {"answer", "DeleteID", "database", "crash"}

\* The faults after which a number may be bound to somebody else.
Misbinding == {"answer", "database", "crash"}

\* The inductive invariant.
IInv ==
  /\ TypeOK /\ Registers
  /\ Without({"answer"}) => Answered
  /\ Without(Diverging) => Copied
  /\ Without(Losing) => Recorded
  /\ Without(Misbinding) => Bound
  /\ Without({"DeleteAll", "restore"}) => Restored
-----------------------------------------------------------------------------
(***************************************************************************)
(* Least and greatest numbers, rows, links.                                *)
(***************************************************************************)
\* The bounds are natural numbers.
LEMMA Bounds == MAX_FGP_COUNT \in Nat \ {0} /\ MaxLinks \in Nat
BY RegistryAssumption

\* A row of UserFingerprint has a number, a template number and a user.
LEMMA LinkIs ==
  ASSUME NEW l \in Link
  PROVE  l.row \in Nat \ {0} /\ l.row <= MaxLinks /\ l.fgp_id \in Ids /\ l.user_id \in Users
<1>1. l.row \in 1..MaxLinks /\ l.fgp_id \in Ids /\ l.user_id \in Users BY DEF Link
<1> QED BY <1>1, Bounds

\* What is minimal in a well-founded relation on the natural numbers...
LEMMA MinimalNumber ==
  ASSUME NEW R, IsWellFoundedOn(R, Nat), NEW S \in SUBSET Nat, S # {}
  PROVE  \E x \in S : \A y \in S : ~(<<y, x>> \in R)
<1>1. S \subseteq Nat OBVIOUS
<1> QED BY <1>1, WFMin

\* ... is least when the relation holds of every smaller and larger number.
LEMMA MinimalIsLeast ==
  ASSUME NEW R, \A a, b \in Nat : a < b => <<a, b>> \in R,
         NEW S \in SUBSET Nat,
         \E x \in S : \A y \in S : ~(<<y, x>> \in R)
  PROVE  \E x \in S : \A y \in S : x <= y
<1>1. PICK x \in S : \A y \in S : ~(<<y, x>> \in R) OBVIOUS
<1>2. ASSUME NEW y \in S PROVE x <= y
  <2>1. x \in Nat /\ y \in Nat OBVIOUS
  <2>2. y < x => <<y, x>> \in R BY <2>1
  <2>3. ~(<<y, x>> \in R) BY <1>1, Zenon
  <2> QED BY <2>1, <2>2, <2>3
<1> QED BY <1>1, <1>2

\* The order of the natural numbers as a set of pairs.
LEMMA LessThanPairs == \A a, b \in Nat : a < b => <<a, b>> \in OpToRel(<, Nat)
BY DEF OpToRel

\* A set of natural numbers that is not empty has a least element.
LEMMA LeastNumber ==
  ASSUME NEW S \in SUBSET Nat, S # {}
  PROVE  \E x \in S : \A y \in S : x <= y
BY MinimalNumber, MinimalIsLeast, LessThanPairs, NatLessThanWellFounded

\* CheckEnrolled finds a number that is free, or the number after the last.
LEMMA FreeNumberIs ==
  ASSUME TypeOK
  PROVE  /\ FreeNumber \in 0..MAX_FGP_COUNT
         /\ FreeNumber = MAX_FGP_COUNT \/ exit[FreeNumber] = Nothing
<1> DEFINE S == {i \in Ids : exit[i] = Nothing} \cup {MAX_FGP_COUNT}
<1>1. S \in SUBSET Nat /\ S # {} BY Bounds DEF Ids
<1>2. \E x \in S : \A y \in S : x <= y BY <1>1, LeastNumber
<1> HIDE DEF S
<1>3. Min(S) \in S BY <1>2 DEF Min
<1>4. FreeNumber = Min(S) BY DEF FreeNumber, S
<1>5. FreeNumber \in S BY <1>3, <1>4, Zenon
<1> QED BY <1>5, Bounds DEF S, Ids

\* The first link in the table's order is in the table.
LEMMA OldestIs ==
  ASSUME NEW ls \in SUBSET Link, ls # {}
  PROVE  Oldest(ls) \in ls
<1> DEFINE S == {l.row : l \in ls}
<1>1. S \in SUBSET Nat /\ S # {} BY LinkIs, Bounds
<1>2. PICK x \in S : \A y \in S : x <= y BY <1>1, LeastNumber
<1>3. PICK l \in ls : l.row = x OBVIOUS
<1>4. \A m \in ls : l.row <= m.row BY <1>2, <1>3
<1> QED BY <1>4 DEF Oldest

\* The last link in the table's order is in the table, with the largest number.
LEMMA LatestIs ==
  ASSUME NEW ls \in SUBSET Link, ls # {}
  PROVE  Latest(ls) \in ls /\ \A m \in ls : m.row <= Latest(ls).row
<1> DEFINE S == {MaxLinks - l.row : l \in ls}
<1>1. S \in SUBSET Nat /\ S # {} BY LinkIs, Bounds
<1>2. PICK x \in S : \A y \in S : x <= y BY <1>1, LeastNumber
<1>3. PICK l \in ls : MaxLinks - l.row = x OBVIOUS
<1>4. ASSUME NEW m \in ls PROVE m.row <= l.row
  <2>1. MaxLinks - l.row <= MaxLinks - m.row
    <3>1. MaxLinks - m.row \in S OBVIOUS
    <3> HIDE DEF S
    <3> QED BY <1>2, <1>3, <3>1
  <2>2. l.row \in Nat /\ m.row \in Nat
    <3>1. l \in Link /\ m \in Link OBVIOUS
    <3> QED BY <3>1, LinkIs
  <2> QED BY <2>1, <2>2, Bounds
<1> QED BY <1>4 DEF Latest

\* SQLite's number for a new row is above all others.
LEMMA NextRowIs ==
  ASSUME links \subseteq Link
  PROVE  NextRow \in Nat \ {0} /\ \A l \in links : l.row < NextRow
<1>1. CASE links = {} BY <1>1 DEF NextRow
<1>2. CASE links # {}
  <2>1. Latest(links) \in links /\ \A m \in links : m.row <= Latest(links).row
    BY <1>2, LatestIs
  <2>2. \A l \in links : l.row \in Nat \ {0} BY LinkIs
  <2> QED BY <1>2, <2>1, <2>2 DEF NextRow
<1> QED BY <1>1, <1>2

\* A link with a number above all others is the last.
LEMMA AddedIsLatest ==
  ASSUME NEW ls \in SUBSET Link, NEW l \in Link, \A m \in ls : m.row < l.row
  PROVE  Latest(ls \cup {l}) = l
<1>1. \A m \in Link : m.row \in Nat BY LinkIs
<1>2. \A m \in ls \cup {l} : m.row <= l.row BY <1>1
<1>3. \A k \in ls \cup {l} : (\A m \in ls \cup {l} : m.row <= k.row) => k = l
  <2> SUFFICES ASSUME NEW k \in ls \cup {l}, \A m \in ls \cup {l} : m.row <= k.row
               PROVE  k = l OBVIOUS
  <2>1. l.row <= k.row OBVIOUS
  <2>2. k \in Link /\ k.row \in Nat /\ l.row \in Nat BY <1>1
  <2> QED BY <2>1, <2>2
<1> QED BY <1>2, <1>3 DEF Latest
-----------------------------------------------------------------------------
(***************************************************************************)
(* The types.                                                              *)
(***************************************************************************)
\* A lasting fault that occurs is remembered, and none is forgotten.
LEMMA MishapAdds ==
  ASSUME NEW fault, Mishap(fault)
  PROVE  mishaps \subseteq mishaps' /\ (fault \notin Undone => fault \in mishaps')
BY DEF Mishap

\* What has not gone wrong had not gone wrong before.
LEMMA Remembered ==
  ASSUME [Next]_vars
  PROVE  mishaps \subseteq mishaps'
<1> USE MishapAdds DEF Well, Done
<1>1. CASE Enroll
  BY <1>1 DEF Enroll, TypeEnroll, ScanFinger, ScanRefused, ScanUnanswered, Download, Upload, InsertRow,
              InsertLink, RemoveEnrolled
<1>2. CASE Delete BY <1>2 DEF Delete, TypeDelete, Unlink
<1>3. CASE Reload
  BY <1>3 DEF Reload, TypeWipe, WipeExit, TypeReload, ClearExit, LoadTemplate, FinishReload,
              DeleteAll
<1>4. CASE Crash BY <1>4 DEF Crash
<1>5. CASE UNCHANGED vars BY <1>5 DEF vars
<1> QED BY <1>1, <1>2, <1>3, <1>4, <1>5 DEF Next

\* TypeOK in two parts: what outlives the process, and the main thread's registers.
Kept ==
  /\ accounts \subseteq Users /\ rows \in Slots /\ links \subseteq Link
  /\ entry \in Slots /\ exit \in Slots /\ erased \subseteq Ids
Working ==
  /\ at \in {"prompt", "scan", "download", "upload", "row", "link", "undo",
             "unlink", "wipe", "clear", "reload"}
  /\ user \in Users \cup {Nothing} /\ finger \in Fingers \cup {Nothing}
  /\ id \in 0..MAX_FGP_COUNT /\ count \in 0..MAX_FGP_COUNT

\* TypeOK is its parts.
LEMMA Parts == TypeOK <=> Kept /\ Working
BY DEF TypeOK, Kept, Working

\* So it is after a step.
LEMMA PartsNext == TypeOK' <=> Kept' /\ Working'
BY DEF TypeOK, Kept, Working

\* A command that ends leaves the registers as the prompt finds them.
LEMMA DoneWorking == Done => Working'
BY Bounds DEF Done, Working

\* The templates of a scanner.
LEMMA SlotsAre ==
  /\ Empty \in Slots
  /\ \A d \in Slots, i \in Ids, x \in Fingers \cup {Nothing} : [d EXCEPT ![i] = x] \in Slots
BY DEF Empty, Slots

\* SetTemplate to a scanner leaves it alone or fills one slot.
LEMMA SetTemplateIs ==
  ASSUME NEW d \in Slots, NEW f \in Fingers, NEW i \in Ids
  PROVE  /\ SetTemplate(d, f, i).slots \in Slots
         /\ Holds(d, f) => SetTemplate(d, f, i).slots = d
         /\ ~Holds(d, f) => /\ SetTemplate(d, f, i).slots = [d EXCEPT ![i] = f]
                            /\ SetTemplate(d, f, i).ret = 0
<1>1. CASE Holds(d, f) BY <1>1 DEF SetTemplate
<1>2. CASE ~Holds(d, f) BY <1>2, SlotsAre DEF SetTemplate, Accepted
<1> QED BY <1>1, <1>2

\* No more rows are counted than there are numbers.
LEMMA CountIs == Cardinality({i \in Ids : rows[i] # Nothing}) \in 0..MAX_FGP_COUNT
<1>1. IsFiniteSet(Ids) /\ Cardinality(Ids) = MAX_FGP_COUNT BY FS_Interval, Bounds DEF Ids
<1> DEFINE S == {i \in Ids : rows[i] # Nothing}
<1>2. S \in SUBSET Ids OBVIOUS
<1>3. Cardinality(S) <= Cardinality(Ids) /\ IsFiniteSet(S) BY <1>1, <1>2, FS_Subset
<1>4. Cardinality(S) \in Nat BY <1>3, FS_CardinalityType
<1> QED BY <1>1, <1>3, <1>4, Bounds

\* The link that enroll() inserts is a row of UserFingerprint.
LEMMA NewLink ==
  ASSUME IInv, at = "link"
  PROVE  /\ [row |-> NextRow, fgp_id |-> id, user_id |-> user] \in Link
         /\ \A l \in links : l.row < NextRow
<1>1. id \in Ids /\ user \in Users /\ NextRow <= MaxLinks /\ links \subseteq Link
  BY RegistryAssumption DEF IInv, Registers, TypeOK, Enrolling
<1>2. NextRow \in Nat \ {0} /\ \A l \in links : l.row < NextRow BY <1>1, NextRowIs
<1>3. NextRow \in 1..MaxLinks BY <1>1, <1>2, Bounds
<1> QED BY <1>1, <1>2, <1>3 DEF Link

\* The initial state has the types.
LEMMA TypeInit == Init => TypeOK
BY SlotsAre, Bounds DEF Init, TypeOK

\* Every step leaves the registers with their types.
LEMMA WorkingNext == IInv /\ [Next]_vars => Working'
<1> SUFFICES ASSUME IInv, [Next]_vars PROVE Working' OBVIOUS
<1>1. Working /\ Registers /\ TypeOK BY Parts DEF IInv
<1>2. ASSUME NEW u \in Users, TypeEnroll(u) PROVE Working'
  <2>1. FreeNumber \in 0..MAX_FGP_COUNT BY <1>1, FreeNumberIs
  <2>2. /\ \/ at' = "scan" /\ user' = u /\ id' \in 0..MAX_FGP_COUNT
           \/ UNCHANGED <<at, user, id>>
        /\ UNCHANGED <<finger, count>>
    BY <1>2, <2>1 DEF TypeEnroll
  <2> QED BY <1>1, <2>2 DEF Working
<1>3. ASSUME NEW f \in Fingers, ScanFinger(f) PROVE Working'
  BY <1>1, <1>3 DEF ScanFinger, Working
<1>4. CASE ScanRefused BY <1>4, DoneWorking DEF ScanRefused
<1>20. ASSUME NEW f \in Fingers, ScanUnanswered(f) PROVE Working'
  <2>1. \/ Done
        \/ at' = "download" /\ UNCHANGED <<user, finger, id, count>>
    BY <1>20 DEF ScanUnanswered
  <2> QED BY <1>1, <2>1, DoneWorking DEF Working
<1>5. CASE Download
  <2>1. /\ at' \in {"upload", "undo"} /\ UNCHANGED <<user, id, count>>
        /\ finger' = finger \/ (id \in Ids /\ finger' = exit[id])
    BY <1>5 DEF Download
  <2>2. finger' \in Fingers \cup {Nothing} BY <1>1, <2>1 DEF Working, TypeOK, Slots
  <2> QED BY <1>1, <2>1, <2>2 DEF Working
<1>6. CASE Upload
  <2>1. at' \in {"row", "undo"} BY <1>6 DEF Upload, Uploaded
  <2>2. UNCHANGED <<user, finger, id, count>> BY <1>6 DEF Upload
  <2> QED BY <1>1, <2>1, <2>2 DEF Working
<1>7. CASE InsertRow
  <2>1. at' = "link" /\ UNCHANGED <<user, finger, id, count>> BY <1>7 DEF InsertRow
  <2> QED BY <1>1, <2>1 DEF Working
<1>8. CASE InsertLink BY <1>8, DoneWorking DEF InsertLink
<1>9. CASE RemoveEnrolled BY <1>9, DoneWorking DEF RemoveEnrolled
<1>10. ASSUME NEW u \in Users, TypeDelete(u) PROVE Working'
  <2>1. at' = "unlink" /\ user' = u /\ UNCHANGED <<finger, id, count>> BY <1>10 DEF TypeDelete
  <2> QED BY <1>1, <2>1 DEF Working
<1>11. CASE Unlink BY <1>11, DoneWorking DEF Unlink
<1>12. CASE TypeWipe BY <1>1, <1>12 DEF TypeWipe, Working
<1>13. CASE WipeExit BY <1>13, DoneWorking DEF WipeExit
<1>14. CASE TypeReload BY <1>1, <1>14 DEF TypeReload, Working
<1>15. CASE ClearExit BY <1>1, <1>15, CountIs DEF ClearExit, Working
<1>16. CASE LoadTemplate
  <2>1. /\ id' = id + 1 /\ id < count /\ UNCHANGED <<at, user, finger, count>>
    BY <1>16 DEF LoadTemplate
  <2> QED BY <1>1, <2>1, Bounds DEF Working
<1>17. CASE FinishReload BY <1>17, DoneWorking DEF FinishReload
<1>18. CASE Crash BY <1>18, DoneWorking DEF Crash
<1>19. CASE UNCHANGED vars BY <1>1, <1>19 DEF vars, Working
<1> QED BY <1>2, <1>3, <1>4, <1>5, <1>6, <1>7, <1>8, <1>9, <1>10, <1>11, <1>12, <1>13,
           <1>14, <1>15, <1>16, <1>17, <1>18, <1>19, <1>20
        DEF Next, Enroll, Delete, Reload

\* Every step leaves the tables and the scanners with theirs.
LEMMA KeptNext == IInv /\ [Next]_vars => Kept'
<1> SUFFICES ASSUME IInv, [Next]_vars PROVE Kept' OBVIOUS
<1>1. Kept /\ Working /\ Registers BY Parts DEF IInv
<1> USE DEF Kept
<1>2. ASSUME NEW u \in Users, TypeEnroll(u) PROVE Kept'
  BY <1>1, <1>2 DEF TypeEnroll, devices
<1>3. ASSUME NEW f \in Fingers, ScanFinger(f) PROVE Kept'
  <2>1. id \in Ids BY <1>3 DEF ScanFinger, Enrolls
  <2>2. exit' \in Slots BY <1>1, <1>3, <2>1, SlotsAre DEF ScanFinger
  <2>3. UNCHANGED <<accounts, rows, links, entry, erased>> BY <1>3 DEF ScanFinger, tables
  <2> QED BY <1>1, <2>2, <2>3
<1>4. CASE ScanRefused BY <1>1, <1>4 DEF ScanRefused, tables, devices
<1>20. ASSUME NEW f \in Fingers, ScanUnanswered(f) PROVE Kept'
  <2>1. /\ exit' = exit \/ (id \in Ids /\ exit' = [exit EXCEPT ![id] = f])
        /\ UNCHANGED <<accounts, rows, links, entry, erased>>
    BY <1>20 DEF ScanUnanswered, Enrolls, tables
  <2>2. exit' \in Slots BY <1>1, <2>1, SlotsAre
  <2> QED BY <1>1, <2>1, <2>2
<1>5. CASE Download BY <1>1, <1>5 DEF Download, tables, devices
<1>6. CASE Upload
  <2>1. id \in Ids /\ finger \in Fingers BY <1>1, <1>6 DEF Upload, Registers
  <2>2. entry' = SetTemplate(entry, finger, id).slots \/ entry' = entry
    BY <1>6 DEF Upload, Uploaded, NotSet
  <2>3. entry' \in Slots
    <3>1. entry \in Slots BY <1>1
    <3>2. SetTemplate(entry, finger, id).slots \in Slots BY <2>1, <3>1, SetTemplateIs
    <3> QED BY <2>2, <3>1, <3>2
  <2>4. UNCHANGED <<accounts, rows, links, exit, erased>> BY <1>6 DEF Upload, tables
  <2> QED BY <1>1, <2>3, <2>4
<1>7. CASE InsertRow
  <2>1. id \in Ids /\ finger \in Fingers BY <1>1, <1>7 DEF InsertRow, Registers
  <2>2. rows' = [rows EXCEPT ![id] = finger] \/ rows' = rows BY <1>7 DEF InsertRow
  <2>3. rows' \in Slots BY <1>1, <2>1, <2>2, SlotsAre
  <2>4. UNCHANGED <<accounts, links, entry, exit, erased>> BY <1>7 DEF InsertRow, devices
  <2> QED BY <1>1, <2>3, <2>4
<1>8. CASE InsertLink
  <2>1. at = "link" /\ erased' = erased \ {id} BY <1>8 DEF InsertLink
  <2>2. \/ links' = links
        \/ links' = links \cup {[row |-> NextRow, fgp_id |-> id, user_id |-> user]}
    BY <1>8 DEF InsertLink
  <2>3. links' \subseteq Link BY <1>1, <2>1, <2>2, NewLink
  <2>4. UNCHANGED <<accounts, rows, entry, exit>> BY <1>8 DEF InsertLink, devices
  <2> QED BY <1>1, <2>1, <2>3, <2>4
<1>9. CASE RemoveEnrolled
  <2>2. exit' = exit \/ (id \in Ids /\ exit' = [exit EXCEPT ![id] = Nothing])
    BY <1>9 DEF RemoveEnrolled
  <2>3. exit' \in Slots BY <1>1, <2>2, SlotsAre
  <2>4. UNCHANGED <<accounts, rows, links, entry, erased>> BY <1>9 DEF RemoveEnrolled, tables
  <2> QED BY <1>1, <2>3, <2>4
<1>10. ASSUME NEW u \in Users, TypeDelete(u) PROVE Kept'
  <2>1. rows' \in Slots
    <3>1. CASE rows' = rows BY <1>1, <3>1
    <3>2. CASE rows' # rows
      <4>1. /\ LinksOf(u) # {}
            /\ rows' = [rows EXCEPT ![Oldest(LinksOf(u)).fgp_id] = Nothing]
        BY <1>10, <3>2 DEF TypeDelete
      <4>2. LinksOf(u) \in SUBSET Link BY <1>1 DEF LinksOf
      <4>3. Oldest(LinksOf(u)) \in Link BY <4>1, <4>2, OldestIs
      <4>4. Oldest(LinksOf(u)).fgp_id \in Ids BY <4>3, LinkIs
      <4> QED BY <1>1, <4>1, <4>4, SlotsAre
    <3> QED BY <3>1, <3>2
  <2>2. UNCHANGED <<accounts, links, entry, exit, erased>> BY <1>10 DEF TypeDelete, devices
  <2> QED BY <1>1, <2>1, <2>2
<1>11. CASE Unlink
  <2>1. LinksOf(user) \subseteq Link BY <1>1 DEF LinksOf
  <2>2. {l.fgp_id : l \in LinksOf(user)} \subseteq Ids BY <2>1, LinkIs
  <2>3. /\ links' \subseteq links
        /\ erased' \subseteq erased \cup {l.fgp_id : l \in LinksOf(user)}
    BY <1>11 DEF Unlink
  <2>4. UNCHANGED <<accounts, rows, entry, exit>> BY <1>11 DEF Unlink, devices
  <2> QED BY <1>1, <2>2, <2>3, <2>4
<1>12. CASE TypeWipe BY <1>1, <1>12, SlotsAre DEF TypeWipe, DeleteAll, tables
<1>13. CASE WipeExit BY <1>1, <1>13, SlotsAre DEF WipeExit, DeleteAll, tables
<1>14. CASE TypeReload BY <1>1, <1>14, SlotsAre DEF TypeReload, DeleteAll, tables
<1>15. CASE ClearExit BY <1>1, <1>15, SlotsAre DEF ClearExit, DeleteAll, tables
<1>16. CASE LoadTemplate
  <2>1. id \in Ids BY <1>1, <1>16, Bounds DEF LoadTemplate, Ids, Working
  <2>2. entry' \in Slots /\ exit' \in Slots
    <3>1. CASE rows[id] = Nothing BY <1>1, <1>16, <3>1 DEF LoadTemplate, devices
    <3>2. CASE rows[id] # Nothing
      <4>1. rows[id] \in Fingers BY <1>1, <2>1, <3>2 DEF Slots
      <4>2. /\ SetTemplate(entry, rows[id], id).slots \in Slots
            /\ SetTemplate(exit, rows[id], id).slots \in Slots
        BY <1>1, <2>1, <4>1, SetTemplateIs
      <4>3. /\ entry' \in {entry, SetTemplate(entry, rows[id], id).slots}
            /\ exit' \in {exit, SetTemplate(exit, rows[id], id).slots}
        BY <1>16, <3>2 DEF LoadTemplate
      <4> QED BY <1>1, <4>2, <4>3
    <3> QED BY <3>1, <3>2
  <2>3. UNCHANGED <<accounts, rows, links, erased>> BY <1>16 DEF LoadTemplate, tables
  <2> QED BY <1>1, <2>2, <2>3
<1>17. CASE FinishReload BY <1>1, <1>17 DEF FinishReload, tables, devices
<1>18. CASE Crash BY <1>1, <1>18 DEF Crash, tables, devices
<1>19. CASE UNCHANGED vars BY <1>1, <1>19 DEF vars, tables, devices
<1> QED BY <1>2, <1>3, <1>4, <1>5, <1>6, <1>7, <1>8, <1>9, <1>10, <1>11, <1>12, <1>13,
           <1>14, <1>15, <1>16, <1>17, <1>18, <1>19, <1>20
        DEF Next, Enroll, Delete, Reload
-----------------------------------------------------------------------------
(***************************************************************************)
(* The registers of a command.                                             *)
(***************************************************************************)
\* A command that ends leaves nothing in them.
LEMMA DoneRegisters == Done => Registers'
BY DEF Done, Registers, Enrolling

\* Where the links stay, so does the number of the next.
LEMMA SameRow == links' = links => NextRow' = NextRow
BY DEF NextRow

\* What the registers of an enrollment hold, it keeps holding.
LEMMA SameEnrolling ==
  ASSUME IInv, at \in Enrolling, at' \in Enrolling,
         UNCHANGED <<links, user, id>>,
         at' \in {"upload", "row", "link"} => id \in Ids /\ finger' \in Fingers
  PROVE  Registers'
<1>1. NextRow' = NextRow BY SameRow
<1> QED BY <1>1 DEF IInv, Registers, Enrolling

\* Every step leaves the registers with what its command takes from them.
LEMMA RegistersNext == IInv /\ [Next]_vars => Registers'
<1> SUFFICES ASSUME IInv, [Next]_vars PROVE Registers' OBVIOUS
<1>1. TypeOK /\ Registers BY DEF IInv
<1>2. ASSUME NEW u \in Users, TypeEnroll(u) PROVE Registers'
  <2>1. /\ links' = links /\ at = "prompt" /\ NextRow <= MaxLinks
        /\ \/ at' = "scan" /\ user' = u
           \/ UNCHANGED <<at, user, id>>
    BY <1>2 DEF TypeEnroll
  <2>2. NextRow' = NextRow BY <2>1, SameRow
  <2> QED BY <1>1, <2>1, <2>2 DEF Registers, Enrolling
<1>3. ASSUME NEW f \in Fingers, ScanFinger(f) PROVE Registers'
  <2>1. /\ at = "scan" /\ at' = "download" /\ links' = links /\ id' = id /\ user' = user
    BY <1>3 DEF ScanFinger, tables
  <2>2. NextRow' = NextRow BY <2>1, SameRow
  <2> QED BY <1>1, <2>1, <2>2 DEF Registers, Enrolling
<1>4. CASE ScanRefused BY <1>4, DoneRegisters DEF ScanRefused
<1>20. ASSUME NEW f \in Fingers, ScanUnanswered(f) PROVE Registers'
  <2>1. CASE Done BY <2>1, DoneRegisters
  <2>2. CASE ~Done
    <3>1. /\ at = "scan" /\ at' = "download" /\ links' = links /\ id' = id /\ user' = user
      BY <1>20, <2>2 DEF ScanUnanswered, tables
    <3>2. NextRow' = NextRow BY <3>1, SameRow
    <3> QED BY <1>1, <3>1, <3>2 DEF Registers, Enrolling
  <2> QED BY <2>1, <2>2
<1>5. CASE Download
  <2>1. /\ at = "download" /\ at' \in {"upload", "undo"} /\ UNCHANGED <<links, user, id>>
        /\ at' = "upload" => id \in Ids /\ exit[id] # Nothing /\ finger' = exit[id]
    BY <1>5 DEF Download, tables
  <2>2. at' = "upload" => finger' \in Fingers BY <1>1, <2>1 DEF TypeOK, Slots
  <2> QED BY <2>1, <2>2, SameEnrolling DEF Enrolling
<1>6. CASE Upload
  <2>1. /\ at = "upload" /\ at' \in {"row", "undo"}
        /\ UNCHANGED <<links, user, finger, id>>
    BY <1>6 DEF Upload, Uploaded, tables
  <2>2. id \in Ids /\ finger \in Fingers BY <1>1, <2>1 DEF Registers
  <2> QED BY <2>1, <2>2, SameEnrolling DEF Enrolling
<1>7. CASE InsertRow
  <2>1. /\ at = "row" /\ at' = "link"
        /\ UNCHANGED <<links, user, finger, id>>
    BY <1>7 DEF InsertRow
  <2>2. id \in Ids /\ finger \in Fingers BY <1>1, <2>1 DEF Registers
  <2> QED BY <2>1, <2>2, SameEnrolling DEF Enrolling
<1>8. CASE InsertLink BY <1>8, DoneRegisters DEF InsertLink
<1>9. CASE RemoveEnrolled BY <1>9, DoneRegisters DEF RemoveEnrolled
<1>10. ASSUME NEW u \in Users, TypeDelete(u) PROVE Registers'
  <2>1. /\ at = "prompt" /\ at' = "unlink" /\ user' = u /\ id' = id
    BY <1>10 DEF TypeDelete
  <2> QED BY <1>1, <2>1 DEF Registers, Enrolling
<1>11. CASE Unlink BY <1>11, DoneRegisters DEF Unlink
<1>12. CASE TypeWipe BY <1>1, <1>12 DEF TypeWipe, Registers, Enrolling
<1>13. CASE WipeExit BY <1>13, DoneRegisters DEF WipeExit
<1>14. CASE TypeReload BY <1>1, <1>14 DEF TypeReload, Registers, Enrolling
<1>15. CASE ClearExit
  <2>1. /\ at = "clear" /\ at' = "reload" /\ id' = id
        /\ count' = Cardinality({i \in Ids : rows[i] # Nothing})
    BY <1>15 DEF ClearExit
  <2>2. id' = 0 /\ count' \in 0..MAX_FGP_COUNT BY <1>1, <2>1, CountIs DEF Registers
  <2>3. id' <= count' BY <2>2, Bounds
  <2> QED BY <2>1, <2>3 DEF Registers, Enrolling
<1>16. CASE LoadTemplate
  <2>1. /\ at = "reload" /\ at' = "reload" /\ id < count /\ id' = id + 1 /\ count' = count
    BY <1>16 DEF LoadTemplate
  <2>2. id' <= count' BY <1>1, <2>1, Bounds DEF TypeOK
  <2> QED BY <2>1, <2>2 DEF Registers, Enrolling
<1>17. CASE FinishReload BY <1>17, DoneRegisters DEF FinishReload
<1>18. CASE Crash BY <1>18, DoneRegisters DEF Crash
<1>19. CASE UNCHANGED vars
  <2>1. NextRow' = NextRow BY <1>19, SameRow DEF vars, tables
  <2> QED BY <1>1, <1>19, <2>1 DEF vars, tables, devices, Registers, Enrolling
<1> QED BY <1>2, <1>3, <1>4, <1>5, <1>6, <1>7, <1>8, <1>9, <1>10, <1>11, <1>12, <1>13,
           <1>14, <1>15, <1>16, <1>17, <1>18, <1>19, <1>20
        DEF Next, Enroll, Delete, Reload
-----------------------------------------------------------------------------
(***************************************************************************)
(* What the entry scanner holds.                                           *)
(***************************************************************************)
\* Faults that have not occurred by a step's end had not occurred before it.
LEMMA WithoutBefore ==
  ASSUME [Next]_vars, NEW F, Without(F)'
  PROVE  Without(F)
BY Remembered DEF Without

\* Nor does one occur in the step.
LEMMA NoMishap ==
  ASSUME NEW F, Without(F)', NEW fault \in F, fault \notin Undone
  PROVE  ~Mishap(fault)
BY MishapAdds DEF Without

\* Outside an enrollment there is nothing to rely on.
LEMMA NotEnrolling == at' \notin {"scan"} \cup Enrolling => Answered'
BY DEF Answered, Enrolling

\* What an enrollment relies on, it keeps relying on.
LEMMA AnsweredKept ==
  ASSUME Answered, at \in Enrolling, at' \in Enrolling, UNCHANGED <<exit, user, id>>,
         at' \in {"upload", "row", "link"} => exit[id] = finger'
  PROVE  Answered'
BY DEF Answered, Enrolling

\* Every step leaves an enrollment with what it relies on, as long as every answer arrives.
LEMMA AnsweredNext ==
  ASSUME IInv, [Next]_vars, Without({"answer"})'
  PROVE  Answered'
<1>1. TypeOK /\ Registers /\ Answered BY WithoutBefore DEF IInv
<1>2. ~Mishap("answer") BY NoMishap DEF Undone
<1>3. exit \in Slots BY <1>1 DEF TypeOK
<1>4. ASSUME NEW u \in Users, TypeEnroll(u) PROVE Answered'
  <2>1. FreeNumber = MAX_FGP_COUNT \/ exit[FreeNumber] = Nothing BY <1>1, FreeNumberIs
  <2>2. /\ exit' = exit /\ at = "prompt"
        /\ (at' = "scan" /\ id' = FreeNumber) \/ at' = at
    BY <1>2, <1>4 DEF TypeEnroll, devices
  <2> QED BY <2>1, <2>2, NotEnrolling DEF Answered, Enrolling
<1>5. ASSUME NEW f \in Fingers, ScanFinger(f) PROVE Answered'
  <2>1. /\ at' = "download" /\ id' = id /\ user' = user /\ Owner[f] = user
        /\ id \in Ids /\ exit' = [exit EXCEPT ![id] = f]
    BY <1>5 DEF ScanFinger, Enrolls
  <2>2. exit'[id] = f BY <1>3, <2>1 DEF Slots
  <2> QED BY <2>1, <2>2 DEF Answered
<1>6. ASSUME NEW f \in Fingers, ScanUnanswered(f) PROVE FALSE
  BY <1>2, <1>6 DEF ScanUnanswered
<1>7. CASE Download
  <2>1. /\ at = "download" /\ at' \in {"upload", "undo"} /\ UNCHANGED <<exit, user, id>>
        /\ at' = "upload" => finger' = exit[id]
    BY <1>7 DEF Download, devices
  <2> QED BY <1>1, <2>1, AnsweredKept DEF Enrolling
<1>8. CASE Upload
  <2>1. /\ at = "upload" /\ at' \in {"row", "undo"} /\ UNCHANGED <<exit, user, finger, id>>
    BY <1>8 DEF Upload, Uploaded
  <2>2. exit[id] = finger BY <1>1, <2>1 DEF Answered
  <2> QED BY <1>1, <2>1, <2>2, AnsweredKept DEF Enrolling
<1>9. CASE InsertRow
  <2>1. /\ at = "row" /\ at' = "link" /\ UNCHANGED <<exit, user, finger, id>>
    BY <1>9 DEF InsertRow, devices
  <2>2. exit[id] = finger BY <1>1, <2>1 DEF Answered
  <2> QED BY <1>1, <2>1, <2>2, AnsweredKept DEF Enrolling
<1>10. CASE ScanRefused \/ InsertLink \/ RemoveEnrolled \/ Delete \/ Reload \/ Crash
  <2>1. Done => at' = "prompt" BY DEF Done
  <2>2. CASE ScanRefused \/ InsertLink \/ RemoveEnrolled \/ Crash
    <3>1. at' = "prompt" BY <2>1, <2>2 DEF ScanRefused, InsertLink, RemoveEnrolled, Crash
    <3> QED BY <3>1, NotEnrolling DEF Enrolling
  <2>3. CASE Delete
    <3>1. at' \in {"prompt", "unlink"} BY <2>1, <2>3 DEF Delete, TypeDelete, Unlink
    <3> QED BY <3>1, NotEnrolling DEF Enrolling
  <2>4. CASE Reload
    <3>1. at' \in {"prompt", "wipe", "clear", "reload"}
      BY <2>1, <2>4 DEF Reload, TypeWipe, WipeExit, TypeReload, ClearExit, LoadTemplate,
                        FinishReload
    <3> QED BY <3>1, NotEnrolling DEF Enrolling
  <2> QED BY <1>10, <2>2, <2>3, <2>4
<1>11. CASE UNCHANGED vars BY <1>1, <1>11 DEF vars, devices, Answered
<1> QED BY <1>4, <1>5, <1>6, <1>7, <1>8, <1>9, <1>10, <1>11 DEF Next, Enroll

\* Every step leaves the entry scanner behind by at most the finger being enrolled.
LEMMA CopiedNext ==
  ASSUME IInv, [Next]_vars, Without(Diverging)'
  PROVE  Copied'
<1>1. TypeOK /\ Registers /\ Copied /\ Answered
  <2>1. Without({"answer"}) BY WithoutBefore DEF Without, Diverging
  <2> QED BY <2>1, WithoutBefore DEF IInv
<1>2. /\ ~Mishap("answer") /\ ~Mishap("DeleteID") /\ ~Mishap("DeleteAll")
      /\ ~Mishap("restore") /\ ~Mishap("crash")
  BY NoMishap DEF Diverging, Undone
<1>3. exit \in Slots /\ entry \in Slots /\ id \in 0..MAX_FGP_COUNT BY <1>1 DEF TypeOK
<1>4. ASSUME NEW u \in Users, TypeEnroll(u) PROVE Copied'
  BY <1>1, <1>4 DEF TypeEnroll, devices, Copied
<1>5. ASSUME NEW f \in Fingers, ScanFinger(f) PROVE Copied'
  <2>1. /\ at = "scan" /\ at' = "download" /\ id' = id /\ entry' = entry
        /\ id \in Ids /\ exit[id] = Nothing /\ ~Holds(exit, f)
        /\ exit' = [exit EXCEPT ![id] = f]
    BY <1>5 DEF ScanFinger, Enrolls, tables
  <2>2. entry = exit BY <1>1, <2>1 DEF Copied
  <2>3. exit'[id] = f BY <1>3, <2>1 DEF Slots
  <2>4. ~Holds(entry', f) BY <2>1, <2>2
  <2> QED BY <2>1, <2>2, <2>3, <2>4 DEF Copied, Holds
<1>6. CASE ScanRefused BY <1>1, <1>6 DEF ScanRefused, Done, devices, Copied
<1>22. ASSUME NEW f \in Fingers, ScanUnanswered(f) PROVE FALSE
  BY <1>2, <1>22 DEF ScanUnanswered
<1>7. CASE Download
  <2>1. /\ at = "download" /\ at' \in {"upload", "undo"}
        /\ UNCHANGED <<entry, exit, id>>
    BY <1>7 DEF Download, devices
  <2> QED BY <1>1, <2>1 DEF Copied, Holds
<1>8. CASE Upload
  <2>1. at = "upload" /\ UNCHANGED <<exit, id>> BY <1>8 DEF Upload
  <2>2. /\ entry[id] = Nothing /\ exit = [entry EXCEPT ![id] = finger] /\ exit[id] = finger
        /\ ~Holds(entry, finger) /\ id \in Ids /\ finger \in Fingers
    <3>1. exit[id] = finger BY <1>1, <2>1 DEF Answered
    <3> QED BY <1>1, <2>1, <3>1 DEF Copied, Registers
  <2>3. /\ SetTemplate(entry, finger, id).slots = exit
        /\ SetTemplate(entry, finger, id).ret = 0
    BY <1>3, <2>2, SetTemplateIs
  <2>4. \/ entry' = exit /\ at' = "row"
        \/ entry' = entry /\ at' = "undo"
    BY <1>2, <1>8, <2>3 DEF Upload, Uploaded, NotSet, Failed
  <2> QED BY <2>1, <2>2, <2>4 DEF Copied, Holds
<1>9. CASE InsertRow BY <1>1, <1>9 DEF InsertRow, devices, Copied
<1>10. CASE InsertLink BY <1>1, <1>10 DEF InsertLink, Done, devices, Copied
<1>11. CASE RemoveEnrolled
  <2>1. at = "undo" /\ at' = "prompt" /\ entry' = entry BY <1>11 DEF RemoveEnrolled, Done
  <2>2. id \in Ids BY <1>1, <2>1 DEF Answered, Enrolling
  <2>4. exit' = [exit EXCEPT ![id] = Nothing] BY <1>2, <1>11, <2>2 DEF RemoveEnrolled
  <2>5. entry[id] = Nothing /\ exit = [entry EXCEPT ![id] = exit[id]]
    BY <1>1, <2>1 DEF Copied
  <2>3. exit' = entry BY <1>3, <2>2, <2>4, <2>5 DEF Slots
  <2> QED BY <2>1, <2>3 DEF Copied
<1>12. ASSUME NEW u \in Users, TypeDelete(u) PROVE Copied'
  <2>1. at = "prompt" /\ at' = "unlink" /\ UNCHANGED <<entry, exit>>
    BY <1>12 DEF TypeDelete, devices
  <2> QED BY <1>1, <2>1 DEF Copied
<1>13. CASE Unlink BY <1>1, <1>13 DEF Unlink, Done, devices, Copied
<1>14. CASE TypeWipe BY <1>2, <1>14 DEF TypeWipe, DeleteAll, Copied
<1>15. CASE WipeExit BY <1>1, <1>2, <1>15 DEF WipeExit, DeleteAll, Done, Copied
<1>16. CASE TypeReload BY <1>2, <1>16 DEF TypeReload, DeleteAll, Copied
<1>17. CASE ClearExit BY <1>1, <1>2, <1>17 DEF ClearExit, DeleteAll, Copied
<1>18. CASE LoadTemplate
  <2>1. at = "reload" /\ at' = "reload" /\ entry = exit
    BY <1>1, <1>18 DEF LoadTemplate, Copied
  <2>2. entry' = exit'
    <3>1. CASE rows[id] = Nothing BY <1>18, <2>1, <3>1 DEF LoadTemplate, devices
    <3>2. CASE rows[id] # Nothing
      <4>1. /\ entry' = SetTemplate(entry, rows[id], id).slots
            /\ exit' = SetTemplate(exit, rows[id], id).slots
        BY <1>2, <1>18, <3>2 DEF LoadTemplate
      <4> QED BY <2>1, <4>1
    <3> QED BY <3>1, <3>2
  <2> QED BY <2>1, <2>2 DEF Copied
<1>19. CASE FinishReload BY <1>1, <1>19 DEF FinishReload, Reloaded, Done, devices, Copied
<1>20. CASE Crash BY <1>2, <1>20 DEF Crash
<1>21. CASE UNCHANGED vars BY <1>1, <1>21 DEF vars, devices, Copied, Holds
<1> QED BY <1>4, <1>5, <1>6, <1>7, <1>8, <1>9, <1>10, <1>11, <1>12, <1>13,
           <1>14, <1>15, <1>16, <1>17, <1>18, <1>19, <1>20, <1>21, <1>22
        DEF Next, Enroll, Delete, Reload
-----------------------------------------------------------------------------
(***************************************************************************)
(* What the exit scanner holds, and the row of its number.                 *)
(***************************************************************************)
\* A finger that is recorded stays so where neither its row nor the numbers the
\* operator has deleted change.
LEMMA RecordedKept ==
  ASSUME Recorded, UNCHANGED <<rows, links, erased>>, at # "unlink",
         \A i \in Ids : exit'[i] # Nothing => exit'[i] = exit[i] \/ rows[i] = exit'[i],
         at \in {"download", "upload", "undo", "row"} =>
           \/ exit'[id] = Nothing
           \/ id' = id /\ at' \in {"download", "upload", "undo", "row"}
  PROVE  Recorded'
<1> SUFFICES ASSUME NEW i \in Ids, exit'[i] # Nothing
             PROVE  \/ rows[i] = exit'[i]
                    \/ i \in erased
                    \/ i = id' /\ at' \in {"download", "upload", "undo", "row"}
  BY DEF Recorded
<1>1. CASE rows[i] = exit'[i] BY <1>1
<1>2. CASE exit'[i] = exit[i]
  <2>1. \/ rows[i] = exit[i] \/ i \in erased
        \/ i = id /\ at \in {"download", "upload", "undo", "row"}
    BY <1>2 DEF Recorded
  <2> QED BY <1>2, <2>1
<1> QED BY <1>1, <1>2

\* Every step leaves what the exit scanner holds recorded, being recorded, deleted or being
\* deleted.
LEMMA RecordedNext ==
  ASSUME IInv, [Next]_vars, Without(Losing)'
  PROVE  Recorded'
<1>1. TypeOK /\ Registers /\ Recorded /\ Answered
  <2>1. Without({"answer"}) BY WithoutBefore DEF Without, Losing
  <2> QED BY <2>1, WithoutBefore DEF IInv
<1>2. ~Mishap("answer") /\ ~Mishap("DeleteID") /\ ~Mishap("database") /\ ~Mishap("crash")
  BY NoMishap DEF Losing, Undone
<1>3. exit \in Slots /\ entry \in Slots /\ rows \in Slots /\ id \in 0..MAX_FGP_COUNT
  BY <1>1 DEF TypeOK
<1>4. ASSUME NEW u \in Users, TypeEnroll(u) PROVE Recorded'
  <2>1. at = "prompt" /\ UNCHANGED <<rows, links, erased, exit>>
    BY <1>4 DEF TypeEnroll, devices
  <2> QED BY <1>1, <2>1, RecordedKept
<1>5. ASSUME NEW f \in Fingers, ScanFinger(f) PROVE Recorded'
  <2>1. /\ at = "scan" /\ at' = "download" /\ id' = id
        /\ exit' = [exit EXCEPT ![id] = f] /\ UNCHANGED <<rows, links, erased>>
    BY <1>5 DEF ScanFinger, tables
  <2>2. \A i \in Ids : i # id => exit'[i] = exit[i] BY <1>3, <2>1 DEF Slots
  <2> QED BY <1>1, <2>1, <2>2 DEF Recorded
<1>6. CASE ScanRefused
  <2>1. at = "scan" /\ UNCHANGED <<rows, links, erased, exit>>
    BY <1>6 DEF ScanRefused, tables, devices
  <2> QED BY <1>1, <2>1, RecordedKept
<1>22. ASSUME NEW f \in Fingers, ScanUnanswered(f) PROVE FALSE
  BY <1>2, <1>22 DEF ScanUnanswered
<1>7. CASE Download
  <2>1. /\ at = "download" /\ at' \in {"upload", "undo"} /\ id' = id
        /\ UNCHANGED <<rows, links, erased, exit>>
    BY <1>7 DEF Download, tables, devices
  <2> QED BY <1>1, <2>1, RecordedKept
<1>8. CASE Upload
  <2>1. /\ at = "upload" /\ at' \in {"row", "undo"} /\ id' = id
        /\ UNCHANGED <<rows, links, erased, exit>>
    BY <1>8 DEF Upload, Uploaded, tables
  <2> QED BY <1>1, <2>1, RecordedKept
<1>9. CASE InsertRow
  <2>1. /\ at = "row" /\ at' = "link" /\ rows' = [rows EXCEPT ![id] = finger]
        /\ UNCHANGED <<links, erased, exit>>
    BY <1>2, <1>9 DEF InsertRow, devices
  <2>2. id \in Ids /\ exit[id] = finger BY <1>1, <2>1 DEF Answered, Enrolling
  <2>3. rows'[id] = finger /\ \A i \in Ids : i # id => rows'[i] = rows[i]
    BY <1>3, <2>1, <2>2 DEF Slots
  <2> QED BY <1>1, <2>1, <2>2, <2>3 DEF Recorded
<1>10. CASE InsertLink
  <2>1. /\ at = "link" /\ at' = "prompt" /\ erased' = erased \ {id}
        /\ UNCHANGED <<rows, exit>>
    BY <1>10 DEF InsertLink, Done, devices
  <2>2. rows[id] = exit[id] /\ id \in Ids
    <3>1. Without(Misbinding) BY WithoutBefore DEF Without, Losing, Misbinding
    <3>2. Bound BY <3>1 DEF IInv
    <3> QED BY <1>1, <2>1, <3>2 DEF Bound, Answered, Enrolling
  <2> QED BY <1>1, <2>1, <2>2 DEF Recorded
<1>11. CASE RemoveEnrolled
  <2>1. at = "undo" /\ UNCHANGED <<rows, links, erased>>
    BY <1>11 DEF RemoveEnrolled, tables
  <2>2. id \in Ids BY <1>1, <2>1 DEF Answered, Enrolling
  <2>4. exit' = [exit EXCEPT ![id] = Nothing] BY <1>2, <1>11, <2>2 DEF RemoveEnrolled
  <2>3. exit'[id] = Nothing /\ \A i \in Ids : i # id => exit'[i] = exit[i]
    BY <1>3, <2>2, <2>4 DEF Slots
  <2> QED BY <1>1, <2>1, <2>2, <2>3, RecordedKept
<1>12. ASSUME NEW u \in Users, TypeDelete(u) PROVE Recorded'
  <2>1. /\ at = "prompt" /\ at' = "unlink" /\ user' = u
        /\ UNCHANGED <<links, erased, exit>>
    BY <1>12 DEF TypeDelete, devices
  <2>2. \A i \in Ids : rows'[i] = rows[i] \/ \E l \in LinksOf(u) : l.fgp_id = i
    <3>1. CASE rows' = rows BY <3>1
    <3>2. CASE rows' # rows
      <4>1. /\ LinksOf(u) # {}
            /\ rows' = [rows EXCEPT ![Oldest(LinksOf(u)).fgp_id] = Nothing]
        BY <1>12, <3>2 DEF TypeDelete
      <4>2. LinksOf(u) \in SUBSET Link BY <1>1 DEF LinksOf, TypeOK
      <4>3. Oldest(LinksOf(u)) \in LinksOf(u) BY <4>1, <4>2, OldestIs
      <4> QED BY <1>3, <4>1, <4>3 DEF Slots
    <3> QED BY <3>1, <3>2
  <2>3. LinksOf(u)' = LinksOf(u) BY <2>1 DEF LinksOf
  <2> QED BY <1>1, <2>1, <2>2, <2>3 DEF Recorded, LinksOf
<1>13. CASE Unlink
  <2>1. /\ at = "unlink" /\ at' = "prompt" /\ UNCHANGED <<rows, exit>>
        /\ erased' = erased \cup {l.fgp_id : l \in LinksOf(user)}
    BY <1>2, <1>13 DEF Unlink, Done, devices
  <2> QED BY <1>1, <2>1 DEF Recorded
<1>14. CASE TypeWipe
  <2>1. at = "prompt" /\ UNCHANGED <<rows, links, erased, exit>>
    BY <1>14 DEF TypeWipe, tables
  <2> QED BY <1>1, <2>1, RecordedKept
<1>15. CASE WipeExit
  <2>1. at = "wipe" /\ (exit' = Empty \/ exit' = exit) /\ UNCHANGED <<rows, links, erased>>
    BY <1>15 DEF WipeExit, DeleteAll, tables
  <2>2. \A i \in Ids : exit'[i] # Nothing => exit'[i] = exit[i] BY <2>1 DEF Empty
  <2> QED BY <1>1, <2>1, <2>2, RecordedKept
<1>16. CASE TypeReload
  <2>1. at = "prompt" /\ UNCHANGED <<rows, links, erased, exit>>
    BY <1>16 DEF TypeReload, tables
  <2> QED BY <1>1, <2>1, RecordedKept
<1>17. CASE ClearExit
  <2>1. at = "clear" /\ (exit' = Empty \/ exit' = exit) /\ UNCHANGED <<rows, links, erased>>
    BY <1>17 DEF ClearExit, DeleteAll, tables
  <2>2. \A i \in Ids : exit'[i] # Nothing => exit'[i] = exit[i] BY <2>1 DEF Empty
  <2> QED BY <1>1, <2>1, <2>2, RecordedKept
<1>18. CASE LoadTemplate
  <2>1. at = "reload" /\ UNCHANGED <<rows, links, erased>> /\ id \in Ids
    BY <1>3, <1>18, <1>1, Bounds DEF LoadTemplate, tables, Ids, TypeOK
  <2>2. \A i \in Ids : exit'[i] = exit[i] \/ rows[i] = exit'[i]
    <3>1. CASE rows[id] = Nothing BY <1>18, <3>1 DEF LoadTemplate, devices
    <3>2. CASE rows[id] # Nothing
      <4>1. exit' \in {exit, SetTemplate(exit, rows[id], id).slots}
        BY <1>18, <3>2 DEF LoadTemplate
      <4>2. rows[id] \in Fingers BY <1>3, <2>1, <3>2 DEF Slots
      <4>3. exit' = exit \/ exit' = [exit EXCEPT ![id] = rows[id]]
        <5>1. \/ SetTemplate(exit, rows[id], id).slots = exit
              \/ SetTemplate(exit, rows[id], id).slots = [exit EXCEPT ![id] = rows[id]]
          BY <1>3, <2>1, <4>2, SetTemplateIs
        <5> QED BY <4>1, <5>1
      <4> QED BY <1>3, <2>1, <4>3 DEF Slots
    <3> QED BY <3>1, <3>2
  <2> QED BY <1>1, <2>1, <2>2, RecordedKept
<1>19. CASE FinishReload
  <2>1. at = "reload" /\ UNCHANGED <<rows, links, erased, exit>>
    BY <1>19 DEF FinishReload, Reloaded, tables, devices
  <2> QED BY <1>1, <2>1, RecordedKept
<1>20. CASE Crash BY <1>2, <1>20 DEF Crash
<1>21. CASE UNCHANGED vars
  BY <1>1, <1>21 DEF vars, tables, devices, Recorded, LinksOf
<1> QED BY <1>4, <1>5, <1>6, <1>7, <1>8, <1>9, <1>10, <1>11, <1>12, <1>13,
           <1>14, <1>15, <1>16, <1>17, <1>18, <1>19, <1>20, <1>21, <1>22
        DEF Next, Enroll, Delete, Reload
-----------------------------------------------------------------------------
(***************************************************************************)
(* Whom a number was bound to last.                                        *)
(***************************************************************************)
\* A link inserted with SQLite's number binds its template number to its user, and no other.
LEMMA InsertedBinds ==
  ASSUME links \subseteq Link, NEW l \in Link, \A m \in links : m.row < l.row,
         links' = links \cup {l}
  PROVE  /\ LastBound(l.fgp_id)' = l.user_id
         /\ \A i \in Ids : i # l.fgp_id => LastBound(i)' = LastBound(i)
<1>1. LastBound(l.fgp_id)' = l.user_id
  <2> DEFINE named == {m \in links : m.fgp_id = l.fgp_id}
  <2>1. {m \in links' : m.fgp_id = l.fgp_id} = named \cup {l} OBVIOUS
  <2>2. named \in SUBSET Link /\ \A m \in named : m.row < l.row OBVIOUS
  <2> HIDE DEF named
  <2>3. Latest(named \cup {l}) = l BY <2>2, AddedIsLatest
  <2>4. named \cup {l} # {} OBVIOUS
  <2> QED BY <2>1, <2>3, <2>4 DEF LastBound
<1>2. ASSUME NEW i \in Ids, i # l.fgp_id PROVE LastBound(i)' = LastBound(i)
  <2>1. {m \in links' : m.fgp_id = i} = {m \in links : m.fgp_id = i} BY <1>2
  <2> QED BY <2>1 DEF LastBound
<1> QED BY <1>1, <1>2

\* A number that loses no link stays bound as it was.
LEMMA UnlinkedKeeps ==
  ASSUME NEW u, NEW i, links' = links \ LinksOf(u),
         i \notin {l.fgp_id : l \in LinksOf(u)}
  PROVE  LastBound(i)' = LastBound(i)
<1>1. {m \in links' : m.fgp_id = i} = {m \in links : m.fgp_id = i} OBVIOUS
<1> QED BY <1>1 DEF LastBound

\* Where the links stay, so does whom every number is bound to.
LEMMA SameBound == links' = links => \A i \in Ids : LastBound(i)' = LastBound(i)
BY DEF LastBound

\* Bindings are as right after a step that inserts no row or link as before it.
LEMMA BoundKept ==
  ASSUME Bound, UNCHANGED <<links, erased>>, at # "link", at' # "link",
         \A i \in Ids : rows'[i] # Nothing => rows'[i] = rows[i]
  PROVE  Bound'
<1>1. \A i \in Ids : LastBound(i)' = LastBound(i) BY SameBound
<1> QED BY <1>1 DEF Bound

\* Every step leaves the numbers that have a row bound to its owner, or about to be.
LEMMA BoundNext ==
  ASSUME IInv, [Next]_vars, Without(Misbinding)'
  PROVE  Bound'
<1>1. TypeOK /\ Registers /\ Bound /\ Answered
  <2>1. Without({"answer"}) BY WithoutBefore DEF Without, Misbinding
  <2> QED BY <2>1, WithoutBefore DEF IInv
<1>2. ~Mishap("answer") /\ ~Mishap("database") /\ ~Mishap("crash")
  BY NoMishap DEF Misbinding, Undone
<1>3. rows \in Slots /\ links \subseteq Link BY <1>1 DEF TypeOK
<1>4. ASSUME NEW u \in Users, TypeEnroll(u) PROVE Bound'
  <2>1. at = "prompt" /\ at' \in {"prompt", "scan"} /\ UNCHANGED <<rows, links, erased>>
    BY <1>4 DEF TypeEnroll
  <2> QED BY <1>1, <2>1, BoundKept
<1>5. ASSUME NEW f \in Fingers, ScanFinger(f) PROVE Bound'
  <2>1. at = "scan" /\ at' = "download" /\ UNCHANGED <<rows, links, erased>>
    BY <1>5 DEF ScanFinger, tables
  <2> QED BY <1>1, <2>1, BoundKept
<1>6. CASE ScanRefused
  <2>1. at = "scan" /\ at' = "prompt" /\ UNCHANGED <<rows, links, erased>>
    BY <1>6 DEF ScanRefused, Done, tables
  <2> QED BY <1>1, <2>1, BoundKept
<1>22. ASSUME NEW f \in Fingers, ScanUnanswered(f) PROVE FALSE
  BY <1>2, <1>22 DEF ScanUnanswered
<1>7. CASE Download
  <2>1. at = "download" /\ at' \in {"upload", "undo"} /\ UNCHANGED <<rows, links, erased>>
    BY <1>7 DEF Download, tables
  <2> QED BY <1>1, <2>1, BoundKept
<1>8. CASE Upload
  <2>1. at = "upload" /\ at' \in {"row", "undo"} /\ UNCHANGED <<rows, links, erased>>
    BY <1>8 DEF Upload, Uploaded, tables
  <2> QED BY <1>1, <2>1, BoundKept
<1>9. CASE InsertRow
  <2>1. /\ at = "row" /\ at' = "link" /\ rows' = [rows EXCEPT ![id] = finger]
        /\ UNCHANGED <<links, erased, id, finger>>
    BY <1>2, <1>9 DEF InsertRow
  <2>2. id \in Ids BY <1>1, <2>1 DEF Registers, Enrolling
  <2>3. rows'[id] = finger /\ \A i \in Ids : i # id => rows'[i] = rows[i]
    BY <1>3, <2>1, <2>2 DEF Slots
  <2>4. \A i \in Ids : LastBound(i)' = LastBound(i) BY <2>1, SameBound
  <2> QED BY <1>1, <2>1, <2>3, <2>4 DEF Bound
<1>10. CASE InsertLink
  <2>1. /\ at = "link" /\ at' = "prompt" /\ erased' = erased \ {id} /\ rows' = rows
        /\ links' = links \cup {[row |-> NextRow, fgp_id |-> id, user_id |-> user]}
    BY <1>2, <1>10 DEF InsertLink, Done
  <2>2. PICK l \in Link : l = [row |-> NextRow, fgp_id |-> id, user_id |-> user]
    BY <2>1, NewLink
  <2>3. l.fgp_id = id /\ l.user_id = user /\ l.row = NextRow BY <2>2
  <2>4. links' = links \cup {l} /\ \A m \in links : m.row < l.row
    BY <2>1, <2>2, <2>3, NewLink
  <2>5. /\ LastBound(l.fgp_id)' = l.user_id
        /\ \A i \in Ids : i # l.fgp_id => LastBound(i)' = LastBound(i)
    BY <1>3, <2>4, InsertedBinds
  <2>6. user = Owner[rows[id]] BY <1>1, <2>1 DEF Bound, Answered, Enrolling
  <2>7. ASSUME NEW i \in Ids, rows'[i] # Nothing, i \notin erased'
        PROVE  LastBound(i)' = Owner[rows'[i]]
    <3>1. CASE i = id BY <2>1, <2>3, <2>5, <2>6, <3>1
    <3>2. CASE i # id BY <1>1, <2>1, <2>3, <2>5, <2>7, <3>2 DEF Bound
    <3> QED BY <3>1, <3>2
  <2> QED BY <2>1, <2>7 DEF Bound
<1>11. CASE RemoveEnrolled
  <2>1. at = "undo" /\ at' = "prompt" /\ UNCHANGED <<rows, links, erased>>
    BY <1>11 DEF RemoveEnrolled, Done, tables
  <2> QED BY <1>1, <2>1, BoundKept
<1>12. ASSUME NEW u \in Users, TypeDelete(u) PROVE Bound'
  <2>1. at = "prompt" /\ at' = "unlink" /\ UNCHANGED <<links, erased>>
    BY <1>12 DEF TypeDelete
  <2>2. rows' = rows \/ rows' = [rows EXCEPT ![Oldest(LinksOf(u)).fgp_id] = Nothing]
    BY <1>12 DEF TypeDelete
  <2>3. \A i \in Ids : rows'[i] # Nothing => rows'[i] = rows[i] BY <1>3, <2>2 DEF Slots
  <2> QED BY <1>1, <2>1, <2>3, BoundKept
<1>13. CASE Unlink
  <2>1. /\ at = "unlink" /\ at' = "prompt" /\ rows' = rows
        /\ links' = links \ LinksOf(user)
        /\ erased' = erased \cup {l.fgp_id : l \in LinksOf(user)}
    BY <1>2, <1>13 DEF Unlink, Done
  <2>2. \A i \in Ids \ erased' : i \notin erased /\ LastBound(i)' = LastBound(i)
    BY <2>1, UnlinkedKeeps
  <2> QED BY <1>1, <2>1, <2>2 DEF Bound
<1>14. CASE TypeWipe
  <2>1. at = "prompt" /\ at' = "wipe" /\ UNCHANGED <<rows, links, erased>>
    BY <1>14 DEF TypeWipe, tables
  <2> QED BY <1>1, <2>1, BoundKept
<1>15. CASE WipeExit
  <2>1. at = "wipe" /\ at' = "prompt" /\ UNCHANGED <<rows, links, erased>>
    BY <1>15 DEF WipeExit, Done, tables
  <2> QED BY <1>1, <2>1, BoundKept
<1>16. CASE TypeReload
  <2>1. at = "prompt" /\ at' = "clear" /\ UNCHANGED <<rows, links, erased>>
    BY <1>16 DEF TypeReload, tables
  <2> QED BY <1>1, <2>1, BoundKept
<1>17. CASE ClearExit
  <2>1. at = "clear" /\ at' = "reload" /\ UNCHANGED <<rows, links, erased>>
    BY <1>17 DEF ClearExit, tables
  <2> QED BY <1>1, <2>1, BoundKept
<1>18. CASE LoadTemplate
  <2>1. at = "reload" /\ at' = "reload" /\ UNCHANGED <<rows, links, erased>>
    BY <1>18 DEF LoadTemplate, tables
  <2> QED BY <1>1, <2>1, BoundKept
<1>19. CASE FinishReload
  <2>1. at = "reload" /\ at' = "prompt" /\ UNCHANGED <<rows, links, erased>>
    BY <1>19 DEF FinishReload, Reloaded, Done, tables
  <2> QED BY <1>1, <2>1, BoundKept
<1>20. CASE Crash BY <1>2, <1>20 DEF Crash
<1>21. CASE UNCHANGED vars
  <2>1. \A i \in Ids : LastBound(i)' = LastBound(i) BY <1>21, SameBound DEF vars, tables
  <2> QED BY <1>1, <1>21, <2>1 DEF vars, tables, Bound
<1> QED BY <1>4, <1>5, <1>6, <1>7, <1>8, <1>9, <1>10, <1>11, <1>12, <1>13,
           <1>14, <1>15, <1>16, <1>17, <1>18, <1>19, <1>20, <1>21, <1>22
        DEF Next, Enroll, Delete, Reload
-----------------------------------------------------------------------------
(***************************************************************************)
(* What a reload has brought back.                                         *)
(***************************************************************************)
\* One more row is loaded: its finger is held now, if not by its own number then by the one
\* whose row made SetTemplate refuse it.
LEMMA LoadedOneMore ==
  ASSUME IInv, Restored, LoadTemplate, ~Mishap("restore")
  PROVE  Restored'
<1>1. TypeOK BY DEF IInv
<1>2. /\ at = "reload" /\ at' = "reload" /\ rows' = rows /\ id' = id + 1
      /\ id \in Ids /\ entry \in Slots /\ rows \in Slots
  BY <1>1, Bounds DEF LoadTemplate, tables, Ids, TypeOK
<1>3. /\ entry = exit
      /\ \A j \in Ids : entry[j] # Nothing => rows[j] = entry[j]
      /\ \A i \in Ids : i < id /\ rows[i] # Nothing =>
           \E j \in Ids : rows[j] = rows[i] /\ entry[j] = rows[i]
  BY <1>2 DEF Restored
<1>4. \A i \in Ids : i < id' => i < id \/ i = id BY <1>2, Bounds DEF Ids
<1>5. CASE rows[id] = Nothing
  <2>1. UNCHANGED <<entry, exit>> BY <1>5 DEF LoadTemplate, devices
  <2> QED BY <1>2, <1>3, <1>4, <1>5, <2>1 DEF Restored
<1>6. CASE rows[id] # Nothing
  <2>1. rows[id] \in Fingers BY <1>2, <1>6 DEF Slots
  <2>2. /\ entry' = SetTemplate(entry, rows[id], id).slots
        /\ exit' = SetTemplate(exit, rows[id], id).slots
    BY <1>6 DEF LoadTemplate
  <2>3. CASE Holds(entry, rows[id])
    <3>1. entry' = entry /\ exit' = exit
      <4>1. SetTemplate(entry, rows[id], id).slots = entry
        BY <2>3 DEF SetTemplate
      <4> QED BY <1>3, <2>2, <4>1
    <3>2. PICK k \in Ids : entry[k] = rows[id] BY <2>3 DEF Holds
    <3>3. rows[k] = rows[id] BY <1>3, <1>6, <3>2
    <3> QED BY <1>2, <1>3, <1>4, <3>1, <3>2, <3>3 DEF Restored
  <2>4. CASE ~Holds(entry, rows[id])
    <3>1. entry' = [entry EXCEPT ![id] = rows[id]] /\ exit' = entry'
      BY <1>2, <1>3, <2>1, <2>2, <2>4, SetTemplateIs
    <3>2. entry'[id] = rows[id] /\ \A j \in Ids : j # id => entry'[j] = entry[j]
      BY <1>2, <3>1 DEF Slots
    <3>3. entry[id] = Nothing BY <1>2, <1>3, <2>4 DEF Holds
    <3>4. \A j \in Ids : entry'[j] # Nothing => rows[j] = entry'[j] BY <1>3, <3>2
    <3>5. ASSUME NEW i \in Ids, i < id', rows[i] # Nothing
          PROVE  \E j \in Ids : rows[j] = rows[i] /\ entry'[j] = rows[i]
      <4>1. CASE i = id BY <3>2, <4>1
      <4>2. CASE i # id
        <5>1. PICK j \in Ids : rows[j] = rows[i] /\ entry[j] = rows[i]
          BY <1>3, <1>4, <3>5, <4>2
        <5>2. j # id BY <3>3, <3>5, <5>1
        <5> QED BY <3>2, <5>1, <5>2
      <4> QED BY <4>1, <4>2
    <3> QED BY <1>2, <3>1, <3>4, <3>5 DEF Restored
  <2> QED BY <2>3, <2>4
<1> QED BY <1>5, <1>6

\* Every step leaves the rows a reload has passed on both scanners.
LEMMA RestoredNext ==
  ASSUME IInv, [Next]_vars, Without({"DeleteAll", "restore"})'
  PROVE  Restored'
<1>1. TypeOK /\ Registers /\ Restored BY WithoutBefore DEF IInv
<1>2. ~Mishap("DeleteAll") /\ ~Mishap("restore") BY NoMishap DEF Undone
<1>3. CASE TypeReload BY <1>2, <1>3 DEF TypeReload, DeleteAll, Restored
<1>4. CASE ClearExit
  <2>1. /\ at = "clear" /\ at' = "reload" /\ exit' = Empty /\ entry' = entry
        /\ rows' = rows /\ id' = id
    BY <1>2, <1>4 DEF ClearExit, DeleteAll, tables
  <2>2. entry' = Empty /\ id' = 0 BY <1>1, <2>1 DEF Restored, Registers
  <2>3. \A i \in Ids : ~(i < id') /\ entry'[i] = Nothing
    BY <2>2, Bounds DEF Ids, Empty
  <2> QED BY <2>1, <2>2, <2>3 DEF Restored
<1>5. CASE LoadTemplate BY <1>1, <1>2, <1>5, LoadedOneMore
<1>6. CASE UNCHANGED vars BY <1>1, <1>6 DEF vars, tables, devices, Restored
<1>7. CASE at' \notin {"clear", "reload"} BY <1>7 DEF Restored
<1>8. CASE Enroll
  <2>1. Done => at' \notin {"clear", "reload"} BY DEF Done
  <2>2. at' \notin {"clear", "reload"}
    BY <1>8, <2>1 DEF Enroll, TypeEnroll, ScanFinger, ScanRefused, ScanUnanswered, Download,
                      Upload, Uploaded, InsertRow, InsertLink, RemoveEnrolled
  <2> QED BY <1>7, <2>2
<1>9. CASE Delete
  <2>1. at' \notin {"clear", "reload"} BY <1>9 DEF Delete, Unlink, TypeDelete, Done
  <2> QED BY <1>7, <2>1
<1>10. CASE TypeWipe \/ WipeExit \/ FinishReload \/ Crash
  <2>1. at' \notin {"clear", "reload"}
    BY <1>10 DEF TypeWipe, WipeExit, FinishReload, Crash, Done
  <2> QED BY <1>7, <2>1
<1> QED BY <1>3, <1>4, <1>5, <1>6, <1>8, <1>9, <1>10 DEF Next, Reload
-----------------------------------------------------------------------------
\* IInv holds of the empty tables and scanners.
LEMMA InitInv == Init => IInv
<1> SUFFICES ASSUME Init PROVE IInv OBVIOUS
<1>1. TypeOK BY TypeInit
<1>2. /\ at = "prompt" /\ id = 0 /\ rows = Empty /\ entry = Empty /\ exit = Empty
  BY DEF Init
<1>3. Registers BY <1>2 DEF Registers, Enrolling
<1>4. Copied /\ Restored BY <1>2 DEF Copied, Restored
<1>5. Recorded /\ Bound BY <1>2 DEF Recorded, Bound, Empty
<1>6. Answered BY <1>2 DEF Answered, Enrolling
<1> QED BY <1>1, <1>3, <1>4, <1>5, <1>6 DEF IInv

\* Every step keeps IInv.
LEMMA NextInv == IInv /\ [Next]_vars => IInv'
<1> SUFFICES ASSUME IInv, [Next]_vars PROVE IInv' OBVIOUS
<1>1. TypeOK' BY WorkingNext, KeptNext, PartsNext
<1>2. Registers' BY RegistersNext
<1>3. Without(Diverging)' => Copied' BY CopiedNext
<1>4. Without(Losing)' => Recorded' BY RecordedNext
<1>5. Without(Misbinding)' => Bound' BY BoundNext
<1>6. Without({"DeleteAll", "restore"})' => Restored' BY RestoredNext
<1>7. Without({"answer"})' => Answered' BY AnsweredNext
<1> QED BY <1>1, <1>2, <1>3, <1>4, <1>5, <1>6, <1>7 DEF IInv

\* IInv is an invariant.
LEMMA Invariance == Spec => []IInv
<1> QED BY InitInv, NextInv, PTL DEF Spec

\* Between commands whoever gets in gets out: enroll() copies what it has enrolled on the exit
\* scanner to the entry scanner, or removes it, whatever the modules refuse and the database
\* does, as long as their answers arrive.
THEOREM BothDoors == Spec => []DevicesAgree
<1>1. IInv => DevicesAgree BY DEF IInv, DevicesAgree, Copied, AtRest, Diverging
<1> QED BY <1>1, Invariance, PTL

\* Whoever can open the door is in the database under that number, unless the operator deleted
\* the row, whatever the modules refuse and wipes and reloads do, as long as answers arrive.
THEOREM AllRecorded == Spec => []TemplatesRecorded
<1>1. IInv => TemplatesRecorded BY DEF IInv, TemplatesRecorded, Recorded, AtRest, Losing
<1> QED BY <1>1, Invariance, PTL

\* The last user a number was bound to owns the template under it, as long as answers arrive;
\* and the types.
THEOREM OwnersBound == Spec => []RegistryInv
<1>1. ASSUME IInv PROVE BoundToOwner
  <2> SUFFICES ASSUME AtRest, Without({"answer", "DeleteID", "database", "crash"}),
                      NEW i \in Ids, exit[i] # Nothing, i \notin erased
               PROVE  LastBound(i) = Owner[exit[i]]
    BY DEF BoundToOwner
  <2>1. Recorded /\ Bound
    <3>1. Without(Misbinding) BY DEF Without, Misbinding
    <3> QED BY <1>1, <3>1 DEF IInv, Losing
  <2>2. rows[i] = exit[i] BY <2>1 DEF Recorded, AtRest
  <2> QED BY <2>1, <2>2 DEF Bound, AtRest
<1>2. IInv => RegistryInv BY <1>1 DEF IInv, RegistryInv
<1> QED BY <1>2, Invariance, PTL

\* After a reload whoever has a row below the number of rows opens both doors again, whatever
\* was enrolled, deleted or cut short before it.
THEOREM ReloadedOpen == Spec => []ReloadRestores
<1>1. ASSUME IInv PROVE ReloadRestores
  <2> SUFFICES ASSUME Reloaded, Without({"DeleteAll", "restore"}),
                      NEW i \in 0..(count - 1), rows[i] # Nothing
               PROVE  \E j \in Ids : rows[j] = rows[i] /\ entry[j] = rows[i] /\ exit[j] = rows[i]
    BY DEF ReloadRestores
  <2>1. Restored /\ at = "reload" /\ id = count /\ count \in 0..MAX_FGP_COUNT
    BY <1>1 DEF IInv, Reloaded, TypeOK
  <2>2. i \in Ids /\ i < id BY <2>1, Bounds DEF Ids
  <2> QED BY <2>1, <2>2 DEF Restored
<1> QED BY <1>1, Invariance, PTL
-----------------------------------------------------------------------------
(***************************************************************************)
(* Template: induction.                                                    *)
(***************************************************************************)
\* Induction, for a set of numbers instead of a predicate.
LEMMA AllUpTo ==
  ASSUME NEW m \in Nat, NEW S,
         0 \in S, \A n \in 1..m : n - 1 \in S => n \in S
  PROVE  0..m \subseteq S
<1> DEFINE T == {n \in 0..m : n \notin S}
<1>1. CASE T = {} BY <1>1
<1>2. CASE T # {}
  <2>1. T \in SUBSET Nat OBVIOUS
  <2>2. PICK x \in T : \A y \in T : x <= y BY <1>2, <2>1, LeastNumber
  <2>3. x \in 0..m /\ x \notin S OBVIOUS
  <2>4. x # 0 BY <2>3
  <2>5. x \in 1..m /\ x - 1 \in 0..m BY <2>3, <2>4
  <2>6. x - 1 \notin S BY <2>3, <2>5
  <2>7. x - 1 \in T BY <2>5, <2>6
  <2>8. x <= x - 1 BY <2>2, <2>7
  <2> QED BY <2>5, <2>8
<1> QED BY <1>1, <1>2
-----------------------------------------------------------------------------
(***************************************************************************)
(* Template: sums.                                                         *)
(***************************************************************************)
\* f[n] is the sum of the first n numbers of s.
Adds(f, s) ==
  /\ f \in [0..Len(s) -> Nat] /\ f[0] = 0
  /\ \A n \in 1..Len(s) : f[n] = f[n - 1] + s[n]

\* Those sums exist.
LEMMA AddsExist ==
  ASSUME NEW s \in Seq(Nat)
  PROVE  \E f : Adds(f, s)
<1> DEFINE Up(n, f) == /\ f \in [0..n -> Nat] /\ f[0] = 0
                       /\ \A k \in 1..n : f[k] = f[k - 1] + s[k]
           S == {n \in Nat : \E f : Up(n, f)}
<1>0. Len(s) \in Nat /\ \A k \in 1..Len(s) : s[k] \in Nat OBVIOUS
<1>1. 0 \in S
  <2>1. Up(0, [i \in 0..0 |-> 0]) OBVIOUS
  <2> QED BY <2>1
<1>2. ASSUME NEW n \in 1..Len(s), n - 1 \in S PROVE n \in S
  <2>1. PICK f : Up(n - 1, f) BY <1>2
  <2> DEFINE g == [i \in 0..n |-> IF i = n THEN f[n - 1] + s[n] ELSE f[i]]
  <2>2. n \in Nat /\ n - 1 \in 0..(n - 1) /\ s[n] \in Nat BY <1>0
  <2>3. \A i \in 0..(n - 1) : f[i] \in Nat BY <2>1
  <2>4. g \in [0..n -> Nat] BY <2>2, <2>3
  <2>5. \A i \in 0..(n - 1) : g[i] = f[i] BY <2>2
  <2>6. g[n] = f[n - 1] + s[n] BY <2>2
  <2>7. g[0] = 0 BY <2>1, <2>2, <2>5
  <2>8. ASSUME NEW k \in 1..n PROVE g[k] = g[k - 1] + s[k]
    <3>1. g[k - 1] = f[k - 1] BY <2>2, <2>5
    <3>2. CASE k = n BY <3>1, <3>2, <2>6
    <3>3. CASE k # n
      <4>1. k \in 1..(n - 1) /\ k \in 0..(n - 1) BY <2>2, <3>3
      <4>2. g[k] = f[k] BY <2>5, <4>1
      <4>3. f[k] = f[k - 1] + s[k] BY <2>1, <4>1
      <4> QED BY <3>1, <4>2, <4>3
    <3> QED BY <3>2, <3>3
  <2>9. Up(n, g) BY <2>4, <2>7, <2>8
  <2> QED BY <2>2, <2>9
<1> HIDE DEF S
<1>3. \A n \in 1..Len(s) : n - 1 \in S => n \in S BY <1>2
<1>4. 0..Len(s) \subseteq S BY <1>0, <1>1, <1>3, AllUpTo
<1>5. Len(s) \in S BY <1>0, <1>4
<1> QED BY <1>5 DEF S, Adds

\* The last of them is what the code computes.
LEMMA SumIs ==
  ASSUME NEW s \in Seq(Nat), NEW f, Adds(f, s)
  PROVE  Sum(s) = f[Len(s)] /\ Sum(s) \in Nat
<1> DEFINE F(g) == [n \in 0..Len(s) |-> IF n = 0 THEN 0 ELSE g[n - 1] + s[n]]
           g == CHOOSE g : g = F(g)
           S == {n \in Nat : g[n] = f[n]}
<1>0. Len(s) \in Nat OBVIOUS
<1>1. f = F(f)
  <2>1. \A n \in 0..Len(s) : f[n] = F(f)[n]
    <3>1. TAKE n \in 0..Len(s)
    <3>2. CASE n = 0 BY <1>0, <3>2 DEF Adds
    <3>3. CASE n # 0
      <4>1. n \in 1..Len(s) BY <1>0, <3>3
      <4> QED BY <3>3, <4>1 DEF Adds
    <3> QED BY <3>2, <3>3
  <2>2. f \in [0..Len(s) -> Nat] BY DEF Adds
  <2>3. DOMAIN f = 0..Len(s) /\ f = [n \in 0..Len(s) |-> f[n]] BY <2>2
  <2> QED BY <2>1, <2>3
<1>2. \E h : h = F(h) BY <1>1
<1>3. g = F(g) BY <1>2
<1>4. Sum(s) = g[Len(s)] BY DEF Sum
<1> HIDE DEF g
<1>5. \A n \in 0..Len(s) : g[n] = IF n = 0 THEN 0 ELSE g[n - 1] + s[n]
  <2>1. TAKE n \in 0..Len(s)
  <2>2. F(g)[n] = IF n = 0 THEN 0 ELSE g[n - 1] + s[n] OBVIOUS
  <2> QED BY <2>2, <1>3
<1>6. 0 \in S BY <1>0, <1>5 DEF Adds
<1>7. ASSUME NEW n \in 1..Len(s), n - 1 \in S PROVE n \in S
  <2>1. n \in Nat /\ n \in 0..Len(s) /\ n # 0 BY <1>0
  <2>2. g[n] = g[n - 1] + s[n] BY <1>5, <2>1
  <2>3. g[n - 1] = f[n - 1] BY <1>7
  <2>4. f[n] = f[n - 1] + s[n] BY DEF Adds
  <2> QED BY <2>1, <2>2, <2>3, <2>4
<1> HIDE DEF S
<1>8. \A n \in 1..Len(s) : n - 1 \in S => n \in S BY <1>7
<1>9. 0..Len(s) \subseteq S BY <1>0, <1>6, <1>8, AllUpTo
<1>10. Len(s) \in S BY <1>0, <1>9
<1>11. f[Len(s)] \in Nat BY <1>0 DEF Adds
<1> QED BY <1>4, <1>10, <1>11 DEF S

\* Where two sequences agree, the same is added to both sums.
LEMMA AddsAgree ==
  ASSUME NEW s \in Seq(Nat), NEW t \in Seq(Nat), NEW f, Adds(f, s), NEW g, Adds(g, t),
         NEW a \in Nat, NEW c \in Nat, a <= c, c <= Len(s), c <= Len(t),
         \A k \in 1..c : a < k => s[k] = t[k]
  PROVE  f[c] - f[a] = g[c] - g[a]
<1> DEFINE S == {n \in Nat : f[a + n] - f[a] = g[a + n] - g[a]}
           m == c - a
<1>0. Len(s) \in Nat /\ Len(t) \in Nat /\ m \in Nat /\ a + m = c OBVIOUS
<1>1. \A i \in 0..Len(s) : f[i] \in Nat BY DEF Adds
<1>2. \A i \in 0..Len(t) : g[i] \in Nat BY DEF Adds
<1>3. f[a] \in Nat /\ g[a] \in Nat BY <1>0, <1>1, <1>2
<1>4. 0 \in S
  <2>1. a + 0 = a OBVIOUS
  <2> QED BY <1>3, <2>1
<1> HIDE DEF m
<1>5. ASSUME NEW n \in 1..m, n - 1 \in S PROVE n \in S
  <2>1. a + n \in 1..Len(s) /\ a + n \in 1..Len(t) /\ a + n \in 1..c /\ a < a + n
    BY <1>0
  <2>2. (a + n) - 1 = a + (n - 1) OBVIOUS
  <2>3. f[a + n] = f[a + (n - 1)] + s[a + n] BY <2>1, <2>2 DEF Adds
  <2>4. g[a + n] = g[a + (n - 1)] + t[a + n] BY <2>1, <2>2 DEF Adds
  <2>5. s[a + n] = t[a + n] /\ s[a + n] \in Nat BY <2>1
  <2>6. f[a + (n - 1)] \in Nat /\ g[a + (n - 1)] \in Nat BY <1>0, <1>1, <1>2
  <2>7. f[a + (n - 1)] - f[a] = g[a + (n - 1)] - g[a] BY <1>5
  <2> DEFINE fa == f[a]
             ga == g[a]
             fn == f[a + (n - 1)]
             gn == g[a + (n - 1)]
             sn == s[a + n]
  <2>8. /\ fa \in Nat /\ ga \in Nat /\ fn \in Nat /\ gn \in Nat /\ sn \in Nat
        /\ fn - fa = gn - ga
    BY <1>3, <2>5, <2>6, <2>7
  <2>9. f[a + n] = fn + sn /\ g[a + n] = gn + sn BY <2>3, <2>4, <2>5
  <2> HIDE DEF fa, ga, fn, gn, sn
  <2>10. (fn + sn) - fa = (gn + sn) - ga BY <2>8
  <2>11. f[a + n] - fa = g[a + n] - ga BY <2>9, <2>10
  <2> QED BY <2>11 DEF fa, ga
<1> HIDE DEF S
<1>6. \A n \in 1..m : n - 1 \in S => n \in S BY <1>5
<1>7. 0..m \subseteq S BY <1>0, <1>4, <1>6, AllUpTo
<1>8. m \in S BY <1>0, <1>7
<1> QED BY <1>0, <1>8 DEF S

\* A sum is a number.
LEMMA SumNat == \A s \in Seq(Nat) : Sum(s) \in Nat
BY AddsExist, SumIs

\* The sum of two sequences one after the other.
LEMMA SumConcat ==
  ASSUME NEW s \in Seq(Nat), NEW t \in Seq(Nat)
  PROVE  Sum(s \o t) = Sum(s) + Sum(t)
<1> DEFINE u == s \o t
           m == Len(s)
           n == Len(t)
<1>0. /\ u \in Seq(Nat) /\ Len(u) = m + n /\ m \in Nat /\ n \in Nat
      /\ \A k \in 1..m : u[k] = s[k]
      /\ \A k \in 1..(m + n) : k > m => u[k] = t[k - m]
  OBVIOUS
<1>1. PICK f : Adds(f, s) BY AddsExist
<1>2. PICK g : Adds(g, t) BY AddsExist
<1>3. Sum(s) = f[m] BY <1>1, SumIs
<1>4. Sum(t) = g[n] BY <1>2, SumIs
<1>5. /\ \A k \in 0..m : f[k] \in Nat
      /\ f[0] = 0 /\ \A k \in 1..m : f[k] = f[k - 1] + s[k]
  BY <1>1 DEF Adds
<1>6. /\ \A k \in 0..n : g[k] \in Nat
      /\ g[0] = 0 /\ \A k \in 1..n : g[k] = g[k - 1] + t[k]
  BY <1>2 DEF Adds
<1> HIDE DEF u, m, n
<1> DEFINE h == [k \in 0..(m + n) |-> IF k <= m THEN f[k] ELSE f[m] + g[k - m]]
<1>7. h \in [0..(m + n) -> Nat]
  <2>1. ASSUME NEW k \in 0..(m + n) PROVE h[k] \in Nat
    <3>1. CASE k <= m BY <1>0, <1>5, <3>1
    <3>2. CASE k > m
      <4>1. k - m \in 0..n /\ ~(k <= m) /\ m \in 0..m BY <1>0, <3>2
      <4>2. f[m] \in Nat /\ g[k - m] \in Nat BY <1>5, <1>6, <4>1
      <4> QED BY <4>1, <4>2
    <3> QED BY <1>0, <3>1, <3>2
  <2> QED BY <2>1
<1>8. h[0] = 0 BY <1>0, <1>5
<1>9. ASSUME NEW k \in 1..(m + n) PROVE h[k] = h[k - 1] + u[k]
  <2>1. CASE k <= m BY <1>0, <1>5, <2>1
  <2>2. CASE k > m
    <3>1. k - m \in 1..n /\ (k - m) - 1 = (k - 1) - m BY <1>0, <2>2
    <3>2. u[k] = t[k - m] BY <1>0, <2>2
    <3>3. g[k - m] = g[(k - m) - 1] + t[k - m] BY <1>6, <3>1
    <3>4. h[k] = f[m] + g[k - m] BY <1>0, <2>2
    <3>5. h[k - 1] = f[m] + g[(k - m) - 1]
      <4>1. CASE k - 1 > m BY <1>0, <3>1, <4>1
      <4>2. CASE k - 1 = m
        <5>1. (k - m) - 1 = 0 /\ k - 1 \in 0..(m + n) BY <1>0, <4>2
        <5>2. h[k - 1] = f[m] BY <1>0, <4>2, <5>1
        <5> QED BY <5>1, <5>2, <1>0, <1>5, <1>6
      <4> QED BY <1>0, <2>2, <4>1, <4>2
    <3>6. g[(k - m) - 1] \in Nat /\ f[m] \in Nat /\ t[k - m] \in Int
      <4>1. t[k - m] \in Nat BY <3>1 DEF n
      <4> QED BY <1>0, <1>5, <1>6, <3>1, <4>1
    <3> HIDE DEF h
    <3> QED BY <3>2, <3>3, <3>4, <3>5, <3>6
  <2> QED BY <1>0, <2>1, <2>2
<1>10. h[m + n] = f[m] + g[n]
  <2>1. CASE n = 0 BY <1>0, <1>5, <1>6, <2>1
  <2>2. CASE n > 0
    <3>1. (m + n) - m = n /\ ~(m + n <= m) /\ m + n \in 0..(m + n) BY <1>0, <2>2
    <3> QED BY <3>1
  <2> QED BY <1>0, <2>1, <2>2
<1> HIDE DEF h
<1>11. Adds(h, u) BY <1>0, <1>7, <1>8, <1>9 DEF Adds
<1>12. Sum(u) = h[m + n] BY <1>0, <1>11, SumIs
<1>13. Sum(u) = Sum(s) + Sum(t) BY <1>3, <1>4, <1>10, <1>12
<1> QED BY <1>13 DEF u

\* The sum of one number.
LEMMA SumOne ==
  ASSUME NEW a \in Nat PROVE Sum(<<a>>) = a
<1> DEFINE s == <<a>>
<1>1. s \in Seq(Nat) /\ Len(s) = 1 /\ s[1] = a OBVIOUS
<1> HIDE DEF s
<1>2. PICK f : Adds(f, s) BY <1>1, AddsExist
<1>3. f[0] = 0 /\ f[1] = f[1 - 1] + s[1] BY <1>1, <1>2 DEF Adds
<1>4. Sum(s) = f[1] BY <1>1, <1>2, SumIs
<1>5. Sum(s) = a BY <1>1, <1>3, <1>4
<1> QED BY <1>5 DEF s

\* The sum of two.
LEMMA SumTwo ==
  ASSUME NEW a \in Nat, NEW b \in Nat PROVE Sum(<<a, b>>) = a + b
<1> DEFINE s == <<a, b>>
<1>1. s \in Seq(Nat) /\ Len(s) = 2 /\ s[1] = a /\ s[2] = b OBVIOUS
<1> HIDE DEF s
<1>2. PICK f : Adds(f, s) BY <1>1, AddsExist
<1>3. f[0] = 0 /\ f[1] = f[1 - 1] + s[1] /\ f[2] = f[2 - 1] + s[2]
  BY <1>1, <1>2 DEF Adds
<1>4. Sum(s) = f[2] BY <1>1, <1>2, SumIs
<1>5. Sum(s) = a + b BY <1>1, <1>3, <1>4
<1> QED BY <1>5 DEF s

\* Two sequences of one length that differ in one number have sums that differ as
\* these do.
LEMMA SumsDiffer ==
  ASSUME NEW s \in Seq(Nat), NEW t \in Seq(Nat), Len(s) = Len(t), NEW i \in 1..Len(s),
         \A k \in 1..Len(s) : k # i => s[k] = t[k]
  PROVE  Sum(s) + t[i] = Sum(t) + s[i]
<1> DEFINE l == Len(s)
           p == i - 1
           z == 0
           si == s[i]
           ti == t[i]
<1>0. /\ l \in Nat /\ i \in Nat /\ p \in Nat /\ z \in Nat /\ si \in Nat /\ ti \in Nat
      /\ z <= p /\ p <= l /\ p < i /\ i <= l /\ l <= l /\ Len(t) = l
  OBVIOUS
<1>1. PICK f : Adds(f, s) BY AddsExist
<1>2. PICK g : Adds(g, t) BY AddsExist
<1>3. Sum(s) = f[l] /\ Sum(t) = g[l] BY <1>0, <1>1, <1>2, SumIs
<1>4. f[z] = 0 /\ g[z] = 0 /\ f[i] = f[p] + si /\ g[i] = g[p] + ti
  BY <1>1, <1>2 DEF Adds
<1>5. \A k \in 1..l : k # i => s[k] = t[k] OBVIOUS
<1>6. Len(s) = l OBVIOUS
<1>7. \A k \in 0..l : f[k] \in Nat /\ g[k] \in Nat BY <1>0, <1>1, <1>2 DEF Adds
<1> HIDE DEF l, p, z, si, ti
<1>8. f[p] - f[z] = g[p] - g[z]
  <2>1. \A k \in 1..p : z < k => s[k] = t[k] BY <1>0, <1>5
  <2> QED BY <1>0, <1>1, <1>2, <1>6, <2>1, AddsAgree
<1>9. f[l] - f[i] = g[l] - g[i]
  <2>1. \A k \in 1..l : i < k => s[k] = t[k] BY <1>0, <1>5
  <2> QED BY <1>0, <1>1, <1>2, <1>6, <2>1, AddsAgree
<1> DEFINE fp == f[p]
           gp == g[p]
           fl == f[l]
           gl == g[l]
<1>10. fp \in Nat /\ gp \in Nat /\ fl \in Nat /\ gl \in Nat BY <1>0, <1>7
<1>11. fp = gp BY <1>4, <1>8, <1>10
<1>12. fl - (fp + si) = gl - (gp + ti) BY <1>4, <1>9
<1> HIDE DEF fp, gp, fl, gl
<1>13. fl + ti = gl + si BY <1>0, <1>10, <1>11, <1>12
<1> QED BY <1>3, <1>13 DEF fl, gl, si, ti
-----------------------------------------------------------------------------
(***************************************************************************)
(* Data packets.                                                           *)
(***************************************************************************)
\* What is made of two sequences one after the other.
LEMMA Concat ==
  ASSUME NEW S, NEW s \in Seq(S), NEW t \in Seq(S), NEW m, NEW n, m = Len(s), n = Len(t)
  PROVE  /\ s \o t \in Seq(S) /\ Len(s \o t) = m + n
         /\ \A k \in 1..m : (s \o t)[k] = s[k]
         /\ \A k \in 1..n : (s \o t)[m + k] = t[k]
OBVIOUS

\* Sequences that agree are the same.
LEMMA SeqEqual ==
  ASSUME NEW S, NEW s \in Seq(S), NEW t \in Seq(S), Len(s) = Len(t),
         \A k \in 1..Len(s) : s[k] = t[k]
  PROVE  s = t
<1>1. s = [k \in 1..Len(s) |-> s[k]] /\ t = [k \in 1..Len(t) |-> t[k]] OBVIOUS
<1> QED BY <1>1

\* Sequences of bytes are sequences of numbers.
LEMMA BytesNat == Bytes \subseteq Nat /\ \A s \in Seq(Bytes) : s \in Seq(Nat)
<1>1. Bytes \subseteq Nat BY DEF Bytes
<1>2. ASSUME NEW s \in Seq(Bytes) PROVE s \in Seq(Nat)
  <2>1. Len(s) \in Nat /\ s = [i \in 1..Len(s) |-> s[i]] OBVIOUS
  <2>2. \A i \in 1..Len(s) : s[i] \in Bytes OBVIOUS
  <2>3. \A i \in 1..Len(s) : s[i] \in Nat BY <1>1, <2>2
  <2> QED BY <2>1, <2>3
<1> QED BY <1>1, <1>2

\* The low and the high byte of a word.
LEMMA LowAndHigh ==
  ASSUME NEW z \in Nat
  PROVE  LET w == z % Word
         IN w \in Nat /\ w % 256 \in 0..255 /\ w \div 256 \in 0..255
<1> DEFINE w == z % Word
<1>1. w \in Int /\ 0 <= w /\ w < 65536 BY DEF Word
<1> HIDE DEF w
<1> DEFINE q == w \div 256
           r == w % 256
<1>2. w = 256 * q + r /\ q \in Int /\ r \in Int /\ 0 <= r /\ r < 256 BY <1>1
<1> HIDE DEF q, r
<1>3. 0 <= q /\ q < 256 BY <1>1, <1>2
<1>4. w \in Nat BY <1>1
<1>5. r \in 0..255 BY <1>2
<1>6. q \in 0..255 BY <1>2, <1>3
<1> QED BY <1>4, <1>5, <1>6 DEF w, q, r

\* The bytes of a packet, and the word of its checksum.
LEMMA PacketIs ==
  ASSUME NEW d \in Seq(Bytes)
  PROVE  LET p == DataPacket(d)
             n == Len(d)
             w == (256 + Sum(d)) % Word
         IN /\ p \in Seq(Bytes) /\ Len(p) = n + 6
            /\ p[1] = 90 /\ p[2] = 165 /\ p[3] = 1 /\ p[4] = 0
            /\ \A k \in 1..n : p[4 + k] = d[k]
            /\ p[n + 5] = w % 256 /\ p[n + 6] = w \div 256
<1> DEFINE a == Header \o Device
           b == a \o d
           n == Len(d)
           w == (256 + Sum(d)) % Word
           e == <<w % 256, w \div 256>>
<1>1. /\ a \in Seq(Bytes) /\ Len(a) = 4
      /\ a[1] = 90 /\ a[2] = 165 /\ a[3] = 1 /\ a[4] = 0
  <2>1. /\ Header \in Seq(Bytes) /\ Len(Header) = 2 /\ Header[1] = 90 /\ Header[2] = 165
    BY DEF Header, Bytes
  <2>2. /\ Device \in Seq(Bytes) /\ Len(Device) = 2 /\ Device[1] = 1 /\ Device[2] = 0
    BY DEF Device, Bytes
  <2>3. /\ a \in Seq(Bytes) /\ Len(a) = 2 + 2
        /\ \A k \in 1..2 : a[k] = Header[k]
        /\ \A k \in 1..2 : a[2 + k] = Device[k]
    <3> DEFINE m == 2
               l == 2
    <3>1. m = Len(Header) /\ l = Len(Device) BY <2>1, <2>2
    <3> HIDE DEF m, l
    <3>2. Header \in Seq(Bytes) /\ Device \in Seq(Bytes) BY <2>1, <2>2
    <3>3. /\ a \in Seq(Bytes) /\ Len(a) = m + l
          /\ \A k \in 1..m : a[k] = Header[k]
          /\ \A k \in 1..l : a[m + k] = Device[k]
      BY <3>1, <3>2
    <3> QED BY <3>3 DEF m, l
  <2> HIDE DEF a
  <2>4. a[2 + 1] = Device[1] /\ a[2 + 2] = Device[2] /\ a[1] = Header[1] /\ a[2] = Header[2]
    BY <2>3
  <2> QED BY <2>1, <2>2, <2>3, <2>4
<1>2. Sum(a) = 256
  <2>1. Header \in Seq(Nat) /\ Device \in Seq(Nat) BY DEF Header, Device
  <2>2. Sum(Header) = 90 + 165 BY SumTwo DEF Header
  <2>3. Sum(Device) = 1 + 0 BY SumTwo DEF Device
  <2> QED BY <2>1, <2>2, <2>3, SumConcat
<1> HIDE DEF a
<1>3. /\ b \in Seq(Bytes) /\ Len(b) = 4 + n /\ n \in Nat
      /\ b[1] = 90 /\ b[2] = 165 /\ b[3] = 1 /\ b[4] = 0
      /\ \A k \in 1..n : b[4 + k] = d[k]
  <2> DEFINE m == 4
  <2>1. m = Len(a) BY <1>1
  <2> HIDE DEF m
  <2>2. a \in Seq(Bytes) /\ n = Len(d) /\ n \in Nat BY <1>1
  <2> HIDE DEF n
  <2>3. /\ b \in Seq(Bytes) /\ Len(b) = m + n
        /\ \A k \in 1..m : b[k] = a[k]
        /\ \A k \in 1..n : b[m + k] = d[k]
    BY <2>1, <2>2
  <2> HIDE DEF b
  <2>4. /\ Len(b) = 4 + n
        /\ b[1] = a[1] /\ b[2] = a[2] /\ b[3] = a[3] /\ b[4] = a[4]
        /\ \A k \in 1..n : b[4 + k] = d[k]
    BY <2>3 DEF m
  <2> QED BY <2>2, <2>3, <2>4, <1>1
<1>4. Sum(b) = 256 + Sum(d)
  <2>1. a \in Seq(Nat) /\ d \in Seq(Nat) BY <1>1, BytesNat
  <2>2. Sum(a \o d) = Sum(a) + Sum(d) BY <2>1, SumConcat
  <2> QED BY <2>2, <1>2
<1>5. DataPacket(d) = b \o LowHigh(Sum(b) % Word) BY DEF DataPacket, a
<1>6. Sum(d) \in Nat BY BytesNat, SumNat
<1>7. w \in Nat /\ w % 256 \in 0..255 /\ w \div 256 \in 0..255
  <2>1. 256 + Sum(d) \in Nat BY <1>6
  <2> QED BY <2>1, LowAndHigh
<1>8. e = LowHigh(w) BY DEF LowHigh
<1>9. e \in Seq(Bytes) /\ Len(e) = 2 /\ e[1] = w % 256 /\ e[2] = w \div 256
  <2> HIDE DEF w
  <2> QED BY <1>7 DEF Bytes
<1>10. DataPacket(d) = b \o e BY <1>4, <1>5, <1>8
<1> HIDE DEF b, e, w
<1>11. /\ b \o e \in Seq(Bytes) /\ Len(b \o e) = (4 + n) + 2
       /\ \A k \in 1..(4 + n) : (b \o e)[k] = b[k]
       /\ \A k \in 1..2 : (b \o e)[(4 + n) + k] = e[k]
  <2> DEFINE m == 4 + n
             two == 2
  <2>1. b \in Seq(Bytes) /\ e \in Seq(Bytes) /\ m = Len(b) /\ two = Len(e)
    BY <1>3, <1>9
  <2> HIDE DEF m, two
  <2>2. /\ b \o e \in Seq(Bytes) /\ Len(b \o e) = m + two
        /\ \A k \in 1..m : (b \o e)[k] = b[k]
        /\ \A k \in 1..two : (b \o e)[m + k] = e[k]
    BY <2>1
  <2> QED BY <2>2 DEF m, two
<1> DEFINE p == b \o e
<1>12. p = DataPacket(d) BY <1>10
<1> HIDE DEF p
<1>13. /\ p \in Seq(Bytes) /\ Len(p) = n + 6
       /\ \A k \in 1..(4 + n) : p[k] = b[k]
       /\ p[n + 5] = e[1] /\ p[n + 6] = e[2]
  <2>1. /\ p \in Seq(Bytes) /\ Len(p) = (4 + n) + 2
        /\ \A k \in 1..(4 + n) : p[k] = b[k]
        /\ p[(4 + n) + 1] = e[1] /\ p[(4 + n) + 2] = e[2]
    BY <1>11 DEF p
  <2>2. n + 5 = (4 + n) + 1 /\ n + 6 = (4 + n) + 2 BY <1>3
  <2> QED BY <2>1, <2>2
<1>14. \A k \in 1..n : p[4 + k] = d[k]
  <2>1. TAKE k \in 1..n
  <2>2. 4 + k \in 1..(4 + n) BY <1>3
  <2> QED BY <2>2, <1>3, <1>13
<1>15. 1 \in 1..(4 + n) /\ 2 \in 1..(4 + n) /\ 3 \in 1..(4 + n) /\ 4 \in 1..(4 + n)
  BY <1>3
<1>16. p[1] = 90 /\ p[2] = 165 /\ p[3] = 1 /\ p[4] = 0 BY <1>3, <1>13, <1>15
<1>17. /\ p \in Seq(Bytes) /\ Len(p) = n + 6
       /\ p[1] = 90 /\ p[2] = 165 /\ p[3] = 1 /\ p[4] = 0
       /\ \A k \in 1..n : p[4 + k] = d[k]
       /\ p[n + 5] = w % 256 /\ p[n + 6] = w \div 256
  BY <1>9, <1>13, <1>14, <1>16
<1> QED BY <1>12, <1>17 DEF w

\* What GetData makes of a packet with n bytes of data.
LEMMA GetDataIs ==
  ASSUME NEW p \in Seq(Bytes), NEW n \in Nat, Len(p) = n + 6
  PROVE  /\ DataOf(p) \in Seq(Bytes) /\ Len(DataOf(p)) = n
         /\ \A k \in 1..n : DataOf(p)[k] = p[4 + k]
         /\ GetData(p) =
              IF /\ p[1] = 90 /\ p[2] = 165
                 /\ (90 + 165 + p[3] + 256 * p[4] + Sum(DataOf(p))) % Word
                      = p[n + 5] + 256 * p[n + 6]
              THEN DataOf(p) ELSE NULL
<1>1. /\ DataOf(p) \in Seq(Bytes) /\ Len(DataOf(p)) = n
      /\ \A k \in 1..n : DataOf(p)[k] = p[4 + k]
  <2>1. Len(p) - 2 = n + 4 OBVIOUS
  <2>2. DataOf(p) = SubSeq(p, 5, n + 4) BY <2>1 DEF DataOf
  <2>3. /\ SubSeq(p, 5, n + 4) \in Seq(Bytes) /\ Len(SubSeq(p, 5, n + 4)) = n
        /\ \A k \in 1..n : SubSeq(p, 5, n + 4)[k] = p[4 + k]
    OBVIOUS
  <2> QED BY <2>2, <2>3
<1> DEFINE h == SubSeq(p, 1, 2)
<1>2. /\ h \in Seq(Nat) /\ h = <<p[1], p[2]>>
      /\ p[1] \in Nat /\ p[2] \in Nat
  <2>1. p[1] \in Bytes /\ p[2] \in Bytes OBVIOUS
  <2>2. h = <<p[1], p[2]>>
    <3>1. /\ h \in Seq(Bytes) /\ Len(h) = 2 /\ h[1] = p[1] /\ h[2] = p[2] OBVIOUS
    <3> HIDE DEF h
    <3> DEFINE v == <<p[1], p[2]>>
    <3>2. v \in Seq(Bytes) /\ Len(v) = 2 /\ v[1] = p[1] /\ v[2] = p[2] BY <2>1
    <3> HIDE DEF v
    <3>3. Len(h) = Len(v) /\ \A k \in 1..Len(h) : h[k] = v[k] BY <3>1, <3>2
    <3>4. h = v BY <3>1, <3>2, <3>3, SeqEqual
    <3> QED BY <3>4 DEF v
  <2>3. p[1] \in Nat /\ p[2] \in Nat BY <2>1, BytesNat
  <2> QED BY <2>2, <2>3
<1>3. Sum(h) = p[1] + p[2] BY <1>2, SumTwo
<1>4. h = Header <=> p[1] = 90 /\ p[2] = 165 BY <1>2 DEF Header
<1>5. Len(p) - 1 = n + 5 /\ (n + 5) + 1 = n + 6 OBVIOUS
<1>6. WordAt(p, Len(p) - 1) = p[n + 5] + 256 * p[n + 6] BY <1>5 DEF WordAt
<1>7. WordAt(p, 3) = p[3] + 256 * p[4] BY DEF WordAt
<1> HIDE DEF h
<1> DEFINE c == Sum(h) + WordAt(p, 3) + Sum(DataOf(p))
<1>8. GetData(p) = IF h = Header /\ c % Word = WordAt(p, Len(p) - 1)
                   THEN DataOf(p) ELSE NULL
  BY DEF GetData, h
<1>9. p[1] = 90 /\ p[2] = 165 =>
        c = 90 + 165 + p[3] + 256 * p[4] + Sum(DataOf(p))
  <2>1. p[3] \in Nat /\ p[4] \in Nat /\ Sum(DataOf(p)) \in Nat
    BY <1>1, BytesNat, SumNat
  <2> QED BY <1>3, <1>7, <2>1
<1> HIDE DEF c
<1> QED BY <1>1, <1>4, <1>6, <1>8, <1>9

\* A packet that nothing has changed is taken for its data.
LEMMA PacketTaken ==
  ASSUME NEW d \in Seq(Bytes)
  PROVE  GetData(DataPacket(d)) = d
<1> DEFINE p == DataPacket(d)
           n == Len(d)
           w == (256 + Sum(d)) % Word
<1>1. /\ p \in Seq(Bytes) /\ Len(p) = n + 6 /\ n \in Nat
      /\ p[1] = 90 /\ p[2] = 165 /\ p[3] = 1 /\ p[4] = 0
      /\ \A k \in 1..n : p[4 + k] = d[k]
      /\ p[n + 5] = w % 256 /\ p[n + 6] = w \div 256
  BY PacketIs
<1> HIDE DEF p
<1>2. /\ DataOf(p) \in Seq(Bytes) /\ Len(DataOf(p)) = n
      /\ \A k \in 1..n : DataOf(p)[k] = p[4 + k]
  <2>1. p \in Seq(Bytes) /\ n \in Nat /\ Len(p) = n + 6 BY <1>1
  <2> HIDE DEF n
  <2> QED BY <2>1, GetDataIs, Zenon
<1>3. DataOf(p) = d BY <1>1, <1>2
<1>4. Sum(d) \in Nat BY BytesNat, SumNat
<1>5. w \in Nat BY <1>4 DEF Word
<1>6. (90 + 165 + p[3] + 256 * p[4] + Sum(d)) % Word = w BY <1>1, <1>4
<1>7. p[n + 5] + 256 * p[n + 6] = w
  <2> HIDE DEF w
  <2>1. (w % 256) + 256 * (w \div 256) = w BY <1>5
  <2> QED BY <1>1, <2>1
<1> HIDE DEF n, w
<1>8. GetData(p) =
        IF /\ p[1] = 90 /\ p[2] = 165
           /\ (90 + 165 + p[3] + 256 * p[4] + Sum(DataOf(p))) % Word
                = p[n + 5] + 256 * p[n + 6]
        THEN DataOf(p) ELSE NULL
  <2>1. p \in Seq(Bytes) /\ n \in Nat /\ Len(p) = n + 6 BY <1>1
  <2> QED BY <2>1, GetDataIs, Zenon
<1>9. GetData(p) = DataOf(p) BY <1>1, <1>3, <1>6, <1>7, <1>8
<1> QED BY <1>3, <1>9 DEF p

\* Two bytes that differ tell two sums apart.
LEMMA WordsDiffer ==
  ASSUME NEW m \in Nat, NEW x \in Bytes, NEW y \in Bytes, x # y
  PROVE  (m + x) % Word # (m + y) % Word
BY DEF Bytes, Word

\* A packet one byte of which has changed is taken for its data or for nothing.
THEOREM HurtPacket ==
  ASSUME NEW d \in Seq(Bytes), NEW i \in DOMAIN DataPacket(d), NEW b \in Bytes
  PROVE  GetData([DataPacket(d) EXCEPT ![i] = b]) \in {d, NULL}
<1> DEFINE p == DataPacket(d)
           q == [p EXCEPT ![i] = b]
           n == Len(d)
           w == (256 + Sum(d)) % Word
<1>1. /\ p \in Seq(Bytes) /\ Len(p) = n + 6 /\ n \in Nat
      /\ p[1] = 90 /\ p[2] = 165 /\ p[3] = 1 /\ p[4] = 0
      /\ \A k \in 1..n : p[4 + k] = d[k]
      /\ p[n + 5] = w % 256 /\ p[n + 6] = w \div 256
  BY PacketIs
<1>2. i \in 1..(n + 6)
  <2>1. DOMAIN p = 1..(n + 6) BY <1>1
  <2> QED BY <2>1
<1> HIDE DEF p
<1>3. /\ q \in Seq(Bytes) /\ Len(q) = n + 6 /\ q[i] = b
      /\ \A k \in 1..(n + 6) : k # i => q[k] = p[k]
  BY <1>1, <1>2
<1> HIDE DEF q
<1> DEFINE e == DataOf(q)
<1>4. /\ e \in Seq(Bytes) /\ Len(e) = n
      /\ \A k \in 1..n : e[k] = q[4 + k]
      /\ GetData(q) =
           IF /\ q[1] = 90 /\ q[2] = 165
              /\ (90 + 165 + q[3] + 256 * q[4] + Sum(e)) % Word
                   = q[n + 5] + 256 * q[n + 6]
           THEN e ELSE NULL
  <2>1. q \in Seq(Bytes) /\ n \in Nat /\ Len(q) = n + 6 BY <1>1, <1>3
  <2> HIDE DEF n
  <2> QED BY <2>1, GetDataIs, Zenon
<1> HIDE DEF e
<1>5. Sum(d) \in Nat /\ Sum(e) \in Nat BY <1>4, BytesNat, SumNat
<1>6. CASE \A k \in 1..n : e[k] = d[k]
  <2>1. e = d BY <1>1, <1>4, <1>6
  <2> QED BY <1>4, <2>1 DEF q, p
<1>7. CASE \E k \in 1..n : e[k] # d[k]
  <2>1. PICK k \in 1..n : e[k] # d[k] BY <1>7
  <2>2. i = 4 + k
    <3>1. 4 + k \in 1..(n + 6) BY <1>1
    <3> QED BY <2>1, <3>1, <1>1, <1>3, <1>4
  <2>3. e[k] = b BY <1>3, <1>4, <2>2
  <2>4. \A j \in 1..n : j # k => e[j] = d[j]
    <3>1. TAKE j \in 1..n
    <3>2. HAVE j # k
    <3>3. 4 + j # i /\ 4 + j \in 1..(n + 6) BY <1>1, <2>2, <3>2
    <3> QED BY <3>3, <1>1, <1>3, <1>4
  <2>5. q[3] = 1 /\ q[4] = 0 /\ q[n + 5] = w % 256 /\ q[n + 6] = w \div 256
    <3>1. /\ i # 3 /\ i # 4 /\ i # n + 5 /\ i # n + 6
          /\ {3, 4, n + 5, n + 6} \subseteq 1..(n + 6)
      BY <1>1, <2>2
    <3> QED BY <3>1, <1>1, <1>3
  <2>6. Sum(d) + e[k] = Sum(e) + d[k]
    <3>1. d \in Seq(Nat) /\ e \in Seq(Nat) /\ Len(d) = Len(e) /\ k \in 1..Len(d)
      BY <1>4, BytesNat
    <3>2. \A j \in 1..Len(d) : j # k => d[j] = e[j] BY <2>4
    <3> QED BY <3>1, <3>2, SumsDiffer
  <2> DEFINE x == d[k]
             y == e[k]
             m == 256 + Sum(d) - x
  <2>7. x \in Bytes /\ y \in Bytes /\ x # y BY <1>4, <2>1
  <2> DEFINE sd == Sum(d)
             se == Sum(e)
  <2>8. /\ sd \in Nat /\ se \in Nat /\ sd + y = se + x /\ m = 256 + sd - x
        /\ x \in 0..255 /\ y \in 0..255
    BY <1>5, <2>6, <2>7 DEF Bytes
  <2> HIDE DEF x, y, m, sd, se
  <2>9. m \in Nat /\ 256 + sd = m + x /\ 256 + se = m + y BY <2>8
  <2>10. (m + x) % Word # (m + y) % Word BY <2>7, <2>9, WordsDiffer
  <2>11. w = (m + x) % Word BY <2>9 DEF sd
  <2>12. w \in Nat BY <2>11, <2>9, <2>7 DEF Word, Bytes
  <2>13. q[n + 5] + 256 * q[n + 6] = w
    <3> HIDE DEF w
    <3>1. (w % 256) + 256 * (w \div 256) = w BY <2>12
    <3> QED BY <2>5, <3>1
  <2>14. (90 + 165 + q[3] + 256 * q[4] + Sum(e)) % Word = (m + y) % Word
    <3>1. 90 + 165 + q[3] + 256 * q[4] + Sum(e) = 256 + Sum(e) BY <2>5, <1>5
    <3> QED BY <2>9, <3>1 DEF se
  <2>15. GetData(q) = NULL
    BY <1>4, <2>10, <2>11, <2>13, <2>14
  <2> QED BY <2>15 DEF q, p
<1> QED BY <1>6, <1>7
-----------------------------------------------------------------------------
(***************************************************************************)
(* Base64.                                                                 *)
(***************************************************************************)
\* The bits of three bytes, cut where their digits are.
Cut(x, y, z, a, b1, b0, c1, c0, d) ==
  /\ a \in 0..63 /\ b1 \in 0..3 /\ b0 \in 0..15
  /\ c1 \in 0..15 /\ c0 \in 0..3 /\ d \in 0..63
  /\ x = 4 * a + b1 /\ y = 16 * b0 + c1 /\ z = 64 * c0 + d

\* Four digits are made of three bytes.
LEMMA QuadIs ==
  ASSUME NEW x \in Bytes, NEW y \in Bytes, NEW z \in Bytes
  PROVE  \E a, b1, b0, c1, c0, d :
           /\ Cut(x, y, z, a, b1, b0, c1, c0, d)
           /\ Quad(x, y, z) = <<a, 16 * b1 + b0, 4 * c1 + c0, d>>
<1> DEFINE a == x \div 4
           b1 == x % 4
           b0 == y \div 16
           c1 == y % 16
           c0 == z \div 64
           d == z % 64
<1>1. a \in 0..63 /\ b1 \in 0..3 /\ x = 4 * a + b1 BY DEF Bytes
<1>2. b0 \in 0..15 /\ c1 \in 0..15 /\ y = 16 * b0 + c1 BY DEF Bytes
<1>3. c0 \in 0..3 /\ d \in 0..63 /\ z = 64 * c0 + d BY DEF Bytes
<1>4. Quad(x, y, z) = <<a, b1 * 16 + b0, c1 * 4 + c0, d>> BY DEF Quad
<1> HIDE DEF a, b1, b0, c1, c0, d
<1>5. b1 * 16 + b0 = 16 * b1 + b0 /\ c1 * 4 + c0 = 4 * c1 + c0 BY <1>1, <1>2, <1>3
<1>6. Quad(x, y, z) = <<a, 16 * b1 + b0, 4 * c1 + c0, d>> BY <1>4, <1>5
<1>7. Cut(x, y, z, a, b1, b0, c1, c0, d) BY <1>1, <1>2, <1>3 DEF Cut
<1> QED BY <1>6, <1>7, Zenon

\* The three bytes made of four digits.
LEMMA TripleIs ==
  ASSUME NEW x, NEW y, NEW z, NEW a, NEW b1, NEW b0, NEW c1, NEW c0, NEW d,
         Cut(x, y, z, a, b1, b0, c1, c0, d),
         NEW b, b = 16 * b1 + b0, NEW c, c = 4 * c1 + c0
  PROVE  Triple(a, b, c, d) = <<x, y, z>> /\ x \in Bytes /\ y \in Bytes /\ z \in Bytes
<1>1. /\ a \in 0..63 /\ b1 \in 0..3 /\ b0 \in 0..15
      /\ c1 \in 0..15 /\ c0 \in 0..3 /\ d \in 0..63
      /\ x = 4 * a + b1 /\ y = 16 * b0 + c1 /\ z = 64 * c0 + d
  BY DEF Cut
<1>2. b \div 16 = b1 /\ c \div 4 = c1 BY <1>1
<1>3. (b * 16 + c1) % 256 = 16 * b0 + c1
  <2>1. ((16 * b1 + b0) * 16 + c1) % 256 = 16 * b0 + c1 BY <1>1
  <2> QED BY <2>1
<1>4. (c * 64 + d) % 256 = 64 * c0 + d
  <2>1. ((4 * c1 + c0) * 64 + d) % 256 = 64 * c0 + d BY <1>1
  <2> QED BY <2>1
<1>5. a * 4 + b1 = 4 * a + b1 BY <1>1
<1>6. Triple(a, b, c, d) = <<a * 4 + b1, (b * 16 + c1) % 256, (c * 64 + d) % 256>>
  BY <1>2 DEF Triple
<1>7. Triple(a, b, c, d) = <<x, y, z>> BY <1>1, <1>3, <1>4, <1>5, <1>6
<1>8. x \in Bytes /\ y \in Bytes /\ z \in Bytes BY <1>1 DEF Bytes
<1> QED BY <1>7, <1>8

\* Every digit is two bits and four.
LEMMA Digits ==
  \A a \in Sextets : \E h \in 0..3, l \in 0..15 : a = 16 * h + l
<1> TAKE a \in Sextets
<1> DEFINE h == a \div 16
           l == a % 16
<1>1. h \in 0..3 /\ l \in 0..15 /\ a = 16 * h + l BY DEF Sextets
<1> QED BY <1>1

\* Or four bits and two.
LEMMA DigitsLow ==
  \A a \in Sextets : \E h \in 0..15, l \in 0..3 : a = 4 * h + l
<1> TAKE a \in Sextets
<1> DEFINE h == a \div 4
           l == a % 4
<1>1. h \in 0..15 /\ l \in 0..3 /\ a = 4 * h + l BY DEF Sextets
<1> QED BY <1>1

\* A text has four characters for three bytes, the last of them padded.
LEMMA TextLength ==
  ASSUME NEW n \in Nat
  PROVE  \E g \in Nat, pad \in 0..2 :
           3 * g = n + pad /\ pad = (3 - (n % 3)) % 3 /\ (4 * (n + pad)) \div 3 = 4 * g
<1> DEFINE q == n \div 3
           r == n % 3
           pad == (3 - r) % 3
<1>1. q \in Nat /\ r \in 0..2 /\ n = 3 * q + r OBVIOUS
<1> HIDE DEF q, r
<1>2. pad = IF r = 0 THEN 0 ELSE 3 - r BY <1>1
<1> DEFINE g == IF r = 0 THEN q ELSE q + 1
<1>3. g \in Nat /\ pad \in 0..2 /\ 3 * g = n + pad BY <1>1, <1>2
<1> HIDE DEF g, pad
<1>4. (4 * (n + pad)) \div 3 = 4 * g
  <2>1. 4 * (n + pad) = 3 * (4 * g) BY <1>3
  <2>2. (3 * (4 * g)) \div 3 = 4 * g BY <1>3
  <2> QED BY <2>1, <2>2
<1>5. pad = (3 - (n % 3)) % 3 BY DEF pad, r
<1> QED BY <1>3, <1>4, <1>5

\* A byte, or zero behind the end.
LEMMA ByteOfIs ==
  ASSUME NEW s \in Seq(Bytes), NEW i \in Nat \ {0}
  PROVE  ByteOf(s, i) \in Bytes
<1>1. i \in 1..Len(s) => s[i] \in Bytes OBVIOUS
<1>2. 0 \in Bytes BY DEF Bytes
<1> QED BY <1>1, <1>2 DEF ByteOf

\* The digits of the h-th group of bytes.
QuadOf(s, h) == Quad(ByteOf(s, 3 * h + 1), ByteOf(s, 3 * h + 2), ByteOf(s, 3 * h + 3))

\* They are digits.
LEMMA QuadOfIs ==
  ASSUME NEW s \in Seq(Bytes), NEW h \in Nat, NEW c \in 1..4
  PROVE  QuadOf(s, h)[c] \in Sextets
<1> DEFINE x == ByteOf(s, 3 * h + 1)
           y == ByteOf(s, 3 * h + 2)
           z == ByteOf(s, 3 * h + 3)
<1>1. x \in Bytes /\ y \in Bytes /\ z \in Bytes BY ByteOfIs
<1>2. QuadOf(s, h) = Quad(x, y, z) BY DEF QuadOf
<1> HIDE DEF x, y, z
<1>3. PICK a, b1, b0, c1, c0, d :
        /\ Cut(x, y, z, a, b1, b0, c1, c0, d)
        /\ Quad(x, y, z) = <<a, 16 * b1 + b0, 4 * c1 + c0, d>>
  BY <1>1, QuadIs, Zenon
<1>4. 16 * b1 + b0 \in Sextets /\ 4 * c1 + c0 \in Sextets /\ a \in Sextets /\ d \in Sextets
  BY <1>3 DEF Sextets, Cut
<1> DEFINE b == 16 * b1 + b0
           e == 4 * c1 + c0
<1>5. Quad(x, y, z) = <<a, b, e, d>> /\ b \in Sextets /\ e \in Sextets BY <1>3, <1>4
<1> HIDE DEF b, e
<1>6. <<a, b, e, d>>[c] \in Sextets
  <2>1. CASE c = 1 BY <2>1, <1>4
  <2>2. CASE c = 2 BY <2>2, <1>5
  <2>3. CASE c = 3 BY <2>3, <1>5
  <2>4. CASE c = 4 BY <2>4, <1>4
  <2> QED BY <2>1, <2>2, <2>3, <2>4
<1> QED BY <1>2, <1>5, <1>6

\* The characters of a text.
LEMMA Base64Is ==
  ASSUME NEW s \in Seq(Bytes), NEW g \in Nat, NEW pad \in 0..2, 3 * g = Len(s) + pad
  PROVE  /\ base64(s) \in Seq(Sextets \cup {Pad}) /\ Len(base64(s)) = 4 * g
         /\ \A h \in 0..(g - 1), c \in 1..4 :
              base64(s)[4 * h + c] = IF 4 * h + c > 4 * g - pad THEN Pad
                                     ELSE QuadOf(s, h)[c]
<1> DEFINE n == Len(s)
<1>1. n \in Nat OBVIOUS
<1>2. PICK g1 \in Nat, pad1 \in 0..2 : /\ 3 * g1 = n + pad1 /\ pad1 = (3 - (n % 3)) % 3
                                       /\ (4 * (n + pad1)) \div 3 = 4 * g1
  BY <1>1, TextLength
<1>3. g = g1 /\ pad = pad1
  <2>1. 3 * g = n + pad OBVIOUS
  <2> HIDE DEF n
  <2> QED BY <1>1, <1>2, <2>1
<1> DEFINE Char(j) == LET q == 3 * (j \div 4)
                      IN Quad(ByteOf(s, q + 1), ByteOf(s, q + 2), ByteOf(s, q + 3))[(j % 4) + 1]
           text == [j \in 1..(4 * g) |-> IF j > 4 * g - pad THEN Pad ELSE Char(j - 1)]
<1>4. base64(s) = text BY <1>2, <1>3 DEF base64
<1>5. \A j \in Nat : Char(j) = QuadOf(s, j \div 4)[(j % 4) + 1] BY DEF QuadOf
<1>6. \A j \in Nat : Char(j) \in Sextets
  <2>1. TAKE j \in Nat
  <2>2. j \div 4 \in Nat /\ (j % 4) + 1 \in 1..4 OBVIOUS
  <2> HIDE DEF Char
  <2> QED BY <2>2, <1>5, QuadOfIs
<1> HIDE DEF Char
<1>7. text \in Seq(Sextets \cup {Pad}) /\ Len(text) = 4 * g
  <2>1. \A j \in 1..(4 * g) : text[j] \in Sextets \cup {Pad}
    <3>1. TAKE j \in 1..(4 * g)
    <3>2. j - 1 \in Nat OBVIOUS
    <3> QED BY <3>2, <1>6
  <2>2. 4 * g \in Nat OBVIOUS
  <2> DEFINE m == 4 * g
  <2>3. text \in [1..m -> Sextets \cup {Pad}] BY <2>1
  <2>4. m \in Nat BY <2>2
  <2> HIDE DEF m, text
  <2>5. text \in Seq(Sextets \cup {Pad}) /\ Len(text) = m BY <2>3, <2>4
  <2> QED BY <2>5 DEF m
<1>8. ASSUME NEW h \in 0..(g - 1), NEW c \in 1..4
      PROVE  text[4 * h + c] = IF 4 * h + c > 4 * g - pad THEN Pad ELSE QuadOf(s, h)[c]
  <2>1. 4 * h + c \in 1..(4 * g) /\ (4 * h + c) - 1 \in Nat OBVIOUS
  <2>2. ((4 * h + c) - 1) \div 4 = h /\ (((4 * h + c) - 1) % 4) + 1 = c OBVIOUS
  <2>3. Char((4 * h + c) - 1) = QuadOf(s, h)[c] BY <2>1, <2>2, <1>5
  <2> DEFINE j == 4 * h + c
  <2>4. j \in 1..(4 * g) /\ Char(j - 1) = QuadOf(s, h)[c] BY <2>1, <2>3
  <2> HIDE DEF j
  <2>5. text[j] = IF j > 4 * g - pad THEN Pad ELSE QuadOf(s, h)[c] BY <2>4
  <2> QED BY <2>5 DEF j
<1> HIDE DEF text
<1> QED BY <1>4, <1>7, <1>8

\* A character counts as six bits.
LEMMA DigitIs == \A c \in Sextets \cup {Pad} : Digit(c) \in Sextets
BY DEF Digit, Sextets

\* '=' is no digit.
LEMMA PadIsNoDigit == Pad \notin Sextets
BY TemplateAssumption

\* Three bytes come back from the digits made of them.
LEMMA QuadBack ==
  ASSUME NEW x \in Bytes, NEW y \in Bytes, NEW z \in Bytes, NEW q, q = Quad(x, y, z)
  PROVE  Triple(q[1], q[2], q[3], q[4]) = <<x, y, z>>
<1>1. PICK a, b1, b0, c1, c0, d : /\ Cut(x, y, z, a, b1, b0, c1, c0, d)
                                  /\ Quad(x, y, z) = <<a, 16 * b1 + b0, 4 * c1 + c0, d>>
  BY QuadIs, Zenon
<1> DEFINE b == 16 * b1 + b0
           c == 4 * c1 + c0
<1>2. b = 16 * b1 + b0 /\ c = 4 * c1 + c0 OBVIOUS
<1>3. Cut(x, y, z, a, b1, b0, c1, c0, d) BY <1>1
<1>5. q = <<a, b, c, d>> BY <1>1
<1> HIDE DEF b, c
<1>4. Triple(a, b, c, d) = <<x, y, z>> BY <1>2, <1>3, TripleIs
<1>6. q[1] = a /\ q[2] = b /\ q[3] = c /\ q[4] = d BY <1>5
<1> QED BY <1>4, <1>6

\* The 24 bits of the digits are those of the bytes.
LEMMA QuadBits ==
  ASSUME NEW x \in Bytes, NEW y \in Bytes, NEW z \in Bytes, NEW q, q = Quad(x, y, z)
  PROVE  64 * (64 * (64 * q[1] + q[2]) + q[3]) + q[4] = 256 * (256 * x + y) + z
<1>1. PICK a, b1, b0, c1, c0, d : /\ Cut(x, y, z, a, b1, b0, c1, c0, d)
                                  /\ Quad(x, y, z) = <<a, 16 * b1 + b0, 4 * c1 + c0, d>>
  BY QuadIs, Zenon
<1> DEFINE b == 16 * b1 + b0
           c == 4 * c1 + c0
<1>2. 64 * (64 * (64 * a + b) + c) + d = 256 * (256 * x + y) + z BY <1>1 DEF Cut
<1>3. q = <<a, b, c, d>> BY <1>1
<1> HIDE DEF b, c
<1>4. q[1] = a /\ q[2] = b /\ q[3] = c /\ q[4] = d BY <1>3
<1> QED BY <1>2, <1>4

\* Bytes that are not there have no bits.
LEMMA QuadShort ==
  ASSUME NEW x \in Bytes, NEW y \in Bytes
  PROVE  Quad(x, y, 0)[4] = 0 /\ Quad(x, 0, 0)[3] = 0
BY DEF Quad

\* What a text ends with.
Pads(text) == IsPad(text[Len(text)]) + IsPad(text[Len(text) - 1])

\* The bytes of the h-th group of characters.
TripleOf(text, h) ==
  Triple(Digit(text[4 * h + 1]), Digit(text[4 * h + 2]),
         Digit(text[4 * h + 3]), Digit(text[4 * h + 4]))

\* They are bytes.
LEMMA TripleOfIs ==
  ASSUME NEW text \in Seq(Sextets \cup {Pad}), NEW g \in Nat, Len(text) = 4 * g,
         NEW h \in 0..(g - 1), NEW c \in 1..3
  PROVE  TripleOf(text, h)[c] \in Bytes
<1>1. /\ 4 * h + 1 \in 1..Len(text) /\ 4 * h + 2 \in 1..Len(text)
      /\ 4 * h + 3 \in 1..Len(text) /\ 4 * h + 4 \in 1..Len(text)
  OBVIOUS
<1> DEFINE p == Digit(text[4 * h + 1])
           q == Digit(text[4 * h + 2])
           r == Digit(text[4 * h + 3])
           s == Digit(text[4 * h + 4])
<1>2. p \in Sextets /\ q \in Sextets /\ r \in Sextets /\ s \in Sextets
  <2>1. \A i \in 1..Len(text) : text[i] \in Sextets \cup {Pad} OBVIOUS
  <2>2. \A i \in 1..Len(text) : Digit(text[i]) \in Sextets BY <2>1, DigitIs
  <2> QED BY <1>1, <2>2
<1>3. TripleOf(text, h) = Triple(p, q, r, s) BY DEF TripleOf
<1> HIDE DEF p, q, r, s
<1>4. PICK b1 \in 0..3, b0 \in 0..15 : q = 16 * b1 + b0 BY <1>2, Digits
<1>5. PICK c1 \in 0..15, c0 \in 0..3 : r = 4 * c1 + c0 BY <1>2, DigitsLow
<1>6. p \in 0..63 /\ s \in 0..63 BY <1>2 DEF Sextets
<1> DEFINE x == 4 * p + b1
           y == 16 * b0 + c1
           z == 64 * c0 + s
<1>7. Triple(p, q, r, s) = <<x, y, z>> /\ x \in Bytes /\ y \in Bytes /\ z \in Bytes
  <2>1. Cut(x, y, z, p, b1, b0, c1, c0, s) BY <1>6 DEF Cut
  <2> HIDE DEF x, y, z
  <2> QED BY <2>1, <1>4, <1>5, TripleIs
<1> HIDE DEF x, y, z
<1>8. <<x, y, z>>[c] \in Bytes
  <2>1. CASE c = 1 BY <2>1, <1>7
  <2>2. CASE c = 2 BY <2>2, <1>7
  <2>3. CASE c = 3 BY <2>3, <1>7
  <2> QED BY <2>1, <2>2, <2>3
<1> QED BY <1>3, <1>7, <1>8

\* The bytes read out of a text.
LEMMA Unbase64Is ==
  ASSUME NEW text \in Seq(Sextets \cup {Pad}), NEW g \in Nat \ {0}, Len(text) = 4 * g
  PROVE  /\ Pads(text) \in 0..2
         /\ unbase64(text) \in Seq(Bytes) /\ Len(unbase64(text)) = 3 * g - Pads(text)
         /\ \A h \in 0..(g - 1), c \in 1..3 :
              3 * h + c <= 3 * g - Pads(text) => unbase64(text)[3 * h + c] = TripleOf(text, h)[c]
<1> DEFINE pad == Pads(text)
           D(k, j) == Digit(text[4 * (k \div 3) + j])
           Byte(k) == Triple(D(k, 1), D(k, 2), D(k, 3), D(k, 4))[(k % 3) + 1]
           m == 3 * g - pad
           bin == [k \in 1..m |-> Byte(k - 1)]
<1>1. pad \in 0..2 BY DEF Pads, IsPad
<1>2. unbase64(text) = [k \in 1..((3 * Len(text)) \div 4 - pad) |-> Byte(k - 1)]
  <2>1. ~(Len(text) < 2) OBVIOUS
  <2> QED BY <2>1 DEF unbase64, Pads
<1>3. (3 * Len(text)) \div 4 - pad = m
  <2>1. (3 * (4 * g)) \div 4 = 3 * g OBVIOUS
  <2> QED BY <2>1
<1>4. unbase64(text) = bin BY <1>2, <1>3
<1> HIDE DEF pad
<1>5. \A k \in Nat : Byte(k) = TripleOf(text, k \div 3)[(k % 3) + 1] BY DEF TripleOf
<1>6. m \in Nat BY <1>1
<1>7. \A k \in 1..m : bin[k] \in Bytes
  <2>1. TAKE k \in 1..m
  <2>2. k - 1 \in Nat /\ (k - 1) \div 3 \in 0..(g - 1) /\ ((k - 1) % 3) + 1 \in 1..3
    BY <1>1
  <2>3. Byte(k - 1) \in Bytes
    <3> HIDE DEF Byte
    <3>1. Byte(k - 1) = TripleOf(text, (k - 1) \div 3)[((k - 1) % 3) + 1] BY <1>5, <2>2
    <3>2. g \in Nat /\ Len(text) = 4 * g OBVIOUS
    <3> DEFINE h == (k - 1) \div 3
               c == ((k - 1) % 3) + 1
    <3>3. h \in 0..(g - 1) /\ c \in 1..3 /\ Byte(k - 1) = TripleOf(text, h)[c]
      BY <2>2, <3>1
    <3> HIDE DEF h, c
    <3> QED BY <3>2, <3>3, TripleOfIs, Zenon
  <2> QED BY <2>3
<1> HIDE DEF Byte
<1>8. bin \in Seq(Bytes) /\ Len(bin) = m
  <2>1. bin \in [1..m -> Bytes] BY <1>7
  <2> HIDE DEF m, bin
  <2> QED BY <2>1, <1>6
<1>9. ASSUME NEW h \in 0..(g - 1), NEW c \in 1..3, 3 * h + c <= m
      PROVE  bin[3 * h + c] = TripleOf(text, h)[c]
  <2>1. 3 * h + c \in 1..m /\ (3 * h + c) - 1 \in Nat BY <1>6, <1>9
  <2>2. ((3 * h + c) - 1) \div 3 = h /\ (((3 * h + c) - 1) % 3) + 1 = c OBVIOUS
  <2>3. Byte((3 * h + c) - 1) = TripleOf(text, h)[c] BY <2>1, <2>2, <1>5
  <2> DEFINE k == 3 * h + c
  <2>4. k \in 1..m /\ Byte(k - 1) = TripleOf(text, h)[c] BY <2>1, <2>3
  <2> HIDE DEF k, m
  <2>5. bin[k] = TripleOf(text, h)[c] BY <2>4
  <2> QED BY <2>5 DEF k
<1> HIDE DEF bin
<1> QED BY <1>1, <1>4, <1>8, <1>9 DEF pad

\* text has the digits of s in g groups of four, of which pad are missing.
Encodes(text, s, g, pad) ==
  /\ g \in Nat \ {0} /\ pad \in 0..2 /\ 3 * g = Len(s) + pad
  /\ text \in Seq(Sextets \cup {Pad}) /\ Len(text) = 4 * g
  /\ \A h \in 0..(g - 1), c \in 1..4 : text[4 * h + c] = Pad <=> 4 * h + c > 4 * g - pad
  /\ \A h \in 0..(g - 1), c \in 1..4 : Digit(text[4 * h + c]) = QuadOf(s, h)[c]

\* So has what base64 makes of a template.
LEMMA TextOf ==
  ASSUME NEW s \in Seq(Bytes), s # <<>>
  PROVE  \E g, pad : Encodes(base64(s), s, g, pad)
<1>1. Len(s) \in Nat \ {0} OBVIOUS
<1>2. PICK g \in Nat, pad \in 0..2 :
        3 * g = Len(s) + pad /\ pad = (3 - (Len(s) % 3)) % 3
        /\ (4 * (Len(s) + pad)) \div 3 = 4 * g
  BY <1>1, TextLength
<1>3. g \in Nat \ {0} BY <1>1, <1>2
<1> DEFINE text == base64(s)
<1>4. /\ text \in Seq(Sextets \cup {Pad}) /\ Len(text) = 4 * g
      /\ \A h \in 0..(g - 1), c \in 1..4 :
           text[4 * h + c] = IF 4 * h + c > 4 * g - pad THEN Pad ELSE QuadOf(s, h)[c]
  BY <1>2, Base64Is
<1> HIDE DEF text
<1>5. \A h \in 0..(g - 1), c \in 1..4 : QuadOf(s, h)[c] \in Sextets BY QuadOfIs
<1>6. \A h \in 0..(g - 1), c \in 1..4 : text[4 * h + c] = Pad <=> 4 * h + c > 4 * g - pad
  <2>1. TAKE h \in 0..(g - 1), c \in 1..4
  <2>2. text[4 * h + c] = IF 4 * h + c > 4 * g - pad THEN Pad ELSE QuadOf(s, h)[c]
    BY <1>4
  <2>3. QuadOf(s, h)[c] # Pad BY <1>5, PadIsNoDigit
  <2> QED BY <2>2, <2>3
<1>7. ASSUME NEW h \in 0..(g - 1), NEW c \in 1..4
      PROVE  Digit(text[4 * h + c]) = QuadOf(s, h)[c]
  <2>1. text[4 * h + c] = IF 4 * h + c > 4 * g - pad THEN Pad ELSE QuadOf(s, h)[c]
    BY <1>4
  <2>2. CASE ~(4 * h + c > 4 * g - pad)
    <3>1. text[4 * h + c] = QuadOf(s, h)[c] BY <2>1, <2>2
    <3>2. QuadOf(s, h)[c] # Pad BY <1>5, PadIsNoDigit
    <3> QED BY <3>1, <3>2 DEF Digit
  <2>3. CASE 4 * h + c > 4 * g - pad
    <3>1. Digit(text[4 * h + c]) = 0 BY <2>1, <2>3 DEF Digit
    <3> DEFINE x == ByteOf(s, 3 * h + 1)
               y == ByteOf(s, 3 * h + 2)
               z == ByteOf(s, 3 * h + 3)
    <3>2. x \in Bytes /\ y \in Bytes BY ByteOfIs
    <3>3. h = g - 1 /\ (c = 4 \/ (c = 3 /\ pad = 2)) /\ pad > 0
      <4>1. g \in Nat /\ pad \in 0..2 /\ h \in Int /\ 0 <= h /\ h <= g - 1 /\ c \in 1..4
        BY <1>3
      <4>2. 4 * h + c > 4 * g - pad BY <2>3
      <4>3. h = g - 1 BY <4>1, <4>2
      <4> QED BY <4>1, <4>2, <4>3
    <3>4. z = 0
      <4>1. 3 * h + 3 > Len(s) BY <1>2, <3>3
      <4> QED BY <4>1, <1>1 DEF ByteOf
    <3>5. c = 3 => y = 0
      <4>1. c = 3 => 3 * h + 2 > Len(s) BY <1>2, <3>3
      <4> QED BY <4>1, <1>1 DEF ByteOf
    <3>6. QuadOf(s, h) = Quad(x, y, z) BY DEF QuadOf
    <3> HIDE DEF x, y, z
    <3>7. CASE c = 4 BY <3>1, <3>2, <3>4, <3>6, <3>7, QuadShort
    <3>8. CASE c = 3 BY <3>1, <3>2, <3>4, <3>5, <3>6, <3>8, QuadShort
    <3> QED BY <3>3, <3>7, <3>8
  <2> QED BY <2>2, <2>3
<1>8. Encodes(text, s, g, pad) BY <1>2, <1>3, <1>4, <1>6, <1>7 DEF Encodes
<1> QED BY <1>8 DEF text

\* As many '=' as there are bytes missing.
LEMMA PadsOf ==
  ASSUME NEW text, NEW s \in Seq(Bytes), NEW g, NEW pad, Encodes(text, s, g, pad)
  PROVE  Pads(text) = pad
<1>1. /\ g \in Nat \ {0} /\ pad \in 0..2 /\ Len(text) = 4 * g
      /\ \A h \in 0..(g - 1), c \in 1..4 : text[4 * h + c] = Pad <=> 4 * h + c > 4 * g - pad
  BY DEF Encodes
<1>2. g - 1 \in 0..(g - 1) /\ 4 * (g - 1) + 4 = 4 * g /\ 4 * (g - 1) + 3 = 4 * g - 1
  BY <1>1
<1>3. text[4 * (g - 1) + 4] = Pad <=> 4 * (g - 1) + 4 > 4 * g - pad BY <1>1, <1>2
<1>4. text[4 * (g - 1) + 3] = Pad <=> 4 * (g - 1) + 3 > 4 * g - pad BY <1>1, <1>2
<1>5. text[Len(text)] = Pad <=> pad > 0 BY <1>1, <1>2, <1>3
<1>6. text[Len(text) - 1] = Pad <=> pad > 1 BY <1>1, <1>2, <1>4
<1>7. IsPad(text[Len(text)]) = IF pad > 0 THEN 1 ELSE 0 BY <1>5 DEF IsPad
<1>8. IsPad(text[Len(text) - 1]) = IF pad > 1 THEN 1 ELSE 0 BY <1>6 DEF IsPad
<1> QED BY <1>1, <1>7, <1>8 DEF Pads

\* The bytes of a group come back.
LEMMA TripleBack ==
  ASSUME NEW text, NEW s \in Seq(Bytes), NEW g, NEW pad, Encodes(text, s, g, pad),
         NEW h \in 0..(g - 1)
  PROVE  TripleOf(text, h)
           = <<ByteOf(s, 3 * h + 1), ByteOf(s, 3 * h + 2), ByteOf(s, 3 * h + 3)>>
<1> DEFINE x == ByteOf(s, 3 * h + 1)
           y == ByteOf(s, 3 * h + 2)
           z == ByteOf(s, 3 * h + 3)
           q == QuadOf(s, h)
<1>0. g \in Nat BY DEF Encodes
<1>1. \A c \in 1..4 : Digit(text[4 * h + c]) = q[c] BY DEF Encodes
<1>2. x \in Bytes /\ y \in Bytes /\ z \in Bytes
  <2>1. 3 * h + 1 \in Nat \ {0} /\ 3 * h + 2 \in Nat \ {0} /\ 3 * h + 3 \in Nat \ {0}
    BY <1>0
  <2> QED BY <2>1, ByteOfIs
<1>3. q = Quad(x, y, z) BY DEF QuadOf
<1> HIDE DEF x, y, z, q
<1>4. Triple(q[1], q[2], q[3], q[4]) = <<x, y, z>> BY <1>2, <1>3, QuadBack
<1>5. TripleOf(text, h) = Triple(q[1], q[2], q[3], q[4]) BY <1>1 DEF TripleOf
<1>6. TripleOf(text, h) = <<x, y, z>> BY <1>4, <1>5
<1> QED BY <1>6 DEF x, y, z

\* Every number is in a group of three.
LEMMA InGroup ==
  ASSUME NEW g \in Nat, NEW k \in 1..(3 * g)
  PROVE  \E h \in 0..(g - 1), c \in 1..3 : k = 3 * h + c
<1> DEFINE h == (k - 1) \div 3
           c == ((k - 1) % 3) + 1
<1>1. h \in 0..(g - 1) /\ c \in 1..3 /\ k = 3 * h + c OBVIOUS
<1> QED BY <1>1

\* And every number is in a group of four.
LEMMA InQuad ==
  ASSUME NEW g \in Nat, NEW k \in 1..(4 * g)
  PROVE  \E h \in 0..(g - 1), c \in 1..4 : k = 4 * h + c
<1> DEFINE h == (k - 1) \div 4
           c == ((k - 1) % 4) + 1
<1>1. h \in 0..(g - 1) /\ c \in 1..4 /\ k = 4 * h + c OBVIOUS
<1> QED BY <1>1

\* What is written in base64 is read again.
THEOREM Unbase64Base64 ==
  ASSUME NEW s \in Seq(Bytes), s # <<>>
  PROVE  unbase64(base64(s)) = s
<1> DEFINE text == base64(s)
           t == unbase64(text)
<1>1. PICK g, pad : Encodes(text, s, g, pad) BY TextOf
<1> HIDE DEF text
<1>2. /\ g \in Nat \ {0} /\ g \in Nat /\ pad \in 0..2 /\ 3 * g = Len(s) + pad
      /\ text \in Seq(Sextets \cup {Pad}) /\ Len(text) = 4 * g
  BY <1>1 DEF Encodes
<1>3. Pads(text) = pad BY <1>1, PadsOf
<1>4. /\ t \in Seq(Bytes) /\ Len(t) = 3 * g - pad
      /\ \A h \in 0..(g - 1), c \in 1..3 :
           3 * h + c <= 3 * g - pad => t[3 * h + c] = TripleOf(text, h)[c]
  <2>1. /\ t \in Seq(Bytes) /\ Len(t) = 3 * g - Pads(text)
        /\ \A h \in 0..(g - 1), c \in 1..3 :
             3 * h + c <= 3 * g - Pads(text) => t[3 * h + c] = TripleOf(text, h)[c]
    BY <1>2, Unbase64Is, Zenon
  <2> QED BY <2>1, <1>3
<1> HIDE DEF t
<1>5. Len(t) = Len(s) /\ Len(s) \in Nat BY <1>2, <1>4
<1>6. \A k \in 1..Len(t) : t[k] = s[k]
  <2>1. TAKE k \in 1..Len(t)
  <2>2. k \in 1..(3 * g) BY <1>2, <1>5
  <2>3. PICK h \in 0..(g - 1), c \in 1..3 : k = 3 * h + c BY <1>2, <2>2, InGroup
  <2>4. t[k] = TripleOf(text, h)[c]
    <3>1. 3 * h + c <= 3 * g - pad BY <1>4, <2>3
    <3>2. t[3 * h + c] = TripleOf(text, h)[c] BY <1>4, <3>1, Zenon
    <3> QED BY <2>3, <3>2
  <2>5. TripleOf(text, h)
          = <<ByteOf(s, 3 * h + 1), ByteOf(s, 3 * h + 2), ByteOf(s, 3 * h + 3)>>
    BY <1>1, TripleBack
  <2>6. TripleOf(text, h)[c] = ByteOf(s, 3 * h + c)
    <3>1. CASE c = 1 BY <2>5, <3>1
    <3>2. CASE c = 2 BY <2>5, <3>2
    <3>3. CASE c = 3 BY <2>5, <3>3
    <3> QED BY <3>1, <3>2, <3>3
  <2>7. ByteOf(s, 3 * h + c) = s[3 * h + c] BY <1>5, <2>3 DEF ByteOf
  <2> QED BY <2>3, <2>4, <2>6, <2>7
<1>7. t = s BY <1>4, <1>5, <1>6, SeqEqual
<1> QED BY <1>7 DEF t, text

\* It is base64.
THEOREM Base64IsBase64 ==
  ASSUME NEW s \in Seq(Bytes), s # <<>>
  PROVE  IsBase64(base64(s), s)
<1> DEFINE text == base64(s)
<1>1. PICK g, pad : Encodes(text, s, g, pad) BY TextOf
<1> HIDE DEF text
<1>2. /\ g \in Nat \ {0} /\ g \in Nat /\ pad \in 0..2 /\ 3 * g = Len(s) + pad
      /\ text \in Seq(Sextets \cup {Pad}) /\ Len(text) = 4 * g /\ Len(s) \in Nat
  BY <1>1 DEF Encodes
<1>3. \A h \in 0..(g - 1), c \in 1..4 : text[4 * h + c] = Pad <=> 4 * h + c > 4 * g - pad
  BY <1>1 DEF Encodes
<1>4. \A h \in 0..(g - 1), c \in 1..4 : Digit(text[4 * h + c]) = QuadOf(s, h)[c]
  BY <1>1 DEF Encodes
<1>5. Len(text) % 4 = 0 /\ 3 * Len(text) - 4 * Len(s) \in 0..8
  <2>1. (4 * g) % 4 = 0 BY <1>2
  <2>2. 3 * (4 * g) - 4 * Len(s) = 4 * pad BY <1>2
  <2>3. 4 * pad \in 0..8 BY <1>2
  <2>4. Len(text) = 4 * g BY <1>2
  <2> QED BY <2>1, <2>2, <2>3, <2>4
<1>6. \A j \in DOMAIN text : text[j] = Pad <=> 6 * (j - 1) >= 8 * Len(s)
  <2>1. TAKE j \in DOMAIN text
  <2>2. j \in 1..(4 * g) BY <1>2
  <2>3. PICK h \in 0..(g - 1), c \in 1..4 : j = 4 * h + c BY <1>2, <2>2, InQuad
  <2>4. text[j] = Pad <=> j > 4 * g - pad BY <1>3, <2>3
  <2>5. j > 4 * g - pad <=> 6 * (j - 1) >= 8 * Len(s)
    <3>1. Len(s) = 3 * g - pad BY <1>2
    <3>2. 8 * Len(s) = 24 * g - 8 * pad BY <1>2, <3>1
    <3>3. CASE pad = 0 BY <1>2, <2>2, <3>2, <3>3
    <3>4. CASE pad = 1 BY <1>2, <2>2, <3>2, <3>4
    <3>5. CASE pad = 2 BY <1>2, <2>2, <3>2, <3>5
    <3> QED BY <1>2, <3>3, <3>4, <3>5
  <2> QED BY <2>4, <2>5
<1> DEFINE V(h, i) == IF text[4 * h + i] = Pad THEN 0 ELSE text[4 * h + i]
           B(h, i) == IF 3 * h + i <= Len(s) THEN s[3 * h + i] ELSE 0
<1>7. ASSUME NEW h \in 0..(Len(text) \div 4 - 1)
      PROVE  64 * (64 * (64 * V(h, 1) + V(h, 2)) + V(h, 3)) + V(h, 4)
               = 256 * (256 * B(h, 1) + B(h, 2)) + B(h, 3)
  <2>1. h \in 0..(g - 1)
    <3>1. (4 * g) \div 4 = g BY <1>2
    <3> QED BY <1>2, <3>1
  <2> DEFINE q == QuadOf(s, h)
             x == ByteOf(s, 3 * h + 1)
             y == ByteOf(s, 3 * h + 2)
             z == ByteOf(s, 3 * h + 3)
  <2>2. \A c \in 1..4 : V(h, c) = q[c] BY <1>4, <2>1 DEF Digit
  <2>3. V(h, 1) = q[1] /\ V(h, 2) = q[2] /\ V(h, 3) = q[3] /\ V(h, 4) = q[4]
    <3> HIDE DEF V, q
    <3> QED BY <2>2
  <2>4. B(h, 1) = x /\ B(h, 2) = y /\ B(h, 3) = z BY DEF ByteOf
  <2>5. x \in Bytes /\ y \in Bytes /\ z \in Bytes
    <3>1. 3 * h + 1 \in Nat \ {0} /\ 3 * h + 2 \in Nat \ {0} /\ 3 * h + 3 \in Nat \ {0}
      BY <1>2, <2>1
    <3> QED BY <3>1, ByteOfIs
  <2>6. q = Quad(x, y, z) BY DEF QuadOf
  <2> HIDE DEF q, x, y, z, V, B
  <2>7. 64 * (64 * (64 * q[1] + q[2]) + q[3]) + q[4] = 256 * (256 * x + y) + z
    BY <2>5, <2>6, QuadBits
  <2> QED BY <2>3, <2>4, <2>7
<1>8. IsBase64(text, s) BY <1>5, <1>6, <1>7 DEF IsBase64
<1> QED BY <1>8 DEF text
-----------------------------------------------------------------------------
(***************************************************************************)
(* A text one character of which has changed.                              *)
(***************************************************************************)
\* Zeros behind the end add nothing.
LEMMA SumPadded ==
  ASSUME NEW s \in Seq(Bytes), NEW m \in Nat, Len(s) <= m
  PROVE  LET u == [k \in 1..m |-> ByteOf(s, k)]
         IN u \in Seq(Bytes) /\ Len(u) = m /\ Sum(u) = Sum(s)
<1> DEFINE u == [k \in 1..m |-> ByteOf(s, k)]
           n == Len(s)
<1>0. n \in Nat /\ n <= m OBVIOUS
<1>1. \A k \in 1..m : u[k] = ByteOf(s, k) /\ u[k] \in Bytes
  <2>1. \A k \in 1..m : k \in Nat \ {0} OBVIOUS
  <2> QED BY <2>1, ByteOfIs
<1>2. u \in Seq(Bytes) /\ Len(u) = m
  <2>1. u \in [1..m -> Bytes] BY <1>1
  <2> HIDE DEF u
  <2> QED BY <2>1
<1>3. s \in Seq(Nat) /\ u \in Seq(Nat) BY <1>2, BytesNat
<1>4. PICK f : Adds(f, s) BY <1>3, AddsExist
<1>5. /\ \A k \in 0..n : f[k] \in Nat
      /\ f[0] = 0 /\ \A k \in 1..n : f[k] = f[k - 1] + s[k]
  BY <1>4 DEF Adds
<1>6. Sum(s) = f[n] BY <1>3, <1>4, SumIs
<1>7. \A k \in 1..m : u[k] = IF k <= n THEN s[k] ELSE 0 BY <1>1 DEF ByteOf
<1> HIDE DEF u, n
<1> DEFINE h == [k \in 0..m |-> IF k <= n THEN f[k] ELSE f[n]]
<1>8. h \in [0..m -> Nat] BY <1>0, <1>5
<1>9. h[0] = 0 BY <1>0, <1>5
<1>10. ASSUME NEW k \in 1..m PROVE h[k] = h[k - 1] + u[k]
  <2>1. CASE k <= n BY <1>0, <1>5, <1>7, <2>1
  <2>2. CASE k > n
    <3>1. h[k] = f[n] /\ u[k] = 0 BY <1>0, <1>7, <2>2
    <3>2. h[k - 1] = f[n]
      <4>1. CASE k - 1 = n BY <1>0, <4>1
      <4>2. CASE k - 1 > n BY <1>0, <4>2
      <4> QED BY <1>0, <2>2, <4>1, <4>2
    <3>3. f[n] \in Nat BY <1>0, <1>5
    <3> HIDE DEF h
    <3> QED BY <3>1, <3>2, <3>3
  <2> QED BY <1>0, <2>1, <2>2
<1>11. h[m] = f[n]
  <2>1. CASE m = n BY <1>0, <2>1
  <2>2. CASE m > n BY <1>0, <2>2
  <2> QED BY <1>0, <2>1, <2>2
<1> HIDE DEF h
<1>12. Adds(h, u) BY <1>2, <1>8, <1>9, <1>10 DEF Adds
<1>13. Sum(u) = h[m] BY <1>2, <1>3, <1>12, SumIs
<1>14. u \in Seq(Bytes) /\ Len(u) = m /\ Sum(u) = Sum(s) BY <1>2, <1>6, <1>11, <1>13
<1> QED BY <1>14 DEF u

\* Two sequences of one length that differ in three numbers.
LEMMA SumsDifferInThree ==
  ASSUME NEW s \in Seq(Nat), NEW t \in Seq(Nat), NEW m \in Nat, Len(s) = m, Len(t) = m,
         NEW i \in 1..m, NEW j \in 1..m, NEW l \in 1..m, i # j, i # l, j # l,
         \A k \in 1..m : k \notin {i, j, l} => s[k] = t[k]
  PROVE  Sum(s) + (t[i] + t[j] + t[l]) = Sum(t) + (s[i] + s[j] + s[l])
<1> DEFINE u == [s EXCEPT ![i] = t[i]]
           v == [u EXCEPT ![j] = t[j]]
<1>1. /\ s[i] \in Nat /\ s[j] \in Nat /\ s[l] \in Nat
      /\ t[i] \in Nat /\ t[j] \in Nat /\ t[l] \in Nat
  OBVIOUS
<1>2. /\ u \in Seq(Nat) /\ Len(u) = m /\ u[i] = t[i]
      /\ \A k \in 1..m : k # i => u[k] = s[k]
  BY <1>1
<1> HIDE DEF u
<1>3. /\ v \in Seq(Nat) /\ Len(v) = m /\ v[j] = t[j]
      /\ \A k \in 1..m : k # j => v[k] = u[k]
  BY <1>1, <1>2
<1> HIDE DEF v
<1>4. Sum(s) + u[i] = Sum(u) + s[i]
  <2>1. Len(s) = Len(u) /\ i \in 1..Len(s) BY <1>2
  <2>2. \A k \in 1..Len(s) : k # i => s[k] = u[k] BY <1>2
  <2> QED BY <1>2, <2>1, <2>2, SumsDiffer
<1>5. Sum(u) + v[j] = Sum(v) + u[j]
  <2>1. Len(u) = Len(v) /\ j \in 1..Len(u) BY <1>2, <1>3
  <2>2. \A k \in 1..Len(u) : k # j => u[k] = v[k] BY <1>2, <1>3
  <2> QED BY <1>2, <1>3, <2>1, <2>2, SumsDiffer
<1>6. Sum(v) + t[l] = Sum(t) + v[l]
  <2>1. Len(v) = Len(t) /\ l \in 1..Len(v) BY <1>3
  <2>2. ASSUME NEW k \in 1..Len(v), k # l PROVE v[k] = t[k]
    <3>0. k \in 1..m BY <1>3
    <3>1. CASE k = j BY <1>3, <3>1
    <3>2. CASE k = i BY <1>2, <1>3, <3>0, <3>2
    <3>3. CASE k # i /\ k # j
      <4>1. v[k] = u[k] BY <1>3, <3>0, <3>3
      <4>2. u[k] = s[k] BY <1>2, <3>0, <3>3
      <4>3. s[k] = t[k] BY <2>2, <3>0, <3>3
      <4> QED BY <4>1, <4>2, <4>3
    <3> QED BY <3>1, <3>2, <3>3
  <2> QED BY <1>3, <2>1, <2>2, SumsDiffer
<1>7. u[i] = t[i] /\ u[j] = s[j] /\ v[j] = t[j] /\ v[l] = s[l] BY <1>2, <1>3
<1>8. Sum(s) \in Nat /\ Sum(u) \in Nat /\ Sum(v) \in Nat /\ Sum(t) \in Nat
  BY <1>2, <1>3, SumNat
<1> DEFINE a == Sum(s)
           b == Sum(u)
           c == Sum(v)
           d == Sum(t)
           si == s[i]
           sj == s[j]
           sl == s[l]
           ti == t[i]
           tj == t[j]
           tl == t[l]
<1>9. /\ a \in Nat /\ b \in Nat /\ c \in Nat /\ d \in Nat
      /\ si \in Nat /\ sj \in Nat /\ sl \in Nat /\ ti \in Nat /\ tj \in Nat /\ tl \in Nat
  BY <1>1, <1>8
<1>10. a + ti = b + si /\ b + tj = c + sj /\ c + tl = d + sl
  BY <1>4, <1>5, <1>6, <1>7
<1> HIDE DEF a, b, c, d, si, sj, sl, ti, tj, tl
<1>11. (a + ti) + tj = (c + sj) + si BY <1>9, <1>10
<1>12. ((a + ti) + tj) + tl = (d + sl) + (sj + si) BY <1>9, <1>10, <1>11
<1>13. a + (ti + tj + tl) = d + (si + sj + sl) BY <1>9, <1>12
<1> QED BY <1>13 DEF a, d, si, sj, sl, ti, tj, tl

\* How many '=' a group has after one of its characters has changed.
Repads(p, r, c, e) ==
  /\ p \in 0..2 /\ r \in 0..2
  /\ c \in 1..2 => r = p
  /\ r = p \/ r = p - 1 \/ (r = p + 1 /\ e = 0)

\* One of four digits has changed, and the sum of the bytes that are not padded
\* has not: then these are what they were.
LEMMA SameSum ==
  ASSUME NEW x, NEW y, NEW z, NEW a, NEW b1, NEW b0, NEW c1, NEW c0, NEW d,
         Cut(x, y, z, a, b1, b0, c1, c0, d),
         NEW x1, NEW y1, NEW z1, NEW a_, NEW b1_, NEW b0_, NEW c1_, NEW c0_, NEW d_,
         Cut(x1, y1, z1, a_, b1_, b0_, c1_, c0_, d_),
         NEW p, NEW r, NEW c \in 1..4,
         c # 1 => a_ = a, c # 2 => b1_ = b1 /\ b0_ = b0,
         c # 3 => c1_ = c1 /\ c0_ = c0, c # 4 => d_ = d,
         Repads(p, r, c, IF c = 3 THEN 4 * c1_ + c0_ ELSE d_),
         p > 0 => z = 0, p = 2 => y = 0,
         x1 + (IF r = 2 THEN 0 ELSE y1) + (IF r > 0 THEN 0 ELSE z1) = x + y + z
  PROVE  /\ x1 = x /\ (r # 2 => y1 = y) /\ (r = 0 => z1 = z) /\ r <= p + 1
         /\ (p = 0 /\ r = 1 => z = 0) /\ (p = 1 /\ r = 2 => y = 0)
<1>1. /\ a \in 0..63 /\ b1 \in 0..3 /\ b0 \in 0..15
      /\ c1 \in 0..15 /\ c0 \in 0..3 /\ d \in 0..63
      /\ x = 4 * a + b1 /\ y = 16 * b0 + c1 /\ z = 64 * c0 + d
  BY DEF Cut
<1>2. /\ a_ \in 0..63 /\ b1_ \in 0..3 /\ b0_ \in 0..15
      /\ c1_ \in 0..15 /\ c0_ \in 0..3 /\ d_ \in 0..63
      /\ x1 = 4 * a_ + b1_ /\ y1 = 16 * b0_ + c1_ /\ z1 = 64 * c0_ + d_
  BY DEF Cut
<1>3. p \in 0..2 /\ r \in 0..2 /\ (c \in 1..2 => r = p)
  BY DEF Repads
<1>4. c \in 3..4 => r = p \/ r = p - 1 \/ r = p + 1
  BY DEF Repads
<1>5. c = 3 /\ r = p + 1 => c1_ = 0 /\ c0_ = 0 BY <1>2, <1>3 DEF Repads
<1>6. c = 4 /\ r = p + 1 => d_ = 0 BY <1>3 DEF Repads
<1>7. CASE c = 1
  <2>1. y1 = y /\ z1 = z /\ r = p BY <1>1, <1>2, <1>3, <1>7
  <2>2. x1 = x BY <1>1, <1>2, <1>3, <2>1
  <2> QED BY <1>3, <2>1, <2>2
<1>8. CASE c = 2
  <2>1. a_ = a /\ c1_ = c1 /\ z1 = z /\ r = p BY <1>1, <1>2, <1>3, <1>8
  <2>2. CASE r = 2 BY <1>1, <1>2, <1>3, <2>1, <2>2
  <2>3. CASE r # 2
    <3>1. b1_ + 16 * b0_ = b1 + 16 * b0 BY <1>1, <1>2, <1>3, <2>1, <2>3
    <3>2. b1_ = b1 /\ b0_ = b0 BY <1>1, <1>2, <3>1
    <3> QED BY <1>1, <1>2, <1>3, <2>1, <2>3, <3>2
  <2> QED BY <2>2, <2>3
<1>9. CASE c = 3
  <2>1. a_ = a /\ b1_ = b1 /\ b0_ = b0 /\ d_ = d /\ x1 = x BY <1>1, <1>2, <1>9
  <2>2. CASE r = 2
    <3>1. y + z = 0 BY <1>1, <1>2, <2>1, <2>2
    <3> QED BY <1>1, <1>3, <1>4, <1>9, <2>1, <2>2, <3>1
  <2>3. CASE r = 1
    <3>1. 16 * b0 + c1_ = 16 * b0 + c1 + 64 * c0 + d BY <1>1, <1>2, <2>1, <2>3
    <3>2. c0 = 0 BY <1>1, <1>2, <3>1
    <3>3. c1_ = c1 + d BY <1>1, <1>2, <3>1, <3>2
    <3>4. CASE p = 0
      <4>1. c1_ = 0 BY <1>5, <1>9, <2>3, <3>4
      <4>2. c1 = 0 /\ d = 0 BY <1>1, <3>3, <4>1
      <4> QED BY <1>1, <1>2, <2>1, <2>3, <3>2, <3>4, <4>1, <4>2
    <3>5. CASE p # 0
      <4>1. z = 0 BY <1>3, <3>5
      <4>2. d = 0 BY <1>1, <4>1
      <4>3. y1 = y BY <1>1, <1>2, <2>1, <3>3, <4>2
      <4> QED BY <1>3, <2>1, <2>3, <3>5, <4>3
    <3> QED BY <3>4, <3>5
  <2>4. CASE r = 0
    <3>1. c1_ + 64 * c0_ = c1 + 64 * c0 BY <1>1, <1>2, <2>1, <2>4
    <3>2. c1_ = c1 /\ c0_ = c0 BY <1>1, <1>2, <3>1
    <3> QED BY <1>1, <1>2, <1>3, <2>1, <2>4, <3>2
  <2> QED BY <1>3, <2>2, <2>3, <2>4
<1>10. CASE c = 4
  <2>1. x1 = x /\ y1 = y /\ c0_ = c0 BY <1>1, <1>2, <1>10
  <2>2. CASE r = 2
    <3>1. y + z = 0 BY <1>1, <1>2, <2>1, <2>2
    <3> QED BY <1>1, <1>3, <1>4, <1>10, <2>1, <2>2, <3>1
  <2>3. CASE r = 1
    <3>1. z = 0 BY <1>1, <1>2, <2>1, <2>3
    <3> QED BY <1>1, <1>3, <2>1, <2>3, <3>1
  <2>4. CASE r = 0
    <3>1. z1 = z BY <1>1, <1>2, <2>1, <2>4
    <3> QED BY <1>3, <2>1, <2>4, <3>1
  <2> QED BY <1>3, <2>2, <2>3, <2>4
<1> QED BY <1>7, <1>8, <1>9, <1>10

\* The digits of the h-th group of characters, cut where its bytes are.
CutAt(text, h, x, y, z, a, b1, b0, c1, c0, d) ==
  /\ Cut(x, y, z, a, b1, b0, c1, c0, d)
  /\ Digit(text[4 * h + 1]) = a /\ Digit(text[4 * h + 2]) = 16 * b1 + b0
  /\ Digit(text[4 * h + 3]) = 4 * c1 + c0 /\ Digit(text[4 * h + 4]) = d
  /\ TripleOf(text, h) = <<x, y, z>>

\* Every group of every text can be cut.
LEMMA CutsAt ==
  ASSUME NEW text \in Seq(Sextets \cup {Pad}), NEW g \in Nat, Len(text) = 4 * g,
         NEW h \in 0..(g - 1)
  PROVE  \E x, y, z, a, b1, b0, c1, c0, d : CutAt(text, h, x, y, z, a, b1, b0, c1, c0, d)
<1>1. /\ 4 * h + 1 \in 1..Len(text) /\ 4 * h + 2 \in 1..Len(text)
      /\ 4 * h + 3 \in 1..Len(text) /\ 4 * h + 4 \in 1..Len(text)
  OBVIOUS
<1> DEFINE p == Digit(text[4 * h + 1])
           q == Digit(text[4 * h + 2])
           r == Digit(text[4 * h + 3])
           s == Digit(text[4 * h + 4])
<1>2. p \in Sextets /\ q \in Sextets /\ r \in Sextets /\ s \in Sextets
  <2>1. \A i \in 1..Len(text) : text[i] \in Sextets \cup {Pad} OBVIOUS
  <2>2. \A i \in 1..Len(text) : Digit(text[i]) \in Sextets BY <2>1, DigitIs
  <2> QED BY <1>1, <2>2
<1>3. TripleOf(text, h) = Triple(p, q, r, s) BY DEF TripleOf
<1>4. PICK b1 \in 0..3, b0 \in 0..15 : q = 16 * b1 + b0
  <2> HIDE DEF q
  <2> QED BY <1>2, Digits
<1>5. PICK c1 \in 0..15, c0 \in 0..3 : r = 4 * c1 + c0
  <2> HIDE DEF r
  <2> QED BY <1>2, DigitsLow
<1>6. p \in 0..63 /\ s \in 0..63 BY <1>2 DEF Sextets
<1> DEFINE x == 4 * p + b1
           y == 16 * b0 + c1
           z == 64 * c0 + s
<1>7. Cut(x, y, z, p, b1, b0, c1, c0, s)
  <2> HIDE DEF p, s
  <2> QED BY <1>6 DEF Cut
<1>8. Triple(p, q, r, s) = <<x, y, z>>
  <2> HIDE DEF x, y, z, p, q, r, s
  <2> QED BY <1>7, <1>4, <1>5, TripleIs
<1> HIDE DEF x, y, z
<1>9. CutAt(text, h, x, y, z, p, b1, b0, c1, c0, s)
  BY <1>3, <1>4, <1>5, <1>7, <1>8 DEF CutAt
<1> QED BY <1>9, Zenon

\* text is that of s but for the character ci of the group hi, which is ch.
Scratched(text, s, g, pad, hi, ci, ch) ==
  /\ Encodes(base64(s), s, g, pad)
  /\ hi \in 0..(g - 1) /\ ci \in 1..4
  /\ text \in Seq(Sextets \cup {Pad}) /\ Len(text) = 4 * g
  /\ text[4 * hi + ci] = ch
  /\ \A h \in 0..(g - 1), c \in 1..4 :
       h # hi \/ c # ci => text[4 * h + c] = base64(s)[4 * h + c]

\* So is what Scratch makes of a row.
LEMMA ScratchedIs ==
  ASSUME NEW s \in Seq(Bytes), s # <<>>, NEW i \in DOMAIN base64(s),
         NEW ch \in Sextets \cup {Pad}
  PROVE  \E g, pad, hi, ci : Scratched([base64(s) EXCEPT ![i] = ch], s, g, pad, hi, ci, ch)
<1> DEFINE o == base64(s)
           text == [o EXCEPT ![i] = ch]
<1>1. PICK g, pad : Encodes(o, s, g, pad) BY TextOf
<1>2. i \in DOMAIN o OBVIOUS
<1>3. g \in Nat /\ o \in Seq(Sextets \cup {Pad}) /\ Len(o) = 4 * g BY <1>1 DEF Encodes
<1> HIDE DEF o
<1>4. i \in 1..(4 * g) BY <1>2, <1>3
<1>5. PICK hi \in 0..(g - 1), ci \in 1..4 : i = 4 * hi + ci BY <1>3, <1>4, InQuad
<1>6. /\ text \in Seq(Sextets \cup {Pad}) /\ Len(text) = 4 * g /\ text[i] = ch
      /\ \A k \in 1..(4 * g) : k # i => text[k] = o[k]
  <2>1. \A k \in 1..Len(o) : o[k] \in Sextets \cup {Pad} BY <1>3
  <2> QED BY <1>3, <1>4
<1> HIDE DEF text
<1>7. ASSUME NEW h \in 0..(g - 1), NEW c \in 1..4, h # hi \/ c # ci
      PROVE  text[4 * h + c] = o[4 * h + c]
  <2>1. 4 * h + c # 4 * hi + ci BY <1>3, <1>7
  <2>2. 4 * h + c \in 1..(4 * g) BY <1>3
  <2> QED BY <1>5, <1>6, <2>1, <2>2
<1>8. Scratched(text, s, g, pad, hi, ci, ch)
  BY <1>1, <1>5, <1>6, <1>7 DEF Scratched, o
<1> QED BY <1>8, Zenon DEF text, o

\* The '=' at the end of such a text.
LEMMA ScratchedPads ==
  ASSUME NEW text, NEW s \in Seq(Bytes), NEW g, NEW pad, NEW hi, NEW ci, NEW ch,
         Scratched(text, s, g, pad, hi, ci, ch)
  PROVE  /\ hi # g - 1 => Pads(text) = pad
         /\ hi = g - 1 => Repads(pad, Pads(text), ci, Digit(ch))
<1> DEFINE o == base64(s)
           G == g - 1
           p3 == IsPad(o[4 * G + 3])
           p4 == IsPad(o[4 * G + 4])
           r3 == IsPad(text[4 * G + 3])
           r4 == IsPad(text[4 * G + 4])
<1>1. /\ g \in Nat \ {0} /\ pad \in 0..2 /\ Len(o) = 4 * g /\ Len(text) = 4 * g
      /\ hi \in 0..(g - 1) /\ ci \in 1..4
  BY DEF Scratched, Encodes
<1>2. text[4 * hi + ci] = ch BY DEF Scratched
<1>3. \A h \in 0..(g - 1), c \in 1..4 : h # hi \/ c # ci => text[4 * h + c] = o[4 * h + c]
  BY DEF Scratched
<1>4. Pads(o) = pad BY PadsOf DEF Scratched
<1>5. G \in 0..(g - 1) /\ 4 * G + 4 = 4 * g /\ 4 * G + 3 = 4 * g - 1 BY <1>1
<1>6. pad = p4 + p3 BY <1>1, <1>4, <1>5 DEF Pads
<1>7. Pads(text) = r4 + r3 BY <1>1, <1>5 DEF Pads
<1>8. p3 \in 0..1 /\ p4 \in 0..1 /\ r3 \in 0..1 /\ r4 \in 0..1 BY DEF IsPad
<1>9. hi # G \/ ci # 3 => r3 = p3 BY <1>3, <1>5
<1>10. hi # G \/ ci # 4 => r4 = p4 BY <1>3, <1>5
<1>11. hi = G /\ ci = 3 => (r3 = 1 => Digit(ch) = 0) BY <1>2 DEF IsPad, Digit
<1>12. hi = G /\ ci = 4 => (r4 = 1 => Digit(ch) = 0) BY <1>2 DEF IsPad, Digit
<1> HIDE DEF p3, p4, r3, r4, G
<1>13. CASE hi # G BY <1>6, <1>7, <1>9, <1>10, <1>13 DEF G
<1>14. CASE hi = G
  <2> DEFINE r == Pads(text)
  <2>1. r \in 0..2 /\ r = r4 + r3 BY <1>7, <1>8
  <2> HIDE DEF r
  <2>2. ci \in 1..2 => r = pad BY <1>6, <1>9, <1>10, <2>1
  <2>3. r = pad \/ r = pad - 1 \/ (r = pad + 1 /\ Digit(ch) = 0)
    <3>1. CASE ci \in 1..2 BY <2>2, <3>1
    <3>2. CASE ci = 3
      <4>1. r4 = p4 BY <1>10, <3>2
      <4>2. r3 = 1 => Digit(ch) = 0 BY <1>11, <1>14, <3>2
      <4>3. CASE r3 = p3 BY <1>6, <1>8, <2>1, <4>1, <4>3
      <4>4. CASE r3 = 1 /\ p3 = 0 BY <1>6, <1>8, <2>1, <4>1, <4>2, <4>4
      <4>5. CASE r3 = 0 /\ p3 = 1 BY <1>6, <1>8, <2>1, <4>1, <4>5
      <4> QED BY <1>8, <4>3, <4>4, <4>5
    <3>3. CASE ci = 4
      <4>1. r3 = p3 BY <1>9, <3>3
      <4>2. r4 = 1 => Digit(ch) = 0 BY <1>12, <1>14, <3>3
      <4>3. CASE r4 = p4 BY <1>6, <1>8, <2>1, <4>1, <4>3
      <4>4. CASE r4 = 1 /\ p4 = 0 BY <1>6, <1>8, <2>1, <4>1, <4>2, <4>4
      <4>5. CASE r4 = 0 /\ p4 = 1 BY <1>6, <1>8, <2>1, <4>1, <4>5
      <4> QED BY <1>8, <4>3, <4>4, <4>5
    <3> QED BY <1>1, <3>1, <3>2, <3>3
  <2>4. Repads(pad, r, ci, Digit(ch)) BY <1>1, <2>1, <2>2, <2>3 DEF Repads
  <2> QED BY <1>14, <2>4 DEF r, G
<1> QED BY <1>13, <1>14

\* What is read of such a text.
LEMMA ScratchedRead ==
  ASSUME NEW text, NEW s \in Seq(Bytes), NEW g, NEW pad, NEW hi, NEW ci, NEW ch,
         Scratched(text, s, g, pad, hi, ci, ch)
  PROVE  /\ g \in Nat \ {0} /\ pad \in 0..2 /\ Pads(text) \in 0..2 /\ Len(s) = 3 * g - pad
         /\ unbase64(text) \in Seq(Bytes) /\ Len(unbase64(text)) = 3 * g - Pads(text)
         /\ \A h \in 0..(g - 1), c \in 1..3 :
              ByteOf(unbase64(text), 3 * h + c)
                = IF 3 * h + c <= 3 * g - Pads(text) THEN TripleOf(text, h)[c] ELSE 0
<1>1. /\ g \in Nat \ {0} /\ pad \in 0..2 /\ 3 * g = Len(s) + pad
      /\ text \in Seq(Sextets \cup {Pad}) /\ Len(text) = 4 * g
  BY DEF Scratched, Encodes
<1> DEFINE r == Pads(text)
           t == unbase64(text)
<1>2. /\ r \in 0..2 /\ t \in Seq(Bytes) /\ Len(t) = 3 * g - r
      /\ \A h \in 0..(g - 1), c \in 1..3 :
           3 * h + c <= 3 * g - r => t[3 * h + c] = TripleOf(text, h)[c]
  BY <1>1, Unbase64Is, Zenon
<1> HIDE DEF r, t
<1>3. ASSUME NEW h \in 0..(g - 1), NEW c \in 1..3
      PROVE  ByteOf(t, 3 * h + c)
               = IF 3 * h + c <= 3 * g - r THEN TripleOf(text, h)[c] ELSE 0
  BY <1>2 DEF ByteOf
<1>4. Len(s) = 3 * g - pad
  <2> DEFINE n == Len(s)
  <2>1. n \in Nat /\ 3 * g = n + pad BY <1>1
  <2> HIDE DEF n
  <2>2. n = 3 * g - pad BY <1>1, <2>1
  <2> QED BY <2>2 DEF n
<1> QED BY <1>1, <1>2, <1>3, <1>4 DEF r, t

\* In the groups that have not changed it is the bytes of s.
LEMMA OtherGroups ==
  ASSUME NEW text, NEW s \in Seq(Bytes), NEW g, NEW pad, NEW hi, NEW ci, NEW ch,
         Scratched(text, s, g, pad, hi, ci, ch),
         NEW h \in 0..(g - 1), h # hi, NEW c \in 1..3
  PROVE  ByteOf(unbase64(text), 3 * h + c) = ByteOf(s, 3 * h + c)
<1> DEFINE o == base64(s)
           r == Pads(text)
           t == unbase64(text)
           k == 3 * h + c
           x == ByteOf(s, 3 * h + 1)
           y == ByteOf(s, 3 * h + 2)
           z == ByteOf(s, 3 * h + 3)
<1>1. /\ g \in Nat \ {0} /\ pad \in 0..2 /\ r \in 0..2 /\ Len(s) = 3 * g - pad
      /\ ByteOf(t, k) = IF k <= 3 * g - r THEN TripleOf(text, h)[c] ELSE 0
  <2>1. /\ g \in Nat \ {0} /\ pad \in 0..2 /\ r \in 0..2 /\ Len(s) = 3 * g - pad
        /\ t \in Seq(Bytes) /\ Len(t) = 3 * g - r
        /\ \A e \in 0..(g - 1), d \in 1..3 :
             ByteOf(t, 3 * e + d)
               = IF 3 * e + d <= 3 * g - r THEN TripleOf(text, e)[d] ELSE 0
    BY ScratchedRead
  <2> HIDE DEF t, r
  <2> QED BY <2>1
<1>2. hi # g - 1 => r = pad BY ScratchedPads
<1>3. Encodes(o, s, g, pad) BY DEF Scratched
<1>4. TripleOf(text, h) = <<x, y, z>>
  <2>1. \A d \in 1..4 : text[4 * h + d] = o[4 * h + d] BY DEF Scratched
  <2>2. TripleOf(text, h) = TripleOf(o, h) BY <2>1 DEF TripleOf
  <2>3. TripleOf(o, h) = <<x, y, z>> BY <1>3, TripleBack
  <2> QED BY <2>2, <2>3
<1>5. TripleOf(text, h)[c] = ByteOf(s, k)
  <2>1. CASE c = 1 BY <1>4, <2>1
  <2>2. CASE c = 2 BY <1>4, <2>2
  <2>3. CASE c = 3 BY <1>4, <2>3
  <2> QED BY <2>1, <2>2, <2>3
<1> HIDE DEF t, r
<1>6. CASE k <= 3 * g - r BY <1>1, <1>5, <1>6 DEF t
<1>7. CASE ~(k <= 3 * g - r)
  <2>1. h = g - 1 BY <1>1, <1>7
  <2>2. hi # g - 1 BY <2>1
  <2>3. r = pad BY <1>2, <2>2
  <2>4. ~(k <= Len(s)) BY <1>1, <1>7, <2>3
  <2>5. ByteOf(s, k) = 0 BY <2>4 DEF ByteOf
  <2> QED BY <1>1, <1>7, <2>5 DEF t
<1> QED BY <1>6, <1>7

\* The sum tells the two apart by the group that has changed alone.
LEMMA GroupSum ==
  ASSUME NEW text, NEW s \in Seq(Bytes), NEW g, NEW pad, NEW hi, NEW ci, NEW ch,
         Scratched(text, s, g, pad, hi, ci, ch),
         NEW t, t = unbase64(text), Sum(t) = Sum(s)
  PROVE  ByteOf(t, 3 * hi + 1) + ByteOf(t, 3 * hi + 2) + ByteOf(t, 3 * hi + 3)
           = ByteOf(s, 3 * hi + 1) + ByteOf(s, 3 * hi + 2) + ByteOf(s, 3 * hi + 3)
<1> DEFINE m == 3 * g
           i == 3 * hi + 1
           j == 3 * hi + 2
           l == 3 * hi + 3
           S == [k \in 1..m |-> ByteOf(s, k)]
           T == [k \in 1..m |-> ByteOf(t, k)]
<1>1. /\ g \in Nat \ {0} /\ pad \in 0..2 /\ Pads(text) \in 0..2 /\ Len(s) = 3 * g - pad
      /\ t \in Seq(Bytes) /\ Len(t) = 3 * g - Pads(text)
  BY ScratchedRead
<1>2. hi \in 0..(g - 1) BY DEF Scratched
<1>3. m \in Nat /\ Len(s) <= m /\ Len(t) <= m BY <1>1
<1>4. i \in 1..m /\ j \in 1..m /\ l \in 1..m /\ i # j /\ i # l /\ j # l BY <1>1, <1>2
<1>5. \A k \in 1..m : k \notin {i, j, l} => ByteOf(t, k) = ByteOf(s, k)
  <2>1. TAKE k \in 1..m
  <2>2. HAVE k \notin {i, j, l}
  <2>3. g \in Nat BY <1>1
  <2>4. PICK h \in 0..(g - 1), c \in 1..3 : k = 3 * h + c BY <2>3, InGroup
  <2>5. h # hi BY <1>1, <1>2, <2>2, <2>4
  <2> QED BY <2>4, <2>5, OtherGroups
<1>6. \A k \in 1..m : S[k] = ByteOf(s, k) /\ T[k] = ByteOf(t, k) OBVIOUS
<1> HIDE DEF m
<1>7. S \in Seq(Bytes) /\ Len(S) = m /\ Sum(S) = Sum(s) BY <1>3, SumPadded
<1>8. T \in Seq(Bytes) /\ Len(T) = m /\ Sum(T) = Sum(t) BY <1>1, <1>3, SumPadded
<1> HIDE DEF S, T, i, j, l
<1>9. S \in Seq(Nat) /\ T \in Seq(Nat) BY <1>7, <1>8, BytesNat
<1>10. \A k \in 1..m : k \notin {i, j, l} => S[k] = T[k] BY <1>5, <1>6
<1>11. Sum(S) + (T[i] + T[j] + T[l]) = Sum(T) + (S[i] + S[j] + S[l])
  BY <1>3, <1>4, <1>7, <1>8, <1>9, <1>10, SumsDifferInThree
<1>12. Sum(S) = Sum(T) /\ Sum(S) \in Nat BY <1>7, <1>8, <1>9, SumNat
<1>13. \A k \in 1..m : S[k] \in Nat /\ T[k] \in Nat BY <1>7, <1>8, <1>9
<1>14. T[i] + T[j] + T[l] = S[i] + S[j] + S[l]
  <2> DEFINE n == Sum(S)
             u == T[i] + T[j] + T[l]
             v == S[i] + S[j] + S[l]
  <2>1. n \in Nat /\ n + u = n + v BY <1>11, <1>12
  <2>2. u \in Nat /\ v \in Nat
    <3> DEFINE ti == T[i]
               tj == T[j]
               tl == T[l]
               si == S[i]
               sj == S[j]
               sl == S[l]
    <3>1. /\ ti \in Nat /\ tj \in Nat /\ tl \in Nat
          /\ si \in Nat /\ sj \in Nat /\ sl \in Nat
      BY <1>4, <1>13
    <3>2. u = ti + tj + tl /\ v = si + sj + sl OBVIOUS
    <3> HIDE DEF ti, tj, tl, si, sj, sl
    <3>3. ti + tj + tl \in Nat /\ si + sj + sl \in Nat BY <3>1
    <3> HIDE DEF u, v
    <3> QED BY <3>2, <3>3
  <2> HIDE DEF n, u, v
  <2>4. u = v BY <2>1, <2>2
  <2> QED BY <2>4 DEF u, v
<1>15. /\ T[i] = ByteOf(t, i) /\ T[j] = ByteOf(t, j) /\ T[l] = ByteOf(t, l)
       /\ S[i] = ByteOf(s, i) /\ S[j] = ByteOf(s, j) /\ S[l] = ByteOf(s, l)
  BY <1>4, <1>6
<1> QED BY <1>14, <1>15 DEF i, j, l

\* A sum that has not changed says what the bytes are: those of s, but that a zero
\* at the end may be missing, or one more be there.
LEMMA ScratchedKept ==
  ASSUME NEW text, NEW s \in Seq(Bytes), NEW g, NEW pad, NEW hi, NEW ci, NEW ch,
         Scratched(text, s, g, pad, hi, ci, ch),
         NEW t, t = unbase64(text), Sum(t) = Sum(s),
         NEW p, p = (IF hi = g - 1 THEN pad ELSE 0),
         NEW r, r = (IF hi = g - 1 THEN Pads(text) ELSE 0)
  PROVE  /\ ByteOf(t, 3 * hi + 1) = ByteOf(s, 3 * hi + 1)
         /\ r # 2 => ByteOf(t, 3 * hi + 2) = ByteOf(s, 3 * hi + 2)
         /\ r = 0 => ByteOf(t, 3 * hi + 3) = ByteOf(s, 3 * hi + 3)
         /\ r <= p + 1
         /\ p = 0 /\ r = 1 => ByteOf(s, 3 * hi + 3) = 0
         /\ p = 1 /\ r = 2 => ByteOf(s, 3 * hi + 2) = 0
<1> DEFINE o == base64(s)
           xs == ByteOf(s, 3 * hi + 1)
           ys == ByteOf(s, 3 * hi + 2)
           zs == ByteOf(s, 3 * hi + 3)
           xt == ByteOf(t, 3 * hi + 1)
           yt == ByteOf(t, 3 * hi + 2)
           zt == ByteOf(t, 3 * hi + 3)
<1>1. /\ g \in Nat \ {0} /\ g \in Nat /\ pad \in 0..2 /\ 3 * g = Len(s) + pad
      /\ o \in Seq(Sextets \cup {Pad}) /\ Len(o) = 4 * g
  BY DEF Scratched, Encodes
<1>2. /\ hi \in 0..(g - 1) /\ ci \in 1..4 /\ text[4 * hi + ci] = ch
      /\ text \in Seq(Sextets \cup {Pad}) /\ Len(text) = 4 * g
  BY DEF Scratched
<1>3. \A c \in 1..4 : c # ci => text[4 * hi + c] = o[4 * hi + c] BY <1>2 DEF Scratched
<1>4. Encodes(o, s, g, pad) BY DEF Scratched
<1> HIDE DEF o
<1>5. PICK x, y, z, a, b1, b0, c1, c0, d : CutAt(o, hi, x, y, z, a, b1, b0, c1, c0, d)
  BY <1>1, <1>2, CutsAt, Zenon
<1>6. PICK x1, y1, z1, a_, b1_, b0_, c1_, c0_, d_ :
        CutAt(text, hi, x1, y1, z1, a_, b1_, b0_, c1_, c0_, d_)
  BY <1>1, <1>2, CutsAt, Zenon
<1>7. x = xs /\ y = ys /\ z = zs
  <2>1. TripleOf(o, hi) = <<xs, ys, zs>> BY <1>2, <1>4, TripleBack
  <2>2. TripleOf(o, hi) = <<x, y, z>> BY <1>5 DEF CutAt
  <2> HIDE DEF xs, ys, zs
  <2> QED BY <2>1, <2>2
<1>8. /\ Pads(text) \in 0..2
      /\ \A h \in 0..(g - 1), c \in 1..3 :
           ByteOf(t, 3 * h + c)
             = IF 3 * h + c <= 3 * g - Pads(text) THEN TripleOf(text, h)[c] ELSE 0
  <2> DEFINE u == unbase64(text)
  <2>1. /\ g \in Nat \ {0} /\ pad \in 0..2 /\ Pads(text) \in 0..2 /\ Len(s) = 3 * g - pad
        /\ u \in Seq(Bytes) /\ Len(u) = 3 * g - Pads(text)
        /\ \A h \in 0..(g - 1), c \in 1..3 :
             ByteOf(u, 3 * h + c)
               = IF 3 * h + c <= 3 * g - Pads(text) THEN TripleOf(text, h)[c] ELSE 0
    BY ScratchedRead
  <2>2. t = u OBVIOUS
  <2> HIDE DEF u
  <2> QED BY <2>1, <2>2
<1>9. xt = x1 /\ yt = (IF r = 2 THEN 0 ELSE y1) /\ zt = (IF r > 0 THEN 0 ELSE z1)
  <2>1. TripleOf(text, hi) = <<x1, y1, z1>> BY <1>6 DEF CutAt
  <2> DEFINE q == TripleOf(text, hi)
             u == Pads(text)
  <2>2. /\ xt = IF 3 * hi + 1 <= 3 * g - u THEN q[1] ELSE 0
        /\ yt = IF 3 * hi + 2 <= 3 * g - u THEN q[2] ELSE 0
        /\ zt = IF 3 * hi + 3 <= 3 * g - u THEN q[3] ELSE 0
    BY <1>2, <1>8
  <2>3. u \in 0..2 /\ r = IF hi = g - 1 THEN u ELSE 0 BY <1>8
  <2>4. q[1] = x1 /\ q[2] = y1 /\ q[3] = z1 BY <2>1
  <2> HIDE DEF q, u, xt, yt, zt
  <2>5. 3 * hi + 1 <= 3 * g - u /\ (3 * hi + 2 <= 3 * g - u <=> r # 2)
        /\ (3 * hi + 3 <= 3 * g - u <=> r = 0) /\ r \in 0..2
    <3>1. hi \in Int /\ g \in Int /\ 0 <= hi /\ hi <= g - 1 BY <1>1, <1>2
    <3>2. CASE hi = g - 1 BY <2>3, <3>1, <3>2
    <3>3. CASE hi < g - 1 BY <2>3, <3>1, <3>3
    <3> QED BY <3>1, <3>2, <3>3
  <2> QED BY <2>2, <2>4, <2>5
<1>10. xt + yt + zt = xs + ys + zs BY GroupSum
<1>11. Repads(p, r, ci, Digit(ch))
  <2>1. CASE hi = g - 1 BY <2>1, ScratchedPads
  <2>2. CASE hi # g - 1 BY <1>2, <2>2 DEF Repads
  <2> QED BY <2>1, <2>2
<1>12. /\ Cut(x, y, z, a, b1, b0, c1, c0, d) /\ Digit(o[4 * hi + 1]) = a
       /\ Digit(o[4 * hi + 2]) = 16 * b1 + b0
       /\ Digit(o[4 * hi + 3]) = 4 * c1 + c0 /\ Digit(o[4 * hi + 4]) = d
  BY <1>5 DEF CutAt
<1>13. /\ Cut(x1, y1, z1, a_, b1_, b0_, c1_, c0_, d_) /\ Digit(text[4 * hi + 1]) = a_
       /\ Digit(text[4 * hi + 2]) = 16 * b1_ + b0_
       /\ Digit(text[4 * hi + 3]) = 4 * c1_ + c0_ /\ Digit(text[4 * hi + 4]) = d_
  BY <1>6 DEF CutAt
<1>14. (ci # 1 => a_ = a) /\ (ci # 4 => d_ = d) BY <1>3, <1>12, <1>13
<1>15. ci # 2 => b1_ = b1 /\ b0_ = b0
  <2>1. ci # 2 => 16 * b1_ + b0_ = 16 * b1 + b0 BY <1>3, <1>12, <1>13
  <2> QED BY <2>1, <1>12, <1>13 DEF Cut
<1>16. ci # 3 => c1_ = c1 /\ c0_ = c0
  <2>1. ci # 3 => 4 * c1_ + c0_ = 4 * c1 + c0 BY <1>3, <1>12, <1>13
  <2> QED BY <2>1, <1>12, <1>13 DEF Cut
<1>17. Repads(p, r, ci, IF ci = 3 THEN 4 * c1_ + c0_ ELSE d_)
  <2>1. ci = 3 => Digit(ch) = 4 * c1_ + c0_ BY <1>2, <1>13
  <2>2. ci = 4 => Digit(ch) = d_ BY <1>2, <1>13
  <2> QED BY <1>2, <1>11, <2>1, <2>2 DEF Repads
<1>18. (p > 0 => z = 0) /\ (p = 2 => y = 0)
  <2> DEFINE n == Len(s)
  <2>0. n \in Nat /\ 3 * g = n + pad BY <1>1
  <2>1. zs = IF 3 * hi + 3 <= n THEN s[3 * hi + 3] ELSE 0 BY DEF ByteOf
  <2>2. ys = IF 3 * hi + 2 <= n THEN s[3 * hi + 2] ELSE 0 BY DEF ByteOf
  <2> HIDE DEF n, ys, zs
  <2>3. p > 0 => ~(3 * hi + 3 <= n) BY <1>1, <1>2, <2>0
  <2>4. p = 2 => ~(3 * hi + 2 <= n) BY <1>1, <1>2, <2>0
  <2> QED BY <1>7, <2>1, <2>2, <2>3, <2>4
<1> HIDE DEF xs, ys, zs, xt, yt, zt
<1>19. x1 + (IF r = 2 THEN 0 ELSE y1) + (IF r > 0 THEN 0 ELSE z1) = x + y + z
  BY <1>7, <1>9, <1>10
<1>20. /\ x1 = x /\ (r # 2 => y1 = y) /\ (r = 0 => z1 = z) /\ r <= p + 1
       /\ (p = 0 /\ r = 1 => z = 0) /\ (p = 1 /\ r = 2 => y = 0)
  <2>1. Cut(x, y, z, a, b1, b0, c1, c0, d) /\ Cut(x1, y1, z1, a_, b1_, b0_, c1_, c0_, d_)
    BY <1>12, <1>13
  <2>2. ci \in 1..4 BY <1>2
  <2> QED BY <2>1, <2>2, <1>14, <1>15, <1>16, <1>17, <1>18, <1>19, SameSum
<1>21. r \in 0..2 BY <1>17 DEF Repads
<1>22. /\ xt = xs /\ (r # 2 => yt = ys) /\ (r = 0 => zt = zs) /\ r <= p + 1
       /\ (p = 0 /\ r = 1 => zs = 0) /\ (p = 1 /\ r = 2 => ys = 0)
  BY <1>7, <1>9, <1>20, <1>21
<1> QED BY <1>22 DEF xs, ys, zs, xt, yt, zt

\* t has the bytes of s, but that a zero at the end may be missing, and more follow.
Reads(t, s) ==
  /\ t \in Seq(Bytes) /\ Len(t) >= Len(s) - 1
  /\ \A k \in 1..Len(t) : k <= Len(s) => t[k] = s[k]
  /\ Len(t) < Len(s) => s[Len(s)] = 0

\* That is what a changed text gives whose sum has not changed.
LEMMA ScratchedReads ==
  ASSUME NEW s \in Seq(Bytes), NEW g, NEW pad, NEW hi, NEW ci, NEW ch,
         NEW text, Scratched(text, s, g, pad, hi, ci, ch),
         NEW t, t = unbase64(text), Sum(t) = Sum(s)
  PROVE  Reads(t, s)
<1> DEFINE u == Pads(text)
           p == IF hi = g - 1 THEN pad ELSE 0
           r == IF hi = g - 1 THEN u ELSE 0
           n == Len(s)
           m == Len(t)
<1>1. /\ g \in Nat \ {0} /\ pad \in 0..2 /\ u \in 0..2 /\ n = 3 * g - pad
      /\ t \in Seq(Bytes) /\ m = 3 * g - u
  BY ScratchedRead
<1>2. hi \in 0..(g - 1) BY DEF Scratched
<1>3. hi # g - 1 => u = pad BY ScratchedPads
<1>4. (hi = g - 1 => p = pad /\ r = u) /\ (hi # g - 1 => p = 0 /\ r = 0) OBVIOUS
<1>5. /\ ByteOf(t, 3 * hi + 1) = ByteOf(s, 3 * hi + 1)
      /\ r # 2 => ByteOf(t, 3 * hi + 2) = ByteOf(s, 3 * hi + 2)
      /\ r = 0 => ByteOf(t, 3 * hi + 3) = ByteOf(s, 3 * hi + 3)
      /\ r <= p + 1
      /\ p = 0 /\ r = 1 => ByteOf(s, 3 * hi + 3) = 0
      /\ p = 1 /\ r = 2 => ByteOf(s, 3 * hi + 2) = 0
  <2>1. p = (IF hi = g - 1 THEN pad ELSE 0) /\ r = (IF hi = g - 1 THEN Pads(text) ELSE 0)
    OBVIOUS
  <2> HIDE DEF p, r
  <2> QED BY <2>1, ScratchedKept
<1> HIDE DEF u, p, r
<1>6. u <= pad + 1
  <2>1. CASE hi = g - 1 BY <1>4, <1>5, <2>1
  <2>2. CASE hi # g - 1 BY <1>1, <1>3, <2>2
  <2> QED BY <2>1, <2>2
<1>7. m >= n - 1 BY <1>1, <1>6
<1>8. ASSUME NEW k \in 1..m, k <= n PROVE t[k] = s[k]
  <2>1. k \in 1..(3 * g) /\ g \in Nat BY <1>1
  <2>2. PICK h \in 0..(g - 1), c \in 1..3 : k = 3 * h + c BY <2>1, InGroup
  <2>3. ByteOf(t, k) = t[k] /\ ByteOf(s, k) = s[k] BY <1>8 DEF ByteOf
  <2>4. ByteOf(t, 3 * h + c) = ByteOf(s, 3 * h + c)
    <3>1. CASE h # hi
      <4>1. ByteOf(t, k) = ByteOf(s, k) BY <2>2, <3>1, OtherGroups
      <4> QED BY <2>2, <4>1
    <3>2. CASE h = hi
      <4>1. r \in 0..2 /\ (hi = g - 1 => k <= 3 * g - r) BY <1>1, <1>2, <1>4
      <4>2. c = 3 => r = 0
        <5>1. CASE hi = g - 1
          <6>1. 3 * (g - 1) + c <= 3 * g - r BY <2>2, <3>2, <4>1, <5>1
          <6> QED BY <1>1, <4>1, <6>1
        <5>2. CASE hi # g - 1 BY <1>4, <5>2
        <5> QED BY <5>1, <5>2
      <4>3. c = 2 => r # 2
        <5>1. CASE hi = g - 1
          <6>1. 3 * (g - 1) + c <= 3 * g - r BY <2>2, <3>2, <4>1, <5>1
          <6> QED BY <1>1, <4>1, <6>1
        <5>2. CASE hi # g - 1 BY <1>4, <5>2
        <5> QED BY <5>1, <5>2
      <4>4. CASE c = 1 BY <1>5, <3>2, <4>4
      <4>5. CASE c = 2 BY <1>5, <3>2, <4>3, <4>5
      <4>6. CASE c = 3 BY <1>5, <3>2, <4>2, <4>6
      <4> QED BY <4>4, <4>5, <4>6
    <3> QED BY <3>1, <3>2
  <2> QED BY <2>2, <2>3, <2>4
<1>9. m < n => s[n] = 0
  <2>1. HAVE m < n
  <2>2. u = pad + 1 BY <1>1, <1>6, <2>1
  <2>3. hi = g - 1 /\ p = pad /\ r = u BY <1>1, <1>3, <1>4, <2>2
  <2>4. ByteOf(s, n) = s[n] BY DEF ByteOf
  <2>5. (pad = 0 /\ u = 1) \/ (pad = 1 /\ u = 2) BY <1>1, <2>2
  <2>6. CASE pad = 0 /\ u = 1
    <3>1. 3 * hi + 3 = n BY <1>1, <2>3, <2>6
    <3> QED BY <1>5, <2>3, <2>4, <2>6, <3>1
  <2>7. CASE pad = 1 /\ u = 2
    <3>1. 3 * hi + 2 = n BY <1>1, <2>3, <2>7
    <3> QED BY <1>5, <2>3, <2>4, <2>7, <3>1
  <2> QED BY <2>5, <2>6, <2>7
<1> QED BY <1>1, <1>7, <1>8, <1>9 DEF Reads
-----------------------------------------------------------------------------
(***************************************************************************)
(* The way of a template.                                                  *)
(***************************************************************************)
\* s with another byte for a zero at the end.
Resembles(d, s) ==
  /\ d \in Seq(Bytes) /\ Len(d) = Len(s)
  /\ \A i \in 1..Len(s) : d[i] = s[i] \/ (i = Len(s) /\ s[i] = 0)

\* What may become of s on the way: in the row, out of it, and on a scanner.
RowIs(r, s, sc) ==
  IF sc THEN \E i \in DOMAIN base64(s), c \in Sextets \cup {Pad} :
               r = [data |-> [base64(s) EXCEPT ![i] = c], checksum |-> Sum(s)]
        ELSE r = RowOf(s)

ReadIs(t, s, sc) == IF sc THEN Reads(t, s) ELSE t = s

HeldIs(d, s, sc) == IF sc THEN Resembles(d, s) ELSE d = s

\* A packet with d of which a byte may have changed.
OneByteOff(p, d) ==
  \/ p = DataPacket(d)
  \/ \E i \in DOMAIN DataPacket(d), b \in Bytes : p = [DataPacket(d) EXCEPT ![i] = b]

RowSteps == {"stored", "reload", "resent"}

\* What holds in every state: a template that has passed a checksum is the one
\* enrolled, or reads like it, and what is on the line is a packet with it.
TemplateIInv ==
  /\ TemplateTypeOK
  /\ row # NULL <=> step \in RowSteps
  /\ scratched => row # NULL
  /\ row # NULL => RowIs(row, enrolled, scratched)
  /\ step \in {"upload", "sent", "insert", "reload", "resent"} => fgp # NULL
  /\ fgp # NULL => ReadIs(fgp, enrolled, scratched)
  /\ held # NULL => HeldIs(held, enrolled, scratched)
  /\ step \in {"download", "sent", "resent"} =>
       \E d : HeldIs(d, enrolled, scratched) /\ OneByteOff(line, d)

\* What is enrolled is a template with bytes in it.
LEMMA TemplatesAre ==
  \A s \in Templates : s \in Seq(Bytes) /\ s # <<>> /\ s # NULL
BY TemplateAssumption

\* Whether a byte of it changes or not, a packet is taken for its data or not at all.
LEMMA LineTaken ==
  ASSUME NEW d \in Seq(Bytes), NEW p, OneByteOff(p, d)
  PROVE  GetData(p) = d \/ GetData(p) = NULL
<1>1. CASE p = DataPacket(d)
  <2>1. GetData(DataPacket(d)) = d BY PacketTaken
  <2> QED BY <1>1, <2>1
<1>2. CASE \E i \in DOMAIN DataPacket(d), b \in Bytes : p = [DataPacket(d) EXCEPT ![i] = b]
  <2>1. PICK i \in DOMAIN DataPacket(d), b \in Bytes : p = [DataPacket(d) EXCEPT ![i] = b]
    BY <1>2
  <2>2. GetData([DataPacket(d) EXCEPT ![i] = b]) \in {d, NULL} BY HurtPacket
  <2> QED BY <2>1, <2>2
<1> QED BY <1>1, <1>2 DEF OneByteOff

\* What the line makes of a packet.
LEMMA LineIs ==
  ASSUME NEW d \in Seq(Bytes), Sends(DataPacket(d))
  PROVE  OneByteOff(line', d) /\ line' \in Seq(Bytes)
<1> DEFINE p == DataPacket(d)
<1>1. p \in Seq(Bytes) BY PacketIs
<1>2. line' = p \/ \E i \in DOMAIN p, b \in Noise : line' = [p EXCEPT ![i] = b] BY DEF Sends
<1>3. Noise \subseteq Bytes BY TemplateAssumption
<1>4. line' = p \/ \E i \in DOMAIN p, b \in Bytes : line' = [p EXCEPT ![i] = b]
  <2> HIDE DEF p
  <2> QED BY <1>2, <1>3
<1>5. OneByteOff(line', d) BY <1>4 DEF OneByteOff
<1>6. line' \in Seq(Bytes)
  <2> HIDE DEF p
  <2>1. CASE line' = p BY <1>1, <2>1
  <2>2. CASE \E i \in DOMAIN p, b \in Bytes : line' = [p EXCEPT ![i] = b] BY <1>1, <2>2
  <2> QED BY <1>4, <2>1, <2>2
<1> QED BY <1>5, <1>6

\* What is held resembles what was enrolled; if the file has not changed, it is that.
LEMMA HeldBytes ==
  ASSUME NEW s \in Seq(Bytes), NEW d, NEW sc, HeldIs(d, s, sc)
  PROVE  d \in Seq(Bytes) /\ Len(d) = Len(s)
         /\ \A i \in 1..Len(s) : d[i] = s[i] \/ (sc /\ i = Len(s) /\ s[i] = 0)
BY DEF HeldIs, Resembles

\* A template read from a row is the one written, or reads like it.
LEMMA RowRead ==
  ASSUME NEW s \in Templates, NEW sc \in BOOLEAN, NEW r, RowIs(r, s, sc)
  PROVE  db_get_fingerprint(r) # NULL => ReadIs(db_get_fingerprint(r), s, sc)
<1>1. s \in Seq(Bytes) /\ s # <<>> BY TemplatesAre
<1>2. CASE ~sc
  <2>1. r = [data |-> base64(s), checksum |-> Sum(s)] BY <1>2 DEF RowIs, RowOf
  <2>2. unbase64(r.data) = s /\ r.checksum = Sum(s) BY <1>1, <2>1, Unbase64Base64
  <2>3. db_get_fingerprint(r) = s BY <2>2 DEF db_get_fingerprint
  <2> QED BY <1>2, <2>3 DEF ReadIs
<1>3. CASE sc
  <2>1. PICK i \in DOMAIN base64(s), c \in Sextets \cup {Pad} :
          r = [data |-> [base64(s) EXCEPT ![i] = c], checksum |-> Sum(s)]
    BY <1>3 DEF RowIs
  <2> DEFINE text == [base64(s) EXCEPT ![i] = c]
             t == unbase64(text)
  <2>2. r.data = text /\ r.checksum = Sum(s) BY <2>1
  <2>3. db_get_fingerprint(r) = IF Sum(t) = Sum(s) THEN t ELSE NULL
    BY <2>2 DEF db_get_fingerprint
  <2>4. PICK g, pad, hi, ci : Scratched(text, s, g, pad, hi, ci, c)
    BY <1>1, ScratchedIs, Zenon
  <2> HIDE DEF text
  <2>5. Sum(t) = Sum(s) => Reads(t, s)
    <3>1. HAVE Sum(t) = Sum(s)
    <3>2. t = unbase64(text) OBVIOUS
    <3> HIDE DEF t
    <3> QED BY <1>1, <2>4, <3>1, <3>2, ScratchedReads
  <2> HIDE DEF t
  <2> QED BY <1>3, <2>3, <2>5 DEF ReadIs
<1> QED BY <1>2, <1>3

\* What is read out of the buffer, and of the memory behind it, is held.
LEMMA BufferHeld ==
  ASSUME NEW s \in Templates, NEW sc \in BOOLEAN, NEW t, ReadIs(t, s, sc), NEW b \in Noise
  PROVE  HeldIs([i \in 1..Len(s) |-> IF i <= Len(t) THEN t[i] ELSE b], s, sc)
<1> DEFINE d == [i \in 1..Len(s) |-> IF i <= Len(t) THEN t[i] ELSE b]
<1>1. s \in Seq(Bytes) /\ Len(s) \in Nat BY TemplatesAre
<1>2. b \in Bytes BY TemplateAssumption
<1>3. CASE ~sc
  <2>1. t = s BY <1>3 DEF ReadIs
  <2>2. d = [i \in 1..Len(s) |-> s[i]] BY <2>1
  <2>3. d = s BY <1>1, <2>2
  <2> QED BY <1>3, <2>3 DEF HeldIs
<1>4. CASE sc
  <2>1. /\ t \in Seq(Bytes) /\ Len(t) >= Len(s) - 1
        /\ \A k \in 1..Len(t) : k <= Len(s) => t[k] = s[k]
        /\ Len(t) < Len(s) => s[Len(s)] = 0
    BY <1>4 DEF ReadIs, Reads
  <2> DEFINE n == Len(s)
             m == Len(t)
  <2>2. n \in Nat /\ m \in Nat /\ m >= n - 1 BY <1>1, <2>1
  <2>3. ASSUME NEW i \in 1..n
        PROVE  d[i] \in Bytes /\ (d[i] = s[i] \/ (i = n /\ s[i] = 0))
    <3>1. CASE i <= m
      <4>1. d[i] = t[i] /\ t[i] \in Bytes /\ t[i] = s[i] BY <2>1, <2>2, <3>1
      <4> QED BY <4>1
    <3>2. CASE ~(i <= m)
      <4>1. d[i] = b BY <3>2
      <4>2. i = n /\ m < n BY <2>2, <3>2
      <4> QED BY <1>2, <2>1, <4>1, <4>2
    <3> QED BY <3>1, <3>2
  <2>4. d \in Seq(Bytes) /\ Len(d) = n
    <3>1. d \in [1..n -> Bytes] BY <2>3
    <3> HIDE DEF d, n
    <3> QED BY <2>2, <3>1
  <2> HIDE DEF d
  <2>5. Resembles(d, s) BY <2>3, <2>4 DEF Resembles
  <2>6. HeldIs(d, s, sc) BY <1>4, <2>5 DEF HeldIs
  <2> QED BY <2>6 DEF d
<1> QED BY <1>3, <1>4

\* The invariant holds at first.
LEMMA TemplateInitially ==
  TemplateInit => TemplateIInv
<1> SUFFICES ASSUME TemplateInit PROVE TemplateIInv
  OBVIOUS
<1>1. /\ enrolled \in Templates /\ held = NULL /\ row = NULL /\ fgp = NULL
      /\ line = <<>> /\ step = "enrolled" /\ scratched = FALSE
  BY DEF TemplateInit
<1>2. TemplateTypeOK
  <2>1. {held, fgp} \subseteq Seq(Bytes) \cup {NULL} /\ line \in Seq(Bytes) BY <1>1
  <2>2. scratched \in BOOLEAN BY <1>1
  <2> QED BY <1>1, <2>1, <2>2 DEF TemplateTypeOK
<1> QED BY <1>1, <1>2 DEF TemplateIInv, RowSteps

\* A packet with the template leaves the exit scanner.
LEMMA ScannerSendsKeeps ==
  ASSUME TemplateIInv, ScannerSends PROVE TemplateIInv'
<1>1. /\ step = "enrolled" /\ step' = "download" /\ Sends(DataPacket(enrolled))
      /\ enrolled' = enrolled /\ held' = held /\ row' = row /\ fgp' = fgp
      /\ scratched' = scratched
  BY DEF ScannerSends
<1>2. enrolled \in Seq(Bytes) BY TemplatesAre DEF TemplateIInv, TemplateTypeOK
<1>3. OneByteOff(line', enrolled) /\ line' \in Seq(Bytes) BY <1>1, <1>2, LineIs
<1>4. TemplateTypeOK' BY <1>1, <1>3 DEF TemplateIInv, TemplateTypeOK
<1>5. row = NULL /\ ~scratched BY <1>1 DEF TemplateIInv, RowSteps, TemplateTypeOK
<1>6. HeldIs(enrolled, enrolled, scratched) BY <1>5 DEF HeldIs
<1> QED BY <1>1, <1>3, <1>4, <1>5, <1>6 DEF TemplateIInv, RowSteps

\* It is taken, or the enrollment undone.
LEMMA GetTemplateKeeps ==
  ASSUME TemplateIInv, GetTemplate PROVE TemplateIInv'
<1>1. /\ step = "download" /\ fgp' = GetData(line)
      /\ step' = IF fgp' = NULL THEN "undone" ELSE "upload"
      /\ line' = <<>>
      /\ enrolled' = enrolled /\ held' = held /\ row' = row /\ scratched' = scratched
  BY DEF GetTemplate
<1>2. enrolled \in Seq(Bytes) BY TemplatesAre DEF TemplateIInv, TemplateTypeOK
<1>3. row = NULL /\ scratched = FALSE BY <1>1 DEF TemplateIInv, RowSteps, TemplateTypeOK
<1>4. PICK d : HeldIs(d, enrolled, scratched) /\ OneByteOff(line, d)
  BY <1>1 DEF TemplateIInv
<1>5. d = enrolled BY <1>3, <1>4 DEF HeldIs
<1>6. fgp' = enrolled \/ fgp' = NULL BY <1>1, <1>2, <1>4, <1>5, LineTaken
<1>7. TemplateTypeOK' BY <1>1, <1>2, <1>6 DEF TemplateIInv, TemplateTypeOK
<1>8. fgp' # NULL => ReadIs(fgp', enrolled', scratched') BY <1>1, <1>3, <1>6 DEF ReadIs
<1>9. step' \in {"undone", "upload"} /\ (fgp' = NULL => step' = "undone") BY <1>1
<1>10. /\ step' \notin RowSteps /\ row' = NULL
       /\ step' \in {"upload", "sent", "insert", "reload", "resent"} => fgp' # NULL
       /\ step' \notin {"download", "sent", "resent"}
  BY <1>1, <1>3, <1>9 DEF RowSteps
<1>11. held' # NULL => HeldIs(held', enrolled', scratched') BY <1>1 DEF TemplateIInv
<1> QED BY <1>1, <1>3, <1>7, <1>8, <1>10, <1>11 DEF TemplateIInv

\* What is in the buffer is sent, to enroll it or to restore it.
LEMMA SendTemplateKeeps ==
  ASSUME TemplateIInv, SendTemplate PROVE TemplateIInv'
<1>1. /\ step \in {"upload", "reload"}
      /\ step' = IF step = "upload" THEN "sent" ELSE "resent"
      /\ enrolled' = enrolled /\ held' = held /\ row' = row /\ fgp' = fgp
      /\ scratched' = scratched
  BY DEF SendTemplate
<1>2. enrolled \in Templates /\ enrolled \in Seq(Bytes) /\ scratched \in BOOLEAN
  BY TemplatesAre DEF TemplateIInv, TemplateTypeOK
<1>3. ReadIs(fgp, enrolled, scratched) BY <1>1 DEF TemplateIInv
<1>4. PICK data \in Buffers : Sends(DataPacket(data)) BY DEF SendTemplate
<1>5. PICK b \in Noise :
        data = [i \in 1..Len(enrolled) |-> IF i <= Len(fgp) THEN fgp[i] ELSE b]
  BY <1>4 DEF Buffers, TEMPLATE_DATA_LEN
<1>6. HeldIs(data, enrolled, scratched) BY <1>2, <1>3, <1>5, BufferHeld
<1>7. data \in Seq(Bytes) BY <1>2, <1>6, HeldBytes
<1>8. OneByteOff(line', data) /\ line' \in Seq(Bytes) BY <1>4, <1>7, LineIs
<1>9. step' \in {"sent", "resent"} /\ (step' \in RowSteps <=> step \in RowSteps)
  BY <1>1 DEF RowSteps
<1>10. TemplateTypeOK' BY <1>1, <1>8, <1>9 DEF TemplateIInv, TemplateTypeOK
<1>11. \E d : HeldIs(d, enrolled', scratched') /\ OneByteOff(line', d) BY <1>1, <1>6, <1>8
<1>12. fgp' # NULL BY <1>1 DEF TemplateIInv
<1> QED BY <1>1, <1>9, <1>10, <1>11, <1>12 DEF TemplateIInv

\* The entry scanner takes it, or holds what it held.
LEMMA ScannerTakesKeeps ==
  ASSUME TemplateIInv, ScannerTakes PROVE TemplateIInv'
<1> DEFINE data == GetData(line)
<1>1. /\ step \in {"sent", "resent"} /\ line' = <<>>
      /\ enrolled' = enrolled /\ row' = row /\ fgp' = fgp /\ scratched' = scratched
  BY DEF ScannerTakes
<1>2. held' = held \/ (data # NULL /\ held' = data) BY DEF ScannerTakes
<1>3. step' = IF step = "resent" THEN "stored" ELSE IF data = NULL THEN "undone" ELSE "insert"
  BY DEF ScannerTakes
<1>4. enrolled \in Seq(Bytes) BY TemplatesAre DEF TemplateIInv, TemplateTypeOK
<1>5. PICK d : HeldIs(d, enrolled, scratched) /\ OneByteOff(line, d)
  BY <1>1 DEF TemplateIInv
<1>6. d \in Seq(Bytes) BY <1>4, <1>5, HeldBytes
<1>7. data = d \/ data = NULL BY <1>5, <1>6, LineTaken
<1> HIDE DEF data
<1>8. held' = held \/ held' = d BY <1>2, <1>7
<1>9. held' # NULL => HeldIs(held', enrolled', scratched')
  <2>1. held # NULL => HeldIs(held, enrolled, scratched) BY DEF TemplateIInv
  <2> QED BY <1>1, <1>5, <1>8, <2>1
<1>10. step' \in {"stored", "undone", "insert"} /\ (step' \in RowSteps <=> step \in RowSteps)
  BY <1>1, <1>3 DEF RowSteps
<1>11. TemplateTypeOK' BY <1>1, <1>6, <1>8, <1>10 DEF TemplateIInv, TemplateTypeOK
<1>12. fgp' # NULL BY <1>1 DEF TemplateIInv
<1>13. step' \notin {"download", "sent", "resent"} BY <1>10
<1> QED BY <1>1, <1>9, <1>10, <1>11, <1>12, <1>13 DEF TemplateIInv

\* The buffer is put into the table.
LEMMA InsertFingerprintKeeps ==
  ASSUME TemplateIInv, InsertFingerprint PROVE TemplateIInv'
<1>1. /\ step = "insert" /\ step' = "stored" /\ row' = RowOf(fgp) /\ fgp' = NULL
      /\ enrolled' = enrolled /\ held' = held /\ line' = line /\ scratched' = scratched
  BY DEF InsertFingerprint
<1>2. enrolled \in Seq(Bytes) /\ enrolled # <<>>
  BY TemplatesAre DEF TemplateIInv, TemplateTypeOK
<1>3. scratched = FALSE BY <1>1 DEF TemplateIInv, RowSteps, TemplateTypeOK
<1>4. fgp = enrolled BY <1>1, <1>3 DEF TemplateIInv, ReadIs
<1>5. row' = [data |-> base64(enrolled), checksum |-> Sum(enrolled)]
  BY <1>1, <1>4 DEF RowOf
<1>6. base64(enrolled) \in Seq(Sextets \cup {Pad}) /\ Sum(enrolled) \in Nat
  <2>1. \E g, pad : Encodes(base64(enrolled), enrolled, g, pad) BY <1>2, TextOf
  <2>2. base64(enrolled) \in Seq(Sextets \cup {Pad}) BY <2>1 DEF Encodes
  <2>3. Sum(enrolled) \in Nat BY <1>2, BytesNat, SumNat
  <2> QED BY <2>2, <2>3
<1>7. row' # NULL
  <2>1. row' \in [data : Seq(Sextets \cup {Pad}), checksum : Nat] BY <1>5, <1>6
  <2> QED BY <2>1, TemplateAssumption
<1>8. TemplateTypeOK' BY <1>1, <1>5, <1>6 DEF TemplateIInv, TemplateTypeOK
<1>9. RowIs(row', enrolled', scratched') BY <1>1, <1>3, <1>4 DEF RowIs
<1>10. held' # NULL => HeldIs(held', enrolled', scratched') BY <1>1 DEF TemplateIInv
<1> QED BY <1>1, <1>7, <1>8, <1>9, <1>10 DEF TemplateIInv, RowSteps

\* A character of the row changes.
LEMMA ScratchKeeps ==
  ASSUME TemplateIInv, Scratch PROVE TemplateIInv'
<1>1. /\ step = "stored" /\ scratched = FALSE /\ scratched' = TRUE
      /\ enrolled' = enrolled /\ held' = held /\ fgp' = fgp /\ line' = line /\ step' = step
  BY DEF Scratch, TemplateIInv, TemplateTypeOK
<1>2. enrolled \in Seq(Bytes) /\ enrolled # <<>> /\ enrolled \in Templates
  BY TemplatesAre DEF TemplateIInv, TemplateTypeOK
<1>3. row # NULL BY <1>1 DEF TemplateIInv, RowSteps
<1>4. row = [data |-> base64(enrolled), checksum |-> Sum(enrolled)]
  BY <1>1, <1>3 DEF TemplateIInv, RowIs, RowOf
<1> DEFINE o == base64(enrolled)
<1>5. PICK i \in DOMAIN row.data, c \in Scratches : row' = [row EXCEPT !.data[i] = c]
  BY DEF Scratch
<1>6. i \in DOMAIN o /\ c \in Sextets \cup {Pad} BY <1>4, <1>5, TemplateAssumption
<1>7. row' = [data |-> [o EXCEPT ![i] = c], checksum |-> Sum(enrolled)]
  <2> HIDE DEF o
  <2>1. row = [data |-> o, checksum |-> Sum(enrolled)] BY <1>4 DEF o
  <2> QED BY <1>5, <2>1
<1>8. [o EXCEPT ![i] = c] \in Seq(Sextets \cup {Pad}) /\ Sum(enrolled) \in Nat
  <2>1. \E g, pad : Encodes(o, enrolled, g, pad) BY <1>2, TextOf
  <2>2. o \in Seq(Sextets \cup {Pad}) BY <2>1 DEF Encodes
  <2> HIDE DEF o
  <2>3. [o EXCEPT ![i] = c] \in Seq(Sextets \cup {Pad}) BY <1>6, <2>2
  <2>4. Sum(enrolled) \in Nat BY <1>2, BytesNat, SumNat
  <2> QED BY <2>3, <2>4
<1>9. row' # NULL
  <2>1. row' \in [data : Seq(Sextets \cup {Pad}), checksum : Nat] BY <1>7, <1>8
  <2> QED BY <2>1, TemplateAssumption
<1>10. RowIs(row', enrolled', scratched') BY <1>1, <1>6, <1>7 DEF RowIs
<1>11. TemplateTypeOK'
  <2> HIDE DEF o
  <2> QED BY <1>1, <1>7, <1>8 DEF TemplateIInv, TemplateTypeOK
<1>12. fgp' # NULL => ReadIs(fgp', enrolled', scratched')
  <2>1. fgp # NULL => fgp = enrolled BY <1>1 DEF TemplateIInv, ReadIs
  <2>2. Reads(enrolled, enrolled) BY <1>2 DEF Reads
  <2> QED BY <1>1, <2>1, <2>2 DEF ReadIs
<1>13. held' # NULL => HeldIs(held', enrolled', scratched')
  <2>1. held # NULL => held = enrolled BY <1>1 DEF TemplateIInv, HeldIs
  <2>2. Resembles(enrolled, enrolled) BY <1>2 DEF Resembles
  <2> QED BY <1>1, <2>1, <2>2 DEF HeldIs
<1> QED BY <1>1, <1>9, <1>10, <1>11, <1>12, <1>13 DEF TemplateIInv, RowSteps

\* The row is read for the scanner to hold it again.
LEMMA ReloadRowKeeps ==
  ASSUME TemplateIInv, ReloadRow PROVE TemplateIInv'
<1> DEFINE t == db_get_fingerprint(row)
<1>1. /\ step = "stored" /\ held' = NULL /\ fgp' = t
      /\ step' = IF fgp' = NULL THEN "stored" ELSE "reload"
      /\ enrolled' = enrolled /\ row' = row /\ line' = line /\ scratched' = scratched
  BY DEF ReloadRow
<1>2. enrolled \in Templates /\ enrolled \in Seq(Bytes) /\ scratched \in BOOLEAN
  BY TemplatesAre DEF TemplateIInv, TemplateTypeOK
<1>3. row # NULL BY <1>1 DEF TemplateIInv, RowSteps
<1>4. RowIs(row, enrolled, scratched) BY <1>3 DEF TemplateIInv
<1>5. t # NULL => ReadIs(t, enrolled, scratched) BY <1>2, <1>4, RowRead
<1> HIDE DEF t
<1>6. t # NULL => t \in Seq(Bytes) BY <1>2, <1>5 DEF ReadIs, Reads
<1>7. step' \in {"stored", "reload"} /\ (step' = "reload" => fgp' # NULL) BY <1>1
<1>8. /\ step' \in RowSteps /\ step' \notin {"download", "sent", "resent"}
      /\ step' \in {"upload", "sent", "insert", "reload", "resent"} => fgp' # NULL
  BY <1>7 DEF RowSteps
<1>9. TemplateTypeOK' BY <1>1, <1>6, <1>7 DEF TemplateIInv, TemplateTypeOK
<1> QED BY <1>1, <1>3, <1>4, <1>5, <1>8, <1>9 DEF TemplateIInv

\* Another try.
LEMMA EnrollAgainKeeps ==
  ASSUME TemplateIInv, EnrollAgain PROVE TemplateIInv'
<1>1. /\ step = "undone" /\ step' = "enrolled" /\ enrolled' \in Templates
      /\ held' = NULL /\ fgp' = NULL /\ row' = row /\ line' = line /\ scratched' = scratched
  BY DEF EnrollAgain
<1>2. row = NULL /\ scratched = FALSE BY <1>1 DEF TemplateIInv, RowSteps, TemplateTypeOK
<1>3. TemplateTypeOK' BY <1>1, <1>2 DEF TemplateIInv, TemplateTypeOK
<1> QED BY <1>1, <1>2, <1>3 DEF TemplateIInv, RowSteps

\* The invariant holds in every state.
THEOREM TemplateInvariant == TemplateSpec => []TemplateIInv
<1>1. TemplateInit => TemplateIInv BY TemplateInitially
<1>2. TemplateIInv /\ [TemplateNext]_templateVars => TemplateIInv'
  <2> SUFFICES ASSUME TemplateIInv, [TemplateNext]_templateVars PROVE TemplateIInv'
    OBVIOUS
  <2>1. CASE ScannerSends BY <2>1, ScannerSendsKeeps
  <2>2. CASE GetTemplate BY <2>2, GetTemplateKeeps
  <2>3. CASE SendTemplate BY <2>3, SendTemplateKeeps
  <2>4. CASE ScannerTakes BY <2>4, ScannerTakesKeeps
  <2>5. CASE InsertFingerprint BY <2>5, InsertFingerprintKeeps
  <2>6. CASE Scratch BY <2>6, ScratchKeeps
  <2>7. CASE ReloadRow BY <2>7, ReloadRowKeeps
  <2>8. CASE EnrollAgain BY <2>8, EnrollAgainKeeps
  <2>9. CASE UNCHANGED templateVars
    BY <2>9 DEF templateVars, TemplateIInv, TemplateTypeOK
  <2> QED BY <2>1, <2>2, <2>3, <2>4, <2>5, <2>6, <2>7, <2>8, <2>9 DEF TemplateNext
<1> QED BY <1>1, <1>2, PTL DEF TemplateSpec

\* What is in the database is what was enrolled, in base64 and with its sum.
THEOREM TemplatesStored == TemplateSpec => []TemplateInv
<1>1. TemplateIInv => TemplateInv
  <2> SUFFICES ASSUME TemplateIInv PROVE TemplateInv
    OBVIOUS
  <2>1. enrolled \in Seq(Bytes) /\ enrolled # <<>>
    BY TemplatesAre DEF TemplateIInv, TemplateTypeOK
  <2>2. row # NULL /\ ~scratched
          => IsBase64(row.data, enrolled) /\ row.checksum = Sum(enrolled)
    <3>1. HAVE row # NULL /\ ~scratched
    <3>2. row = [data |-> base64(enrolled), checksum |-> Sum(enrolled)]
      BY <3>1 DEF TemplateIInv, RowIs, RowOf
    <3>3. row.data = base64(enrolled) /\ row.checksum = Sum(enrolled) BY <3>2
    <3> QED BY <2>1, <3>3, Base64IsBase64
  <2>3. StoredIsEnrolled BY <2>2 DEF StoredIsEnrolled
  <2> QED BY <2>3 DEF TemplateIInv, TemplateInv
<1> QED BY <1>1, TemplateInvariant, PTL

\* What the entry scanner holds is what was enrolled, but for a zero at the end of a
\* template whose row has been changed.
THEOREM HeldEnrolled == TemplateSpec => []HeldIsEnrolled
<1>1. TemplateIInv => HeldIsEnrolled
  <2> SUFFICES ASSUME TemplateIInv, held # NULL
               PROVE  /\ Len(held) = Len(enrolled)
                      /\ \A i \in DOMAIN held :
                           \/ held[i] = enrolled[i]
                           \/ scratched /\ i = Len(held) /\ enrolled[i] = 0
    BY DEF HeldIsEnrolled
  <2>1. enrolled \in Seq(Bytes) BY TemplatesAre DEF TemplateIInv, TemplateTypeOK
  <2>2. HeldIs(held, enrolled, scratched) BY DEF TemplateIInv
  <2>3. /\ held \in Seq(Bytes) /\ Len(held) = Len(enrolled)
        /\ \A i \in 1..Len(enrolled) :
             held[i] = enrolled[i] \/ (scratched /\ i = Len(enrolled) /\ enrolled[i] = 0)
    BY <2>1, <2>2, HeldBytes
  <2>4. DOMAIN held = 1..Len(enrolled) BY <2>3
  <2> QED BY <2>3, <2>4
<1> QED BY <1>1, TemplateInvariant, PTL
=============================================================================
