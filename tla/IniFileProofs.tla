----------------------------- MODULE IniFileProofs -----------------------------
(***************************************************************************)
(* Proofs about IniFile and Dictionary, for files of any length over any   *)
(* keys and values, a dictionary of any first size, and any number of      *)
(* edits and restarts.                                                     *)
(***************************************************************************)
EXTENDS IniFile, FiniteSetTheorems, WellFoundedInduction, TLAPS
-----------------------------------------------------------------------------
(***************************************************************************)
(* Least numbers.                                                          *)
(***************************************************************************)
\* What is minimal in a well-founded relation on the natural numbers...
LEMMA MinimalNumber ==
  ASSUME NEW R, IsWellFoundedOn(R, Nat), NEW S \in SUBSET Nat, S # {}
  PROVE  \E x \in S : \A y \in S : ~(<<y, x>> \in R)
<1>1. S \subseteq Nat OBVIOUS
<1> QED BY <1>1, WFMin

\* ... is least when the relation holds of every smaller and larger number.
LEMMA MinimalIsLeast ==
  ASSUME NEW R, \A a, b \in Nat : a < b => <<a, b>> \in R,
         NEW S \in SUBSET Nat,
         \E x \in S : \A y \in S : ~(<<y, x>> \in R)
  PROVE  \E x \in S : \A y \in S : x <= y
<1>1. PICK x \in S : \A y \in S : ~(<<y, x>> \in R) OBVIOUS
<1>2. ASSUME NEW y \in S PROVE x <= y
  <2>1. x \in Nat /\ y \in Nat OBVIOUS
  <2>2. y < x => <<y, x>> \in R BY <2>1
  <2>3. ~(<<y, x>> \in R) BY <1>1, Zenon
  <2> QED BY <2>1, <2>2, <2>3
<1> QED BY <1>1, <1>2

\* The order of the natural numbers as a set of pairs.
LEMMA LessThanPairs == \A a, b \in Nat : a < b => <<a, b>> \in OpToRel(<, Nat)
BY DEF OpToRel

\* A set of natural numbers that is not empty has a least element.
LEMMA LeastNumber ==
  ASSUME NEW S \in SUBSET Nat, S # {}
  PROVE  \E x \in S : \A y \in S : x <= y
BY MinimalNumber, MinimalIsLeast, LessThanPairs, NatLessThanWellFounded
-----------------------------------------------------------------------------
(***************************************************************************)
(* The dictionary.                                                         *)
(***************************************************************************)
DictInv == DictTypeOK /\ SlotsInOrder

\* The arrays have slots.
LEMMA Sizes == DICTMINSZ \in Nat \ {0} /\ NULL \in Vals
BY DictionaryAssumption

\* Hole and Missing are no keys and no values.
LEMMA Apart == Hole \notin Keys /\ Hole \notin Vals /\ Missing \notin Vals
BY DictionaryAssumption

\* The first of some slots is one of them.
LEMMA FirstOfIs ==
  ASSUME NEW S \in SUBSET Nat, S # {}
  PROVE  FirstOf(S) \in S
BY LeastNumber DEF FirstOf

\* A lookup that finds a key returns the value beside it.
LEMMA GetIs ==
  ASSUME DictInv, NEW k \in Keys
  PROVE  /\ \A i \in Slots : key[i] = k => Get(k) = val[i] /\ FirstOf(Find(k)) = i
         /\ (\A i \in Slots : key[i] # k) => Get(k) = Missing /\ Find(k) = {}
<1>1. ASSUME NEW i \in Slots, key[i] = k PROVE Get(k) = val[i] /\ FirstOf(Find(k)) = i
  <2>1. \A j \in Find(k) : j = i BY <1>1, Apart DEF DictInv, SlotsInOrder, Find
  <2>2. i \in Find(k) BY <1>1 DEF Find
  <2>3. Find(k) \in SUBSET Nat BY DEF Find, Slots, DictInv, DictTypeOK
  <2>4. FirstOf(Find(k)) = i BY <2>1, <2>2, <2>3, FirstOfIs
  <2> QED BY <2>2, <2>4 DEF Get
<1>2. ASSUME \A i \in Slots : key[i] # k PROVE Get(k) = Missing /\ Find(k) = {}
  <2>1. Find(k) = {} BY <1>2 DEF Find
  <2> QED BY <2>1 DEF Get
<1> QED BY <1>1, <1>2

\* A value is found, or Missing.
LEMMA GetType ==
  ASSUME DictInv, NEW k \in Keys
  PROVE  Get(k) \in Vals \cup {Missing}
<1>1. CASE \E i \in Slots : key[i] = k
  <2>1. PICK i \in Slots : key[i] = k BY <1>1
  <2>2. val[i] # Hole BY <2>1, Apart DEF DictInv, SlotsInOrder
  <2>3. val[i] \in Vals BY <2>1, <2>2 DEF DictInv, DictTypeOK
  <2> QED BY <2>1, <2>3, GetIs
<1>2. CASE \A i \in Slots : key[i] # k BY <1>2, GetIs
<1> QED BY <1>1, <1>2

\* The slots are as many as the size, and those of the keys no more.
LEMMA SlotsFinite ==
  ASSUME DictInv
  PROVE  /\ IsFiniteSet(Slots) /\ Cardinality(Slots) = size
         /\ IsFiniteSet({i \in Slots : key[i] # Hole})
<1>1. IsFiniteSet(Slots) /\ Cardinality(Slots) = size
  BY FS_Interval DEF Slots, DictInv, DictTypeOK
<1>2. {i \in Slots : key[i] # Hole} \in SUBSET Slots OBVIOUS
<1> QED BY <1>1, <1>2, FS_Subset

\* While n is below the size there is a hole: the search for one ends.
LEMMA HoleLeft ==
  ASSUME DictInv, n # size
  PROVE  \E i \in Slots : key[i] = Hole
<1> SUFFICES ASSUME \A i \in Slots : key[i] # Hole PROVE FALSE OBVIOUS
<1>1. {i \in Slots : key[i] # Hole} = Slots OBVIOUS
<1> QED BY <1>1, SlotsFinite DEF DictInv, SlotsInOrder

\* The search for a hole ends in one.
LEMMA FirstHoleIs ==
  ASSUME NEW a, NEW m \in Nat, n \in 0..m, \E i \in 0..(m - 1) : a[i] = Hole
  PROVE  FirstHole(a, m) \in 0..(m - 1) /\ a[FirstHole(a, m)] = Hole
<1> DEFINE holes == {i \in 0..(m - 1) : a[i] = Hole}
           S == {Steps(i, m) : i \in holes}
<1>1. S \in SUBSET Nat /\ S # {} BY DEF Steps
<1>2. PICK x \in S : \A y \in S : x <= y BY <1>1, LeastNumber
<1>3. PICK i \in holes : x = Steps(i, m) OBVIOUS
<1>4. \A j \in 0..(m - 1) : a[j] = Hole => Steps(i, m) <= Steps(j, m)
  BY <1>2, <1>3
<1>5. i \in 0..(m - 1) /\ a[i] = Hole BY <1>3
<1> QED BY <1>4, <1>5 DEF FirstHole

\* So it does after a step.
LEMMA GetIsNext ==
  ASSUME DictInv', NEW k \in Keys
  PROVE  /\ \A i \in Slots' : key'[i] = k => Get(k)' = val'[i]
         /\ (\A i \in Slots' : key'[i] # k) => Get(k)' = Missing
<1>1. ASSUME NEW i \in Slots', key'[i] = k PROVE Get(k)' = val'[i]
  <2>1. \A j \in Find(k)' : j = i BY <1>1, Apart DEF DictInv, SlotsInOrder, Find
  <2>2. i \in Find(k)' BY <1>1 DEF Find
  <2>3. Find(k)' \in SUBSET Nat BY DEF Find, Slots, DictInv, DictTypeOK
  <2>4. FirstOf(Find(k)') = i BY <2>1, <2>2, <2>3, FirstOfIs
  <2> QED BY <2>2, <2>4 DEF Get
<1>2. ASSUME \A i \in Slots' : key'[i] # k PROVE Get(k)' = Missing
  <2>1. Find(k)' = {} BY <1>2 DEF Find
  <2> QED BY <2>1 DEF Get
<1> QED BY <1>1, <1>2

\* A value that replaces another is found, and nothing else changes.
LEMMA ReplaceStep ==
  ASSUME DictInv, NEW k \in Keys, NEW v \in Vals, Replace(k, v)
  PROVE  DictInv' /\ \A j \in Keys : Get(j)' = IF j = k THEN v ELSE Get(j)
<1>1. PICK i \in Slots : key[i] = k BY DEF Replace, Find
<1>2. /\ val' = [val EXCEPT ![i] = v] /\ UNCHANGED <<key, n, size>>
  BY <1>1, GetIs DEF Replace
<1>3. \A s \in Slots : val'[s] = IF s = i THEN v ELSE val[s]
  BY <1>2 DEF DictInv, DictTypeOK
<1>4. Slots' = Slots BY <1>2 DEF Slots
<1>5. DictInv'
  <2>1. DictTypeOK' BY <1>1, <1>2, <1>3, <1>4 DEF DictInv, DictTypeOK
  <2>2. \A s \in Slots : key[s] = Hole <=> val'[s] = Hole
    BY <1>1, <1>3, Apart DEF DictInv, SlotsInOrder
  <2>3. {s \in Slots : key[s] # Hole}' = {s \in Slots : key[s] # Hole} BY <1>2, <1>4
  <2>4. SlotsInOrder' BY <1>2, <1>4, <2>2, <2>3 DEF DictInv, SlotsInOrder
  <2> QED BY <2>1, <2>4 DEF DictInv
<1>6. ASSUME NEW j \in Keys PROVE Get(j)' = IF j = k THEN v ELSE Get(j)
  <2>1. Find(j)' = Find(j) BY <1>2, <1>4 DEF Find
  <2>2. CASE j = k
    <3>1. Find(j) # {} /\ FirstOf(Find(j)) = i BY <1>1, <2>2, GetIs DEF Find
    <3> QED BY <1>3, <2>1, <2>2, <3>1 DEF Get
  <2>3. CASE j # k /\ Find(j) # {}
    <3>1. PICK s \in Slots : key[s] = j BY <2>3 DEF Find
    <3>2. FirstOf(Find(j)) = s /\ s # i BY <1>1, <2>3, <3>1, GetIs
    <3> QED BY <1>3, <2>1, <2>3, <3>2 DEF Get
  <2>4. CASE j # k /\ Find(j) = {} BY <2>1, <2>4 DEF Get
  <2> QED BY <2>2, <2>3, <2>4
<1> QED BY <1>5, <1>6

\* The arrays a new key goes into are the old ones, with holes behind them if they were full.
LEMMA Grown ==
  ASSUME DictInv, NEW keys, NEW vals, NEW m,
         keys = IF n = size THEN Doubled(key) ELSE key,
         vals = IF n = size THEN Doubled(val) ELSE val,
         m = IF n = size THEN 2 * size ELSE size
  PROVE  /\ m \in Nat /\ size <= m /\ n < m
         /\ keys \in [0..(m - 1) -> Keys \cup {Hole}]
         /\ vals \in [0..(m - 1) -> Vals \cup {Hole}]
         /\ \A i \in 0..(m - 1) : /\ keys[i] = IF i \in Slots THEN key[i] ELSE Hole
                                  /\ vals[i] = IF i \in Slots THEN val[i] ELSE Hole
         /\ Slots \subseteq 0..(m - 1)
         /\ \E i \in 0..(m - 1) : keys[i] = Hole
<1>1. /\ size \in Nat \ {0} /\ n \in 0..size
      /\ key \in [Slots -> Keys \cup {Hole}] /\ val \in [Slots -> Vals \cup {Hole}]
  BY DEF DictInv, DictTypeOK
<1>2. CASE n = size
  <2>1. m = 2 * size /\ keys = Doubled(key) /\ vals = Doubled(val) BY <1>2
  <2>2. m \in Nat /\ size < m /\ Slots \subseteq 0..(m - 1) BY <1>1, <2>1 DEF Slots
  <2>3. \A i \in 0..(m - 1) : /\ keys[i] = IF i \in Slots THEN key[i] ELSE Hole
                              /\ vals[i] = IF i \in Slots THEN val[i] ELSE Hole
    BY <2>1 DEF Doubled
  <2>4. /\ keys \in [0..(m - 1) -> Keys \cup {Hole}]
        /\ vals \in [0..(m - 1) -> Vals \cup {Hole}]
    BY <1>1, <2>1 DEF Doubled
  <2>5. size \in 0..(m - 1) /\ size \notin Slots BY <1>1, <2>1 DEF Slots
  <2>6. keys[size] = Hole BY <2>3, <2>5
  <2> QED BY <1>1, <1>2, <2>2, <2>3, <2>4, <2>5, <2>6
<1>3. CASE n # size
  <2>1. m = size /\ keys = key /\ vals = val BY <1>3
  <2>2. Slots = 0..(m - 1) BY <2>1 DEF Slots
  <2>3. \E i \in 0..(m - 1) : keys[i] = Hole BY <1>3, <2>1, <2>2, HoleLeft
  <2> QED BY <1>1, <1>3, <2>1, <2>2, <2>3
<1> QED BY <1>2, <1>3

\* A new key goes into a hole and is found there, and nothing else changes.
LEMMA AddStep ==
  ASSUME DictInv, NEW k \in Keys, NEW v \in Vals, Add(k, v)
  PROVE  DictInv' /\ \A j \in Keys : Get(j)' = IF j = k THEN v ELSE Get(j)
<1> DEFINE keys == IF n = size THEN Doubled(key) ELSE key
           vals == IF n = size THEN Doubled(val) ELSE val
           m == IF n = size THEN 2 * size ELSE size
           h == FirstHole(keys, m)
<1>1. /\ Find(k) = {} /\ key' = [keys EXCEPT ![h] = k] /\ val' = [vals EXCEPT ![h] = v]
      /\ size' = m /\ n' = n + 1
  BY DEF Add
<1>2. /\ m \in Nat /\ size <= m /\ n < m
      /\ keys \in [0..(m - 1) -> Keys \cup {Hole}]
      /\ vals \in [0..(m - 1) -> Vals \cup {Hole}]
      /\ \A i \in 0..(m - 1) : /\ keys[i] = IF i \in Slots THEN key[i] ELSE Hole
                               /\ vals[i] = IF i \in Slots THEN val[i] ELSE Hole
      /\ Slots \subseteq 0..(m - 1)
      /\ \E i \in 0..(m - 1) : keys[i] = Hole
  BY Grown
<1> HIDE DEF keys, vals, m
<1>3. n \in Nat BY DEF DictInv, DictTypeOK
<1>4. h \in 0..(m - 1) /\ keys[h] = Hole
  <2>1. n \in 0..m BY <1>2, <1>3
  <2> QED BY <1>2, <2>1, FirstHoleIs
<1> HIDE DEF h
<1>5. Slots' = 0..(m - 1) BY <1>1 DEF Slots
<1>6. \A i \in Slots' :
        /\ key'[i] = IF i = h THEN k ELSE IF i \in Slots THEN key[i] ELSE Hole
        /\ val'[i] = IF i = h THEN v ELSE IF i \in Slots THEN val[i] ELSE Hole
  BY <1>1, <1>2, <1>4, <1>5
<1>7. (h \in Slots => key[h] = Hole) /\ \A i \in Slots : key[i] # k
  BY <1>1, <1>2, <1>4 DEF Find
<1>8. DictTypeOK'
  <2>1. key' \in [Slots' -> Keys \cup {Hole}] /\ val' \in [Slots' -> Vals \cup {Hole}]
    BY <1>1, <1>2, <1>5
  <2>2. size' \in Nat \ {0} /\ n' \in 0..size' BY <1>1, <1>2, <1>3
  <2> QED BY <2>1, <2>2 DEF DictTypeOK
<1>9. SlotsInOrder'
  <2>1. \A i, j \in Slots' : key'[i] = key'[j] /\ key'[i] # Hole => i = j
    BY <1>6, <1>7, Apart DEF DictInv, SlotsInOrder
  <2>2. \A i \in Slots' : key'[i] = Hole <=> val'[i] = Hole
    BY <1>6, <1>7, Apart DEF DictInv, SlotsInOrder
  <2>3. n' = Cardinality({i \in Slots' : key'[i] # Hole})
    <3> DEFINE full == {i \in Slots : key[i] # Hole}
    <3>1. IsFiniteSet(full) /\ n = Cardinality(full)
      BY SlotsFinite DEF DictInv, SlotsInOrder
    <3>2. {i \in Slots' : key'[i] # Hole} = full \cup {h} /\ h \notin full
      BY <1>2, <1>4, <1>5, <1>6, <1>7, Apart
    <3> HIDE DEF full
    <3>3. Cardinality(full \cup {h}) = n + 1 BY <3>1, <3>2, FS_AddElement
    <3> QED BY <1>1, <3>2, <3>3
  <2> QED BY <2>1, <2>2, <2>3 DEF SlotsInOrder
<1>10. DictInv' BY <1>8, <1>9 DEF DictInv
<1>11. ASSUME NEW j \in Keys PROVE Get(j)' = IF j = k THEN v ELSE Get(j)
  <2>1. \A i \in Slots' : key'[i] = j => Get(j)' = val'[i] BY <1>10, GetIsNext
  <2>2. (\A i \in Slots' : key'[i] # j) => Get(j)' = Missing BY <1>10, GetIsNext
  <2>3. CASE j = k BY <1>4, <1>5, <1>6, <2>1, <2>3
  <2>4. CASE j # k /\ \E i \in Slots : key[i] = j
    <3>1. PICK i \in Slots : key[i] = j BY <2>4
    <3>2. Get(j) = val[i] BY <3>1, GetIs
    <3>3. i \in Slots' /\ i # h BY <1>2, <1>5, <1>7, <3>1, Apart
    <3>4. key'[i] = j /\ val'[i] = val[i] BY <1>6, <3>1, <3>3
    <3> QED BY <2>1, <2>4, <3>2, <3>3, <3>4
  <2>5. CASE j # k /\ \A i \in Slots : key[i] # j
    <3>1. \A i \in Slots' : key'[i] # j BY <1>6, <2>5, Apart
    <3>2. Get(j) = Missing BY <2>5, GetIs
    <3> QED BY <2>2, <2>5, <3>1, <3>2
  <2> QED BY <2>3, <2>4, <2>5
<1> QED BY <1>10, <1>11

\* dictionary_set: the value is found, and nothing else changes.
LEMMA SetStep ==
  ASSUME DictInv, NEW k \in Keys, NEW v \in Vals, Set(k, v)
  PROVE  DictInv' /\ \A j \in Keys : Get(j)' = IF j = k THEN v ELSE Get(j)
BY ReplaceStep, AddStep DEF Set

\* dictionary_unset: the key is not found any more, and nothing else changes.
LEMMA UnsetStep ==
  ASSUME DictInv, NEW k \in Keys, Unset(k)
  PROVE  DictInv' /\ \A j \in Keys : Get(j)' = IF j = k THEN Missing ELSE Get(j)
<1>1. CASE Find(k) = {}
  <2>1. UNCHANGED dictVars BY <1>1 DEF Unset
  <2>2. DictInv' BY <2>1 DEF dictVars, DictInv, DictTypeOK, SlotsInOrder, Slots
  <2>3. \A j \in Keys : Get(j)' = Get(j) BY <2>1 DEF dictVars, Get, Find, Slots
  <2>4. Get(k) = Missing BY <1>1 DEF Get
  <2> QED BY <2>2, <2>3, <2>4
<1>2. CASE Find(k) # {}
  <2>1. PICK i \in Slots : key[i] = k BY <1>2 DEF Find
  <2>2. /\ key' = [key EXCEPT ![i] = Hole] /\ val' = [val EXCEPT ![i] = Hole]
        /\ n' = n - 1 /\ size' = size
    BY <1>2, <2>1, GetIs DEF Unset
  <2>3. Slots' = Slots BY <2>2 DEF Slots
  <2>4. \A s \in Slots : /\ key'[s] = IF s = i THEN Hole ELSE key[s]
                         /\ val'[s] = IF s = i THEN Hole ELSE val[s]
    BY <2>2 DEF DictInv, DictTypeOK
  <2>5. SlotsInOrder'
    <3>1. \A s, t \in Slots : key'[s] = key'[t] /\ key'[s] # Hole => s = t
      BY <2>4 DEF DictInv, SlotsInOrder
    <3>2. \A s \in Slots : key'[s] = Hole <=> val'[s] = Hole
      BY <2>4 DEF DictInv, SlotsInOrder
    <3>3. n' = Cardinality({s \in Slots : key'[s] # Hole})
      <4> DEFINE full == {s \in Slots : key[s] # Hole}
      <4>1. IsFiniteSet(full) /\ n = Cardinality(full)
        BY SlotsFinite DEF DictInv, SlotsInOrder
      <4>2. {s \in Slots : key'[s] # Hole} = full \ {i} /\ i \in full BY <2>1, <2>4, Apart
      <4> HIDE DEF full
      <4>3. Cardinality(full \ {i}) = n - 1 BY <4>1, <4>2, FS_RemoveElement
      <4> QED BY <2>2, <4>2, <4>3
    <3> QED BY <2>3, <3>1, <3>2, <3>3 DEF SlotsInOrder
  <2>6. DictTypeOK'
    <3>1. key' \in [Slots -> Keys \cup {Hole}] /\ val' \in [Slots -> Vals \cup {Hole}]
      BY <2>2 DEF DictInv, DictTypeOK
    <3>2. n # 0
      <4> DEFINE full == {s \in Slots : key[s] # Hole}
      <4>1. i \in full BY <2>1, Apart
      <4> HIDE DEF full
      <4>2. full # {} BY <4>1
      <4> QED BY <4>2, SlotsFinite, FS_EmptySet DEF DictInv, SlotsInOrder, full
    <3>3. n' \in 0..size' BY <2>2, <3>2 DEF DictInv, DictTypeOK
    <3> QED BY <2>2, <2>3, <3>1, <3>3 DEF DictInv, DictTypeOK
  <2>7. DictInv' BY <2>5, <2>6 DEF DictInv
  <2>8. ASSUME NEW j \in Keys PROVE Get(j)' = IF j = k THEN Missing ELSE Get(j)
    <3>1. \A s \in Slots' : key'[s] = j => Get(j)' = val'[s] BY <2>7, GetIsNext
    <3>2. (\A s \in Slots' : key'[s] # j) => Get(j)' = Missing BY <2>7, GetIsNext
    <3>3. CASE j = k
      <4>1. \A s \in Slots' : key'[s] # j
        BY <2>1, <2>3, <2>4, <3>3, Apart DEF DictInv, SlotsInOrder
      <4> QED BY <3>2, <3>3, <4>1
    <3>4. CASE j # k /\ \E s \in Slots : key[s] = j
      <4>1. PICK s \in Slots : key[s] = j BY <3>4
      <4>2. Get(j) = val[s] /\ s # i BY <2>1, <3>4, <4>1, GetIs
      <4>3. key'[s] = j /\ val'[s] = val[s] BY <2>4, <4>1, <4>2
      <4> QED BY <2>3, <3>1, <3>4, <4>1, <4>2, <4>3
    <3>5. CASE j # k /\ \A s \in Slots : key[s] # j
      <4>1. \A s \in Slots' : key'[s] # j BY <2>3, <2>4, <3>5, Apart
      <4>2. Get(j) = Missing BY <3>5, GetIs
      <4> QED BY <3>2, <3>5, <4>1, <4>2
    <3> QED BY <3>3, <3>4, <3>5
  <2> QED BY <2>7, <2>8
<1> QED BY <1>1, <1>2

\* An empty dictionary is in order, and nothing is found in it.
LEMMA EmptyDict ==
  ASSUME size = DICTMINSZ, n = 0,
         key = [i \in 0..(DICTMINSZ - 1) |-> Hole],
         val = [i \in 0..(DICTMINSZ - 1) |-> Hole]
  PROVE  DictInv /\ \A j \in Keys : Get(j) = Missing
<1>1. Slots = 0..(DICTMINSZ - 1) BY DEF Slots
<1>2. DictTypeOK BY <1>1, Sizes DEF DictTypeOK
<1>3. \A i \in Slots : key[i] = Hole /\ val[i] = Hole BY <1>1
<1>4. {i \in Slots : key[i] # Hole} = {} BY <1>3
<1>5. SlotsInOrder BY <1>3, <1>4, FS_EmptySet DEF SlotsInOrder
<1>6. DictInv BY <1>2, <1>5 DEF DictInv
<1>7. \A j \in Keys : Get(j) = Missing BY <1>3, <1>6, Apart, GetIs
<1> QED BY <1>6, <1>7

\* dictionary_del leaves one like that.
LEMMA DeleteStep ==
  ASSUME Delete
  PROVE  DictInv' /\ \A j \in Keys : Get(j)' = Missing
<1>1. (/\ size = DICTMINSZ /\ n = 0
       /\ key = [i \in 0..(DICTMINSZ - 1) |-> Hole]
       /\ val = [i \in 0..(DICTMINSZ - 1) |-> Hole])'
  BY DEF Delete
<1>2. Slots' = 0..(DICTMINSZ - 1) BY <1>1 DEF Slots
<1>3. DictTypeOK' BY <1>1, <1>2, Sizes DEF DictTypeOK
<1>4. \A i \in Slots' : key'[i] = Hole /\ val'[i] = Hole BY <1>1, <1>2
<1>5. {i \in Slots' : key'[i] # Hole} = {} BY <1>4
<1>6. SlotsInOrder' BY <1>1, <1>4, <1>5, FS_EmptySet DEF SlotsInOrder
<1>7. DictInv' BY <1>3, <1>6 DEF DictInv
<1>8. \A j \in Keys : Get(j)' = Missing BY <1>4, <1>7, Apart, GetIsNext
<1> QED BY <1>7, <1>8

\* Nothing changes for a lookup where the arrays do not.
LEMMA SameDict ==
  ASSUME DictInv, UNCHANGED dictVars
  PROVE  DictInv' /\ \A j \in Keys : Get(j)' = Get(j)
BY DEF dictVars, DictInv, DictTypeOK, SlotsInOrder, Slots, Get, Find
-----------------------------------------------------------------------------
(***************************************************************************)
(* What is read so far, and what it says.                                  *)
(***************************************************************************)
\* The lines that have said something by line p.
EndsTo(p) == {j \in Ends : j <= p}

\* What they say of the key k.
SaysTo(p, k) ==
  LET lines == {j \in EndsTo(p) : Names(j, k)}
      l == Written(file, Max(lines))
  IN IF lines = {} THEN Missing ELSE IF l.kind = "section" THEN NULL ELSE l.val

\* The section the next line is in.
SectionTo(p) ==
  LET before == {i \in EndsTo(p) : Written(file, i).kind = "section"}
  IN IF before = {} THEN NoSection ELSE Written(file, Max(before)).name

\* The last of them that is not a comment is no error.
SoundTo(p) ==
  \A j \in EndsTo(p) : Written(file, j).kind = "error" =>
    \E i \in EndsTo(p) : i > j /\ Written(file, i).kind \in {"section", "value"}

\* What part holds began in line s and has not ended, or s is the next line.
Began(s) ==
  /\ s > 1 => ~file[s - 1].cont
  /\ \A h \in s..pos : file[h].cont
  /\ part = Joined(file, s, pos)

\* Nothing is being read.
Idle == file = <<>> /\ pos = 0 /\ section = NoSection /\ part = Nothing /\ errs = 0

\* What has been read is what the dictionary says, and part what goes on.
ReadSoFar ==
  /\ \A i \in 1..pos : file[i].eol \/ Lost(file, i)
  /\ \E s \in 1..(pos + 1) : Began(s)
  /\ section = SectionTo(pos)
  /\ \A k \in Keys : Get(k) = SaysTo(pos, k)
  /\ errs <= pos /\ (errs = 0 => SoundTo(pos))

\* The inductive invariant.
IInv ==
  /\ TypeOK /\ SlotsInOrder
  /\ phase # "loaded" => edits = 0
  /\ phase \notin {"reading", "loaded"} => Idle
  /\ phase \in {"off", "running", "exited"} => \A k \in Keys : Get(k) = Missing
  /\ phase = "reading" => ReadSoFar
  /\ phase = "loaded" => /\ edits = 0 => ReadSoFar /\ pos = Len(file)
                         /\ edits # 0 => Idle
                         /\ errs = 0
-----------------------------------------------------------------------------
(***************************************************************************)
(* The lines of a file.                                                    *)
(***************************************************************************)
\* What the assumption says of the file that is read.
LEMMA FileIs ==
  ASSUME file \in Files \cup {<<>>}
  PROVE  /\ file \in Seq(Line) /\ Len(file) \in Nat /\ DOMAIN file = 1..Len(file)
         /\ \A i \in DOMAIN file :
              /\ file[i] \in Line /\ file[i].text \in Text
              /\ file[i].single => ~file[i].eol /\ ~file[i].cont
<1>1. CASE file = <<>> BY <1>1
<1>2. CASE file \in Files
  <2>1. file \in Seq(Line) BY <1>2, IniFileAssumption
  <2>2. Len(file) \in Nat /\ DOMAIN file = 1..Len(file) BY <2>1
  <2>3. \A i \in DOMAIN file : file[i] \in Line /\ file[i].text \in Text
    <3>1. \A i \in DOMAIN file : file[i] \in Line BY <2>1, <2>2
    <3>2. \A l \in Line : l.text \in Text BY DEF Line
    <3> QED BY <3>1, <3>2
  <2>4. \A i \in DOMAIN file : file[i].single => ~file[i].eol /\ ~file[i].cont
    BY <1>2, IniFileAssumption
  <2> QED BY <2>1, <2>2, <2>3, <2>4
<1> QED BY <1>1, <1>2

\* And of what is found in lines that are joined.
LEMMA FoundIs ==
  ASSUME file \in Files \cup {<<>>}, NEW i \in DOMAIN file, NEW j \in i..Len(file),
         NEW l, l = Found(Joined(file, i, j))
  PROVE  /\ l.kind \in {"section", "value", "comment", "error"} /\ l.val \in Vals
         /\ l.kind = "section" => <<l.name, NoKey>> \in Keys /\ l.name \in SectionsOf(file)
         /\ l.kind = "value" => \A s \in SectionsOf(file) : <<s, l.name>> \in Keys
<1>1. file \in Files
  <2>1. file # <<>>
    <3> SUFFICES ASSUME file = <<>> PROVE FALSE OBVIOUS
    <3>1. DOMAIN file = {} OBVIOUS
    <3> QED BY <3>1
  <2> QED BY <2>1
<1>2. /\ l \in Parsed
      /\ l.kind = "section" => <<l.name, NoKey>> \in Keys
      /\ l.kind = "value" => \A s \in SectionsOf(file) : <<s, l.name>> \in Keys
  BY <1>1, IniFileAssumption
<1>3. j \in DOMAIN file
  <2>1. DOMAIN file = 1..Len(file) /\ Len(file) \in Nat BY FileIs
  <2> QED BY <2>1
<1>4. l.kind = "section" => l.name \in SectionsOf(file) BY <1>3 DEF SectionsOf
<1>5. l.kind \in {"section", "value", "comment", "error"} /\ l.val \in Vals
  BY <1>2 DEF Parsed
<1> QED BY <1>2, <1>4, <1>5

\* A line behind all others is the last.
LEMMA MaxIsIt ==
  ASSUME NEW S \in SUBSET Nat, NEW m \in S, \A y \in S : y <= m
  PROVE  Max(S) = m
<1>1. \A y \in S : m >= y OBVIOUS
<1>2. \A x \in S : (\A y \in S : x >= y) => x = m OBVIOUS
<1> QED BY <1>1, <1>2 DEF Max

\* A line that goes on from the line s, and that none goes on before, is joined from s.
LEMMA FirstIs ==
  ASSUME NEW f, NEW j \in Nat, NEW s \in 1..j,
         s > 1 => ~f[s - 1].cont, \A h \in s..(j - 1) : f[h].cont
  PROVE  First(f, j) = s
<1> DEFINE Is(i) == (i > 1 => ~f[i - 1].cont) /\ \A h \in i..(j - 1) : f[h].cont
<1>1. Is(s) OBVIOUS
<1>2. ASSUME NEW i \in 1..j, Is(i) PROVE i = s
  <2>1. i < s => s - 1 \in i..(j - 1) /\ s > 1 OBVIOUS
  <2>2. s < i => i - 1 \in s..(j - 1) /\ i > 1 OBVIOUS
  <2>3. ~(i < s) BY <1>2, <2>1
  <2>4. ~(s < i) BY <1>2, <2>2
  <2> QED BY <2>3, <2>4
<1>3. First(f, j) = CHOOSE i \in 1..j : Is(i) BY DEF First
<1> HIDE DEF Is
<1> QED BY <1>1, <1>2, <1>3

\* The texts of lines, and one more.
LEMMA JoinedMore ==
  ASSUME file \in Files \cup {<<>>}, NEW p \in Nat, p < Len(file), NEW s \in 1..(p + 1)
  PROVE  /\ Joined(file, s, p) \in Seq(Text)
         /\ Append(Joined(file, s, p), file[p + 1].text) = Joined(file, s, p + 1)
<1>1. /\ Len(file) \in Nat /\ DOMAIN file = 1..Len(file)
      /\ \A i \in DOMAIN file : file[i].text \in Text
  BY FileIs
<1> DEFINE m == p - s + 1
           a == Joined(file, s, p)
           b == Joined(file, s, p + 1)
<1>2. m \in Nat /\ (p + 1) - s + 1 = m + 1 /\ s + (m + 1) - 1 = p + 1 OBVIOUS
<1>3. \A h \in 1..(m + 1) : s + h - 1 \in DOMAIN file BY <1>1
<1>4. a = [h \in 1..m |-> file[s + h - 1].text] BY DEF Joined
<1>5. b = [h \in 1..(m + 1) |-> file[s + h - 1].text] BY <1>2 DEF Joined
<1> HIDE DEF m, a, b
<1>6. a \in Seq(Text) /\ Len(a) = m
  <2>1. \A h \in 1..m : file[s + h - 1].text \in Text BY <1>1, <1>2, <1>3
  <2> QED BY <1>2, <1>4, <2>1
<1>7. Append(a, file[p + 1].text) = b
  <2> DEFINE c == Append(a, file[p + 1].text)
  <2>1. c = [h \in 1..(m + 1) |-> IF h = m + 1 THEN file[p + 1].text ELSE a[h]]
    BY <1>2, <1>6
  <2>2. \A h \in 1..m : a[h] = file[s + h - 1].text BY <1>4
  <2>3. \A h \in 1..(m + 1) : (IF h = m + 1 THEN file[p + 1].text ELSE a[h])
                               = file[s + h - 1].text
    <3> TAKE h \in 1..(m + 1)
    <3>1. CASE h = m + 1 BY <1>2, <3>1
    <3>2. CASE h # m + 1
      <4>1. h \in 1..m BY <1>2, <3>2
      <4> QED BY <2>2, <3>2, <4>1
    <3> QED BY <3>1, <3>2
  <2> HIDE DEF c
  <2> QED BY <1>5, <2>1, <2>3 DEF c
<1> QED BY <1>6, <1>7 DEF a, b

\* The texts in the buffer with the next line are those that are joined there.
LEMMA NextIs ==
  ASSUME TypeOK, ReadSoFar, pos < Len(file)
  PROVE  /\ Append(part, Current.text) = Joined(file, First(file, pos + 1), pos + 1)
         /\ part = Joined(file, First(file, pos + 1), pos)
         /\ First(file, pos + 1) \in 1..(pos + 1)
         /\ First(file, pos + 1) > 1 => ~file[First(file, pos + 1) - 1].cont
         /\ \A h \in First(file, pos + 1)..pos : file[h].cont
<1>1. pos \in Nat /\ Len(file) \in Nat /\ DOMAIN file = 1..Len(file)
  BY FileIs DEF TypeOK
<1>2. PICK s \in 1..(pos + 1) : Began(s) BY DEF ReadSoFar
<1>3. /\ s > 1 => ~file[s - 1].cont
      /\ \A h \in s..pos : file[h].cont
      /\ part = Joined(file, s, pos)
  BY <1>2 DEF Began
<1>4. First(file, pos + 1) = s
  <2>1. (pos + 1) - 1 = pos BY <1>1
  <2> QED BY <1>1, <1>3, <2>1, FirstIs
<1>5. Append(part, file[pos + 1].text) = Joined(file, s, pos + 1)
  BY <1>1, <1>3, JoinedMore DEF TypeOK
<1> QED BY <1>3, <1>4, <1>5 DEF Current

\* The lines that have ended are one more when the next one ends there.
LEMMA EndsMore ==
  ASSUME TypeOK, pos < Len(file)
  PROVE  /\ file[pos + 1].eol /\ ~file[pos + 1].cont =>
              EndsTo(pos + 1) = EndsTo(pos) \cup {pos + 1} /\ pos + 1 \in Ends
         /\ ~(file[pos + 1].eol /\ ~file[pos + 1].cont) => EndsTo(pos + 1) = EndsTo(pos)
         /\ EndsTo(pos) = {j \in Ends : j < pos + 1}
<1>1. pos \in Nat /\ Len(file) \in Nat /\ DOMAIN file = 1..Len(file)
  BY FileIs DEF TypeOK
<1>2. pos + 1 \in DOMAIN file BY <1>1
<1>3. \A j \in Ends : j \in Nat /\ (j <= pos + 1 <=> j <= pos \/ j = pos + 1)
  BY <1>1 DEF Ends
<1>4. pos + 1 \in Ends <=> file[pos + 1].eol /\ ~file[pos + 1].cont BY <1>2 DEF Ends
<1> QED BY <1>1, <1>3, <1>4 DEF EndsTo
-----------------------------------------------------------------------------
(***************************************************************************)
(* One line more.                                                          *)
(***************************************************************************)
\* What has been read of a file that stays is said by the same lines.
LEMMA SameFile ==
  ASSUME file' = file, NEW p \in Nat, pos' = p
  PROVE  /\ EndsTo(pos)' = EndsTo(p) /\ SectionTo(pos)' = SectionTo(p)
         /\ SoundTo(pos)' = SoundTo(p)
         /\ \A k \in Keys : SaysTo(pos, k)' = SaysTo(p, k)
<1>1. EndsTo(pos)' = EndsTo(p) BY DEF EndsTo, Ends
<1>2. SectionTo(pos)' = SectionTo(p) BY <1>1 DEF SectionTo
<1>3. SoundTo(pos)' = SoundTo(p) BY <1>1 DEF SoundTo
<1>4. ASSUME NEW k \in Keys PROVE SaysTo(pos, k)' = SaysTo(p, k)
  <2>1. \A j \in EndsTo(p) : Names(j, k)' = Names(j, k)
    BY DEF Names, SectionAt, Ends
  <2> QED BY <1>1, <2>1 DEF SaysTo
<1> QED BY <1>1, <1>2, <1>3, <1>4

\* Of the whole file the same lines say something as of all its lines.
LEMMA EndsAre ==
  ASSUME TypeOK
  PROVE  EndsTo(Len(file)) = Ends
<1>1. Len(file) \in Nat /\ DOMAIN file = 1..Len(file) BY FileIs DEF TypeOK
<1> QED BY <1>1 DEF EndsTo, Ends

\* What one line more says.
LEMMA OneMore ==
  ASSUME TypeOK, NEW p \in Nat, NEW j, j = p + 1, j \in Ends,
         EndsTo(j) = EndsTo(p) \cup {j}, EndsTo(p) = {i \in Ends : i < j},
         NEW l, l = Written(file, j)
  PROVE  /\ SectionTo(j) = IF l.kind = "section" THEN l.name ELSE SectionTo(p)
         /\ SectionAt(j) = SectionTo(p)
         /\ \A k \in Keys : SaysTo(j, k) =
              IF ~Names(j, k) THEN SaysTo(p, k)
              ELSE IF l.kind = "section" THEN NULL ELSE l.val
         /\ l.kind \in {"section", "value"} => SoundTo(j)
         /\ l.kind = "comment" /\ SoundTo(p) => SoundTo(j)
<1>1. Len(file) \in Nat /\ DOMAIN file = 1..Len(file) BY FileIs DEF TypeOK
<1>2. j \in Nat /\ \A i \in EndsTo(p) : i \in Nat /\ i < j BY <1>1 DEF EndsTo, Ends
<1>3. SectionTo(j) = IF l.kind = "section" THEN l.name ELSE SectionTo(p)
  <2> DEFINE before == {i \in EndsTo(j) : Written(file, i).kind = "section"}
  <2>1. CASE l.kind = "section"
    <3>1. j \in before /\ before \in SUBSET Nat /\ \A i \in before : i <= j
      BY <1>2, <2>1
    <3>2. Max(before) = j BY <3>1, MaxIsIt
    <3> QED BY <2>1, <3>1, <3>2 DEF SectionTo
  <2>2. CASE l.kind # "section"
    <3>1. before = {i \in EndsTo(p) : Written(file, i).kind = "section"} BY <2>2
    <3> QED BY <2>2, <3>1 DEF SectionTo
  <2> QED BY <2>1, <2>2
<1>4. SectionAt(j) = SectionTo(p)
  <2>1. {i \in Ends : i < j /\ Written(file, i).kind = "section"}
        = {i \in EndsTo(p) : Written(file, i).kind = "section"}
    OBVIOUS
  <2> QED BY <2>1 DEF SectionAt, SectionTo
<1>5. ASSUME NEW k \in Keys
      PROVE  SaysTo(j, k) = IF ~Names(j, k) THEN SaysTo(p, k)
                            ELSE IF l.kind = "section" THEN NULL ELSE l.val
  <2> DEFINE lines == {i \in EndsTo(j) : Names(i, k)}
  <2>1. CASE Names(j, k)
    <3>1. j \in lines /\ lines \in SUBSET Nat /\ \A i \in lines : i <= j
      BY <1>2, <2>1
    <3>2. Max(lines) = j BY <3>1, MaxIsIt
    <3> QED BY <2>1, <3>1, <3>2 DEF SaysTo
  <2>2. CASE ~Names(j, k)
    <3>1. lines = {i \in EndsTo(p) : Names(i, k)} BY <2>2
    <3> QED BY <2>2, <3>1 DEF SaysTo
  <2> QED BY <2>1, <2>2
<1>6. l.kind \in {"section", "value"} => SoundTo(j) BY <1>2 DEF SoundTo
<1>7. l.kind = "comment" /\ SoundTo(p) => SoundTo(j) BY DEF SoundTo
<1> QED BY <1>3, <1>4, <1>5, <1>6, <1>7

\* A line that goes on, and one that is overlooked, says nothing.
LEMMA QuietStep ==
  ASSUME IInv, ReadPart \/ SkipLine
  PROVE  ReadSoFar' /\ TypeOK' /\ SlotsInOrder'
<1>1. /\ TypeOK /\ SlotsInOrder /\ ReadSoFar /\ phase = "reading" /\ pos < Len(file)
      /\ pos' = pos + 1 /\ UNCHANGED <<dictVars, section, errs, file, phase, edits>>
  BY DEF IInv, ReadPart, SkipLine, Reading, NextLine
<1>2. DictInv BY <1>1 DEF DictInv, TypeOK
<1>3. pos \in Nat /\ Len(file) \in Nat /\ DOMAIN file = 1..Len(file) /\ pos + 1 \in DOMAIN file
  BY <1>1, FileIs DEF TypeOK
<1> DEFINE s == First(file, pos + 1)
<1>4. /\ Append(part, Current.text) = Joined(file, s, pos + 1)
      /\ part = Joined(file, s, pos) /\ s \in 1..(pos + 1)
      /\ s > 1 => ~file[s - 1].cont
      /\ \A h \in s..pos : file[h].cont
  BY <1>1, NextIs
<1> HIDE DEF s
<1>5. EndsTo(pos + 1) = EndsTo(pos)
  <2>1. ~(file[pos + 1].eol /\ ~file[pos + 1].cont) BY DEF ReadPart, SkipLine, Current
  <2> QED BY <1>1, <2>1, EndsMore
<1>6. /\ SectionTo(pos)' = SectionTo(pos) /\ SoundTo(pos)' = SoundTo(pos)
      /\ \A k \in Keys : SaysTo(pos, k)' = SaysTo(pos, k)
  <2>1. /\ SectionTo(pos)' = SectionTo(pos + 1) /\ SoundTo(pos)' = SoundTo(pos + 1)
        /\ \A k \in Keys : SaysTo(pos, k)' = SaysTo(pos + 1, k)
    <3>1. file' = file /\ pos + 1 \in Nat /\ pos' = pos + 1 BY <1>1, <1>3
    <3> QED BY <3>1, SameFile
  <2>2. SectionTo(pos + 1) = SectionTo(pos) BY <1>5 DEF SectionTo
  <2>3. SoundTo(pos + 1) = SoundTo(pos) BY <1>5 DEF SoundTo
  <2>4. \A k \in Keys : SaysTo(pos + 1, k) = SaysTo(pos, k) BY <1>5 DEF SaysTo
  <2> QED BY <2>1, <2>2, <2>3, <2>4
<1>7. DictInv' /\ \A k \in Keys : Get(k)' = Get(k) BY <1>1, <1>2, SameDict
<1>8. errs \in 0..Len(file) /\ errs <= pos + 1 BY <1>1, <1>3 DEF ReadSoFar, TypeOK
<1>9. CASE ReadPart
  <2>1. /\ file[pos + 1].cont /\ file[pos + 1].eol
        /\ part' = Append(part, file[pos + 1].text)
    BY <1>9 DEF ReadPart, Current
  <2>2. (\E t \in 1..(pos + 1) : Began(t))'
    <3>1. s \in 1..((pos + 1) + 1) BY <1>3, <1>4
    <3>2. \A h \in s..(pos + 1) : file[h].cont BY <1>3, <1>4, <2>1
    <3>3. part' = Joined(file, s, pos + 1) BY <1>4, <2>1 DEF Current
    <3>4. \A t : t = s => Began(t)' BY <1>1, <1>4, <3>2, <3>3 DEF Began, Joined
    <3> QED BY <1>1, <3>1, <3>4
  <2>3. \A i \in 1..(pos + 1) : file[i].eol \/ Lost(file, i)
    BY <1>1, <1>3, <2>1 DEF ReadSoFar
  <2>4. part' \in Seq(Text)
    <3>1. part \in Seq(Text) /\ file[pos + 1].text \in Text BY <1>1, <1>3, FileIs DEF TypeOK
    <3> QED BY <2>1, <3>1
  <2>5. ReadSoFar' BY <1>1, <1>6, <1>7, <1>8, <2>2, <2>3 DEF ReadSoFar
  <2>6. TypeOK' BY <1>1, <1>3, <1>7, <1>8, <2>4 DEF TypeOK, DictInv
  <2> QED BY <1>7, <2>5, <2>6 DEF DictInv
<1>10. CASE SkipLine
  <2>1. /\ part' = Nothing /\ file[pos + 1].single /\ ~file[pos + 1].cont
        /\ \A i \in DOMAIN part : part[i] = Empty
    BY <1>1, <1>3, <1>10, FileIs DEF SkipLine, Overlooked, Current, TypeOK
  <2>2. (\E t \in 1..(pos + 1) : Began(t))'
    <3>1. pos + 2 \in 1..((pos + 1) + 1) /\ (pos + 2) - 1 = pos + 1 BY <1>3
    <3>2. (pos + 2)..(pos + 1) = {} BY <1>3
    <3>3. Joined(file, pos + 2, pos + 1) = <<>>
      <4>1. (pos + 1) - (pos + 2) + 1 = 0 BY <1>3
      <4> QED BY <4>1 DEF Joined
    <3>4. \A t : t = pos + 2 => Began(t)'
      BY <1>1, <2>1, <3>1, <3>2, <3>3 DEF Began, Joined, Nothing
    <3> QED BY <1>1, <3>1, <3>4
  <2>3. Lost(file, pos + 1)
    <3>1. ASSUME NEW h \in s..pos PROVE file[h].text = Empty
      <4>1. h - s + 1 \in DOMAIN part /\ part[h - s + 1] = file[s + (h - s + 1) - 1].text
        BY <1>3, <1>4 DEF Joined
      <4>2. s + (h - s + 1) - 1 = h BY <1>3, <1>4
      <4> QED BY <2>1, <4>1, <4>2
    <3>2. (pos + 1) - 1 = pos BY <1>3
    <3> QED BY <2>1, <3>1, <3>2 DEF Lost, s
  <2>4. \A i \in 1..(pos + 1) : file[i].eol \/ Lost(file, i)
    <3>1. \A i \in 1..(pos + 1) : i \in 1..pos \/ i = pos + 1 BY <1>3
    <3> QED BY <1>1, <2>3, <3>1 DEF ReadSoFar
  <2>5. ReadSoFar' BY <1>1, <1>6, <1>7, <1>8, <2>2, <2>4 DEF ReadSoFar
  <2>6. TypeOK' BY <1>1, <1>3, <1>7, <1>8, <2>1 DEF TypeOK, DictInv, Nothing
  <2> QED BY <1>7, <2>5, <2>6 DEF DictInv
<1> QED BY <1>9, <1>10

\* The step changes at most what one key is looked up as.
OneKey ==
  \/ \A k \in Keys : Get(k)' = Get(k)
  \/ \E key1 \in Keys, v \in Vals \cup {Missing} :
       \A k \in Keys : Get(k)' = IF k = key1 THEN v ELSE Get(k)

\* A line that ends says what the file says of it, joined to those it went on from.
LEMMA ReadLineStep ==
  ASSUME IInv, ReadLine
  PROVE  ReadSoFar' /\ TypeOK' /\ SlotsInOrder' /\ OneKey
<1> DEFINE l == Found(Append(part, Current.text))
           j == pos + 1
<1>1. /\ TypeOK /\ SlotsInOrder /\ ReadSoFar /\ phase = "reading" /\ pos < Len(file)
      /\ ~file[pos + 1].cont /\ file[pos + 1].eol /\ part' = Nothing
      /\ pos' = pos + 1 /\ UNCHANGED <<file, phase, edits>>
  BY DEF IInv, ReadLine, Reading, Current, NextLine
<1>2. DictInv BY <1>1 DEF DictInv, TypeOK
<1>3. /\ pos \in Nat /\ Len(file) \in Nat /\ DOMAIN file = 1..Len(file)
      /\ pos \in 0..Len(file) /\ pos + 1 \in 0..Len(file) /\ pos + 1 \in DOMAIN file
  BY <1>1, FileIs DEF TypeOK
<1>4. /\ EndsTo(j) = EndsTo(pos) \cup {j} /\ j \in Ends
      /\ EndsTo(pos) = {i \in Ends : i < j}
  BY <1>1, EndsMore
<1>5. /\ l = Written(file, j)
      /\ l.val \in Vals /\ l.kind \in {"section", "value", "comment", "error"}
      /\ l.kind = "section" => <<l.name, NoKey>> \in Keys /\ l.name \in SectionsOf(file)
      /\ l.kind = "value" => \A s \in SectionsOf(file) : <<s, l.name>> \in Keys
  <2> DEFINE s == First(file, pos + 1)
  <2>1. /\ Append(part, Current.text) = Joined(file, s, pos + 1)
        /\ s \in 1..(pos + 1)
    BY <1>1, NextIs
  <2> HIDE DEF s
  <2>2. l = Found(Joined(file, s, pos + 1)) BY <2>1
  <2>3. l = Written(file, j) BY <2>2 DEF Written, s
  <2>4. s \in DOMAIN file /\ pos + 1 \in s..Len(file) /\ file \in Files \cup {<<>>}
    BY <1>1, <1>3, <2>1 DEF TypeOK
  <2> HIDE DEF l
  <2>5. /\ l.val \in Vals /\ l.kind \in {"section", "value", "comment", "error"}
        /\ l.kind = "section" => <<l.name, NoKey>> \in Keys /\ l.name \in SectionsOf(file)
        /\ l.kind = "value" => \A t \in SectionsOf(file) : <<t, l.name>> \in Keys
    BY <2>2, <2>4, FoundIs
  <2> QED BY <2>3, <2>5
<1> HIDE DEF l
<1>6. l.kind = "value" => <<section, l.name>> \in Keys BY <1>1, <1>5 DEF TypeOK
<1>7. /\ SectionTo(pos)' = SectionTo(pos + 1) /\ SoundTo(pos)' = SoundTo(pos + 1)
      /\ \A k \in Keys : SaysTo(pos, k)' = SaysTo(pos + 1, k)
  <2>1. file' = file /\ pos + 1 \in Nat /\ pos' = pos + 1 BY <1>1, <1>3
  <2> QED BY <2>1, SameFile
<1>8. /\ SectionTo(j) = IF l.kind = "section" THEN l.name ELSE section
      /\ SectionAt(j) = section
      /\ \A k \in Keys : SaysTo(j, k) =
           IF ~Names(j, k) THEN Get(k)
           ELSE IF l.kind = "section" THEN NULL ELSE l.val
      /\ l.kind \in {"section", "value"} => SoundTo(j)
      /\ l.kind = "comment" /\ SoundTo(pos) => SoundTo(j)
  BY <1>1, <1>3, <1>4, <1>5, OneMore DEF ReadSoFar
<1>9. \A k \in Keys :
        Names(j, k) <=> \/ l.kind = "section" /\ k = <<l.name, NoKey>>
                        \/ l.kind = "value" /\ k = <<section, l.name>>
  BY <1>5, <1>8 DEF Names
<1>10. /\ DictInv'
       /\ \A k \in Keys : Get(k)' = IF ~Names(j, k) THEN Get(k)
                                    ELSE IF l.kind = "section" THEN NULL ELSE l.val
       /\ section' = IF l.kind = "section" THEN l.name ELSE section
       /\ errs' = IF l.kind \in {"section", "value"} THEN 0
                  ELSE IF l.kind = "error" THEN errs + 1 ELSE errs
  <2>1. Take(l) BY DEF ReadLine, l
  <2>2. CASE l.kind = "comment"
    <3>1. UNCHANGED <<dictVars, section, errs>> BY <2>1, <2>2 DEF Take
    <3> QED BY <1>2, <1>9, <2>2, <3>1, SameDict
  <2>3. CASE l.kind = "error"
    <3>1. UNCHANGED <<dictVars, section>> /\ errs' = errs + 1 BY <2>1, <2>3 DEF Take
    <3> QED BY <1>2, <1>9, <2>3, <3>1, SameDict
  <2>4. CASE l.kind = "section"
    <3>1. section' = l.name /\ errs' = 0 /\ Set(<<l.name, NoKey>>, NULL)
      BY <2>1, <2>4 DEF Take
    <3>2. /\ DictInv'
          /\ \A k \in Keys : Get(k)' = IF k = <<l.name, NoKey>> THEN NULL ELSE Get(k)
      <4>1. <<l.name, NoKey>> \in Keys /\ NULL \in Vals BY <1>5, <2>4, Sizes
      <4> QED BY <1>2, <3>1, <4>1, SetStep
    <3> QED BY <1>9, <2>4, <3>1, <3>2
  <2>5. CASE l.kind = "value"
    <3>1. section' = section /\ errs' = 0 /\ Set(<<section, l.name>>, l.val)
      BY <2>1, <2>5 DEF Take
    <3>2. /\ DictInv'
          /\ \A k \in Keys : Get(k)' = IF k = <<section, l.name>> THEN l.val ELSE Get(k)
      <4>1. <<section, l.name>> \in Keys BY <1>6, <2>5
      <4> QED BY <1>2, <1>5, <3>1, <4>1, SetStep
    <3> QED BY <1>9, <2>5, <3>1, <3>2
  <2> QED BY <1>5, <2>2, <2>3, <2>4, <2>5
<1>11. \A k \in Keys : Get(k)' = SaysTo(pos, k)' BY <1>7, <1>8, <1>10
<1>12. section' = SectionTo(pos)' BY <1>7, <1>8, <1>10
<1>13. /\ errs' \in 0..Len(file) /\ errs' <= pos'
       /\ errs' = 0 => SoundTo(pos)'
  <2>1. errs \in Nat /\ errs <= pos /\ (errs = 0 => SoundTo(pos))
    BY <1>1, <1>3 DEF TypeOK, ReadSoFar
  <2> QED BY <1>1, <1>3, <1>5, <1>7, <1>8, <1>10, <2>1
<1>14. \A i \in 1..(pos + 1) : file[i].eol \/ Lost(file, i)
  <2>1. \A i \in 1..(pos + 1) : i \in 1..pos \/ i = pos + 1 BY <1>3
  <2> QED BY <1>1, <2>1 DEF ReadSoFar
<1>19. (\E s \in 1..(pos + 1) : Began(s))'
  <2>1. pos + 2 \in 1..((pos + 1) + 1) /\ (pos + 2) - 1 = pos + 1 BY <1>3
  <2>2. (pos + 2)..(pos + 1) = {} BY <1>3
  <2>3. Joined(file, pos + 2, pos + 1) = <<>>
    <3>1. (pos + 1) - (pos + 2) + 1 = 0 BY <1>3
    <3> QED BY <3>1 DEF Joined
  <2>4. \A s : s = pos + 2 => Began(s)'
    BY <1>1, <2>1, <2>2, <2>3 DEF Began, Joined, Nothing
  <2> QED BY <1>1, <2>1, <2>4
<1>15. ReadSoFar' BY <1>1, <1>11, <1>12, <1>13, <1>14, <1>19 DEF ReadSoFar
<1>16. section' \in SectionsOf(file)
  BY <1>1, <1>5, <1>10 DEF TypeOK
<1>17. TypeOK' BY <1>1, <1>3, <1>10, <1>13, <1>16 DEF TypeOK, DictInv, Nothing
<1>18. OneKey
  <2>1. CASE l.kind = "section" BY <1>5, <1>9, <1>10, <2>1, Sizes DEF OneKey
  <2>2. CASE l.kind = "value" BY <1>5, <1>6, <1>9, <1>10, <2>2 DEF OneKey
  <2>3. CASE l.kind \notin {"section", "value"} BY <1>9, <1>10, <2>3 DEF OneKey
  <2> QED BY <2>1, <2>2, <2>3
<1> QED BY <1>10, <1>15, <1>17, <1>18 DEF DictInv
-----------------------------------------------------------------------------
(***************************************************************************)
(* The invariant.                                                          *)
(***************************************************************************)
\* A dictionary that is freed leaves nothing to look up, and nothing that was read.
LEMMA Freed ==
  ASSUME Delete, Forget, edits' = 0, phase' \in {"running", "exited"}
  PROVE  IInv'
<1>1. DictInv' /\ \A k \in Keys : Get(k)' = Missing BY DeleteStep
<1>2. Idle' BY DEF Forget, Idle
<1>3. TypeOK'
  BY <1>1, <1>2, IniFileAssumption DEF Idle, TypeOK, DictInv, SectionsOf, Nothing
<1> QED BY <1>1, <1>2, <1>3 DEF IInv, DictInv

\* IInv holds before the first init().
LEMMA InitInv == Init => IInv
<1> SUFFICES ASSUME Init PROVE IInv OBVIOUS
<1>1. Slots = 0..(DICTMINSZ - 1) BY DEF Init, DictInit, Slots
<1>2. DictInv /\ \A k \in Keys : Get(k) = Missing
  BY <1>1, EmptyDict DEF Init, DictInit
<1>3. Idle /\ phase = "off" /\ edits = 0 BY DEF Init, FileInit, Idle
<1>4. TypeOK BY <1>2, <1>3, IniFileAssumption DEF Idle, TypeOK, DictInv, SectionsOf, Nothing
<1> QED BY <1>2, <1>3, <1>4 DEF IInv, DictInv

\* init() opens a file of which nothing has been read.
LEMMA LaunchStep == ASSUME IInv, Launch PROVE IInv' /\ OneKey
<1>1. /\ TypeOK /\ SlotsInOrder /\ Idle /\ \A k \in Keys : Get(k) = Missing
  BY DEF IInv, Launch
<1>2. /\ phase' = "reading" /\ file' \in Files
      /\ UNCHANGED <<dictVars, pos, section, part, errs, edits>>
  BY DEF Launch
<1>3. DictInv' /\ \A k \in Keys : Get(k)' = Missing /\ Get(k)' = Get(k)
  BY <1>1, <1>2, SameDict DEF DictInv, TypeOK
<1>4. file' \in Seq(Line) /\ Len(file') \in Nat BY <1>2, IniFileAssumption
<1>5. TypeOK'
  BY <1>1, <1>2, <1>3, <1>4 DEF TypeOK, DictInv, Idle, SectionsOf, Nothing
<1>6. pos' = 0 /\ section' = NoSection /\ part' = Nothing /\ errs' = 0 BY <1>1, <1>2 DEF Idle
<1>7. EndsTo(pos)' = {}
  <2>1. \A i \in Ends' : i \in Nat /\ i >= 1 BY <1>4 DEF Ends
  <2> QED BY <1>6, <2>1 DEF EndsTo
<1>8. ReadSoFar'
  <2>1. SectionTo(pos)' = NoSection /\ SoundTo(pos)' BY <1>7 DEF SectionTo, SoundTo
  <2>2. \A k \in Keys : SaysTo(pos, k)' = Missing BY <1>7 DEF SaysTo
  <2>3. (\E s \in 1..(pos + 1) : Began(s))'
    <3>1. Joined(file', 1, 0) = <<>> BY DEF Joined
    <3>2. \A s : s = 1 => Began(s)' BY <1>6, <3>1 DEF Began, Joined, Nothing
    <3> QED BY <1>6, <3>2
  <2> QED BY <1>3, <1>6, <2>1, <2>2, <2>3 DEF ReadSoFar
<1>9. edits' = 0 BY <1>2 DEF IInv, Launch
<1> QED BY <1>2, <1>3, <1>5, <1>8, <1>9 DEF IInv, DictInv, OneKey

\* What holds of a file read holds where nothing changes.
LEMMA SameRead ==
  ASSUME IInv, UNCHANGED <<dictVars, readVars, edits>>
  PROVE  /\ DictInv' /\ \A k \in Keys : Get(k)' = Get(k)
         /\ ReadSoFar => ReadSoFar'
         /\ Idle => Idle'
         /\ phase' \in {"off", "reading", "loaded", "running", "exited", "crashed"} => TypeOK'
<1>1. DictInv BY DEF IInv, DictInv, TypeOK
<1>2. UNCHANGED <<file, pos, section, part, errs, edits>> BY DEF readVars
<1>3. DictInv' /\ \A k \in Keys : Get(k)' = Get(k) BY <1>1, SameDict
<1>4. Idle => Idle' BY <1>2 DEF Idle
<1>5. pos \in Nat BY FileIs DEF IInv, TypeOK
<1>6. /\ SectionTo(pos)' = SectionTo(pos) /\ SoundTo(pos)' = SoundTo(pos)
      /\ \A k \in Keys : SaysTo(pos, k)' = SaysTo(pos, k)
  BY <1>2, <1>5, SameFile
<1>7. ReadSoFar => ReadSoFar' BY <1>2, <1>3, <1>6 DEF ReadSoFar, Began, Joined, Lost, First
<1>8. phase' \in {"off", "reading", "loaded", "running", "exited", "crashed"} => TypeOK'
  BY <1>2, <1>3 DEF IInv, TypeOK, DictInv, SectionsOf
<1> QED BY <1>3, <1>4, <1>7, <1>8

\* Every step keeps IInv, and changes at most what one key is looked up as, or
\* frees the dictionary.
LEMMA NextStep ==
  ASSUME IInv, [Next]_vars
  PROVE  IInv' /\ (OneKey \/ \A k \in Keys : Get(k)' = Missing)
<1>1. TypeOK /\ SlotsInOrder /\ DictInv BY DEF IInv, DictInv, TypeOK
<1>2. CASE Launch BY <1>2, LaunchStep
<1>3. CASE ReadLine
  <2>1. ReadSoFar' /\ TypeOK' /\ SlotsInOrder' /\ OneKey BY <1>3, ReadLineStep
  <2>2. phase' = "reading" /\ edits' = edits /\ phase = "reading"
    BY <1>3 DEF ReadLine, Reading, NextLine
  <2> QED BY <2>1, <2>2 DEF IInv
<1>4. CASE ReadPart \/ SkipLine
  <2>1. ReadSoFar' /\ TypeOK' /\ SlotsInOrder' BY <1>4, QuietStep
  <2>2. phase' = "reading" /\ edits' = edits /\ phase = "reading" /\ UNCHANGED dictVars
    BY <1>4 DEF ReadPart, SkipLine, Reading, NextLine
  <2>3. OneKey BY <1>1, <2>2, SameDict DEF OneKey
  <2> QED BY <2>1, <2>2, <2>3 DEF IInv
<1>5. CASE RefuseLine
  <2>1. phase = "reading" /\ Refuse BY <1>5 DEF RefuseLine, Reading
  <2>2. Delete /\ Forget /\ edits' = 0 /\ phase' = "exited" BY <2>1 DEF Refuse, IInv
  <2> QED BY <2>2, Freed, DeleteStep
<1>6. CASE EndOfFile
  <2>1. CASE errs # 0
    <3>1. phase = "reading" /\ Refuse BY <1>6, <2>1 DEF EndOfFile
    <3>2. Delete /\ Forget /\ edits' = 0 /\ phase' = "exited" BY <3>1 DEF Refuse, IInv
    <3> QED BY <3>2, Freed, DeleteStep
  <2>2. CASE errs = 0
    <3>1. /\ phase = "reading" /\ pos = Len(file) /\ phase' = "loaded"
          /\ UNCHANGED <<dictVars, readVars, edits>>
      BY <1>6, <2>2 DEF EndOfFile
    <3>2. DictInv' /\ TypeOK' /\ (\A k \in Keys : Get(k)' = Get(k)) BY <3>1, SameRead
    <3>3. ReadSoFar' /\ edits' = 0
      <4>1. ReadSoFar /\ edits = 0 BY <3>1 DEF IInv
      <4> QED BY <3>1, <4>1, SameRead
    <3>4. pos' = Len(file') /\ errs' = 0 BY <2>2, <3>1 DEF readVars
    <3> QED BY <3>1, <3>2, <3>3, <3>4 DEF IInv, DictInv, OneKey
  <2> QED BY <2>1, <2>2
<1>7. CASE Edit
  <2>1. /\ phase = "loaded" /\ phase' = "loaded" /\ edits < MaxEdits /\ edits' = edits + 1
        /\ Forget
    BY <1>7 DEF Edit
  <2>2. PICK key1 \in Keys : Unset(key1) \/ \E v \in Vals : Set(key1, v) BY <1>7 DEF Edit
  <2>3. DictInv' /\ OneKey
    <3>1. CASE Unset(key1)
      <4>1. /\ DictInv'
            /\ \A k \in Keys : Get(k)' = IF k = key1 THEN Missing ELSE Get(k)
        BY <1>1, <3>1, UnsetStep
      <4> QED BY <4>1 DEF OneKey
    <3>2. ASSUME NEW v \in Vals, Set(key1, v) PROVE DictInv' /\ OneKey
      <4>1. DictInv' /\ \A k \in Keys : Get(k)' = IF k = key1 THEN v ELSE Get(k)
        BY <1>1, <3>2, SetStep
      <4> QED BY <4>1 DEF OneKey
    <3> QED BY <2>2, <3>1, <3>2
  <2>4. Idle' BY <2>1 DEF Forget, Idle
  <2>5. edits' \in 0..MaxEdits /\ edits' # 0
    BY <1>1, <2>1, IniFileAssumption DEF TypeOK
  <2>6. TypeOK' BY <2>1, <2>3, <2>4, <2>5 DEF Idle, TypeOK, DictInv, SectionsOf, Nothing
  <2>7. errs' = 0 BY <2>4 DEF Idle
  <2> QED BY <2>1, <2>3, <2>4, <2>5, <2>6, <2>7 DEF IInv, DictInv
<1>8. CASE Configure
  <2>1. phase = "loaded" /\ Forget /\ edits' = 0 BY <1>8 DEF Configure
  <2>2. CASE phase' = "running" /\ Delete BY <2>1, <2>2, Freed, DeleteStep
  <2>3. CASE phase' = "crashed" /\ UNCHANGED dictVars
    <3>1. DictInv' /\ \A k \in Keys : Get(k)' = Get(k) BY <1>1, <2>3, SameDict
    <3>2. Idle' BY <2>1 DEF Forget, Idle
    <3>3. TypeOK'
      BY <2>1, <2>3, <3>1, <3>2, IniFileAssumption
         DEF Idle, TypeOK, DictInv, SectionsOf, Nothing
    <3> QED BY <2>1, <2>3, <3>1, <3>2, <3>3 DEF IInv, DictInv, OneKey
  <2> QED BY <1>8, <2>2, <2>3 DEF Configure
<1>9. CASE UNCHANGED vars
  <2>1. UNCHANGED <<dictVars, readVars, edits>> /\ phase' = phase BY <1>9 DEF vars
  <2>2. phase \in {"off", "reading", "loaded", "running", "exited", "crashed"}
    BY <1>1 DEF TypeOK
  <2>3. /\ DictInv' /\ TypeOK' /\ (\A k \in Keys : Get(k)' = Get(k))
        /\ ReadSoFar => ReadSoFar'
        /\ Idle => Idle'
    BY <2>1, <2>2, SameRead
  <2>4. UNCHANGED <<file, pos, errs, edits>> BY <2>1 DEF readVars
  <2> QED BY <2>1, <2>3, <2>4 DEF IInv, DictInv, OneKey
<1> QED BY <1>2, <1>3, <1>4, <1>5, <1>6, <1>7, <1>8, <1>9 DEF Next

\* IInv is an invariant.
LEMMA Invariance == Spec => []IInv
<1>1. IInv /\ [Next]_vars => IInv' BY NextStep
<1> QED BY <1>1, InitInv, PTL DEF Spec

\* The arrays of the dictionary stay in order however often keys come and go and the file is
\* read again: no key twice, nothing in a hole, n the number of keys, so that the search for a
\* hole ends.
THEOREM InOrder == Spec => []IniFileInv
<1>1. IInv => IniFileInv BY DEF IInv, IniFileInv
<1> QED BY <1>1, Invariance, PTL

\* What is loaded is what the file says, of any length, with sections and keys that come back,
\* lines split anywhere, those of sections and keys too, and errors in between.  What has no
\* newline at its end is not loaded, but for a file whose last line is one character, which is
\* lost.
THEOREM LoadedAsWritten == Spec => []LoadedIsWritten
<1>1. ASSUME IInv PROVE LoadedIsWritten
  <2> SUFFICES ASSUME phase = "loaded"
               PROVE  /\ edits = 0 => \A k \in Keys : Get(k) = Says(k)
                      /\ \A j \in DOMAIN file : file[j].eol \/ Lost(file, j)
                      /\ \A j \in Ends : Written(file, j).kind = "error" =>
                           \E i \in Ends :
                             i > j /\ Written(file, i).kind \in {"section", "value"}
    BY DEF LoadedIsWritten
  <2>1. TypeOK /\ errs = 0 BY <1>1 DEF IInv
  <2>2. CASE edits = 0
    <3>1. ReadSoFar /\ pos = Len(file) BY <1>1, <2>2 DEF IInv
    <3>2. Len(file) \in Nat /\ DOMAIN file = 1..Len(file) BY <2>1, FileIs DEF TypeOK
    <3>3. EndsTo(pos) = Ends BY <2>1, <3>1, EndsAre
    <3>4. \A k \in Keys : SaysTo(pos, k) = Says(k) BY <3>3 DEF SaysTo, Says
    <3> QED BY <2>1, <3>1, <3>2, <3>3, <3>4 DEF ReadSoFar, SoundTo
  <2>3. CASE edits # 0
    <3>1. file = <<>> BY <1>1, <2>3 DEF IInv, Idle
    <3>2. DOMAIN file = {} BY <3>1
    <3> QED BY <2>3, <3>2 DEF Ends
  <2> QED BY <2>2, <2>3
<1> QED BY <1>1, Invariance, PTL

\* The arrays behave as one map that changes a key at a time, or is dropped as a whole.
THEOREM BehavesAsMap == Spec => ImplementsMap
<1>1. Init => Map!Init
  <2> SUFFICES ASSUME Init PROVE Map!Init OBVIOUS
  <2>1. \A k \in Keys : Get(k) = Missing BY InitInv DEF IInv, Init
  <2> QED BY <2>1 DEF Map!Init
<1>2. IInv /\ [Next]_vars => [Map!Next]_([k \in Keys |-> Get(k)])
  <2> SUFFICES ASSUME IInv, [Next]_vars
               PROVE  [Map!Next]_([k \in Keys |-> Get(k)])
    OBVIOUS
  <2>1. OneKey \/ \A k \in Keys : Get(k)' = Missing BY NextStep
  <2>2. CASE \A k \in Keys : Get(k)' = Missing
    BY <2>2 DEF Map!Next, Map!Drop
  <2>3. CASE \A k \in Keys : Get(k)' = Get(k)
    BY <2>3
  <2>4. ASSUME NEW key1 \in Keys, NEW v \in Vals \cup {Missing},
               \A k \in Keys : Get(k)' = IF k = key1 THEN v ELSE Get(k)
        PROVE  Map!Next
    <3>1. [k \in Keys |-> Get(k)]' = [[k \in Keys |-> Get(k)] EXCEPT ![key1] = v]
      BY <2>4
    <3>2. CASE v = Missing BY <3>1, <3>2 DEF Map!Next, Map!Remove
    <3>3. CASE v \in Vals BY <3>1, <3>3 DEF Map!Next, Map!Put
    <3> QED BY <3>2, <3>3
  <2> QED BY <2>1, <2>2, <2>3, <2>4 DEF OneKey
<1> QED BY <1>1, <1>2, Invariance, PTL DEF Spec, ImplementsMap, Map!Spec
=============================================================================
