------------------------------ MODULE Dictionary ------------------------------
(***************************************************************************)
(* The dictionary of the configuration (dictionary.c): arrays of keys and  *)
(* values with holes, which double when they are full.  A new key goes to  *)
(* the first hole from index n on, around the end.  A lookup goes over the *)
(* slots in order; that it compares hashes before strings only makes it    *)
(* shorter.                                                                *)
(***************************************************************************)
EXTENDS Integers, FiniteSets

CONSTANTS
  Keys, Vals,
  Hole,        \* a NULL key, and the value of a slot without one
  NULL,        \* a NULL value, one of Vals
  Missing,     \* what a lookup returns by default
  DICTMINSZ

ASSUME DictionaryAssumption ==
  /\ Hole \notin Keys \cup Vals /\ Missing \notin Vals /\ NULL \in Vals
  /\ DICTMINSZ \in Nat \ {0}

VARIABLES key, val, n, size
dictVars == <<key, val, n, size>>

Slots == 0..(size - 1)

\* dictionary_new(0)
DictInit ==
  /\ size = DICTMINSZ /\ n = 0
  /\ key = [i \in Slots |-> Hole] /\ val = [i \in Slots |-> Hole]

Find(k) == {i \in Slots : key[i] = k}
FirstOf(S) == CHOOSE i \in S : \A j \in S : i <= j

\* dictionary_get
Get(k) == IF Find(k) = {} THEN Missing ELSE val[FirstOf(Find(k))]

Replace(k, v) ==
  /\ Find(k) # {}
  /\ val' = [val EXCEPT ![FirstOf(Find(k))] = v]
  /\ UNCHANGED <<key, n, size>>

Doubled(f) == [i \in 0..(2 * size - 1) |-> IF i \in Slots THEN f[i] ELSE Hole]

\* The holes of the array a of m slots, in the order in which the search meets
\* them.  If there were none it would go round for ever.
Steps(i, m) == IF i >= n THEN i - n ELSE i + m - n
FirstHole(a, m) ==
  CHOOSE i \in 0..(m - 1) :
    a[i] = Hole /\ \A j \in 0..(m - 1) : a[j] = Hole => Steps(i, m) <= Steps(j, m)

\* Mutant: the search for a hole begins at n, and the hole is not looked for.
AddAtN(k, v) ==
  /\ Find(k) = {}
  /\ LET grown == n = size
         keys == IF grown THEN Doubled(key) ELSE key
         vals == IF grown THEN Doubled(val) ELSE val
     IN /\ key' = [keys EXCEPT ![n] = k]
        /\ val' = [vals EXCEPT ![n] = v]
        /\ size' = IF grown THEN 2 * size ELSE size
  /\ n' = n + 1

Add(k, v) ==
  /\ Find(k) = {}
  /\ LET grown == n = size
         keys == IF grown THEN Doubled(key) ELSE key
         vals == IF grown THEN Doubled(val) ELSE val
         m == IF grown THEN 2 * size ELSE size
         i == FirstHole(keys, m)
     IN /\ key' = [keys EXCEPT ![i] = k]
        /\ val' = [vals EXCEPT ![i] = v]
        /\ size' = m
  /\ n' = n + 1

\* dictionary_set
Set(k, v) == Replace(k, v) \/ Add(k, v)

\* Mutant: the key that is not there is counted, too.
UnsetCounted(k) ==
  /\ key' = [i \in Slots |-> IF key[i] = k THEN Hole ELSE key[i]]
  /\ val' = [i \in Slots |-> IF key[i] = k THEN Hole ELSE val[i]]
  /\ n' = n - 1
  /\ UNCHANGED size

\* dictionary_unset
Unset(k) ==
  IF Find(k) = {} THEN UNCHANGED dictVars
  ELSE /\ key' = [key EXCEPT ![FirstOf(Find(k))] = Hole]
       /\ val' = [val EXCEPT ![FirstOf(Find(k))] = Hole]
       /\ n' = n - 1
       /\ UNCHANGED size

DictTypeOK ==
  /\ size \in Nat \ {0} /\ n \in 0..size
  /\ key \in [Slots -> Keys \cup {Hole}] /\ val \in [Slots -> Vals \cup {Hole}]

\* When a call returns no key is in two slots, a hole holds nothing, and n counts
\* the keys, on which the end of the search for a hole rests, whatever was set
\* and unset before.
SlotsInOrder ==
  /\ \A i, j \in Slots : key[i] = key[j] /\ key[i] # Hole => i = j
  /\ \A i \in Slots : key[i] = Hole <=> val[i] = Hole
  /\ n = Cardinality({i \in Slots : key[i] # Hole})

\* The arrays as the map they stand for.
Map == INSTANCE KeyMap WITH map <- [k \in Keys |-> Get(k)]
=============================================================================
