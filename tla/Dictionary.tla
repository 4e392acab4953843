------------------------------ MODULE Dictionary ------------------------------
(***************************************************************************)
(* What types.Map promises: a sequence of entries with different keys, in  *)
(* the order in which the keys came in.                                    *)
(***************************************************************************)
EXTENDS Integers, Sequences

CONSTANTS Keys, Values
VARIABLE entries

HasKey(k)   == \E p \in 1..Len(entries) : entries[p].key = k
Position(k) == CHOOSE p \in 1..Len(entries) : entries[p].key = k

Init == entries = <<>>

\* A new key goes to the end, a known one keeps its place.
Set(k, v) == entries' = IF HasKey(k) THEN [entries EXCEPT ![Position(k)].value = v]
                        ELSE Append(entries, [key |-> k, value |-> v])
Without(s, p) == [q \in 1..Len(s) - 1 |-> s[IF q < p THEN q ELSE q + 1]]
Remove(k) == entries' = IF HasKey(k) THEN Without(entries, Position(k)) ELSE entries
Clear     == entries' = <<>>

Next == \/ \E k \in Keys : (\E v \in Values : Set(k, v)) \/ Remove(k)
        \/ Clear
Spec == Init /\ [][Next]_entries
=============================================================================
