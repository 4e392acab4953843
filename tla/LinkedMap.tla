------------------------------- MODULE LinkedMap -------------------------------
(***************************************************************************)
(* types.Map: a Go map from keys to the links of a doubly linked list,     *)
(* which keeps the order of insertion.                                     *)
(***************************************************************************)
EXTENDS Integers, Sequences, FiniteSets

CONSTANTS
  Keys, Values,
  Links,  \* where a link can be allocated
  Nil     \* the nil pointer

ASSUME LinksAssumption ==
  /\ IsFiniteSet(Keys) /\ IsFiniteSet(Links) /\ Nil \notin Links
  /\ Cardinality(Links) > Cardinality(Keys)

VARIABLES
  m,     \* Map.m, from the keys present to their links
  head, tail,
  link   \* the fields of every link, of those no longer in use too

vars == <<m, head, tail, link>>

Link == [key : Keys, value : Values, next : Links \cup {Nil}, prev : Links \cup {Nil}]
Size == Cardinality(DOMAIN m)
Live == {m[k] : k \in DOMAIN m}

\* NewMap.
Init == /\ m = [k \in {} |-> Nil] /\ head = Nil /\ tail = Nil
        /\ link \in {[l \in Links |-> [key |-> k, value |-> v, next |-> Nil, prev |-> Nil]] :
                       k \in Keys, v \in Values}

\* An address nothing refers to: a link taken out is collected only then.
Referred == Live \cup {head, tail} \cup {link[l].next : l \in Live} \cup {link[l].prev : l \in Live}
NewLink  == CHOOSE l \in Links : l \notin Referred

\* Mutant: the new link does not know the one before it.
LinkInAlone(l, k, v) ==
  [x \in Links |-> IF x = l THEN [key |-> k, value |-> v, next |-> Nil, prev |-> Nil]
                   ELSE IF x = tail THEN [link[x] EXCEPT !.next = l] ELSE link[x]]
\* The new link l behind the tail.
LinkIn(l, k, v) ==
  [x \in Links |-> IF x = l THEN [key |-> k, value |-> v, next |-> Nil, prev |-> tail]
                   ELSE IF x = tail THEN [link[x] EXCEPT !.next = l] ELSE link[x]]

\* Mutant: a new key comes first.
InsertFirst(k, v) ==
  /\ m' = [j \in DOMAIN m \cup {k} |-> IF j = k THEN NewLink ELSE m[j]]
  /\ link' = [x \in Links |-> IF x = NewLink THEN [key |-> k, value |-> v, next |-> head, prev |-> Nil]
                             ELSE IF x = head THEN [link[x] EXCEPT !.prev = NewLink] ELSE link[x]]
  /\ head' = NewLink
  /\ tail' = IF tail = Nil THEN NewLink ELSE tail
Insert(k, v) ==
  /\ m' = [j \in DOMAIN m \cup {k} |-> IF j = k THEN NewLink ELSE m[j]]
  /\ link' = LinkIn(NewLink, k, v)
  /\ head' = IF tail = Nil THEN NewLink ELSE head
  /\ tail' = NewLink
Update(k, v) ==
  /\ link' = [link EXCEPT ![m[k]].value = v]
  /\ UNCHANGED <<m, head, tail>>

\* Mutant: a key that is there gets a second link.
SetTwice(k, v) == Insert(k, v)
Set(k, v) == IF k \in DOMAIN m THEN Update(k, v) ELSE Insert(k, v)

\* Mutant: taking out the first link leaves head where it is.
LinkOutLast(l, p, n) ==
  \/ /\ head = l /\ tail = l
     /\ head' = Nil /\ tail' = Nil /\ UNCHANGED link
  \/ /\ head # l /\ tail = l
     /\ tail' = p /\ link' = [link EXCEPT ![p].next = Nil] /\ UNCHANGED head
  \/ /\ head = l /\ tail # l
     /\ link' = [link EXCEPT ![n].prev = Nil] /\ UNCHANGED <<head, tail>>
  \/ /\ head # l /\ tail # l
     /\ link' = [link EXCEPT ![p].next = n, ![n].prev = p] /\ UNCHANGED <<head, tail>>
\* The list without the link l, whose neighbours are p and n.
LinkOut(l, p, n) ==
  \/ /\ head = l /\ tail = l
     /\ head' = Nil /\ tail' = Nil /\ UNCHANGED link
  \/ /\ head # l /\ tail = l
     /\ tail' = p /\ link' = [link EXCEPT ![p].next = Nil] /\ UNCHANGED head
  \/ /\ head = l /\ tail # l
     /\ head' = n /\ link' = [link EXCEPT ![n].prev = Nil] /\ UNCHANGED tail
  \/ /\ head # l /\ tail # l
     /\ link' = [link EXCEPT ![p].next = n, ![n].prev = p] /\ UNCHANGED <<head, tail>>

\* A key that is not there is left alone.
Remove(k) ==
  /\ k \in DOMAIN m
  /\ m' = [j \in DOMAIN m \ {k} |-> m[j]]
  /\ LinkOut(m[k], link[m[k]].prev, link[m[k]].next)

Clear == /\ m' = [k \in {} |-> Nil] /\ head' = Nil /\ tail' = Nil
         /\ UNCHANGED link

Next == \/ \E k \in Keys : (\E v \in Values : Set(k, v)) \/ Remove(k)
        \/ Clear
Spec == Init /\ [][Next]_vars

-----------------------------------------------------------------------------
(***************************************************************************)
(* Reading the map.  Keys and Values walk along next, into a slice of the  *)
(* size of m: a longer walk would panic, a shorter one leave empty places. *)
(***************************************************************************)
Walked == LET at[n \in 0..Cardinality(Keys) + 1] ==
                IF n = 0 THEN head ELSE IF at[n - 1] = Nil THEN Nil ELSE link[at[n - 1]].next
          IN at
Steps   == {n \in 0..Cardinality(Keys) : Walked[n] # Nil}
Entries == [p \in 1..Cardinality(Steps) |->
              [key |-> link[Walked[p - 1]].key, value |-> link[Walked[p - 1]].value]]

Get(k) == IF k \in DOMAIN m THEN <<link[m[k]].value>> ELSE <<>>

-----------------------------------------------------------------------------
\* Head and tail are links of the map exactly if it has one.
TypeOK == /\ DOMAIN m \subseteq Keys /\ m \in [DOMAIN m -> Links]
          /\ link \in [Links -> Link]
          /\ {head, tail} \subseteq IF DOMAIN m = {} THEN {Nil} ELSE Live

\* Set and Remove keep the links of the map in one list, the same in both directions:
\* m leads to the link of its key, and no link in use refers to one taken out.
Doubly ==
  /\ \A k \in DOMAIN m : link[m[k]].key = k
  /\ \A l \in Live :
       /\ link[l].prev = Nil <=> l = head
       /\ link[l].next = Nil <=> l = tail
       /\ l # tail => link[l].next \in Live /\ link[link[l].next].prev = l
       /\ l # head => link[l].prev \in Live /\ link[link[l].prev].next = l

\* Get and Size, which ask m, and Keys and Values, which walk along the list, know
\* the same keys with the same values.
GetAgrees ==
  /\ Len(Entries) = Size
  /\ \A k \in Keys : LET at == {p \in DOMAIN Entries : Entries[p].key = k}
                     IN Get(k) = IF at = {} THEN <<>> ELSE <<Entries[CHOOSE p \in at : TRUE].value>>

\* The list is the dictionary: a new key comes last, a key set again keeps its
\* place, and a key removed and set again comes last.
Abstract == INSTANCE Dictionary WITH entries <- Entries
IsDictionary == Abstract!Spec
=============================================================================
