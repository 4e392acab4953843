--------------------------- MODULE LinkedMapProofs ---------------------------
(***************************************************************************)
(* The list of a LinkedMap is well formed, and what is read off it is the  *)
(* dictionary Dictionary describes, for every set of keys.  TypeOK and     *)
(* Doubly say nothing against a second list beside the one of head and     *)
(* tail, a ring for instance, and taking out the one link of the first     *)
(* would then leave keys without a head: here all links in use stand in    *)
(* one sequence.                                                           *)
(***************************************************************************)
EXTENDS LinkedMap, FiniteSetTheorems, Ordering, TLAPS

\* The links in use, in the order of the list.
Listed(s) ==
  /\ s \in Seq(Links)
  /\ \A i, j \in 1..Len(s) : s[i] = s[j] => i = j
  /\ Live = {s[i] : i \in 1..Len(s)}
  /\ head = IF Len(s) = 0 THEN Nil ELSE s[1]
  /\ tail = IF Len(s) = 0 THEN Nil ELSE s[Len(s)]
  /\ \A i \in 1..Len(s) : /\ link[s[i]].prev = IF i = 1 THEN Nil ELSE s[i - 1]
                          /\ link[s[i]].next = IF i = Len(s) THEN Nil ELSE s[i + 1]

Typed == /\ DOMAIN m \subseteq Keys /\ m \in [DOMAIN m -> Links]
         /\ link \in [Links -> Link]
Keyed == \A k \in DOMAIN m : link[m[k]].key = k
IInv  == Typed /\ Keyed /\ \E s : Listed(s)

-----------------------------------------------------------------------------
\* The links in use are those m leads to, one for each key.
LEMMA LiveType ==
  ASSUME IInv
  PROVE  /\ Live \subseteq Links /\ Nil \notin Live
         /\ \A k \in DOMAIN m : m[k] \in Live
         /\ \A j, k \in DOMAIN m : m[j] = m[k] => j = k
         /\ \A l \in Links : link[l] \in Link
<1>1. \A k \in DOMAIN m : m[k] \in Links
  BY DEF IInv, Typed
<1> QED BY <1>1, LinksAssumption DEF Live, IInv, Typed, Keyed

\* What the sequence of links says of each of them.
LEMMA ListedType ==
  ASSUME IInv, NEW s, Listed(s)
  PROVE  /\ Len(s) \in Nat
         /\ \A i \in 1..Len(s) : s[i] \in Live /\ s[i] \in Links /\ s[i] # Nil
         /\ \A l \in Live : \E i \in 1..Len(s) : l = s[i]
BY LiveType DEF Listed

\* There is one link for each key.
LEMMA LengthIsSize ==
  ASSUME IInv, NEW s, Listed(s)
  PROVE  Len(s) = Size /\ Size \in Nat /\ Size <= Cardinality(Keys)
<1>1. IsFiniteSet(DOMAIN m) /\ Size \in Nat /\ Size <= Cardinality(Keys)
  BY FS_Subset, FS_CardinalityType, LinksAssumption DEF IInv, Typed, Size
<1>2. m \in Bijection(DOMAIN m, Live)
  <2>1. m \in [DOMAIN m -> Live] /\ IsInjective(m)
    BY LiveType DEF IInv, Typed, IsInjective
  <2>2. \A l \in Live : \E k \in DOMAIN m : m[k] = l
    BY DEF Live
  <2> QED BY <2>1, <2>2 DEF Bijection, Injection, Surjection
<1>3. Cardinality(Live) = Size
  BY <1>1, <1>2, FS_Bijection DEF ExistsBijection, Size
<1>4. [i \in 1..Len(s) |-> s[i]] \in Bijection(1..Len(s), Live)
  <2> DEFINE f == [i \in 1..Len(s) |-> s[i]]
  <2>1. f \in [1..Len(s) -> Live] /\ IsInjective(f)
    BY ListedType DEF Listed, IsInjective
  <2>2. \A l \in Live : \E i \in 1..Len(s) : f[i] = l
    BY ListedType
  <2> QED BY <2>1, <2>2 DEF Bijection, Injection, Surjection
<1>5. Cardinality(Live) = Len(s)
  BY <1>4, ListedType, FS_CountingElements DEF ExistsBijection
<1> QED BY <1>1, <1>3, <1>5

\* There are more addresses than keys, so that one is free for a new link.
LEMMA Allocates ==
  ASSUME IInv
  PROVE  NewLink \in Links /\ NewLink \notin Live /\ NewLink # Nil
<1>1. PICK s : Listed(s)
  BY DEF IInv
<1>2. Referred \cap Links \subseteq Live
  <2>1. {head, tail} \subseteq Live \cup {Nil}
    BY <1>1, ListedType DEF Listed
  <2>2. ASSUME NEW l \in Live PROVE {link[l].next, link[l].prev} \subseteq Live \cup {Nil}
    <3>1. PICK i \in 1..Len(s) : l = s[i]
      BY <1>1, ListedType
    <3>2. i # 1 => i - 1 \in 1..Len(s)
      BY <1>1, ListedType
    <3>3. i # Len(s) => i + 1 \in 1..Len(s)
      BY <1>1, ListedType
    <3> QED BY <1>1, <3>1, <3>2, <3>3, ListedType DEF Listed
  <2> QED BY <2>1, <2>2, LinksAssumption DEF Referred
<1>3. Cardinality(Live) <= Cardinality(Keys)
  <2>1. m \in Surjection(DOMAIN m, Live) /\ IsFiniteSet(DOMAIN m)
    BY FS_Subset, LinksAssumption DEF IInv, Typed, Live, Surjection
  <2>2. Cardinality(Live) <= Size /\ IsFiniteSet(Live)
    BY <2>1, FS_Surjection DEF Size
  <2> QED BY <1>1, <2>2, LengthIsSize, FS_CardinalityType, LinksAssumption
<1>4. Live # Links
  BY <1>3, FS_CardinalityType, LinksAssumption
<1>5. \E l \in Links : l \notin Referred
  BY <1>2, <1>4, LiveType
<1>6. NewLink \in Links /\ NewLink \notin Referred
  BY <1>5 DEF NewLink
<1> QED BY <1>6, LinksAssumption DEF Referred

\* A sequence of all links in use says all that Doubly and TypeOK say.
LEMMA ListedIsDoubly ==
  ASSUME IInv
  PROVE  TypeOK /\ Doubly
<1>1. PICK s : Listed(s)
  BY DEF IInv
<1>2. /\ s \in Seq(Links) /\ Len(s) \in Nat
      /\ \A i, j \in 1..Len(s) : s[i] = s[j] => i = j
      /\ \A i \in 1..Len(s) : s[i] \in Live /\ s[i] # Nil
      /\ head = IF Len(s) = 0 THEN Nil ELSE s[1]
      /\ tail = IF Len(s) = 0 THEN Nil ELSE s[Len(s)]
  BY <1>1, ListedType DEF Listed
<1>3. TypeOK
  <2>1. DOMAIN m = {} <=> Len(s) = 0
    <3>1. DOMAIN m = {} <=> Live = {}
      BY DEF Live
    <3> QED BY <1>1, <1>2, <3>1, ListedType
  <2> QED BY <1>2, <2>1 DEF TypeOK, IInv, Typed
<1>4. ASSUME NEW l \in Live
      PROVE  /\ link[l].prev = Nil <=> l = head
             /\ link[l].next = Nil <=> l = tail
             /\ l # tail => link[l].next \in Live /\ link[link[l].next].prev = l
             /\ l # head => link[l].prev \in Live /\ link[link[l].prev].next = l
  <2>1. PICK i \in 1..Len(s) : l = s[i]
    BY <1>1, ListedType
  <2>2. /\ link[l].prev = IF i = 1 THEN Nil ELSE s[i - 1]
        /\ link[l].next = IF i = Len(s) THEN Nil ELSE s[i + 1]
    BY <1>1, <2>1 DEF Listed
  <2>3. i # 1 => i - 1 \in 1..Len(s) /\ link[s[i - 1]].next = s[i]
    <3>1. i # 1 => i - 1 \in 1..Len(s) /\ i - 1 # Len(s) /\ (i - 1) + 1 = i
      BY <1>2
    <3> QED BY <1>1, <3>1 DEF Listed
  <2>4. i # Len(s) => i + 1 \in 1..Len(s) /\ link[s[i + 1]].prev = s[i]
    <3>1. i # Len(s) => i + 1 \in 1..Len(s) /\ i + 1 # 1 /\ (i + 1) - 1 = i
      BY <1>2
    <3> QED BY <1>1, <3>1 DEF Listed
  <2>5. (l = head <=> i = 1) /\ (l = tail <=> i = Len(s))
    BY <1>2, <2>1
  <2> QED BY <1>2, <2>1, <2>2, <2>3, <2>4, <2>5
<1> QED BY <1>3, <1>4 DEF Doubly, IInv, Keyed

-----------------------------------------------------------------------------
\* A key set again keeps its link, which gets the value.
LEMMA UpdateStep ==
  ASSUME IInv, NEW s, Listed(s), NEW k \in DOMAIN m, NEW v \in Values, Update(k, v)
  PROVE  /\ IInv' /\ Listed(s)'
         /\ \A l \in Links : /\ link'[l].key = link[l].key
                             /\ link'[l].value = IF l = m[k] THEN v ELSE link[l].value
<1>1. /\ UNCHANGED <<m, head, tail>> /\ Live' = Live /\ m[k] \in Links
      /\ \A l \in Links : link[l] \in Link
  BY LiveType DEF Update, Live
<1>2. \A l \in Links : /\ link'[l] \in Link /\ link'[l].key = link[l].key
                       /\ link'[l].value = IF l = m[k] THEN v ELSE link[l].value
                       /\ link'[l].next = link[l].next /\ link'[l].prev = link[l].prev
  BY <1>1 DEF Update, IInv, Typed, Link
<1>3. Typed'
  <2>1. link' \in [Links -> Link]
    BY <1>2 DEF Update, IInv, Typed
  <2> QED BY <1>1, <2>1 DEF IInv, Typed
<1>4. Listed(s)'
  BY <1>1, <1>2, ListedType DEF Listed
<1>5. Keyed'
  BY <1>1, <1>2, LiveType DEF IInv, Keyed
<1> QED BY <1>2, <1>3, <1>4, <1>5 DEF IInv

\* A new key gets a new link behind the tail.
LEMMA InsertStep ==
  ASSUME IInv, NEW s, Listed(s), NEW k \in Keys, NEW v \in Values, k \notin DOMAIN m,
         NEW n, n = NewLink, Insert(k, v)
  PROVE  /\ IInv' /\ Listed(Append(s, n))'
         /\ link'[n].key = k /\ link'[n].value = v
         /\ \A l \in Live : link'[l].key = link[l].key /\ link'[l].value = link[l].value
<1>1. n \in Links /\ n \notin Live /\ n # Nil
  BY Allocates
<1>2. /\ DOMAIN m' = DOMAIN m \cup {k} /\ m'[k] = n
      /\ \A j \in DOMAIN m : m'[j] = m[j]
  BY DEF Insert
<1>3. Live' = Live \cup {n} /\ Live \subseteq Links
  BY <1>2, LiveType DEF Live
<1>4. /\ tail' = n /\ head' = IF tail = Nil THEN n ELSE head
      /\ link' = LinkIn(n, k, v)
  BY DEF Insert
<1>5. /\ link'[n] = [key |-> k, value |-> v, next |-> Nil, prev |-> tail]
      /\ \A l \in Links \ {n} :
           /\ link'[l].key = link[l].key /\ link'[l].prev = link[l].prev
           /\ link'[l].value = link[l].value /\ link'[l] \in Link
           /\ link'[l].next = IF l = tail THEN n ELSE link[l].next
  BY <1>1, <1>4, LiveType DEF LinkIn, Link
<1>6. tail \in Links \cup {Nil}
  BY ListedType DEF Listed
<1>7. Typed'
  <2>1. link'[n] \in Link
    BY <1>5, <1>6 DEF Link
  <2>2. link' \in [Links -> Link]
    BY <1>4, <1>5, <2>1 DEF LinkIn
  <2> QED BY <1>1, <1>2, <2>2 DEF IInv, Typed, Insert
<1>8. Keyed'
  BY <1>1, <1>2, <1>3, <1>5, LiveType DEF IInv, Keyed
<1>9. Listed(Append(s, n))'
  <2> DEFINE t == Append(s, n)
  <2>1. /\ s \in Seq(Links) /\ t \in Seq(Links) /\ Len(t) = Len(s) + 1 /\ Len(s) \in Nat
        /\ t[Len(t)] = n /\ \A i \in 1..Len(s) : t[i] = s[i]
    BY <1>1 DEF Listed
  <2> HIDE DEF t
  <2>2. \A i \in 1..Len(s) : t[i] = s[i] /\ s[i] \in Live /\ s[i] # n /\ s[i] \in Links \ {n}
    BY <1>1, <2>1, ListedType
  <2>3. ASSUME NEW i \in 1..Len(t), NEW j \in 1..Len(t), t[i] = t[j] PROVE i = j
    <3>1. (i \in 1..Len(s) \/ i = Len(t)) /\ (j \in 1..Len(s) \/ j = Len(t))
      BY <2>1
    <3>2. i \in 1..Len(s) /\ j \in 1..Len(s) => s[i] = s[j]
      BY <2>2, <2>3
    <3> QED BY <2>1, <2>2, <2>3, <3>1, <3>2 DEF Listed
  <2>4. Live' = {t[i] : i \in 1..Len(t)}
    <3>1. {t[i] : i \in 1..Len(t)} = {s[i] : i \in 1..Len(s)} \cup {n}
      BY <2>1
    <3> QED BY <1>3, <3>1 DEF Listed
  <2>5. head' = t[1] /\ tail' = t[Len(t)]
    <3>1. tail = Nil <=> Len(s) = 0
      BY <2>2, LinksAssumption, ListedType DEF Listed
    <3> QED BY <1>4, <2>1, <3>1 DEF Listed
  <2>6. ASSUME NEW i \in 1..Len(t)
        PROVE  /\ link'[t[i]].prev = IF i = 1 THEN Nil ELSE t[i - 1]
               /\ link'[t[i]].next = IF i = Len(t) THEN Nil ELSE t[i + 1]
    <3>1. CASE i = Len(t)
      BY <1>5, <2>1, <3>1 DEF Listed
    <3>2. CASE i # Len(t)
      <4>1. i \in 1..Len(s) /\ t[i] = s[i] /\ s[i] \in Links \ {n}
        BY <2>1, <2>2, <3>2
      <4>2. /\ link'[t[i]].prev = link[s[i]].prev
            /\ link'[t[i]].next = IF s[i] = tail THEN n ELSE link[s[i]].next
        BY <1>5, <4>1
      <4>3. s[i] = tail <=> i = Len(s)
        BY <2>1, <4>1 DEF Listed
      <4>4. link'[t[i]].prev = IF i = 1 THEN Nil ELSE t[i - 1]
        <5>1. i # 1 => i - 1 \in 1..Len(s)
          BY <2>1, <4>1
        <5> QED BY <2>1, <4>1, <4>2, <5>1 DEF Listed
      <4>5. link'[t[i]].next = t[i + 1]
        <5>1. i # Len(s) => i + 1 \in 1..Len(s) /\ t[i + 1] = s[i + 1]
          BY <2>1, <4>1
        <5>2. i = Len(s) => t[i + 1] = n
          BY <2>1
        <5> QED BY <4>1, <4>2, <4>3, <5>1, <5>2 DEF Listed
      <4> QED BY <3>2, <4>4, <4>5
    <3> QED BY <3>1, <3>2
  <2>7. Listed(t)'
    BY <2>1, <2>3, <2>4, <2>5, <2>6 DEF Listed
  <2> QED BY <2>7 DEF t
<1> QED BY <1>1, <1>3, <1>5, <1>7, <1>8, <1>9 DEF IInv

\* The link of a key taken out leaves the sequence, its neighbours become neighbours.
LEMMA RemoveStep ==
  ASSUME IInv, NEW s, Listed(s), NEW p \in 1..Len(s), NEW k \in Keys, Remove(k), s[p] = m[k]
  PROVE  /\ IInv' /\ Listed(Abstract!Without(s, p))'
         /\ \A l \in Links : link'[l].key = link[l].key /\ link'[l].value = link[l].value
<1> DEFINE l == s[p]
           t == Abstract!Without(s, p)
           before == IF p = 1 THEN Nil ELSE s[p - 1]
           behind == IF p = Len(s) THEN Nil ELSE s[p + 1]
<1>1. /\ s \in Seq(Links) /\ Len(s) \in Nat
      /\ \A i, j \in 1..Len(s) : s[i] = s[j] => i = j
      /\ \A i \in 1..Len(s) : s[i] \in Live /\ s[i] \in Links /\ s[i] # Nil
      /\ head = s[1] /\ tail = s[Len(s)]
      /\ \A i \in 1..Len(s) : /\ link[s[i]].prev = IF i = 1 THEN Nil ELSE s[i - 1]
                              /\ link[s[i]].next = IF i = Len(s) THEN Nil ELSE s[i + 1]
  <2>1. Len(s) \in Nat /\ Len(s) # 0
    BY ListedType
  <2>2. head = s[1] /\ tail = s[Len(s)]
    BY <2>1 DEF Listed
  <2> QED BY <2>1, <2>2, ListedType DEF Listed
<1>2. /\ p # 1 => p - 1 \in 1..Len(s)
      /\ p # Len(s) => p + 1 \in 1..Len(s)
  BY <1>1
<1>3. /\ head = l <=> p = 1
      /\ tail = l <=> p = Len(s)
      /\ before \in Links \cup {Nil} /\ behind \in Links \cup {Nil}
  BY <1>1, <1>2
<1>4. LinkOut(l, before, behind)
  BY <1>1 DEF Remove
<1>5. /\ DOMAIN m' = DOMAIN m \ {k} /\ m' \in [DOMAIN m' -> Links]
      /\ \A j \in DOMAIN m' : m'[j] = m[j] /\ m[j] # l
  BY LiveType DEF Remove, IInv, Typed
<1>6. Live' = Live \ {l}
  BY <1>5, LiveType DEF Live
<1>7. \A x \in Links :
        /\ link'[x].next = IF p # 1 /\ x = s[p - 1] THEN behind ELSE link[x].next
        /\ link'[x].prev = IF p # Len(s) /\ x = s[p + 1] THEN before ELSE link[x].prev
        /\ link'[x].key = link[x].key /\ link'[x].value = link[x].value /\ link'[x] \in Link
  <2> USE DEF IInv, Typed
  <2>0. \A x \in Links : link[x] \in Link
    BY LiveType
  <2>1. CASE p = 1 /\ p = Len(s)
    BY <1>3, <1>4, <2>0, <2>1 DEF LinkOut
  <2>2. CASE p # 1 /\ p = Len(s)
    <3>1. link' = [link EXCEPT ![s[p - 1]].next = Nil]
      BY <1>3, <1>4, <2>2 DEF LinkOut
    <3> QED BY <1>1, <1>2, <2>0, <2>2, <3>1 DEF Link
  <2>3. CASE p = 1 /\ p # Len(s)
    <3>1. link' = [link EXCEPT ![s[p + 1]].prev = Nil]
      BY <1>3, <1>4, <2>3 DEF LinkOut
    <3>2. s[p + 1] \in Links
      BY <1>1, <1>2, <2>3
    <3>3. \A x \in Links :
            /\ link'[x].next = link[x].next
            /\ link'[x].prev = IF x = s[p + 1] THEN Nil ELSE link[x].prev
            /\ link'[x].key = link[x].key /\ link'[x].value = link[x].value /\ link'[x] \in Link
      BY <2>0, <3>1, <3>2 DEF Link
    <3> QED BY <2>3, <3>3
  <2>4. CASE p # 1 /\ p # Len(s)
    <3>1. link' = [link EXCEPT ![s[p - 1]].next = s[p + 1], ![s[p + 1]].prev = s[p - 1]]
      BY <1>3, <1>4, <2>4 DEF LinkOut
    <3> QED BY <1>1, <1>2, <2>0, <2>4, <3>1 DEF Link
  <2> QED BY <2>1, <2>2, <2>3, <2>4
<1>8. Typed'
  <2>1. link' \in [Links -> Link]
    BY <1>4, <1>7 DEF LinkOut, IInv, Typed
  <2> QED BY <1>5, <2>1 DEF IInv, Typed
<1>9. Keyed'
  BY <1>5, <1>7, LiveType DEF IInv, Keyed
<1>10. /\ head' = IF p = 1 THEN behind ELSE head
       /\ tail' = IF p = Len(s) THEN before ELSE tail
  BY <1>3, <1>4 DEF LinkOut
<1>11. /\ t \in Seq(Links) /\ Len(t) = Len(s) - 1
       /\ \A i \in 1..Len(t) : /\ t[i] = s[IF i < p THEN i ELSE i + 1]
                               /\ i < p => i \in 1..Len(s) /\ t[i] = s[i]
                               /\ i >= p => i + 1 \in 1..Len(s) /\ t[i] = s[i + 1]
  <2>1. \A i \in 1..Len(s) - 1 : s[IF i < p THEN i ELSE i + 1] \in Links
    BY <1>1
  <2> QED BY <1>1, <2>1 DEF Abstract!Without
<1> HIDE DEF l, t, before, behind
<1>12. ASSUME NEW i \in 1..Len(t), NEW j \in 1..Len(t), t[i] = t[j] PROVE i = j
  BY <1>1, <1>11, <1>12
<1>13. Live' = {t[i] : i \in 1..Len(t)}
  <2>1. ASSUME NEW x \in Live, x # l PROVE \E i \in 1..Len(t) : x = t[i]
    <3>1. PICK i \in 1..Len(s) : x = s[i]
      BY ListedType
    <3>2. i < p => i \in 1..Len(t) /\ t[i] = x
      BY <1>1, <1>11, <3>1
    <3>3. i > p => i - 1 \in 1..Len(t) /\ t[i - 1] = x
      <4>1. i > p => i - 1 \in 1..Len(t) /\ i - 1 >= p /\ (i - 1) + 1 = i
        BY <1>1, <1>11, <3>1
      <4> QED BY <1>11, <3>1, <4>1
    <3>4. i # p
      BY <2>1, <3>1 DEF l
    <3> QED BY <1>1, <3>1, <3>2, <3>3, <3>4
  <2>2. ASSUME NEW i \in 1..Len(t) PROVE t[i] \in Live /\ t[i] # l
    <3>1. CASE i < p
      BY <1>1, <1>11, <3>1 DEF l
    <3>2. CASE i >= p
      <4>1. i + 1 \in 1..Len(s) /\ t[i] = s[i + 1] /\ i + 1 # p
        BY <1>1, <1>11, <3>2
      <4> QED BY <1>1, <4>1 DEF l
    <3> QED BY <1>11, <3>1, <3>2
  <2> QED BY <1>6, <2>1, <2>2
<1>14. /\ head' = IF Len(t) = 0 THEN Nil ELSE t[1]
       /\ tail' = IF Len(t) = 0 THEN Nil ELSE t[Len(t)]
  <2>1. Len(t) = 0 => head' = Nil /\ tail' = Nil
    <3>0. Len(t) = 0 => Len(s) = 1
      BY <1>1, <1>11
    <3>1. Len(s) = 1 => p = 1 /\ p = Len(s)
      OBVIOUS
    <3> QED BY <1>10, <3>0, <3>1 DEF before, behind
  <2>2. ASSUME Len(t) # 0 PROVE head' = t[1] /\ tail' = t[Len(t)]
    <3>1. 1 \in 1..Len(t) /\ Len(t) \in 1..Len(t)
      BY <1>1, <1>11, <2>2
    <3>2. head' = t[1]
      BY <1>1, <1>10, <1>11, <2>2, <3>1 DEF behind
    <3>3. tail' = t[Len(t)]
      BY <1>1, <1>10, <1>11, <2>2, <3>1 DEF before
    <3> QED BY <3>2, <3>3
  <2> QED BY <2>1, <2>2
<1>15. ASSUME NEW i \in 1..Len(t)
       PROVE  /\ link'[t[i]].prev = IF i = 1 THEN Nil ELSE t[i - 1]
              /\ link'[t[i]].next = IF i = Len(t) THEN Nil ELSE t[i + 1]
  <2>0. /\ i # 1 => i - 1 \in 1..Len(t)
        /\ i # Len(t) => i + 1 \in 1..Len(t)
    BY <1>1, <1>11
  <2>1. CASE i < p
    <3>1. i \in 1..Len(s) /\ t[i] = s[i] /\ s[i] \in Links
      BY <1>1, <1>11, <2>1
    <3>2. p # Len(s) => s[i] # s[p + 1]
      <4>1. i # p + 1
        BY <1>1, <2>1
      <4> QED BY <1>1, <1>2, <3>1, <4>1
    <3>3. (p # 1 /\ s[i] = s[p - 1]) <=> i = p - 1
      BY <1>1, <1>2, <2>1, <3>1
    <3>4. link'[t[i]].prev = IF i = 1 THEN Nil ELSE t[i - 1]
      <4>1. link'[t[i]].prev = IF i = 1 THEN Nil ELSE s[i - 1]
        BY <1>1, <1>7, <3>1, <3>2
      <4>2. i # 1 => t[i - 1] = s[i - 1]
        BY <1>11, <2>0, <2>1
      <4> QED BY <4>1, <4>2
    <3>5. link'[t[i]].next = IF i = Len(t) THEN Nil ELSE t[i + 1]
      <4>1. CASE i = p - 1
        <5>1. link'[t[i]].next = IF p = Len(s) THEN Nil ELSE s[p + 1]
          BY <1>7, <3>1, <3>3, <4>1 DEF behind
        <5>2. i = Len(t) <=> p = Len(s)
          BY <1>1, <1>11, <4>1
        <5>3. i # Len(t) => t[i + 1] = s[p + 1]
          BY <1>11, <2>0, <4>1
        <5> QED BY <5>1, <5>2, <5>3
      <4>2. CASE i # p - 1
        <5>0. i # Len(s) /\ link[s[i]].next = s[i + 1]
          <6>1. i # Len(s)
            BY <1>1, <2>1
          <6> QED BY <1>1, <3>1, <6>1
        <5>1. link'[t[i]].next = s[i + 1]
          BY <1>7, <3>1, <3>3, <4>2, <5>0
        <5>2. i # Len(t) /\ i + 1 < p
          BY <1>1, <1>11, <2>1, <4>2
        <5> QED BY <1>11, <2>0, <5>1, <5>2
      <4> QED BY <4>1, <4>2
    <3> QED BY <3>4, <3>5
  <2>2. CASE i >= p
    <3>1. i + 1 \in 1..Len(s) /\ t[i] = s[i + 1] /\ s[i + 1] \in Links
      BY <1>1, <1>11, <2>2
    <3>2. p # 1 => s[i + 1] # s[p - 1]
      <4>1. i + 1 # p - 1
        BY <1>1, <2>2
      <4> QED BY <1>1, <1>2, <3>1, <4>1
    <3>3. (p # Len(s) /\ s[i + 1] = s[p + 1]) <=> i = p
      BY <1>1, <1>2, <2>2, <3>1
    <3>4. link'[t[i]].next = IF i = Len(t) THEN Nil ELSE t[i + 1]
      <4>1. link'[t[i]].next = IF i + 1 = Len(s) THEN Nil ELSE s[(i + 1) + 1]
        BY <1>1, <1>7, <3>1, <3>2
      <4>2. i + 1 = Len(s) <=> i = Len(t)
        BY <1>1, <1>11
      <4>3. i # Len(t) => t[i + 1] = s[(i + 1) + 1]
        BY <1>11, <2>0, <2>2
      <4> QED BY <4>1, <4>2, <4>3
    <3>5. link'[t[i]].prev = IF i = 1 THEN Nil ELSE t[i - 1]
      <4>1. CASE i = p
        <5>1. link'[t[i]].prev = IF p = 1 THEN Nil ELSE s[p - 1]
          BY <1>7, <3>1, <3>3, <4>1 DEF before
        <5>2. i # 1 => t[i - 1] = s[p - 1]
          BY <1>11, <2>0, <4>1
        <5> QED BY <4>1, <5>1, <5>2
      <4>2. CASE i # p
        <5>0. link[s[i + 1]].prev = s[i]
          <6>1. i + 1 # 1 /\ (i + 1) - 1 = i
            BY <1>11
          <6> QED BY <1>1, <3>1, <6>1
        <5>1. link'[t[i]].prev = s[i]
          BY <1>7, <3>1, <3>3, <4>2, <5>0
        <5>2. i # 1 /\ i - 1 >= p /\ (i - 1) + 1 = i
          BY <1>11, <2>2, <4>2
        <5>3. t[i - 1] = s[(i - 1) + 1]
          BY <1>11, <2>0, <5>2
        <5> QED BY <5>1, <5>2, <5>3
      <4> QED BY <4>1, <4>2
    <3> QED BY <3>4, <3>5
  <2> QED BY <1>11, <2>1, <2>2
<1>16. Listed(t)'
  BY <1>11, <1>12, <1>13, <1>14, <1>15 DEF Listed
<1> QED BY <1>7, <1>8, <1>9, <1>16 DEF IInv, t

\* A new map is the empty list.
LEMMA InitListed ==
  ASSUME Init
  PROVE  IInv /\ Listed(<<>>)
<1>1. Typed /\ Keyed
  BY DEF Init, Typed, Keyed, Link
<1>2. Listed(<<>>)
  BY DEF Init, Listed, Live
<1> QED BY <1>1, <1>2 DEF IInv

\* In every state all links in use stand in one sequence, which next and prev follow.
THEOREM Invariance == Spec => []IInv
<1>1. Init => IInv
  BY InitListed
<1>2. IInv /\ [Next]_vars => IInv'
  <2> SUFFICES ASSUME IInv, [Next]_vars PROVE IInv'
    OBVIOUS
  <2>1. PICK s : Listed(s)
    BY DEF IInv
  <2>2. ASSUME NEW k \in Keys, NEW v \in Values, Set(k, v) PROVE IInv'
    BY <2>1, <2>2, UpdateStep, InsertStep DEF Set
  <2>3. ASSUME NEW k \in Keys, Remove(k) PROVE IInv'
    <3>1. \E p \in 1..Len(s) : s[p] = m[k]
      BY <2>1, <2>3, LiveType, ListedType DEF Remove
    <3> QED BY <2>1, <2>3, <3>1, RemoveStep
  <2>4. CASE Clear
    <3>1. Typed' /\ Keyed'
      BY <2>4 DEF Clear, IInv, Typed, Keyed
    <3>2. Listed(<<>>)'
      BY <2>4 DEF Clear, Listed, Live
    <3> QED BY <3>1, <3>2 DEF IInv
  <2>5. CASE UNCHANGED vars
    <3>1. UNCHANGED <<m, head, tail, link>> /\ Live' = Live
      BY <2>5 DEF vars, Live
    <3>2. Typed' /\ Keyed'
      BY <3>1 DEF IInv, Typed, Keyed
    <3>3. Listed(s)'
      BY <2>1, <3>1 DEF Listed
    <3> QED BY <3>2, <3>3 DEF IInv
  <2> QED BY <2>2, <2>3, <2>4, <2>5 DEF Next
<1> QED BY <1>1, <1>2, PTL DEF Spec

\* The types of the state, whose head and tail are links in use.
THEOREM TypeCorrect == Spec => []TypeOK
BY Invariance, ListedIsDoubly, PTL

\* The list is doubly linked: next and prev are inverse to each other.
THEOREM ListIsDoubly == Spec => []Doubly
BY Invariance, ListedIsDoubly, PTL

-----------------------------------------------------------------------------
\* The walk along next meets the links in the order of the sequence, then Nil.
LEMMA WalkIs ==
  ASSUME IInv, NEW s, Listed(s)
  PROVE  Walked = [n \in 0..Cardinality(Keys) + 1 |-> IF n < Len(s) THEN s[n + 1] ELSE Nil]
<1> DEFINE D == 0..Cardinality(Keys) + 1
           f == [n \in D |-> IF n < Len(s) THEN s[n + 1] ELSE Nil]
           After(g) == [n \in D |-> IF n = 0 THEN head
                                    ELSE IF g[n - 1] = Nil THEN Nil ELSE link[g[n - 1]].next]
<1>1. Cardinality(Keys) \in Nat /\ Len(s) \in Nat
  BY ListedType, FS_CardinalityType, LinksAssumption
<1>2. \A n \in D : f[n] = IF n = 0 THEN head ELSE IF f[n - 1] = Nil THEN Nil ELSE link[f[n - 1]].next
  <2> SUFFICES ASSUME NEW n \in D
               PROVE  f[n] = IF n = 0 THEN head
                             ELSE IF f[n - 1] = Nil THEN Nil ELSE link[f[n - 1]].next
    OBVIOUS
  <2>1. CASE n = 0
    BY <1>1, <2>1 DEF Listed
  <2>2. CASE n # 0
    <3>1. n - 1 \in D
      BY <1>1, <2>2
    <3>2. CASE n - 1 < Len(s)
      <4>1. n \in 1..Len(s) /\ f[n - 1] = s[n] /\ s[n] # Nil
        BY <1>1, <2>2, <3>1, <3>2, ListedType
      <4>2. link[s[n]].next = IF n = Len(s) THEN Nil ELSE s[n + 1]
        BY <4>1 DEF Listed
      <4>3. f[n] = IF n = Len(s) THEN Nil ELSE s[n + 1]
        BY <1>1, <4>1
      <4> QED BY <2>2, <4>1, <4>2, <4>3
    <3>3. CASE ~(n - 1 < Len(s))
      BY <1>1, <2>2, <3>1, <3>3
    <3> QED BY <3>2, <3>3
  <2> QED BY <2>1, <2>2
<1>3. f = After(f)
  BY <1>2
<1>4. ASSUME NEW g, g = After(g) PROVE g = f
  <2> DEFINE T == {n \in D : g[n] # f[n]}
  <2>1. ASSUME T # {} PROVE FALSE
    <3>1. PICK n \in T : \A x \in T : n <= x
      <4>1. T \subseteq Nat
        BY <1>1
      <4> QED BY <2>1, <4>1, Smallest
    <3>2. g[n] = IF n = 0 THEN head ELSE IF g[n - 1] = Nil THEN Nil ELSE link[g[n - 1]].next
      BY <1>4
    <3>3. f[n] = IF n = 0 THEN head ELSE IF f[n - 1] = Nil THEN Nil ELSE link[f[n - 1]].next
      BY <1>2
    <3>4. n # 0 => n - 1 \in D /\ n - 1 \notin T
      BY <1>1, <3>1
    <3> HIDE DEF f
    <3> QED BY <3>2, <3>3, <3>4
  <2>2. \A n \in D : g[n] = f[n]
    BY <2>1
  <2> QED BY <1>4, <2>2
<1>5. Walked = CHOOSE g : g = After(g)
  BY DEF Walked
<1> HIDE DEF f, After
<1>6. Walked = f
  BY <1>3, <1>4, <1>5
<1> QED BY <1>6 DEF f

\* The entries of the links of s, in their order.
Recorded(s) == [p \in 1..Len(s) |-> [key |-> link[s[p]].key, value |-> link[s[p]].value]]

\* Keys and Values read the entries of the links in the order of the sequence.
LEMMA EntriesAre == IInv => \A s : Listed(s) => Entries = Recorded(s)
<1> SUFFICES ASSUME IInv, NEW s, Listed(s) PROVE Entries = Recorded(s)
  OBVIOUS
<1> DEFINE N == Cardinality(Keys)
<1>1. N \in Nat /\ Len(s) \in Nat /\ Len(s) <= N
  BY ListedType, LengthIsSize, FS_CardinalityType, LinksAssumption
<1>2. \A n \in 0..N : Walked[n] = IF n < Len(s) THEN s[n + 1] ELSE Nil
  <2>1. \A n \in 0..N : n \in 0..N + 1
    BY <1>1
  <2> QED BY <2>1, WalkIs
<1>3. Steps = 0..Len(s) - 1
  <2>1. \A n \in 0..N : n < Len(s) => s[n + 1] # Nil
    BY <1>1, ListedType
  <2> QED BY <1>1, <1>2, <2>1 DEF Steps
<1>4. Cardinality(Steps) = Len(s)
  <2>1. Cardinality(0..Len(s) - 1) = IF 0 > Len(s) - 1 THEN 0 ELSE Len(s) - 1 - 0 + 1
    <3>1. 0 \in Int /\ Len(s) - 1 \in Int
      BY <1>1
    <3> QED BY <3>1, FS_Interval
  <2> QED BY <1>1, <1>3, <2>1
<1>5. \A p \in 1..Len(s) : Walked[p - 1] = s[p]
  BY <1>1, <1>2
<1> QED BY <1>4, <1>5 DEF Entries, Recorded

LEMMA EntriesAreThen == (IInv => \A s : Listed(s) => Entries = Recorded(s))'
BY EntriesAre, PTL

\* An entry stands where the link of its key stands.
LEMMA PlaceOf ==
  ASSUME IInv, NEW s, Listed(s)
  PROVE  /\ Entries = Recorded(s) /\ DOMAIN Entries = 1..Len(s) /\ Len(Entries) = Len(s)
         /\ \A k \in DOMAIN m : \E p \in 1..Len(s) : s[p] = m[k]
         /\ \A k : \A p \in 1..Len(s) : Entries[p].key = k <=> k \in DOMAIN m /\ s[p] = m[k]
         /\ \A k : Abstract!HasKey(k) <=> k \in DOMAIN m
         /\ \A k \in DOMAIN m : \A p \in 1..Len(s) : s[p] = m[k] => Abstract!Position(k) = p
<1>1. Entries = Recorded(s) /\ Len(s) \in Nat
  BY EntriesAre, ListedType
<1>2. DOMAIN Entries = 1..Len(s) /\ Len(Entries) = Len(s)
  BY <1>1 DEF Recorded
<1>3. \A k \in DOMAIN m : \E p \in 1..Len(s) : s[p] = m[k]
  BY LiveType, ListedType
<1>4. ASSUME NEW k, NEW p \in 1..Len(s)
      PROVE  Entries[p].key = k <=> k \in DOMAIN m /\ s[p] = m[k]
  <2>1. Entries[p].key = link[s[p]].key
    BY <1>1 DEF Recorded
  <2>2. PICK j \in DOMAIN m : s[p] = m[j]
    BY ListedType DEF Live
  <2>3. link[s[p]].key = j
    BY <2>2 DEF IInv, Keyed
  <2> QED BY <2>1, <2>2, <2>3 DEF IInv, Keyed
<1>5. \A k : Abstract!HasKey(k) <=> k \in DOMAIN m
  BY <1>2, <1>3, <1>4 DEF Abstract!HasKey
<1>6. ASSUME NEW k \in DOMAIN m, NEW p \in 1..Len(s), s[p] = m[k]
      PROVE  Abstract!Position(k) = p
  <2>1. \A q \in 1..Len(s) : Entries[q].key = k <=> q = p
    BY <1>4, <1>6 DEF Listed
  <2> QED BY <1>2, <2>1 DEF Abstract!Position
<1> QED BY <1>1, <1>2, <1>3, <1>4, <1>5, <1>6

\* Both readings agree as long as the list is well formed.
LEMMA ReadsAgree == IInv => GetAgrees
<1> SUFFICES ASSUME IInv PROVE GetAgrees
  OBVIOUS
<1>1. PICK s : Listed(s)
  BY DEF IInv
<1>2. Len(Entries) = Size
  BY <1>1, PlaceOf, LengthIsSize
<1>3. ASSUME NEW k \in Keys, NEW at, at = {p \in DOMAIN Entries : Entries[p].key = k}
      PROVE  Get(k) = IF at = {} THEN <<>> ELSE <<Entries[CHOOSE p \in at : TRUE].value>>
  <2>1. CASE k \notin DOMAIN m
    BY <1>1, <1>3, <2>1, PlaceOf DEF Get
  <2>2. CASE k \in DOMAIN m
    <3>1. PICK p \in 1..Len(s) : s[p] = m[k]
      BY <1>1, <2>2, PlaceOf
    <3>2. \A q \in 1..Len(s) : Entries[q].key = k <=> q = p
      <4>1. \A q \in 1..Len(s) : Entries[q].key = k <=> s[q] = m[k]
        BY <1>1, <2>2, PlaceOf
      <4>2. \A q \in 1..Len(s) : s[q] = s[p] => q = p
        BY <1>1, <3>1 DEF Listed
      <4> QED BY <3>1, <4>1, <4>2
    <3>3. at = {p}
      BY <1>1, <1>3, <3>2, PlaceOf
    <3>4. (CHOOSE q \in at : TRUE) = p
      BY <3>3
    <3>5. Entries[p].value = link[m[k]].value
      BY <1>1, <3>1, PlaceOf DEF Recorded
    <3> QED BY <2>2, <3>3, <3>4, <3>5 DEF Get
  <2> QED BY <2>1, <2>2
<1> QED BY <1>2, <1>3 DEF GetAgrees

\* Get and Size, which ask m, know the keys and values that Keys and Values find
\* along the list.
THEOREM ReadingsAgree == Spec => []GetAgrees
BY Invariance, ReadsAgree, PTL

-----------------------------------------------------------------------------
\* Each operation of the list is the one of the dictionary.
LEMMA UpdateSets ==
  ASSUME IInv, NEW k \in DOMAIN m, NEW v \in Values, Update(k, v)
  PROVE  Abstract!Set(k, v)
<1>1. PICK s : Listed(s)
  BY DEF IInv
<1>2. PICK p \in 1..Len(s) : s[p] = m[k]
  BY <1>1, PlaceOf
<1>3. Entries' = Recorded(s)'
  BY <1>1, UpdateStep, EntriesAreThen
<1>4. \A i \in 1..Len(s) : s[i] \in Links /\ (s[i] = m[k] <=> i = p)
  BY <1>1, <1>2, ListedType DEF Listed
<1>5. Recorded(s)' = [Recorded(s) EXCEPT ![p].value = v]
  <2>1. \A i \in 1..Len(s) : /\ link'[s[i]].key = link[s[i]].key
                            /\ link'[s[i]].value = IF i = p THEN v ELSE link[s[i]].value
    BY <1>1, <1>4, UpdateStep
  <2> QED BY <1>2, <2>1 DEF Recorded
<1>6. Abstract!HasKey(k) /\ Abstract!Position(k) = p /\ Entries = Recorded(s)
  BY <1>1, <1>2, PlaceOf
<1> QED BY <1>3, <1>5, <1>6 DEF Abstract!Set

LEMMA InsertSets ==
  ASSUME IInv, NEW k \in Keys, NEW v \in Values, k \notin DOMAIN m, Insert(k, v)
  PROVE  Abstract!Set(k, v)
<1>1. PICK s : Listed(s)
  BY DEF IInv
<1>0. PICK n : n = NewLink
  OBVIOUS
<1> DEFINE t == Append(s, n)
<1>2. /\ IInv' /\ Listed(t)'
      /\ link'[n].key = k /\ link'[n].value = v
      /\ \A l \in Live : link'[l].key = link[l].key /\ link'[l].value = link[l].value
  BY <1>0, <1>1, InsertStep
<1>3. Entries' = Recorded(t)'
  BY <1>2, EntriesAreThen
<1>4. /\ Len(s) \in Nat /\ Len(t) = Len(s) + 1 /\ t[Len(t)] = n
      /\ \A i \in 1..Len(s) : t[i] = s[i] /\ s[i] \in Live
  BY <1>0, <1>1, ListedType, Allocates DEF Listed
<1> HIDE DEF t
<1>5. Recorded(t)' = Append(Recorded(s), [key |-> k, value |-> v])
  <2> DEFINE u == Recorded(s)
             w == Append(u, [key |-> k, value |-> v])
             r == [p \in 1..Len(t) |-> [key |-> link'[t[p]].key, value |-> link'[t[p]].value]]
  <2>1. Recorded(t)' = r
    BY DEF Recorded
  <2>2. u \in Seq({u[i] : i \in 1..Len(s)}) /\ Len(u) = Len(s)
    BY <1>4 DEF Recorded
  <2>3. DOMAIN w = 1..Len(s) + 1 /\ w[Len(s) + 1] = [key |-> k, value |-> v]
        /\ \A i \in 1..Len(s) : w[i] = u[i]
    BY <1>4, <2>2
  <2>4. \A i \in 1..Len(s) : r[i] = u[i] /\ i \in DOMAIN r
    BY <1>2, <1>4 DEF Recorded
  <2>5. r[Len(s) + 1] = [key |-> k, value |-> v]
    BY <1>2, <1>4
  <2>6. r = w
    <3>1. DOMAIN r = 1..Len(s) + 1
      BY <1>4
    <3>2. \A i \in 1..Len(s) + 1 : i \in 1..Len(s) \/ i = Len(s) + 1
      BY <1>4
    <3>3. \A i \in 1..Len(s) + 1 : r[i] = w[i]
      BY <2>3, <2>4, <2>5, <3>2
    <3>4. r = [i \in DOMAIN r |-> r[i]] /\ w = [i \in DOMAIN w |-> w[i]]
      BY <2>2
    <3> HIDE DEF r, w
    <3> QED BY <2>3, <3>1, <3>3, <3>4
  <2> QED BY <2>1, <2>6
<1> QED BY <1>1, <1>3, <1>5, PlaceOf DEF Abstract!Set

LEMMA RemoveRemoves ==
  ASSUME IInv, NEW k \in Keys, Remove(k)
  PROVE  Abstract!Remove(k)
<1>1. PICK s : Listed(s)
  BY DEF IInv
<1>2. PICK p \in 1..Len(s) : s[p] = m[k]
  BY <1>1, PlaceOf DEF Remove
<1> DEFINE t == Abstract!Without(s, p)
<1>3. /\ IInv' /\ Listed(t)'
      /\ \A l \in Links : link'[l].key = link[l].key /\ link'[l].value = link[l].value
  BY <1>1, <1>2, RemoveStep
<1>4. Entries' = Recorded(t)'
  BY <1>3, EntriesAreThen
<1>5. /\ Len(s) \in Nat /\ Len(t) = Len(s) - 1
      /\ \A i \in 1..Len(s) - 1 : /\ t[i] = s[IF i < p THEN i ELSE i + 1]
                                 /\ (IF i < p THEN i ELSE i + 1) \in 1..Len(s)
  BY <1>1, ListedType DEF Abstract!Without
<1>6. \A i \in 1..Len(s) : s[i] \in Links
  BY <1>1, ListedType
<1> HIDE DEF t
<1>7. Recorded(t)' = Abstract!Without(Recorded(s), p)
  <2>1. Len(Recorded(s)) = Len(s)
    BY <1>5 DEF Recorded
  <2>2. \A i \in 1..Len(s) - 1 :
           [key |-> link'[t[i]].key, value |-> link'[t[i]].value]
             = Recorded(s)[IF i < p THEN i ELSE i + 1]
    BY <1>3, <1>5, <1>6 DEF Recorded
  <2> QED BY <1>5, <2>1, <2>2 DEF Recorded, Abstract!Without
<1> QED BY <1>1, <1>2, <1>4, <1>7, PlaceOf DEF Abstract!Remove, Remove

\* The list is the dictionary: a new key comes last, a key set again keeps its
\* place, and a key removed and set again comes last.
THEOREM ListIsDictionary == Spec => IsDictionary
<1>1. Init => Abstract!Init
  <2> SUFFICES ASSUME Init PROVE Entries = <<>>
    BY DEF Abstract!Init
  <2>1. IInv /\ Listed(<<>>)
    BY InitListed
  <2> QED BY <2>1, EntriesAre DEF Recorded
<1>2. IInv /\ IInv' /\ [Next]_vars => [Abstract!Next]_Entries
  <2> SUFFICES ASSUME IInv, IInv', [Next]_vars PROVE Abstract!Next \/ UNCHANGED Entries
    OBVIOUS
  <2>1. ASSUME NEW k \in Keys, NEW v \in Values, Set(k, v) PROVE Abstract!Set(k, v)
    BY <2>1, UpdateSets, InsertSets DEF Set
  <2>2. ASSUME NEW k \in Keys, Remove(k) PROVE Abstract!Remove(k)
    BY <2>2, RemoveRemoves
  <2>3. CASE Clear
    <3>1. Listed(<<>>)'
      BY <2>3 DEF Clear, Listed, Live
    <3>2. Entries' = Recorded(<<>>)'
      BY <3>1, EntriesAreThen
    <3> QED BY <3>2 DEF Recorded, Abstract!Next, Abstract!Clear
  <2>4. CASE UNCHANGED vars
    BY <2>4 DEF vars, Entries, Steps, Walked
  <2> QED BY <2>1, <2>2, <2>3, <2>4 DEF Next, Abstract!Next
<1> QED BY <1>1, <1>2, Invariance, PTL DEF Spec, IsDictionary, Abstract!Spec
=============================================================================
