-------------------------------- MODULE Trees --------------------------------
(***************************************************************************)
(* The values of type obj: a types.Map holds texts, Maps and lists of such *)
(* values under its keys, in the order they were set.  A tree is the list  *)
(* of all entries from first to last, each before the entries inside it;   *)
(* depth tells how deep an entry is.  No instruction changes a Map or a    *)
(* list an expression can reach, so that a tree is as good as a pointer.   *)
(***************************************************************************)
EXTENDS Texts

Forms  == {"text", "list", "map"}
JsonEntry == [depth : Nat \ {0}, key : Text, form : Forms, text : Text]
Tree   == Seq(JsonEntry)

\* A value of an entry: a text, or a tree that is a list or a map.
TextVal(t)       == [form |-> "text", text |-> t, tree |-> <<>>]
TreeVal(form, t) == [form |-> form, text |-> <<>>, tree |-> t]
TreeValue == [form : Forms, text : Text, tree : Tree]

\* As AsText.
AsTree(t) == IF t \in Tree THEN t ELSE <<>>
Forest(ts) ==
  LET upto[n \in 0..Len(ts)] == IF n = 0 THEN <<>> ELSE upto[n - 1] \o ts[n]
  IN AsTree(upto[Len(ts)])

\* The entry of the value v under a key; items of lists have the empty key.
Node(key, v) ==
  <<[depth |-> 1, key |-> key, form |-> v.form, text |-> v.text]>>
    \o [p \in 1..Len(v.tree) |-> [v.tree[p] EXCEPT !.depth = @ + 1]]

\* The entries of t itself, and the last of the entries inside the one at p.
Roots(t)     == {p \in 1..Len(t) : t[p].depth = 1}
Until(t, p) == CHOOSE e \in p..Len(t) : /\ \A q \in p + 1..e : t[q].depth > t[p].depth
                                        /\ e < Len(t) => t[e + 1].depth <= t[p].depth
ValueAt(t, p) ==
  [form |-> t[p].form, text |-> t[p].text,
   tree |-> [m \in 1..Until(t, p) - p |-> [t[p + m] EXCEPT !.depth = @ - t[p].depth]]]

\* Map.Get.
Under(t, key) == {p \in Roots(t) : t[p].key = key}
Held(t, key) == ValueAt(t, CHOOSE p \in Under(t, key) : TRUE)

\* A Map the keys and values were set in one after another: a key that comes again
\* keeps its place and gets the later value.
SetAll(keys, vals) ==
  LET same(k) == {m \in 1..Len(keys) : keys[m] = keys[k]}
      last(k) == CHOOSE m \in same(k) : \A j \in same(k) : j <= m
  IN Forest([k \in 1..Len(keys) |-> IF \E m \in same(k) : m < k THEN <<>>
                                    ELSE Node(keys[k], vals[last(k)])])
ListOf(vals) == Forest([k \in 1..Len(vals) |-> Node(<<>>, vals[k])])

(***************************************************************************)
(* The text of a value: fmt.Sprint, where Map.String strips the blanks at  *)
(* its end, and, if json, json.Marshal, without the characters it escapes. *)
(***************************************************************************)
Open(form, json) == CASE form = "list" -> <<91>>
                      [] form = "map" /\ json -> <<123>>
                      [] OTHER -> <<109, 97, 112, 91>>
Close(form, json) == IF form = "map" /\ json THEN <<125>> ELSE <<93>>
Quoted(t, json)   == IF json THEN <<34>> \o t \o <<34>> ELSE t
Stripped(t) == SubSeq(t, 1, CHOOSE n \in 0..Len(t) : /\ \A k \in n + 1..Len(t) : t[k] = 32
                                                     /\ n > 0 => t[n] # 32)
\* What the text of the entry p is made of, up to the next entry.
Spelled(v, p, json) ==
  LET t == v.tree
      \* the entry, or the value itself at 0, that holds p at depth d
      holder(d) == IF d = 0 THEN v.form
                   ELSE t[CHOOSE q \in 1..p : /\ t[q].depth = d
                                              /\ \A r \in q + 1..p : t[r].depth > d].form
      d     == t[p].depth
      next  == IF p = Len(t) THEN 1 ELSE t[p + 1].depth
      first == p = 1 \/ t[p - 1].depth < d
      named == holder(d - 1) = "map"
      inner == IF t[p].form = "text" THEN d - 1 ELSE d   \* the deepest value that may end here
  IN (IF first THEN <<>> ELSE IF json THEN <<44>> ELSE <<32>>)
     \o (IF named THEN Quoted(t[p].key, json) \o <<58>> ELSE <<>>)
     \o (IF t[p].form # "text" THEN Open(t[p].form, json)
         ELSE IF named /\ ~json /\ (p = Len(t) \/ next < d) THEN Stripped(t[p].text)
         ELSE Quoted(t[p].text, json))
     \o Concat([j \in 1..(IF inner < next THEN 0 ELSE inner - next + 1) |->
                  Close(holder(inner - j + 1), json)])
Spell(v, json) ==
  LET of[w \in TreeValue] ==
        IF w.form = "text" THEN Quoted(w.text, json)
        ELSE Open(w.form, json) \o Concat([p \in 1..Len(w.tree) |-> Spelled(w, p, json)])
               \o Close(w.form, json)
  IN of[v]
SprintTree(v)  == AsText(Spell(v, FALSE))
MarshalTree(v) == AsText(Spell(v, TRUE))

(***************************************************************************)
(* LoadMap of each entry of a Map, one by one, as OBJ2LIST does: a value   *)
(* that is a Map becomes its text, and so do the Maps in a value that is a *)
(* list (ConvertMap knows map[string]interface{}, but not Map).            *)
(***************************************************************************)
\* Mutant: Maps are left as they are.
ConvertedNot(t) == t
Converted(t) ==
  Forest([p \in 1..Len(t) |->
    IF \E q \in 1..p - 1 : t[q].form = "map" /\ p <= Until(t, q) THEN <<>>
    ELSE IF t[p].form = "map"
    THEN <<[t[p] EXCEPT !.form = "text", !.text = SprintTree(ValueAt(t, p))]>>
    ELSE <<t[p]>>])
EachAlone(t) ==
  LET of[c \in Tree] ==
        Forest([p \in 1..Len(c) |->
          IF c[p].depth > 1 THEN <<>>
          ELSE Node(<<>>, TreeVal("map", Node(c[p].key, ValueAt(c, p))))])
  IN of[Converted(t)]
=============================================================================
