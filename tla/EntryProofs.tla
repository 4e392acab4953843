----------------------------- MODULE EntryProofs -----------------------------
(***************************************************************************)
(* The properties of module Entry hold for any contract, environment and   *)
(* parameters, in whatever order the parameters are visited.               *)
(***************************************************************************)
EXTENDS Entry, SequenceTheorems, TLAPS

-----------------------------------------------------------------------------
(***************************************************************************)
(* The inductive invariant.  It says of the parameters visited what        *)
(* Delivered says of all of them, and of every phase what Judged says of   *)
(* the last; and the arrays of bytes are backed all along.                 *)
(***************************************************************************)
Backed == \A i \in DOMAIN Objects :
  Objects[i].kind = "bytes" /\ Objects[i].num # 0 =>
    /\ Objects[i].buf \in DOMAIN Buffers
    /\ Objects[i].num \in 1..Len(Buffers[Objects[i].buf])
Arriving == \A k \in DOMAIN run.params : Arrived(k)
EnvSoFar == \A k \in DOMAIN env :
  /\ k \in DOMAIN run.env /\ EnvLeads(env[k], run.env[k])
  /\ run.env[k].go \in NumberKinds \cup {"string"}
Begun == /\ phase \in {"env", "params", "handed"} => run.main # 0
         /\ phase \in {"params", "handed"} => Len(run.env) = EnvSize /\ Len(env) = EnvSize
         /\ phase = "handed" => todo = {}
         /\ phase = "refused" => ~Right
         /\ \A k \in DOMAIN run.params \ todo : Given(k).go # "nil" => Suits(Given(k), Type(k))
IInv == TypeOK /\ Backed /\ Arriving /\ EnvSoFar /\ Begun /\ TextsApart

-----------------------------------------------------------------------------
(***************************************************************************)
(* What a value becomes.                                                   *)
(***************************************************************************)

\* The fields of a run.
LEMMA RunFields ==
  ASSUME IsRun(run), NEW k \in DOMAIN run.params
  PROVE  /\ Given(k) \in Value /\ Type(k) \in Nat /\ run.params[k].index \in Nat
         /\ run.arrays \in Seq(Text)
         /\ Given(k).go = "bytes" => Given(k).n \in DOMAIN run.arrays
BY DEF IsRun, Given, Type

\* The cell of a number is a number.
LEMMA CellIsInt ==
  ASSUME NEW v \in Value, NEW t \in Numeric, Suits(v, t)
  PROVE  CellOf(v, t) \in Int
<1>1. CASE t = VInt
  BY <1>1, NumbersAssumption DEF CellOf, Suits, IsInt, Numeric, VInt, VBool, VFloat, VStr, VMoney, VBytes, VFile
<1>2. CASE t = VBool
  BY <1>2 DEF CellOf, VInt, VBool, VFloat
<1>3. CASE t = VFloat
  <2>1. v.text \in DOMAIN FloatOf
    BY <1>3 DEF Suits, VInt, VBool, VStr, VFloat, VMoney, VBytes, VFile
  <2> QED BY <1>3, <2>1, NumbersAssumption DEF CellOf, VInt, VBool, VFloat
<1> QED BY <1>1, <1>2, <1>3 DEF Numeric

\* A digit is a number.
LEMMA NibbleIsInt ==
  ASSUME NEW c \in Int
  PROVE  Nibble(c) \in Int
BY DEF Nibble

\* The bytes of a text of hexadecimal digits.
LEMMA HexIsText ==
  ASSUME NEW t \in Text, IsHex(t)
  PROVE  HexOf(t) \in Text /\ Len(HexOf(t)) \in Nat
<1> DEFINE h == Len(t) \div 2
<1>1. Len(t) \in Nat /\ h \in Nat /\ Len(t) = 2 * h
  BY LenProperties DEF IsHex, Text
<1>2. ASSUME NEW k \in 1..h
      PROVE  16 * Nibble(t[2 * k - 1]) + Nibble(t[2 * k]) \in Int
  <2>1. 2 * k - 1 \in DOMAIN t /\ 2 * k \in DOMAIN t
    BY <1>1, LenProperties DEF Text
  <2>2. t[2 * k - 1] \in Int /\ t[2 * k] \in Int
    BY <2>1, ElementOfSeq, LenProperties DEF Text
  <2>3. Nibble(t[2 * k - 1]) \in Int /\ Nibble(t[2 * k]) \in Int
    BY <2>2, NibbleIsInt
  <2> QED BY <2>3
<1> HIDE DEF h
<1>3. HexOf(t) = [k \in 1..h |-> 16 * Nibble(t[2 * k - 1]) + Nibble(t[2 * k])]
  BY DEF HexOf, h
<1>4. HexOf(t) \in [1..h -> Int]
  BY <1>2, <1>3
<1>5. HexOf(t) \in Seq(Int)
  BY <1>1, <1>4
<1> QED BY <1>5, LenProperties DEF Text

\* The objects a value can become.
LEMMA BlankObject ==
  Blank \in Object
<1>1. <<>> \in Seq(Int) /\ <<>> \in Seq(Text) /\ <<>> \in Tree
  BY DEF Tree
<1> QED BY <1>1 DEF Blank, Object, Kinds

LEMMA MoneyObject ==
  ASSUME NEW n \in Int
  PROVE  Money(n, 1) \in Object /\ Money(n, 1).kind = "money"
BY BlankObject DEF Blank, Money, Object, Kinds

LEMMA FileObject ==
  File \in Object /\ File.kind = "file"
BY BlankObject DEF Blank, File, Object, Kinds

LEMMA BytesObject ==
  ASSUME NEW n \in Int, NEW b \in Nat
  PROVE  /\ Bytes(b, n) \in Object /\ Bytes(b, n).kind = "bytes"
         /\ Bytes(b, n).buf = b /\ Bytes(b, n).num = n
BY BlankObject DEF Blank, Bytes, Object, Kinds

\* What TakeObject does to the heap.
NewBuffers(v, t) == IF t = VBytes /\ v.go = "string" THEN Append(Buffers, HexOf(v.text)) ELSE Buffers

\* The object of a value, and the array that backs it.
LEMMA ObjectFits ==
  ASSUME TypeOK, NEW v \in Value, NEW t \in {VMoney, VBytes, VFile}, Suits(v, t),
         v.go = "bytes" => v.n \in DOMAIN run.arrays
  PROVE  /\ ObjectOf(v, t) \in Object
         /\ NewBuffers(v, t) \in Seq(Text)
         /\ \A n \in DOMAIN Buffers : n \in DOMAIN NewBuffers(v, t) /\ NewBuffers(v, t)[n] = Buffers[n]
         /\ t = VMoney => ObjectOf(v, t) = Money(Units(v.text), 1)
         /\ t = VFile  => ObjectOf(v, t) = File
         /\ t # VBytes => ObjectOf(v, t).kind # "bytes"
         /\ t = VBytes => /\ ObjectOf(v, t).kind = "bytes"
                          /\ ObjectOf(v, t).buf \in DOMAIN NewBuffers(v, t)
                          /\ NewBuffers(v, t)[ObjectOf(v, t).buf] = BytesOf(v)
                          /\ ObjectOf(v, t).num = Len(BytesOf(v))
<1>0. /\ Buffers \in Seq(Text) /\ v.text \in Text /\ Len(Buffers) \in Nat
      /\ run.arrays \in Seq(Text)
  BY LenProperties DEF TypeOK, Value, IsRun
<1>1. CASE t = VMoney
  <2>1. Units(v.text) \in Int
    BY <1>1 DEF Suits, IsAmount, VInt, VBool, VStr, VFloat, VMoney, VBytes, VFile
  <2>2. ObjectOf(v, t) = Money(Units(v.text), 1) /\ NewBuffers(v, t) = Buffers
    BY <1>1 DEF ObjectOf, NewBuffers, VMoney, VBytes, VFile
  <2> HIDE DEF Units
  <2>3. Money(Units(v.text), 1) \in Object /\ Money(Units(v.text), 1).kind = "money"
    BY <2>1, MoneyObject
  <2> QED BY <1>0, <1>1, <2>2, <2>3 DEF VMoney, VBytes, VFile
<1>2. CASE t = VFile
  <2>1. ObjectOf(v, t) = File /\ NewBuffers(v, t) = Buffers
    BY <1>2 DEF ObjectOf, NewBuffers, VMoney, VFile, VBytes
  <2> QED BY <1>0, <1>2, <2>1, FileObject DEF VMoney, VBytes, VFile
<1>3. CASE t = VBytes /\ v.go = "string"
  <2>1. IsHex(v.text)
    BY <1>3 DEF Suits, VInt, VBool, VStr, VFloat, VMoney, VBytes, VFile
  <2>2. HexOf(v.text) \in Text /\ Len(HexOf(v.text)) \in Nat
    BY <1>0, <2>1, HexIsText
  <2>3. /\ ObjectOf(v, t) = Bytes(Len(Buffers) + 1, Len(HexOf(v.text)))
        /\ NewBuffers(v, t) = Append(Buffers, HexOf(v.text)) /\ BytesOf(v) = HexOf(v.text)
    BY <1>3 DEF ObjectOf, NewBuffers, BytesOf, VMoney, VBytes, VFile
  <2> DEFINE h == HexOf(v.text)
  <2>4. h \in Text /\ Len(h) \in Nat
    BY <2>2
  <2> HIDE DEF h
  <2>5. /\ Append(Buffers, h) \in Seq(Text) /\ Len(Append(Buffers, h)) = Len(Buffers) + 1
        /\ \A n \in 1..Len(Buffers) : Append(Buffers, h)[n] = Buffers[n]
        /\ Append(Buffers, h)[Len(Buffers) + 1] = h
    BY <1>0, <2>4, AppendProperties
  <2>6. /\ DOMAIN Buffers = 1..Len(Buffers)
        /\ DOMAIN Append(Buffers, h) = 1..Len(Buffers) + 1
    BY <1>0, <2>5, LenProperties
  <2>7. /\ Bytes(Len(Buffers) + 1, Len(h)) \in Object /\ Bytes(Len(Buffers) + 1, Len(h)).kind = "bytes"
        /\ Bytes(Len(Buffers) + 1, Len(h)).buf = Len(Buffers) + 1
        /\ Bytes(Len(Buffers) + 1, Len(h)).num = Len(h)
    BY <1>0, <2>4, BytesObject
  <2> QED BY <1>0, <1>3, <2>3, <2>5, <2>6, <2>7 DEF h, VMoney, VBytes, VFile
<1>4. CASE t = VBytes /\ v.go # "string"
  <2>1. v.go = "bytes"
    BY <1>4 DEF Suits, VBytes, VFile
  <2>2. /\ v.n \in DOMAIN run.arrays /\ v.n \in DOMAIN Buffers /\ Buffers[v.n] = run.arrays[v.n]
    BY <2>1 DEF TypeOK
  <2>3. /\ ObjectOf(v, t) = Bytes(v.n, Len(run.arrays[v.n]))
        /\ NewBuffers(v, t) = Buffers /\ BytesOf(v) = run.arrays[v.n]
    BY <1>4, <2>1 DEF ObjectOf, NewBuffers, BytesOf, VMoney, VBytes, VFile
  <2>4. v.n \in Nat /\ Len(run.arrays[v.n]) \in Nat
    BY <1>0, <2>2, ElementOfSeq, LenProperties DEF Text
  <2>5. /\ Bytes(v.n, Len(run.arrays[v.n])) \in Object
        /\ Bytes(v.n, Len(run.arrays[v.n])).kind = "bytes"
        /\ Bytes(v.n, Len(run.arrays[v.n])).buf = v.n
        /\ Bytes(v.n, Len(run.arrays[v.n])).num = Len(run.arrays[v.n])
    BY <2>4, BytesObject
  <2> QED BY <1>0, <1>4, <2>2, <2>3, <2>5 DEF VMoney, VBytes, VFile
<1> QED BY <1>1, <1>2, <1>3, <1>4

-----------------------------------------------------------------------------
(***************************************************************************)
(* What a longer heap and a longer list of parameters keep.                *)
(***************************************************************************)

\* An element appended to a sequence.
LEMMA Appended ==
  ASSUME NEW S, NEW s \in Seq(S), NEW x \in S
  PROVE  /\ Append(s, x) \in Seq(S) /\ Len(Append(s, x)) = Len(s) + 1
         /\ \A n \in DOMAIN s : n \in DOMAIN Append(s, x) /\ Append(s, x)[n] = s[n]
         /\ Len(s) + 1 \in DOMAIN Append(s, x) /\ Append(s, x)[Len(s) + 1] = x
         /\ DOMAIN Append(s, x) = DOMAIN s \cup {Len(s) + 1}
<1>1. /\ Append(s, x) \in Seq(S) /\ Len(Append(s, x)) = Len(s) + 1 /\ Len(s) \in Nat
      /\ \A n \in 1..Len(s) : Append(s, x)[n] = s[n]
      /\ Append(s, x)[Len(s) + 1] = x
  BY AppendProperties, LenProperties
<1>2. DOMAIN s = 1..Len(s) /\ DOMAIN Append(s, x) = 1..Len(s) + 1
  BY <1>1, LenProperties
<1> QED BY <1>1, <1>2

\* z is s and the pair of a and b after it.
PairAdded(s, z, a, b) ==
  /\ Len(s) \div 2 \in Nat /\ Len(z) \div 2 = Len(s) \div 2 + 1
  /\ z \in Seq(Int) /\ Len(z) % 2 = 0
  /\ \A j \in 1..Len(s) \div 2 : z[2 * j - 1] = s[2 * j - 1] /\ z[2 * j] = s[2 * j]
  /\ z[2 * (Len(s) \div 2 + 1) - 1] = a /\ z[2 * (Len(s) \div 2 + 1)] = b

\* A pair appended to a sequence of pairs.
LEMMA PairAppended ==
  ASSUME NEW s \in Seq(Int), Len(s) % 2 = 0, NEW a \in Int, NEW b \in Int
  PROVE  PairAdded(s, s \o <<a, b>>, a, b)
<1>z. PICK z : z = s \o <<a, b>>
  OBVIOUS
<1> DEFINE n == Len(s) \div 2
<1>1. Len(s) \in Nat /\ n \in Nat /\ Len(s) = 2 * n
  BY LenProperties
<1> HIDE DEF n
<1>2. z \in Seq(Int) /\ Len(z) = 2 * n + 2
  <2>1. <<a, b>> \in Seq(Int) /\ Len(<<a, b>>) = 2
    OBVIOUS
  <2>2. z \in Seq(Int) /\ Len(z) = Len(s) + Len(<<a, b>>)
    BY <1>z, <2>1, ConcatProperties
  <2> QED BY <1>1, <2>1, <2>2
<1>3. \A i \in 1..2 * n : z[i] = s[i]
  BY <1>z, <1>1
<1>4. z[2 * n + 1] = a /\ z[2 * n + 2] = b
  BY <1>z, <1>1
<1>5. Len(z) % 2 = 0 /\ Len(z) \div 2 = n + 1
  <2>1. (2 * n + 2) % 2 = 0 /\ (2 * n + 2) \div 2 = n + 1
    BY <1>1
  <2> QED BY <1>2, <2>1
<1>6. \A j \in 1..n : 2 * j - 1 \in 1..2 * n /\ 2 * j \in 1..2 * n
  BY <1>1
<1>7. 2 * (n + 1) - 1 = 2 * n + 1 /\ 2 * (n + 1) = 2 * n + 2
  BY <1>1
<1>8. n = Len(s) \div 2
  BY DEF n
<1> QED BY <1>z, <1>1, <1>2, <1>3, <1>4, <1>5, <1>6, <1>7, <1>8 DEF PairAdded

\* Leads, for any heap and any arrays of the host.
LeadsIn(ss, os, bs, hs, cell, v, t) ==
  CASE t \in Numeric -> cell = CellOf(v, t)
    [] t = VStr   -> cell + 1 \in DOMAIN ss /\ ss[cell + 1] = v.text
    [] OTHER      -> /\ cell + 1 \in DOMAIN os
                     /\ t = VMoney => os[cell + 1] = Money(Units(v.text), 1)
                     /\ t = VFile  => os[cell + 1] = File
                     /\ t = VBytes =>
                          LET b == IF v.go = "string" THEN HexOf(v.text) ELSE hs[v.n]
                          IN /\ os[cell + 1].kind = "bytes"
                             /\ os[cell + 1].buf \in DOMAIN bs
                             /\ bs[os[cell + 1].buf] = b
                             /\ os[cell + 1].num = Len(b)

\* A cell that leads to a value still does when the heap has grown.
LEMMA LeadsStay ==
  ASSUME NEW ss, NEW os, NEW bs, NEW hs, NEW cell, NEW v, NEW t,
         NEW ss2, NEW os2, NEW bs2,
         \A n \in DOMAIN ss : n \in DOMAIN ss2 /\ ss2[n] = ss[n],
         \A n \in DOMAIN os : n \in DOMAIN os2 /\ os2[n] = os[n],
         \A n \in DOMAIN bs : n \in DOMAIN bs2 /\ bs2[n] = bs[n],
         LeadsIn(ss, os, bs, hs, cell, v, t)
  PROVE  LeadsIn(ss2, os2, bs2, hs, cell, v, t)
<1>1. CASE t \in Numeric
  BY <1>1 DEF LeadsIn
<1>2. CASE t \notin Numeric /\ t = VStr
  BY <1>2 DEF LeadsIn
<1>3. CASE t \notin Numeric /\ t # VStr
  BY <1>3 DEF LeadsIn
<1> QED BY <1>1, <1>2, <1>3

\* The heap grows: nothing in it moves.
HeapKept == /\ \A n \in DOMAIN Strings : n \in DOMAIN Strings' /\ Strings'[n] = Strings[n]
            /\ \A n \in DOMAIN Objects : n \in DOMAIN Objects' /\ Objects'[n] = Objects[n]
            /\ \A n \in DOMAIN Buffers : n \in DOMAIN Buffers' /\ Buffers'[n] = Buffers[n]

\* Distinct parameters have distinct indexes.
LEMMA IndexesApart ==
  ASSUME TypeOK, NEW j \in DOMAIN run.params, NEW k \in DOMAIN run.params,
         run.params[j].index = run.params[k].index
  PROVE  j = k
BY DEF TypeOK, IsRun

\* A pair more.
LEMMA PassAdds ==
  ASSUME TypeOK, NEW k \in todo, NEW cell \in Int, Pass(k, cell)
  PROVE  PairAdded(params, params', run.params[k].index, cell)
<1>1. run.params[k].index \in Int
  <2>1. k \in DOMAIN run.params /\ IsRun(run)
    BY DEF TypeOK
  <2> QED BY <2>1, RunFields
<1>2. params \in Seq(Int) /\ Len(params) % 2 = 0
  BY DEF TypeOK
<1>3. PairAdded(params, params \o <<run.params[k].index, cell>>, run.params[k].index, cell)
  BY <1>1, <1>2, PairAppended
<1> QED BY <1>3 DEF Pass

\* A value handed over: what arrived before stays, and the new one arrives.
LEMMA VisitArrives ==
  ASSUME TypeOK, Arriving, NEW k \in todo, NEW cell \in Int,
         UNCHANGED run, todo' = todo \ {k}, Pass(k, cell), HeapKept, Given(k).go # "nil",
         LeadsIn(Strings', Objects', Buffers', run.arrays, cell, Given(k), Type(k))
  PROVE  Arriving'
<1>n. PICK n : n = Len(params) \div 2
  OBVIOUS
<1>0. k \in DOMAIN run.params
  BY DEF TypeOK
<1>1. /\ n \in Nat /\ Len(params') \div 2 = n + 1
      /\ \A j \in 1..n : params'[2 * j - 1] = params[2 * j - 1] /\ params'[2 * j] = params[2 * j]
      /\ params'[2 * (n + 1) - 1] = run.params[k].index /\ params'[2 * (n + 1)] = cell
  BY <1>n, PassAdds DEF PairAdded
<1>2. ASSUME NEW q \in DOMAIN run.params
      PROVE  Pairs(q)' = Pairs(q) \cup (IF q = k THEN {n + 1} ELSE {})
  <2>1. Pairs(q) = {j \in 1..n : params[2 * j - 1] = run.params[q].index}
    BY <1>n DEF Pairs
  <2>2. Pairs(q)' = {j \in 1..n + 1 : params'[2 * j - 1] = run.params[q].index}
    BY <1>1 DEF Pairs
  <2>3. run.params[q].index = run.params[k].index => q = k
    BY <1>0, IndexesApart
  <2>4. 1..n + 1 = (1..n) \cup {n + 1}
    BY <1>1
  <2> QED BY <1>1, <2>1, <2>2, <2>3, <2>4
<1>3. ASSUME NEW q \in DOMAIN run.params PROVE Arrived(q)'
  <2>1. CASE q = k
    <3>1. Pairs(k) = {}
      BY <1>0 DEF Arriving, Arrived
    <3>2. Pairs(k)' = {n + 1}
      BY <1>0, <1>2, <3>1
    <3>3. Leads(params[2 * (n + 1)], Given(k), Type(k))'
      BY <1>1 DEF Leads, LeadsIn, At, BytesOf, Given, Type
    <3>4. \E j \in Pairs(k)' : Pairs(k)' = {j} /\ Leads(params[2 * j], Given(k), Type(k))'
      BY <3>2, <3>3
    <3> QED BY <2>1, <3>4 DEF Arrived, Given, Type
  <2>2. CASE q # k /\ (q \in todo \/ Given(q).go = "nil")
    BY <1>2, <2>2 DEF Arriving, Arrived, Given
  <2>3. CASE q # k /\ ~(q \in todo \/ Given(q).go = "nil")
    <3>1. PICK j \in Pairs(q) : Pairs(q) = {j} /\ Leads(params[2 * j], Given(q), Type(q))
      BY <2>3 DEF Arriving, Arrived
    <3>2. Pairs(q)' = {j} /\ params'[2 * j] = params[2 * j]
      BY <1>n, <1>1, <1>2, <2>3, <3>1 DEF Pairs
    <3>3. LeadsIn(Strings, Objects, Buffers, run.arrays, params[2 * j], Given(q), Type(q))
      BY <3>1 DEF Leads, LeadsIn, At, BytesOf
    <3>4. LeadsIn(Strings', Objects', Buffers', run.arrays, params[2 * j], Given(q), Type(q))
      BY <3>3, LeadsStay DEF HeapKept
    <3>5. Leads(params[2 * j], Given(q), Type(q))'
      BY <3>2, <3>4 DEF Leads, LeadsIn, At, BytesOf, Given, Type
    <3> QED BY <2>3, <3>2, <3>5 DEF Arrived, Given, Type
  <2> QED BY <2>1, <2>2, <2>3
<1> QED BY <1>3 DEF Arriving

\* A text handed over has an element of its own; anything else is no text.
LEMMA VisitTexts ==
  ASSUME TypeOK, TextsApart, NEW k \in todo, NEW cell \in Int,
         UNCHANGED <<run, env>>, Pass(k, cell), Strings' \in Seq(Text), Len(Strings') >= Len(Strings),
         Type(k) = VStr => cell = Len(Strings) /\ Len(Strings') = Len(Strings) + 1
  PROVE  TextsApart'
<1>n. PICK n : n = Len(params) \div 2
  OBVIOUS
<1>0. k \in DOMAIN run.params
  BY DEF TypeOK
<1>1. /\ n \in Nat /\ Len(params') \div 2 = n + 1
      /\ \A j \in 1..n : params'[2 * j - 1] = params[2 * j - 1] /\ params'[2 * j] = params[2 * j]
      /\ params'[2 * (n + 1) - 1] = run.params[k].index /\ params'[2 * (n + 1)] = cell
  BY <1>n, PassAdds DEF PairAdded
<1>2. ParamTexts \subseteq 1..n
  BY <1>n DEF ParamTexts
<1>3. EnvTexts' = EnvTexts /\ env' = env
  BY DEF EnvTexts
<1>4. ASSUME NEW j \in ParamTexts'
      PROVE  j \in ParamTexts \/ (j = n + 1 /\ Type(k) = VStr)
  <2>1. PICK q \in DOMAIN run.params : Type(q) = VStr /\ params'[2 * j - 1] = run.params[q].index
    BY <1>4 DEF ParamTexts, Type
  <2>2. j \in 1..n + 1
    BY <1>1, <1>4 DEF ParamTexts
  <2>3. CASE j \in 1..n
    BY <1>n, <1>1, <2>1, <2>3 DEF ParamTexts
  <2>4. CASE j = n + 1
    <3>1. run.params[k].index = run.params[q].index
      BY <1>1, <2>1, <2>4
    <3>2. k = q
      BY <1>0, <3>1, IndexesApart
    <3> QED BY <2>1, <2>4, <3>2
  <2> QED BY <1>1, <2>2, <2>3, <2>4
<1>5. /\ Len(Strings) \in Nat /\ Len(Strings) > 0 /\ Len(Strings') \in Nat
      /\ \A j \in ParamTexts : params'[2 * j] = params[2 * j]
  BY <1>1, <1>2, LenProperties DEF TypeOK
<1>6. \A i \in EnvTexts : env[i] \in 1..Len(Strings) - 1
  BY DEF TextsApart
<1>7. \A j \in ParamTexts : params'[2 * j] \in 1..Len(Strings) - 1
  BY <1>5 DEF TextsApart
<1>8. \A i, j \in ParamTexts : params'[2 * i] = params'[2 * j] => i = j
  BY <1>5 DEF TextsApart
<1>9. \A i \in EnvTexts, j \in ParamTexts : env[i] # params'[2 * j]
  BY <1>5 DEF TextsApart
<1>10. \A i, j \in EnvTexts : env[i] = env[j] => i = j
  BY DEF TextsApart
<1>11. Type(k) = VStr => params'[2 * (n + 1)] = Len(Strings) /\ Len(Strings') = Len(Strings) + 1
  BY <1>1
<1>12. \A i \in EnvTexts' : env'[i] \in 1..Len(Strings') - 1
  BY <1>3, <1>5, <1>6
<1>13. \A j \in ParamTexts' : params'[2 * j] \in 1..Len(Strings') - 1
  BY <1>4, <1>5, <1>7, <1>11
<1>14. \A i, j \in ParamTexts' : params'[2 * i] = params'[2 * j] => i = j
  BY <1>4, <1>5, <1>7, <1>8, <1>11
<1>15. \A i \in EnvTexts', j \in ParamTexts' : env'[i] # params'[2 * j]
  BY <1>3, <1>4, <1>5, <1>6, <1>9, <1>11
<1> QED BY <1>3, <1>10, <1>12, <1>13, <1>14, <1>15 DEF TextsApart

\* A parameter that was given is handed over.
LEMMA VisitKeeps ==
  ASSUME IInv, NEW k \in todo, Visit(k), Given(k).go # "nil", Suits(Given(k), Type(k)),
         NEW cell \in Int, Pass(k, cell), HeapKept,
         Strings' \in Seq(Text), Len(Strings') >= Len(Strings),
         Objects' \in Seq(Object), Buffers' \in Seq(Text), Backed',
         Type(k) = VStr => cell = Len(Strings) /\ Len(Strings') = Len(Strings) + 1,
         LeadsIn(Strings', Objects', Buffers', run.arrays, cell, Given(k), Type(k))
  PROVE  IInv'
<1>1. TypeOK /\ Backed /\ Arriving /\ EnvSoFar /\ Begun /\ TextsApart
  BY DEF IInv
<1>2. /\ phase = "params" /\ todo' = todo \ {k} /\ run' = run /\ phase' = phase /\ env' = env
      /\ error' = error
  BY DEF Visit
<1>3. params' \in Seq(Int) /\ Len(params') % 2 = 0
  BY <1>1, PassAdds DEF PairAdded
<1>4. TypeOK'
  <2>1. IsRun(run)'
    BY <1>1, <1>2 DEF TypeOK, IsRun
  <2>2. Len(Strings') > 0
    BY <1>1, LenProperties DEF TypeOK
  <2>3. \A n \in DOMAIN run.arrays : n \in DOMAIN Buffers' /\ Buffers'[n] = run.arrays[n]
    BY <1>1 DEF TypeOK, HeapKept
  <2> QED BY <1>1, <1>2, <1>3, <2>1, <2>2, <2>3 DEF TypeOK
<1>5. Arriving'
  BY <1>1, <1>2, VisitArrives
<1>6. TextsApart'
  BY <1>1, <1>2, VisitTexts
<1>7. EnvSoFar'
  BY <1>1, <1>2 DEF EnvSoFar, EnvLeads, HeapKept
<1>8. Begun'
  BY <1>1, <1>2 DEF Begun, Given, Type
<1> QED BY <1>4, <1>5, <1>6, <1>7, <1>8 DEF IInv

LEMMA TakeNumberStep ==
  ASSUME IInv, NEW k \in todo, TakeNumber(k)
  PROVE  IInv'
<1>1. /\ Visit(k) /\ Suits(Given(k), Type(k)) /\ Type(k) \in Numeric
      /\ Pass(k, CellOf(Given(k), Type(k))) /\ UNCHANGED heap
  BY DEF TakeNumber
<1>2. TypeOK /\ k \in DOMAIN run.params /\ IsRun(run) /\ Given(k) \in Value
  BY RunFields DEF IInv, TypeOK
<1>3. CellOf(Given(k), Type(k)) \in Int
  BY <1>1, <1>2, CellIsInt
<1>4. Given(k).go # "nil" /\ Type(k) # VStr
  BY <1>1 DEF Suits, Numeric, VInt, VBool, VFloat, VStr
<1>5. /\ HeapKept /\ Strings' \in Seq(Text) /\ Len(Strings') >= Len(Strings)
      /\ Objects' \in Seq(Object) /\ Buffers' \in Seq(Text) /\ Backed'
  BY <1>1, <1>2, LenProperties DEF IInv, TypeOK, heap, HeapKept, Backed
<1>6. LeadsIn(Strings', Objects', Buffers', run.arrays, CellOf(Given(k), Type(k)), Given(k), Type(k))
  BY <1>1 DEF LeadsIn, Numeric, VInt, VBool, VFloat, VStr
<1> QED BY <1>1, <1>3, <1>4, <1>5, <1>6, VisitKeeps

LEMMA TakeTextStep ==
  ASSUME IInv, NEW k \in todo, TakeText(k)
  PROVE  IInv'
<1>1. /\ Visit(k) /\ Suits(Given(k), Type(k)) /\ Type(k) = VStr
      /\ Strings' = Append(Strings, Given(k).text) /\ Pass(k, Len(Strings))
      /\ Objects' = Objects /\ Buffers' = Buffers
  BY DEF TakeText
<1>2. TypeOK /\ k \in DOMAIN run.params /\ IsRun(run) /\ Given(k) \in Value
  BY RunFields DEF IInv, TypeOK
<1>3. Given(k).go # "nil" /\ Given(k).text \in Text /\ Strings \in Seq(Text) /\ Len(Strings) \in Int
  BY <1>1, <1>2, LenProperties DEF Suits, Value, TypeOK
<1>4. /\ Strings' \in Seq(Text) /\ Len(Strings') = Len(Strings) + 1
      /\ \A n \in DOMAIN Strings : n \in DOMAIN Strings' /\ Strings'[n] = Strings[n]
      /\ Len(Strings) + 1 \in DOMAIN Strings' /\ Strings'[Len(Strings) + 1] = Given(k).text
  BY <1>1, <1>3, Appended
<1>5. /\ HeapKept /\ Len(Strings') >= Len(Strings)
      /\ Objects' \in Seq(Object) /\ Buffers' \in Seq(Text) /\ Backed'
  BY <1>1, <1>2, <1>3, <1>4 DEF IInv, TypeOK, HeapKept, Backed
<1>6. LeadsIn(Strings', Objects', Buffers', run.arrays, Len(Strings), Given(k), Type(k))
  BY <1>1, <1>4 DEF LeadsIn, Numeric, VInt, VBool, VFloat, VStr
<1> QED BY <1>1, <1>3, <1>4, <1>5, <1>6, VisitKeeps

LEMMA TakeObjectStep ==
  ASSUME IInv, NEW k \in todo, TakeObject(k)
  PROVE  IInv'
<1>d. PICK v, t, o : v = Given(k) /\ t = Type(k) /\ o = ObjectOf(Given(k), Type(k))
  OBVIOUS
<1>1. /\ Visit(k) /\ Suits(v, t) /\ t \in {VMoney, VBytes, VFile}
      /\ Objects' = Append(Objects, o) /\ Buffers' = NewBuffers(v, t)
      /\ Pass(k, Len(Objects)) /\ Strings' = Strings
  BY <1>d DEF TakeObject, NewBuffers
<1>2. /\ TypeOK /\ Backed /\ k \in DOMAIN run.params /\ IsRun(run) /\ v \in Value
      /\ v.go = "bytes" => v.n \in DOMAIN run.arrays
  BY <1>d, RunFields DEF IInv, TypeOK
<1>3. /\ o \in Object /\ Buffers' \in Seq(Text)
      /\ \A n \in DOMAIN Buffers : n \in DOMAIN Buffers' /\ Buffers'[n] = Buffers[n]
      /\ t = VMoney => o = Money(Units(v.text), 1)
      /\ t = VFile  => o = File
      /\ t # VBytes => o.kind # "bytes"
      /\ t = VBytes => /\ o.kind = "bytes" /\ o.buf \in DOMAIN Buffers'
                       /\ Buffers'[o.buf] = BytesOf(v) /\ o.num = Len(BytesOf(v))
  BY <1>d, <1>1, <1>2, ObjectFits
<1>4. /\ Objects \in Seq(Object) /\ Strings \in Seq(Text) /\ Buffers \in Seq(Text)
      /\ Len(Objects) \in Int /\ Len(Strings) \in Int
  BY <1>2, LenProperties DEF TypeOK
<1>5. /\ Objects' \in Seq(Object)
      /\ \A n \in DOMAIN Objects : n \in DOMAIN Objects' /\ Objects'[n] = Objects[n]
      /\ Len(Objects) + 1 \in DOMAIN Objects' /\ Objects'[Len(Objects) + 1] = o
      /\ DOMAIN Objects' = DOMAIN Objects \cup {Len(Objects) + 1}
  BY <1>1, <1>3, <1>4, Appended
<1>6. Backed'
  <2>1. ASSUME NEW i \in DOMAIN Objects', Objects'[i].kind = "bytes", Objects'[i].num # 0
        PROVE  /\ Objects'[i].buf \in DOMAIN Buffers'
               /\ Objects'[i].num \in 1..Len(Buffers'[Objects'[i].buf])
    <3>1. CASE i \in DOMAIN Objects
      BY <1>2, <1>3, <1>5, <2>1, <3>1 DEF Backed
    <3>2. CASE i = Len(Objects) + 1
      <4>1. t = VBytes /\ o.num # 0
        BY <1>3, <1>5, <2>1, <3>2
      <4>2. Buffers'[o.buf] \in Text
        BY <1>3, <4>1, ElementOfSeq, LenProperties
      <4>3. Len(Buffers'[o.buf]) \in Nat
        BY <4>2, LenProperties DEF Text
      <4> QED BY <1>3, <1>5, <3>2, <4>1, <4>3
    <3> QED BY <1>5, <3>1, <3>2
  <2> QED BY <2>1 DEF Backed
<1>7. Given(k).go # "nil" /\ Type(k) # VStr
  BY <1>d, <1>1 DEF Suits, VStr, VMoney, VBytes, VFile
<1>8. LeadsIn(Strings', Objects', Buffers', run.arrays, Len(Objects), v, t)
  BY <1>1, <1>3, <1>5 DEF LeadsIn, BytesOf, Numeric, VInt, VBool, VFloat, VStr, VMoney, VBytes, VFile
<1>9. HeapKept /\ Strings' \in Seq(Text) /\ Len(Strings') >= Len(Strings)
  BY <1>1, <1>3, <1>4, <1>5 DEF HeapKept
<1>10. Visit(k) /\ Suits(Given(k), Type(k)) /\ Len(Objects) \in Int /\ Pass(k, Len(Objects))
  BY <1>d, <1>1, <1>4
<1>11. LeadsIn(Strings', Objects', Buffers', run.arrays, Len(Objects), Given(k), Type(k))
  BY <1>d, <1>8
<1> QED BY <1>3, <1>5, <1>6, <1>7, <1>9, <1>10, <1>11, VisitKeeps

\* A parameter that was not given is passed over.
LEMMA SkipStep ==
  ASSUME IInv, NEW k \in todo, Skip(k)
  PROVE  IInv'
<1>1. /\ phase = "params" /\ todo' = todo \ {k} /\ run' = run /\ phase' = phase /\ env' = env
      /\ error' = error /\ params' = params /\ Strings' = Strings /\ Objects' = Objects
      /\ Buffers' = Buffers /\ Given(k).go = "nil"
  BY DEF Skip, Visit, heap
<1>2. TypeOK /\ Backed /\ Arriving /\ EnvSoFar /\ Begun /\ TextsApart
  BY DEF IInv
<1>3. TypeOK'
  BY <1>1, <1>2 DEF TypeOK, IsRun
<1>4. Backed' /\ EnvSoFar' /\ TextsApart'
  <2>1. Backed' /\ EnvSoFar'
    BY <1>1, <1>2 DEF Backed, EnvSoFar, EnvLeads
  <2>2. EnvTexts' = EnvTexts /\ ParamTexts' = ParamTexts
    BY <1>1 DEF EnvTexts, ParamTexts, Type
  <2>3. TextsApart'
    BY <1>1, <1>2, <2>2 DEF TextsApart
  <2> QED BY <2>1, <2>3
<1>5. Arriving'
  <2>1. ASSUME NEW q \in DOMAIN run.params PROVE Arrived(q)'
    BY <1>1, <1>2 DEF Arriving, Arrived, Pairs, Leads, At, BytesOf, Given, Type
  <2> QED BY <1>1, <2>1 DEF Arriving
<1>6. Begun'
  BY <1>1, <1>2 DEF Begun, Given, Type
<1> QED BY <1>3, <1>4, <1>5, <1>6 DEF IInv

-----------------------------------------------------------------------------
(***************************************************************************)
(* The environment.                                                        *)
(***************************************************************************)

\* A cell above all the others is apart from them.
LEMMA OneMoreApart ==
  ASSUME NEW E, NEW e, NEW E2, NEW e2, NEW P, NEW p, NEW i, NEW more \in BOOLEAN,
         NEW l \in Nat, NEW l2 \in Nat, 0 < l, l2 >= l, more => e2[i] = l /\ l2 = l + 1,
         \A n \in E2 : n \in E \/ (n = i /\ more), \A n \in E : e2[n] = e[n],
         \A n \in E : e[n] \in 1..l - 1, \A m, n \in E : e[m] = e[n] => m = n,
         \A j \in P : p[2 * j] \in 1..l - 1, \A n \in E, j \in P : e[n] # p[2 * j]
  PROVE  /\ \A n \in E2 : e2[n] \in 1..l2 - 1
         /\ \A j \in P : p[2 * j] \in 1..l2 - 1
         /\ \A m, n \in E2 : e2[m] = e2[n] => m = n
         /\ \A n \in E2, j \in P : e2[n] # p[2 * j]
<1>1. ASSUME NEW n \in E2 PROVE IF n \in E THEN e2[n] = e[n] /\ e2[n] \in 1..l - 1
                                         ELSE n = i /\ more /\ e2[n] = l
  OBVIOUS
<1>2. \A n \in E2 : e2[n] \in 1..l2 - 1
  BY <1>1
<1>3. \A m, n \in E2 : e2[m] = e2[n] => m = n
  BY <1>1
<1>4. \A n \in E2, j \in P : e2[n] # p[2 * j]
  BY <1>1
<1> QED BY <1>2, <1>3, <1>4

\* The next variable of the environment is loaded.
LEMMA EnvKeeps ==
  ASSUME IInv, Counted, Len(env) < EnvSize, NEW cell \in Int, env' = Append(env, cell),
         NextEnv.go \in NumberKinds \cup {"string"},
         IF NextEnv.go = "string" THEN Strings' = Append(Strings, NextEnv.text) /\ cell = Len(Strings)
                                  ELSE Strings' = Strings /\ cell = NextEnv.n,
         UNCHANGED <<run, phase, todo, params, Objects, Buffers, error>>
  PROVE  IInv'
<1>1. TypeOK /\ Backed /\ Arriving /\ EnvSoFar /\ Begun /\ TextsApart
  BY DEF IInv
<1>2. /\ run' = run /\ phase' = phase /\ todo' = todo /\ params' = params /\ Objects' = Objects
      /\ Buffers' = Buffers /\ error' = error /\ phase = "env" /\ Len(run.env) = EnvSize
  BY DEF Counted
<1>i. PICK i : i = Len(env) + 1
  OBVIOUS
<1>3. /\ env \in Seq(Int) /\ Len(env) \in Nat /\ run.env \in Seq(Value) /\ EnvSize \in Nat
      /\ Strings \in Seq(Text) /\ Len(Strings) \in Nat /\ Len(Strings) > 0
  BY <1>1, LenProperties, NumbersAssumption DEF TypeOK, IsRun
<1>4. i \in DOMAIN run.env /\ run.env[i] \in Value /\ NextEnv = run.env[i]
  BY <1>i, <1>2, <1>3, ElementOfSeq, LenProperties DEF NextEnv
<1>5. /\ env' \in Seq(Int) /\ Len(env') = Len(env) + 1 /\ env'[i] = cell
      /\ \A n \in DOMAIN env : n \in DOMAIN env' /\ env'[n] = env[n]
      /\ DOMAIN env' = DOMAIN env \cup {i}
  BY <1>i, <1>3, Appended
<1>6. /\ Strings' \in Seq(Text) /\ Len(Strings') >= Len(Strings)
      /\ \A n \in DOMAIN Strings : n \in DOMAIN Strings' /\ Strings'[n] = Strings[n]
      /\ NextEnv.go = "string" => /\ Len(Strings') = Len(Strings) + 1
                                  /\ Len(Strings) + 1 \in DOMAIN Strings'
                                  /\ Strings'[Len(Strings) + 1] = NextEnv.text
  <2>1. CASE NextEnv.go = "string"
    <3>1. Strings' = Append(Strings, NextEnv.text) /\ NextEnv.text \in Text
      BY <1>4, <2>1 DEF Value
    <3> QED BY <1>3, <2>1, <3>1, Appended
  <2>2. CASE NextEnv.go # "string"
    BY <1>3, <2>2
  <2> QED BY <2>1, <2>2
<1>7. TypeOK'
  <2>1. Len(env') <= EnvSize /\ Len(Strings') > 0
    BY <1>3, <1>5, <1>6, LenProperties
  <2> QED BY <1>1, <1>2, <1>5, <1>6, <2>1 DEF TypeOK, IsRun
<1>8. Backed' /\ Begun'
  BY <1>1, <1>2 DEF Backed, Begun, Right, Given, Type
<1>9. EnvSoFar'
  <2>1. ASSUME NEW n \in DOMAIN env'
        PROVE  /\ n \in DOMAIN run.env /\ run.env[n].go \in NumberKinds \cup {"string"}
               /\ IF run.env[n].go = "string"
                  THEN env'[n] + 1 \in DOMAIN Strings' /\ Strings'[env'[n] + 1] = run.env[n].text
                  ELSE env'[n] = run.env[n].n
    <3>1. CASE n \in DOMAIN env
      BY <1>1, <1>5, <1>6, <3>1 DEF EnvSoFar, EnvLeads
    <3>2. CASE n = i
      BY <1>4, <1>5, <1>6, <3>2
    <3> QED BY <1>5, <3>1, <3>2
  <2> QED BY <1>2, <2>1 DEF EnvSoFar, EnvLeads
<1>10. HeapKept
  BY <1>2, <1>6 DEF HeapKept
<1>11. Arriving'
  <2>1. ASSUME NEW q \in DOMAIN run.params PROVE Arrived(q)'
    <3>0. Pairs(q)' = Pairs(q) /\ Arrived(q)
      BY <1>1, <1>2 DEF Arriving, Pairs
    <3>1. CASE q \in todo \/ Given(q).go = "nil"
      BY <1>2, <3>0, <3>1 DEF Arrived, Given
    <3>2. CASE ~(q \in todo \/ Given(q).go = "nil")
      <4>1. PICK j \in Pairs(q) : Pairs(q) = {j} /\ Leads(params[2 * j], Given(q), Type(q))
        BY <3>0, <3>2 DEF Arrived
      <4>2. LeadsIn(Strings, Objects, Buffers, run.arrays, params[2 * j], Given(q), Type(q))
        BY <4>1 DEF Leads, LeadsIn, At, BytesOf
      <4>3. LeadsIn(Strings', Objects', Buffers', run.arrays, params[2 * j], Given(q), Type(q))
        BY <1>10, <4>2, LeadsStay DEF HeapKept
      <4>4. Leads(params[2 * j], Given(q), Type(q))'
        BY <1>2, <4>3 DEF Leads, LeadsIn, At, BytesOf, Given, Type
      <4> QED BY <1>2, <3>0, <3>2, <4>1, <4>4 DEF Arrived, Given, Type
    <3> QED BY <3>1, <3>2
  <2> QED BY <1>2, <2>1 DEF Arriving
<1>12. TextsApart'
  <2>1. ParamTexts' = ParamTexts /\ EnvTexts \subseteq DOMAIN env
    BY <1>2 DEF ParamTexts, EnvTexts, Type
  <2>2. \A n \in EnvTexts' : n \in EnvTexts \/ (n = i /\ NextEnv.go = "string")
    BY <1>2, <1>4, <1>5 DEF EnvTexts
  <2>3. \A n \in EnvTexts : env'[n] = env[n]
    BY <1>5, <2>1
  <2>4. PICK more \in BOOLEAN : more <=> NextEnv.go = "string"
    OBVIOUS
  <2>5. more => env'[i] = Len(Strings) /\ Len(Strings') = Len(Strings) + 1
    BY <1>5, <1>6, <2>4
  <2>6. Len(Strings) \in Nat /\ Len(Strings') \in Nat /\ 0 < Len(Strings) /\ Len(Strings') >= Len(Strings)
    BY <1>3, <1>6, LenProperties
  <2>7. /\ \A n \in EnvTexts : env[n] \in 1..Len(Strings) - 1
        /\ \A m, n \in EnvTexts : env[m] = env[n] => m = n
        /\ \A j \in ParamTexts : params[2 * j] \in 1..Len(Strings) - 1
        /\ \A n \in EnvTexts, j \in ParamTexts : env[n] # params[2 * j]
        /\ \A m, n \in ParamTexts : params[2 * m] = params[2 * n] => m = n
    BY <1>1 DEF TextsApart
  <2>8. \A n \in EnvTexts' : n \in EnvTexts \/ (n = i /\ more)
    BY <2>2, <2>4
  <2>e. PICK E, e, E2, e2, P, p, l, l2 :
          /\ E = EnvTexts /\ e = env /\ E2 = EnvTexts' /\ e2 = env' /\ P = ParamTexts /\ p = params
          /\ l = Len(Strings) /\ l2 = Len(Strings')
    OBVIOUS
  <2>f. /\ l \in Nat /\ l2 \in Nat /\ 0 < l /\ l2 >= l
        /\ more => e2[i] = l /\ l2 = l + 1
        /\ \A n \in E2 : n \in E \/ (n = i /\ more)
        /\ \A n \in E : e2[n] = e[n]
        /\ \A n \in E : e[n] \in 1..l - 1
        /\ \A m, n \in E : e[m] = e[n] => m = n
        /\ \A j \in P : p[2 * j] \in 1..l - 1
        /\ \A n \in E, j \in P : e[n] # p[2 * j]
    BY <2>3, <2>5, <2>6, <2>7, <2>8, <2>e
  <2>g. /\ \A n \in E2 : e2[n] \in 1..l2 - 1
        /\ \A j \in P : p[2 * j] \in 1..l2 - 1
        /\ \A m, n \in E2 : e2[m] = e2[n] => m = n
        /\ \A n \in E2, j \in P : e2[n] # p[2 * j]
    BY <2>f, OneMoreApart
  <2>9. /\ \A n \in EnvTexts' : env'[n] \in 1..Len(Strings') - 1
        /\ \A j \in ParamTexts : params[2 * j] \in 1..Len(Strings') - 1
        /\ \A m, n \in EnvTexts' : env'[m] = env'[n] => m = n
        /\ \A n \in EnvTexts', j \in ParamTexts : env'[n] # params[2 * j]
    BY <2>e, <2>g
  <2>10. \A m, n \in ParamTexts' : params'[2 * m] = params'[2 * n] => m = n
    BY <1>2, <2>1, <2>7
  <2>11. /\ \A j \in ParamTexts' : params'[2 * j] \in 1..Len(Strings') - 1
         /\ \A n \in EnvTexts', j \in ParamTexts' : env'[n] # params'[2 * j]
    BY <1>2, <2>1, <2>9
  <2> QED BY <2>9, <2>10, <2>11, Zenon DEF TextsApart
<1> QED BY <1>7, <1>8, <1>9, <1>11, <1>12 DEF IInv

\* A step that only moves on to another phase, or refuses.
LEMMA PhaseKeeps ==
  ASSUME IInv, UNCHANGED <<run, env, todo, params, heap>>,
         phase' \in {"named", "env", "params", "handed", "refused"},
         error' \in {"none", "errCntNotExists", "errGlobVar", "errGlobType", "parse", "type", "kind"},
         phase' \in {"env", "params", "handed"} => run.main # 0,
         phase' \in {"params", "handed"} => Len(run.env) = EnvSize /\ Len(env) = EnvSize,
         phase' = "handed" => todo = {}, phase' = "refused" => ~Right
  PROVE  IInv'
<1>1. /\ run' = run /\ env' = env /\ todo' = todo /\ params' = params /\ Strings' = Strings
      /\ Objects' = Objects /\ Buffers' = Buffers
  BY DEF heap
<1>2. TypeOK /\ Backed /\ Arriving /\ EnvSoFar /\ Begun /\ TextsApart
  BY DEF IInv
<1>3. TypeOK'
  BY <1>1, <1>2 DEF TypeOK, IsRun
<1>4. Backed' /\ EnvSoFar'
  BY <1>1, <1>2 DEF Backed, EnvSoFar, EnvLeads
<1>5. TextsApart'
  <2>1. EnvTexts' = EnvTexts /\ ParamTexts' = ParamTexts
    BY <1>1 DEF EnvTexts, ParamTexts, Type
  <2> QED BY <1>1, <1>2, <2>1 DEF TextsApart
<1>6. Arriving'
  <2>1. ASSUME NEW q \in DOMAIN run.params PROVE Arrived(q)'
    BY <1>1, <1>2 DEF Arriving, Arrived, Pairs, Leads, At, BytesOf, Given, Type
  <2> QED BY <1>1, <2>1 DEF Arriving
<1>7. Right' <=> Right
  BY <1>1 DEF Right, Given, Type
<1>8. Begun'
  BY <1>1, <1>2, <1>7 DEF Begun, Given, Type
<1> QED BY <1>3, <1>4, <1>5, <1>6, <1>8 DEF IInv

-----------------------------------------------------------------------------
(***************************************************************************)
(* The invariant is inductive.                                             *)
(***************************************************************************)

LEMMA InitIInv ==
  ASSUME Init
  PROVE  IInv
<1>1. /\ run \in Runs /\ IsRun(run) /\ phase = "named" /\ error = "none" /\ env = <<>>
      /\ todo = DOMAIN run.params /\ params = <<>> /\ Strings = << <<>> >> /\ Objects = <<>>
      /\ Buffers = run.arrays
  BY RunsAssumption DEF Init
<1>2. << <<>> >> \in Seq(Text) /\ Len(<< <<>> >>) = 1
  <2>1. <<>> \in Text
    BY DEF Text
  <2> QED BY <2>1
<1>3. TypeOK
  <2>1. <<>> \in Seq(Int) /\ <<>> \in Seq(Object) /\ Len(<<>>) = 0 /\ 0 % 2 = 0
    OBVIOUS
  <2>2. run.arrays \in Seq(Text) /\ EnvSize \in Nat
    BY <1>1, NumbersAssumption DEF IsRun
  <2> QED BY <1>1, <1>2, <2>1, <2>2 DEF TypeOK
<1>4. Len(params) \div 2 = 0 /\ DOMAIN env = {} /\ DOMAIN Objects = {}
  BY <1>1
<1>5. Backed /\ EnvSoFar
  BY <1>4 DEF Backed, EnvSoFar
<1>6. Arriving
  BY <1>1, <1>4 DEF Arriving, Arrived, Pairs
<1>7. Begun
  BY <1>1 DEF Begun
<1>8. TextsApart
  BY <1>4 DEF TextsApart, EnvTexts, ParamTexts
<1> QED BY <1>3, <1>5, <1>6, <1>7, <1>8 DEF IInv

LEMMA NextIInv ==
  ASSUME IInv, [Next]_vars
  PROVE  IInv'
<1>0. TypeOK /\ Begun /\ EnvSoFar /\ IsRun(run)
  BY DEF IInv, TypeOK
<1>1. CASE NoContract
  BY <1>0, <1>1, PhaseKeeps DEF NoContract, Refuse, Right
<1>2. CASE GetContract
  BY <1>0, <1>2, PhaseKeeps DEF GetContract, TypeOK
<1>3. CASE CountsDiffer
  BY <1>0, <1>3, PhaseKeeps DEF CountsDiffer, Refuse, Right
<1>4. CASE EnvNumber
  <2>1. /\ Counted /\ Len(env) < EnvSize /\ NextEnv.go \in NumberKinds /\ NextEnv.go # "string"
        /\ env' = Append(env, NextEnv.n) /\ UNCHANGED <<run, phase, todo, params, heap, error>>
    BY <1>4 DEF EnvNumber, NumberKinds
  <2>2. NextEnv.n \in Int
    <3>1. run.env \in Seq(Value) /\ Len(run.env) = EnvSize /\ EnvSize \in Nat /\ Len(env) \in Nat
      BY <1>0, <2>1, LenProperties, NumbersAssumption DEF Counted, IsRun, TypeOK
    <3>2. NextEnv \in Value
      BY <2>1, <3>1, ElementOfSeq DEF NextEnv
    <3> QED BY <3>2 DEF Value
  <2>3. Strings' = Strings /\ UNCHANGED <<run, phase, todo, params, Objects, Buffers, error>>
    BY <2>1 DEF heap
  <2> QED BY <2>1, <2>2, <2>3, EnvKeeps
<1>5. CASE EnvText
  <2>1. /\ Counted /\ Len(env) < EnvSize /\ NextEnv.go = "string" /\ Len(Strings) \in Int
        /\ Strings' = Append(Strings, NextEnv.text) /\ env' = Append(env, Len(Strings))
        /\ UNCHANGED <<run, phase, todo, params, Objects, Buffers, error>>
    BY <1>0, <1>5, LenProperties DEF EnvText, TypeOK
  <2> QED BY <2>1, EnvKeeps
<1>6. CASE EnvRefused
  <2>1. ~Right
    <3>1. Len(run.env) = EnvSize /\ EnvSize \in Nat /\ Len(env) \in Nat /\ Len(env) < EnvSize
      BY <1>0, <1>6, LenProperties, NumbersAssumption DEF EnvRefused, Counted, TypeOK
    <3>2. Len(env) + 1 \in DOMAIN run.env
      BY <1>0, <3>1, LenProperties DEF IsRun
    <3> QED BY <1>6, <3>2 DEF EnvRefused, NextEnv, Right
  <2> QED BY <1>6, <2>1, PhaseKeeps DEF EnvRefused, Refuse
<1>7. CASE EnvDone
  BY <1>0, <1>7, PhaseKeeps DEF EnvDone, Counted, TypeOK, Begun
<1>8. CASE HandOver
  BY <1>0, <1>8, PhaseKeeps DEF HandOver, TypeOK, Begun
<1>9. CASE Stopped \/ UNCHANGED vars
  <2>1. UNCHANGED <<run, env, todo, params, heap>> /\ phase' = phase /\ error' = error
    BY <1>9 DEF Stopped, vars
  <2> QED BY <1>0, <2>1, PhaseKeeps DEF TypeOK, Begun
<1>10. ASSUME NEW k \in todo, RefuseParam(k) PROVE IInv'
  <2>1. ~Right
    <3>1. k \in DOMAIN run.params
      BY <1>0, <1>10 DEF TypeOK
    <3> QED BY <1>10, <3>1 DEF RefuseParam, Right
  <2>2. phase' = "refused" /\ UNCHANGED <<run, env, todo, params, heap>>
    BY <1>10 DEF RefuseParam, Refuse
  <2>3. error' \in {"parse", "type", "kind"}
    BY <1>10 DEF RefuseParam, Refuse
  <2> QED BY <2>1, <2>2, <2>3, PhaseKeeps
<1> QED BY <1>1, <1>2, <1>3, <1>4, <1>5, <1>6, <1>7, <1>8, <1>9, <1>10, SkipStep, TakeNumberStep,
           TakeTextStep, TakeObjectStep DEF Next

LEMMA Inductive ==
  Spec => []IInv
<1>1. Init => IInv
  BY InitIInv
<1>2. IInv /\ [Next]_vars => IInv'
  BY NextIInv
<1> QED BY <1>1, <1>2, PTL DEF Spec

-----------------------------------------------------------------------------
(***************************************************************************)
(* The theorems.                                                           *)
(***************************************************************************)

\* The heap, the environment and the parameters are well formed after every step of
\* vm.Run, and the host's arrays of bytes stay where they are.
THEOREM TypeCorrect == Spec => []TypeOK
<1>1. IInv => TypeOK
  BY DEF IInv
<1> QED BY <1>1, Inductive, PTL

\* Whatever the host gives, what vm.Run hands to the interpreter is a program as module
\* Runtime assumes it: contracts that are there, literals in the code, arrays of bytes
\* that are backed.
THEOREM ProgramHandedOver == Spec => []HandedOver
<1>1. ASSUME IInv, phase = "handed" PROVE Linked(Handed)
  <2>1. TypeOK /\ Backed /\ Begun /\ IsRun(run)
    BY <1>1 DEF IInv, TypeOK
  <2>2. run.main \in DOMAIN Machine.contracts
    <3>1. run.main \in 0..Len(Machine.contracts) /\ run.main # 0
      BY <1>1, <2>1 DEF IsRun, Begun
    <3> QED BY <3>1, MachineAssumption, LenProperties
  <2>3. Buffers \in Seq(Seq(Int)) /\ run.main \in Nat
    <3>1. Buffers \in Seq(Seq(Int))
      BY <2>1 DEF TypeOK, Text
    <3>2. Len(Machine.contracts) \in Nat
      BY MachineAssumption, LenProperties
    <3> QED BY <2>1, <3>1, <3>2 DEF IsRun
  <2>4. Handed \in Program
    BY <2>1, <2>3, MachineAssumption DEF Handed, Program, TypeOK
  <2>5. Loaded(Handed)
    BY <2>1 DEF Loaded, Handed, Backed
  <2> QED BY <2>2, <2>4, <2>5, MachineAssumption DEF Linked, Handed
<1>2. IInv => HandedOver
  BY <1>1 DEF HandedOver
<1> QED BY <1>2, Inductive, PTL

\* Every value the host gave arrives once, under the index of its own parameter, and
\* leads to what was given, in whatever order Go visits the map of the parameters.
THEOREM ValuesDelivered == Spec => []Delivered
<1>1. ASSUME IInv, phase = "handed"
      PROVE  /\ todo = {} /\ \A k \in DOMAIN run.params : Arrived(k)
             /\ DOMAIN env = DOMAIN run.env /\ \A k \in DOMAIN env : EnvLeads(env[k], run.env[k])
  <2>1. TypeOK /\ Begun /\ Arriving /\ EnvSoFar
    BY <1>1 DEF IInv
  <2>2. Len(env) = Len(run.env)
    BY <1>1, <2>1 DEF Begun
  <2>3. DOMAIN env = DOMAIN run.env
    BY <2>1, <2>2, LenProperties DEF TypeOK, IsRun
  <2> QED BY <1>1, <2>1, <2>3 DEF Begun, Arriving, EnvSoFar
<1>2. IInv => Delivered
  BY <1>1 DEF Delivered
<1> QED BY <1>2, Inductive, PTL

\* The interpreter is started if and only if the contract is known and all that the
\* host gave can be converted, whichever parameter is visited first.
THEOREM HostJudged == Spec => []Judged
<1>1. ASSUME IInv, phase = "handed" PROVE Right
  <2>1. TypeOK /\ Begun /\ EnvSoFar
    BY <1>1 DEF IInv
  <2>2. DOMAIN env = DOMAIN run.env
    <3>1. Len(env) = Len(run.env)
      BY <1>1, <2>1 DEF Begun
    <3> QED BY <2>1, <3>1, LenProperties DEF TypeOK, IsRun
  <2> QED BY <1>1, <2>1, <2>2 DEF Begun, EnvSoFar, Right
<1>2. ASSUME IInv, phase = "refused" PROVE ~Right
  BY <1>2 DEF IInv, Begun
<1>3. IInv => Judged
  BY <1>1, <1>2 DEF Judged
<1> QED BY <1>3, Inductive, PTL

\* No two texts of the environment and the parameters share an element of Strings, and
\* none is element 0.
THEOREM TextsStayApart == Spec => []TextsApart
<1>1. IInv => TextsApart
  BY DEF IInv
<1> QED BY <1>1, Inductive, PTL
=============================================================================
