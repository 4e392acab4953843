----------------------------- MODULE TypeSteps ------------------------------
(***************************************************************************)
(* The steps of the interpreter keep the types, one by one: instructions   *)
(* that read and write items, that build and copy containers, that jump,   *)
(* call functions and return from them, pass parameters and call           *)
(* contracts.                                                              *)
(***************************************************************************)
EXTENDS TypeFrames

-----------------------------------------------------------------------------
(***************************************************************************)
(* An object is appended, and its index put on the stack.                  *)
(***************************************************************************)
LEMMA ObjectPutting ==
  ASSUME NEW e, NEW types, Typing(e, types), NEW ops, Dispatch(ops), NEW ts \in Seq(Text),
         Strings' = Strings \o ts, NEW o, NewObject(o), NEW t \in Nat, MainType(t) \in Handles,
         o.kind = KindOf(t), ObjectTyped(types \o <<t>>, o, t, Fresh, Mark'),
         NEW n \in Nat, NEW g, Proceed([Replace(n, Len(Objects)) EXCEPT !.gas = g]),
         Op \notin Turns \cup {PARCONTRACT, CALLCONTRACT, SETMAP, SETINDEX, DUP},
         n = Takes(prog, Op, W(1)), Leaves(prog, Op, W(1)) = 1, MadeHere(e) = Value(t)
  PROVE  Stepped(e)
<1> DEFINE os == <<o>>
           us == <<t>>
           v  == Len(Objects)
           s  == Value(t)
<1>1. /\ TypedState(e, types) /\ Fetching /\ types \in Seq(Nat) /\ Len(types) = Len(Objects)
      /\ Objects \in Seq(Object) /\ o \in Object
  BY Before, NewOnes
<1>2. /\ os \in Seq(Object) /\ us \in Seq(Nat) /\ Len(us) = Len(os) /\ Objects' = Objects \o os
      /\ (types \o us)[v + 1] = t /\ Mark'.objects = v + 1 /\ v \in Nat
  BY <1>1, OneMore
<1>3. \A j \in 1..Len(os) : os[j] = o /\ us[j] = t
  OBVIOUS
<1>4. /\ \A j \in 1..Len(os) : os[j].kind = KindOf(us[j])
      /\ \A j \in 1..Len(os) : ObjectTyped(types \o us, os[j], us[j], Fresh, Mark')
  BY <1>3
<1>5. Ground.objects \in Nat /\ Ground.objects <= v
  <2>1. Ground \in MarkType /\ Mark \in MarkType /\ Below(Ground, Mark) /\ Mark.objects = Len(Objects)
    BY <1>1, Between
  <2> QED BY <2>1 DEF Below, MarkType
<1>6. s \in SortSet /\ s.form = "value" /\ s.of = t /\ s.late = FALSE
  BY SortCast
<1> HIDE DEF os, us, v, s
<1>7. Denotes(types \o us, v, t, Ground, Mark')
  <2> DEFINE types2 == types \o us
  <2>1. v \in 0..Mark'.objects - 1 /\ types2[v + 1] = t /\ v >= Ground.objects
    BY <1>2, <1>5
  <2> HIDE DEF types2
  <2>2. Denotes(types2, v, t, Ground, Mark')
    BY <2>1, DenotesOf
  <2> QED BY <2>2 DEF types2
<1>8. ValueIs(types \o us, v, s, Ground, Mark')
  BY <1>6, <1>7 DEF ValueIs
<1>9. MadeHere(e) = s /\ Proceed([Replace(n, v) EXCEPT !.gas = g])
  BY DEF s, v
<1> QED BY <1>2, <1>4, <1>6, <1>8, <1>9, GrownPutting

\* An object without items.
LEMMA PlainPutting ==
  ASSUME NEW e, NEW types, Typing(e, types), NEW ops, Dispatch(ops), UNCHANGED Strings,
         NEW o, NewObject(o), NEW t \in {VMoney, VBytes, VFile, VObject, VObjList},
         o.kind = KindOf(t),
         NEW n \in Nat, NEW g, Proceed([Replace(n, Len(Objects)) EXCEPT !.gas = g]),
         Op \notin Turns \cup {PARCONTRACT, CALLCONTRACT, SETMAP, SETINDEX, DUP},
         n = Takes(prog, Op, W(1)), Leaves(prog, Op, W(1)) = 1, MadeHere(e) = Value(t)
  PROVE  Stepped(e)
<1>1. t \in Nat /\ MainType(t) \in Handles /\ ObjectTyped(types \o <<t>>, o, t, Fresh, Mark')
  BY PlainObject
<1>2. Strings \in Seq(Text)
  BY Before
<1>3. Strings' = Strings \o <<>> /\ <<>> \in Seq(Text)
  BY <1>2, NothingMore
<1> QED BY <1>1, <1>3, ObjectPutting

\* A step of ComputeMoney leaves the heap and the frames with types.
LEMMA ComputeMoneyTyped ==
  ASSUME NEW e, NEW types, Typing(e, types), ComputeMoney
  PROVE  Stepped(e)
<1> DEFINE o == MoneyArith(Op, Obj(Cell(1)), Obj(Cell(0)))
<1>1. Dispatch(MoneyBinary) /\ NewObject(o) /\ Proceed(Replace(2, Len(Objects))) /\ UNCHANGED Strings
  BY DEF ComputeMoney
<1>2. Op \in MoneyBinary /\ act \in ActivationType /\ act.i \in Int /\ TypeOK
  BY <1>1, Before
<1>3. Operands(Op) = <<"money", "money">>
  BY <1>2, OperandsOf, Zenon
<1>4. o.kind = "money"
  <2>1. Fits(Cell(1), "money") /\ Fits(Cell(0), "money")
    BY <1>1, <1>2, <1>3, Dispatched, Operand2
  <2>2. Obj(Cell(1)) \in Object /\ Obj(Cell(0)) \in Object
    BY <1>2, <2>1, FitsOf, ObjectType DEF IsKind
  <2> QED BY <1>1, <1>2, <2>2, AmountType
<1> HIDE DEF o
<1>5. /\ Op \notin Turns \cup {PARCONTRACT, CALLCONTRACT, SETMAP, SETINDEX, DUP}
      /\ Leaves(prog, Op, W(1)) = 1 /\ Takes(prog, Op, W(1)) = 2
  BY <1>1, <1>2, <1>3, OpsApart, Meets12 DEF PutOps
<1>6. MadeHere(e) = Value(VMoney) /\ o.kind = KindOf(VMoney)
  BY <1>2, <1>4, MadeOf, PlainObject
<1>7. Proceed([Replace(2, Len(Objects)) EXCEPT !.gas = act.gas])
  BY <1>1, <1>2, FormsOfProceed
<1> QED BY <1>1, <1>5, <1>6, <1>7, PlainPutting

\* A step of SignMoney leaves the heap and the frames with types.
LEMMA SignMoneyTyped ==
  ASSUME NEW e, NEW types, Typing(e, types), SignMoney
  PROVE  Stepped(e)
<1> DEFINE o == Obj(Cell(0))
           new == [o EXCEPT !.num = -o.num]
<1>1. Dispatch({SIGNMONEY}) /\ NewObject(new) /\ Proceed(Replace(1, Len(Objects))) /\ UNCHANGED Strings
  BY DEF SignMoney
<1>2. Op = SIGNMONEY /\ act \in ActivationType /\ act.i \in Int /\ TypeOK
  BY <1>1, Before
<1>3. Operands(Op) = <<"money">>
  BY <1>2, OperandsOf, Zenon
<1>4. new.kind = "money"
  <2>1. Fits(Cell(0), "money")
    BY <1>1, <1>2, <1>3, Dispatched, Operand1
  <2>2. o \in Object /\ o.kind = "money"
    BY <1>2, <2>1, FitsOf, ObjectType DEF IsKind
  <2>3. -o.num \in Int
    BY <2>2 DEF Object
  <2> QED BY <2>2, <2>3, NumObject
<1> HIDE DEF new
<1>5. /\ Op \notin Turns \cup {PARCONTRACT, CALLCONTRACT, SETMAP, SETINDEX, DUP}
      /\ Leaves(prog, Op, W(1)) = 1 /\ Takes(prog, Op, W(1)) = 1
  BY <1>1, <1>2, <1>3, OpsApart, Meets11 DEF PutOps
<1>6. MadeHere(e) = Value(VMoney) /\ new.kind = KindOf(VMoney)
  BY <1>2, <1>4, MadeOf, PlainObject
<1>7. Proceed([Replace(1, Len(Objects)) EXCEPT !.gas = act.gas])
  BY <1>1, <1>2, FormsOfProceed
<1> QED BY <1>1, <1>5, <1>6, <1>7, PlainPutting

\* A Map or a list of an object.
LEMMA TreePutting ==
  ASSUME NEW e, NEW types, Typing(e, types), NEW ops, Dispatch(ops), UNCHANGED Strings,
         NEW kind, NEW tree, NewObject(JsonObject(kind, tree)), NEW t,
         \/ kind = "obj" /\ t = VObject
         \/ kind = "list" /\ t = VObjList,
         NEW n \in Nat, NEW g, Proceed([Replace(n, Len(Objects)) EXCEPT !.gas = g]),
         Op \notin Turns \cup {PARCONTRACT, CALLCONTRACT, SETMAP, SETINDEX, DUP},
         n = Takes(prog, Op, W(1)), Leaves(prog, Op, W(1)) = 1, MadeHere(e) = Value(t)
  PROVE  Stepped(e)
<1> DEFINE o == JsonObject(kind, tree)
<1>1. o.kind = kind
  BY DEF JsonObject, Blank
<1> HIDE DEF o
<1>2. o.kind = KindOf(t) /\ t \in {VMoney, VBytes, VFile, VObject, VObjList} /\ NewObject(o)
  BY <1>1, PlainObject DEF o
<1> QED BY <1>2, PlainPutting

\* A step of InitObj leaves the heap and the frames with types.
LEMMA InitObjTyped ==
  ASSUME NEW e, NEW types, Typing(e, types), InitObj
  PROVE  Stepped(e)
<1> DEFINE tree == SetAll([k \in 1..W(1) |-> String(Cell(3 * (W(1) - k) + 2))], Taking(3))
           n == 3 * W(1)
<1>1. /\ Dispatch({INITOBJ}) /\ NewObject(JsonObject("obj", tree)) /\ UNCHANGED Strings
      /\ Proceed(Replace(n, Len(Objects)))
  BY DEF InitObj
<1>2. Op = INITOBJ /\ act \in ActivationType /\ act.i \in Int /\ TypedState(e, types) /\ Fetching
  BY <1>1, Before
<1> HIDE DEF tree, n
<1>3. /\ Op \notin Turns \cup {PARCONTRACT, CALLCONTRACT, SETMAP, SETINDEX, DUP}
      /\ Leaves(prog, Op, W(1)) = 1 /\ Takes(prog, Op, W(1)) = n /\ n \in Nat
  BY <1>2, OpsApart, TakesOf, TypedHere DEF PutOps, n
<1>4. MadeHere(e) = Value(VObject)
  BY <1>2, MadeOf
<1>5. Proceed([Replace(n, Len(Objects)) EXCEPT !.gas = act.gas])
  BY <1>1, <1>2, FormsOfProceed
<1> QED BY <1>1, <1>3, <1>4, <1>5, TreePutting

\* A step of InitObjList leaves the heap and the frames with types.
LEMMA InitObjListTyped ==
  ASSUME NEW e, NEW types, Typing(e, types), InitObjList
  PROVE  Stepped(e)
<1> DEFINE tree == ListOf(Taking(2))
           n == 2 * W(1)
<1>1. /\ Dispatch({INITOBJLIST}) /\ NewObject(JsonObject("list", tree)) /\ UNCHANGED Strings
      /\ Proceed(Replace(n, Len(Objects)))
  BY DEF InitObjList
<1>2. Op = INITOBJLIST /\ act \in ActivationType /\ act.i \in Int /\ TypedState(e, types) /\ Fetching
  BY <1>1, Before
<1> HIDE DEF tree, n
<1>3. /\ Op \notin Turns \cup {PARCONTRACT, CALLCONTRACT, SETMAP, SETINDEX, DUP}
      /\ Leaves(prog, Op, W(1)) = 1 /\ Takes(prog, Op, W(1)) = n /\ n \in Nat
  BY <1>2, OpsApart, TakesOf, TypedHere DEF PutOps, n
<1>4. MadeHere(e) = Value(VObjList)
  BY <1>2, MadeOf
<1>5. Proceed([Replace(n, Len(Objects)) EXCEPT !.gas = act.gas])
  BY <1>1, <1>2, FormsOfProceed
<1> QED BY <1>1, <1>3, <1>4, <1>5, TreePutting

\* A step of Obj2List leaves the heap and the frames with types.
LEMMA Obj2ListTyped ==
  ASSUME NEW e, NEW types, Typing(e, types), Obj2List
  PROVE  Stepped(e)
<1> DEFINE tree == EachAlone(Obj(Cell(0)).tree)
<1>1. /\ Dispatch({OBJ2LIST}) /\ NewObject(JsonObject("list", tree)) /\ UNCHANGED Strings
      /\ Proceed(Replace(1, Len(Objects)))
  BY DEF Obj2List
<1>2. Op = OBJ2LIST /\ act \in ActivationType /\ act.i \in Int
  BY <1>1, Before
<1> HIDE DEF tree
<1>3. Operands(Op) = <<"obj">>
  BY <1>2, OperandsOf, Zenon
<1>4. /\ Op \notin Turns \cup {PARCONTRACT, CALLCONTRACT, SETMAP, SETINDEX, DUP}
      /\ Leaves(prog, Op, W(1)) = 1 /\ Takes(prog, Op, W(1)) = 1
  BY <1>1, <1>2, <1>3, OpsApart, Meets11 DEF PutOps
<1>5. MadeHere(e) = Value(VObjList)
  BY <1>2, MadeOf
<1>6. Proceed([Replace(1, Len(Objects)) EXCEPT !.gas = act.gas])
  BY <1>1, <1>2, FormsOfProceed
<1> QED BY <1>1, <1>4, <1>5, <1>6, TreePutting

\* A step of EmbedDecode leaves the heap and the frames with types.
LEMMA EmbedDecodeTyped ==
  ASSUME NEW e, NEW types, Typing(e, types), EmbedDecode
  PROVE  Stepped(e)
<1>1. Dispatch({EMBEDFUNC}) /\ W(1) = JSONDecode /\ Answer(Len(Objects)) /\ UNCHANGED Strings
  BY DEF EmbedDecode
<1>2. PICK t \in Documents : NewObject(JsonObject("obj", t))
  BY DEF EmbedDecode
<1>3. MadeHere(e) = Value(VObject)
  BY <1>1, LibHere, LibTypes
<1>4. PICK g : Proceed([Replace(Takes(prog, Op, W(1)), Len(Objects)) EXCEPT !.gas = g])
  BY <1>1, LibHere
<1> QED BY <1>1, <1>2, <1>3, <1>4, LibHere, TreePutting

\* A step of EmbedObject leaves the heap and the frames with types.
LEMMA EmbedObjectTyped ==
  ASSUME NEW e, NEW types, Typing(e, types), EmbedObject
  PROVE  Stepped(e)
<1>1. /\ Dispatch({EMBEDFUNC}) /\ W(1) \in {MoneyInt, BytesStr} /\ Answer(Len(Objects)) /\ UNCHANGED Strings
  BY DEF EmbedObject
<1>2. PICK g : Proceed([Replace(Takes(prog, Op, W(1)), Len(Objects)) EXCEPT !.gas = g])
  BY <1>1, LibHere
<1>3. CASE W(1) = MoneyInt
  <2> DEFINE o == Money(Cell(0), 1)
  <2>1. NewObject(o)
    BY <1>3 DEF EmbedObject
  <2>2. o.kind = "money"
    BY DEF Money, Blank
  <2>3. MadeHere(e) = Value(VMoney)
    BY <1>1, <1>3, LibHere, LibTypes
  <2> HIDE DEF o
  <2>4. o.kind = KindOf(VMoney)
    BY <2>2, PlainObject
  <2> QED BY <1>1, <1>2, <2>1, <2>3, <2>4, LibHere, PlainPutting
<1>4. CASE W(1) = BytesStr
  <2> DEFINE o == Bytes(Len(Buffers) + 1, Len(String(Cell(0))))
  <2>1. NewObject(o)
    BY <1>4 DEF EmbedObject, BytesStr, MoneyInt
  <2>2. o.kind = "bytes"
    BY DEF Bytes, Blank
  <2>3. MadeHere(e) = Value(VBytes)
    BY <1>1, <1>4, LibHere, LibTypes
  <2> HIDE DEF o
  <2>4. o.kind = KindOf(VBytes)
    BY <2>2, PlainObject
  <2> QED BY <1>1, <1>2, <2>1, <2>3, <2>4, LibHere, PlainPutting
<1> QED BY <1>1, <1>3, <1>4

-----------------------------------------------------------------------------
(***************************************************************************)
(* Arrays and maps are made.                                               *)
(***************************************************************************)
\* The type of a container, and of its items.
LEMMA TypeWords ==
  ASSUME NEW t \in Nat, NEW m \in {VArr, VMap}
  PROVE  TypeOf(m, t) \in Nat /\ MainType(TypeOf(m, t)) = m /\ SubType(TypeOf(m, t)) = t
         /\ MainType(TypeOf(m, t)) \in Handles /\ VStr \in Nat /\ MainType(VStr) = VStr
         /\ KindOf(TypeOf(VArr, t)) = "arr" /\ KindOf(TypeOf(VMap, t)) = "map"
<1>1. m \in 0..15 /\ m \in Handles
  BY TypesApart DEF VArr, VMap
<1>2. /\ TypeOf(m, t) \in Nat /\ MainType(TypeOf(m, t)) = m /\ SubType(TypeOf(m, t)) = t
  BY <1>1 DEF TypeOf, MainType, SubType
<1>3. MainType(TypeOf(VArr, t)) = VArr /\ MainType(TypeOf(VMap, t)) = VMap
  BY DEF TypeOf, MainType, VArr, VMap
<1>4. KindOf(TypeOf(VArr, t)) = "arr" /\ KindOf(TypeOf(VMap, t)) = "map"
  BY <1>3 DEF KindOf, VMoney, VBytes, VFile, VObject, VObjList, VArr, VMap
<1> QED BY <1>1, <1>2, <1>4 DEF VStr, MainType

\* The type of an item is a number.
LEMMA ItemTypeNat ==
  ASSUME NEW s \in SortSet
  PROVE  ItemType(s) \in Nat
BY DEF SortSet, ItemType, VStr, VInt

\* What is taken from the stack into a container.
LEMMA ItemTaken ==
  ASSUME NEW e, NEW types, TypedState(e, types), Fetching, NEW j \in 0..Len(SortsHere(e)) - 1,
         NEW t, Contains(Top(SortsHere(e), j), t),
         act.isParContract => MainType(t) \notin Owned,
         NEW us \in Seq(Nat), Mark' \in MarkType, Below(Mark, Mark')
  PROVE  Denotes(types \o us, Cell(j), t, Anchor(Fresh), Mark')
<1> DEFINE s == Top(SortsHere(e), j)
           types2 == types \o us
<1>1. CellIs(types, Objects, act.stack, act.top - j, s, Ground, Mark)
      /\ Cell(j) = act.stack[act.top - j]
  BY CellHere
<1>2. /\ Ground \in MarkType /\ Middle \in MarkType /\ Mark \in MarkType /\ Mark.objects = Len(Objects)
  BY Between
<1>3. types \in Seq(Nat) /\ Len(types) = Len(Objects)
  BY DEF TypedState, FramesTyped
<1>4. \A k \in 1..Mark.objects : types2[k] = types[k]
  BY <1>2, <1>3
<1> HIDE DEF types2, s
<1>5. Denotes(types, Cell(j), t, Anchor(Ground), Mark)
  BY <1>1, <1>2, ContainsDenotes DEF s
<1>6. Denotes(types, Cell(j), t, Anchor(Fresh), Mark)
  <2>1. CASE ~act.isParContract
    BY <1>5, <2>1 DEF Fresh
  <2>2. CASE act.isParContract /\ MainType(t) = VStr
    BY <1>5, <2>2, DenotesOf DEF Anchor
  <2>3. CASE act.isParContract /\ MainType(t) # VStr
    BY <1>5, <2>3, DenotesUnowned
  <2> QED BY <2>1, <2>2, <2>3
<1>7. Anchor(Fresh) \in MarkType /\ Below(Anchor(Fresh), Anchor(Fresh))
  BY <1>2 DEF Anchor, Fresh, MarkType, Below
<1>8. Denotes(types2, Cell(j), t, Anchor(Fresh), Mark')
  BY <1>2, <1>4, <1>6, <1>7, DenotesCarried
<1> QED BY <1>8 DEF types2

\* The mark after a text or an object has been appended.
LEMMA MarkGrown ==
  ASSUME TypeOK, NEW ts \in Seq(Text), Strings' = Strings \o ts, NEW o, NewObject(o)
  PROVE  Mark' \in MarkType /\ Below(Mark, Mark') /\ Mark'.strings = Len(Strings) + Len(ts)
<1>1. Strings \in Seq(Text) /\ Objects \in Seq(Object)
  BY DEF TypeOK
<1>2. Len(Strings') = Len(Strings) + Len(ts) /\ Len(Strings) \in Nat /\ Len(ts) \in Nat
  BY <1>1
<1>3. Len(Objects') = Len(Objects) + 1 /\ Len(Objects) \in Nat
  BY <1>1 DEF NewObject
<1> HIDE DEF NewObject
<1> QED BY <1>2, <1>3 DEF Mark, MarkType, Below

\* A step of InitArr leaves the heap and the frames with types.
LEMMA InitArrTyped ==
  ASSUME NEW e, NEW types, Typing(e, types), InitArr
  PROVE  Stepped(e)
<1> DEFINE ss == SortsHere(e)
           n == W(1)
           f == [k \in 1..n |-> Cell(n - k)]
           t == ItemType(Top(ss, n - 1))
           u == TypeOf(VArr, t)
           o == Arr(f)
<1>1. /\ Dispatch({INITARR}) /\ NewObject(o) /\ Proceed(Replace(n, Len(Objects)))
      /\ UNCHANGED Strings
  BY DEF InitArr
<1>2. /\ Op = INITARR /\ act \in ActivationType /\ act.i \in Int /\ TypedState(e, types) /\ Fetching
      /\ AsksHere(e) /\ ss \in Seq(SortSet) /\ TypeOK /\ Strings \in Seq(Text)
  BY <1>1, Before
<1>3. /\ Op \notin Turns \cup {PARCONTRACT, CALLCONTRACT, SETMAP, SETINDEX, DUP}
      /\ Leaves(prog, Op, W(1)) = 1 /\ Takes(prog, Op, W(1)) = n /\ n \in Nat /\ n <= Len(ss)
  BY <1>2, OpsApart, TakesOf, TypedHere DEF PutOps
<1>4. n > 0 /\ \A k \in 1..n : Contains(Top(ss, k - 1), SubType(ListType(ss, n)))
  BY <1>2, AsksOf
<1>5. MadeHere(e) = Value(u) /\ ListType(ss, n) = u
  BY <1>2, MadeOf DEF ListType
<1>6. t \in Nat
  <2>1. n - 1 \in 0..Len(ss) - 1
    BY <1>2, <1>3, <1>4
  <2>2. Top(ss, n - 1) \in SortSet
    BY <1>2, <2>1, CellHere
  <2> QED BY <2>2, ItemTypeNat
<1>7. act.isParContract => MainType(t) \notin Owned
  <2>1. act.isParContract => Keeps(cnt, act.i, ss)
    BY <1>1, KeepsHere
  <2>2. Keeps(cnt, act.i, ss) => MainType(ItemType(Top(ss, W(1) - 1))) \notin Owned
    <3>1. cnt.code[act.i + 1] = INITARR /\ cnt.code[act.i + 2] = W(1)
      <4>1. act.i + 1 + 1 = act.i + 2
        BY <1>2
      <4> QED BY <1>2, <4>1 DEF Op, W
    <3> QED BY <3>1, Zenon DEF Keeps
  <2> QED BY <2>1, <2>2
<1> HIDE DEF t
<1>8. u \in Nat /\ MainType(u) = VArr /\ SubType(u) = t /\ MainType(u) \in Handles /\ KindOf(u) = "arr"
  BY <1>6, TypeWords
<1>9. Strings' = Strings \o <<>> /\ <<>> \in Seq(Text)
  BY <1>1, <1>2, NothingMore
<1>10. Mark' \in MarkType /\ Below(Mark, Mark')
  BY <1>1, <1>2, <1>9, MarkGrown
<1>11. o.kind = "arr" /\ o.items = f
  BY DEF Arr, Blank
<1> HIDE DEF u, o, n, ss
<1>12. <<u>> \in Seq(Nat)
  BY <1>8
<1>13. ASSUME NEW k \in 1..n PROVE Denotes(types \o <<u>>, f[k], t, Anchor(Fresh), Mark')
  <2>1. n - k \in 0..Len(ss) - 1 /\ n - k + 1 \in 1..n /\ (n - k + 1) - 1 = n - k
    BY <1>2, <1>3
  <2>2. Contains(Top(ss, n - k), t)
    BY <1>4, <1>5, <1>8, <2>1
  <2>3. f[k] = Cell(n - k)
    OBVIOUS
  <2> HIDE DEF f
  <2> QED BY <1>2, <1>7, <1>10, <1>12, <2>1, <2>2, <2>3, ItemTaken DEF ss
<1>14. DOMAIN f = 1..n
  OBVIOUS
<1> HIDE DEF f
<1>15. ObjectTyped(types \o <<u>>, o, u, Fresh, Mark')
  BY <1>8, <1>11, <1>13, <1>14 DEF ObjectTyped
<1>16. o.kind = KindOf(u)
  BY <1>8, <1>11
<1>17. Proceed([Replace(n, Len(Objects)) EXCEPT !.gas = act.gas])
  BY <1>1, <1>2, FormsOfProceed
<1> QED BY <1>1, <1>3, <1>5, <1>8, <1>9, <1>15, <1>16, <1>17, ObjectPutting

\* A step of InitMap leaves the heap and the frames with types.
LEMMA InitMapTyped ==
  ASSUME NEW e, NEW types, Typing(e, types), InitMap
  PROVE  Stepped(e)
<1> DEFINE ss == SortsHere(e)
           n == W(1)
           key(k) == String(Cell(2 * (n - k) + 1))
           last   == {k \in 1..n : \A m \in k + 1..n : key(m) # key(k)}
           ks     == [p \in 1..Cardinality(last) |-> key(Nth(last, p))]
           f      == [p \in 1..Cardinality(last) |-> Cell(2 * (n - Nth(last, p)))]
           t == ItemType(Top(ss, 2 * n - 2))
           u == TypeOf(VMap, t)
           o == Map(ks, f)
<1>1. /\ Dispatch({INITMAP}) /\ NewObject(o) /\ Proceed(Replace(2 * n, Len(Objects)))
      /\ UNCHANGED Strings
  BY DEF InitMap
<1>2. /\ Op = INITMAP /\ act \in ActivationType /\ act.i \in Int /\ TypedState(e, types) /\ Fetching
      /\ AsksHere(e) /\ ss \in Seq(SortSet) /\ TypeOK /\ Strings \in Seq(Text)
  BY <1>1, Before
<1>3. /\ Op \notin Turns \cup {PARCONTRACT, CALLCONTRACT, SETMAP, SETINDEX, DUP}
      /\ Leaves(prog, Op, W(1)) = 1 /\ Takes(prog, Op, W(1)) = 2 * n /\ 2 * n <= Len(ss)
  BY <1>2, OpsApart, TakesOf, TypedHere DEF PutOps
<1>4. n > 0 /\ \A k \in 1..n : Contains(Top(ss, 2 * k - 2), SubType(DictType(ss, n)))
  BY <1>2, AsksOf
<1>5. MadeHere(e) = Value(u) /\ DictType(ss, n) = u
  BY <1>2, MadeOf DEF DictType
<1>50. n \in Nat
  BY <1>1, <1>2, WordsOf, OperandWord
<1>6. t \in Nat
  <2>1. 2 * n - 2 \in 0..Len(ss) - 1
    BY <1>2, <1>3, <1>4, <1>50
  <2>2. Top(ss, 2 * n - 2) \in SortSet
    BY <1>2, <2>1, CellHere
  <2> QED BY <2>2, ItemTypeNat
<1>7. act.isParContract => MainType(t) \notin Owned
  <2>1. act.isParContract => Keeps(cnt, act.i, ss)
    BY <1>1, KeepsHere
  <2>2. Keeps(cnt, act.i, ss) => MainType(ItemType(Top(ss, 2 * W(1) - 2))) \notin Owned
    <3>1. cnt.code[act.i + 1] = INITMAP /\ cnt.code[act.i + 2] = W(1)
      <4>1. act.i + 1 + 1 = act.i + 2
        BY <1>2
      <4> QED BY <1>2, <4>1 DEF Op, W
    <3> QED BY <3>1, Zenon DEF Keeps
  <2> QED BY <2>1, <2>2
<1> HIDE DEF t
<1>8. u \in Nat /\ MainType(u) = VMap /\ SubType(u) = t /\ MainType(u) \in Handles /\ KindOf(u) = "map"
  BY <1>6, TypeWords
<1>9. Strings' = Strings \o <<>> /\ <<>> \in Seq(Text)
  BY <1>1, <1>2, NothingMore
<1>10. Mark' \in MarkType /\ Below(Mark, Mark')
  BY <1>1, <1>2, <1>9, MarkGrown
<1>11. o.kind = "map" /\ o.items = f
  BY DEF Map, Blank
<1>18. last \subseteq 0..n /\ last \subseteq 1..n
  BY <1>50
<1> HIDE DEF last, key
<1>19. ASSUME NEW p \in 1..Cardinality(last) PROVE Nth(last, p) \in 1..n
  BY <1>18, <1>50, NthMember
<1> HIDE DEF u, o, n, ss
<1>12. <<u>> \in Seq(Nat)
  BY <1>8
<1>13. ASSUME NEW k \in 1..Cardinality(last) PROVE Denotes(types \o <<u>>, f[k], t, Anchor(Fresh), Mark')
  <2> DEFINE q == Nth(last, k)
             j == 2 * (n - q)
  <2>3. f[k] = Cell(j)
    OBVIOUS
  <2>4. q \in 1..n
    BY <1>19
  <2> HIDE DEF f, q
  <2>1. j \in 0..Len(ss) - 1 /\ n - q + 1 \in 1..n /\ 2 * (n - q + 1) - 2 = j
    BY <1>2, <1>3, <1>50, <2>4
  <2>2. Contains(Top(ss, j), t)
    BY <1>4, <1>5, <1>8, <2>1
  <2> HIDE DEF j
  <2> QED BY <1>2, <1>7, <1>10, <1>12, <2>1, <2>2, <2>3, ItemTaken DEF ss
<1>14. DOMAIN f = 1..Cardinality(last)
  OBVIOUS
<1> HIDE DEF f
<1>15. ObjectTyped(types \o <<u>>, o, u, Fresh, Mark')
  BY <1>8, <1>11, <1>13, <1>14 DEF ObjectTyped
<1>16. o.kind = KindOf(u) /\ 2 * n \in Nat
  BY <1>8, <1>11, <1>50
<1>17. Proceed([Replace(2 * n, Len(Objects)) EXCEPT !.gas = act.gas])
  BY <1>1, <1>2, FormsOfProceed
<1> QED BY <1>1, <1>3, <1>5, <1>8, <1>9, <1>15, <1>16, <1>17, ObjectPutting

\* The texts that are appended with their array or map are its items.
LEMMA TextsTyped ==
  ASSUME NEW e, NEW types, TypedState(e, types), Fetching, NEW ts \in Seq(Text),
         Strings' = Strings \o ts, NEW o, NewObject(o), NEW m \in {VArr, VMap}, NEW types2,
         o.items = [k \in 1..Len(ts) |-> Len(Strings) + k - 1]
  PROVE  ObjectTyped(types2, o, TypeOf(m, VStr), Fresh, Mark')
<1> DEFINE f == [k \in 1..Len(ts) |-> Len(Strings) + k - 1]
<1>1. TypeOK /\ Strings \in Seq(Text)
  BY DEF TypedState, IInv, TypeOK
<1>2. Mark'.strings = Len(Strings) + Len(ts) /\ Len(Strings) \in Nat /\ Len(ts) \in Nat
  BY <1>1, MarkGrown
<1>3. MainType(VStr) = VStr /\ SubType(TypeOf(m, VStr)) = VStr
  <2>1. VStr \in Nat
    BY DEF VStr
  <2> QED BY <2>1, TypeWords
<1>4. DOMAIN f = 1..Len(ts) /\ \A k \in 1..Len(ts) : f[k] = Len(Strings) + k - 1
  OBVIOUS
<1> HIDE DEF f
<1>5. ASSUME NEW k \in 1..Len(ts) PROVE Denotes(types2, f[k], VStr, Anchor(Fresh), Mark')
  <2>1. f[k] \in 0..Mark'.strings - 1
    BY <1>2, <1>4
  <2>2. f[k] \in Anchor(Fresh).strings..Mark'.strings - 1
    BY <2>1 DEF Anchor
  <2> QED BY <1>3, <2>2, DenotesOf
<1>6. o.items = f
  BY DEF f
<1> QED BY <1>3, <1>4, <1>5, <1>6 DEF ObjectTyped

\* A step of EmbedList leaves the heap and the frames with types.
LEMMA EmbedListTyped ==
  ASSUME NEW e, NEW types, Typing(e, types), EmbedList
  PROVE  Stepped(e)
<1> DEFINE is == [k \in 1..Len(LibTexts) |-> Len(Strings) + k - 1]
           o  == Arr(is)
           u  == TypeOf(VArr, VStr)
<1>1. /\ Dispatch({EMBEDFUNC}) /\ W(1) \in LibList /\ Strings' = Strings \o LibTexts
      /\ NewObject(o) /\ Answer(Len(Objects))
  BY DEF EmbedList
<1>2. TypedState(e, types) /\ Fetching /\ TypeOK
  BY <1>1, Before
<1>3. LibTexts \in Seq(Text)
  BY <1>1, <1>2, LibTextsType
<1>4. o.kind = "arr" /\ o.items = is
  BY DEF Arr, Blank
<1>5. VStr \in Nat
  BY DEF VStr
<1>6. u \in Nat /\ MainType(u) \in Handles /\ KindOf(u) = "arr"
  BY <1>5, TypeWords
<1>7. ObjectTyped(types \o <<u>>, o, u, Fresh, Mark')
  BY <1>1, <1>2, <1>3, <1>4, TextsTyped
<1>8. MadeHere(e) = Value(u)
  BY <1>1, LibHere, LibTypes
<1>9. PICK g : Proceed([Replace(Takes(prog, Op, W(1)), Len(Objects)) EXCEPT !.gas = g])
  BY <1>1, LibHere
<1>10. o.kind = KindOf(u)
  BY <1>4, <1>6
<1> HIDE DEF o, u
<1> QED BY <1>1, <1>3, <1>6, <1>7, <1>8, <1>9, <1>10, LibHere, ObjectPutting

\* A step of EmbedGetMap leaves the heap and the frames with types.
LEMMA EmbedGetMapTyped ==
  ASSUME NEW e, NEW types, Typing(e, types), EmbedGetMap
  PROVE  Stepped(e)
<1> DEFINE ts == IF JsonFound /\ JsonHeld.form = "map" THEN JsonTexts ELSE <<>>
           ks == AsTexts([k \in 1..Len(ts) |-> JsonHeld.tree[Nth(JsonItems, k)].key])
           is == [k \in 1..Len(ts) |-> Len(Strings) + k - 1]
           o  == Map(ks, is)
           u  == TypeOf(VMap, VStr)
<1>1. /\ Dispatch({EMBEDFUNC}) /\ W(1) = GetMapOf /\ Strings' = Strings \o ts
      /\ NewObject(o) /\ Answer(Len(Objects))
  BY DEF EmbedGetMap
<1>2. TypedState(e, types) /\ Fetching /\ TypeOK
  BY <1>1, Before
<1>3. ts \in Seq(Text)
  <2>1. JsonTexts \in Seq(Text)
    BY TextType, Zenon DEF JsonTexts
  <2> QED BY <2>1
<1>4. o.kind = "map" /\ o.items = is
  BY DEF Map, Blank
<1>5. VStr \in Nat
  BY DEF VStr
<1>6. u \in Nat /\ MainType(u) \in Handles /\ KindOf(u) = "map"
  BY <1>5, TypeWords
<1> HIDE DEF ks, ts
<1>7. ObjectTyped(types \o <<u>>, o, u, Fresh, Mark')
  BY <1>1, <1>2, <1>3, <1>4, TextsTyped
<1>8. MadeHere(e) = Value(u)
  BY <1>1, LibHere, LibTypes
<1>9. PICK g : Proceed([Replace(Takes(prog, Op, W(1)), Len(Objects)) EXCEPT !.gas = g])
  BY <1>1, LibHere
<1>10. o.kind = KindOf(u)
  BY <1>4, <1>6
<1> HIDE DEF o, u
<1> QED BY <1>1, <1>3, <1>6, <1>7, <1>8, <1>9, <1>10, LibHere, ObjectPutting

-----------------------------------------------------------------------------
(***************************************************************************)
(* Copies.                                                                 *)
(***************************************************************************)
\* Only where texts are it matters that those of others will do.
LEMMA OwnText ==
  ASSUME NEW types, NEW v, NEW t, NEW lo, NEW hi, MainType(t) # VStr,
         Denotes(types, v, t, Anchor(lo), hi)
  PROVE  Denotes(types, v, t, lo, hi)
BY DenotesOf DEF Anchor

\* What an item of a container refers to, seen from a copy of the container.
LEMMA ItemMoved ==
  ASSUME NEW e, NEW types, TypedState(e, types), Fetching, NEW v, NEW t,
         Denotes(types, v, t, Anchor(Ground), Mark), NEW lo \in {Ground, Middle},
         lo # Ground => MainType(t) \notin Owned,
         NEW us \in Seq(Nat), Mark' \in MarkType, Below(Mark, Mark')
  PROVE  Denotes(types \o us, v, t, Anchor(lo), Mark')
<1> DEFINE types2 == types \o us
<1>2. /\ Ground \in MarkType /\ Middle \in MarkType /\ Mark \in MarkType /\ Mark.objects = Len(Objects)
  BY Between
<1>3. types \in Seq(Nat) /\ Len(types) = Len(Objects)
  BY DEF TypedState, FramesTyped
<1>4. \A k \in 1..Mark.objects : types2[k] = types[k]
  BY <1>2, <1>3
<1> HIDE DEF types2
<1>6. Denotes(types, v, t, Anchor(lo), Mark)
  <2>1. CASE lo = Ground
    BY <2>1
  <2>2. CASE lo # Ground /\ MainType(t) = VStr
    BY <2>2, DenotesOf DEF Anchor
  <2>3. CASE lo # Ground /\ MainType(t) # VStr
    BY <2>3, DenotesUnowned
  <2> QED BY <2>1, <2>2, <2>3
<1>7. Anchor(lo) \in MarkType /\ Below(Anchor(lo), Anchor(lo))
  BY <1>2 DEF Anchor, MarkType, Below
<1>8. Denotes(types2, v, t, Anchor(lo), Mark')
  BY <1>2, <1>4, <1>6, <1>7, DenotesCarried
<1> QED BY <1>8 DEF types2

\* A copy of the value v of type t, made for someone whose part of the heap begins at lo.
CopyIs(types, us, v, t, lo) ==
  LET os == CopyObjects(v, t)
  IN /\ us \in Seq(Nat) /\ Len(us) = Len(os)
     /\ \A j \in 1..Len(os) : os[j].kind = KindOf(us[j])
     /\ \A j \in 1..Len(os) : ObjectTyped(types \o us, os[j], us[j], lo, Mark')
     /\ Denotes(types \o us, CopyIndex(v, t), t, lo, Mark')

\* The heap after a copy has been made.
LEMMA CopyMarks ==
  ASSUME NEW e, NEW types, TypedState(e, types), Fetching, NEW t, NEW v, CopyInHeap(v, t),
         CopyStrings(v, t) \in Seq(Text), CopyObjects(v, t) \in Seq(Object)
  PROVE  /\ Strings \in Seq(Text) /\ Objects \in Seq(Object) /\ types \in Seq(Nat)
         /\ Len(types) = Len(Objects) /\ Len(Objects) \in Nat /\ Len(Strings) \in Nat
         /\ Len(CopyStrings(v, t)) \in Nat /\ Len(CopyObjects(v, t)) \in Nat
         /\ Mark'.strings = Len(Strings) + Len(CopyStrings(v, t))
         /\ Mark'.objects = Len(Objects) + Len(CopyObjects(v, t))
         /\ Mark' \in MarkType /\ Below(Mark, Mark')
         /\ \A lo \in {Ground, Middle} : /\ lo \in MarkType /\ lo.strings \in Nat /\ lo.objects \in Nat
                                         /\ lo.strings <= Len(Strings) /\ lo.objects <= Len(Objects)
<1> DEFINE ts == CopyStrings(v, t)
           os == CopyObjects(v, t)
<1>1. Strings \in Seq(Text) /\ Objects \in Seq(Object) /\ types \in Seq(Nat) /\ Len(types) = Len(Objects)
  BY DEF TypedState, FramesTyped, IInv, TypeOK
<1>2. Strings' = Strings \o ts /\ Objects' = Objects \o os
  BY DEF CopyInHeap
<1> HIDE DEF ts, os
<1>3. ts \in Seq(Text) /\ os \in Seq(Object)
  BY DEF ts, os
<1>4. Len(Strings') = Len(Strings) + Len(ts) /\ Len(Strings) \in Nat /\ Len(ts) \in Nat
  BY <1>1, <1>2, <1>3
<1>5. Len(Objects') = Len(Objects) + Len(os) /\ Len(Objects) \in Nat /\ Len(os) \in Nat
  BY <1>1, <1>2, <1>3
<1>6. /\ Mark'.strings = Len(Strings) + Len(ts) /\ Mark'.objects = Len(Objects) + Len(os)
      /\ Mark' \in MarkType /\ Below(Mark, Mark')
  BY <1>4, <1>5 DEF Mark, MarkType, Below
<1>7. /\ Ground \in MarkType /\ Middle \in MarkType /\ Below(Ground, Mark) /\ Below(Middle, Mark)
      /\ Mark.strings = Len(Strings) /\ Mark.objects = Len(Objects)
  BY Between
<1>8. \A lo \in {Ground, Middle} : /\ lo \in MarkType /\ lo.strings \in Nat /\ lo.objects \in Nat
                                   /\ lo.strings <= Len(Strings) /\ lo.objects <= Len(Objects)
  BY <1>7 DEF Below, MarkType
<1> QED BY <1>1, <1>4, <1>5, <1>6, <1>8 DEF ts, os

\* A text, or something without items.
LEMMA CopiedPlain ==
  ASSUME NEW e, NEW types, TypedState(e, types), Fetching, NEW t \in Nat, NEW v,
         Denotes(types, v, t, Anchor(Ground), Mark), NEW lo \in {Ground, Middle},
         CopyInHeap(v, t), CopyStrings(v, t) \in Seq(Text), CopyObjects(v, t) \in Seq(Object),
         MainType(t) \notin {VArr, VMap}
  PROVE  \E us : CopyIs(types, us, v, t, lo)
<1> DEFINE m == MainType(t)
<1>1. /\ types \in Seq(Nat) /\ Len(types) = Len(Objects) /\ Len(Objects) \in Nat /\ Len(Strings) \in Nat
      /\ Mark'.strings = Len(Strings) + Len(CopyStrings(v, t))
      /\ Mark'.objects = Len(Objects) + Len(CopyObjects(v, t))
      /\ Mark' \in MarkType /\ Below(Mark, Mark')
      /\ lo \in MarkType /\ lo.strings \in Nat /\ lo.objects \in Nat
      /\ lo.strings <= Len(Strings) /\ lo.objects <= Len(Objects)
  BY CopyMarks
<1>2. VStr \notin {VArr, VMap, VMoney, VBytes, VFile} /\ {VMoney, VBytes, VFile} \subseteq Handles
      /\ VStr \notin InHeap
  BY TypesApart DEF VStr, VArr, VMap, VMoney, VBytes, VFile, InHeap
<1>3. CASE m = VStr
  <2>1. CopyStrings(v, t) = <<String(v)>> /\ CopyObjects(v, t) = <<>> /\ CopyIndex(v, t) = Len(Strings)
    BY <1>2, <1>3 DEF CopyStrings, CopyObjects, CopyIndex
  <2>2. Mark'.strings = Len(Strings) + 1
    BY <1>1, <2>1
  <2>3. Len(Strings) \in lo.strings..Mark'.strings - 1
    BY <1>1, <2>2
  <2>4. Denotes(types \o <<>>, CopyIndex(v, t), t, lo, Mark')
    BY <1>3, <2>1, <2>3, DenotesOf
  <2>5. <<>> \in Seq(Nat) /\ Len(<<>>) = 0 /\ \A j : j \notin 1..0
    OBVIOUS
  <2>6. CopyIs(types, <<>>, v, t, lo)
    BY <2>1, <2>4, <2>5 DEF CopyIs
  <2> QED BY <2>6
<1>4. CASE m \in {VMoney, VBytes, VFile}
  <2> DEFINE us == <<t>>
             types2 == types \o us
             o == Obj(v)
  <2>1. CopyObjects(v, t) = <<o>> /\ CopyIndex(v, t) = Len(Objects) + Len(CopyObjects(v, t)) - 1
    BY <1>2, <1>4 DEF CopyObjects, CopyIndex, InHeap
  <2>2. m # VStr /\ m \in Handles /\ m \notin {VArr, VMap}
    BY <1>2, <1>4
  <2>3. Denotes(types, v, t, Ground, Mark)
    BY <2>2, OwnText
  <2>4. o.kind = KindOf(t)
    BY <2>2, <2>3, HeldHere
  <2>5. us \in Seq(Nat) /\ Len(us) = 1 /\ us[1] = t /\ Len(<<o>>) = 1 /\ <<o>>[1] = o
    OBVIOUS
  <2>6. types2[Len(Objects) + 1] = t
    BY <1>1, <2>5
  <2> HIDE DEF types2, us, o
  <2>7. Len(Objects) \in 0..Mark'.objects - 1 /\ Len(Objects) >= lo.objects /\ CopyIndex(v, t) = Len(Objects)
    BY <1>1, <2>1, <2>5
  <2>8. Denotes(types2, CopyIndex(v, t), t, lo, Mark')
    BY <2>2, <2>6, <2>7, DenotesOf
  <2>9. ObjectTyped(types2, o, t, lo, Mark')
    BY <2>2 DEF ObjectTyped
  <2>10. \A j \in 1..1 : j = 1
    OBVIOUS
  <2>11. /\ \A j \in 1..Len(<<o>>) : <<o>>[j].kind = KindOf(us[j])
         /\ \A j \in 1..Len(<<o>>) : ObjectTyped(types2, <<o>>[j], us[j], lo, Mark')
    BY <2>4, <2>5, <2>9, <2>10
  <2>12. CopyIs(types, us, v, t, lo)
    BY <2>1, <2>5, <2>8, <2>11 DEF CopyIs, types2
  <2> QED BY <2>12
<1>5. CASE m \notin {VStr, VMoney, VBytes, VFile}
  <2>1. CopyObjects(v, t) = <<>> /\ CopyIndex(v, t) = v
    BY <1>5 DEF CopyObjects, CopyIndex, InHeap
  <2>2. m # VStr /\ m \notin Owned
    BY <1>5 DEF Owned
  <2>3. <<>> \in Seq(Nat) /\ Len(<<>>) = 0 /\ \A j : j \notin 1..0
    OBVIOUS
  <2>4. Denotes(types \o <<>>, v, t, Anchor(lo), Mark')
    BY <1>1, <2>2, <2>3, ItemMoved
  <2>5. Denotes(types \o <<>>, v, t, lo, Mark')
    BY <2>2, <2>4, OwnText
  <2>6. CopyIs(types, <<>>, v, t, lo)
    BY <2>1, <2>3, <2>5 DEF CopyIs
  <2> QED BY <2>6
<1> QED BY <1>3, <1>4, <1>5

\* An array or a map, with copies of its items.
LEMMA CopiedContainer ==
  ASSUME NEW e, NEW types, TypedState(e, types), Fetching, NEW t \in Nat, NEW v,
         Denotes(types, v, t, Anchor(Ground), Mark), NEW lo \in {Ground, Middle},
         lo # Ground => OwnCopy(t),
         CopyInHeap(v, t), CopyStrings(v, t) \in Seq(Text), CopyObjects(v, t) \in Seq(Object),
         MainType(t) \in {VArr, VMap}
  PROVE  \E us : CopyIs(types, us, v, t, lo)
<1> DEFINE s == SubType(t)
           o == Obj(v)
           cs == CopiedObjects(o, t)
           items == CopiedItems(o, t)
           new == [o EXCEPT !.items = items]
           os == CopyObjects(v, t)
           n == Len(cs)
           ws == [k \in 1..n |-> s]
           us == Append(ws, t)
           types2 == types \o us
<1>1. /\ types \in Seq(Nat) /\ Len(types) = Len(Objects) /\ Len(Objects) \in Nat /\ Len(Strings) \in Nat
      /\ Len(CopyStrings(v, t)) \in Nat /\ Len(os) \in Nat
      /\ Mark'.strings = Len(Strings) + Len(CopyStrings(v, t))
      /\ Mark'.objects = Len(Objects) + Len(os)
      /\ Mark' \in MarkType /\ Below(Mark, Mark')
      /\ lo \in MarkType /\ lo.strings \in Nat /\ lo.objects \in Nat
      /\ lo.strings <= Len(Strings) /\ lo.objects <= Len(Objects)
  BY CopyMarks
<1>2. /\ VStr \notin {VArr, VMap} /\ {VArr, VMap} \subseteq Handles \cap InHeap
      /\ VStr \notin InHeap /\ Owned \subseteq InHeap /\ InHeap \subseteq Handles
      /\ {VArr, VMap} \subseteq InHeap
      /\ {VMoney, VBytes, VFile} \cap {VArr, VMap} = {}
  BY TypesApart DEF VStr, VArr, VMap, VMoney, VBytes, VFile, InHeap, Owned
<1>3. /\ os = Append(cs, new) /\ CopyIndex(v, t) = Len(Objects) + Len(os) - 1
      /\ CopyStrings(v, t) = CopiedStrings(o, t)
  <2>1. MainType(t) \in InHeap /\ MainType(t) # VStr
    BY <1>2
  <2>2. CopyIndex(v, t) = Len(Objects) + Len(os) - 1
    BY <2>1 DEF CopyIndex
  <2>3. os = Append(cs, new)
    BY <1>2 DEF CopyObjects
  <2>4. CopyStrings(v, t) = CopiedStrings(o, t)
    BY <2>1 DEF CopyStrings
  <2> QED BY <2>2, <2>3, <2>4
<1>4. Denotes(types, v, t, Ground, Mark) /\ MainType(t) \in Handles
  BY <1>2, OwnText
<1>5. /\ o \in Object /\ o.kind = KindOf(t)
      /\ \A j \in DOMAIN o.items : Denotes(types, o.items[j], s, Anchor(Ground), Mark)
  BY <1>4, HeldHere
<1>6. s \in Nat
  BY DEF SubType
<1>7. o.items \in Seq(Int) /\ Len(o.items) \in Nat /\ DOMAIN o.items = 1..Len(o.items)
  BY <1>5 DEF Object
<1>8. /\ DOMAIN items = 1..Len(o.items)
      /\ \A k \in 1..Len(o.items) :
           items[k] = IF MainType(s) = VStr THEN Len(Strings) + k - 1
                      ELSE IF MainType(s) \in InHeap THEN Len(Objects) + k - 1 ELSE o.items[k]
  BY DEF CopiedItems, ElementType
<1>9. MainType(s) \in InHeap =>
        /\ n = Len(o.items) /\ \A k \in 1..n : cs[k] = Obj(o.items[k])
  <2> SUFFICES ASSUME MainType(s) \in InHeap PROVE n = Len(o.items) /\ \A k \in 1..n : cs[k] = Obj(o.items[k])
    OBVIOUS
  <2>1. cs = [k \in 1..Len(o.items) |-> Obj(o.items[k])]
    BY DEF CopiedObjects, ElementType
  <2>2. Len(cs) = Len(o.items)
    BY <1>7, <2>1
  <2> QED BY <2>1, <2>2
<1>10. MainType(s) \notin InHeap => cs = <<>>
  BY DEF CopiedObjects, ElementType
<1>11. MainType(s) = VStr => Len(CopyStrings(v, t)) = Len(o.items)
  <2> SUFFICES ASSUME MainType(s) = VStr PROVE Len(CopyStrings(v, t)) = Len(o.items)
    OBVIOUS
  <2>1. CopiedStrings(o, t) = [k \in 1..Len(o.items) |-> String(o.items[k])]
    BY DEF CopiedStrings, ElementType
  <2> QED BY <1>3, <1>7, <2>1
<1>12. n \in Nat
  BY <1>7, <1>9, <1>10
<1> HIDE DEF cs, items
<1>13. new.items = items /\ new.kind = o.kind
  BY <1>5 DEF Object
<1> HIDE DEF new, s, o, os
<1>14. Len(os) = n + 1 /\ \A k \in 1..n : os[k] = cs[k]
  <2>1. cs \in Seq(Object)
    <3>1. MainType(s) \in InHeap => cs \in [1..n -> Object]
      <4> SUFFICES ASSUME MainType(s) \in InHeap PROVE cs \in [1..n -> Object]
        OBVIOUS
      <4>1. \A k \in 1..n : cs[k] \in Object
        <5> SUFFICES ASSUME NEW k \in 1..n PROVE cs[k] \in Object
          OBVIOUS
        <5>1. Denotes(types, o.items[k], s, Anchor(Ground), Mark)
          BY <1>5, <1>7, <1>9 DEF o, s
        <5>2. Denotes(types, o.items[k], s, Ground, Mark) /\ MainType(s) \in Handles
          BY <1>2, <5>1, OwnText
        <5>3. Obj(o.items[k]) \in Object
          BY <5>2, HeldHere
        <5> QED BY <1>9, <5>3
      <4>2. cs = [k \in 1..n |-> Obj(o.items[k])]
        BY <1>9 DEF cs, CopiedObjects, ElementType, s
      <4> QED BY <1>9, <4>1, <4>2
    <3>2. CASE MainType(s) \in InHeap
      <4>1. cs \in [1..n -> Object]
        BY <3>1, <3>2
      <4> QED BY <1>12, <4>1, FunctionSeq
    <3>3. CASE MainType(s) \notin InHeap
      BY <1>10, <3>3
    <3> QED BY <3>2, <3>3
  <2> QED BY <1>3, <2>1
<1>15. os[n + 1] = new
  BY <1>3, <1>12, <1>14
<1> HIDE DEF n
<1>16. ws \in Seq(Nat) /\ Len(ws) = n /\ \A k \in 1..n : ws[k] = s
  <2>1. ws \in [1..n -> Nat]
    BY <1>6 DEF s
  <2> HIDE DEF ws
  <2>2. ws \in Seq(Nat) /\ Len(ws) = n
    BY <1>12, <2>1, FunctionSeq
  <2> QED BY <2>2 DEF ws
<1> HIDE DEF ws
<1>17. us \in Seq(Nat) /\ Len(us) = n + 1 /\ (\A k \in 1..n : us[k] = s) /\ us[n + 1] = t
  BY <1>12, <1>16
<1> HIDE DEF us
<1>18. /\ \A k \in 1..Len(Objects) : types2[k] = types[k]
       /\ \A k \in 1..n + 1 : types2[Len(Objects) + k] = us[k]
  <2>1. /\ \A k \in 1..Len(types) : types2[k] = types[k]
        /\ \A k \in 1..Len(us) : types2[Len(types) + k] = us[k]
    <3>1. us \in Seq(Nat) /\ types \in Seq(Nat)
      BY <1>1, <1>17
    <3>2. /\ \A k \in 1..Len(types) : (types \o us)[k] = types[k]
          /\ \A k \in 1..Len(us) : (types \o us)[Len(types) + k] = us[k]
      BY <3>1, Appended
    <3> QED BY <3>2
  <2> QED BY <1>1, <1>17, <2>1
<1> HIDE DEF types2
\* The copy itself.
<1>19. Denotes(types2, CopyIndex(v, t), t, lo, Mark')
  <2>1. CopyIndex(v, t) = Len(Objects) + n
    BY <1>1, <1>3, <1>12, <1>14
  <2>2. Len(Objects) + n \in 0..Mark'.objects - 1 /\ Len(Objects) + n >= lo.objects
    BY <1>1, <1>12, <1>14
  <2>3. types2[Len(Objects) + n + 1] = t
    <3>1. n + 1 \in 1..n + 1 /\ Len(Objects) + n + 1 = Len(Objects) + (n + 1)
      BY <1>1, <1>12
    <3> QED BY <1>17, <1>18, <3>1
  <2> QED BY <1>4, <2>1, <2>2, <2>3, DenotesOf
\* What an item of it refers to.
<1>20. ASSUME NEW k \in 1..Len(o.items) PROVE Denotes(types2, items[k], s, Anchor(lo), Mark')
  <2>1. CASE MainType(s) = VStr
    <3>1. items[k] = Len(Strings) + k - 1
      BY <1>8, <2>1 DEF o, s
    <3>2. Mark'.strings = Len(Strings) + Len(o.items)
      BY <1>1, <1>11, <2>1 DEF o, s
    <3>3. Len(Strings) + k - 1 \in 0..Mark'.strings - 1
      BY <1>1, <1>7, <3>2 DEF o
    <3>4. items[k] \in Anchor(lo).strings..Mark'.strings - 1
      BY <3>1, <3>3 DEF Anchor
    <3> QED BY <2>1, <3>4, DenotesOf
  <2>2. CASE MainType(s) \in InHeap
    <3>1. items[k] = Len(Objects) + k - 1 /\ MainType(s) # VStr /\ MainType(s) \in Handles
      BY <1>2, <1>8, <2>2 DEF o, s
    <3>2. k \in 1..n /\ n = Len(o.items)
      BY <1>9, <2>2 DEF o, s
    <3>3. /\ items[k] \in 0..Mark'.objects - 1 /\ items[k] >= lo.objects
          /\ items[k] + 1 = Len(Objects) + k /\ k \in 1..n + 1
      BY <1>1, <1>12, <1>14, <3>1, <3>2
    <3>4. types2[items[k] + 1] = s
      BY <1>17, <1>18, <3>2, <3>3
    <3>5. Denotes(types2, items[k], s, lo, Mark')
      BY <3>1, <3>3, <3>4, DenotesOf
    <3> QED BY <1>1, <3>5, DenotesAnchor
  <2>3. CASE MainType(s) \notin InHeap \cup {VStr}
    <3>1. items[k] = o.items[k] /\ MainType(s) \notin Owned
      BY <1>2, <1>8, <2>3 DEF o, s
    <3>2. Denotes(types, o.items[k], s, Anchor(Ground), Mark)
      BY <1>5, <1>7 DEF o, s
    <3>3. Denotes(types2, o.items[k], s, Anchor(lo), Mark')
      BY <1>1, <1>17, <3>1, <3>2, ItemMoved DEF types2
    <3> QED BY <3>1, <3>3
  <2> QED BY <2>1, <2>2, <2>3
\* The copies of its items.
<1>21. ASSUME NEW k \in 1..n PROVE cs[k].kind = KindOf(s) /\ ObjectTyped(types2, cs[k], s, lo, Mark')
  <2>1. MainType(s) \in InHeap
    <3>1. n # 0
      BY <1>12
    <3>2. Len(<<>>) = 0
      OBVIOUS
    <3> QED BY <1>10, <3>1, <3>2 DEF n, s
  <2>2. cs[k] = Obj(o.items[k]) /\ k \in DOMAIN o.items
    BY <1>7, <1>9, <2>1 DEF o, s
  <2>3. Denotes(types, o.items[k], s, Anchor(Ground), Mark)
    BY <1>5, <2>2 DEF o, s
  <2>4. Denotes(types, o.items[k], s, Ground, Mark) /\ MainType(s) \in Handles
    BY <1>2, <2>1, <2>3, OwnText
  <2>5. /\ Obj(o.items[k]).kind = KindOf(s)
        /\ MainType(s) \in {VArr, VMap} =>
             \A j \in DOMAIN Obj(o.items[k]).items :
               Denotes(types, Obj(o.items[k]).items[j], SubType(s), Anchor(Ground), Mark)
    BY <2>4, HeldHere
  <2>6. ASSUME MainType(s) \in {VArr, VMap}, NEW j \in DOMAIN cs[k].items
        PROVE  Denotes(types2, cs[k].items[j], SubType(s), Anchor(lo), Mark')
    <3>1. Denotes(types, cs[k].items[j], SubType(s), Anchor(Ground), Mark)
      BY <2>2, <2>5, <2>6
    <3>2. lo # Ground => MainType(SubType(s)) \notin Owned
      BY <2>6 DEF OwnCopy, s
    <3> QED BY <1>1, <1>17, <3>1, <3>2, ItemMoved DEF types2
  <2>7. ObjectTyped(types2, cs[k], s, lo, Mark')
    BY <2>6 DEF ObjectTyped
  <2> QED BY <2>2, <2>5, <2>7
<1>22. ObjectTyped(types2, new, t, lo, Mark')
  BY <1>8, <1>13, <1>20 DEF ObjectTyped, s, o
<1>23. ASSUME NEW j \in 1..Len(os) PROVE os[j].kind = KindOf(us[j]) /\ ObjectTyped(types2, os[j], us[j], lo, Mark')
  <2>1. j \in 1..n \/ j = n + 1
    BY <1>12, <1>14
  <2>2. CASE j \in 1..n
    BY <1>14, <1>17, <1>21, <2>2
  <2>3. CASE j = n + 1
    BY <1>5, <1>13, <1>15, <1>17, <1>22, <2>3 DEF o
  <2> QED BY <2>1, <2>2, <2>3
<1>24. CopyIs(types, us, v, t, lo)
  BY <1>14, <1>17, <1>19, <1>23 DEF CopyIs, os, types2
<1> QED BY <1>24

\* A copy has a type for each of its objects, the types of what was copied.
LEMMA Copied ==
  ASSUME NEW e, NEW types, TypedState(e, types), Fetching, NEW t \in Nat, NEW v,
         Denotes(types, v, t, Anchor(Ground), Mark), NEW lo \in {Ground, Middle},
         lo # Ground => OwnCopy(t),
         CopyInHeap(v, t), CopyStrings(v, t) \in Seq(Text), CopyObjects(v, t) \in Seq(Object)
  PROVE  \E us : CopyIs(types, us, v, t, lo)
BY CopiedPlain, CopiedContainer

\* A step of Copy leaves the heap and the frames with types.
LEMMA CopyTyped ==
  ASSUME NEW e, NEW types, Typing(e, types), Copy
  PROVE  Stepped(e)
<1> DEFINE t == IF Op = COPYSTR THEN VStr ELSE W(1)
           s == Top(SortsHere(e), 0)
           v == Cell(0)
<1>0. TypeOK
  BY DEF Typing, TypedState, IInv
<1>1. /\ Dispatch({COPYSTR, COPY}) /\ Op \in {COPYSTR, COPY}
      /\ CopyInHeap(v, t) /\ Proceed(Replace(1, CopyIndex(v, t)))
  BY <1>0, Dispatched DEF Copy
<1>2. /\ TypedState(e, types) /\ Fetching /\ act \in ActivationType /\ act.i \in Int /\ TypeOK
      /\ AsksHere(e) /\ Len(SortsHere(e)) \in Nat
      /\ Strings \in Seq(Text) /\ Objects \in Seq(Object) /\ types \in Seq(Nat)
  BY <1>1, Before
<1>3. t \in Nat /\ MainType(VStr) = VStr
  <2>1. CASE Op = COPYSTR
    BY <2>1 DEF VStr, MainType
  <2>2. CASE Op = COPY /\ Op # COPYSTR
    <3>1. Words(Op) = 2
      BY <2>2, WordsOf
    <3>2. W(1) \in Nat
      BY <1>1, <1>2, <3>1, OperandWord
    <3> QED BY <2>2, <3>2 DEF VStr, MainType
  <2> QED BY <1>1, <2>1, <2>2
<1>4. Operands(Op) = <<CopySort(t)>>
  <2>1. CASE Op = COPYSTR
    <3>1. CopySort(VStr) = "str"
      BY <1>3, CopySortOf
    <3> QED BY <2>1, <3>1, OperandsOf, Zenon
  <2>2. CASE Op = COPY /\ Op # COPYSTR
    BY <2>2, OperandsOf, Zenon
  <2> QED BY <1>1, <2>1, <2>2
<1>5. v \in Int /\ Fits(v, CopySort(t))
  BY <1>1, <1>2, <1>4, Dispatched, Operand1
<1>6. MainType(t) \in {VArr, VMap} => ElementsFit(v, CopySort(ElementType(t)))
  <2>1. CASE Op = COPYSTR
    BY <2>1 DEF MainType, VStr, VArr, VMap
  <2>2. CASE Op = COPY /\ Op # COPYSTR
    <3>1. CopiedType = t
      BY <2>2 DEF CopiedType
    <3>2. ItemsFit
      BY <1>0, <1>1, Dispatched
    <3> QED BY <2>2, <3>1, <3>2, Zenon DEF ItemsFit
  <2> QED BY <1>1, <2>1, <2>2
<1>7. CopyStrings(v, t) \in Seq(Text) /\ CopyObjects(v, t) \in Seq(Object)
  BY <1>2, <1>3, <1>5, <1>6, CopiesType
<1>8. /\ Len(SortsHere(e)) >= 1 /\ Takes(prog, Op, W(1)) = 1
      /\ Meets1(cnt, s, CopySort(t)) /\ 0 \in 0..Len(SortsHere(e)) - 1
  <2>1. /\ Len(SortsHere(e)) >= 1 /\ Takes(prog, Op, W(1)) = 1 /\ Meets1(cnt, s, CopySort(t))
    BY <1>1, <1>4, Meets11
  <2> QED BY <1>2, <2>1
<1>9. /\ Op \notin Turns \cup {PARCONTRACT, CALLCONTRACT, SETMAP, SETINDEX, DUP}
      /\ Leaves(prog, Op, W(1)) = 1
  BY <1>1, OpsApart DEF PutOps
<1>10. /\ s \in SortSet /\ CellIs(types, Objects, act.stack, act.top - 0, s, Ground, Mark)
       /\ v = act.stack[act.top - 0] /\ (s.late => ParsHere(e) # <<>>)
  BY <1>2, <1>8, CellHere
<1>11. Proceed([Replace(1, CopyIndex(v, t)) EXCEPT !.gas = act.gas])
  BY <1>1, <1>2, FormsOfProceed
<1>12. Op = COPY => Reads(s, t) /\ MadeHere(e) = IF MainType(t) \in InHeap \cup {VStr} THEN Value(t) ELSE Bare(s)
  <2>1. COPY # COPYSTR
    BY DEF COPY, COPYSTR
  <2> QED BY <1>2, <2>1, AsksOf, MadeOf
<1>13. Op = COPYSTR => t = VStr /\ MadeHere(e) = Value(VStr)
  BY <1>2, MadeOf
<1> HIDE DEF t, s, v
<1>14. CASE MainType(t) \notin InHeap \cup {VStr}
  <2>1. Op = COPY /\ MadeHere(e) = Bare(s)
    BY <1>1, <1>3, <1>12, <1>13, <1>14
  <2>2. CopyStrings(v, t) = <<>> /\ CopyObjects(v, t) = <<>> /\ CopyIndex(v, t) = v
    <3>1. MainType(t) \notin {VStr, VArr, VMap, VMoney, VBytes, VFile}
      BY <1>14 DEF InHeap
    <3> QED BY <1>14, <3>1 DEF CopyStrings, CopyObjects, CopyIndex
  <2>3. UNCHANGED heap
    BY <1>1, <1>2, <2>2, NothingMore DEF CopyInHeap, heap
  <2> DEFINE r == Bare(s)
  <2>4. /\ r \in SortSet /\ r.form # "index" /\ (r.late => ParsHere(e) # <<>>)
        /\ ValueIs(types, v, r, Ground, Mark)
    BY <1>10, PlainSort
  <2> HIDE DEF r
  <2>5. MadeHere(e) = r /\ 1 \in Nat
    BY <2>1 DEF r
  <2> QED BY <1>1, <1>8, <1>9, <1>11, <2>2, <2>3, <2>4, <2>5, PuttingHere
<1>15. CASE MainType(t) \in InHeap \cup {VStr}
  <2>1. MadeHere(e) = Value(t)
    BY <1>1, <1>12, <1>13, <1>15
  <2>2. /\ Ground \in MarkType /\ Middle \in MarkType /\ Mark \in MarkType /\ Mark.strings = Len(Strings)
    BY <1>2, Between
  <2>3. Denotes(types, v, t, Anchor(Ground), Mark)
    <3>1. CASE MainType(t) = VStr
      <4>1. Meets1(cnt, s, "str")
        BY <1>8, <3>1, CopySortOf
      <4>2. IsText(s)
        BY <4>1, MeetsOf
      <4>3. v \in 0..Len(Strings) - 1
        BY <1>2, <1>8, <4>2, TextHere DEF s, v
      <4>4. v \in Anchor(Ground).strings..Mark.strings - 1
        BY <2>2, <4>3 DEF Anchor
      <4> QED BY <3>1, <4>4, DenotesOf
    <3>2. CASE MainType(t) \in InHeap
      <4>1. Op = COPY
        BY <1>1, <1>3, <1>13, <3>2 DEF InHeap, VStr, VArr, VMap, VMoney, VBytes, VFile
      <4>2. MainType(t) # VStr /\ MainType(t) \in Handles
        BY <3>2, TypesApart DEF InHeap, VStr, VArr, VMap, VMoney, VBytes, VFile
      <4>3. s.form = "value" /\ s.of = t
        BY <1>12, <4>1, <4>2 DEF Reads
      <4>4. Denotes(types, v, t, Ground, Mark)
        BY <1>2, <1>8, <4>3, ValueHere DEF s, v
      <4> QED BY <2>2, <4>4, DenotesAnchor
    <3> QED BY <1>15, <3>1, <3>2
  <2>4. Fresh \in {Ground, Middle} /\ (Fresh # Ground => act.isParContract)
    BY DEF Fresh
  <2>5. Fresh # Ground => OwnCopy(t)
    <3>1. CASE Op = COPYSTR
      BY <1>3, <1>13, <3>1 DEF OwnCopy, VStr, VArr, VMap
    <3>2. CASE Op = COPY /\ Fresh # Ground
      <4>1. Keeps(cnt, act.i, SortsHere(e))
        BY <1>1, <2>4, <3>2, KeepsHere
      <4>2. cnt.code[act.i + 1] = COPY /\ cnt.code[act.i + 2] = t
        <5>1. COPY # COPYSTR
          BY DEF COPY, COPYSTR
        <5>2. act.i + 1 + 1 = act.i + 2
          BY <1>2
        <5> QED BY <3>2, <5>1, <5>2 DEF Op, W, t
      <4> QED BY <4>1, <4>2 DEF Keeps
    <3> QED BY <1>1, <3>1, <3>2
  <2> DEFINE ts == CopyStrings(v, t)
             os == CopyObjects(v, t)
  <2>6. PICK us : CopyIs(types, us, v, t, Fresh)
    BY <1>1, <1>2, <1>3, <1>7, <2>3, <2>4, <2>5, Copied
  <2>7. /\ us \in Seq(Nat) /\ Len(us) = Len(os)
        /\ \A j \in 1..Len(os) : os[j].kind = KindOf(us[j])
        /\ \A j \in 1..Len(os) : ObjectTyped(types \o us, os[j], us[j], Fresh, Mark')
        /\ Denotes(types \o us, CopyIndex(v, t), t, Fresh, Mark')
    BY <2>6 DEF CopyIs
  <2>8. Denotes(types \o us, CopyIndex(v, t), t, Ground, Mark')
    <3>1. Mark' \in MarkType
      BY <1>1, <1>2, <1>7, CopyMarks
    <3>2. Below(Ground, Fresh) /\ Below(Mark', Mark') /\ Fresh \in MarkType
      <4>1. Below(Ground, Middle) /\ Below(Ground, Ground)
        BY <1>2, <2>2, Between DEF Below, MarkType
      <4> QED BY <2>2, <2>4, <3>1, <4>1 DEF Below, MarkType
    <3>3. \A j \in 1..Mark'.objects : (types \o us)[j] = (types \o us)[j]
      OBVIOUS
    <3> QED BY <2>2, <2>7, <3>1, <3>2, <3>3, DenotesCarried
  <2>9. ts \in Seq(Text) /\ os \in Seq(Object) /\ Strings' = Strings \o ts /\ Objects' = Objects \o os
    BY <1>1, <1>7 DEF CopyInHeap
  <2> DEFINE r == Value(t)
  <2>10. r \in SortSet /\ ~r.late /\ r.form # "index" /\ ValueIs(types \o us, CopyIndex(v, t), r, Ground, Mark')
    BY <1>3, <2>8, SortCast DEF ValueIs
  <2> HIDE DEF ts, os, r
  <2>11. MadeHere(e) = r /\ 1 \in Nat
    BY <2>1 DEF r
  <2> QED BY <1>1, <1>8, <1>9, <1>11, <2>7, <2>9, <2>10, <2>11, GrownPutting DEF os
<1> QED BY <1>14, <1>15

-----------------------------------------------------------------------------
(***************************************************************************)
(* Texts, arrays, maps and bytes are changed in place.                     *)
(***************************************************************************)
\* A container gets other items.
LEMMA ContainerChanged ==
  ASSUME NEW e, NEW types, Typing(e, types), NEW ops, Dispatch(ops), Op \in TakeOps, Op \in Stores1,
         NEW v, NEW t, Denotes(types, v, t, Ground, Mark), MainType(t) \in {VArr, VMap},
         UNCHANGED Strings, Proceed(Drop(Takes(prog, Op, W(1)))),
         NEW o \in Object, Objects' = [Objects EXCEPT ![v + 1] = o], o.kind = Obj(v).kind,
         Len(Obj(v).items) <= Len(o.items),
         \A j \in 1..Len(o.items) : Denotes(types, o.items[j], SubType(t), Anchor(Ground), Mark)
  PROVE  Stepped(e)
<1>1. TypedState(e, types) /\ Fetching /\ ~act.isParContract
  BY Before, Closed
<1>2. MainType(t) \in Handles /\ MainType(t) \in Owned /\ MainType(t) # VBytes
  BY TypesApart DEF Owned, VArr, VMap, VBytes
<1>3. /\ v + 1 \in Ground.objects + 1..Mark.objects /\ Obj(v) = Objects[v + 1] /\ Obj(v) \in Object
      /\ Obj(v).kind = KindOf(t) /\ types[v + 1] = t
  BY <1>1, <1>2, HeldHere
<1>4. Obj(v).kind # "bytes"
  BY <1>2, <1>3, KindsOf
<1>5. /\ o.items \in Seq(Int) /\ DOMAIN o.items = 1..Len(o.items) /\ Len(o.items) \in Nat
      /\ Len(Obj(v).items) \in Nat
  BY <1>3 DEF Object
<1>6. ObjLen(Obj(v)) = Len(Obj(v).items) /\ ObjLen(o) = Len(o.items)
  BY <1>4 DEF ObjLen
<1>7. 0..ObjLen(Objects[v + 1]) - 1 \subseteq 0..ObjLen(o) - 1
  <2> DEFINE a == Len(Obj(v).items)
             b == Len(o.items)
  <2>1. a \in Nat /\ b \in Nat /\ a <= b
    BY <1>5
  <2> HIDE DEF a, b
  <2>2. 0..a - 1 \subseteq 0..b - 1
    BY <2>1
  <2> QED BY <1>3, <1>6, <2>2 DEF a, b
<1>8. ObjectTyped(types, o, types[v + 1], Ground, Mark)
  BY <1>3, <1>5 DEF ObjectTyped
<1>9. Steady => HeapStep(types, types)
  BY <1>1, <1>3, <1>7, <1>8, HeapChanged
<1> QED BY <1>9, Changing

\* What is put into a container.
LEMMA ItemDenotes ==
  ASSUME NEW e, NEW types, TypedState(e, types), Fetching, NEW j \in 0..Len(SortsHere(e)) - 1,
         NEW t, Contains(Top(SortsHere(e), j), t)
  PROVE  Denotes(types, Cell(j), t, Anchor(Ground), Mark)
<1>1. CellIs(types, Objects, act.stack, act.top - j, Top(SortsHere(e), j), Ground, Mark)
      /\ Cell(j) = act.stack[act.top - j]
  BY CellHere
<1>2. Ground \in MarkType /\ Mark \in MarkType
  BY Between
<1> QED BY <1>1, <1>2, ContainsDenotes

\* A step of AppendArr leaves the heap and the frames with types.
LEMMA AppendArrTyped ==
  ASSUME NEW e, NEW types, Typing(e, types), AppendArr
  PROVE  Stepped(e)
<1> DEFINE v == Pointed(Cell(1))
           o == Obj(v)
           items == Append(o.items, Cell(0))
           new == [o EXCEPT !.items = items]
           s == Top(SortsHere(e), 1)
           t == VarOf(cnt, s)
<1>1. /\ Dispatch({APPENDARR}) /\ Op = APPENDARR
      /\ Objects' = [Objects EXCEPT ![v + 1].items = Append(@, Cell(0))]
      /\ Proceed(Drop(2)) /\ UNCHANGED Strings
  BY Before DEF AppendArr
<1>2. /\ TypedState(e, types) /\ Fetching /\ act.i \in Int /\ TypeOK /\ AsksHere(e)
      /\ Objects \in Seq(Object) /\ Len(SortsHere(e)) \in Nat
  BY <1>1, Before
<1>3. Operands(Op) = <<"addr_arr", "any">>
  BY <1>1, OperandsOf, Zenon
<1>4. Op \in TakeOps /\ Op \in Stores1
  BY <1>1 DEF TakeOps, Stores1
<1>5. /\ Takes(prog, Op, W(1)) = 2 /\ 0 \in 0..Len(SortsHere(e)) - 1 /\ 1 \in 0..Len(SortsHere(e)) - 1
      /\ s.form = "addr" /\ s.of < Variables(cnt) /\ Meets1(cnt, s, "addr_arr")
  BY <1>1, <1>3, StoreHere
<1>6. MainType(t) = VArr
  BY <1>5, MeetsOf
<1>7. Contains(Top(SortsHere(e), 0), SubType(t))
  BY <1>1, <1>2, AsksOf
<1>8. Denotes(types, v, t, Ground, Middle)
  BY <1>1, <1>5, AddressHere
<1>9. Middle = Mark
  BY <1>1, <1>4, Closed
<1>10. MainType(t) \in Handles
  BY <1>6, TypesApart
<1>11. Cell(0) \in Int
  BY <1>1, <1>2, <1>3, Dispatched, Operand2
<1> HIDE DEF v, t, s
<1>12. /\ o \in Object /\ o = Objects[v + 1] /\ v + 1 \in 1..Len(Objects)
       /\ \A j \in DOMAIN o.items : Denotes(types, o.items[j], SubType(t), Anchor(Ground), Mark)
  BY <1>2, <1>6, <1>8, <1>9, <1>10, HeldHere
<1>13. Denotes(types, Cell(0), SubType(t), Anchor(Ground), Mark)
  BY <1>2, <1>5, <1>7, ItemDenotes
<1>14. Objects' = [Objects EXCEPT ![v + 1] = new]
  BY <1>1, <1>2, <1>12
<1>15. o.items \in Seq(Int)
  BY <1>12 DEF Object
<1> DEFINE c == Cell(0)
<1> HIDE DEF o, c
<1>16. /\ items \in Seq(Int) /\ Len(items) = Len(o.items) + 1 /\ Len(o.items) \in Nat
       /\ DOMAIN o.items = 1..Len(o.items) /\ items[Len(o.items) + 1] = c
       /\ \A j \in 1..Len(o.items) : items[j] = o.items[j]
  BY <1>11, <1>15 DEF c
<1> HIDE DEF items
<1>17. new \in Object /\ new.kind = o.kind /\ new.items = items
  BY <1>12, <1>16, ItemsObject DEF Object, o
<1> HIDE DEF new
<1>18. \A j \in 1..Len(new.items) : Denotes(types, new.items[j], SubType(t), Anchor(Ground), Mark)
  <2> SUFFICES ASSUME NEW j \in 1..Len(new.items)
               PROVE  Denotes(types, new.items[j], SubType(t), Anchor(Ground), Mark)
    OBVIOUS
  <2>1. j \in 1..Len(o.items) \/ j = Len(o.items) + 1
    BY <1>16, <1>17
  <2> QED BY <1>12, <1>13, <1>16, <1>17, <2>1 DEF o, c
<1>19. Len(o.items) <= Len(new.items)
  BY <1>16, <1>17
<1>20. Proceed(Drop(Takes(prog, Op, W(1))))
  BY <1>1, <1>5
<1> QED BY <1>1, <1>4, <1>6, <1>8, <1>9, <1>14, <1>17, <1>18, <1>19, <1>20, ContainerChanged DEF o

\* The container under an index, and the value to put into it.
LEMMA SetHere ==
  ASSUME NEW e, NEW types, Typing(e, types), NEW ops, Dispatch(ops), NEW d, NEW f,
         d = "arr" \/ d = "map", Operands(Op) = <<d, f, "any">>,
         Contains(Top(SortsHere(e), 0), SubType(Top(SortsHere(e), 2).of))
  PROVE  LET t == Top(SortsHere(e), 2).of
             o == Obj(Cell(2))
         IN /\ Takes(prog, Op, W(1)) = 3 /\ Cell(0) \in Int
            /\ d = "arr" => MainType(t) = VArr
            /\ d = "map" => MainType(t) = VMap
            /\ Denotes(types, Cell(2), t, Ground, Mark)
            /\ o \in Object /\ o = Objects[Cell(2) + 1] /\ o.kind = KindOf(t)
            /\ Cell(2) + 1 \in 1..Len(Objects)
            /\ \A j \in DOMAIN o.items : Denotes(types, o.items[j], SubType(t), Anchor(Ground), Mark)
            /\ Denotes(types, Cell(0), SubType(t), Anchor(Ground), Mark)
<1> DEFINE s == Top(SortsHere(e), 2)
           t == s.of
<1>1. TypedState(e, types) /\ Fetching /\ TypeOK /\ Len(SortsHere(e)) \in Nat
  BY Before
<1>2. /\ Takes(prog, Op, W(1)) = 3 /\ Len(SortsHere(e)) >= 3 /\ Meets1(cnt, s, d)
  BY Meets13
<1>3. 0 \in 0..Len(SortsHere(e)) - 1 /\ 2 \in 0..Len(SortsHere(e)) - 1
  BY <1>1, <1>2
<1>4. /\ s.form = "value" /\ MainType(t) \in {VArr, VMap}
      /\ (d = "arr" => MainType(t) = VArr) /\ (d = "map" => MainType(t) = VMap)
  BY <1>2, MeetsOf DEF IsOf
<1>5. Denotes(types, Cell(2), t, Ground, Mark) /\ MainType(t) \in Handles
  BY <1>1, <1>3, <1>4, ValueHere, TypesApart
<1>6. Cell(0) \in Int
  BY <1>1, Dispatched, Operand3
<1>7. Denotes(types, Cell(0), SubType(t), Anchor(Ground), Mark)
  BY <1>1, <1>3, ItemDenotes
<1> HIDE DEF s
<1>8. LET o == Obj(Cell(2))
      IN /\ o \in Object /\ o = Objects[Cell(2) + 1] /\ o.kind = KindOf(t)
         /\ Cell(2) + 1 \in 1..Len(Objects)
         /\ \A j \in DOMAIN o.items : Denotes(types, o.items[j], SubType(t), Anchor(Ground), Mark)
  BY <1>1, <1>4, <1>5, HeldHere
<1> QED BY <1>2, <1>4, <1>5, <1>6, <1>7, <1>8 DEF s

\* One item is overwritten.
ItemsDenote(types, o, t, lo, hi) == \A j \in DOMAIN o.items : Denotes(types, o.items[j], t, lo, hi)
CopyPut(o, new, k, v) == /\ new \in Object /\ new.kind = o.kind /\ Len(new.items) = Len(o.items)
                          /\ Len(o.items) \in Nat /\ new.items[k] = v
                          /\ \A j \in 1..Len(o.items) : j # k => new.items[j] = o.items[j]

\* Assigning an item replaces that item.
LEMMA ItemsSet ==
  ASSUME NEW o \in Object, NEW k \in 1..Len(o.items), NEW v \in Int
  PROVE  CopyPut(o, [o EXCEPT !.items = [o.items EXCEPT ![k] = v]], k, v)
<1> DEFINE items == [o.items EXCEPT ![k] = v]
<1>1. o.items \in Seq(Int) /\ Len(o.items) \in Nat /\ DOMAIN o.items = 1..Len(o.items)
  BY DEF Object
<1>2. /\ items \in Seq(Int) /\ Len(items) = Len(o.items) /\ items[k] = v
      /\ \A j \in 1..Len(o.items) : j # k => items[j] = o.items[j]
  BY <1>1
<1> HIDE DEF items
<1> DEFINE new == [o EXCEPT !.items = items]
<1>3. new \in Object /\ new.kind = o.kind /\ new.items = items
  BY <1>2, ItemsObject DEF Object
<1> HIDE DEF new
<1>4. CopyPut(o, new, k, v)
  BY <1>1, <1>2, <1>3 DEF CopyPut
<1> QED BY <1>4 DEF new, items

\* An array or a map whose item is replaced by a value of the items' type keeps its type.
LEMMA ReplacedDenote ==
  ASSUME NEW o \in Object, NEW new, NEW k, NEW v, CopyPut(o, new, k, v),
         NEW types, NEW t, NEW lo, NEW hi, Denotes(types, v, t, lo, hi),
         ItemsDenote(types, o, t, lo, hi)
  PROVE  /\ new \in Object /\ new.kind = o.kind /\ Len(new.items) = Len(o.items)
         /\ Len(o.items) \in Nat
         /\ \A j \in 1..Len(new.items) : Denotes(types, new.items[j], t, lo, hi)
<1>1. DOMAIN o.items = 1..Len(o.items)
  BY DEF Object
<1>2. /\ new \in Object /\ new.kind = o.kind /\ Len(new.items) = Len(o.items)
      /\ Len(o.items) \in Nat /\ new.items[k] = v
      /\ \A j \in 1..Len(o.items) : j # k => new.items[j] = o.items[j]
  BY DEF CopyPut
<1>3. ASSUME NEW j \in 1..Len(new.items) PROVE Denotes(types, new.items[j], t, lo, hi)
  <2>1. CASE j = k
    BY <1>2, <2>1
  <2>2. CASE j # k
    BY <1>1, <1>2, <1>3, <2>2 DEF ItemsDenote
  <2> QED BY <2>1, <2>2
<1> QED BY <1>2, <1>3

\* A step of AssignSetArr leaves the heap and the frames with types.
LEMMA AssignSetArrTyped ==
  ASSUME NEW e, NEW types, Typing(e, types), AssignSetArr
  PROVE  Stepped(e)
<1> DEFINE v == Cell(2)
           o == Obj(v)
           k == Cell(1) + 1
           new == [o EXCEPT !.items = [o.items EXCEPT ![k] = Cell(0)]]
           t == Top(SortsHere(e), 2).of
<1>1. /\ Dispatch({ASSIGNSETARR}) /\ Op = ASSIGNSETARR
      /\ Objects' = [Objects EXCEPT ![v + 1].items[k] = Cell(0)]
      /\ Proceed(Drop(3)) /\ UNCHANGED Strings
  BY Before DEF AssignSetArr
<1>2. TypeOK /\ AsksHere(e) /\ Objects \in Seq(Object) /\ act.i \in Int
  BY <1>1, Before
<1>3. Operands(Op) = <<"arr", "any", "any">>
  BY <1>1, OperandsOf, Zenon
<1>4. Op \in TakeOps /\ Op \in Stores1
  BY <1>1 DEF TakeOps, Stores1
<1>5. Contains(Top(SortsHere(e), 0), SubType(t))
  BY <1>1, <1>2, AsksOf
<1> HIDE DEF t
<1>6. /\ Takes(prog, Op, W(1)) = 3 /\ Cell(0) \in Int /\ MainType(t) = VArr
      /\ Denotes(types, v, t, Ground, Mark)
      /\ o \in Object /\ o = Objects[v + 1] /\ v + 1 \in 1..Len(Objects)
      /\ \A j \in DOMAIN o.items : Denotes(types, o.items[j], SubType(t), Anchor(Ground), Mark)
      /\ Denotes(types, Cell(0), SubType(t), Anchor(Ground), Mark)
  BY <1>1, <1>3, <1>5, SetHere DEF t
<1>7. k \in 1..Len(o.items)
  <2>1. Cell(1) \in 0..Len(o.items) - 1
    BY <1>1, <1>2, Dispatched DEF ItemsFit
  <2>2. Len(o.items) \in Nat
    BY <1>6 DEF Object
  <2> QED BY <2>1, <2>2
<1>8. Objects' = [Objects EXCEPT ![v + 1] = new]
  BY <1>1, <1>2, <1>6
<1> DEFINE c == Cell(0)
<1> HIDE DEF k, o, v, c
<1>20. CopyPut(o, new, k, c)
  BY <1>6, <1>7, ItemsSet DEF c
<1> HIDE DEF new
<1>9. /\ new \in Object /\ new.kind = o.kind /\ Len(new.items) = Len(o.items) /\ Len(o.items) \in Nat
      /\ \A j \in 1..Len(new.items) : Denotes(types, new.items[j], SubType(t), Anchor(Ground), Mark)
  <2>1. ItemsDenote(types, o, SubType(t), Anchor(Ground), Mark)
    BY <1>6 DEF ItemsDenote
  <2>2. Denotes(types, c, SubType(t), Anchor(Ground), Mark)
    BY <1>6 DEF c
  <2> QED BY <1>6, <1>20, <2>1, <2>2, ReplacedDenote
<1>10. Len(o.items) <= Len(new.items)
  BY <1>9
<1>11. Proceed(Drop(Takes(prog, Op, W(1))))
  BY <1>1, <1>6
<1> QED BY <1>1, <1>4, <1>6, <1>8, <1>9, <1>10, <1>11, ContainerChanged DEF o

\* A step of AssignSetMap leaves the heap and the frames with types.
LEMMA AssignSetMapTyped ==
  ASSUME NEW e, NEW types, Typing(e, types), AssignSetMap
  PROVE  Stepped(e)
<1> DEFINE v == Cell(2)
           o == Obj(v)
           x == String(Cell(1))
           set == [o EXCEPT !.items = [o.items EXCEPT ![At(o, x)] = Cell(0)]]
           items == Append(o.items, Cell(0))
           add == Map(Append(o.keys, x), items)
           new == IF HasKey(o, x) THEN set ELSE add
           t == Top(SortsHere(e), 2).of
<1>1. /\ Dispatch({ASSIGNSETMAP}) /\ Op = ASSIGNSETMAP
      /\ Objects' = [Objects EXCEPT ![v + 1] =
           IF HasKey(o, x) THEN [o EXCEPT !.items[At(o, x)] = Cell(0)] ELSE add]
      /\ Proceed(Drop(3)) /\ UNCHANGED Strings
  BY Before DEF AssignSetMap
<1>2. TypeOK /\ TypeOK' /\ AsksHere(e) /\ Objects \in Seq(Object) /\ act.i \in Int
  BY <1>1, Before
<1>3. Operands(Op) = <<"map", "str", "any">>
  BY <1>1, OperandsOf, Zenon
<1>4. Op \in TakeOps /\ Op \in Stores1
  BY <1>1 DEF TakeOps, Stores1
<1>5. Contains(Top(SortsHere(e), 0), SubType(t))
  BY <1>1, <1>2, AsksOf
<1> HIDE DEF t
<1>6. /\ Takes(prog, Op, W(1)) = 3 /\ Cell(0) \in Int /\ MainType(t) = VMap
      /\ Denotes(types, v, t, Ground, Mark)
      /\ o \in Object /\ o = Objects[v + 1] /\ o.kind = KindOf(t) /\ v + 1 \in 1..Len(Objects)
      /\ \A j \in DOMAIN o.items : Denotes(types, o.items[j], SubType(t), Anchor(Ground), Mark)
      /\ Denotes(types, Cell(0), SubType(t), Anchor(Ground), Mark)
  BY <1>1, <1>3, <1>5, SetHere DEF t
<1>7. [o EXCEPT !.items[At(o, x)] = Cell(0)] = set
  OBVIOUS
<1>8. x \in Text
  <2>1. Fits(Cell(1), "str")
    BY <1>1, <1>2, <1>3, Dispatched, Operand3
  <2> QED BY <1>2, <2>1, FitsOf, StringType
<1>9. o.kind = "map" /\ o.items \in Seq(Int) /\ o.keys \in Seq(Text)
  BY <1>6, KindsOf DEF Object
<1> HIDE DEF set, add
<1>10. Objects' = [Objects EXCEPT ![v + 1] = new]
  BY <1>1, <1>7
<1> HIDE DEF o, v, x
<1>11. /\ new \in Object /\ new.kind = o.kind /\ Len(o.items) <= Len(new.items)
       /\ \A j \in 1..Len(new.items) : Denotes(types, new.items[j], SubType(t), Anchor(Ground), Mark)
  <2>1. CASE HasKey(o, x)
    <3>1. At(o, x) \in 1..Len(o.items)
      BY <2>1, KeyPosition
    <3> DEFINE c == Cell(0)
    <3> HIDE DEF c
    <3>20. CopyPut(o, set, At(o, x), c)
      BY <1>6, <3>1, ItemsSet DEF c, set
    <3>2. /\ set \in Object /\ set.kind = o.kind /\ Len(set.items) = Len(o.items) /\ Len(o.items) \in Nat
          /\ \A j \in 1..Len(set.items) : Denotes(types, set.items[j], SubType(t), Anchor(Ground), Mark)
      <4>1. ItemsDenote(types, o, SubType(t), Anchor(Ground), Mark)
        BY <1>6 DEF ItemsDenote
      <4>2. Denotes(types, c, SubType(t), Anchor(Ground), Mark)
        BY <1>6 DEF c
      <4> QED BY <1>6, <3>20, <4>1, <4>2, ReplacedDenote
    <3>3. new = set /\ Len(o.items) <= Len(set.items)
      BY <2>1, <3>2
    <3> HIDE DEF new
    <3> QED BY <3>2, <3>3
  <2>2. CASE ~HasKey(o, x)
    <3> DEFINE c == Cell(0)
    <3>1. c \in Int
      BY <1>6
    <3> HIDE DEF c
    <3>2. /\ Append(o.items, c) \in Seq(Int) /\ Len(Append(o.items, c)) = Len(o.items) + 1 /\ Len(o.items) \in Nat
          /\ DOMAIN o.items = 1..Len(o.items) /\ Append(o.items, c)[Len(o.items) + 1] = c
          /\ \A j \in 1..Len(o.items) : Append(o.items, c)[j] = o.items[j]
      BY <1>9, <3>1
    <3>3. items = Append(o.items, c)
      BY DEF c
    <3> HIDE DEF items
    <3>4. Append(o.keys, x) \in Seq(Text)
      BY <1>8, <1>9
    <3>5. add \in Object
      BY <3>2, <3>3, <3>4, MapObject DEF add
    <3>6. add.items = items /\ add.kind = "map"
      BY DEF add, Map, Blank
    <3>7. new = add
      BY <2>2
    <3> HIDE DEF new
    <3>8. \A j \in 1..Len(add.items) : Denotes(types, add.items[j], SubType(t), Anchor(Ground), Mark)
      <4> SUFFICES ASSUME NEW j \in 1..Len(add.items)
                   PROVE  Denotes(types, add.items[j], SubType(t), Anchor(Ground), Mark)
        OBVIOUS
      <4>1. j \in 1..Len(o.items) \/ j = Len(o.items) + 1
        BY <3>2, <3>3, <3>6
      <4> QED BY <1>6, <3>2, <3>3, <3>6, <4>1 DEF c
    <3>9. Len(o.items) <= Len(add.items)
      BY <3>2, <3>3, <3>6
    <3> QED BY <1>9, <3>5, <3>6, <3>7, <3>8, <3>9
  <2> QED BY <2>1, <2>2
<1> HIDE DEF new
<1>12. Proceed(Drop(Takes(prog, Op, W(1))))
  BY <1>1, <1>6
<1> QED BY <1>1, <1>4, <1>6, <1>10, <1>11, <1>12, ContainerChanged DEF o

\* A step of AssignSetBytes leaves the heap and the frames with types.
LEMMA AssignSetBytesTyped ==
  ASSUME NEW e, NEW types, Typing(e, types), AssignSetBytes
  PROVE  Stepped(e)
<1>1. /\ Dispatch({ASSIGNSETBYTES}) /\ Op = ASSIGNSETBYTES /\ Proceed(Drop(3))
      /\ UNCHANGED <<Strings, Objects>>
  BY Before DEF AssignSetBytes
<1>2. TypedState(e, types) /\ Fetching
  BY <1>1, Before
<1>3. Takes(prog, Op, W(1)) = 3
  BY <1>1, Before, TakesOf
<1>4. Op \in TakeOps
  BY <1>1 DEF TakeOps
<1>5. Steady => HeapStep(types, types)
  BY <1>1, <1>2, HeapUnchanged
<1> QED BY <1>1, <1>3, <1>4, <1>5, Changing

\* A step of AssignAddStr leaves the heap and the frames with types.
LEMMA AssignAddStrTyped ==
  ASSUME NEW e, NEW types, Typing(e, types), AssignAddStr
  PROVE  Stepped(e)
<1> DEFINE v == Pointed(Cell(1))
           s == Top(SortsHere(e), 1)
           t == VarOf(cnt, s)
           x == Strings[v + 1] \o String(Cell(0))
<1>1. /\ Dispatch({ASSIGNADDSTR}) /\ Op = ASSIGNADDSTR
      /\ Strings' = [Strings EXCEPT ![v + 1] = @ \o String(Cell(0))]
      /\ Proceed(Drop(2)) /\ UNCHANGED Objects
  BY Before DEF AssignAddStr
<1>2. /\ TypedState(e, types) /\ Fetching /\ act.i \in Int /\ TypeOK /\ AsksHere(e)
      /\ Strings \in Seq(Text)
  BY <1>1, Before
<1>3. Operands(Op) = <<"addr_str", "str">>
  BY <1>1, OperandsOf, Zenon
<1>4. Op \in TakeOps /\ Op \in Stores1
  BY <1>1 DEF TakeOps, Stores1
<1>5. /\ Takes(prog, Op, W(1)) = 2 /\ 1 \in 0..Len(SortsHere(e)) - 1
      /\ s.form = "addr" /\ s.of < Variables(cnt) /\ Meets1(cnt, s, "addr_str")
  BY <1>1, <1>3, StoreHere
<1>6. MainType(t) = VStr
  BY <1>5, MeetsOf
<1>7. Denotes(types, v, t, Ground, Middle)
  BY <1>1, <1>5, AddressHere
<1>8. Middle = Mark
  BY <1>1, <1>4, Closed
<1> HIDE DEF v, t, s
<1>9. v \in Ground.strings..Mark.strings - 1
  BY <1>6, <1>7, <1>8, DenotesOf
<1>10. Ground.strings \in Nat /\ Mark.strings = Len(Strings) /\ Len(Strings) \in Nat
  BY <1>2, Between DEF MarkType
<1>11. v + 1 \in 1..Len(Strings) /\ \A j \in 1..Ground.strings : j # v + 1 /\ j \in 1..Len(Strings)
  BY <1>9, <1>10
<1>12. Strings' = [Strings EXCEPT ![v + 1] = x]
  BY <1>1
<1> HIDE DEF x
<1>13. Len(Strings') = Len(Strings) /\ \A j \in 1..Len(Strings) : j # v + 1 => Strings'[j] = Strings[j]
  BY <1>2, <1>11, <1>12
<1>14. \A j \in 1..Ground.strings : Strings'[j] = Strings[j]
  BY <1>11, <1>13
<1>15. Steady => HeapStep(types, types)
  BY <1>1, <1>2, <1>13, <1>14, HeapKept
<1> QED BY <1>1, <1>4, <1>5, <1>15, Changing

\* A step of AssignAddBytes leaves the heap and the frames with types.
LEMMA AssignAddBytesTyped ==
  ASSUME NEW e, NEW types, Typing(e, types), AssignAddBytes
  PROVE  Stepped(e)
<1> DEFINE v == Pointed(Cell(1))
           old == Obj(v)
           new == Content(Obj(Cell(0)))
           len == old.num + Len(new)
           longer == [old EXCEPT !.num = len]
           other == Bytes(Len(Buffers) + 1, len)
           s == Top(SortsHere(e), 1)
           t == VarOf(cnt, s)
<1>1. /\ Dispatch({ASSIGNADDBYTES}) /\ Proceed(Drop(2)) /\ UNCHANGED Strings
      /\ \/ Objects' = [Objects EXCEPT ![v + 1].num = len]
         \/ Objects' = [Objects EXCEPT ![v + 1] = other]
  BY Zenon DEF AssignAddBytes
<1>2. /\ TypedState(e, types) /\ Fetching /\ act.i \in Int /\ TypeOK
      /\ Objects \in Seq(Object) /\ Op = ASSIGNADDBYTES /\ Buffers \in Seq(Text)
  BY <1>1, Before DEF TypeOK
<1>3. Operands(Op) = <<"addr_bytes", "bytes">>
  BY <1>2, OperandsOf, Zenon
<1>4. Op \in TakeOps /\ Op \in Stores1
  BY <1>2 DEF TakeOps, Stores1
<1>5. /\ Takes(prog, Op, W(1)) = 2 /\ 1 \in 0..Len(SortsHere(e)) - 1
      /\ s.form = "addr" /\ s.of < Variables(cnt) /\ Meets1(cnt, s, "addr_bytes")
  BY <1>1, <1>3, StoreHere
<1>6. MainType(t) = VBytes
  BY <1>5, MeetsOf
<1>7. Denotes(types, v, t, Ground, Middle)
  BY <1>1, <1>5, AddressHere
<1>8. Middle = Mark /\ ~act.isParContract
  BY <1>1, <1>4, Closed
<1>9. MainType(t) \in Handles /\ MainType(t) \in Owned
  BY <1>6, TypesApart DEF Owned
<1>10. Len(new) \in Nat
  <2>1. Fits(Cell(0), "bytes")
    BY <1>1, <1>2, <1>3, Dispatched, Operand2
  <2>2. new \in Text
    BY <1>2, <2>1, FitsOf, ContentType
  <2> QED BY <2>2 DEF Text
<1> HIDE DEF v, t, s, new
<1>11. /\ old \in Object /\ old = Objects[v + 1] /\ old.kind = KindOf(t) /\ v + 1 \in 1..Len(Objects)
       /\ types[v + 1] = t /\ v + 1 \in Ground.objects + 1..Mark.objects
  BY <1>2, <1>6, <1>7, <1>8, <1>9, HeldHere
<1>12. old.kind = "bytes" /\ IsKind(v, "bytes")
  <2>1. IsObject(v)
    BY <1>2, <1>7, <1>8, <1>9, HeldHere
  <2> QED BY <1>6, <1>11, <2>1, KindsOf DEF IsKind
<1>13. old.num \in Nat
  BY <1>2, <1>12, ContentType
<1>14. len \in Nat /\ old.num <= len /\ len \in Int
  BY <1>10, <1>13
<1> HIDE DEF old, len
<1>15. longer \in Object /\ longer.num = len /\ longer.kind = "bytes"
  BY <1>11, <1>12, <1>14, NumObject
<1>16. other \in Object /\ other.num = len /\ other.kind = "bytes"
  <2>1. Len(Buffers) + 1 \in Nat
    BY <1>2
  <2> QED BY <1>14, <2>1, BytesObject
<1>17. PICK o \in {longer, other} : Objects' = [Objects EXCEPT ![v + 1] = o]
  <2>1. CASE Objects' = [Objects EXCEPT ![v + 1] = other]
    BY <2>1
  <2>2. CASE Objects' = [Objects EXCEPT ![v + 1].num = len]
    <3>1. Objects' = [Objects EXCEPT ![v + 1] = longer]
      BY <1>2, <1>11, <2>2
    <3> QED BY <3>1
  <2> QED BY <1>1, <2>1, <2>2 DEF len, old, new, v
<1>18. o \in Object /\ o.kind = Objects[v + 1].kind /\ ObjLen(o) = len /\ ObjLen(Objects[v + 1]) = old.num
  BY <1>11, <1>12, <1>15, <1>16, <1>17 DEF ObjLen
<1>19. 0..ObjLen(Objects[v + 1]) - 1 \subseteq 0..ObjLen(o) - 1
  <2>1. 0..old.num - 1 \subseteq 0..len - 1
    BY <1>13, <1>14
  <2> QED BY <1>18, <2>1
<1>20. ObjectTyped(types, o, types[v + 1], Ground, Mark)
  BY <1>6, <1>11 DEF ObjectTyped, VBytes, VArr, VMap
<1>21. Steady => HeapStep(types, types)
  BY <1>1, <1>2, <1>8, <1>11, <1>17, <1>18, <1>19, <1>20, HeapChanged
<1> QED BY <1>1, <1>4, <1>5, <1>21, Changing

-----------------------------------------------------------------------------
(***************************************************************************)
(* Instructions that go elsewhere.                                         *)
(***************************************************************************)
\* What is left to show of a step of the activation that runs is about itself.
LEMMA FrameSet ==
  ASSUME NEW e, NEW types, TypedState(e, types), status = "running", NEW types2,
         HeapStep(types, types2), UNCHANGED <<prog, callers>>,
         act'.cnt = act.cnt, act'.counts[1] = act.counts[1], RunTyped(HereSorts(e), types2)'
  PROVE  FramesTyped(e, types2)'
<1>1. /\ Ground \in MarkType /\ Base \in MarkType /\ Mark' \in MarkType
      /\ Below(Ground, Mark') /\ Below(Base, Mark')
      /\ Carried(types, Objects, types2, Objects', Ground.objects)
      /\ Carried(types, Objects, types2, Objects', Base.objects)
  BY StepBounds
<1>2. /\ types2 \in Seq(Nat) /\ Len(types2) = Len(Objects') /\ KindsTyped(types2, Objects')
      /\ \A j \in 1..Ground.objects : Objects'[j] = Objects[j]
  BY DEF HeapStep
<1>3. /\ \A j \in 1..Ground.objects : types2[j] = types[j]
      /\ \A j \in 1..Base.objects : types2[j] = types[j]
  BY <1>1 DEF Carried
<1>4. /\ \A j \in DOMAIN prog.env : Denotes(types2, prog.env[j], e[j], Origin, Base)
      /\ EdgesRight'
      /\ \A n \in DOMAIN callers : WaitingTyped(e, types2, Objects, n)'
  BY <1>1, <1>2, <1>3, OthersWait
<1>5. \A j \in DOMAIN prog'.env : Denotes(types2, prog'.env[j], e[j], Origin, Base')
  BY <1>4 DEF Base
<1>6. \A n \in DOMAIN callers' : WaitingTyped(e, types2, Objects, n)'
  BY <1>4
<1>7. RunTyped(Sorts(prog, e, cnt), types2)'
  BY DEF HereSorts
<1> QED BY <1>2, <1>4, <1>5, <1>6, <1>7, Zenon DEF FramesTyped

\* The heap stays as it is.
LEMMA HeapIdle ==
  ASSUME NEW e, NEW types, TypedState(e, types), Fetching, UNCHANGED heap,
         act'.counts = act.counts, act'.isParContract = act.isParContract
  PROVE  HeapStep(types, types) /\ Middle' = Middle /\ Mark' = Mark /\ Objects' = Objects
<1>1. IInv /\ TypeOK /\ EdgesRight /\ RunTyped(HereSorts(e), types) /\ types \in Seq(Nat)
      /\ Len(types) = Len(Objects) /\ KindsTyped(types, Objects)
  BY DEF TypedState, FramesTyped, HereSorts, Fetching, IInv
<1>2. /\ Ground \in MarkType /\ Middle \in MarkType /\ Mark \in MarkType /\ Below(Middle, Mark)
  BY <1>1, RunningBounds DEF Fetching
<1>3. Mark' = Mark /\ Objects' = Objects /\ Strings' = Strings
  BY DEF heap, Mark
<1>4. Middle' = Middle
  BY <1>3 DEF Middle, LastMark
<1>5. Below(Mark, Mark) /\ Below(Middle, Middle)
  BY <1>2, BelowOrder
<1>6. HeapTyped(types, Objects, Ground, Middle) /\ HeapTyped(types, Objects, Middle, Mark)
  BY <1>1 DEF RunTyped
<1> QED BY <1>1, <1>2, <1>3, <1>4, <1>5, <1>6 DEF HeapStep, Carried

\* Another place is reached, with cells as it expects them.
LEMMA PlaceTyped ==
  ASSUME NEW e, NEW types, Typing(e, types), Fetching, UNCHANGED <<prog, callers, heap>>,
         act'.cnt = act.cnt, act'.calls = act.calls, act'.params = act.params,
         act'.pars = act.pars, act'.counts = act.counts, act'.Vars = act.Vars,
         act'.isParContract = act.isParContract, act'.stack = act.stack,
         NEW ss2 \in Seq(SortSet),
         Arrives(cnt, Here, HereSorts(e), act'.i, ss2, ParsHere(e)),
         CellsAre(types, Objects, act.stack, act'.top, ss2, Ground, Middle, Mark),
         Owner(cnt, act.i) \notin Here.lost =>
           act'.top - Len(ss2) = act.top - Len(SortsHere(e))
  PROVE  Stepped(e)
<1>1. TypedState(e, types) /\ CodeInv' /\ status = "running" /\ act' \in ActivationType
  BY DEF Typing, TypeOK, Fetching
<1>2. HeapStep(types, types) /\ Middle' = Middle /\ Mark' = Mark /\ Objects' = Objects
  BY <1>1, HeapIdle
<1>3. VarsTyped(cnt, types, act'.Vars, Ground, Middle')
  BY <1>1, <1>2, Between
<1>4. act.i \in Starts(cnt) /\ ParsTyped(types, act, ParsHere(e), Middle, Mark)
  BY <1>1, TypedHere
<1>5. ParsTyped(types, act', ParsHere(e), Middle', Mark')
  BY <1>2, <1>4 DEF ParsTyped
<1>6. Alike(act.stack, act'.stack, Floor(cnt, Here, act.calls, Len(act.calls)))
  BY DEF Alike
<1>7. CellsAre(types, Objects', act'.stack, act'.top, ss2, Ground, Middle', Mark')
  BY <1>2
<1>8. FramesTyped(e, types)'
  BY <1>1, <1>2, <1>3, <1>4, <1>5, <1>6, <1>7, FrameMoved DEF SortsHere
<1>9. Untouched
  BY <1>1, <1>2, StepBounds DEF Untouched, HeapStep
<1> QED BY <1>8, <1>9 DEF Stepped, Typable

\* Nothing is known of no cells.
LEMMA NoCells ==
  ASSUME NEW types, NEW os, NEW stack, NEW h \in Nat, NEW lo, NEW mid, NEW hi
  PROVE  CellsAre(types, os, stack, h, <<>>, lo, mid, hi) /\ <<>> \in Seq(SortSet) /\ Len(<<>>) = 0
<1>1. <<>> \in Seq(SortSet) /\ Len(<<>>) = 0
  OBVIOUS
<1> QED BY <1>1 DEF CellsAre

\* What a jump does to the activation.
Stayed == /\ UNCHANGED <<prog, callers, heap>>
          /\ act'.cnt = act.cnt /\ act'.calls = act.calls /\ act'.params = act.params
          /\ act'.pars = act.pars /\ act'.counts = act.counts /\ act'.Vars = act.Vars
          /\ act'.isParContract = act.isParContract /\ act'.stack = act.stack

\* A jump changes nothing but the program counter and the height of the stack.
LEMMA Jumped ==
  ASSUME act \in ActivationType, NEW t, Jump([act EXCEPT !.top = t])
  PROVE  Stayed /\ act'.i = Aim /\ act'.top = t
<1>1. /\ act' = [[act EXCEPT !.top = t] EXCEPT !.i = [act EXCEPT !.top = t].i + Signed(W(1)),
                                               !.gas = [act EXCEPT !.top = t].gas + 1]
      /\ UNCHANGED <<prog, callers, heap>>
  BY DEF Jump, ActivationType
<1> HIDE DEF W, Signed
<1>2. Stayed /\ act'.i = act.i + Signed(W(1)) /\ act'.top = t
  BY <1>1 DEF ActivationType, Stayed
<1>3. act.i + 1 + 1 = act.i + 2
  BY DEF ActivationType
<1> QED BY <1>2, <1>3, Zenon DEF Target, W, Aim

\* A step of Jmp leaves the heap and the frames with types.
LEMMA JmpTyped ==
  ASSUME NEW e, NEW types, Typing(e, types), Jmp
  PROVE  Stepped(e)
<1>1. Dispatch({JMP}) /\ Op = JMP /\ Op \in Stores1
  BY DEF Jmp, Dispatch, Stores1
<1>2. /\ TypedState(e, types) /\ TypeOK /\ Fetching /\ act \in ActivationType /\ CodeVerified
      /\ CodeInv
  BY <1>1, Before
<1>3. ParsHere(e) = <<>>
  BY <1>1, Closed
<1>4. /\ act.i \in Starts(cnt) /\ Here.at[act.i] \in Nat
  BY <1>2, TypedHere
<1>5. Checked(prog, e, cnt, Here, HereSorts(e))
  BY <1>2, HereChecked
<1>6. Arrives(cnt, Here, HereSorts(e), Aim, <<>>, <<>>)
  <2>1. cnt.code[act.i + 1] = JMP
    BY <1>1 DEF Op
  <2> DEFINE k == HereSorts(e)
  <2> HIDE DEF k
  <2>2. Checked(prog, e, cnt, Here, k)
    BY <1>5 DEF k
  <2>3. Arrives(cnt, Here, k, Target(cnt, act.i), <<>>, <<>>)
    BY <1>4, <2>1, <2>2, TypedOf, Zenon
  <2> QED BY <2>3 DEF Aim, k
<1>7. Owner(cnt, act.i) \in Here.lost
  BY <1>1, <1>2, StepHere
<1>8. Stayed /\ act'.i = Aim /\ act'.top = 0
  BY <1>2, Jumped DEF Jmp
<1>9. CellsAre(types, Objects, act.stack, 0, <<>>, Ground, Middle, Mark)
  BY NoCells
<1>10. <<>> \in Seq(SortSet)
  OBVIOUS
<1> QED BY <1>2, <1>3, <1>6, <1>7, <1>8, <1>9, <1>10, PlaceTyped DEF Stayed

\* A step of JmpRel leaves the heap and the frames with types.
LEMMA JmpRelTyped ==
  ASSUME NEW e, NEW types, Typing(e, types), JmpRel
  PROVE  Stepped(e)
<1>1. Dispatch({JMPREL}) /\ Op = JMPREL
  BY DEF JmpRel, Dispatch
<1>2. /\ TypedState(e, types) /\ TypeOK /\ Fetching /\ act \in ActivationType
  BY <1>1, Before
<1>4. /\ act.i \in Starts(cnt) /\ Here.at[act.i] \in Nat /\ SortsHere(e) \in Seq(SortSet)
      /\ CellsAre(types, Objects, act.stack, act.top, SortsHere(e), Ground, Middle, Mark)
  BY <1>2, TypedHere
<1>5. Checked(prog, e, cnt, Here, HereSorts(e))
  BY <1>2, HereChecked
<1>6. Arrives(cnt, Here, HereSorts(e), Aim, SortsHere(e), ParsHere(e))
  <2>1. cnt.code[act.i + 1] = JMPREL
    BY <1>1 DEF Op
  <2> DEFINE k == HereSorts(e)
  <2> HIDE DEF k
  <2>2. Checked(prog, e, cnt, Here, k)
    BY <1>5 DEF k
  <2>3. Arrives(cnt, Here, k, Target(cnt, act.i), k.at[act.i], k.pars[act.i])
    BY <1>4, <2>1, <2>2, TypedOf, Zenon
  <2> QED BY <2>3 DEF Aim, k, SortsHere, ParsHere
<1>8. Stayed /\ act'.i = Aim /\ act'.top = act.top
  <2>1. act = [act EXCEPT !.top = act.top]
    BY <1>2 DEF ActivationType
  <2>2. Jump([act EXCEPT !.top = act.top])
    BY <2>1 DEF JmpRel
  <2> QED BY <1>2, <2>2, Jumped
<1> QED BY <1>2, <1>4, <1>6, <1>8, PlaceTyped DEF Stayed

\* The cells below the topmost n.
Without(ss, n, rs) == n \in 0..Len(ss) /\ rs = SubSeq(ss, 1, Len(ss) - n)

\* The cells below those that are taken keep their sorts.
LEMMA DroppedSame ==
  ASSUME NEW types, NEW os, NEW stack, NEW h \in Int, NEW ss \in Seq(SortSet), NEW n,
         NEW lo, NEW mid, NEW hi,
         CellsAre(types, os, stack, h, ss, lo, mid, hi),
         NEW rs, Without(ss, n, rs)
  PROVE  rs \in Seq(SortSet) /\ Len(rs) = Len(ss) - n /\ CellsAre(types, os, stack, h - n, rs, lo, mid, hi)
<1> DEFINE d == Len(ss) - n
<1>1. d \in Nat /\ d <= Len(ss) /\ n \in Nat /\ Len(ss) <= h /\ rs = SubSeq(ss, 1, d)
  BY DEF CellsAre, Without
<1>2. rs \in Seq(SortSet) /\ Len(rs) = d /\ \A i \in 1..d : rs[i] = ss[i]
  <2> HIDE DEF d
  <2> QED BY <1>1, Prefix
<1>3. CellsAre(types, os, stack, h - n, rs, lo, mid, hi)
  <2>1. Len(rs) <= h - n
    BY <1>1, <1>2
  <2>2. ASSUME NEW j \in 1..Len(rs)
        PROVE  CellIs(types, os, stack, h - n - Len(rs) + j, rs[j], lo, IF rs[j].late THEN hi ELSE mid)
    <3>1. j \in 1..Len(ss) /\ rs[j] = ss[j] /\ h - n - Len(rs) + j = h - Len(ss) + j
      BY <1>1, <1>2
    <3> QED BY <3>1 DEF CellsAre
  <2> QED BY <2>1, <2>2 DEF CellsAre
<1> QED BY <1>1, <1>2, <1>3

\* So do those of the activation that runs.
LEMMA DroppedHere ==
  ASSUME NEW e, NEW types, TypedState(e, types), Fetching, NEW n \in 0..Len(SortsHere(e)),
         NEW rs, rs = SubSeq(SortsHere(e), 1, Len(SortsHere(e)) - n)
  PROVE  /\ rs \in Seq(SortSet) /\ Len(rs) = Len(SortsHere(e)) - n
         /\ CellsAre(types, Objects, act.stack, act.top - n, rs, Ground, Middle, Mark)
<1>1. /\ SortsHere(e) \in Seq(SortSet) /\ act.top \in Int
      /\ CellsAre(types, Objects, act.stack, act.top, SortsHere(e), Ground, Middle, Mark)
  BY TypedHere
<1>2. Without(SortsHere(e), n, rs)
  BY DEF Without
<1> QED BY <1>1, <1>2, DroppedSame

\* A step of JumpIf leaves the heap and the frames with types.
LEMMA JumpIfTyped ==
  ASSUME NEW e, NEW types, Typing(e, types), JumpIf
  PROVE  Stepped(e)
<1> DEFINE ss == SortsHere(e)
           rest == SubSeq(ss, 1, Len(ss) - 1)
<1>1. Dispatch({JZE, JNZ}) /\ Op \in {JZE, JNZ}
  BY DEF JumpIf, Dispatch
<1>2. /\ TypedState(e, types) /\ TypeOK /\ TypeOK' /\ Fetching /\ act \in ActivationType
      /\ act.top \in Nat
  BY <1>1, Before
<1>3. /\ act.i \in Starts(cnt) /\ Here.at[act.i] \in Nat /\ ss \in Seq(SortSet)
      /\ CellsAre(types, Objects, act.stack, act.top, ss, Ground, Middle, Mark)
      /\ Takes(prog, Op, W(1)) <= Len(ss) /\ Len(ss) <= act.top
  <2>1. Len(SortsHere(e)) <= act.top
    BY <1>1, Before
  <2> QED BY <1>2, <2>1, TypedHere
<1>4. 1 \in 0..Len(ss)
  <2>1. Takes(prog, Op, W(1)) = 1
    BY <1>1, TakesOf
  <2> QED BY <1>3, <2>1
<1>5. Checked(prog, e, cnt, Here, HereSorts(e))
  BY <1>2, HereChecked
<1>6. /\ Arrives(cnt, Here, HereSorts(e), act.i + Words(Op), rest, ParsHere(e))
      /\ Arrives(cnt, Here, HereSorts(e), Aim, rest, ParsHere(e))
  <2>1. cnt.code[act.i + 1] \in {JZE, JNZ}
    BY <1>1 DEF Op
  <2> DEFINE k == HereSorts(e)
  <2> HIDE DEF k
  <2>2. Checked(prog, e, cnt, Here, k)
    BY <1>5 DEF k
  <2>3. LET r == SubSeq(k.at[act.i], 1, Len(k.at[act.i]) - 1)
        IN /\ Arrives(cnt, Here, k, act.i + Length(cnt.code, act.i), r, k.pars[act.i])
           /\ Arrives(cnt, Here, k, Target(cnt, act.i), r, k.pars[act.i])
    BY <1>3, <2>1, <2>2, TypedOf, Zenon
  <2>4. Length(cnt.code, act.i) = Words(Op)
    BY <1>2, WordsRead
  <2> QED BY <2>3, <2>4, Zenon DEF Aim, k, SortsHere, ParsHere
<1>7. /\ rest \in Seq(SortSet) /\ Len(rest) = Len(ss) - 1
      /\ CellsAre(types, Objects, act.stack, act.top - 1, rest, Ground, Middle, Mark)
  BY <1>2, <1>4, DroppedHere
<1>8. Stayed /\ act'.i \in {Aim, act.i + Words(Op)} /\ act'.top = act.top - 1
  <2>1. CASE Jump(Drop(1))
    <3>1. Drop(1) = [act EXCEPT !.top = act.top - 1]
      BY <1>2 DEF Drop
    <3> QED BY <1>2, <2>1, <3>1, Jumped
  <2>2. CASE Proceed(Drop(1)) /\ UNCHANGED heap
    <3>1. 1 \in Nat /\ Drop(1) = [Drop(1) EXCEPT !.gas = act.gas]
      BY <1>2, FormsOfProceed
    <3>2. Steady /\ act'.top = act.top - 1 /\ act'.stack = act.stack /\ act'.Vars = act.Vars
      BY <1>2, <2>2, <3>1, DropSteady
    <3> QED BY <2>2, <3>2 DEF Steady, Stayed
  <2> QED BY <2>1, <2>2 DEF JumpIf
<1>9. Arrives(cnt, Here, HereSorts(e), act'.i, rest, ParsHere(e))
  BY <1>6, <1>8
<1>10. act'.top - Len(rest) = act.top - Len(ss)
  <2>1. Len(ss) \in Nat
    BY <1>3
  <2> HIDE DEF ss, rest
  <2> QED BY <1>2, <1>7, <1>8, <2>1
<1> HIDE DEF rest
<1> QED BY <1>2, <1>7, <1>8, <1>9, <1>10, PlaceTyped DEF Stayed

-----------------------------------------------------------------------------
(***************************************************************************)
(* Functions are called and return.                                        *)
(***************************************************************************)
\* The cells of the caller of the n-th function, and that they are below all others.
CallCells(c, l, k, types, os, stack, calls, n, lo, mid) ==
  LET f == Opened(c, calls, n)
      q == calls[n].ret - 2
  IN /\ CellsAre(types, os, stack, Floor(c, l, calls, n), Kept(k.at[q], k.at[f]), lo, mid, mid)
     /\ Opened(c, calls, n - 1) \notin l.lost =>
          calls[n].top = Floor(c, l, calls, n - 1) + Len(k.at[q])
Above(c, l, calls, n) ==
  \A m \in n..Len(calls) : Opened(c, calls, m) \notin l.lost /\ Floor(c, l, calls, n) <= Floor(c, l, calls, m)

\* The cells below the open calls, one call at a time.
LEMMA CallsTypedParts ==
  ASSUME NEW c, NEW l, NEW k, NEW types, NEW os, NEW a, NEW lo, NEW mid
  PROVE  CallsTyped(c, l, k, types, os, a, lo, mid) <=>
           \A n \in DOMAIN a.calls : Opened(c, a.calls, n) \notin l.lost =>
             /\ CallCells(c, l, k, types, os, a.stack, a.calls, n, lo, mid)
             /\ Above(c, l, a.calls, n)
BY Zenon DEF CallsTyped, CallCells, Above

\* What is below knows nothing of what is above.
LEMMA SameCalls ==
  ASSUME NEW c, NEW l, NEW calls, NEW calls2, NEW n \in Nat,
         \A m \in 1..n : calls2[m] = calls[m]
  PROVE  \A m \in 0..n : Opened(c, calls2, m) = Opened(c, calls, m) /\ Floor(c, l, calls2, m) = Floor(c, l, calls, m)
<1> SUFFICES ASSUME NEW m \in 0..n
             PROVE  Opened(c, calls2, m) = Opened(c, calls, m) /\ Floor(c, l, calls2, m) = Floor(c, l, calls, m)
  OBVIOUS
<1>1. m # 0 => calls2[m] = calls[m]
  OBVIOUS
<1>2. Opened(c, calls2, m) = Opened(c, calls, m)
  BY <1>1 DEF Opened
<1> QED BY <1>1, <1>2 DEF Floor

\* They rest on the calls opened up to there alone.
LEMMA SameCallCells ==
  ASSUME NEW c, NEW l, NEW k, NEW types, NEW os, NEW stack, NEW calls, NEW calls2, NEW lo, NEW mid,
         NEW n \in Nat \ {0}, \A m \in 1..n : calls2[m] = calls[m],
         CallCells(c, l, k, types, os, stack, calls, n, lo, mid)
  PROVE  CallCells(c, l, k, types, os, stack, calls2, n, lo, mid)
<1>1. n \in 0..n /\ n - 1 \in 0..n /\ n \in 1..n
  OBVIOUS
<1>2. /\ Opened(c, calls2, n) = Opened(c, calls, n) /\ Floor(c, l, calls2, n) = Floor(c, l, calls, n)
      /\ Opened(c, calls2, n - 1) = Opened(c, calls, n - 1)
      /\ Floor(c, l, calls2, n - 1) = Floor(c, l, calls, n - 1)
  BY <1>1, SameCalls
<1>3. calls2[n] = calls[n]
  BY <1>1
<1> QED BY <1>2, <1>3 DEF CallCells

\* One more function is called.
LEMMA CallsOpened ==
  ASSUME NEW c, NEW l, NEW k, NEW types, NEW os, NEW a, NEW b, NEW lo, NEW mid,
         a.calls \in Seq(Returns), NEW r \in Returns, b.calls = Append(a.calls, r), b.stack = a.stack,
         CallsTyped(c, l, k, types, os, a, lo, mid),
         LET N == Len(a.calls) + 1
             f == Opened(c, b.calls, N)
         IN /\ f \in l.lost => Opened(c, b.calls, N - 1) \in l.lost
            /\ f \notin l.lost => /\ CallCells(c, l, k, types, os, a.stack, b.calls, N, lo, mid)
                                  /\ Floor(c, l, b.calls, N) \in Nat
                                  /\ Floor(c, l, b.calls, N - 1) <= Floor(c, l, b.calls, N),
         \A n \in DOMAIN a.calls : Floor(c, l, a.calls, n) \in Nat
  PROVE  CallsTyped(c, l, k, types, os, b, lo, mid)
<1> DEFINE N == Len(a.calls) + 1
           calls == a.calls
           calls2 == b.calls
<1>1. /\ Len(calls) \in Nat /\ N \in Nat \ {0} /\ DOMAIN calls = 1..Len(calls)
      /\ DOMAIN calls2 = 1..N /\ Len(calls2) = N /\ N - 1 = Len(calls)
      /\ \A m \in 1..Len(calls) : calls2[m] = calls[m]
  OBVIOUS
<1> HIDE DEF N, calls, calls2
<1>2. \A m \in 0..Len(calls) : Opened(c, calls2, m) = Opened(c, calls, m) /\ Floor(c, l, calls2, m) = Floor(c, l, calls, m)
  <2> DEFINE n == Len(calls)
  <2>1. n \in Nat /\ \A m \in 1..n : calls2[m] = calls[m]
    BY <1>1
  <2> HIDE DEF n
  <2>2. \A m \in 0..n : Opened(c, calls2, m) = Opened(c, calls, m) /\ Floor(c, l, calls2, m) = Floor(c, l, calls, m)
    BY <2>1, SameCalls
  <2> QED BY <2>2 DEF n
<1>3. \A n \in DOMAIN calls : Opened(c, calls, n) \notin l.lost =>
        CallCells(c, l, k, types, os, a.stack, calls, n, lo, mid) /\ Above(c, l, calls, n)
  BY CallsTypedParts DEF calls
<1>4. /\ Opened(c, calls2, N) \in l.lost => Opened(c, calls2, N - 1) \in l.lost
      /\ Opened(c, calls2, N) \notin l.lost =>
           /\ CallCells(c, l, k, types, os, a.stack, calls2, N, lo, mid)
           /\ Floor(c, l, calls2, N) \in Nat
           /\ Floor(c, l, calls2, N - 1) <= Floor(c, l, calls2, N)
  BY Zenon DEF N, calls2
<1>5. ASSUME NEW n \in DOMAIN calls2, Opened(c, calls2, n) \notin l.lost
      PROVE  CallCells(c, l, k, types, os, b.stack, calls2, n, lo, mid) /\ Above(c, l, calls2, n)
  <2>1. CASE n = N
    <3>1. Above(c, l, calls2, N)
      <4>1. \A m \in N..N : m = N
        BY <1>1
      <4>2. Floor(c, l, calls2, N) <= Floor(c, l, calls2, N)
        BY <1>4, <1>5, <2>1
      <4> QED BY <1>1, <1>5, <2>1, <4>1, <4>2 DEF Above
    <3> QED BY <1>4, <1>5, <2>1, <3>1
  <2>2. CASE n # N
    <3>1. n \in 1..Len(calls) /\ n \in DOMAIN calls /\ n \in 0..Len(calls)
      BY <1>1, <2>2
    <3>2. CallCells(c, l, k, types, os, a.stack, calls, n, lo, mid) /\ Above(c, l, calls, n)
      BY <1>2, <1>3, <1>5, <3>1
    <3>3. CallCells(c, l, k, types, os, a.stack, calls2, n, lo, mid)
      <4>1. \A m \in 1..n : calls2[m] = calls[m]
        BY <1>1, <3>1
      <4> QED BY <1>1, <3>1, <3>2, <4>1, SameCallCells
    <3>4. \A m \in n..Len(calls) : Opened(c, calls2, m) \notin l.lost /\ Floor(c, l, calls2, n) <= Floor(c, l, calls2, m)
      <4> SUFFICES ASSUME NEW m \in n..Len(calls)
                   PROVE  Opened(c, calls2, m) \notin l.lost /\ Floor(c, l, calls2, n) <= Floor(c, l, calls2, m)
        OBVIOUS
      <4>1. m \in 0..Len(calls)
        BY <3>1
      <4>2. Opened(c, calls, m) \notin l.lost /\ Floor(c, l, calls, n) <= Floor(c, l, calls, m)
        BY <3>2 DEF Above
      <4> QED BY <1>2, <3>1, <4>1, <4>2
    <3>5. Opened(c, calls2, N) \notin l.lost /\ Floor(c, l, calls2, n) <= Floor(c, l, calls2, N)
      <4>1. Len(calls) \in n..Len(calls) /\ Len(calls) \in 0..Len(calls)
        BY <1>1, <3>1
      <4>2. /\ Opened(c, calls2, N - 1) \notin l.lost
            /\ Floor(c, l, calls2, n) <= Floor(c, l, calls2, N - 1)
        BY <1>1, <3>4, <4>1
      <4>3. Floor(c, l, calls2, N - 1) \in Nat /\ Floor(c, l, calls2, n) \in Nat
        <5>1. Len(calls) \in DOMAIN calls
          BY <1>1, <3>1
        <5>2. \A i \in DOMAIN calls : Floor(c, l, calls, i) \in Nat
          BY DEF calls
        <5> QED BY <1>1, <1>2, <3>1, <4>1, <5>1, <5>2
      <4> DEFINE x == Floor(c, l, calls2, n)
                 y == Floor(c, l, calls2, N - 1)
                 z == Floor(c, l, calls2, N)
      <4>4. Opened(c, calls2, N) \notin l.lost /\ x \in Nat /\ y \in Nat /\ z \in Nat /\ x <= y /\ y <= z
        BY <1>4, <4>2, <4>3
      <4> HIDE DEF x, y, z
      <4>5. x <= z
        BY <4>4
      <4> QED BY <4>4, <4>5 DEF x, z
    <3>6. \A m \in n..N : m \in n..Len(calls) \/ m = N
      BY <1>1, <3>1
    <3>7. Above(c, l, calls2, n)
      BY <1>1, <3>4, <3>5, <3>6 DEF Above
    <3> QED BY <3>3, <3>7
  <2> QED BY <2>1, <2>2
<1> QED BY <1>5, CallsTypedParts DEF calls2

\* The function called last returns.
LEMMA CallsClosed ==
  ASSUME NEW c, NEW l, NEW k, NEW types, NEW os, NEW a, NEW b, NEW lo, NEW mid,
         a.calls \in Seq(Returns), a.calls # <<>>, b.calls = SubSeq(a.calls, 1, Len(a.calls) - 1),
         b.stack = a.stack, CallsTyped(c, l, k, types, os, a, lo, mid)
  PROVE  CallsTyped(c, l, k, types, os, b, lo, mid)
<1> DEFINE n == Len(a.calls) - 1
           calls == a.calls
           calls2 == b.calls
<1>1. /\ n \in Nat /\ DOMAIN calls = 1..n + 1 /\ DOMAIN calls2 = 1..n /\ Len(calls2) = n
      /\ \A m \in 1..n : calls2[m] = calls[m] /\ Len(calls) = n + 1
  BY CallersSplit
<1> HIDE DEF n, calls, calls2
<1>2. \A m \in 0..n : Opened(c, calls2, m) = Opened(c, calls, m) /\ Floor(c, l, calls2, m) = Floor(c, l, calls, m)
  BY <1>1, SameCalls
<1>3. \A i \in DOMAIN calls : Opened(c, calls, i) \notin l.lost =>
        CallCells(c, l, k, types, os, a.stack, calls, i, lo, mid) /\ Above(c, l, calls, i)
  BY CallsTypedParts DEF calls
<1>4. ASSUME NEW i \in DOMAIN calls2, Opened(c, calls2, i) \notin l.lost
      PROVE  CallCells(c, l, k, types, os, b.stack, calls2, i, lo, mid) /\ Above(c, l, calls2, i)
  <2>1. i \in 1..n /\ i \in 0..n /\ i \in DOMAIN calls /\ i \in Nat \ {0}
    BY <1>1
  <2>2. CallCells(c, l, k, types, os, a.stack, calls, i, lo, mid) /\ Above(c, l, calls, i)
    BY <1>2, <1>3, <1>4, <2>1
  <2>3. CallCells(c, l, k, types, os, a.stack, calls2, i, lo, mid)
    <3>1. \A m \in 1..i : calls2[m] = calls[m]
      BY <1>1, <2>1
    <3> QED BY <2>1, <2>2, <3>1, SameCallCells
  <2>4. Above(c, l, calls2, i)
    <3> SUFFICES ASSUME NEW m \in i..n
                 PROVE  Opened(c, calls2, m) \notin l.lost /\ Floor(c, l, calls2, i) <= Floor(c, l, calls2, m)
      BY <1>1 DEF Above
    <3>1. m \in 0..n /\ m \in i..Len(calls)
      BY <1>1, <2>1
    <3>2. Opened(c, calls, m) \notin l.lost /\ Floor(c, l, calls, i) <= Floor(c, l, calls, m)
      BY <2>2, <3>1 DEF Above
    <3> QED BY <1>2, <2>1, <3>1, <3>2
  <2> QED BY <2>3, <2>4
<1> QED BY <1>4, CallsTypedParts DEF calls2

\* What the sorts of the activation that runs are after a step in its contract.
LEMMA RunNext ==
  ASSUME NEW e, NEW types, TypedState(e, types), Fetching, UNCHANGED <<prog, callers, heap>>,
         act'.cnt = act.cnt, act'.counts = act.counts, act'.isParContract = act.isParContract,
         act'.Vars = act.Vars, act'.params = act.params,
         CallsTyped(cnt, Here, HereSorts(e), types, Objects, act', Ground, Middle),
         StackTyped(cnt, Here, HereSorts(e), types, Objects, act', act'.i, act'.top, Ground, Middle, Mark),
         act'.i \in Starts(cnt) => ParsTyped(types, act', HereSorts(e).pars[act'.i], Middle, Mark)
  PROVE  Stepped(e)
<1> DEFINE k == HereSorts(e)
<1>1. HeapStep(types, types) /\ Middle' = Middle /\ Mark' = Mark /\ Objects' = Objects
  BY HeapIdle
<1>2. cnt' = cnt /\ Here' = Here /\ HereSorts(e)' = k /\ Ground' = Ground
  <2>1. cnt' = cnt
    BY DEF cnt
  <2>2. Ground' = Ground
    <3>1. TypeOK
      BY HereChecked
    <3> QED BY <3>1, EdgesKept
  <2> QED BY <2>1, <2>2 DEF Here, HereSorts
<1>3. LocalsTyped(cnt, Here, k, types, Objects, act', Ground, Middle)
  <2>1. VarsTyped(cnt, types, act'.Vars, Ground, Middle) /\ ParamsTyped(cnt, types, act'.params, Ground, Middle)
    BY Between
  <2> QED BY <2>1 DEF LocalsTyped
<1>4. RunTyped(HereSorts(e), types)'
  <2> HIDE DEF k
  <2>1. /\ LocalsTyped(cnt, Here, k, types, Objects', act', Ground, Middle')
        /\ StackTyped(cnt, Here, k, types, Objects', act', act'.i, act'.top, Ground, Middle', Mark')
        /\ act'.i \in Starts(cnt) => ParsTyped(types, act', k.pars[act'.i], Middle', Mark')
    BY <1>1, <1>3 DEF k
  <2> QED BY <1>1, <1>2, <2>1 DEF RunTyped, HeapStep
<1>5. FramesTyped(e, types)'
  BY <1>1, <1>4, FrameSet DEF Fetching
<1>6. Untouched
  BY <1>1, StepBounds DEF Untouched, HeapStep, Fetching
<1> QED BY <1>5, <1>6 DEF Stepped, Typable

\* A step of CallFunc leaves the heap and the frames with types.
LEMMA CallFuncTyped ==
  ASSUME NEW e, NEW types, Typing(e, types), CallFunc
  PROVE  Stepped(e)
<1> DEFINE r == [ret |-> act.i + 2, top |-> act.top]
           calls == Append(act.calls, r)
           N == Len(act.calls) + 1
           k == HereSorts(e)
           ss == SortsHere(e)
           rs == k.at[Aim]
           top == act.top
           floor == Floor(cnt, Here, act.calls, Len(act.calls))
<1>1. Dispatch({CALLFUNC}) /\ Op = CALLFUNC /\ Op \in Stores1
  BY DEF CallFunc, Dispatch, Stores1
<1>2. /\ TypedState(e, types) /\ TypeOK /\ Fetching /\ act \in ActivationType /\ CodeVerified
      /\ CodeInv
  BY <1>1, Before
<1>3. ParsHere(e) = <<>> /\ Middle = Mark /\ ~act.isParContract
  BY <1>1, Closed
<1>4. /\ act.i \in Starts(cnt) /\ Here.at[act.i] \in Nat /\ ss \in Seq(SortSet) /\ Len(ss) = Here.at[act.i]
      /\ CellsAre(types, Objects, act.stack, top, ss, Ground, Middle, Mark)
      /\ floor \in Nat /\ top \in Nat /\ top >= floor + Len(ss)
      /\ ParsTyped(types, act, ParsHere(e), Middle, Mark)
  BY <1>2, TypedHere
<1>5. Checked(prog, e, cnt, Here, k)
  BY <1>2, HereChecked
<1>6. act.calls \in Seq(Returns) /\ r \in Returns
  BY <1>2 DEF ActivationType, Depths, Returns
<1>7. /\ calls \in Seq(Returns) /\ Len(calls) = N /\ calls[N] = r /\ N \in Nat \ {0} /\ N - 1 = Len(act.calls)
      /\ Len(act.calls) \in Nat /\ \A m \in 1..Len(act.calls) : calls[m] = act.calls[m]
      /\ calls[N].ret - 2 = act.i /\ calls[N].top = top
  <2>1. act.i \in Int
    BY <1>2 DEF ActivationType
  <2>2. calls \in Seq(Returns) /\ Len(calls) = N /\ calls[N] = r /\ Len(act.calls) \in Nat
        /\ \A m \in 1..Len(act.calls) : calls[m] = act.calls[m]
    BY <1>6
  <2> HIDE DEF calls
  <2> QED BY <2>1, <2>2
<1>8. /\ UNCHANGED <<prog, callers, heap>>
      /\ act'.cnt = act.cnt /\ act'.calls = calls /\ act'.params = act.params
      /\ act'.pars = act.pars /\ act'.counts = act.counts /\ act'.Vars = act.Vars
      /\ act'.isParContract = act.isParContract /\ act'.stack = act.stack
      /\ act'.i = Aim /\ act'.top = top
  <2> DEFINE a == [act EXCEPT !.calls = calls]
  <2>1. /\ DOMAIN a = DOMAIN act /\ a.i = act.i /\ a.top = act.top /\ a.gas = act.gas
        /\ a.cnt = act.cnt /\ a.calls = calls /\ a.params = act.params /\ a.pars = act.pars
        /\ a.counts = act.counts /\ a.Vars = act.Vars /\ a.isParContract = act.isParContract
        /\ a.stack = act.stack
    <3> HIDE DEF calls
    <3> QED BY <1>2 DEF ActivationType
  <2>2. /\ act' = [a EXCEPT !.i = a.i + Signed(W(1)), !.gas = a.gas + 1]
        /\ UNCHANGED <<prog, callers, heap>>
    <3> HIDE DEF a
    <3>1. Jump(a)
      BY DEF CallFunc, a
    <3>2. "i" \in DOMAIN a /\ "gas" \in DOMAIN a
      BY <1>2, <2>1 DEF ActivationType
    <3> QED BY <3>1, <3>2 DEF Jump
  <2> HIDE DEF a, calls
  <2>3. act'.i = act.i + Signed(W(1))
    <3> HIDE DEF W, Signed
    <3>1. "i" \in DOMAIN a
      BY <1>2, <2>1 DEF ActivationType
    <3> QED BY <2>1, <2>2, <3>1
  <2>4. act.i + 1 + 1 = act.i + 2
    BY <1>2 DEF ActivationType
  <2>5. act'.i = Aim
    BY <2>3, <2>4, Zenon DEF Target, W, Aim
  <2> HIDE DEF W, Signed
  <2> QED BY <2>1, <2>2, <2>5
<1>9. /\ Owner(cnt, Aim) = Aim /\ Aim \in Starts(cnt) /\ Here.at[Aim] \in 0..Here.at[act.i]
      /\ Aim \in Here.lost => Owner(cnt, act.i) \in Here.lost
  BY <1>1, <1>2, StepHere DEF CallsRight, Leads
<1>10. CallTyped(cnt, Here, k, act.i, Aim)
  <2>1. cnt.code[act.i + 1] = CALLFUNC
    BY <1>1 DEF Op
  <2> HIDE DEF k
  <2> QED BY <1>4, <1>5, <2>1, CallTypedOf DEF Aim
<1>11. Covers(ss, rs) /\ k.pars[Aim] = <<>>
  BY <1>10 DEF CallTyped, SortsHere
<1>12. rs \in Seq(SortSet) /\ Len(rs) = Here.at[Aim] /\ Len(rs) \in Nat /\ Len(rs) <= Len(ss)
  <2>1. Here.at[Aim] \in Nat /\ Here.at[Aim] <= Here.at[act.i]
    BY <1>4, <1>9
  <2>2. rs \in Seq(SortSet) /\ Len(rs) = Here.at[Aim]
    <3> HIDE DEF k
    <3> QED BY <1>5, <1>9, <2>1, SortsOf, AcceptedOf
  <2> QED BY <1>4, <2>1, <2>2
<1>13. FrameRight(cnt, Here, calls, N, Aim, top)
  <2> HIDE DEF calls, N
  <2>1. Len(calls) = Len(act.calls) + 1
    BY <1>7 DEF N
  <2>2. calls[Len(calls)].ret - 2 = act.i /\ calls[Len(calls)].top = act.top
    BY <1>7
  <2>3. FrameRight(cnt, Here, calls, Len(calls), Aim, act.top)
    BY <1>1, <1>2, <1>7, <2>1, <2>2, FunctionOpened
  <2> QED BY <1>7, <2>3
<1>14. /\ Opened(cnt, calls, N) = Aim /\ Floor(cnt, Here, calls, N) \in Nat
       /\ Opened(cnt, calls, N - 1) = Owner(cnt, act.i) /\ Floor(cnt, Here, calls, N - 1) = floor
       /\ Aim \notin Here.lost => Floor(cnt, Here, calls, N) = top - Len(rs)
  <2>1. Opened(cnt, calls, N) = Aim /\ Floor(cnt, Here, calls, N) \in Nat
    BY <1>9, <1>13 DEF FrameRight
  <2>2. Owner(cnt, act.i) = Opened(cnt, act.calls, Len(act.calls))
    BY <1>2, RunningFrame DEF FrameRight
  <2> DEFINE n == Len(act.calls)
  <2>3. n \in Nat /\ n \in 0..n /\ n = N - 1 /\ \A m \in 1..n : calls[m] = act.calls[m]
    BY <1>7
  <2>4. Opened(cnt, calls, n) = Opened(cnt, act.calls, n) /\ Floor(cnt, Here, calls, n) = Floor(cnt, Here, act.calls, n)
    <3> HIDE DEF n, calls
    <3> QED BY <2>3, SameCalls
  <2>5. Aim \notin Here.lost => Floor(cnt, Here, calls, N) = top - Len(rs)
    <3> HIDE DEF N, calls, rs, top
    <3> QED BY <1>7, <1>12, <2>1 DEF Floor
  <2> QED BY <2>1, <2>2, <2>3, <2>4, <2>5
<1>15. ASSUME Aim \notin Here.lost
       PROVE  /\ CallCells(cnt, Here, k, types, Objects, act.stack, calls, N, Ground, Middle)
              /\ Floor(cnt, Here, calls, N - 1) <= Floor(cnt, Here, calls, N)
  <2> DEFINE n == Len(rs)
  <2>1. n \in 0..Len(ss) /\ Len(ss) \in Nat
    BY <1>4, <1>12
  <2>2. CellsAre(types, Objects, act.stack, top - n, Kept(ss, rs), Ground, Middle, Mark)
    <3>1. Kept(ss, rs) = SubSeq(SortsHere(e), 1, Len(SortsHere(e)) - n)
      BY DEF Kept
    <3> DEFINE ks == Kept(ss, rs)
    <3>2. n \in 0..Len(SortsHere(e))
      BY <2>1
    <3> HIDE DEF n, ks
    <3>3. ks = SubSeq(SortsHere(e), 1, Len(SortsHere(e)) - n)
      BY <3>1 DEF ks
    <3>4. CellsAre(types, Objects, act.stack, top - n, ks, Ground, Middle, Mark)
      BY <1>2, <3>2, <3>3, DroppedHere
    <3> QED BY <3>4 DEF ks
  <2>3. Owner(cnt, act.i) \notin Here.lost => top = floor + Len(ss)
    BY <1>2, <1>4 DEF TypedState, FramesTyped, RunTyped, StackTyped, HereSorts, SortsHere, Fetching
  <2>4. calls[N].ret - 2 = act.i /\ calls[N].top = top
    BY <1>7
  <2>5. Kept(k.at[act.i], k.at[Aim]) = Kept(ss, rs) /\ k.at[act.i] = ss
    BY DEF SortsHere
  <2>6. CallCells(cnt, Here, k, types, Objects, act.stack, calls, N, Ground, Middle)
    <3> DEFINE at == k.at
    <3>1. /\ CellsAre(types, Objects, act.stack, Floor(cnt, Here, calls, N), Kept(at[act.i], at[Aim]), Ground, Middle, Middle)
          /\ Opened(cnt, calls, N - 1) \notin Here.lost =>
               calls[N].top = Floor(cnt, Here, calls, N - 1) + Len(at[act.i])
      <4> HIDE DEF calls, N, floor, top, n
      <4> QED BY <1>3, <1>14, <1>15, <2>2, <2>3, <2>4, <2>5 DEF n
    <3> HIDE DEF k, at, calls, N
    <3> QED BY <1>14, <2>4, <3>1 DEF CallCells, at
  <2>7. floor <= top - n
    <3> HIDE DEF floor, top, n, ss
    <3> QED BY <1>4, <2>1
  <2> HIDE DEF calls, N, floor, top, rs
  <2> QED BY <1>14, <1>15, <2>6, <2>7
<1>16. CallsTyped(cnt, Here, k, types, Objects, act', Ground, Middle)
  <2>1. CallsTyped(cnt, Here, k, types, Objects, act, Ground, Middle)
    BY <1>2 DEF TypedState, FramesTyped, RunTyped, LocalsTyped, HereSorts, Fetching
  <2>2. \A n \in DOMAIN act.calls : Floor(cnt, Here, act.calls, n) \in Nat
    BY <1>2, HereChecked DEF CallKnown
  <2>3. /\ Aim \in Here.lost => Opened(cnt, calls, N - 1) \in Here.lost
        /\ Aim \notin Here.lost =>
             /\ CallCells(cnt, Here, k, types, Objects, act.stack, calls, N, Ground, Middle)
             /\ Floor(cnt, Here, calls, N) \in Nat
             /\ Floor(cnt, Here, calls, N - 1) <= Floor(cnt, Here, calls, N)
    BY <1>9, <1>14, <1>15
  <2>4. /\ act'.calls = Append(act.calls, r) /\ act'.stack = act.stack
    BY <1>8
  <2>5. /\ Opened(cnt, act'.calls, N) \in Here.lost => Opened(cnt, act'.calls, N - 1) \in Here.lost
        /\ Opened(cnt, act'.calls, N) \notin Here.lost =>
             /\ CallCells(cnt, Here, k, types, Objects, act.stack, act'.calls, N, Ground, Middle)
             /\ Floor(cnt, Here, act'.calls, N) \in Nat
             /\ Floor(cnt, Here, act'.calls, N - 1) <= Floor(cnt, Here, act'.calls, N)
    <3> HIDE DEF calls, N, k
    <3> QED BY <1>8, <1>14, <2>3
  <2> HIDE DEF k, r
  <2> QED BY <1>6, <2>1, <2>2, <2>4, <2>5, CallsOpened
<1>17. StackTyped(cnt, Here, k, types, Objects, act', Aim, top, Ground, Middle, Mark)
  <2>1. CellsAre(types, Objects, act.stack, top, rs, Ground, Middle, Mark)
    <3>1. /\ Ground \in MarkType /\ Middle \in MarkType /\ Mark \in MarkType /\ Below(Middle, Mark) /\ top \in Int
      BY <1>2, <1>4, Between
    <3> HIDE DEF ss, rs, top
    <3> QED BY <1>4, <1>11, <1>12, <3>1, CoversCells
  <2>2. Len(act'.calls) = N
    BY <1>7, <1>8
  <2>3. Aim \notin Here.lost => top = Floor(cnt, Here, calls, N) + Len(rs)
    <3> HIDE DEF calls, N, top, rs
    <3> QED BY <1>4, <1>12, <1>14
  <2> HIDE DEF k, calls, N, top
  <2> QED BY <1>8, <1>9, <2>1, <2>2, <2>3 DEF StackTyped, k
<1>18. ParsTyped(types, act', k.pars[Aim], Middle, Mark)
  BY <1>3, <1>4, <1>8, <1>11 DEF ParsTyped
<1> HIDE DEF calls, k, top
<1> QED BY <1>2, <1>8, <1>16, <1>17, <1>18, RunNext DEF k

-----------------------------------------------------------------------------
\* Cells of which some lie on top of others.
LEMMA CellsJoined ==
  ASSUME NEW types, NEW os, NEW stack, NEW h \in Int, NEW rs \in Seq(SortSet), NEW ss \in Seq(SortSet),
         NEW lo, NEW mid, NEW hi, \A j \in 1..Len(rs) : ~rs[j].late,
         CellsAre(types, os, stack, h, rs, lo, mid, mid),
         CellsAre(types, os, stack, h + Len(ss), ss, lo, mid, hi)
  PROVE  rs \o ss \in Seq(SortSet) /\ CellsAre(types, os, stack, h + Len(ss), rs \o ss, lo, mid, hi)
<1> DEFINE all == rs \o ss
           top == h + Len(ss)
<1>1. /\ all \in Seq(SortSet) /\ Len(all) = Len(rs) + Len(ss) /\ Len(rs) \in Nat /\ Len(ss) \in Nat
      /\ \A j \in 1..Len(rs) : all[j] = rs[j]
      /\ \A j \in 1..Len(ss) : all[Len(rs) + j] = ss[j]
  OBVIOUS
<1> HIDE DEF all
<1>2. Len(rs) <= h /\ top - Len(all) = h - Len(rs) /\ Len(all) <= top
  BY <1>1 DEF CellsAre
<1>3. ASSUME NEW j \in 1..Len(all)
      PROVE  CellIs(types, os, stack, top - Len(all) + j, all[j], lo, IF all[j].late THEN hi ELSE mid)
  <2>1. CASE j \in 1..Len(rs)
    <3>1. CellIs(types, os, stack, h - Len(rs) + j, rs[j], lo, mid)
      BY <2>1 DEF CellsAre
    <3> QED BY <1>1, <1>2, <2>1, <3>1
  <2>2. CASE j \notin 1..Len(rs)
    <3> DEFINE i == j - Len(rs)
    <3>1. i \in 1..Len(ss) /\ j = Len(rs) + i /\ top - Len(ss) + i = top - Len(all) + j
      BY <1>1, <1>2, <2>2
    <3>2. CellIs(types, os, stack, top - Len(ss) + i, ss[i], lo, IF ss[i].late THEN hi ELSE mid)
      BY <3>1 DEF CellsAre
    <3>3. all[j] = ss[i]
      BY <1>1, <3>1
    <3> QED BY <3>1, <3>2, <3>3
  <2> QED BY <2>1, <2>2
<1> QED BY <1>1, <1>2, <1>3 DEF CellsAre, all

\* What is left at the end of a function.
LEMMA GivesOf ==
  ASSUME NEW g, NEW e, NEW c, NEW l, NEW k, Checked(g, e, c, l, k), NEW p \in Starts(c),
         l.at[p] \in Nat, c.code[p + 1] = RETFUNC
  PROVE  /\ Covers(k.at[p], k.gives[Owner(c, p)])
         /\ Owner(c, p) \notin l.lost => Len(k.at[p]) = Len(k.gives[Owner(c, p)])
<1>1. StepTyped(g, e, c, l, k, p)
  BY DEF Checked, WellTyped, Unreached
<1> DEFINE gives == Covers(k.at[p], k.gives[Owner(c, p)])
           even == Owner(c, p) \notin l.lost => Len(k.at[p]) = Len(k.gives[Owner(c, p)])
<1> QED BY <1>1 DEF StepTyped, RETURN, JMP, JMPREL, JZE, JNZ, CALLFUNC, RETFUNC, PARCONTRACT, CALLCONTRACT

\* The step of a return from a function.
LEMMA RetFuncStep ==
  ASSUME act \in ActivationType, RetFunc
  PROVE  LET n == Len(act.calls)
         IN /\ UNCHANGED <<prog, callers, heap>>
            /\ act'.cnt = act.cnt /\ act'.calls = SubSeq(act.calls, 1, n - 1)
            /\ act'.params = act.params
            /\ act'.pars = act.pars /\ act'.counts = act.counts /\ act'.Vars = act.Vars
            /\ act'.isParContract = act.isParContract /\ act'.stack = act.stack
            /\ act'.i = act.calls[n].ret /\ act'.top = act.top
<1> DEFINE rs == SubSeq(act.calls, 1, Len(act.calls) - 1)
           g == act.gas + 1
           q == act.calls[Len(act.calls)].ret
<1>1. act' = [act EXCEPT !.i = q, !.gas = g, !.calls = rs] /\ UNCHANGED <<prog, callers, heap>>
  BY DEF RetFunc, ActivationType
<1> HIDE DEF rs, g, q
<1>2. /\ act'.cnt = act.cnt /\ act'.calls = rs
      /\ act'.params = act.params
      /\ act'.pars = act.pars /\ act'.counts = act.counts /\ act'.Vars = act.Vars
      /\ act'.isParContract = act.isParContract /\ act'.stack = act.stack
      /\ act'.i = q /\ act'.top = act.top
  BY <1>1 DEF ActivationType
<1> QED BY <1>1, <1>2 DEF rs, q

\* A step of RetFunc leaves the heap and the frames with types.
LEMMA RetFuncTyped ==
  ASSUME NEW e, NEW types, Typing(e, types), RetFunc
  PROVE  Stepped(e)
<1> DEFINE n == Len(act.calls)
           k == HereSorts(e)
           ss == SortsHere(e)
           f == Opened(cnt, act.calls, n)
           o == Opened(cnt, act.calls, n - 1)
           q == act.calls[n].ret - 2
           gs == k.gives[f]
           ks == Kept(k.at[q], k.at[f])
           top == act.top
           floor == Floor(cnt, Here, act.calls, n)
           below == Floor(cnt, Here, act.calls, n - 1)
<1>1. Dispatch({RETFUNC}) /\ Op = RETFUNC /\ Op \in Stores1
  BY DEF RetFunc, Dispatch, Stores1
<1>2. /\ TypedState(e, types) /\ TypeOK /\ Fetching /\ act \in ActivationType /\ CodeVerified
      /\ CodeInv /\ CodeInv'
  BY <1>1, Before
<1>3. ParsHere(e) = <<>> /\ Middle = Mark /\ ~act.isParContract
  BY <1>1, Closed
<1>4. /\ act.i \in Starts(cnt) /\ Here.at[act.i] \in Nat /\ ss \in Seq(SortSet) /\ Len(ss) = Here.at[act.i]
      /\ CellsAre(types, Objects, act.stack, top, ss, Ground, Middle, Mark)
      /\ floor \in Nat /\ top \in Nat /\ top >= floor + Len(ss)
      /\ ParsTyped(types, act, ParsHere(e), Middle, Mark)
  BY <1>2, TypedHere
<1>5. Checked(prog, e, cnt, Here, k)
  BY <1>2, HereChecked
<1>6. act.calls \in Seq(Returns) /\ act.calls # <<>> /\ n \in Nat \ {0} /\ n \in DOMAIN act.calls
  <2>1. act.calls # <<>>
    BY <1>1, <1>2, Dispatched DEF RetFunc, IndicesFit
  <2>2. act.calls \in Seq(Returns)
    BY <1>2 DEF ActivationType
  <2> QED BY <2>1, <2>2
<1>7. /\ UNCHANGED <<prog, callers, heap>>
      /\ act'.cnt = act.cnt /\ act'.calls = SubSeq(act.calls, 1, n - 1)
      /\ act'.params = act.params
      /\ act'.pars = act.pars /\ act'.counts = act.counts /\ act'.Vars = act.Vars
      /\ act'.isParContract = act.isParContract /\ act'.stack = act.stack
      /\ act'.i = act.calls[n].ret /\ act'.top = top
  BY <1>2, RetFuncStep
<1>8. CallKnown(cnt, Here, k, act.calls, n)
  <2> HIDE DEF n, CallKnown, k
  <2> QED BY <1>2, <1>6, HereChecked DEF k
<1>9. Owner(cnt, act.i) = f
  BY <1>2, RunningFrame DEF FrameRight
<1>10. gs \in Seq(SortSet) /\ Covers(ss, gs) /\ (f \notin Here.lost => Len(ss) = Len(gs))
  <2>1. Covers(ss, k.gives[Owner(cnt, act.i)])
        /\ (Owner(cnt, act.i) \notin Here.lost => Len(ss) = Len(k.gives[Owner(cnt, act.i)]))
    <3>1. cnt.code[act.i + 1] = RETFUNC
      BY <1>1 DEF Op
    <3> HIDE DEF k
    <3> QED BY <1>4, <1>5, <3>1, GivesOf DEF SortsHere, k
  <2>2. gs \in Seq(SortSet)
    <3>1. f \in Entries(cnt) \cup {Main}
      <4>1. Owner(cnt, act.i) \in Entries(cnt) \cup {Main}
        BY <1>2, StepHere DEF Owner
      <4> QED BY <1>9, <4>1
    <3> HIDE DEF k, f
    <3> QED BY <1>4, <1>5, <3>1, SortsOf
  <2> QED BY <1>9, <2>1, <2>2
<1>11. CallsTyped(cnt, Here, k, types, Objects, act', Ground, Middle)
       /\ CallsTyped(cnt, Here, k, types, Objects, act, Ground, Middle)
  <2>1. CallsTyped(cnt, Here, k, types, Objects, act, Ground, Middle)
    BY <1>2 DEF TypedState, FramesTyped, RunTyped, LocalsTyped, HereSorts, Fetching
  <2> HIDE DEF k
  <2> QED BY <1>6, <1>7, <2>1, CallsClosed
<1>12. /\ q + 2 = act.calls[n].ret /\ Owner(cnt, q + 2) = o /\ below \in Nat
       /\ f \in Here.lost => o \in Here.lost
       /\ ks \in Seq(SortSet) /\ Len(ks) = Len(k.at[q]) - Len(k.at[f]) /\ Len(k.at[f]) = Here.at[f]
       /\ Len(k.at[q]) \in Nat /\ Len(k.at[f]) \in Nat
       /\ Arrives(cnt, Here, k, q + 2, (IF f \in Here.lost THEN <<>> ELSE ks) \o gs, <<>>)
       /\ \A j \in 1..Len(ks) : ~ks[j].late
  <2> DEFINE calls == act.calls
             at == k.at
             gives == k.gives
  <2>1. CallKnown(cnt, Here, k, calls, n)
    BY <1>8
  <2>2. CallTyped(cnt, Here, k, q, f) /\ q + 2 = calls[n].ret /\ Owner(cnt, q + 2) = o
        /\ below \in Nat /\ (f \in Here.lost => o \in Here.lost)
        /\ Len(at[f]) = Here.at[f] /\ at[q] \in Seq(SortSet) /\ at[f] \in Seq(SortSet)
    <3> HIDE DEF k, n
    <3> QED BY <2>1 DEF CallKnown
  <2>3. /\ ks \in Seq(SortSet) /\ Len(ks) = Len(at[q]) - Len(at[f])
        /\ \A j \in 1..Len(ks) : ks[j] = at[q][j] /\ ~at[q][j].late
    <3> HIDE DEF k, n
    <3> QED BY <2>1, Zenon DEF CallKnown
  <2>4. Arrives(cnt, Here, k, q + 2, (IF f \in Here.lost THEN <<>> ELSE ks) \o gs, <<>>)
    <3> HIDE DEF k, n, q, f
    <3> QED BY <2>2 DEF CallTyped
  <2>5. \A j \in 1..Len(ks) : ~ks[j].late
    <3> HIDE DEF ks, at, q
    <3> QED BY <2>3
  <2>6. Len(at[q]) \in Nat /\ Len(at[f]) \in Nat
    <3> HIDE DEF at, q, f
    <3> QED BY <2>2
  <2> HIDE DEF q, f, n, o, below, ks, gs, k
  <2> QED BY <2>2, <2>3, <2>4, <2>5, <2>6
<1>13. f \notin Here.lost =>
         /\ CellsAre(types, Objects, act.stack, floor, ks, Ground, Middle, Middle)
         /\ o \notin Here.lost => act.calls[n].top = below + Len(k.at[q])
         /\ top = floor + Len(gs)
         /\ floor = act.calls[n].top - Len(k.at[f])
  <2> SUFFICES ASSUME f \notin Here.lost
               PROVE  /\ CellsAre(types, Objects, act.stack, floor, ks, Ground, Middle, Middle)
                      /\ o \notin Here.lost => act.calls[n].top = below + Len(k.at[q])
                      /\ top = floor + Len(gs)
                      /\ floor = act.calls[n].top - Len(k.at[f])
    OBVIOUS
  <2>1. CallCells(cnt, Here, k, types, Objects, act.stack, act.calls, n, Ground, Middle)
    <3> DEFINE calls == act.calls
    <3>1. n \in DOMAIN calls /\ Opened(cnt, calls, n) \notin Here.lost
      BY <1>6
    <3>2. \A m \in DOMAIN calls : Opened(cnt, calls, m) \notin Here.lost =>
             /\ CallCells(cnt, Here, k, types, Objects, act.stack, calls, m, Ground, Middle)
             /\ Above(cnt, Here, calls, m)
      <4> HIDE DEF k
      <4> QED BY <1>11, CallsTypedParts
    <3> HIDE DEF n, k, calls
    <3>3. CallCells(cnt, Here, k, types, Objects, act.stack, calls, n, Ground, Middle)
      BY <3>1, <3>2
    <3> QED BY <3>3 DEF calls
  <2>2. top = floor + Len(ss)
    <3>1. StackTyped(cnt, Here, HereSorts(e), types, Objects, act, act.i, act.top, Ground, Middle, Mark)
      BY <1>2 DEF TypedState, FramesTyped, RunTyped, HereSorts, Fetching
    <3>2. Owner(cnt, act.i) \notin Here.lost
      BY <1>9
    <3> QED BY <1>4, <3>1, <3>2 DEF StackTyped, SortsHere
  <2>3. floor = act.calls[n].top - Here.at[f]
    BY <1>6 DEF Floor
  <2> HIDE DEF floor, n, k, top, ss
  <2> QED BY <1>10, <1>12, <2>1, <2>2, <2>3 DEF CallCells, floor
<1> DEFINE all == (IF f \in Here.lost THEN <<>> ELSE ks) \o gs
<1>14. all \in Seq(SortSet) /\ CellsAre(types, Objects, act.stack, top, all, Ground, Middle, Mark)
  <2>1. /\ Ground \in MarkType /\ Middle \in MarkType /\ Mark \in MarkType /\ Below(Middle, Mark) /\ top \in Int
    BY <1>2, <1>4, Between
  <2>2. CellsAre(types, Objects, act.stack, top, gs, Ground, Middle, Mark)
    <3> HIDE DEF ss, gs, top
    <3> QED BY <1>4, <1>10, <2>1, CoversCells
  <2>3. CASE f \in Here.lost
    <3>1. all = gs
      <4> HIDE DEF gs
      <4> QED BY <1>10, <2>3
    <3> HIDE DEF all, gs
    <3> QED BY <1>10, <2>2, <3>1
  <2>4. CASE f \notin Here.lost
    <3> HIDE DEF gs, ks, floor, top, f
    <3>1. all = ks \o gs
      BY <2>4
    <3>2. CellsAre(types, Objects, act.stack, floor + Len(gs), gs, Ground, Middle, Mark)
      BY <1>13, <2>2, <2>4
    <3>3. ks \o gs \in Seq(SortSet)
          /\ CellsAre(types, Objects, act.stack, floor + Len(gs), ks \o gs, Ground, Middle, Mark)
      BY <1>4, <1>10, <1>12, <1>13, <2>4, <3>2, CellsJoined
    <3> HIDE DEF all
    <3> QED BY <1>13, <2>4, <3>1, <3>3
  <2> QED BY <2>3, <2>4
<1>15. ASSUME q + 2 \in Starts(cnt)
       PROVE  /\ CellsAre(types, Objects, act.stack, top, k.at[q + 2], Ground, Middle, Mark)
              /\ o \notin Here.lost => top = below + Len(k.at[q + 2])
              /\ k.pars[q + 2] = <<>>
  <2>1. /\ Ground \in MarkType /\ Middle \in MarkType /\ Mark \in MarkType /\ Below(Middle, Mark) /\ top \in Int
    BY <1>2, <1>4, Between
  <2>2. Covers(all, k.at[q + 2]) /\ k.pars[q + 2] = <<>> /\ (o \notin Here.lost => Len(all) = Len(k.at[q + 2]))
    <3>1. Owner(cnt, q + 2) = o
      BY <1>12
    <3>2. Arrives(cnt, Here, k, q + 2, all, <<>>)
      BY <1>12
    <3> HIDE DEF k, all, q, o
    <3> QED BY <1>15, <3>1, <3>2 DEF Arrives
  <2>3. k.at[q + 2] \in Seq(SortSet)
    <3> HIDE DEF k, q
    <3> QED BY <1>5, <1>15, SortsOf
  <2>4. CellsAre(types, Objects, act.stack, top, k.at[q + 2], Ground, Middle, Mark)
    <3> DEFINE rs == k.at[q + 2]
    <3>1. rs \in Seq(SortSet) /\ Covers(all, rs)
      BY <2>2, <2>3
    <3> HIDE DEF all, rs, top
    <3>2. CellsAre(types, Objects, act.stack, top, rs, Ground, Middle, Mark)
      BY <1>14, <2>1, <3>1, CoversCells
    <3> QED BY <3>2 DEF rs
  <2>5. o \notin Here.lost => top = below + Len(k.at[q + 2])
    <3> SUFFICES ASSUME o \notin Here.lost PROVE top = below + Len(k.at[q + 2])
      OBVIOUS
    <3>1. f \notin Here.lost
      BY <1>12
    <3>2. all = ks \o gs
      BY <3>1
    <3>3. Len(all) = Len(ks) + Len(gs)
      <4> HIDE DEF ks, gs
      <4>1. Len(ks \o gs) = Len(ks) + Len(gs)
        <5>1. ks \in Seq(SortSet) /\ gs \in Seq(SortSet)
          BY <1>10, <1>12
        <5> QED BY <5>1
      <4> HIDE DEF all
      <4> QED BY <3>2, <4>1
    <3> DEFINE x == Len(k.at[q])
               y == Len(k.at[f])
               v == Len(gs)
               w == Len(ks)
               z == Len(k.at[q + 2])
               h == act.calls[n].top
    <3>4. /\ top = floor + v /\ floor = h - y /\ h = below + x /\ w = x - y /\ z = w + v
          /\ below \in Nat /\ x \in Nat /\ y \in Nat /\ v \in Nat
      <4>1. z = Len(all)
        BY <2>2
      <4>2. z = w + v
        <5> HIDE DEF all, ks, gs
        <5> QED BY <3>3, <4>1
      <4>3. top = floor + v /\ floor = h - y /\ h = below + x
        BY <1>13, <3>1
      <4>4. w = x - y /\ below \in Nat /\ x \in Nat /\ y \in Nat
        BY <1>12
      <4>5. v \in Nat
        <5> HIDE DEF gs
        <5> QED BY <1>10
      <4> QED BY <4>2, <4>3, <4>4, <4>5
    <3> HIDE DEF top, floor, below, x, y, v, w, z, h
    <3>5. top = below + z
      BY <3>4
    <3> QED BY <3>5 DEF z
  <2> QED BY <2>2, <2>4, <2>5
<1>16. StackTyped(cnt, Here, k, types, Objects, act', act'.i, act'.top, Ground, Middle, Mark)
  <2>1. Len(act'.calls) = n - 1 /\ Floor(cnt, Here, act'.calls, n - 1) = below
        /\ Opened(cnt, act'.calls, n - 1) = o
    <3> DEFINE calls == act'.calls
               m == n - 1
    <3>1. m \in Nat /\ Len(calls) = m /\ \A j \in 1..m : calls[j] = act.calls[j]
      BY <1>6, <1>7, CallersSplit
    <3>2. m \in 0..m
      BY <3>1
    <3> HIDE DEF calls, m
    <3>3. Floor(cnt, Here, calls, m) = Floor(cnt, Here, act.calls, m)
          /\ Opened(cnt, calls, m) = Opened(cnt, act.calls, m)
      BY <3>1, <3>2, SameCalls
    <3> QED BY <3>1, <3>3 DEF calls, m
  <2>2. act'.i = q + 2 /\ act'.top = top
    BY <1>7, <1>12
  <2> HIDE DEF n, q, top, below, k, o
  <2> QED BY <1>7, <1>12, <1>15, <2>1, <2>2 DEF StackTyped
<1>17. act'.i \in Starts(cnt) => ParsTyped(types, act', k.pars[act'.i], Middle, Mark)
  <2>1. act'.i = q + 2
    BY <1>7, <1>12
  <2>2. ParsTyped(types, act', <<>>, Middle, Mark)
    BY <1>3, <1>4, <1>7 DEF ParsTyped
  <2> HIDE DEF k, q
  <2> QED BY <1>15, <2>1, <2>2
<1> HIDE DEF n, k
<1> QED BY <1>2, <1>7, <1>11, <1>16, <1>17, RunNext DEF k

-----------------------------------------------------------------------------
(***************************************************************************)
(* A parameter is passed.                                                  *)
(***************************************************************************)
LEMMA ParContractActs ==
  ASSUME TypeOK, ParContract
  PROVE  LET v == CopyIndex(Cell(0), W(2))
         IN /\ act'.calls = act.calls /\ act'.params = act.params /\ act'.Vars = act.Vars
            /\ act'.i = act.i + 3 /\ act'.top = act.top - 1
            /\ \A pos \in 0..act.top - 1 : act'.stack[pos] = act.stack[pos]
            /\ act'.pars = act.pars \o <<W(1), v>>
<1> DEFINE v == CopyIndex(Cell(0), W(2))
           stack == [act.stack EXCEPT ![act.top] = v]
           pars == act.pars \o <<W(1), v>>
           counts == IF act.isParContract THEN act.counts ELSE Append(act.counts, Mark)
<1>1. Op = PARCONTRACT /\ Words(Op) = 3 /\ act \in ActivationType
  BY Dispatched, WordsOf DEF ParContract
<1>2. act' = [act EXCEPT !.i = act.i + Words(Op), !.gas = act.gas + 1, !.stack = stack, !.top = act.top - 1,
                !.pars = pars, !.counts = counts, !.isParContract = TRUE]
  BY <1>1 DEF Proceed, ActivationType, ParContract
<1>3. \A pos \in 0..act.top - 1 : stack[pos] = act.stack[pos]
  <2>1. act.stack \in Stacks /\ act.top \in Depths
    BY <1>1 DEF ActivationType
  <2> QED BY <2>1, SizesAssumption DEF Stacks, Depths
<1> HIDE DEF stack, pars, counts
<1>4. /\ act'.calls = act.calls /\ act'.params = act.params /\ act'.Vars = act.Vars
      /\ act'.i = act.i + Words(Op) /\ act'.top = act.top - 1
      /\ act'.stack = stack /\ act'.pars = pars
  BY <1>1, <1>2 DEF ActivationType
<1> QED BY <1>1, <1>3, <1>4 DEF pars

\* A sequence with one or two more elements.
LEMMA OneAppended ==
  ASSUME NEW S, NEW s \in Seq(S), NEW x \in S
  PROVE  /\ Append(s, x) \in Seq(S) /\ Len(Append(s, x)) = Len(s) + 1 /\ Append(s, x)[Len(s) + 1] = x
         /\ Append(s, x) # <<>> /\ Len(s) \in Nat
         /\ \A j \in 1..Len(s) : Append(s, x)[j] = s[j]
OBVIOUS

\* A pair appended.
LEMMA PairAppended ==
  ASSUME NEW S, NEW s \in Seq(S), NEW x \in S, NEW y \in S
  PROVE  /\ s \o <<x, y>> \in Seq(S) /\ Len(s \o <<x, y>>) = Len(s) + 2 /\ Len(s) \in Nat
         /\ (s \o <<x, y>>)[Len(s) + 1] = x /\ (s \o <<x, y>>)[Len(s) + 2] = y
         /\ \A j \in 1..Len(s) : (s \o <<x, y>>)[j] = s[j]
<1> DEFINE t == <<x, y>>
<1>0. t \in Seq(S)
  OBVIOUS
<1>1. Len(t) = 2 /\ t[1] = x /\ t[2] = y /\ Len(s) \in Nat
  OBVIOUS
<1> HIDE DEF t
<1>2. /\ s \o t \in Seq(S) /\ Len(s \o t) = Len(s) + Len(t)
      /\ \A j \in 1..Len(s) : (s \o t)[j] = s[j]
      /\ \A j \in 1..Len(t) : (s \o t)[Len(s) + j] = t[j]
  BY <1>0
<1>3. 1 \in 1..Len(t) /\ 2 \in 1..Len(t)
  BY <1>1
<1> QED BY <1>1, <1>2, <1>3 DEF t

\* One more parameter has been passed.
LEMMA ParsAppended ==
  ASSUME NEW types, NEW types2, NEW a, NEW b, NEW ps \in Seq(Nat \X Nat), NEW x \in Nat, NEW u \in Nat, NEW v \in Int,
         a.pars \in Seq(Int), b.pars = a.pars \o <<x, v>>, b.isParContract = TRUE,
         NEW mid, NEW hi, NEW mid2, NEW hi2, ParsTyped(types, a, ps, mid, hi),
         \A i \in 1..Len(ps) : Denotes(types2, a.pars[2 * i], ps[i][2], mid2, hi2),
         Denotes(types2, v, u, mid2, hi2)
  PROVE  ParsTyped(types2, b, Append(ps, <<x, u>>), mid2, hi2)
<1> DEFINE n == Len(ps)
           qs == Append(ps, <<x, u>>)
           pars == a.pars \o <<x, v>>
<1>1. n \in Nat /\ Len(a.pars) = 2 * n
  BY DEF ParsTyped
<1>2. Len(qs) = n + 1 /\ qs # <<>> /\ qs[n + 1] = <<x, u>> /\ \A i \in 1..n : qs[i] = ps[i]
  <2> DEFINE pair == <<x, u>>
             T == Nat \X Nat
  <2>1. pair \in T /\ ps \in Seq(T)
    OBVIOUS
  <2> HIDE DEF pair, T
  <2>2. Len(Append(ps, pair)) = Len(ps) + 1
    BY <2>1
  <2>4. Append(ps, pair)[Len(ps) + 1] = pair
    BY <2>1
  <2>5. Append(ps, pair) # <<>>
    <3> DEFINE q == Append(ps, pair)
    <3>1. Len(q) = n + 1
      BY <2>2
    <3> HIDE DEF q, n
    <3>2. q # <<>>
      BY <1>1, <3>1
    <3> QED BY <3>2 DEF q
  <2>3. \A j \in 1..Len(ps) : Append(ps, pair)[j] = ps[j]
    BY <2>1
  <2> QED BY <2>2, <2>3, <2>4, <2>5 DEF pair
<1>4. /\ Len(pars) = 2 * (n + 1) /\ pars[2 * n + 1] = x /\ pars[2 * n + 2] = v
      /\ \A i \in 1..2 * n : pars[i] = a.pars[i]
  <2>1. x \in Int /\ v \in Int /\ a.pars \in Seq(Int)
    OBVIOUS
  <2>2. /\ Len(pars) = Len(a.pars) + 2
        /\ pars[Len(a.pars) + 1] = x /\ pars[Len(a.pars) + 2] = v
        /\ \A j \in 1..Len(a.pars) : pars[j] = a.pars[j]
    BY <2>1, PairAppended
  <2> HIDE DEF pars, n
  <2> QED BY <1>1, <2>2
<1>5. <<x, u>>[1] = x /\ <<x, u>>[2] = u
  OBVIOUS
<1> HIDE DEF n, qs, pars
<1>6. ASSUME NEW i \in 1..n + 1
      PROVE  pars[2 * i - 1] = qs[i][1] /\ Denotes(types2, pars[2 * i], qs[i][2], mid2, hi2)
  <2>1. CASE i = n + 1
    <3>1. 2 * i - 1 = 2 * n + 1 /\ 2 * i = 2 * n + 2
      BY <1>1, <2>1
    <3> QED BY <1>2, <1>4, <1>5, <2>1, <3>1
  <2>2. CASE i # n + 1
    <3>1. i \in 1..n /\ 2 * i - 1 \in 1..2 * n /\ 2 * i \in 1..2 * n
      BY <1>1, <2>2
    <3>2. a.pars[2 * i - 1] = ps[i][1] /\ Denotes(types2, a.pars[2 * i], ps[i][2], mid2, hi2)
      BY <3>1 DEF ParsTyped, n
    <3> QED BY <1>2, <1>4, <3>1, <3>2
  <2> QED BY <2>1, <2>2
<1> QED BY <1>2, <1>4, <1>6 DEF ParsTyped, qs, pars

\* Where the parameters passed so far are, and where the next will be.
LEMMA ParContractMarks ==
  ASSUME IInv, EdgesRight, ParContract
  PROVE  Middle' = Middle /\ act'.counts[1] = act.counts[1] /\ (~act.isParContract => Middle = Mark)
<1>1. TypeOK /\ MarksAscend
  BY DEF IInv, HeapMarks
<1>2. /\ act' \in ActivationType /\ act'.isParContract = TRUE /\ status = "running"
      /\ act'.counts = IF act.isParContract THEN act.counts ELSE Append(act.counts, Mark)
  BY <1>1, ParContractStep
<1>3. OwnMarks(act) /\ act \in ActivationType
  BY <1>1, <1>2, RunningMarks DEF TypeOK
<1>4. act.counts \in Seq(MarkType) /\ Len(act.counts) \in {1, 2}
  BY <1>3, MarksTyped DEF ActivationType
<1>5. Mark \in MarkType
  BY <1>1, MarkTyped
<1>6. CASE act.isParContract
  BY <1>2, <1>6 DEF Middle, LastMark
<1>7. CASE ~act.isParContract
  <2>1. act'.counts = Append(act.counts, Mark)
    BY <1>2, <1>7
  <2> DEFINE m == Mark
             n == Len(act.counts)
  <2>2. n \in Nat /\ n >= 1
    BY <1>4
  <2> HIDE DEF m
  <2>3. Len(Append(act.counts, m)) = n + 1 /\ Append(act.counts, m)[n + 1] = m
        /\ Append(act.counts, m)[1] = act.counts[1]
    BY <1>4, <1>5, <2>2 DEF m
  <2>4. act'.counts = Append(act.counts, m)
    BY <2>1 DEF m
  <2>5. Len(act'.counts) = n + 1 /\ act'.counts[n + 1] = m /\ act'.counts[1] = act.counts[1]
    BY <2>3, <2>4
  <2>6. LastMark(act)' = m
    BY <2>5 DEF LastMark
  <2> QED BY <1>2, <1>7, <2>5, <2>6 DEF Middle, m
<1> QED BY <1>6, <1>7

\* A step of ParContract leaves the heap and the frames with types.
LEMMA ParContractTyped ==
  ASSUME NEW e, NEW types, Typing(e, types), ParContract
  PROVE  Stepped(e)
<1> DEFINE u == W(2)
           v == Cell(0)
           ss == SortsHere(e)
           ps == ParsHere(e)
           s == Top(ss, 0)
           rest == SubSeq(ss, 1, Len(ss) - 1)
           more == Append(ps, <<W(1), u>>)
<1>0. TypeOK
  BY DEF Typing, TypedState, IInv
<1>1. /\ Dispatch({PARCONTRACT}) /\ Op = PARCONTRACT /\ CopyInHeap(v, u) /\ Words(Op) = 3
  BY <1>0, Dispatched, WordsOf DEF ParContract
<1>2. /\ TypedState(e, types) /\ Fetching /\ act \in ActivationType /\ act.i \in Int
      /\ AsksHere(e) /\ Len(ss) \in Nat /\ ss \in Seq(SortSet) /\ CodeInv' /\ TypeOK'
      /\ Strings \in Seq(Text) /\ Objects \in Seq(Object) /\ types \in Seq(Nat)
      /\ Len(types) = Len(Objects)
  BY <1>1, Before
<1>3. u \in Nat /\ W(1) \in Nat
  <2>1. 1 < Words(Op) /\ 2 < Words(Op)
    BY <1>1
  <2> HIDE DEF ss, ps
  <2> QED BY <1>0, <1>1, <1>2, <2>1, OperandWord
<1>4. Operands(Op) = <<CopySort(u)>>
  BY <1>1, OperandsOf, Zenon
<1>5. v \in Int /\ Fits(v, CopySort(u))
  BY <1>0, <1>1, <1>4, Dispatched, Operand1
<1>6. MainType(u) \in {VArr, VMap} => ElementsFit(v, CopySort(ElementType(u)))
  <2>1. CopiedType = u
    BY <1>1 DEF CopiedType, PARCONTRACT, COPY
  <2>2. ItemsFit
    BY <1>0, <1>1, Dispatched
  <2> QED BY <1>1, <2>1, <2>2, Zenon DEF ItemsFit
<1>7. CopyStrings(v, u) \in Seq(Text) /\ CopyObjects(v, u) \in Seq(Object)
  <2> HIDE DEF u, v, ss, ps
  <2> QED BY <1>0, <1>2, <1>3, <1>5, <1>6, CopiesType
<1>8. Len(ss) >= 1 /\ 0 \in 0..Len(ss) - 1
  <2>1. Len(ss) >= 1
    BY <1>1, <1>4, Meets11
  <2> QED BY <1>2, <2>1
<1>9. Contains(s, u) /\ OwnCopy(u)
  BY <1>1, <1>2, AsksOf
<1>10. Denotes(types, v, u, Anchor(Ground), Mark)
  BY <1>2, <1>8, <1>9, ItemDenotes
<1>11. /\ Ground \in MarkType /\ Middle \in MarkType /\ Mark \in MarkType /\ Mark.strings = Len(Strings)
       /\ Below(Middle, Mark)
  BY <1>2, Between
<1>12. /\ act'.isParContract = TRUE /\ act'.cnt = act.cnt
       /\ act'.counts[1] = act.counts[1] /\ Middle' = Middle /\ UNCHANGED <<prog, callers>>
       /\ act' \in ActivationType
  <2>1. IInv /\ EdgesRight
    BY <1>2 DEF TypedState, FramesTyped
  <2> QED BY <1>0, <2>1, ParContractStep, ParContractMarks
<1> DEFINE x == CopyIndex(v, u)
<1>13. /\ act'.calls = act.calls /\ act'.params = act.params /\ act'.Vars = act.Vars
       /\ act'.i = act.i + 3 /\ act'.top = act.top - 1
       /\ \A pos \in 0..act.top - 1 : act'.stack[pos] = act.stack[pos]
       /\ act'.pars = act.pars \o <<W(1), x>>
  BY <1>0, ParContractActs
<1> HIDE DEF u, v
<1> DEFINE ts == CopyStrings(v, u)
           os == CopyObjects(v, u)
<1>14. PICK us : CopyIs(types, us, v, u, Middle)
  BY <1>1, <1>2, <1>3, <1>7, <1>9, <1>10, Copied
<1>15. /\ us \in Seq(Nat) /\ Len(us) = Len(os)
       /\ \A j \in 1..Len(os) : os[j].kind = KindOf(us[j])
       /\ \A j \in 1..Len(os) : ObjectTyped(types \o us, os[j], us[j], Middle, Mark')
       /\ Denotes(types \o us, x, u, Middle, Mark')
  BY <1>14 DEF CopyIs
<1>16. ts \in Seq(Text) /\ os \in Seq(Object) /\ Strings' = Strings \o ts /\ Objects' = Objects \o os
  BY <1>1, <1>7 DEF CopyInHeap
<1> DEFINE types2 == types \o us
<1>17. HeapStep(types, types2)
  <2>1. \A j \in 1..Len(os) : ObjectTyped(types \o us, os[j], us[j], IF act'.isParContract THEN Middle ELSE Ground, Mark')
    BY <1>12, <1>15
  <2> HIDE DEF ts, os, x, ss, ps
  <2> QED BY <1>2, <1>12, <1>15, <1>16, <2>1, HeapGrown
<1> HIDE DEF ts, os, types2, x
<1>18. /\ Mark' \in MarkType /\ Below(Mark, Mark') /\ Below(Middle, Middle')
       /\ Carried(types, Objects, types2, Objects', Mark.objects)
       /\ Carried(types, Objects, types2, Objects', Middle.objects)
  BY <1>2, <1>17, StepBounds DEF Fetching
<1>19. /\ act.i \in Starts(cnt) /\ Here.at[act.i] \in Nat /\ Len(ss) = Here.at[act.i]
       /\ CellsAre(types, Objects, act.stack, act.top, ss, Ground, Middle, Mark)
       /\ Floor(cnt, Here, act.calls, Len(act.calls)) \in Nat /\ act.top \in Nat
       /\ act.top >= Floor(cnt, Here, act.calls, Len(act.calls)) + Len(ss)
       /\ ParsTyped(types, act, ps, Middle, Mark) /\ ps \in Seq(Nat \X Nat)
  BY <1>2, TypedHere
<1>20. Arrives(cnt, Here, HereSorts(e), act.i + 3, rest, more)
  <2> DEFINE c == cnt
             l == Here
             k == HereSorts(e)
             p == act.i
             pair == <<c.code[p + 2], c.code[p + 3]>>
  <2>1. Checked(prog, e, c, l, k) /\ p \in Starts(c) /\ l.at[p] \in Nat /\ c.code[p + 1] = PARCONTRACT
    BY <1>1, <1>2, <1>19, HereChecked DEF Op
  <2>2. k.at[p] = ss /\ k.pars[p] = ps
    BY DEF SortsHere, ParsHere
  <2>3. Length(c.code, p) = 3 /\ pair = <<W(1), u>>
    <3>1. p + 1 + 1 = p + 2 /\ p + 1 + 2 = p + 3
      BY <1>2
    <3>2. Length(c.code, p) = 3
      BY <1>0, <1>1, <1>2, WordsRead
    <3> QED BY <3>1, <3>2 DEF W, u
  <2>4. Arrives(c, l, k, p + Length(c.code, p), SubSeq(k.at[p], 1, Len(k.at[p]) - 1), Append(k.pars[p], pair))
    <3> HIDE DEF c, l, k, p
    <3> QED BY <2>1, TypedOf, Zenon DEF pair
  <2> HIDE DEF pair
  <2> QED BY <2>2, <2>3, <2>4
<1>21. /\ rest \in Seq(SortSet) /\ Len(rest) = Len(ss) - 1
       /\ CellsAre(types2, Objects', act'.stack, act.top - 1, rest, Ground, Middle', Mark')
  <2> DEFINE n == 1
             rs == SortsHere(e)
  <2>1. Alike(act.stack, act'.stack, act.top - n)
    BY <1>13 DEF Alike
  <2>2. act.top \in Int /\ n \in 0..Len(rs) /\ rs \in Seq(SortSet)
    BY <1>2, <1>8, <1>19
  <2>3. Middle' \in MarkType
    BY <1>11, <1>12
  <2>4. CellsAre(types, Objects, act.stack, act.top, rs, Ground, Middle, Mark)
    BY <1>19
  <2> HIDE DEF rs, n
  <2>5. /\ SubSeq(rs, 1, Len(rs) - n) \in Seq(SortSet)
        /\ Len(SubSeq(rs, 1, Len(rs) - n)) = Len(rs) - n
        /\ CellsAre(types2, Objects', act'.stack, act.top - n, SubSeq(rs, 1, Len(rs) - n), Ground, Middle', Mark')
    BY <1>11, <1>18, <2>1, <2>2, <2>3, <2>4, DroppedCells
  <2> QED BY <2>5 DEF n, rs
<1>22. VarsTyped(cnt, types2, act'.Vars, Ground, Middle')
  BY <1>2, <1>13, <1>17, SteadyVars
<1>23. ParsTyped(types2, act', more, Middle', Mark')
  <2>1. ASSUME NEW i \in 1..Len(ps)
        PROVE  Denotes(types2, act.pars[2 * i], ps[i][2], Middle, Mark')
    <3>1. Denotes(types, act.pars[2 * i], ps[i][2], Middle, Mark)
      BY <1>19 DEF ParsTyped
    <3>2. \A j \in 1..Mark.objects : types2[j] = types[j]
      BY <1>18 DEF Carried
    <3>3. Below(Middle, Middle)
      BY <1>11, BelowOrder
    <3> QED BY <1>11, <1>18, <3>1, <3>2, <3>3, DenotesCarried
  <2>2. Denotes(types2, x, u, Middle, Mark')
    BY <1>15 DEF types2
  <2>3. act.pars \in Seq(Int)
    BY <1>2 DEF ActivationType
  <2>4. x \in Int
    BY <1>0, <1>1, <1>3, <1>5, <1>6, CopyGrows DEF x
  <2> HIDE DEF ps
  <2>5. act'.isParContract = TRUE /\ act'.pars = act.pars \o <<W(1), x>>
    BY <1>12, <1>13
  <2>6. ParsTyped(types2, act', Append(ps, <<W(1), u>>), Middle, Mark')
    BY <1>3, <1>19, <2>1, <2>2, <2>3, <2>4, <2>5, ParsAppended
  <2> QED BY <1>12, <2>6
<1>24. Alike(act.stack, act'.stack, Floor(cnt, Here, act.calls, Len(act.calls)))
  <2> DEFINE f == Floor(cnt, Here, act.calls, Len(act.calls))
             n == Len(ss)
  <2>1. f \in Nat /\ act.top \in Nat /\ act.top >= f + n /\ n >= 1 /\ n \in Nat
    BY <1>2, <1>8, <1>19
  <2> HIDE DEF f, n
  <2>2. 0..f \subseteq 0..act.top - 1
    BY <2>1
  <2> QED BY <1>13, <2>2 DEF Alike, f
<1>25. FramesTyped(e, types2)'
  <2> DEFINE k == HereSorts(e)
             n == Len(rest)
             m == Len(ss)
  <2>1. act'.top - Len(rest) = act.top - Len(HereSorts(e).at[act.i])
    <3>1. n = m - 1 /\ act'.top = act.top - 1 /\ act.top \in Nat /\ m \in Nat
      BY <1>2, <1>13, <1>19, <1>21
    <3>2. HereSorts(e).at[act.i] = ss
      BY DEF SortsHere
    <3> HIDE DEF n, m
    <3>3. act'.top - n = act.top - m
      BY <3>1
    <3> QED BY <3>2, <3>3 DEF n, m
  <2>2. Arrives(cnt, Here, HereSorts(e), act'.i, rest, more)
    BY <1>13, <1>20
  <2>3. CellsAre(types2, Objects', act'.stack, act'.top, rest, Ground, Middle', Mark')
    BY <1>13, <1>21
  <2>4. status = "running"
    BY <1>2 DEF Fetching
  <2> HIDE DEF rest, more, k, n, m, ss, ps
  <2> QED BY <1>2, <1>12, <1>13, <1>17, <1>19, <1>21, <1>22, <1>23, <1>24, <2>1, <2>2, <2>3, <2>4, FrameMoved
<1>26. Untouched
  BY <1>2, <1>17, StepBounds DEF HeapStep, Untouched, Fetching
<1> QED BY <1>25, <1>26 DEF Typable, Stepped

-----------------------------------------------------------------------------
(***************************************************************************)
(* The variables a contract begins with.                                   *)
(***************************************************************************)
\* The types of the objects made for them, and the place behind those.
NewTypes(c) == [m \in 1..Cardinality(Slots(c, InObjects)) |-> c.vars[Nth(Slots(c, InObjects), m)]]
NewMark(c, at) == [strings |-> at.strings + Cardinality(Slots(c, InStrings)),
                   objects |-> at.objects + Cardinality(Slots(c, InObjects))]

\* The members of a set that are below one of them say the how-manyth it is.
LEMMA NthCount ==
  ASSUME NEW b \in Nat, NEW S, S \subseteq 0..b, NEW k \in S
  PROVE  LET n == Cardinality({j \in S : j < k})
         IN n \in 0..Cardinality(S) - 1 /\ Nth(S, n + 1) = k
<1> DEFINE below == {j \in S : j < k}
           upto(i) == {j \in S : j <= i}
           n == Cardinality(below)
<1>0. S \subseteq Nat /\ 0 \in Int /\ b \in Int
  OBVIOUS
<1>1. IsFiniteSet(S)
  <2>1. IsFiniteSet(0..b)
    BY <1>0, FS_Interval
  <2> QED BY <2>1, FS_Subset
<1>2. \A i : upto(i) \subseteq S /\ IsFiniteSet(upto(i)) /\ Cardinality(upto(i)) \in Nat
  BY <1>1, FS_Subset, FS_CardinalityType
<1>3. IsFiniteSet(below) /\ n \in Nat
  BY <1>1, FS_Subset, FS_CardinalityType
<1>4. upto(k) = below \cup {k} /\ k \notin below
  <2>1. \A j \in S : j <= k <=> (j < k \/ j = k)
    BY <1>0
  <2>2. k \notin below
    BY <1>0
  <2> QED BY <2>1, <2>2
<1>5. Cardinality(upto(k)) = n + 1
  BY <1>3, <1>4, FS_AddElement
<1>6. Cardinality(upto(k)) <= Cardinality(S) /\ Cardinality(S) \in Nat
  BY <1>1, <1>2, FS_Subset, FS_CardinalityType
<1> HIDE DEF n
<1>7. n + 1 \in 1..Cardinality(S) /\ n \in 0..Cardinality(S) - 1
  BY <1>3, <1>5, <1>6
<1> DEFINE x == Nth(S, n + 1)
<1>8. x \in S /\ Cardinality(upto(x)) = n + 1
  BY <1>7, NthMember
<1> HIDE DEF x
<1>9. x = k
  <2>1. x <= k \/ k <= x
    BY <1>0, <1>8
  <2>2. CASE x <= k
    <3>0. \A j \in S : j <= x => j <= k
      BY <1>0, <1>8, <2>2
    <3>1. upto(x) \subseteq upto(k)
      BY <3>0
    <3>2. upto(x) = upto(k)
      BY <1>2, <1>5, <1>8, <3>1, FS_Subset
    <3>3. k <= x
      BY <1>0, <3>2
    <3> QED BY <1>0, <1>8, <2>2, <3>3
  <2>3. CASE k <= x
    <3>0. \A j \in S : j <= k => j <= x
      BY <1>0, <1>8, <2>3
    <3>1. upto(k) \subseteq upto(x)
      BY <3>0
    <3>2. upto(x) = upto(k)
      BY <1>2, <1>5, <1>8, <3>1, FS_Subset
    <3>3. x <= k
      BY <1>0, <1>8, <3>2
    <3> QED BY <1>0, <1>8, <2>3, <3>3
  <2> QED BY <2>1, <2>2, <2>3
<1> QED BY <1>7, <1>9 DEF n, x

\* A place is behind what lies below.
LEMMA Placed ==
  ASSUME NEW w \in Nat, NEW n \in Nat, NEW l \in Nat, l <= w, NEW b \in 0..n - 1, NEW v, v = w + b,
         NEW h, h = w + n
  PROVE  v \in l..h - 1 /\ v \in 0..h - 1 /\ v >= l /\ v + 1 = w + (b + 1)
OBVIOUS

\* Each variable of a new activation that needs an object is given one, of its type.
LEMMA NewTypesType ==
  ASSUME NEW c \in Contract
  PROVE  /\ NewTypes(c) \in Seq(Nat) /\ Len(NewTypes(c)) = Cardinality(Slots(c, InObjects))
         /\ Len(NewObjects(c)) = Cardinality(Slots(c, InObjects))
         /\ Len(NewStrings(c)) = Cardinality(Slots(c, InStrings))
         /\ \A k \in 1..Len(c.vars) : c.vars[k] \in Nat
<1> DEFINE S == Slots(c, InObjects)
           n == Cardinality(S)
           u == Cardinality(Slots(c, InStrings))
           f == [m \in 1..n |-> c.vars[Nth(S, m)]]
           g == [m \in 1..n |-> Zero(MainType(c.vars[Nth(S, m)]))]
           h == [m \in 1..u |-> <<>>]
<1>1. /\ S \subseteq 0..Len(c.vars) /\ S \subseteq 1..Len(c.vars) /\ Len(c.vars) \in Nat
      /\ n \in Nat /\ u \in Nat
  BY SlotsType
<1>2. \A k \in 1..Len(c.vars) : c.vars[k] \in Nat
  <2>1. ASSUME NEW T, NEW s \in Seq(T), NEW j \in 1..Len(s) PROVE s[j] \in T
    OBVIOUS
  <2>2. 0..WordMax \subseteq Nat
    BY DEF WordMax
  <2>3. c.vars \in Seq(0..WordMax)
    BY DEF Contract
  <2> QED BY <2>1, <2>2, <2>3
<1> HIDE DEF S
<1>3. \A m \in 1..n : c.vars[Nth(S, m)] \in Nat
  BY <1>1, <1>2, NthMember
<1>4. NewTypes(c) = f /\ NewObjects(c) = g /\ NewStrings(c) = h
  BY DEF NewTypes, NewObjects, NewStrings, S
<1> HIDE DEF n, u
<1>5. f \in [1..n -> Nat]
  BY <1>3
<1>6. f \in Seq(Nat) /\ Len(f) = n
  BY <1>1, <1>5, FunctionSeq
<1>7. Len(g) = n /\ Len(h) = u
  BY <1>1
<1> QED BY <1>2, <1>4, <1>6, <1>7 DEF n, u, S

\* The objects made are of their types, and hold nothing.
LEMMA NewObjectsTyped ==
  ASSUME NEW c \in Contract, NEW j \in 1..Len(NewObjects(c))
  PROVE  /\ NewObjects(c)[j].kind = KindOf(NewTypes(c)[j])
         /\ \A types, lo, hi : ObjectTyped(types, NewObjects(c)[j], NewTypes(c)[j], lo, hi)
<1> DEFINE S == Slots(c, InObjects)
           t == NewTypes(c)[j]
           o == NewObjects(c)[j]
<1>1. j \in 1..Cardinality(S)
  BY NewTypesType
<1>2. S \subseteq 0..Len(c.vars) /\ Len(c.vars) \in Nat
  BY SlotsType
<1>3. Nth(S, j) \in S
  BY <1>1, <1>2, NthMember
<1>4. t = c.vars[Nth(S, j)] /\ o = Zero(MainType(t))
  BY <1>1 DEF NewTypes, NewObjects
<1>5. MainType(t) \in InObjects
  BY <1>3, <1>4 DEF Slots
<1> DEFINE m == MainType(t)
<1>6. o.kind = KindOf(t)
  <2>1. m \in {VStr, VArr, VMap, VMoney, VBytes, VFile, VObject}
    BY <1>5 DEF InObjects
  <2>2. o = Zero(m) /\ KindOf(t) =
          CASE m = VArr -> "arr" [] m = VMap -> "map" [] m = VMoney -> "money" [] m = VBytes -> "bytes"
            [] m = VFile -> "file" [] m = VObject -> "obj" [] m = VObjList -> "list" [] OTHER -> "blank"
    BY <1>4 DEF KindOf
  <2> HIDE DEF m, o
  <2> QED BY <2>1, <2>2 DEF Zero, Arr, Map, Money, Bytes, Blank, VStr, VArr, VMap, VMoney, VBytes, VFile, VObject, VObjList
<1>7. m \in {VArr, VMap} => DOMAIN o.items = {}
  <2>1. o = Zero(m)
    BY <1>4
  <2> HIDE DEF m, o
  <2>2. m = VArr => o.items = <<>>
    BY <2>1 DEF Zero, Arr, Map, Money, Bytes, Blank, VArr, VMap, VMoney, VBytes, VFile, VObject
  <2>3. m = VMap => o.items = <<>>
    BY <2>1 DEF Zero, Arr, Map, Money, Bytes, Blank, VArr, VMap, VMoney, VBytes, VFile, VObject
  <2> QED BY <2>2, <2>3
<1> QED BY <1>6, <1>7 DEF ObjectTyped

\* Each variable has a place of its own, behind all there was.
LEMMA NewVarsTyped ==
  ASSUME NEW c \in Contract, NEW lo \in MarkType, NEW at \in MarkType, Below(lo, at),
         NEW types \in Seq(Nat), Len(types) = at.objects
  PROVE  /\ NewMark(c, at) \in MarkType /\ Below(at, NewMark(c, at))
         /\ VarsTyped(c, types \o NewTypes(c), NewVars(c, at), lo, NewMark(c, at))
<1> DEFINE S == Slots(c, InVars)
           O == Slots(c, InObjects)
           T == Slots(c, InStrings)
           hi == NewMark(c, at)
           us == NewTypes(c)
           types2 == types \o us
           vs == NewVars(c, at)
<1>1. /\ S \subseteq 0..Len(c.vars) /\ S \subseteq 1..Len(c.vars) /\ O \subseteq 0..Len(c.vars)
      /\ T \subseteq 0..Len(c.vars) /\ Len(c.vars) \in Nat
      /\ Cardinality(O) \in Nat /\ Cardinality(T) \in Nat /\ Cardinality(S) \in Nat
  BY SlotsType
<1>2. at.strings \in Nat /\ at.objects \in Nat /\ lo.strings \in Nat /\ lo.objects \in Nat
      /\ lo.strings <= at.strings /\ lo.objects <= at.objects
  BY DEF MarkType, Below
<1>3. /\ hi \in MarkType /\ Below(at, hi) /\ hi.strings = at.strings + Cardinality(T)
      /\ hi.objects = at.objects + Cardinality(O)
  BY <1>1, <1>2 DEF NewMark, MarkType, Below
<1>4. us \in Seq(Nat) /\ Len(us) = Cardinality(O) /\ \A m \in 1..Cardinality(O) : us[m] = c.vars[Nth(O, m)]
  BY NewTypesType DEF NewTypes
<1>5. \A m \in 1..Cardinality(O) : types2[at.objects + m] = us[m]
  <2> HIDE DEF us, O, S, T, vs, hi
  <2>0. us \in Seq(Nat) /\ types \in Seq(Nat)
    BY <1>4
  <2>1. \A m \in 1..Len(us) : (types \o us)[Len(types) + m] = us[m]
    BY <2>0, Appended
  <2> QED BY <1>4, <2>1
<1>6. SUFFICES ASSUME NEW m \in 1..Len(vs) PROVE Denotes(types2, vs[m], VarType(c, m), lo, hi)
  BY <1>3 DEF VarsTyped
<1>7. m \in 1..Cardinality(S) /\ m \in 1..Variables(c)
  <2>1. vs \in Seq(Int) /\ DOMAIN vs = 1..Cardinality(S)
    BY NewVarsType DEF NewVars
  <2>2. 1..Len(vs) = 1..Cardinality(S)
    BY <2>1
  <2> QED BY <1>6, <2>2 DEF Variables
<1> DEFINE k == Nth(S, m)
           t == VarType(c, m)
           bt == Cardinality({j \in T : j < k})
           bo == Cardinality({j \in O : j < k})
<1>8. k \in S /\ t = c.vars[k] /\ MainType(t) \in InVars
  BY <1>1, <1>7, NthMember, VarTypeNat DEF VarType
<1>9. vs[m] = CASE MainType(t) = VInt -> 0
                [] MainType(t) = VStr -> at.strings + bt
                [] OTHER -> at.objects + bo
  BY <1>7 DEF NewVars, VarType
<1>10. k \in 1..Len(c.vars)
  BY <1>1, <1>8
<1> HIDE DEF k, t, bt, bo, types2, vs, us, hi
<1>11. CASE MainType(t) = VInt
  BY <1>11, DenotesOf, TypesApart DEF t
<1>12. CASE MainType(t) = VStr
  <2>1. k \in T
    BY <1>8, <1>10, <1>12 DEF Slots, t, InStrings, VStr, VInt
  <2>2. bt \in 0..Cardinality(T) - 1
    BY <1>1, <2>1, NthCount DEF bt
  <2>3. vs[m] = at.strings + bt
    BY <1>9, <1>12 DEF VStr, VInt
  <2>4. vs[m] \in lo.strings..hi.strings - 1
    <3> DEFINE n == Cardinality(T)
               w == at.strings
               hs == hi.strings
               ls == lo.strings
               v  == vs[m]
    <3>1. n \in Nat /\ w \in Nat /\ ls \in Nat /\ ls <= w /\ hs = w + n /\ bt \in 0..n - 1 /\ v = w + bt
      BY <1>1, <1>2, <1>3, <2>2, <2>3
    <3> HIDE DEF n, w, hs, ls, v
    <3>2. v \in ls..hs - 1
      BY <3>1, Placed
    <3> QED BY <3>2 DEF hs, ls, v
  <2> QED BY <1>12, <2>4, DenotesOf DEF t
<1>13. CASE MainType(t) \notin {VInt, VStr}
  <2>1. MainType(t) \in InObjects
    BY <1>8, <1>13 DEF InVars, InObjects
  <2>2. k \in O
    BY <1>8, <1>10, <2>1 DEF Slots
  <2>3. bo \in 0..Cardinality(O) - 1 /\ Nth(O, bo + 1) = k
    BY <1>1, <2>2, NthCount DEF bo
  <2>4. vs[m] = at.objects + bo
    BY <1>9, <1>13
  <2>5. types2[at.objects + (bo + 1)] = t
    <3>1. bo + 1 \in 1..Cardinality(O)
      BY <1>1, <2>3
    <3> QED BY <1>4, <1>5, <1>8, <2>3, <3>1
  <2>6. /\ vs[m] \in 0..hi.objects - 1 /\ vs[m] >= lo.objects
        /\ vs[m] + 1 = at.objects + (bo + 1)
    <3> DEFINE n == Cardinality(O)
               w == at.objects
               hs == hi.objects
               ls == lo.objects
               v  == vs[m]
    <3>1. n \in Nat /\ w \in Nat /\ ls \in Nat /\ ls <= w /\ hs = w + n /\ bo \in 0..n - 1 /\ v = w + bo
      BY <1>1, <1>2, <1>3, <2>3, <2>4
    <3> HIDE DEF n, w, hs, ls, v
    <3>2. v \in 0..hs - 1 /\ v >= ls /\ v + 1 = w + (bo + 1)
      BY <3>1, Placed
    <3> QED BY <3>2 DEF hs, ls, v, w
  <2>7. MainType(t) \in Handles
    BY <1>13, <2>1 DEF InObjects, Handles, Owned
  <2> QED BY <2>5, <2>6, <2>7, DenotesOf DEF t
<1> QED BY <1>11, <1>12, <1>13 DEF types2, vs, us, hi, t

\* The heap when they have been made.
LEMMA HeapBegun ==
  ASSUME NEW c \in Contract, NEW types \in Seq(Nat), NEW os \in Seq(Object), Len(types) = Len(os),
         KindsTyped(types, os), NEW at \in MarkType, at.objects = Len(os)
  PROVE  LET types2 == types \o NewTypes(c)
             os2    == os \o NewObjects(c)
         IN /\ types2 \in Seq(Nat) /\ os2 \in Seq(Object) /\ Len(types2) = Len(os2)
            /\ Len(os2) = NewMark(c, at).objects
            /\ KindsTyped(types2, os2)
            /\ \A j \in 1..at.objects : types2[j] = types[j] /\ os2[j] = os[j]
            /\ \A j \in at.objects + 1..NewMark(c, at).objects :
                 \A ts, lo, hi : ObjectTyped(ts, os2[j], types2[j], lo, hi)
<1> DEFINE us == NewTypes(c)
           ns == NewObjects(c)
           n  == Cardinality(Slots(c, InObjects))
           m  == Len(os)
           types2 == types \o us
           os2 == os \o ns
<1>1. /\ us \in Seq(Nat) /\ ns \in Seq(Object) /\ Len(us) = n /\ Len(ns) = n
      /\ n \in Nat /\ m \in Nat /\ at.objects = m /\ NewMark(c, at).objects = m + n
  BY NewTypesType, NewObjectsType, SlotsType DEF NewMark
<1>2. \A j \in 1..n : /\ ns[j].kind = KindOf(us[j])
                      /\ \A ts, lo, hi : ObjectTyped(ts, ns[j], us[j], lo, hi)
  BY <1>1, NewObjectsTyped
<1> HIDE DEF us, ns
<1>3. /\ types2 \in Seq(Nat) /\ Len(types2) = m + n
      /\ \A j \in 1..m : types2[j] = types[j]
      /\ \A j \in m + 1..m + n : j - m \in 1..n /\ types2[j] = us[j - m]
  BY <1>1, Appended
<1>4. /\ os2 \in Seq(Object) /\ Len(os2) = m + n
      /\ \A j \in 1..m : os2[j] = os[j]
      /\ \A j \in m + 1..m + n : j - m \in 1..n /\ os2[j] = ns[j - m]
  <2> DEFINE O == Object
  <2>1. os \in Seq(O) /\ ns \in Seq(O)
    BY <1>1
  <2> HIDE DEF O
  <2>2. /\ os \o ns \in Seq(O) /\ Len(os \o ns) = Len(os) + Len(ns)
        /\ \A j \in 1..Len(os) : (os \o ns)[j] = os[j]
        /\ \A j \in Len(os) + 1..Len(os) + Len(ns) : j - Len(os) \in 1..Len(ns) /\ (os \o ns)[j] = ns[j - Len(os)]
    BY <2>1, Appended
  <2> QED BY <1>1, <2>2 DEF O
<1>5. \A j \in 1..m : os[j].kind = KindOf(types[j])
  BY DEF KindsTyped
<1> HIDE DEF types2, os2, m, n
<1>6. KindsTyped(types2, os2)
  <2> SUFFICES ASSUME NEW j \in 1..m + n PROVE os2[j].kind = KindOf(types2[j])
    BY <1>4 DEF KindsTyped
  <2>1. CASE j \in 1..m
    BY <1>3, <1>4, <1>5, <2>1
  <2>2. CASE j \in m + 1..m + n
    BY <1>2, <1>3, <1>4, <2>2
  <2>3. j \in 1..m \/ j \in m + 1..m + n
    BY <1>1
  <2> QED BY <2>1, <2>2, <2>3
<1>7. \A j \in m + 1..m + n : \A ts, lo, hi : ObjectTyped(ts, os2[j], types2[j], lo, hi)
  BY <1>2, <1>3, <1>4
<1> QED BY <1>1, <1>3, <1>4, <1>6, <1>7 DEF types2, os2, us, ns

-----------------------------------------------------------------------------
(***************************************************************************)
(* A contract is called.                                                   *)
(***************************************************************************)
\* The activation that calls, as it waits.
Waiter == [act EXCEPT !.top = act.top + 1, !.gas = act.gas + 1, !.i = act.i + 2]
Callee == prog.contracts[W(1) + 1]

\* What CallContract does.
LEMMA CallActs ==
  ASSUME TypeOK, CallContract
  PROVE  /\ Dispatch({CALLCONTRACT}) /\ Op = CALLCONTRACT /\ status = "running"
         /\ UNCHANGED <<prog, status>> /\ callers' = Append(callers, Waiter)
         /\ Waiter \in ActivationType /\ act' \in ActivationType
         /\ W(1) \in Nat /\ W(1) + 1 \in DOMAIN prog.contracts /\ Callee \in Contract
         /\ act'.cnt = W(1) + 1 /\ act'.i = CodeStart(Callee) /\ act'.top = 0
         /\ act'.Vars = NewVars(Callee, Mark) /\ act'.params = act.pars /\ act'.pars = <<>>
         /\ act'.calls = <<>> /\ act'.isParContract = FALSE /\ act'.counts[1] = Mark
         /\ Strings' = Strings \o NewStrings(Callee) /\ Objects' = Objects \o NewObjects(Callee)
<1>1. /\ Dispatch({CALLCONTRACT}) /\ Op = CALLCONTRACT
      /\ callers' = Append(callers, Waiter)
      /\ act' = Activation(W(1) + 1, act.pars, Remaining, Mark)
      /\ Strings' = Strings \o NewStrings(Callee) /\ Objects' = Objects \o NewObjects(Callee)
      /\ UNCHANGED <<prog, Buffers, status, result, error>>
  BY Dispatched DEF CallContract, Waiter, Callee
<1>2. status = "running" /\ IndicesFit
  BY <1>1, Dispatched
<1>3. W(1) \in Nat
  <2>1. Dispatch({CALLCONTRACT}) /\ 1 < Words(Op)
    BY <1>1, WordsOf
  <2> QED BY <2>1, OperandWord
<1>4. W(1) + 1 \in DOMAIN prog.contracts /\ Callee \in Contract
  <2>1. W(1) < Len(prog.contracts)
    BY <1>1, <1>2 DEF IndicesFit
  <2>2. prog.contracts \in Seq(Contract)
    BY DEF TypeOK, Linked, Program
  <2> QED BY <1>3, <2>1, <2>2 DEF Callee
<1>5. /\ act'.cnt = W(1) + 1 /\ act'.i = CodeStart(Callee) /\ act'.top = 0
      /\ act'.Vars = NewVars(Callee, Mark) /\ act'.params = act.pars /\ act'.pars = <<>>
      /\ act'.calls = <<>> /\ act'.isParContract = FALSE
  <2> DEFINE w == W(1)
             m == Mark
             r == Remaining
  <2>1. act' = Activation(w + 1, act.pars, r, m)
    BY <1>1
  <2> HIDE DEF w, m, r
  <2>2. /\ act'.cnt = w + 1 /\ act'.i = CodeStart(prog.contracts[w + 1]) /\ act'.top = 0
        /\ act'.Vars = NewVars(prog.contracts[w + 1], m) /\ act'.params = act.pars /\ act'.pars = <<>>
        /\ act'.calls = <<>> /\ act'.isParContract = FALSE
    BY <2>1 DEF Activation
  <2> QED BY <2>2 DEF Callee, w, m
<1>6. Waiter \in ActivationType /\ act' \in ActivationType /\ act'.counts[1] = Mark
  BY CallContractStep DEF Waiter
<1> QED BY <1>1, <1>2, <1>3, <1>4, <1>5, <1>6

\* Where the parts of the heap lie then.
LEMMA CallEdges ==
  ASSUME TypeOK, UNCHANGED prog, NEW a, callers' = Append(callers, a), a.counts = act.counts,
         a.isParContract = act.isParContract, act'.counts[1] = Mark, a \in ActivationType,
         NEW N, N = Len(callers) + 1
  PROVE  /\ callers' \in Seq(ActivationType) /\ Len(callers') = N /\ N \in Nat \ {0}
         /\ DOMAIN callers' = 1..N /\ callers'[N] = a
         /\ DOMAIN callers = 1..N - 1
         /\ \A n \in 1..N - 1 : callers'[n] = callers[n] /\ Edge(n)' = Edge(n) /\ Lower(n)' = Lower(n)
         /\ Edge(N)' = Middle /\ Lower(N)' = Ground /\ Ground' = Middle
<1>1. callers \in Seq(ActivationType)
  BY DEF TypeOK
<1>2. /\ callers' \in Seq(ActivationType) /\ Len(callers') = N /\ N \in Nat \ {0}
      /\ DOMAIN callers' = 1..N /\ callers'[N] = a /\ DOMAIN callers = 1..N - 1
      /\ \A n \in 1..N - 1 : callers'[n] = callers[n]
  BY <1>1
<1>3. \A n \in 1..N - 1 : Edge(n)' = Edge(n)
  <2> SUFFICES ASSUME NEW n \in 1..N - 1 PROVE Edge(n)' = Edge(n)
    OBVIOUS
  <2>1. CASE n < Len(callers)
    <3>1. n + 1 \in 1..N - 1 /\ n < N
      BY <1>2, <2>1
    <3> QED BY <1>2, <2>1, <3>1 DEF Edge, LastMark
  <2>2. CASE n = Len(callers)
    <3>1. n + 1 = N /\ n < N /\ ~(n < Len(callers))
      BY <1>2, <2>2
    <3> QED BY <1>2, <3>1 DEF Edge, LastMark
  <2> QED BY <1>1, <2>1, <2>2
<1>4. Edge(N)' = Middle
  <2>1. ~(N < N)
    BY <1>2
  <2>2. Edge(N)' = IF a.isParContract THEN LastMark(a) ELSE act'.counts[1]
    BY <1>2, <2>1 DEF Edge, LastMark
  <2> QED BY <2>2 DEF Middle, LastMark
<1>5. \A n \in 1..N : Lower(n)' = Lower(n)
  <2> SUFFICES ASSUME NEW n \in 1..N PROVE Lower(n)' = Lower(n)
    OBVIOUS
  <2>1. n # 1 => n - 1 \in 1..N - 1
    BY <1>2
  <2> QED BY <1>3, <2>1, BottomKept DEF Lower
<1>6. Lower(N) = Ground
  BY DEF Ground
<1>7. Ground' = Middle
  <2>1. N + 1 # 1 /\ (N + 1) - 1 = N
    BY <1>2
  <2>2. Ground' = Edge(N)'
    BY <1>2, <2>1 DEF Ground, Lower
  <2> QED BY <1>4, <2>2
<1> QED BY <1>2, <1>3, <1>4, <1>5, <1>6, <1>7

\* Whoever waits goes on waiting, behind one more activation.
LEMMA CallOthers ==
  ASSUME NEW e, NEW types, TypedState(e, types), CallContract, NEW types2,
         Mark' \in MarkType, Below(Mark, Mark'),
         \A j \in 1..Mark.objects : types2[j] = types[j] /\ Objects'[j] = Objects[j]
  PROVE  /\ \A j \in DOMAIN prog.env : Denotes(types2, prog.env[j], e[j], Origin, Base)
         /\ EdgesRight'
         /\ \A n \in DOMAIN callers : WaitingTyped(e, types2, Objects, n)'
<1>0. PICK N : N = Len(callers) + 1
  OBVIOUS
<1>1. TypeOK /\ EdgesRight /\ callers \in Seq(ActivationType) /\ IInv
  BY DEF TypedState, IInv, FramesTyped, TypeOK
<1>2. /\ status = "running" /\ UNCHANGED prog /\ callers' = Append(callers, Waiter)
      /\ Waiter \in ActivationType /\ act'.counts[1] = Mark /\ act \in ActivationType
  BY <1>1, CallActs DEF TypeOK
<1>3. Waiter.counts = act.counts /\ Waiter.isParContract = act.isParContract
  BY <1>2 DEF Waiter, ActivationType
<1>4. /\ callers' \in Seq(ActivationType) /\ Len(callers') = N /\ N \in Nat \ {0}
      /\ DOMAIN callers' = 1..N /\ callers'[N] = Waiter
      /\ DOMAIN callers = 1..N - 1
      /\ \A n \in 1..N - 1 : callers'[n] = callers[n] /\ Edge(n)' = Edge(n) /\ Lower(n)' = Lower(n)
      /\ Edge(N)' = Middle
  <2> DEFINE a == Waiter
  <2>1. N = Len(callers) + 1
    BY <1>0
  <2>2. callers' = Append(callers, a) /\ a.counts = act.counts /\ a.isParContract = act.isParContract
        /\ act'.counts[1] = Mark /\ a \in ActivationType /\ UNCHANGED prog
    BY <1>2, <1>3
  <2> HIDE DEF a
  <2>3. /\ callers' \in Seq(ActivationType) /\ Len(callers') = N /\ N \in Nat \ {0}
        /\ DOMAIN callers' = 1..N /\ callers'[N] = a
        /\ DOMAIN callers = 1..N - 1
        /\ \A n \in 1..N - 1 : callers'[n] = callers[n] /\ Edge(n)' = Edge(n) /\ Lower(n)' = Lower(n)
        /\ Edge(N)' = Middle
    BY <1>1, <2>1, <2>2, CallEdges
  <2> QED BY <2>3 DEF a
<1>5. Ground \in MarkType /\ Middle \in MarkType /\ Mark \in MarkType /\ Below(Ground, Middle)
      /\ Below(Middle, Mark) /\ Below(Ground, Mark)
  BY <1>1, <1>2, RunningBounds
<1>6. /\ Base \in MarkType /\ Origin \in MarkType /\ Below(Base, Mark) /\ Base' = Base
      /\ Bottom \in MarkType /\ Below(Bottom, Base) /\ Bottom' = Bottom
  <2>1. prog.strings \in Seq(Text) /\ prog.objects \in Seq(Object)
    BY <1>1 DEF TypeOK, Linked, Program
  <2>2. Base' = Base /\ Bottom' = Bottom
    BY <1>2, BottomKept
  <2>3. Base \in MarkType /\ Origin \in MarkType
    BY <2>1 DEF Base, Origin, MarkType
  <2> QED BY <1>1, <2>2, <2>3 DEF EdgesRight
<1>7. \A n \in DOMAIN callers : Below(Edge(n), Ground) /\ Edge(n) \in MarkType /\ Lower(n) \in MarkType
                                /\ Below(Base, Edge(n)) /\ Below(Edge(n), Mark)
  <2> SUFFICES ASSUME NEW n \in DOMAIN callers
               PROVE  /\ Below(Edge(n), Ground) /\ Edge(n) \in MarkType /\ Lower(n) \in MarkType
                      /\ Below(Base, Edge(n)) /\ Below(Edge(n), Mark)
    OBVIOUS
  <2>1. Len(callers) \in Nat \ {0} /\ n \in 1..Len(callers) /\ Len(callers) \in DOMAIN callers
    BY <1>1
  <2>2. Ground = Edge(Len(callers))
    BY <2>1 DEF Ground, Lower
  <2>3. Lower(n) \in MarkType
    <3>1. n # 1 => n - 1 \in DOMAIN callers
      BY <1>1, <2>1
    <3> QED BY <1>1, <1>6, <3>1 DEF Lower, EdgesRight
  <2> QED BY <1>1, <2>1, <2>2, <2>3 DEF EdgesRight
<1>8. Below(Base, Ground) \/ callers = <<>>
  <2>1. CASE callers # <<>>
    <3>1. Len(callers) \in DOMAIN callers /\ Ground = Edge(Len(callers))
      <4>1. Len(callers) \in Nat \ {0}
        BY <1>1, <2>1
      <4> QED BY <1>1, <4>1 DEF Ground, Lower
    <3> QED BY <1>7, <3>1
  <2> QED BY <2>1
<1>9. Below(Base, Middle)
  <2>1. CASE callers # <<>>
    BY <1>5, <1>6, <1>8, <2>1, BelowOrder
  <2>2. CASE callers = <<>>
    <3>1. MarksAscend /\ BaseKept /\ Live = <<act>>
      BY <1>1, <1>2, <2>2 DEF IInv, HeapMarks, Live, Final
    <3>2. act.counts[1] = Base
      BY <3>1 DEF BaseKept
    <3>3. OwnMarks(act)
      BY <1>1, <1>2, <3>1, RunningMarks
    <3>4. Below(Base, LastMark(act))
      BY <3>2, <3>3 DEF OwnMarks
    <3> QED BY <1>6, <3>4 DEF Middle
  <2> QED BY <2>1, <2>2
<1>10. \A j \in DOMAIN prog.env : Denotes(types2, prog.env[j], e[j], Origin, Base)
  <2> SUFFICES ASSUME NEW j \in DOMAIN prog.env
               PROVE  Denotes(types2, prog.env[j], e[j], Origin, Base)
    OBVIOUS
  <2>1. Denotes(types, prog.env[j], e[j], Origin, Base)
    BY DEF TypedState, FramesTyped
  <2>2. Below(Base, Base) /\ Below(Origin, Origin)
    BY <1>6, BelowOrder
  <2>3. \A i \in 1..Base.objects : types2[i] = types[i]
    <3>1. Base.objects \in Nat /\ Mark.objects \in Nat /\ Base.objects <= Mark.objects
      BY <1>5, <1>6 DEF MarkType, Below
    <3> QED BY <3>1
  <2> QED BY <1>6, <2>1, <2>2, <2>3, DenotesCarried
<1>11. EdgesRight'
  <2>2. \A n \in 1..N : /\ Edge(n)' \in MarkType /\ Below(Base, Edge(n)') /\ Below(Edge(n)', Mark')
    <3> SUFFICES ASSUME NEW n \in 1..N
                 PROVE  Edge(n)' \in MarkType /\ Below(Base, Edge(n)') /\ Below(Edge(n)', Mark')
      OBVIOUS
    <3>1. CASE n = N
      BY <1>4, <1>5, <1>9, <3>1, BelowOrder
    <3>2. CASE n # N
      <4>1. n \in DOMAIN callers
        BY <1>4, <3>2
      <4>2. Edge(n)' = Edge(n)
        BY <1>4, <4>1
      <4> QED BY <1>5, <1>7, <4>1, <4>2, BelowOrder
    <3> QED BY <3>1, <3>2
  <2>3. \A n, m \in 1..N : n <= m => Below(Edge(n)', Edge(m)')
    <3> SUFFICES ASSUME NEW n \in 1..N, NEW m \in 1..N, n <= m PROVE Below(Edge(n)', Edge(m)')
      OBVIOUS
    <3>1. CASE n = N
      <4>1. m = N
        BY <1>4, <3>1
      <4> QED BY <1>4, <1>5, <3>1, <4>1, BelowOrder
    <3>2. CASE n # N /\ m = N
      <4>1. n \in DOMAIN callers
        BY <1>4, <3>2
      <4>2. Edge(n)' = Edge(n)
        BY <1>4, <4>1
      <4> QED BY <1>4, <1>5, <1>7, <3>2, <4>1, <4>2, BelowOrder
    <3>3. CASE n # N /\ m # N
      <4>1. n \in DOMAIN callers /\ m \in DOMAIN callers
        BY <1>4, <3>3
      <4>2. Edge(n)' = Edge(n) /\ Edge(m)' = Edge(m)
        BY <1>4, <4>1
      <4> QED BY <1>1, <4>1, <4>2 DEF EdgesRight
    <3> QED BY <3>1, <3>2, <3>3
  <2>4. Below(Base, Mark')
    BY <1>5, <1>6, BelowOrder
  <2> QED BY <1>4, <1>6, <2>2, <2>3, <2>4 DEF EdgesRight
<1>12. \A n \in DOMAIN callers : WaitingTyped(e, types2, Objects, n)'
  <2> SUFFICES ASSUME NEW n \in DOMAIN callers PROVE WaitingTyped(e, types2, Objects, n)'
    OBVIOUS
  <2> DEFINE c == prog.contracts[callers[n].cnt]
             l == Levels(prog, c)
             k == Sorts(prog, e, c)
             a == callers[n]
             lo == Lower(n)
             hi == Edge(n)
  <2>1. /\ Checked(prog, e, c, l, k) /\ a \in ActivationType
        /\ \A j \in DOMAIN a.calls : CallKnown(c, l, k, a.calls, j)
    BY CallerChecked
  <2>2. WaitTyped(c, l, k, types, Objects, a, lo, hi)
    BY DEF TypedState, FramesTyped, WaitingTyped
  <2>3. \A j \in 1..hi.objects : types2[j] = types[j] /\ Objects'[j] = Objects[j]
    <3>1. hi.objects \in Nat /\ Mark.objects \in Nat /\ hi.objects <= Mark.objects
      BY <1>5, <1>7 DEF MarkType, Below
    <3> HIDE DEF hi
    <3> QED BY <3>1
  <2>4. lo \in MarkType /\ hi \in MarkType
    BY <1>7
  <2>5. WaitTyped(c, l, k, types2, Objects', a, lo, hi)
    <3> HIDE DEF c, l, k, a, lo, hi
    <3> QED BY <2>1, <2>2, <2>3, <2>4, WaitCarried
  <2>6. n \in 1..N - 1
    BY <1>4
  <2>7. callers'[n] = callers[n] /\ Edge(n)' = Edge(n) /\ Lower(n)' = Lower(n) /\ prog' = prog
    BY <1>2, <1>4, <2>6
  <2> QED BY <2>5, <2>7 DEF WaitingTyped
<1> QED BY <1>10, <1>11, <1>12
=============================================================================
