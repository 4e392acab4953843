----------------------------- MODULE TypeProofs -----------------------------
(***************************************************************************)
(* Typed code runs typed: the invariant that every activation, whether it  *)
(* runs or waits, holds values of the types the compiler had in mind. What *)
(* the interpreter takes for an index of a text or of an object is one, of *)
(* the kind the instruction expects, and a call leaves what its callers    *)
(* own alone.                                                              *)
(***************************************************************************)
EXTENDS TypeSteps

-----------------------------------------------------------------------------
\* The activation that called waits.
LEMMA WaitBegun ==
  ASSUME NEW c, NEW l, NEW k, NEW types, NEW os, NEW types2, NEW os2, NEW a, NEW b,
         NEW lo \in MarkType, NEW mid \in MarkType, NEW hi \in MarkType,
         \A j \in 1..mid.objects : types2[j] = types[j] /\ os2[j] = os[j],
         a.calls \in Seq(Returns), \A n \in DOMAIN a.calls : CallKnown(c, l, k, a.calls, n),
         b.calls = a.calls, b.stack = a.stack, b.Vars = a.Vars, b.params = a.params,
         a.top \in Int, b.top = a.top + 1, a.i \in Int, b.i = a.i + 2,
         a.i \in Starts(c), c.code[a.i + 1] = CALLCONTRACT, l.at[a.i] \in Nat,
         k.at[a.i] \in Seq(SortSet), \A j \in 1..Len(k.at[a.i]) : ~k.at[a.i][j].late,
         LocalsTyped(c, l, k, types, os, a, lo, mid),
         StackTyped(c, l, k, types, os, a, a.i, a.top, lo, mid, hi), HeapTyped(types, os, lo, mid)
  PROVE  WaitTyped(c, l, k, types2, os2, b, lo, mid)
<1>1. b.i - 2 = a.i /\ b.top - 1 = a.top
  OBVIOUS
<1>2. Below(mid, mid) /\ Carried(types, os, types2, os2, mid.objects)
  BY DEF Below, MarkType, Carried
<1>3. LocalsTyped(c, l, k, types2, os2, b, lo, mid)
  <2>1. VarsTyped(c, types2, b.Vars, lo, mid)
    BY <1>2, VarsCarried DEF LocalsTyped
  <2>2. ParamsTyped(c, types2, b.params, lo, mid)
    BY <1>2, ParamsCarried DEF LocalsTyped
  <2>3. Alike(a.stack, b.stack, Floor(c, l, a.calls, Len(a.calls)))
    BY DEF Alike
  <2>4. CallsTyped(c, l, k, types, os, a, lo, mid)
    BY DEF LocalsTyped
  <2>5. CallsTyped(c, l, k, types2, os2, b, lo, mid)
    BY <1>2, <2>3, <2>4, CallsCarried
  <2> QED BY <2>1, <2>2, <2>5 DEF LocalsTyped
<1>4. StackTyped(c, l, k, types2, os2, b, a.i, a.top, lo, mid, mid)
  <2> DEFINE ss == k.at[a.i]
  <2>1. /\ CellsAre(types, os, a.stack, a.top, ss, lo, mid, hi)
        /\ Owner(c, a.i) \notin l.lost => a.top = Floor(c, l, a.calls, Len(a.calls)) + Len(ss)
    BY DEF StackTyped
  <2>2. ss \in Seq(SortSet) /\ \A j \in 1..Len(ss) : ~ss[j].late
    OBVIOUS
  <2> HIDE DEF ss
  <2>3. CellsAre(types, os, a.stack, a.top, ss, lo, mid, mid)
    BY <2>1, <2>2 DEF CellsAre
  <2>4. CellsAre(types2, os2, b.stack, a.top, ss, lo, mid, mid)
    <3> DEFINE st == a.stack
               t  == a.top
    <3>1. Alike(st, st, t) /\ t \in Int /\ CellsAre(types, os, st, t, ss, lo, mid, mid)
      BY <2>3 DEF Alike
    <3> HIDE DEF st, t
    <3>2. CellsAre(types2, os2, st, t, ss, lo, mid, mid)
      BY <1>2, <2>2, <3>1, CellsCarried
    <3> QED BY <3>2 DEF st, t
  <2> QED BY <2>1, <2>4 DEF StackTyped, ss
<1>5. HeapTyped(types2, os2, lo, mid)
  <2>1. \A j \in lo.objects + 1..mid.objects : ObjectTyped(types2, os2[j], types2[j], lo, mid)
    BY <1>2, HeapCarried
  <2> QED BY <2>1 DEF HeapTyped
<1> QED BY <1>1, <1>3, <1>4, <1>5 DEF WaitTyped

\* A value of one type is a value of another.
LEMMA StoresValue ==
  ASSUME NEW types, NEW v, NEW u, NEW t, NEW lo \in MarkType, NEW hi \in MarkType,
         Denotes(types, v, u, lo, hi), Stores(Value(u), t)
  PROVE  Denotes(types, v, t, lo, hi)
<1> DEFINE st == [x \in {0} |-> v]
<1>1. st[0] = v
  OBVIOUS
<1>2. CellIs(types, <<>>, st, 0, Value(u), lo, hi)
  BY <1>1 DEF CellIs, Value, Cast
<1> HIDE DEF st
<1>3. Denotes(types, st[0], t, lo, hi)
  BY <1>2, StoresDenotes
<1> QED BY <1>1, <1>3

\* The parameters passed are those the contract takes.
LEMMA ParamsBegun ==
  ASSUME NEW g, NEW c, NEW p, NEW a, NEW ps \in Seq(Nat \X Nat), NEW types, NEW types2,
         NEW mid \in MarkType, NEW hi \in MarkType, NEW hi2 \in MarkType, Below(hi, hi2),
         \A j \in 1..hi.objects : types2[j] = types[j],
         NEW d, d = g.contracts[c.code[p + 2] + 1], Variables(d) \in Nat,
         Passed(g, c, p, ps), ParsTyped(types, a, ps, mid, hi)
  PROVE  ParamsTyped(d, types2, a.pars, mid, hi2)
<1> DEFINE n == Len(ps)
<1>1. /\ Len(a.pars) = 2 * n /\ n \in Nat
      /\ \A j \in 1..n : a.pars[2 * j - 1] = ps[j][1] /\ Denotes(types, a.pars[2 * j], ps[j][2], mid, hi)
  <2>1. Len(a.pars) = 2 * n
    BY Zenon DEF ParsTyped
  <2>2. \A j \in 1..n : a.pars[2 * j - 1] = ps[j][1] /\ Denotes(types, a.pars[2 * j], ps[j][2], mid, hi)
    BY Zenon DEF ParsTyped
  <2>3. n \in Nat
    OBVIOUS
  <2> QED BY <2>1, <2>2, <2>3
<1>2. \A j \in 1..n : ps[j][1] < Variables(d) /\ Stores(Value(ps[j][2]), VarType(d, ps[j][1] + 1))
  BY DEF Passed
<1>3. \A j \in 1..n : ps[j][1] \in Nat
  <2> SUFFICES ASSUME NEW j \in 1..n PROVE ps[j][1] \in Nat
    OBVIOUS
  <2>1. ps[j] \in Nat \X Nat
    OBVIOUS
  <2> QED BY <2>1
<1> HIDE DEF n
<1>4. Len(a.pars) \div 2 = n
  BY <1>1
<1> SUFFICES ASSUME NEW j \in 1..n
             PROVE  /\ a.pars[2 * j - 1] \in 0..Variables(d) - 1
                    /\ Denotes(types2, a.pars[2 * j], VarType(d, a.pars[2 * j - 1] + 1), mid, hi2)
  BY <1>4 DEF ParamsTyped
<1>5. a.pars[2 * j - 1] \in 0..Variables(d) - 1
  <2> DEFINE x == ps[j][1]
             v == Variables(d)
  <2>1. x \in Nat /\ v \in Nat /\ x < v /\ a.pars[2 * j - 1] = x
    BY <1>1, <1>2, <1>3
  <2> HIDE DEF x, v
  <2>2. x \in 0..v - 1
    BY <2>1
  <2> QED BY <2>1, <2>2 DEF v
<1>6. Denotes(types2, a.pars[2 * j], VarType(d, a.pars[2 * j - 1] + 1), mid, hi2)
  <2> DEFINE v == a.pars[2 * j]
             u == ps[j][2]
             t == VarType(d, ps[j][1] + 1)
  <2>1. Denotes(types, v, u, mid, hi) /\ Stores(Value(u), t)
    BY <1>1, <1>2
  <2>2. a.pars[2 * j - 1] = ps[j][1] /\ Below(mid, mid)
    BY <1>1, BelowOrder
  <2> HIDE DEF v, u, t
  <2>3. Denotes(types, v, t, mid, hi)
    BY <2>1, StoresValue
  <2>4. Denotes(types2, v, t, mid, hi2)
    BY <2>2, <2>3, DenotesCarried
  <2> QED BY <2>2, <2>4 DEF v, t
<1> QED BY <1>5, <1>6

\* A contract begins where its code does, with nothing on its stack.
LEMMA RunBegun ==
  ASSUME NEW g, NEW e, NEW c, NEW l, NEW k, Checked(g, e, c, l, k), NEW types, NEW os, NEW a,
         NEW lo, NEW hi, a.calls = <<>>, a.pars = <<>>, a.isParContract = FALSE, a.top = 0,
         a.i = CodeStart(c)
  PROVE  /\ CallsTyped(c, l, k, types, os, a, lo, hi)
         /\ StackTyped(c, l, k, types, os, a, a.i, a.top, lo, hi, hi)
         /\ a.i \in Starts(c) => ParsTyped(types, a, k.pars[a.i], hi, hi)
<1>1. CallsTyped(c, l, k, types, os, a, lo, hi)
  BY DEF CallsTyped
<1>2. Arrives(c, l, k, a.i, <<>>, <<>>)
  BY DEF Checked, WellTyped
<1>3. a.i \in Starts(c) => /\ Len(k.at[a.i]) = 0 /\ k.at[a.i] = <<>> /\ k.pars[a.i] = <<>>
  <2> SUFFICES ASSUME a.i \in Starts(c)
               PROVE  Len(k.at[a.i]) = 0 /\ k.at[a.i] = <<>> /\ k.pars[a.i] = <<>>
    OBVIOUS
  <2>1. k.at[a.i] \in Seq(SortSet) /\ k.pars[a.i] = <<>> /\ Covers(<<>>, k.at[a.i])
    BY <1>2, SortsOf DEF Arrives
  <2>2. Len(k.at[a.i]) <= 0
    BY <2>1 DEF Covers
  <2> QED BY <2>1, <2>2
<1>4. StackTyped(c, l, k, types, os, a, a.i, a.top, lo, hi, hi)
  <2>1. CellsAre(types, os, a.stack, 0, <<>>, lo, hi, hi)
    BY NoCells
  <2>2. Floor(c, l, a.calls, Len(a.calls)) = 0
    BY DEF Floor
  <2> QED BY <1>3, <2>1, <2>2 DEF StackTyped
<1>5. a.i \in Starts(c) => ParsTyped(types, a, k.pars[a.i], hi, hi)
  BY <1>3 DEF ParsTyped
<1> QED BY <1>1, <1>4, <1>5

-----------------------------------------------------------------------------
\* The heap of the contract that is called.
LEMMA CallHeap ==
  ASSUME NEW e, NEW types, Typing(e, types), CallContract, NEW types2,
         types2 = types \o NewTypes(Callee)
  PROVE  /\ types2 \in Seq(Nat) /\ Len(types2) = Len(Objects') /\ KindsTyped(types2, Objects')
         /\ Mark' \in MarkType /\ Below(Mark, Mark')
         /\ \A j \in 1..Mark.objects : types2[j] = types[j] /\ Objects'[j] = Objects[j]
         /\ \A j \in 1..Mark.strings : Strings'[j] = Strings[j]
         /\ VarsTyped(Callee, types2, act'.Vars, Middle, Mark')
         /\ HeapTyped(types2, Objects', Middle, Mark')
<1>0. TypeOK
  BY DEF Typing, TypedState, IInv
<1>1. /\ Dispatch({CALLCONTRACT}) /\ Callee \in Contract /\ act'.Vars = NewVars(Callee, Mark)
      /\ Strings' = Strings \o NewStrings(Callee) /\ Objects' = Objects \o NewObjects(Callee)
  BY <1>0, CallActs
<1>2. /\ TypedState(e, types) /\ Fetching /\ types \in Seq(Nat) /\ Len(types) = Len(Objects)
      /\ KindsTyped(types, Objects) /\ Strings \in Seq(Text) /\ Objects \in Seq(Object)
  BY <1>1, Before
<1>3. /\ Ground \in MarkType /\ Middle \in MarkType /\ Mark \in MarkType
      /\ Below(Ground, Middle) /\ Below(Middle, Mark)
      /\ Mark.strings = Len(Strings) /\ Mark.objects = Len(Objects)
  BY <1>2, Between
<1> DEFINE c == Callee
           at == Mark
           os == Objects
           os2 == os \o NewObjects(c)
           hi == NewMark(c, at)
<1>4. /\ types2 \in Seq(Nat) /\ Len(types2) = Len(os2) /\ Len(os2) = hi.objects
      /\ KindsTyped(types2, os2)
      /\ \A j \in 1..at.objects : types2[j] = types[j] /\ os2[j] = os[j]
      /\ \A j \in at.objects + 1..hi.objects : \A ts, l, h : ObjectTyped(ts, os2[j], types2[j], l, h)
  <2>1. c \in Contract /\ at \in MarkType /\ at.objects = Len(os) /\ os \in Seq(Object)
        /\ types2 = types \o NewTypes(c) /\ KindsTyped(types, os) /\ Len(types) = Len(os)
    BY <1>1, <1>2, <1>3
  <2> DEFINE T == types \o NewTypes(c)
             O == os \o NewObjects(c)
  <2> HIDE DEF c, at, os
  <2>2. /\ T \in Seq(Nat) /\ O \in Seq(Object) /\ Len(T) = Len(O)
        /\ Len(O) = NewMark(c, at).objects
        /\ KindsTyped(T, O)
        /\ \A j \in 1..at.objects : T[j] = types[j] /\ O[j] = os[j]
        /\ \A j \in at.objects + 1..NewMark(c, at).objects :
             \A ts, lo, hi1 : ObjectTyped(ts, O[j], T[j], lo, hi1)
    BY <1>2, <2>1, HeapBegun, Zenon
  <2>3. T = types2 /\ O = os2
    BY <2>1
  <2> HIDE DEF T, O
  <2> QED BY <2>2, <2>3
<1>5. /\ hi \in MarkType /\ Below(at, hi) /\ VarsTyped(c, types2, NewVars(c, at), Middle, hi)
  <2>1. c \in Contract /\ at \in MarkType /\ Len(types) = at.objects /\ types2 = types \o NewTypes(c)
        /\ Below(Middle, at)
    BY <1>1, <1>2, <1>3
  <2> HIDE DEF c, at
  <2> QED BY <1>2, <1>3, <2>1, NewVarsTyped
<1>6. Mark' = hi
  <2> DEFINE ts == NewStrings(c)
             n == Cardinality(Slots(c, InStrings))
  <2>1. ts \in Seq(Text) /\ Len(ts) = n
    BY <1>1, NewStringsType, NewTypesType
  <2>2. Len(Strings') = Len(Strings) + n
    <3> DEFINE T == Text
    <3>1. ts \in Seq(T) /\ Strings \in Seq(T) /\ Strings' = Strings \o ts
      BY <1>1, <1>2, <2>1
    <3> HIDE DEF T, ts
    <3>2. Len(Strings \o ts) = Len(Strings) + Len(ts)
      BY <3>1
    <3> QED BY <2>1, <3>1, <3>2
  <2>3. Len(Objects') = hi.objects
    BY <1>1, <1>4
  <2>4. hi = [strings |-> Len(Strings) + n, objects |-> hi.objects]
    BY <1>3 DEF NewMark
  <2> HIDE DEF hi, n
  <2> QED BY <2>2, <2>3, <2>4 DEF Mark
<1>7. \A j \in 1..Mark.strings : Strings'[j] = Strings[j]
  <2> DEFINE ts == NewStrings(c)
             T == Text
  <2>1. ts \in Seq(T) /\ Strings \in Seq(T) /\ Strings' = Strings \o ts
    BY <1>1, <1>2, NewStringsType
  <2> HIDE DEF T, ts
  <2>2. \A j \in 1..Len(Strings) : (Strings \o ts)[j] = Strings[j]
    BY <2>1, Appended
  <2> QED BY <1>3, <2>1, <2>2
<1>8. Objects' = os2
  BY <1>1
<1> HIDE DEF c, hi, os2
<1>9. HeapTyped(types2, os2, Middle, hi)
  <2> SUFFICES ASSUME NEW j \in Middle.objects + 1..hi.objects
               PROVE  ObjectTyped(types2, os2[j], types2[j], Middle, hi)
    BY DEF HeapTyped
  <2>1. CASE j \in at.objects + 1..hi.objects
    BY <1>4, <2>1
  <2>2. CASE j \notin at.objects + 1..hi.objects
    <3>1. j \in Middle.objects + 1..at.objects /\ j \in 1..at.objects
      <4>1. Middle.objects \in Nat /\ at.objects \in Nat /\ hi.objects \in Nat
        BY <1>3, <1>5 DEF MarkType
      <4> QED BY <2>2, <4>1
    <3>2. HeapTyped(types, Objects, Middle, at)
      BY <1>2 DEF TypedState, FramesTyped, Fetching, RunTyped
    <3>3. ObjectTyped(types, os[j], types[j], Middle, at)
      BY <3>1, <3>2 DEF HeapTyped
    <3>4. \A i \in 1..at.objects : types2[i] = types[i]
      BY <1>4
    <3> DEFINE o == os2[j]
               t == types2[j]
    <3>5. ObjectTyped(types, o, t, Middle, at)
      BY <1>4, <3>1, <3>3
    <3> HIDE DEF o, t
    <3>6. ObjectTyped(types2, o, t, Middle, hi)
      BY <1>3, <1>5, <3>4, <3>5, ObjectCarried
    <3> QED BY <3>6 DEF o, t
  <2> QED BY <2>1, <2>2
<1> QED BY <1>1, <1>4, <1>5, <1>6, <1>7, <1>8, <1>9 DEF c

\* A step of CallContract leaves the heap and the frames with types.
LEMMA CallContractTyped ==
  ASSUME NEW e, NEW types, Typing(e, types), CallContract
  PROVE  Stepped(e)
<1> DEFINE ss == SortsHere(e)
           ps == ParsHere(e)
<1>0. TypeOK
  BY DEF Typing, TypedState, IInv
<1>1. /\ Dispatch({CALLCONTRACT}) /\ Op = CALLCONTRACT /\ status = "running"
      /\ UNCHANGED <<prog, status>> /\ callers' = Append(callers, Waiter)
      /\ Waiter \in ActivationType /\ act' \in ActivationType
      /\ W(1) \in Nat /\ W(1) + 1 \in DOMAIN prog.contracts /\ Callee \in Contract
      /\ act'.cnt = W(1) + 1 /\ act'.i = CodeStart(Callee) /\ act'.top = 0
      /\ act'.Vars = NewVars(Callee, Mark) /\ act'.params = act.pars /\ act'.pars = <<>>
      /\ act'.calls = <<>> /\ act'.isParContract = FALSE /\ act'.counts[1] = Mark
  BY <1>0, CallActs
<1>2. /\ TypedState(e, types) /\ Fetching /\ act \in ActivationType /\ act.i \in Int
      /\ act.top \in Nat /\ CodeInv'
  BY <1>1, Before
<1>3. /\ act.i \in Starts(cnt) /\ Here.at[act.i] \in Nat
      /\ ss \in Seq(SortSet) /\ ps \in Seq(Nat \X Nat)
      /\ ParsTyped(types, act, ps, Middle, Mark)
  BY <1>2, TypedHere
<1>4. /\ Ground \in MarkType /\ Middle \in MarkType /\ Mark \in MarkType /\ Below(Ground, Middle)
      /\ Below(Middle, Mark) /\ Below(Ground, Mark)
  BY <1>2, Between
<1>5. PICK types2 : types2 = types \o NewTypes(Callee)
  OBVIOUS
<1>6. /\ types2 \in Seq(Nat) /\ Len(types2) = Len(Objects') /\ KindsTyped(types2, Objects')
      /\ Mark' \in MarkType /\ Below(Mark, Mark')
      /\ \A j \in 1..Mark.objects : types2[j] = types[j] /\ Objects'[j] = Objects[j]
      /\ \A j \in 1..Mark.strings : Strings'[j] = Strings[j]
      /\ VarsTyped(Callee, types2, act'.Vars, Middle, Mark')
      /\ HeapTyped(types2, Objects', Middle, Mark')
  BY <1>5, CallHeap
<1>7. /\ \A j \in DOMAIN prog.env : Denotes(types2, prog.env[j], e[j], Origin, Base)
      /\ EdgesRight'
      /\ \A n \in DOMAIN callers : WaitingTyped(e, types2, Objects, n)'
  BY <1>2, <1>6, CallOthers
<1>8. PICK N : N = Len(callers) + 1
  OBVIOUS
<1>9. Waiter.counts = act.counts /\ Waiter.isParContract = act.isParContract
  BY <1>2 DEF Waiter, ActivationType
<1>10. /\ DOMAIN callers' = 1..N /\ callers'[N] = Waiter /\ N \in Nat \ {0}
       /\ DOMAIN callers = 1..N - 1
       /\ Edge(N)' = Middle /\ Lower(N)' = Ground /\ Ground' = Middle
  <2> DEFINE a == Waiter
  <2>1. callers' = Append(callers, a) /\ a.counts = act.counts /\ a.isParContract = act.isParContract
        /\ act'.counts[1] = Mark /\ a \in ActivationType /\ prog' = prog
    BY <1>1, <1>9
  <2> HIDE DEF a
  <2>2. /\ DOMAIN callers' = 1..N /\ callers'[N] = a /\ N \in Nat \ {0}
        /\ DOMAIN callers = 1..N - 1
        /\ Edge(N)' = Middle /\ Lower(N)' = Ground /\ Ground' = Middle
    BY <1>0, <1>8, <2>1, CallEdges
  <2> QED BY <2>2 DEF a
<1>11. Middle' = Mark'
  BY <1>1 DEF Middle
\* The activation that called.
<1>12. WaitTyped(cnt, Here, HereSorts(e), types2, Objects', Waiter, Ground, Middle)
  <2> DEFINE c == cnt
             l == Here
             k == HereSorts(e)
             b == Waiter
             a == act
             os2 == Objects'
             os == Objects
  <2>1. Checked(prog, e, c, l, k) /\ \A n \in DOMAIN a.calls : CallKnown(c, l, k, a.calls, n)
    BY <1>2, HereChecked
  <2>2. \A j \in 1..Middle.objects : types2[j] = types[j] /\ os2[j] = os[j]
    <3>1. Middle.objects \in Nat /\ Mark.objects \in Nat /\ Middle.objects <= Mark.objects
      BY <1>4 DEF MarkType, Below
    <3> QED BY <1>6, <3>1
  <2>3. /\ b.calls = a.calls /\ b.stack = a.stack /\ b.Vars = a.Vars /\ b.params = a.params
        /\ b.top = a.top + 1 /\ b.i = a.i + 2 /\ a.calls \in Seq(Returns)
    BY <1>2 DEF Waiter, ActivationType
  <2>4. a.i \in Starts(c) /\ c.code[a.i + 1] = CALLCONTRACT /\ l.at[a.i] \in Nat
    BY <1>1, <1>3 DEF Op
  <2>5. k.at[a.i] \in Seq(SortSet)
    BY <1>3 DEF SortsHere
  <2>6. \A j \in 1..Len(k.at[a.i]) : ~k.at[a.i][j].late
    <3> HIDE DEF c, l, k, a
    <3> QED BY <2>1, <2>4, TypedOf, Zenon
  <2>7. /\ LocalsTyped(c, l, k, types, os, a, Ground, Middle)
        /\ StackTyped(c, l, k, types, os, a, a.i, a.top, Ground, Middle, Mark)
        /\ HeapTyped(types, os, Ground, Middle)
    BY <1>2 DEF TypedState, FramesTyped, Fetching, RunTyped, HereSorts
  <2>8. a.top \in Int /\ a.i \in Int
    BY <1>2
  <2> HIDE DEF c, l, k, a, b, os, os2
  <2>9. WaitTyped(c, l, k, types2, os2, b, Ground, Middle)
    BY <1>4, <2>1, <2>2, <2>3, <2>4, <2>5, <2>6, <2>7, <2>8, WaitBegun
  <2> QED BY <2>9 DEF c, l, k, b, os2
<1>13. WaitingTyped(e, types2, Objects, N)'
  <2>1. callers'[N].cnt = act.cnt /\ prog' = prog
    BY <1>1, <1>2, <1>10 DEF Waiter, ActivationType
  <2>2. prog'.contracts[callers'[N].cnt] = cnt
    BY <2>1 DEF cnt
  <2> DEFINE c == prog.contracts[callers[N].cnt]
  <2>3. c' = cnt /\ Levels(prog', c') = Here /\ Sorts(prog', e, c') = HereSorts(e)
    BY <2>1, <2>2 DEF Here, HereSorts
  <2>4. WaitTyped(c', Levels(prog', c'), Sorts(prog', e, c'), types2, Objects', callers'[N], Lower(N)', Edge(N)')
    BY <1>10, <1>12, <2>3
  <2> QED BY <2>4 DEF WaitingTyped
<1>14. \A n \in DOMAIN callers' : WaitingTyped(e, types2, Objects, n)'
  <2> SUFFICES ASSUME NEW n \in DOMAIN callers' PROVE WaitingTyped(e, types2, Objects, n)'
    OBVIOUS
  <2>1. CASE n = N
    BY <1>13, <2>1
  <2>2. CASE n # N
    <3>1. n \in DOMAIN callers
      BY <1>10, <2>2
    <3> QED BY <1>7, <3>1
  <2> QED BY <2>1, <2>2
\* The activation that was called.
<1>15. RunTyped(Sorts(prog, e, cnt), types2)'
  <2> DEFINE c == Callee
             l == Levels(prog, c)
             k == Sorts(prog, e, c)
             b == act'
             os2 == Objects'
             hi == Mark'
  <2>1. Checked(prog, e, c, l, k)
    BY <1>1, <1>2, ContractChecked DEF Callee
  <2>2. /\ b.calls = <<>> /\ b.pars = <<>> /\ b.isParContract = FALSE /\ b.top = 0 /\ b.i = CodeStart(c)
        /\ b.params = act.pars
    BY <1>1
  <2>3. ParamsTyped(c, types2, b.params, Middle, hi)
    <3> DEFINE d == cnt
               p == act.i
               a == act
    <3>1. Checked(prog, e, d, Here, HereSorts(e)) /\ p \in Starts(d) /\ Here.at[p] \in Nat /\ d.code[p + 1] = CALLCONTRACT
      BY <1>1, <1>2, <1>3, HereChecked DEF Op
    <3>2. Passed(prog, d, p, HereSorts(e).pars[p])
      <4> DEFINE h == Here
                 m == HereSorts(e)
      <4>1. Checked(prog, e, d, h, m) /\ p \in Starts(d) /\ h.at[p] \in Nat
        BY <3>1
      <4> HIDE DEF d, p, h, m
      <4>2. Passed(prog, d, p, m.pars[p])
        BY <3>1, <4>1, TypedOf, Zenon
      <4> QED BY <4>2 DEF m
    <3>3. Passed(prog, d, p, ps)
      BY <3>2 DEF ParsHere
    <3>4. c = prog.contracts[d.code[p + 2] + 1]
      <4>1. p + 1 + 1 = p + 2
        BY <1>2
      <4> QED BY <4>1 DEF Callee, W
    <3>5. Variables(c) \in Nat
      BY <1>1, SlotsType DEF Variables
    <3>6. ParsTyped(types, a, ps, Middle, Mark) /\ \A j \in 1..Mark.objects : types2[j] = types[j]
      BY <1>3, <1>6
    <3>7. Mark' \in MarkType /\ Below(Mark, hi) /\ hi \in MarkType
      BY <1>6
    <3> HIDE DEF d, p, c, ps, a, hi
    <3>8. ParamsTyped(c, types2, a.pars, Middle, hi)
      BY <1>3, <1>4, <3>3, <3>4, <3>5, <3>6, <3>7, ParamsBegun
    <3> QED BY <2>2, <3>8 DEF a
  <2>4. VarsTyped(c, types2, b.Vars, Middle, hi)
    BY <1>6
  <2>5. /\ CallsTyped(c, l, k, types2, os2, b, Middle, hi)
        /\ StackTyped(c, l, k, types2, os2, b, b.i, b.top, Middle, hi, hi)
        /\ b.i \in Starts(c) => ParsTyped(types2, b, k.pars[b.i], hi, hi)
    <3> HIDE DEF c, l, k, b, os2, hi
    <3> QED BY <2>1, <2>2, RunBegun
  <2>6. HeapTyped(types2, os2, Middle, hi)
    BY <1>6
  <2>7. HeapTyped(types2, os2, hi, hi)
    <3>1. hi.objects \in Nat
      BY <1>6 DEF MarkType
    <3>2. hi.objects + 1..hi.objects = {}
      BY <3>1
    <3> QED BY <3>2 DEF HeapTyped
  <2>8. cnt' = c /\ Here' = l /\ Sorts(prog, e, cnt)' = k
    <3>1. cnt' = c
      BY <1>1 DEF cnt, Callee
    <3> QED BY <1>1, <3>1 DEF Here
  <2> HIDE DEF c, l, k
  <2> QED BY <1>10, <1>11, <2>2, <2>3, <2>4, <2>5, <2>6, <2>7, <2>8 DEF RunTyped, LocalsTyped
<1>16. FramesTyped(e, types2)'
  <2>1. \A j \in DOMAIN prog'.env : Denotes(types2, prog'.env[j], e[j], Origin, Base')
    BY <1>1, <1>7 DEF Base
  <2> QED BY <1>6, <1>7, <1>14, <1>15, <2>1, Zenon DEF FramesTyped
<1>17. Untouched
  <2>1. Below(Ground, Mark')
    BY <1>4, <1>6, BelowOrder
  <2>2. /\ Ground.objects \in Nat /\ Mark.objects \in Nat /\ Ground.objects <= Mark.objects
        /\ Ground.strings \in Nat /\ Mark.strings \in Nat /\ Ground.strings <= Mark.strings
    BY <1>4 DEF MarkType, Below
  <2>3. /\ \A j \in 1..Ground.objects : Objects'[j] = Objects[j]
        /\ \A j \in 1..Ground.strings : Strings'[j] = Strings[j]
    BY <1>6, <2>2
  <2> QED BY <2>1, <2>3 DEF Untouched
<1> QED BY <1>16, <1>17 DEF Typable, Stepped

-----------------------------------------------------------------------------
(***************************************************************************)
(* A contract is left.                                                     *)
(***************************************************************************)
\* What a caller waited for is there: a text, in the slot it kept for it.
LEMMA WaitOver ==
  ASSUME NEW g, NEW e, NEW c, NEW l, NEW k, Checked(g, e, c, l, k),
         NEW types, NEW os, NEW types2, NEW os2, NEW a \in ActivationType, NEW b,
         NEW lo \in MarkType, NEW hi \in MarkType, NEW hi2 \in MarkType, Below(lo, hi), Below(hi, hi2),
         hi2.objects = hi.objects, hi.strings < hi2.strings,
         \A j \in 1..hi.objects : types2[j] = types[j] /\ os2[j] = os[j],
         LevelledIn(c, l, a), \A n \in DOMAIN a.calls : CallKnown(c, l, k, a.calls, n),
         WaitTyped(c, l, k, types, os, a, lo, hi),
         b.calls = a.calls, b.Vars = a.Vars, b.params = a.params, b.i = a.i, b.top = a.top,
         b.pars = <<>>, b.isParContract = FALSE,
         b.stack[a.top] = hi.strings, \A pos \in 0..a.top - 1 : b.stack[pos] = a.stack[pos]
  PROVE  /\ LocalsTyped(c, l, k, types2, os2, b, lo, hi2)
         /\ StackTyped(c, l, k, types2, os2, b, b.i, b.top, lo, hi2, hi2)
         /\ b.i \in Starts(c) => ParsTyped(types2, b, k.pars[b.i], hi2, hi2)
         /\ HeapTyped(types2, os2, lo, hi2) /\ HeapTyped(types2, os2, hi2, hi2)
<1> DEFINE q == a.i - 2
           ss == k.at[q]
           more == Append(ss, Value(VStr))
           floor == Floor(c, l, a.calls, Len(a.calls))
<1>1. /\ q \in Starts(c) /\ c.code[q + 1] = CALLCONTRACT /\ l.at[q] \in Nat
      /\ LocalsTyped(c, l, k, types, os, a, lo, hi)
      /\ StackTyped(c, l, k, types, os, a, q, a.top - 1, lo, hi, hi)
      /\ HeapTyped(types, os, lo, hi)
  BY DEF WaitTyped
<1>2. /\ a.calls \in Seq(Returns) /\ a.i \in Int /\ a.top \in Int /\ q + 2 = a.i /\ a.top - 1 + 1 = a.top
  BY DEF ActivationType, Depths
<1>3. Carried(types, os, types2, os2, hi.objects)
  BY DEF Carried
<1>4. Length(c.code, q) = 2
  <2> HIDE DEF q
  <2>1. CALLCONTRACT \in {PUSH16, GETVAR, SETVAR, JMP, JMPREL, JZE, JNZ, CALLFUNC, EMBEDFUNC, CUSTOMFUNC,
                          CALLCONTRACT, RETURN, COPY, INITARR, INITMAP, INITOBJ, INITOBJLIST, ENV}
    OBVIOUS
  <2>2. c.code[q + 1] \in {PUSH16, GETVAR, SETVAR, JMP, JMPREL, JZE, JNZ, CALLFUNC, EMBEDFUNC, CUSTOMFUNC,
                           CALLCONTRACT, RETURN, COPY, INITARR, INITMAP, INITOBJ, INITOBJLIST, ENV}
    BY <1>1, <2>1, Zenon
  <2>3. c.code[q + 1] \notin {PUSH32, PUSHSTR, PARCONTRACT} /\ c.code[q + 1] # PUSH64 /\ c.code[q + 1] # GETPARAMS
    BY <1>1 DEF CALLCONTRACT, PUSH32, PUSHSTR, PARCONTRACT, PUSH64, GETPARAMS
  <2> QED BY <2>2, <2>3, Zenon DEF Length
<1>5. Arrives(c, l, k, a.i, more, <<>>)
  <2>1. Arrives(c, l, k, q + Length(c.code, q), Append(k.at[q], Value(VStr)), <<>>)
    <3> HIDE DEF q
    <3> QED BY <1>1, TypedOf, Zenon
  <2> QED BY <1>2, <1>4, <2>1
<1>6. Owner(c, a.i) = Owner(c, q) /\ Owner(c, a.i) = Opened(c, a.calls, Len(a.calls)) /\ floor \in Nat
  <2>1. Balanced(g, c, l)
    BY DEF Checked
  <2>2. CALLCONTRACT \notin Turns
    BY DEF Turns, CALLCONTRACT, JMP, JMPREL, JZE, JNZ, CALLFUNC, RETFUNC, RETURN
  <2>3. Owner(c, q + Length(c.code, q)) = Owner(c, q)
    <3> HIDE DEF q
    <3> QED BY <1>1, <2>1, <2>2, StepOf DEF Leads
  <2>4. FrameRight(c, l, a.calls, Len(a.calls), a.i, a.top)
    BY DEF LevelledIn
  <2> QED BY <1>2, <1>4, <2>3, <2>4 DEF FrameRight
<1>7. ss \in Seq(SortSet) /\ Len(ss) \in Nat
  BY <1>1, SortsOf
<1>8. /\ CellsAre(types, os, a.stack, a.top - 1, ss, lo, hi, hi)
      /\ Owner(c, q) \notin l.lost => a.top - 1 = floor + Len(ss)
  BY <1>1 DEF StackTyped
<1>9. Len(ss) <= a.top - 1
  BY <1>8 DEF CellsAre
<1>10. Below(hi, hi) /\ Below(hi2, hi2)
  BY BelowOrder
<1> HIDE DEF q, ss, floor
<1>11. floor <= a.top - 1
  <2>1. CASE Owner(c, q) \in l.lost
    <3>1. floor = 0
      BY <1>6, <2>1 DEF floor, Floor
    <3> QED BY <1>2, <1>7, <1>9, <3>1
  <2>2. CASE Owner(c, q) \notin l.lost
    BY <1>2, <1>6, <1>7, <1>8, <2>2
  <2> QED BY <2>1, <2>2
<1>12. LocalsTyped(c, l, k, types2, os2, b, lo, hi2)
  <2>1. VarsTyped(c, types2, b.Vars, lo, hi2)
    BY <1>1, VarsCarried DEF LocalsTyped
  <2>2. ParamsTyped(c, types2, b.params, lo, hi2)
    BY <1>1, ParamsCarried DEF LocalsTyped
  <2>3. Alike(a.stack, b.stack, Floor(c, l, a.calls, Len(a.calls)))
    <3>1. 0..floor \subseteq 0..a.top - 1
      BY <1>2, <1>6, <1>11
    <3> QED BY <3>1 DEF Alike, floor
  <2>4. CallsTyped(c, l, k, types, os, a, lo, hi)
    BY <1>1 DEF LocalsTyped
  <2>5. CallsTyped(c, l, k, types2, os2, b, lo, hi2)
    BY <1>2, <1>3, <2>3, <2>4, CallsCarried
  <2> QED BY <2>1, <2>2, <2>5 DEF LocalsTyped
<1>13. more \in Seq(SortSet) /\ Len(more) = Len(ss) + 1 /\ CellsAre(types2, os2, b.stack, a.top, more, lo, hi2, hi2)
  <2> DEFINE h == a.top - 1
             s == Value(VStr)
  <2>1. h \in Int /\ h + 1 = a.top /\ Alike(a.stack, b.stack, h)
    BY <1>2 DEF Alike
  <2>2. CellsAre(types, os, a.stack, h, ss, lo, hi, hi)
    BY <1>8
  <2>3. s \in SortSet /\ s.form = "value" /\ s.of = VStr /\ ~s.late
    BY SortCast DEF VStr
  <2>4. MainType(VStr) = VStr
    BY DEF MainType, VStr
  <2>5. b.stack[a.top] \in lo.strings..hi2.strings - 1
    <3>1. lo.strings \in Nat /\ hi.strings \in Nat /\ hi2.strings \in Nat /\ lo.strings <= hi.strings
      BY DEF MarkType, Below
    <3> QED BY <3>1
  <2>6. Denotes(types2, b.stack[a.top], VStr, lo, hi2)
    BY <2>4, <2>5, DenotesOf
  <2>7. CellIs(types2, os2, b.stack, h + 1, s, lo, hi2)
    BY <2>1, <2>3, <2>6 DEF CellIs
  <2> HIDE DEF h, s
  <2>8. CellsAre(types2, os2, b.stack, h, ss, lo, hi2, hi2)
    BY <1>3, <1>7, <1>10, <2>1, <2>2, CellsCarried
  <2>9. /\ Append(ss, s) \in Seq(SortSet) /\ Len(Append(ss, s)) = Len(ss) + 1
        /\ CellsAre(types2, os2, b.stack, h + 1, Append(ss, s), lo, hi2, hi2)
    BY <1>7, <2>1, <2>3, <2>7, <2>8, YieldedCells
  <2> QED BY <2>1, <2>9 DEF s
<1> HIDE DEF more
<1>14. StackTyped(c, l, k, types2, os2, b, b.i, b.top, lo, hi2, hi2)
  <2> SUFFICES ASSUME a.i \in Starts(c)
               PROVE  /\ CellsAre(types2, os2, b.stack, a.top, k.at[a.i], lo, hi2, hi2)
                      /\ Owner(c, a.i) \notin l.lost => a.top = Floor(c, l, b.calls, Len(b.calls)) + Len(k.at[a.i])
    BY DEF StackTyped
  <2> DEFINE rs == k.at[a.i]
  <2>1. rs \in Seq(SortSet) /\ Covers(more, rs) /\ (Owner(c, a.i) \notin l.lost => Len(more) = Len(rs))
    BY <1>5, SortsOf DEF Arrives
  <2>2. CellsAre(types2, os2, b.stack, a.top, rs, lo, hi2, hi2)
    <3> HIDE DEF rs
    <3> QED BY <1>2, <1>10, <1>13, <2>1, CoversCells
  <2>3. Owner(c, a.i) \notin l.lost => a.top = floor + Len(rs)
    <3> HIDE DEF rs
    <3> SUFFICES ASSUME Owner(c, a.i) \notin l.lost PROVE a.top = floor + Len(rs)
      OBVIOUS
    <3>1. Len(more) = Len(rs)
      BY <2>1
    <3>2. Owner(c, q) \notin l.lost
      BY <1>6
    <3>3. a.top - 1 = floor + Len(ss)
      BY <1>8, <3>2
    <3> QED BY <1>2, <1>6, <1>7, <1>13, <3>1, <3>3
  <2> QED BY <2>2, <2>3 DEF floor
<1>15. b.i \in Starts(c) => ParsTyped(types2, b, k.pars[b.i], hi2, hi2)
  BY <1>5 DEF Arrives, ParsTyped
<1>16. HeapTyped(types2, os2, lo, hi2)
  <2>1. \A j \in lo.objects + 1..hi.objects : ObjectTyped(types2, os2[j], types2[j], lo, hi2)
    BY <1>1, HeapCarried
  <2> QED BY <2>1 DEF HeapTyped
<1>17. HeapTyped(types2, os2, hi2, hi2)
  <2>1. hi2.objects + 1..hi2.objects = {}
    <3>1. hi2.objects \in Nat
      BY DEF MarkType
    <3> QED BY <3>1
  <2> QED BY <2>1 DEF HeapTyped
<1> QED BY <1>12, <1>14, <1>15, <1>16, <1>17

\* The heap is cut back.
LEMMA CutTyped ==
  ASSUME NEW types \in Seq(Nat), NEW os \in Seq(Object), Len(types) = Len(os), KindsTyped(types, os),
         NEW n \in Nat, n <= Len(os)
  PROVE  /\ SubSeq(types, 1, n) \in Seq(Nat) /\ Len(SubSeq(types, 1, n)) = n
         /\ SubSeq(os, 1, n) \in Seq(Object) /\ Len(SubSeq(os, 1, n)) = n
         /\ KindsTyped(SubSeq(types, 1, n), SubSeq(os, 1, n))
         /\ \A j \in 1..n : SubSeq(types, 1, n)[j] = types[j] /\ SubSeq(os, 1, n)[j] = os[j]
<1>1. /\ SubSeq(types, 1, n) \in Seq(Nat) /\ Len(SubSeq(types, 1, n)) = n
      /\ \A j \in 1..n : SubSeq(types, 1, n)[j] = types[j]
  BY Prefix
<1>2. /\ SubSeq(os, 1, n) \in Seq(Object) /\ Len(SubSeq(os, 1, n)) = n
      /\ \A j \in 1..n : SubSeq(os, 1, n)[j] = os[j]
  <2> DEFINE O == Object
  <2>1. os \in Seq(O)
    OBVIOUS
  <2> HIDE DEF O
  <2>2. /\ SubSeq(os, 1, n) \in Seq(O) /\ Len(SubSeq(os, 1, n)) = n
        /\ \A j \in 1..n : SubSeq(os, 1, n)[j] = os[j]
    BY <2>1, Prefix
  <2> QED BY <2>2 DEF O
<1>3. \A j \in 1..n : os[j].kind = KindOf(types[j])
  BY DEF KindsTyped
<1> QED BY <1>1, <1>2, <1>3 DEF KindsTyped

\* Where the parts of the heap lie when the activation that called last is resumed.
LEMMA PopEdges ==
  ASSUME TypeOK, UNCHANGED prog, callers # <<>>, callers' = Suspended,
         act'.counts[1] = Caller.counts[1], NEW N, N = Len(callers)
  PROVE  /\ N \in Nat \ {0} /\ N \in DOMAIN callers /\ DOMAIN callers = 1..N /\ DOMAIN callers' = 1..N - 1
         /\ Caller = callers[N] /\ Len(callers') = N - 1
         /\ \A n \in 1..N - 1 : callers'[n] = callers[n] /\ Edge(n)' = Edge(n) /\ Lower(n)' = Lower(n)
         /\ Ground' = Lower(N) /\ Ground = Edge(N)
<1>1. callers \in Seq(ActivationType)
  BY DEF TypeOK
<1>2. /\ N \in Nat \ {0} /\ N \in DOMAIN callers /\ DOMAIN callers = 1..N /\ DOMAIN callers' = 1..N - 1
      /\ Caller = callers[N] /\ Len(callers') = N - 1
      /\ \A n \in 1..N - 1 : callers'[n] = callers[n]
  <2>1. /\ Len(callers) \in Nat \ {0} /\ Len(Suspended) = Len(callers) - 1 /\ Suspended \in Seq(ActivationType)
        /\ \A n \in 1..Len(callers) - 1 : Suspended[n] = callers[n]
    BY <1>1, CallersSplit DEF Suspended
  <2> QED BY <1>1, <2>1 DEF Caller
<1>3. \A n \in 1..N - 1 : Edge(n)' = Edge(n)
  <2> SUFFICES ASSUME NEW n \in 1..N - 1 PROVE Edge(n)' = Edge(n)
    OBVIOUS
  <2>1. CASE n < N - 1
    <3>1. n + 1 \in 1..N - 1 /\ n < N
      BY <1>2, <2>1
    <3> QED BY <1>2, <2>1, <3>1 DEF Edge, LastMark
  <2>2. CASE n = N - 1
    <3>1. n + 1 = N /\ n < N /\ ~(n < N - 1)
      BY <1>2, <2>2
    <3> QED BY <1>2, <2>2, <3>1 DEF Edge, LastMark
  <2> QED BY <1>2, <2>1, <2>2
<1>4. \A n \in 1..N : Lower(n)' = Lower(n)
  <2> SUFFICES ASSUME NEW n \in 1..N PROVE Lower(n)' = Lower(n)
    OBVIOUS
  <2>1. n # 1 => n - 1 \in 1..N - 1
    BY <1>2
  <2> QED BY <1>3, <2>1, BottomKept DEF Lower
<1>5. Ground' = Lower(N)
  <2>1. Len(callers') + 1 = N /\ N \in 1..N
    BY <1>2
  <2>2. Lower(N)' = Lower(N)
    BY <1>4, <2>1
  <2> QED BY <2>1, <2>2 DEF Ground
<1>6. Ground = Edge(N)
  <2>1. N + 1 # 1 /\ N + 1 - 1 = N
    BY <1>2
  <2> QED BY <2>1 DEF Ground, Lower
<1> QED BY <1>2, <1>3, <1>4, <1>5, <1>6

-----------------------------------------------------------------------------
\* Whoever waits goes on waiting when the activation it did not call is gone.
CutDown(types, types2, X, N) ==
  /\ X \in MarkType /\ Below(X, Mark') /\ Below(Base, X)
  /\ \A n \in 1..N - 1 : Below(Edge(n), X)
  /\ \A j \in 1..X.objects : types2[j] = types[j] /\ Objects'[j] = Objects[j]

\* Callers keep their types when the heap is cut back to where a callee began.
LEMMA OthersCut ==
  ASSUME NEW e, NEW types, TypedState(e, types), NEW types2, NEW X,
         callers # <<>>, callers' = Suspended, act'.counts[1] = Caller.counts[1], prog' = prog,
         NEW N, N = Len(callers),
         Mark' \in MarkType, CutDown(types, types2, X, N)
  PROVE  /\ \A j \in DOMAIN prog.env : Denotes(types2, prog.env[j], e[j], Origin, Base)
         /\ EdgesRight'
         /\ \A n \in 1..N - 1 : WaitingTyped(e, types2, Objects, n)'
<1>0. /\ X \in MarkType /\ Below(X, Mark') /\ Below(Base, X)
      /\ \A n \in 1..N - 1 : Below(Edge(n), X)
      /\ \A j \in 1..X.objects : types2[j] = types[j] /\ Objects'[j] = Objects[j]
  BY DEF CutDown
<1>1. TypeOK /\ EdgesRight /\ callers \in Seq(ActivationType) /\ IInv
  BY DEF TypedState, IInv, FramesTyped, TypeOK
<1>2. /\ N \in Nat \ {0} /\ DOMAIN callers = 1..N /\ DOMAIN callers' = 1..N - 1
      /\ \A n \in 1..N - 1 : callers'[n] = callers[n] /\ Edge(n)' = Edge(n) /\ Lower(n)' = Lower(n)
  BY <1>1, PopEdges
<1>3. /\ Base \in MarkType /\ Origin \in MarkType /\ Base' = Base
      /\ Bottom \in MarkType /\ Below(Bottom, Base) /\ Bottom' = Bottom
  <2>1. prog.strings \in Seq(Text) /\ prog.objects \in Seq(Object)
    BY <1>1 DEF TypeOK, Linked, Program
  <2>2. Base \in MarkType /\ Origin \in MarkType
    BY <2>1 DEF Base, Origin, MarkType
  <2> QED BY <1>1, <2>2, BottomKept DEF EdgesRight
<1>4. \A n \in 1..N - 1 : Below(Edge(n), X) /\ Edge(n) \in MarkType /\ Lower(n) \in MarkType
                          /\ Below(Base, Edge(n))
  <2> SUFFICES ASSUME NEW n \in 1..N - 1
               PROVE  Below(Edge(n), X) /\ Edge(n) \in MarkType /\ Lower(n) \in MarkType
                      /\ Below(Base, Edge(n))
    OBVIOUS
  <2>1. n \in DOMAIN callers
    BY <1>2
  <2>2. Lower(n) \in MarkType
    <3>1. n # 1 => n - 1 \in DOMAIN callers
      BY <1>2, <2>1
    <3> QED BY <1>1, <1>3, <3>1 DEF Lower, EdgesRight
  <2> QED BY <1>0, <1>1, <2>1, <2>2 DEF EdgesRight
<1>5. \A j \in DOMAIN prog.env : Denotes(types2, prog.env[j], e[j], Origin, Base)
  <2> SUFFICES ASSUME NEW j \in DOMAIN prog.env
               PROVE  Denotes(types2, prog.env[j], e[j], Origin, Base)
    OBVIOUS
  <2>1. Denotes(types, prog.env[j], e[j], Origin, Base)
    BY DEF TypedState, FramesTyped
  <2>2. Below(Base, Base) /\ Below(Origin, Origin)
    BY <1>3, BelowOrder
  <2>3. \A i \in 1..Base.objects : types2[i] = types[i]
    <3>1. Base.objects \in Nat /\ X.objects \in Nat /\ Base.objects <= X.objects
      BY <1>0, <1>3 DEF MarkType, Below
    <3> QED BY <1>0, <3>1
  <2> QED BY <1>3, <2>1, <2>2, <2>3, DenotesCarried
<1>6. EdgesRight'
  <2>1. \A n \in 1..N - 1 : Below(Edge(n), Mark')
    <3> SUFFICES ASSUME NEW n \in 1..N - 1 PROVE Below(Edge(n), Mark')
      OBVIOUS
    <3> QED BY <1>0, <1>4, BelowOrder
  <2>2. \A n, m \in 1..N - 1 : n <= m => Below(Edge(n), Edge(m))
    <3>1. \A n \in 1..N - 1 : n \in DOMAIN callers
      BY <1>2
    <3> QED BY <1>1, <3>1 DEF EdgesRight
  <2>3. Below(Base, Mark')
    BY <1>0, <1>3, BelowOrder
  <2> QED BY <1>2, <1>3, <1>4, <2>1, <2>2, <2>3 DEF EdgesRight
<1>7. \A n \in 1..N - 1 : WaitingTyped(e, types2, Objects, n)'
  <2> SUFFICES ASSUME NEW n \in 1..N - 1 PROVE WaitingTyped(e, types2, Objects, n)'
    OBVIOUS
  <2> DEFINE c == prog.contracts[callers[n].cnt]
             l == Levels(prog, c)
             k == Sorts(prog, e, c)
             a == callers[n]
             lo == Lower(n)
             hi == Edge(n)
  <2>0. n \in DOMAIN callers
    BY <1>2
  <2>1. /\ Checked(prog, e, c, l, k) /\ a \in ActivationType
        /\ \A j \in DOMAIN a.calls : CallKnown(c, l, k, a.calls, j)
    BY <2>0, CallerChecked
  <2>2. WaitTyped(c, l, k, types, Objects, a, lo, hi)
    BY <2>0 DEF TypedState, FramesTyped, WaitingTyped
  <2>3. \A j \in 1..hi.objects : types2[j] = types[j] /\ Objects'[j] = Objects[j]
    <3>1. hi.objects \in Nat /\ X.objects \in Nat /\ hi.objects <= X.objects
      BY <1>0, <1>4 DEF MarkType, Below
    <3> HIDE DEF hi
    <3> QED BY <1>0, <3>1
  <2>4. lo \in MarkType /\ hi \in MarkType
    BY <1>4
  <2>5. WaitTyped(c, l, k, types2, Objects', a, lo, hi)
    <3> HIDE DEF c, l, k, a, lo, hi
    <3> QED BY <2>1, <2>2, <2>3, <2>4, WaitCarried
  <2>6. callers'[n] = callers[n] /\ Edge(n)' = Edge(n) /\ Lower(n)' = Lower(n) /\ prog' = prog
    BY <1>2
  <2> QED BY <2>5, <2>6 DEF WaitingTyped
<1> QED BY <1>5, <1>6, <1>7

\* What RETURN does in the activation that called.
LEMMA LeaveActs ==
  ASSUME TypeOK, callers # <<>>, NEW text \in Text, NEW gas, Leave(text, gas), EdgesRight, IInv,
         status = "running", NEW m, m = Ground
  PROVE  /\ UNCHANGED <<prog, status>> /\ callers' = Suspended
         /\ act'.counts[1] = Caller.counts[1] /\ act'.cnt = Caller.cnt /\ act'.i = Caller.i
         /\ act'.calls = Caller.calls /\ act'.top = Caller.top /\ act'.Vars = Caller.Vars
         /\ act'.params = Caller.params /\ act'.pars = <<>> /\ act'.isParContract = FALSE
         /\ act'.stack[Caller.top] = m.strings
         /\ \A pos \in 0..Caller.top - 1 : act'.stack[pos] = Caller.stack[pos]
         /\ m \in MarkType /\ Below(m, Mark)
         /\ Strings' = Append(SubSeq(Strings, 1, m.strings), text)
         /\ Objects' = SubSeq(Objects, 1, m.objects)
         /\ Mark' \in MarkType /\ Mark'.objects = m.objects /\ Mark'.strings = m.strings + 1
         /\ \A j \in 1..m.strings : Strings'[j] = Strings[j]
<1>1. /\ Caller \in ActivationType /\ Caller.top \in Depths /\ Caller.top >= 0
      /\ Caller.stack \in Stacks
  BY SuspendedType DEF ActivationType
<1>2. m = IF Caller.isParContract THEN LastMark(Caller) ELSE act.counts[1]
  <2>1. Len(callers) \in Nat \ {0}
    <3>1. callers \in Seq(ActivationType)
      BY DEF TypeOK
    <3> QED BY <3>1
  <2>2. Ground = Edge(Len(callers))
    BY <2>1 DEF Ground, Lower
  <2> QED BY <2>1, <2>2 DEF Edge, Caller
<1>3. /\ Strings' = Append(SubSeq(SubSeq(Strings, 1, act.counts[1].strings), 1, m.strings), text)
      /\ Objects' = SubSeq(SubSeq(Objects, 1, act.counts[1].objects), 1, m.objects)
      /\ act' = [Resumed(gas) EXCEPT !.stack[Caller.top] = m.strings]
      /\ callers' = Suspended /\ UNCHANGED <<prog, status>>
  BY <1>2 DEF Leave
<1>4. /\ Ascending(callers, act.counts[1]) /\ OwnMarks(act) /\ Below(LastMark(act), Mark)
      /\ act \in ActivationType
  BY RunningMarks DEF IInv, HeapMarks, TypeOK
<1>5. /\ act.counts[1] \in MarkType /\ LastMark(act) \in MarkType /\ Mark \in MarkType
      /\ Below(act.counts[1], LastMark(act))
  BY <1>4, MarksTyped, MarkTyped DEF OwnMarks
<1>6. Below(act.counts[1], Mark)
  BY <1>4, <1>5, BelowOrder
<1>7. LastMark(Caller) \in MarkType /\ Below(LastMark(Caller), act.counts[1])
  BY <1>4, CallerMarks
<1>8. m \in MarkType /\ Below(m, act.counts[1]) /\ Below(m, Mark)
  BY <1>2, <1>5, <1>6, <1>7, BelowOrder
<1>9. /\ Strings' = Append(SubSeq(Strings, 1, m.strings), text)
      /\ Objects' = SubSeq(Objects, 1, m.objects)
  BY <1>3, <1>5, <1>6, <1>8, CutTwice
<1>10. /\ Mark' \in MarkType /\ Mark'.objects = m.objects /\ Mark'.strings = m.strings + 1
       /\ \A j \in 1..m.strings : Strings'[j] = Strings[j]
  <2>1. m.strings \in Nat /\ m.objects \in Nat /\ m.strings <= Len(Strings) /\ m.objects <= Len(Objects)
    BY <1>8 DEF MarkType, Below, Mark
  <2>2. Strings \in Seq(Text) /\ Objects \in Seq(Object)
    BY DEF TypeOK
  <2>3. /\ SubSeq(Strings, 1, m.strings) \in Seq(Text) /\ Len(SubSeq(Strings, 1, m.strings)) = m.strings
        /\ \A j \in 1..m.strings : SubSeq(Strings, 1, m.strings)[j] = Strings[j]
    BY <2>1, <2>2, Prefix
  <2>4. Len(SubSeq(Objects, 1, m.objects)) = m.objects
    BY <2>1, <2>2, Prefix
  <2> DEFINE ss == SubSeq(Strings, 1, m.strings)
             T == Text
  <2>5. ss \in Seq(T) /\ Len(ss) = m.strings /\ text \in T /\ \A j \in 1..m.strings : ss[j] = Strings[j]
    BY <2>3
  <2> HIDE DEF ss, T
  <2>6. Len(Append(ss, text)) = m.strings + 1 /\ \A j \in 1..m.strings : Append(ss, text)[j] = Strings[j]
    BY <2>1, <2>5
  <2>7. Strings' = Append(ss, text)
    BY <1>9 DEF ss
  <2>8. Len(Strings') = m.strings + 1 /\ \A j \in 1..m.strings : Strings'[j] = Strings[j]
    BY <2>6, <2>7
  <2>9. Len(Objects') = m.objects
    BY <1>9, <2>4
  <2>10. Mark' = [strings |-> m.strings + 1, objects |-> m.objects]
    BY <2>8, <2>9 DEF Mark
  <2> QED BY <2>1, <2>8, <2>10 DEF MarkType
<1>11. /\ OwnMarks(Caller) /\ Caller.counts[1] \in MarkType
  BY <1>4, CallerMarks
<1>12. /\ act'.counts[1] = Caller.counts[1] /\ act'.cnt = Caller.cnt /\ act'.i = Caller.i
       /\ act'.calls = Caller.calls /\ act'.top = Caller.top /\ act'.Vars = Caller.Vars
       /\ act'.params = Caller.params /\ act'.pars = <<>> /\ act'.isParContract = FALSE
       /\ act'.stack = [Caller.stack EXCEPT ![Caller.top] = m.strings]
  <2> DEFINE a == Caller
             n == m.strings
             cs == IF a.isParContract THEN SubSeq(a.counts, 1, Len(a.counts) - 1) ELSE a.counts
  <2>1. cs[1] = a.counts[1]
    <3>1. /\ a.counts \in Seq(MarkType) /\ a.isParContract \in BOOLEAN
          /\ Len(a.counts) = IF a.isParContract THEN 2 ELSE 1
      BY <1>1, <1>11 DEF ActivationType, OwnMarks
    <3>2. CASE a.isParContract
      <4>1. Len(a.counts) = 2 /\ Len(a.counts) - 1 = 1
        BY <3>1, <3>2
      <4>2. SubSeq(a.counts, 1, 1)[1] = a.counts[1]
        BY <3>1, <4>1, Prefix
      <4> QED BY <3>2, <4>1, <4>2
    <3>3. CASE ~a.isParContract
      BY <3>3
    <3> QED BY <3>2, <3>3
  <2>2. act' = [[a EXCEPT !.gas = @ - gas, !.pars = <<>>, !.isParContract = FALSE, !.counts = cs]
                EXCEPT !.stack[a.top] = n]
    BY <1>1, <1>3 DEF Resumed, ActivationType
  <2>3. a \in ActivationType
    BY <1>1
  <2> HIDE DEF a, n, cs
  <2>4. /\ act'.counts = cs /\ act'.cnt = a.cnt /\ act'.i = a.i
        /\ act'.calls = a.calls /\ act'.top = a.top /\ act'.Vars = a.Vars
        /\ act'.params = a.params /\ act'.pars = <<>> /\ act'.isParContract = FALSE
        /\ act'.stack = [a.stack EXCEPT ![a.top] = n]
    BY <2>2, <2>3 DEF ActivationType
  <2> QED BY <2>1, <2>4 DEF a, n
<1>13. /\ act'.stack[Caller.top] = m.strings
       /\ \A pos \in 0..Caller.top - 1 : act'.stack[pos] = Caller.stack[pos]
  <2> DEFINE s == Caller.stack
             n == Caller.top
  <2>1. s \in Stacks /\ n \in 0..StackSize - 1
    BY <1>1, SizesAssumption DEF Depths
  <2> HIDE DEF s, n
  <2>2. [s EXCEPT ![n] = m.strings][n] = m.strings /\ \A pos \in 0..n - 1 : [s EXCEPT ![n] = m.strings][pos] = s[pos]
    BY <2>1, SizesAssumption DEF Stacks
  <2> QED BY <1>12, <2>2 DEF s, n
<1> QED BY <1>3, <1>8, <1>9, <1>10, <1>12, <1>13

-----------------------------------------------------------------------------
\* A contract that ends leaves its caller with types: the text it returns is the only
\* thing of it that stays.
LEMMA LeaveTyped ==
  ASSUME NEW e, NEW types, Typing(e, types), status = "running", callers # <<>>,
         NEW text \in Text, NEW gas, Leave(text, gas)
  PROVE  Stepped(e)
<1>0. TypeOK /\ TypedState(e, types) /\ EdgesRight /\ IInv
  BY DEF Typing, TypedState, IInv, FramesTyped
<1>1. PICK m : m = Ground
  OBVIOUS
<1>2. /\ UNCHANGED <<prog, status>> /\ callers' = Suspended
      /\ act'.counts[1] = Caller.counts[1] /\ act'.cnt = Caller.cnt /\ act'.i = Caller.i
      /\ act'.calls = Caller.calls /\ act'.top = Caller.top /\ act'.Vars = Caller.Vars
      /\ act'.params = Caller.params /\ act'.pars = <<>> /\ act'.isParContract = FALSE
      /\ act'.stack[Caller.top] = m.strings
      /\ \A pos \in 0..Caller.top - 1 : act'.stack[pos] = Caller.stack[pos]
      /\ m \in MarkType /\ Below(m, Mark)
      /\ Objects' = SubSeq(Objects, 1, m.objects)
      /\ Mark' \in MarkType /\ Mark'.objects = m.objects /\ Mark'.strings = m.strings + 1
      /\ \A j \in 1..m.strings : Strings'[j] = Strings[j]
  BY <1>0, <1>1, LeaveActs
<1>3. PICK N : N = Len(callers)
  OBVIOUS
<1>4. /\ N \in Nat \ {0} /\ N \in DOMAIN callers /\ DOMAIN callers = 1..N /\ DOMAIN callers' = 1..N - 1
      /\ Caller = callers[N]
      /\ Ground' = Lower(N) /\ m = Edge(N)
  BY <1>0, <1>1, <1>2, <1>3, PopEdges
<1>5. PICK types2 : types2 = SubSeq(types, 1, m.objects)
  OBVIOUS
<1>6. /\ types2 \in Seq(Nat) /\ Len(types2) = Len(Objects') /\ KindsTyped(types2, Objects')
      /\ \A j \in 1..m.objects : types2[j] = types[j] /\ Objects'[j] = Objects[j]
  <2>1. Objects \in Seq(Object) /\ types \in Seq(Nat) /\ Len(types) = Len(Objects) /\ KindsTyped(types, Objects)
    BY <1>0 DEF TypeOK, TypedState, FramesTyped
  <2>2. m.objects \in Nat /\ m.objects <= Len(Objects)
    BY <1>2 DEF MarkType, Below, Mark
  <2> DEFINE os == Objects
             n == m.objects
  <2> HIDE DEF n
  <2>3. /\ SubSeq(types, 1, n) \in Seq(Nat) /\ Len(SubSeq(types, 1, n)) = n
        /\ Len(SubSeq(os, 1, n)) = n
        /\ KindsTyped(SubSeq(types, 1, n), SubSeq(os, 1, n))
        /\ \A j \in 1..n : SubSeq(types, 1, n)[j] = types[j] /\ SubSeq(os, 1, n)[j] = os[j]
    BY <2>1, <2>2, CutTyped DEF n
  <2> QED BY <1>2, <1>5, <2>3 DEF n
<1>7. Below(m, Mark')
  <2>1. m.strings \in Nat /\ m.objects \in Nat /\ m.strings <= m.strings + 1
    BY <1>2 DEF MarkType
  <2> QED BY <1>2, <2>1 DEF Below
<1>8. /\ \A n \in 1..N - 1 : Below(Edge(n), m)
      /\ Below(Base, m) /\ Lower(N) \in MarkType /\ Below(Lower(N), m)
  <2>1. \A n \in 1..N : n \in DOMAIN callers /\ n <= N
    BY <1>4
  <2>2. \A n \in 1..N - 1 : n \in DOMAIN callers /\ n <= N
    BY <1>4
  <2>3. (\A n \in 1..N - 1 : Below(Edge(n), m)) /\ Below(Base, m)
    BY <1>0, <1>4, <2>2 DEF EdgesRight
  <2>4. CASE N = 1
    <3>1. Lower(N) = Bottom /\ Bottom \in MarkType /\ Below(Bottom, Base)
      BY <1>0, <2>4 DEF Lower, EdgesRight
    <3>2. Base \in MarkType
      BY <1>0 DEF TypeOK, Linked, Program, Base, MarkType
    <3> QED BY <1>2, <2>3, <3>1, <3>2, BelowOrder
  <2>5. CASE N # 1
    <3>1. N - 1 \in 1..N - 1 /\ N - 1 \in DOMAIN callers /\ Lower(N) = Edge(N - 1)
      BY <1>4, <2>5 DEF Lower
    <3> QED BY <1>0, <2>3, <3>1 DEF EdgesRight
  <2> QED BY <2>4, <2>5
<1>9. /\ \A j \in DOMAIN prog.env : Denotes(types2, prog.env[j], e[j], Origin, Base)
      /\ EdgesRight'
      /\ \A n \in 1..N - 1 : WaitingTyped(e, types2, Objects, n)'
  <2>1. TypedState(e, types) /\ m \in MarkType /\ callers # <<>> /\ N = Len(callers)
    BY <1>0, <1>2, <1>3
  <2>2. /\ callers' = Suspended /\ act'.counts[1] = Caller.counts[1] /\ prog' = prog
        /\ Mark' \in MarkType
    BY <1>2
  <2>3. CutDown(types, types2, m, N)
    BY <1>2, <1>6, <1>7, <1>8 DEF CutDown
  <2> QED BY ONLY <2>1, <2>2, <2>3, OthersCut, Zenon
<1>10. RunTyped(Sorts(prog, e, cnt), types2)'
  <2> DEFINE c == prog.contracts[callers[N].cnt]
             l == Levels(prog, c)
             k == Sorts(prog, e, c)
             a == callers[N]
             b == act'
             os == Objects
             os2 == Objects'
             lo == Lower(N)
             hi2 == Mark'
  <2>1. /\ Checked(prog, e, c, l, k) /\ a \in ActivationType /\ LevelledIn(c, l, a)
        /\ \A j \in DOMAIN a.calls : CallKnown(c, l, k, a.calls, j)
    BY <1>0, <1>4, CallerChecked
  <2>2. WaitTyped(c, l, k, types, os, a, lo, m)
    BY <1>0, <1>4 DEF TypedState, FramesTyped, WaitingTyped
  <2>3. \A j \in 1..m.objects : types2[j] = types[j] /\ os2[j] = os[j]
    BY <1>6
  <2>4. /\ b.calls = a.calls /\ b.Vars = a.Vars /\ b.params = a.params /\ b.i = a.i /\ b.top = a.top
        /\ b.pars = <<>> /\ b.isParContract = FALSE
        /\ b.stack[a.top] = m.strings /\ \A pos \in 0..a.top - 1 : b.stack[pos] = a.stack[pos]
    BY <1>2, <1>4
  <2>5. /\ lo \in MarkType /\ hi2 \in MarkType /\ m \in MarkType /\ Below(lo, m) /\ Below(m, hi2)
        /\ hi2.objects = m.objects /\ m.strings < hi2.strings
    <3>1. m.strings \in Nat
      BY <1>2 DEF MarkType
    <3>2. m.strings < m.strings + 1
      BY <3>1
    <3> QED BY <1>2, <1>7, <1>8, <3>2
  <2>6. cnt' = c /\ Here' = l /\ Sorts(prog, e, cnt)' = k
    <3>1. cnt' = c
      BY <1>2, <1>4 DEF cnt
    <3> QED BY <1>2, <3>1 DEF Here
  <2>7. Ground' = lo /\ Middle' = hi2
    BY <1>2, <1>4 DEF Middle
  <2> HIDE DEF c, l, k, a, b, os, os2, lo, hi2
  <2>8. /\ LocalsTyped(c, l, k, types2, os2, b, lo, hi2)
        /\ StackTyped(c, l, k, types2, os2, b, b.i, b.top, lo, hi2, hi2)
        /\ b.i \in Starts(c) => ParsTyped(types2, b, k.pars[b.i], hi2, hi2)
        /\ HeapTyped(types2, os2, lo, hi2) /\ HeapTyped(types2, os2, hi2, hi2)
    BY ONLY <2>1, <2>2, <2>3, <2>4, <2>5, WaitOver, Zenon
  <2> QED BY <2>6, <2>7, <2>8 DEF RunTyped, b, os2, hi2
<1>11. FramesTyped(e, types2)'
  <2>1. \A j \in DOMAIN prog'.env : Denotes(types2, prog'.env[j], e[j], Origin, Base')
    BY <1>2, <1>9 DEF Base
  <2>2. \A n \in DOMAIN callers' : WaitingTyped(e, types2, Objects, n)'
    BY <1>4, <1>9
  <2> QED BY <1>6, <1>9, <1>10, <2>1, <2>2, Zenon DEF FramesTyped
<1>12. Untouched
  BY <1>1, <1>2, <1>6, <1>7 DEF Untouched
<1> QED BY <1>11, <1>12 DEF Typable, Stepped

-----------------------------------------------------------------------------
(***************************************************************************)
(* Errors.                                                                 *)
(***************************************************************************)
\* While errors go from callee to caller, only the callers have a part of the heap.
LEMMA Unwinding ==
  ASSUME NEW e, NEW types, TypedState(e, types), NEW m \in MarkType, Below(m, Mark),
         Objects' = SubSeq(Objects, 1, m.objects)
  PROVE  LET types2 == SubSeq(types, 1, m.objects)
         IN /\ types2 \in Seq(Nat) /\ Len(types2) = Len(Objects') /\ KindsTyped(types2, Objects')
            /\ \A j \in 1..m.objects : types2[j] = types[j] /\ Objects'[j] = Objects[j]
<1>1. Objects \in Seq(Object) /\ types \in Seq(Nat) /\ Len(types) = Len(Objects) /\ KindsTyped(types, Objects)
  BY DEF TypedState, FramesTyped, IInv, TypeOK
<1>2. m.objects \in Nat /\ m.objects <= Len(Objects)
  BY DEF MarkType, Below, Mark
<1> DEFINE os == Objects
           n == m.objects
<1> HIDE DEF n
<1>3. /\ SubSeq(types, 1, n) \in Seq(Nat) /\ Len(SubSeq(types, 1, n)) = n
      /\ Len(SubSeq(os, 1, n)) = n
      /\ KindsTyped(SubSeq(types, 1, n), SubSeq(os, 1, n))
      /\ \A j \in 1..n : SubSeq(types, 1, n)[j] = types[j] /\ SubSeq(os, 1, n)[j] = os[j]
  BY <1>1, <1>2, CutTyped DEF n
<1> QED BY <1>3 DEF n

\* A step of Abort leaves the heap and the frames with types.
LEMMA AbortTyped ==
  ASSUME NEW e, NEW types, TypedState(e, types), TypeOK', status = "running", callers # <<>>,
         NEW kind, NEW gas, Abort(kind, gas)
  PROVE  Typable(e)'
<1>1. /\ Cut(act.counts[1]) /\ status' = "unwinding" /\ UNCHANGED <<prog, callers>>
      /\ act' = [act EXCEPT !.gas = gas] /\ TypeOK /\ IInv /\ act \in ActivationType
      /\ callers \in Seq(ActivationType)
  BY DEF Abort, TypedState, IInv, TypeOK
<1>2. PICK m : m = act.counts[1]
  OBVIOUS
<1>3. act'.counts[1] = act.counts[1]
  BY <1>1 DEF ActivationType
<1>4. /\ Ascending(callers, m) /\ OwnMarks(act) /\ Below(LastMark(act), Mark)
  BY <1>1, <1>2, RunningMarks DEF IInv, HeapMarks
<1>5. m \in MarkType /\ Below(m, Mark)
  <2>1. /\ m \in MarkType /\ LastMark(act) \in MarkType /\ Mark \in MarkType
        /\ Below(m, LastMark(act))
    BY <1>1, <1>2, <1>4, MarksTyped, MarkTyped DEF OwnMarks
  <2> QED BY <1>4, <2>1, BelowOrder
<1>6. Objects' = SubSeq(Objects, 1, m.objects) /\ Mark' = m
  <2>1. Mark' = act.counts[1]
    BY <1>1, <1>2, <1>5, HeapCut DEF Cut
  <2> QED BY <1>1, <1>2, <2>1 DEF Cut
<1>7. /\ Ground \in MarkType /\ Below(Ground, m) /\ Below(Base, Ground) /\ Base \in MarkType
  <2>1. Len(callers) \in Nat \ {0} /\ Len(callers) \in DOMAIN callers
    BY <1>1
  <2>2. Ground = Edge(Len(callers)) /\ EdgesRight
    BY <2>1 DEF Ground, Lower, TypedState, FramesTyped
  <2>3. Ground = IF callers[Len(callers)].isParContract THEN LastMark(callers[Len(callers)]) ELSE m
    BY <1>2, <2>1, <2>2 DEF Edge
  <2>4. Below(LastMark(callers[Len(callers)]), m)
    BY <1>4, <2>1 DEF Ascending
  <2>5. Below(Ground, m)
    BY <1>5, <2>3, <2>4, BelowOrder
  <2>6. prog.strings \in Seq(Text) /\ prog.objects \in Seq(Object)
    BY <1>1 DEF TypeOK, Linked, Program
  <2>7. Base \in MarkType
    BY <2>6 DEF Base, MarkType
  <2> QED BY <2>1, <2>2, <2>5, <2>7 DEF EdgesRight
<1>8. PICK types2 : types2 = SubSeq(types, 1, m.objects)
  OBVIOUS
<1>9. /\ types2 \in Seq(Nat) /\ Len(types2) = Len(Objects') /\ KindsTyped(types2, Objects')
      /\ \A j \in 1..m.objects : types2[j] = types[j] /\ Objects'[j] = Objects[j]
  BY <1>5, <1>6, <1>8, Unwinding
<1>10. /\ \A j \in DOMAIN prog.env : Denotes(types2, prog.env[j], e[j], Origin, Base)
       /\ EdgesRight'
       /\ \A n \in DOMAIN callers : WaitingTyped(e, types2, Objects, n)'
  <2>1. Below(Base, m)
    BY <1>5, <1>7, BelowOrder
  <2>2. /\ Base.objects \in Nat /\ Ground.objects \in Nat /\ m.objects \in Nat
        /\ Base.objects <= m.objects /\ Ground.objects <= m.objects
    BY <1>5, <1>7, <2>1 DEF MarkType, Below
  <2>3. \A j \in 1..Ground.objects : types2[j] = types[j] /\ Objects'[j] = Objects[j]
    BY <1>9, <2>2
  <2>4. \A j \in 1..Base.objects : types2[j] = types[j]
    BY <1>9, <2>2
  <2> QED BY <1>1, <1>3, <1>5, <1>6, <1>7, <1>9, <2>1, <2>3, <2>4, OthersWait
<1>11. FramesTyped(e, types2)'
  <2>1. \A j \in DOMAIN prog'.env : Denotes(types2, prog'.env[j], e[j], Origin, Base')
    BY <1>1, <1>10 DEF Base
  <2>2. \A n \in DOMAIN callers' : WaitingTyped(e, types2, Objects, n)'
    BY <1>1, <1>10
  <2>3. status' \notin {"running", "panic"}
    BY <1>1
  <2> QED BY <1>9, <1>10, <2>1, <2>2, <2>3, Zenon DEF FramesTyped
<1> QED BY <1>11 DEF Typable

-----------------------------------------------------------------------------
\* An activation that an error ends leaves its caller with types.
LEMMA UnwindTyped ==
  ASSUME NEW e, NEW types, TypedState(e, types), TypeOK', Unwind, status' = "unwinding"
  PROVE  Typable(e)'
<1>1. /\ TypeOK /\ IInv /\ act \in ActivationType /\ status = "unwinding" /\ callers # <<>>
      /\ callers \in Seq(ActivationType) /\ EdgesRight
  BY DEF TypedState, IInv, TypeOK, Unwind, FramesTyped
<1>2. PICK m : m = Caller.counts[1]
  OBVIOUS
<1>3. PICK mm : mm = IF Caller.isParContract THEN LastMark(Caller) ELSE Caller.counts[1]
  OBVIOUS
<1>4. /\ Strings' = SubSeq(SubSeq(Strings, 1, mm.strings), 1, m.strings)
      /\ Objects' = SubSeq(SubSeq(Objects, 1, mm.objects), 1, m.objects)
      /\ act' = Resumed(act.gas) /\ callers' = Suspended /\ UNCHANGED <<prog, Buffers>>
      /\ Suspended # <<>>
  BY <1>2, <1>3 DEF Unwind
<1>5. Ascending(callers, Mark)
  BY <1>1 DEF Live, MarksAscend, IInv, HeapMarks
<1>6. /\ Caller \in ActivationType /\ OwnMarks(Caller) /\ m \in MarkType
      /\ LastMark(Caller) \in MarkType /\ Ascending(Suspended, m)
      /\ Below(m, LastMark(Caller)) /\ Below(LastMark(Caller), Mark)
  BY <1>1, <1>2, <1>5, CallerMarks
<1>7. mm \in MarkType /\ Below(m, mm) /\ Below(mm, Mark) /\ Below(m, Mark)
  <2>1. Mark \in MarkType
    BY <1>1, MarkTyped
  <2> QED BY <1>2, <1>3, <1>6, <2>1, BelowOrder
<1>8. Objects' = SubSeq(Objects, 1, m.objects) /\ Mark' = m
  <2>1. Strings' = SubSeq(Strings, 1, m.strings) /\ Objects' = SubSeq(Objects, 1, m.objects)
    BY <1>1, <1>4, <1>6, <1>7, CutTwice
  <2> QED BY <1>1, <1>4, <1>6, <1>7, <2>1, HeapCut
<1>9. act'.counts[1] = Caller.counts[1]
  <2>1. act.gas \in Int
    BY <1>1 DEF ActivationType
  <2> QED BY <1>4, <1>6, <2>1, ResumedType
<1>10. PICK N : N = Len(callers)
  OBVIOUS
<1>11. /\ N \in Nat \ {0} /\ DOMAIN callers = 1..N /\ DOMAIN callers' = 1..N - 1
       /\ Caller = callers[N] /\ N - 1 \in 1..N - 1
       /\ \A n \in 1..N - 1 : callers'[n] = callers[n]
  <2>1. /\ N \in Nat \ {0} /\ DOMAIN callers = 1..N /\ DOMAIN callers' = 1..N - 1
        /\ Caller = callers[N]
        /\ \A n \in 1..N - 1 : callers'[n] = callers[n]
    BY <1>1, <1>4, <1>9, <1>10, PopEdges
  <2>2. N # 1
    <3>1. callers' \in Seq(ActivationType)
      BY <1>1, <1>4, SuspendedType
    <3>2. Len(callers') # 0
      BY <1>4, <3>1, EmptySeq
    <3> QED BY <2>1, <3>1, <3>2
  <2> QED BY <2>1, <2>2
<1>12. \A n \in 1..N - 1 : Edge(n) \in MarkType /\ Below(Base, Edge(n)) /\ Below(Edge(n), Edge(N - 1))
  <2>1. \A n \in 1..N - 1 : n \in DOMAIN callers /\ n <= N - 1
    BY <1>11
  <2> QED BY <1>1, <1>11, <2>1 DEF EdgesRight
<1>13. Below(Edge(N - 1), m)
  <2>1. CASE callers[N - 1].isParContract
    <3>1. Edge(N - 1) = LastMark(Suspended[N - 1])
      BY <1>4, <1>11, <2>1 DEF Edge
    <3>2. Len(Suspended) = N - 1 /\ N - 1 \in DOMAIN Suspended /\ ~(N - 1 < Len(Suspended))
      <4>1. Suspended \in Seq(ActivationType)
        BY <1>1, SuspendedType
      <4> QED BY <1>4, <1>11, <4>1
    <3> QED BY <1>6, <3>1, <3>2 DEF Ascending
  <2>2. CASE ~callers[N - 1].isParContract
    <3>1. N - 1 < Len(callers) /\ N - 1 + 1 = N
      BY <1>10, <1>11
    <3>2. Edge(N - 1) = m
      BY <1>2, <1>11, <2>2, <3>1 DEF Edge
    <3> QED BY <1>6, <3>2, BelowOrder
  <2> QED BY <2>1, <2>2
<1>14. Base \in MarkType
  <2>1. prog.strings \in Seq(Text) /\ prog.objects \in Seq(Object)
    BY <1>1 DEF TypeOK, Linked, Program
  <2> QED BY <2>1 DEF Base, MarkType
<1>15. Below(Base, m) /\ \A n \in 1..N - 1 : Below(Edge(n), m)
  BY <1>6, <1>11, <1>12, <1>13, <1>14, BelowOrder
<1>16. PICK types2 : types2 = SubSeq(types, 1, m.objects)
  OBVIOUS
<1>17. /\ types2 \in Seq(Nat) /\ Len(types2) = Len(Objects') /\ KindsTyped(types2, Objects')
       /\ \A j \in 1..m.objects : types2[j] = types[j] /\ Objects'[j] = Objects[j]
  BY <1>6, <1>7, <1>8, <1>16, Unwinding
<1>18. /\ \A j \in DOMAIN prog.env : Denotes(types2, prog.env[j], e[j], Origin, Base)
       /\ EdgesRight'
       /\ \A n \in 1..N - 1 : WaitingTyped(e, types2, Objects, n)'
  <2>1. callers # <<>> /\ callers' = Suspended /\ act'.counts[1] = Caller.counts[1] /\ prog' = prog
    BY <1>1, <1>4, <1>9
  <2>2. Mark' \in MarkType /\ Below(m, Mark')
    BY <1>6, <1>8, BelowOrder
  <2>3. CutDown(types, types2, m, N)
    BY <1>6, <1>15, <1>17, <2>2 DEF CutDown
  <2>4. TypedState(e, types)
    OBVIOUS
  <2> QED BY ONLY <1>10, <2>1, <2>2, <2>3, <2>4, OthersCut, Zenon
<1>19. FramesTyped(e, types2)'
  <2>1. \A j \in DOMAIN prog'.env : Denotes(types2, prog'.env[j], e[j], Origin, Base')
    BY <1>4, <1>18 DEF Base
  <2>2. \A n \in DOMAIN callers' : WaitingTyped(e, types2, Objects, n)'
    BY <1>11, <1>18
  <2>3. status' \notin {"running", "panic"}
    OBVIOUS
  <2> QED BY <1>17, <1>18, <2>1, <2>2, <2>3, Zenon DEF FramesTyped
<1> QED BY <1>19 DEF Typable

\* Where nothing but the status changes.
LEMMA StillTyped ==
  ASSUME NEW e, NEW types, FramesTyped(e, types), UNCHANGED <<prog, act, callers, Strings, Objects>>,
         status' \in {"running", "panic"} => status \in {"running", "panic"}
  PROVE  FramesTyped(e, types)'
<1>1. Mark' = Mark /\ Base' = Base /\ cnt' = cnt /\ Here' = Here /\ Middle' = Middle
  BY DEF Mark, Base, cnt, Here, Middle, LastMark
<1>2. \A n : Edge(n)' = Edge(n)
  BY DEF Edge, LastMark
<1>3. \A n : Lower(n)' = Lower(n)
  BY <1>2, BottomKept DEF Lower
<1>4. Ground' = Ground
  BY <1>3 DEF Ground
<1>5. EdgesRight'
  BY <1>1, <1>2, BottomKept DEF EdgesRight, FramesTyped
<1>6. \A n \in DOMAIN callers' : WaitingTyped(e, types, Objects, n)'
  <2> SUFFICES ASSUME NEW n \in DOMAIN callers PROVE WaitingTyped(e, types, Objects, n)'
    OBVIOUS
  <2>1. WaitingTyped(e, types, Objects, n)
    BY DEF FramesTyped
  <2> QED BY <1>2, <1>3, <2>1 DEF WaitingTyped
<1>7. ASSUME status' \in {"running", "panic"} PROVE RunTyped(Sorts(prog, e, cnt), types)'
  <2>1. RunTyped(Sorts(prog, e, cnt), types)
    BY <1>7 DEF FramesTyped
  <2> QED BY <1>1, <1>4, <2>1 DEF RunTyped
<1>8. /\ types \in Seq(Nat) /\ Len(types) = Len(Objects') /\ KindsTyped(types, Objects')
      /\ \A j \in DOMAIN prog'.env : Denotes(types, prog'.env[j], e[j], Origin, Base')
  BY <1>1 DEF FramesTyped
<1> QED BY <1>5, <1>6, <1>7, <1>8, Zenon DEF FramesTyped

-----------------------------------------------------------------------------
\* What belongs to the callers is as it was after the step.
Confined == callers # <<>> /\ status = "running" =>
  /\ SubSeq(Strings', 1, Limit.strings) = SubSeq(Strings, 1, Limit.strings)
  /\ SubSeq(Objects', 1, Limit.objects) = SubSeq(Objects, 1, Limit.objects)

\* The heap is cut back to where the activation that runs began.
LEMMA LimitGround ==
  ASSUME TypeOK, callers # <<>>
  PROVE  Limit = Ground
<1>1. callers \in Seq(ActivationType)
  BY DEF TypeOK
<1>2. Len(callers) \in Nat \ {0}
  BY <1>1
<1>3. Ground = Edge(Len(callers))
  BY <1>2 DEF Ground, Lower
<1> QED BY <1>2, <1>3 DEF Edge, Limit, Caller

\* Two sequences with the same beginning.
LEMMA SamePrefix ==
  ASSUME NEW S, NEW s \in Seq(S), NEW t \in Seq(S), NEW n \in Nat, n <= Len(s), n <= Len(t),
         \A j \in 1..n : s[j] = t[j]
  PROVE  SubSeq(s, 1, n) = SubSeq(t, 1, n)
<1>1. /\ SubSeq(s, 1, n) \in Seq(S) /\ Len(SubSeq(s, 1, n)) = n
      /\ \A j \in 1..n : SubSeq(s, 1, n)[j] = s[j]
  BY Prefix
<1>2. /\ SubSeq(t, 1, n) \in Seq(S) /\ Len(SubSeq(t, 1, n)) = n
      /\ \A j \in 1..n : SubSeq(t, 1, n)[j] = t[j]
  BY Prefix
<1> DEFINE u == SubSeq(s, 1, n)
           v == SubSeq(t, 1, n)
<1>3. u \in Seq(S) /\ v \in Seq(S) /\ Len(u) = n /\ Len(v) = n /\ \A j \in 1..n : u[j] = v[j]
  BY <1>1, <1>2
<1> HIDE DEF u, v
<1>4. u = v
  BY <1>3, SeqEqual
<1> QED BY <1>4 DEF u, v

\* What leaves alone the heap below the running activation leaves alone its callers.
LEMMA UntouchedConfined ==
  ASSUME IInv, TypeOK', Untouched, Ground \in MarkType, Below(Ground, Mark)
  PROVE  Confined
<1> SUFFICES ASSUME callers # <<>>
             PROVE  /\ SubSeq(Strings', 1, Ground.strings) = SubSeq(Strings, 1, Ground.strings)
                    /\ SubSeq(Objects', 1, Ground.objects) = SubSeq(Objects, 1, Ground.objects)
  BY LimitGround DEF Confined, IInv
<1>1. /\ Strings \in Seq(Text) /\ Objects \in Seq(Object)
      /\ Strings' \in Seq(Text) /\ Objects' \in Seq(Object)
  BY DEF IInv, TypeOK
<1>2. /\ Ground.strings \in Nat /\ Ground.objects \in Nat
      /\ Ground.strings <= Len(Strings) /\ Ground.objects <= Len(Objects)
      /\ Ground.strings <= Len(Strings') /\ Ground.objects <= Len(Objects')
  BY DEF MarkType, Below, Mark, Untouched
<1>3. /\ \A j \in 1..Ground.objects : Objects'[j] = Objects[j]
      /\ \A j \in 1..Ground.strings : Strings'[j] = Strings[j]
  BY DEF Untouched
<1> DEFINE O == Object
           T == Text
           g == Ground
<1>4. /\ Strings \in Seq(T) /\ Objects \in Seq(O) /\ Strings' \in Seq(T) /\ Objects' \in Seq(O)
  BY <1>1
<1> HIDE DEF O, T, g
<1>5. SubSeq(Strings', 1, g.strings) = SubSeq(Strings, 1, g.strings)
  BY <1>2, <1>3, <1>4, SamePrefix DEF g
<1>6. SubSeq(Objects', 1, g.objects) = SubSeq(Objects, 1, g.objects)
  BY <1>2, <1>3, <1>4, SamePrefix DEF g
<1> QED BY <1>5, <1>6 DEF g

-----------------------------------------------------------------------------
\* The texts below Bottom are as they were after the step.
Spared == SubSeq(Strings', 1, Bottom.strings) = SubSeq(Strings, 1, Bottom.strings)

\* Whoever runs, what it may change begins behind them.
LEMMA BottomBelow ==
  ASSUME IInv, EdgesRight
  PROVE  /\ Base \in MarkType /\ Bottom \in MarkType /\ Below(Bottom, Base) /\ Below(Base, Mark)
         /\ Below(Bottom, Ground)
<1>1. TypeOK /\ callers \in Seq(ActivationType)
  BY DEF IInv, TypeOK
<1>2. /\ Base \in MarkType /\ Bottom \in MarkType /\ Below(Bottom, Base) /\ Below(Base, Mark)
  <2>1. prog.strings \in Seq(Text) /\ prog.objects \in Seq(Object)
    BY <1>1 DEF TypeOK, Linked, Program
  <2>2. Base \in MarkType
    BY <2>1 DEF Base, MarkType
  <2> QED BY <2>2 DEF EdgesRight
<1>3. CASE callers = <<>>
  <2>1. Ground = Bottom
    BY <1>3 DEF Ground, Lower
  <2> QED BY <1>2, <2>1, BelowOrder
<1>4. CASE callers # <<>>
  <2>1. Len(callers) \in Nat \ {0} /\ Len(callers) \in DOMAIN callers
    BY <1>1, <1>4
  <2>2. Ground = Edge(Len(callers))
    BY <2>1 DEF Ground, Lower
  <2>3. Ground \in MarkType /\ Below(Base, Ground)
    BY <2>1, <2>2 DEF EdgesRight
  <2> QED BY <1>2, <2>3, BelowOrder
<1> QED BY <1>3, <1>4

\* What leaves alone the heap below the running activation spares them.
LEMMA UntouchedSpares ==
  ASSUME IInv, TypeOK', EdgesRight, Untouched, Ground \in MarkType, Below(Ground, Mark)
  PROVE  Spared
<1> DEFINE T == Text
           n == Bottom.strings
<1>1. Strings \in Seq(T) /\ Strings' \in Seq(T)
  BY DEF IInv, TypeOK
<1>2. n \in Nat /\ Ground.strings \in Nat /\ n <= Ground.strings
      /\ Ground.strings <= Len(Strings) /\ Ground.strings <= Len(Strings')
  BY BottomBelow DEF MarkType, Below, Mark, Untouched
<1>3. \A j \in 1..Ground.strings : Strings'[j] = Strings[j]
  BY DEF Untouched
<1> HIDE DEF T, n
<1>4. \A j \in 1..n : Strings'[j] = Strings[j]
  BY <1>2, <1>3
<1>5. n <= Len(Strings) /\ n <= Len(Strings')
  BY <1>1, <1>2
<1>6. SubSeq(Strings', 1, n) = SubSeq(Strings, 1, n)
  BY <1>1, <1>2, <1>4, <1>5, SamePrefix
<1> QED BY <1>6 DEF Spared, n

\* So does cutting the heap back to where an activation began.
LEMMA CutSpares ==
  ASSUME IInv, EdgesRight, NEW m \in MarkType, Below(Base, m), Below(m, Mark),
         Strings' = SubSeq(Strings, 1, m.strings)
  PROVE  Spared
<1>1. TypeOK /\ Base \in MarkType /\ Bottom \in MarkType /\ Below(Bottom, Base)
  BY BottomBelow DEF IInv
<1>2. Below(Bottom, m)
  BY <1>1, BelowOrder
<1> QED BY <1>1, <1>2, CutTwice DEF Spared

\* The running activation began behind what the host made.
LEMMA BeganAbove ==
  ASSUME IInv, EdgesRight, status = "running"
  PROVE  act.counts[1] \in MarkType /\ Below(Base, act.counts[1]) /\ Below(act.counts[1], Mark)
<1>1. /\ TypeOK /\ Ascending(callers, act.counts[1]) /\ OwnMarks(act) /\ Below(LastMark(act), Mark)
      /\ act \in ActivationType /\ callers \in Seq(ActivationType)
      /\ (IF callers = <<>> THEN act ELSE callers[1]).counts[1] = Base
  BY RunningMarks DEF IInv, HeapMarks, TypeOK
<1>2. /\ act.counts[1] \in MarkType /\ LastMark(act) \in MarkType /\ Mark \in MarkType
      /\ Below(act.counts[1], LastMark(act))
  BY <1>1, MarksTyped, MarkTyped DEF OwnMarks
<1>3. Below(act.counts[1], Mark)
  BY <1>1, <1>2, BelowOrder
<1>4. CASE callers = <<>>
  <2>1. act.counts[1] = Base
    BY <1>1, <1>4
  <2> QED BY <1>2, <1>3, <2>1, BelowOrder
<1>5. CASE callers # <<>>
  <2>1. Len(callers) \in Nat \ {0} /\ Len(callers) \in DOMAIN callers
        /\ callers[Len(callers)] = Caller /\ ~(Len(callers) < Len(callers))
    BY <1>1, <1>5 DEF Caller
  <2>2. Edge(Len(callers)) = IF Caller.isParContract THEN LastMark(Caller) ELSE act.counts[1]
    BY <2>1 DEF Edge
  <2>3. LastMark(Caller) \in MarkType /\ Below(LastMark(Caller), act.counts[1])
    BY <1>1, <1>5, CallerMarks
  <2>4. Edge(Len(callers)) \in MarkType /\ Below(Base, Edge(Len(callers)))
    BY <2>1 DEF EdgesRight
  <2>5. Below(Edge(Len(callers)), act.counts[1])
    BY <1>2, <2>2, <2>3, BelowOrder
  <2>6. Base \in MarkType
    BY BottomBelow
  <2> QED BY <1>2, <1>3, <2>4, <2>5, <2>6, BelowOrder
<1> QED BY <1>4, <1>5

-----------------------------------------------------------------------------
Lasting == {"running", "unwinding", "panic"}
\* The machine is as it should be after the step, if it goes on, and has left alone
\* what belongs to the callers and the texts of the environment.
Right(e) == (status' \in Lasting => Typable(e)') /\ Confined /\ Spared

\* A step of the interpreter keeps the types and leaves the callers alone.
LEMMA SteppedRight ==
  ASSUME NEW e, NEW types, Typing(e, types), status = "running", Stepped(e)
  PROVE  Right(e)
<1>1. IInv /\ TypeOK' /\ EdgesRight /\ Untouched /\ Typable(e)'
  BY DEF Typing, TypedState, FramesTyped, Stepped
<1>2. Ground \in MarkType /\ Below(Ground, Mark)
  BY <1>1, RunningBounds
<1>3. Confined /\ Spared
  BY <1>1, <1>2, UntouchedConfined, UntouchedSpares
<1> QED BY <1>1, <1>3 DEF Right

\* So does an error that ends the activation that runs.
LEMMA AbortRight ==
  ASSUME NEW e, NEW types, Typing(e, types), status = "running", NEW kind, NEW gas, Abort(kind, gas)
  PROVE  Right(e)
<1>1. IInv /\ TypeOK /\ TypeOK' /\ EdgesRight /\ TypedState(e, types)
  BY DEF Typing, TypedState, FramesTyped, IInv
<1>4. Spared
  <2>1. Strings' = SubSeq(Strings, 1, act.counts[1].strings)
    BY DEF Abort, Cut
  <2> QED BY <1>1, <2>1, BeganAbove, CutSpares
<1>2. CASE callers = <<>>
  <2>1. status' = "error"
    BY <1>2 DEF Abort
  <2> QED BY <1>2, <1>4, <2>1 DEF Right, Lasting, Confined
<1>3. CASE callers # <<>>
  <2>1. Typable(e)'
    BY <1>1, <1>3, AbortTyped
  <2>2. Ground \in MarkType /\ act.counts[1] \in MarkType /\ Below(Ground, act.counts[1])
        /\ Below(act.counts[1], Mark)
    <3>1. /\ Ascending(callers, act.counts[1]) /\ OwnMarks(act) /\ Below(LastMark(act), Mark)
          /\ act \in ActivationType /\ callers \in Seq(ActivationType)
      BY <1>1, RunningMarks DEF IInv, HeapMarks, TypeOK
    <3>2. /\ act.counts[1] \in MarkType /\ LastMark(act) \in MarkType /\ Mark \in MarkType
          /\ Below(act.counts[1], LastMark(act))
      BY <1>1, <3>1, MarksTyped, MarkTyped DEF OwnMarks
    <3>3. Below(act.counts[1], Mark)
      BY <3>1, <3>2, BelowOrder
    <3>4. Ground = IF Caller.isParContract THEN LastMark(Caller) ELSE act.counts[1]
      BY <1>1, <1>3, LimitGround DEF Limit
    <3>5. LastMark(Caller) \in MarkType /\ Below(LastMark(Caller), act.counts[1])
      BY <1>1, <1>3, <3>1, CallerMarks
    <3> QED BY <3>2, <3>3, <3>4, <3>5, BelowOrder
  <2>3. Strings' = SubSeq(Strings, 1, act.counts[1].strings) /\ Objects' = SubSeq(Objects, 1, act.counts[1].objects)
    BY DEF Abort, Cut
  <2>4. /\ SubSeq(Strings', 1, Ground.strings) = SubSeq(Strings, 1, Ground.strings)
        /\ SubSeq(Objects', 1, Ground.objects) = SubSeq(Objects, 1, Ground.objects)
    BY <1>1, <2>2, <2>3, CutTwice
  <2>5. Confined
    BY <1>1, <1>3, <2>4, LimitGround DEF Confined
  <2> QED BY <1>4, <2>1, <2>5 DEF Right
<1> QED BY <1>2, <1>3

\* So does a contract that ends.
LEMMA LeaveRight ==
  ASSUME NEW e, NEW types, Typing(e, types), status = "running", NEW text \in Text, NEW gas, Leave(text, gas)
  PROVE  Right(e)
<1>1. CASE callers = <<>>
  <2>1. status' = "done" /\ Strings' = SubSeq(Strings, 1, act.counts[1].strings)
    BY <1>1 DEF Leave, Cut
  <2>2. IInv /\ EdgesRight
    BY DEF Typing, TypedState, FramesTyped
  <2>3. Spared
    BY <2>1, <2>2, BeganAbove, CutSpares
  <2> QED BY <1>1, <2>1, <2>3 DEF Right, Lasting, Confined
<1>2. CASE callers # <<>>
  <2>1. Stepped(e)
    BY <1>2, LeaveTyped
  <2> QED BY <2>1, SteppedRight
<1> QED BY <1>1, <1>2

\* Returned texts.
LEMMA ReturnRight ==
  ASSUME NEW e, NEW types, Typing(e, types), Return \/ FallOff
  PROVE  Right(e)
<1>1. TypeOK
  BY DEF Typing, TypedState, IInv
<1>2. CASE Return
  <2>1. Dispatch({RETURN}) /\ Op = RETURN /\ Leave(PrintValue(Cell(0), W(1)), act.gas + 1)
    BY <1>1, <1>2, Dispatched DEF Return
  <2>2. status = "running" /\ act \in ActivationType /\ OperandsFit
    BY <1>1, <2>1, Dispatched
  <2>3. Operands(Op) = <<PrintSort(W(1))>>
    BY <2>1, OperandsOf, Zenon
  <2>4. Cell(0) \in Int /\ Fits(Cell(0), PrintSort(W(1)))
    BY <1>1, <2>2, <2>3, Operand1
  <2>5. PrintValue(Cell(0), W(1)) \in Text
    BY <1>1, <2>4, PrintType
  <2> QED BY <2>1, <2>2, <2>5, LeaveRight
<1>3. CASE FallOff
  <2>1. status = "running" /\ Leave(<<>>, act.gas)
    BY <1>3 DEF FallOff
  <2>2. <<>> \in Text
    BY DEF Text
  <2> QED BY <2>1, <2>2, LeaveRight
<1> QED BY <1>2, <1>3

\* What an error takes from the heap of the caller it ends was made behind them too.
LEMMA UnwindSpares ==
  ASSUME IInv, EdgesRight, Unwind
  PROVE  Spared
<1>1. /\ TypeOK /\ status = "unwinding" /\ callers # <<>> /\ callers \in Seq(ActivationType)
  BY DEF IInv, TypeOK, Unwind
<1>2. PICK m : m = Caller.counts[1]
  OBVIOUS
<1>3. PICK mm : mm = IF Caller.isParContract THEN LastMark(Caller) ELSE Caller.counts[1]
  OBVIOUS
<1>4. Live = callers /\ Ascending(callers, Mark) /\ callers[1].counts[1] = Base
  <2>1. Live = callers
    BY <1>1 DEF Live
  <2> QED BY <1>1, <2>1 DEF MarksAscend, BaseKept, IInv, HeapMarks
<1>5. /\ Caller \in ActivationType /\ OwnMarks(Caller) /\ m \in MarkType
      /\ LastMark(Caller) \in MarkType /\ Ascending(Suspended, m)
      /\ Below(m, LastMark(Caller)) /\ Below(LastMark(Caller), Mark) /\ Mark \in MarkType
  BY <1>1, <1>2, <1>4, CallerMarks, MarkTyped
<1>6. mm \in MarkType /\ Below(m, mm) /\ Below(mm, Mark) /\ Below(m, Mark)
  BY <1>2, <1>3, <1>5, BelowOrder
<1>7. Strings' = SubSeq(Strings, 1, m.strings)
  <2>1. Strings' = SubSeq(SubSeq(Strings, 1, mm.strings), 1, m.strings)
    BY <1>2, <1>3 DEF Unwind
  <2> QED BY <1>1, <1>5, <1>6, <2>1, CutTwice
<1>8. PICK N : N = Len(callers)
  OBVIOUS
<1>9. N \in Nat \ {0} /\ DOMAIN callers = 1..N /\ Caller = callers[N] /\ Base \in MarkType
  BY <1>1, <1>8, BottomBelow DEF Caller
<1>10. CASE N = 1
  BY <1>2, <1>4, <1>5, <1>6, <1>7, <1>9, <1>10, BelowOrder, CutSpares
<1>11. CASE N # 1
  <2>1. N - 1 \in 1..N - 1 /\ N - 1 \in DOMAIN callers /\ N - 1 < Len(callers) /\ N - 1 + 1 = N
    BY <1>8, <1>9, <1>11
  <2>2. Edge(N - 1) \in MarkType /\ Below(Base, Edge(N - 1))
    BY <2>1 DEF EdgesRight
  <2>3. CASE callers[N - 1].isParContract
    <3>1. Suspended \in Seq(ActivationType) /\ Len(Suspended) = N - 1 /\ Suspended[N - 1] = callers[N - 1]
      <4>1. Suspended = SubSeq(callers, 1, N - 1) /\ N - 1 \in Nat /\ N - 1 <= Len(callers)
        BY <1>8, <1>9, <2>1 DEF Suspended
      <4> QED BY <1>1, <2>1, <4>1, Prefix
    <3>2. Edge(N - 1) = LastMark(Suspended[N - 1])
      BY <2>3, <3>1 DEF Edge
    <3>3. N - 1 \in DOMAIN Suspended /\ ~(N - 1 < Len(Suspended))
      BY <2>1, <3>1
    <3>4. Below(Edge(N - 1), m)
      BY <1>5, <3>2, <3>3 DEF Ascending
    <3> QED BY <1>5, <1>6, <1>7, <1>9, <2>2, <3>4, BelowOrder, CutSpares
  <2>4. CASE ~callers[N - 1].isParContract
    <3>1. Edge(N - 1) = m
      BY <1>2, <1>9, <2>1, <2>4 DEF Edge
    <3> QED BY <1>6, <1>7, <2>2, <3>1, CutSpares
  <2> QED BY <2>3, <2>4
<1> QED BY <1>10, <1>11

\* So does each of the errors.
LEMMA ErrorRight ==
  ASSUME NEW e, NEW types, Typing(e, types), Errors
  PROVE  Right(e)
<1>1. TypedState(e, types) /\ TypeOK'
  BY DEF Typing
<1>2. CASE OutOfGas
  <2>1. status = "running" /\ Abort("errGasLimit", act.gas + 1)
    BY <1>2 DEF OutOfGas
  <2> QED BY <2>1, AbortRight
<1>3. CASE Fail
  <2>1. status = "running" /\ Abort(Failure, IF Op = EMBEDFUNC THEN act.gas + 1 - LibGas(W(1)) ELSE act.gas + 1)
    BY <1>3 DEF Fail, Paid, Fetching
  <2> QED BY <2>1, AbortRight
<1>4. CASE HostError
  <2>1. status = "running" /\ \E kind, gas : Abort(kind, gas)
    BY <1>4 DEF HostError, Dispatch, Paid, Fetching
  <2>2. PICK kind, gas : Abort(kind, gas)
    BY <2>1
  <2> QED BY <2>1, <2>2, AbortRight
<1>5. CASE DecodeError
  <2>1. status = "running" /\ Abort("errJSON", act.gas + 1 - LibGas(JSONDecode))
    BY <1>5 DEF DecodeError, Dispatch, Paid, Fetching
  <2> QED BY <2>1, AbortRight
<1>6. CASE Unwind
  <2>1. status = "unwinding" /\ status' \in {"error", "unwinding"}
    BY <1>6 DEF Unwind
  <2>2. status' = "unwinding" => Typable(e)'
    BY <1>1, <1>6, UnwindTyped
  <2>3. Confined
    BY <2>1 DEF Confined
  <2>4. Spared
    <3>1. IInv /\ EdgesRight
      BY <1>1 DEF TypedState, FramesTyped
    <3> QED BY <1>6, <3>1, UnwindSpares
  <2> QED BY <2>1, <2>2, <2>3, <2>4 DEF Right, Lasting
<1>7. CASE GoPanic
  <2>1. status = "running" /\ UNCHANGED <<prog, act, callers, Strings, Objects>>
    BY <1>7 DEF GoPanic, heap
  <2>2. FramesTyped(e, types)
    BY <1>1 DEF TypedState
  <2>3. FramesTyped(e, types)'
    BY <2>1, <2>2, StillTyped
  <2>4. Typable(e)'
    BY <2>3 DEF Typable
  <2>5. Confined /\ Spared
    BY <2>1 DEF Confined, Spared
  <2> QED BY <2>4, <2>5 DEF Right
<1> QED BY <1>2, <1>3, <1>4, <1>5, <1>6, <1>7, Zenon DEF Errors

\* What an activation does by itself.
LEMMA LocalTyped ==
  ASSUME NEW e, NEW types, Typing(e, types),
         \/ Stacking \/ Numbers \/ Jumping \/ Texts \/ Structures \/ Amounts \/ Calling \/ LoadPars
  PROVE  Stepped(e)
<1>1. CASE Stacking
  BY <1>1, StackingTyped, PushStrTyped, Zenon
<1>2. CASE Numbers
  BY <1>2, ComputeTyped, NegateTyped, NotTyped, AssignIntTyped, AssignComputeTyped, Zenon DEF Numbers
<1>3. CASE Jumping
  BY <1>3, JmpTyped, JmpRelTyped, JumpIfTyped, CallFuncTyped, GetParamsTyped, RetFuncTyped, Zenon DEF Jumping
<1>4. CASE Texts
  BY <1>4, AddStrTyped, EqStrTyped, AssignStrTyped, AssignAddStrTyped, Zenon DEF Texts
<1>5. CASE Structures
  BY <1>5, InitArrTyped, InitMapTyped, InitObjTyped, InitObjListTyped, Obj2ListTyped, AppendArrTyped,
     GetIndexTyped, GetMapTyped, CheckIndexTyped, AssignSetArrTyped, AssignSetMapTyped,
     AssignSetBytesTyped, AssignAddBytesTyped, CopyTyped, Zenon DEF Structures
<1>6. CASE Amounts
  BY <1>6, ComputeMoneyTyped, SignMoneyTyped, AssignMoneyTyped, CompareMoneyTyped, Zenon DEF Amounts
<1>7. CASE Calling
  BY <1>7, EmbedValueTyped, EmbedTextTyped, EmbedListTyped, EmbedObjectTyped, EmbedGetStringTyped,
     EmbedGetMapTyped, EmbedDecodeTyped, CustomFuncTyped, Zenon DEF Calling
<1>8. CASE LoadPars
  BY <1>8, LoadParsTyped, Zenon
<1> QED BY <1>1, <1>2, <1>3, <1>4, <1>5, <1>6, <1>7, <1>8, Zenon

\* So does each step.
LEMMA NextTyped ==
  ASSUME NEW e, NEW types, Typing(e, types), [Next]_vars
  PROVE  Right(e)
<1>1. CASE \/ Stacking \/ Numbers \/ Jumping \/ Texts \/ Structures \/ Amounts \/ Calling \/ LoadPars
  <2>1. Stepped(e)
    BY <1>1, LocalTyped, Zenon
  <2>2. status = "running"
    <3>1. TypeOK
      BY DEF Typing, TypedState, IInv
    <3>2. Local
      BY <1>1, <3>1, LocalStep, Zenon
    <3> QED BY <3>2 DEF Local
  <2> QED BY <2>1, <2>2, SteppedRight
<1>2. CASE ParContract \/ CallContract
  <2>1. Stepped(e)
    BY <1>2, ParContractTyped, CallContractTyped, Zenon
  <2>2. status = "running"
    <3>1. CASE ParContract
      BY <3>1 DEF ParContract, Dispatch, Paid, Fetching
    <3>2. CASE CallContract
      BY <3>2 DEF CallContract, Dispatch, Paid, Fetching
    <3> QED BY <1>2, <3>1, <3>2
  <2> QED BY <2>1, <2>2, SteppedRight
<1>3. CASE Return \/ FallOff
  BY <1>3, ReturnRight
<1>4. CASE Errors
  BY <1>4, ErrorRight
<1>5. CASE Finished \/ UNCHANGED vars
  <2>1. UNCHANGED <<prog, act, callers, Strings, Objects, status>>
    BY <1>5 DEF Finished, vars, heap
  <2>2. FramesTyped(e, types)
    BY DEF Typing, TypedState
  <2>3. FramesTyped(e, types)'
    BY <2>1, <2>2, StillTyped
  <2> QED BY <2>1, <2>3 DEF Typable, Right, Confined, Spared
<1> QED BY <1>1, <1>2, <1>3, <1>4, <1>5, Zenon DEF Next, Contracts

-----------------------------------------------------------------------------
(***************************************************************************)
(* vm.Run begins.                                                          *)
(***************************************************************************)
LEMMA BaseHeap ==
  ASSUME NEW e, Linked(prog), HandedOver(e)
  PROVE  /\ BaseTypes \in Seq(Nat) /\ Len(BaseTypes) = Len(prog.objects)
         /\ KindsTyped(BaseTypes, prog.objects)
         /\ \A j \in 1..Len(prog.objects) : \A types, o, lo, hi : ObjectTyped(types, o, BaseTypes[j], lo, hi)
<1> DEFINE T == {VMoney, VBytes, VFile, VObject}
<1>1. prog.objects \in Seq(Object) /\ DOMAIN prog.objects = 1..Len(prog.objects) /\ Len(prog.objects) \in Nat
  BY DEF Linked, Program
<1>2. ASSUME NEW j \in DOMAIN prog.objects
      PROVE  /\ BaseTypes[j] \in T /\ prog.objects[j].kind = KindOf(BaseTypes[j])
             /\ BaseTypes[j] \in Nat /\ MainType(BaseTypes[j]) \notin {VArr, VMap}
  <2>1. KindOf(VMoney) = "money" /\ KindOf(VBytes) = "bytes" /\ KindOf(VFile) = "file" /\ KindOf(VObject) = "obj"
    BY SMT DEF KindOf, MainType, VMoney, VBytes, VFile, VObject, VArr, VMap, VObjList
  <2>2. prog.objects[j].kind \in {"money", "bytes", "file", "obj"}
    BY DEF HandedOver
  <2>3. \E t \in T : prog.objects[j].kind = KindOf(t)
    BY <2>1, <2>2
  <2>4. BaseTypes[j] = CHOOSE t \in T : prog.objects[j].kind = KindOf(t)
    BY DEF BaseTypes
  <2>5. BaseTypes[j] \in T /\ prog.objects[j].kind = KindOf(BaseTypes[j])
    BY <2>3, <2>4
  <2>6. \A t \in T : t \in Nat /\ MainType(t) \notin {VArr, VMap}
    BY DEF MainType, VMoney, VBytes, VFile, VObject, VArr, VMap
  <2> QED BY <2>5, <2>6
<1>3. BaseTypes = [j \in 1..Len(prog.objects) |-> BaseTypes[j]] /\ \A j \in 1..Len(prog.objects) : BaseTypes[j] \in Nat
  BY <1>1, <1>2 DEF BaseTypes
<1> DEFINE f == BaseTypes
           n == Len(prog.objects)
<1> HIDE DEF f, n
<1>4. f = [j \in 1..n |-> f[j]] /\ n \in Nat /\ \A j \in 1..n : f[j] \in Nat
  BY <1>1, <1>3 DEF f, n
<1>5. f \in Seq(Nat) /\ Len(f) = n
  BY <1>4
<1> QED BY <1>1, <1>2, <1>5 DEF KindsTyped, ObjectTyped, f, n

\* At the start the objects the host made, and those of the first contract's variables,
\* have types.
LEMMA InitTyped ==
  ASSUME NEW e, Init, CompiledFor(e)
  PROVE  \E types : FramesTyped(e, types)
<1> DEFINE c == prog.contracts[prog.main]
           l == Levels(prog, c)
           k == Sorts(prog, e, c)
           bs == BaseTypes
           xs == prog.objects
<1>1. Linked(prog) /\ TypeOK
  BY ProgramsAssumption, InitInv DEF Init, IInv
<1>2. /\ Strings = prog.strings \o NewStrings(c) /\ Objects = xs \o NewObjects(c)
      /\ act = Activation(prog.main, prog.params, prog.gas, Base)
      /\ callers = <<>> /\ status = "running"
  BY DEF Init, Begin
<1>3. /\ prog.main \in DOMAIN prog.contracts /\ c \in Contract
      /\ prog.strings \in Seq(Text) /\ xs \in Seq(Object)
  BY <1>1 DEF Linked, Program, Text
<1>4. /\ Base \in MarkType /\ Origin \in MarkType /\ Bottom \in MarkType /\ Below(Bottom, Base)
      /\ Base.objects = Len(xs) /\ Base.strings = Len(prog.strings)
  <2>1. Bottom.strings \in 1..Base.strings
    BY DEF CompiledFor, HandedOver
  <2>2. /\ Base \in MarkType /\ Origin \in MarkType
        /\ Base.objects = Len(xs) /\ Base.strings = Len(prog.strings)
    BY <1>3 DEF Base, Origin, MarkType
  <2>3. Bottom.objects = 0 /\ Bottom = [strings |-> Bottom.strings, objects |-> Bottom.objects]
    BY DEF Bottom
  <2> QED BY <2>1, <2>2, <2>3 DEF MarkType, Below
<1>5. HandedOver(e) /\ ContractsTyped(e) /\ CodeVerified
  BY DEF CompiledFor
<1>6. /\ bs \in Seq(Nat) /\ Len(bs) = Len(xs) /\ KindsTyped(bs, xs)
      /\ \A j \in 1..Len(xs) : \A types, o, lo, hi : ObjectTyped(types, o, bs[j], lo, hi)
  BY <1>1, <1>5, BaseHeap
<1>7. /\ act.cnt = prog.main /\ act.i = CodeStart(c) /\ act.calls = <<>> /\ act.top = 0
      /\ act.Vars = NewVars(c, Base) /\ act.params = prog.params /\ act.pars = <<>>
      /\ act.counts = <<Base>> /\ act.isParContract = FALSE
  BY <1>2 DEF Activation
<1>8. Checked(prog, e, c, l, k)
  <2>1. Packed(c)
    BY <1>1, <1>3 DEF Linked, Program
  <2>2. Verified(c) /\ Balanced(prog, c, l)
    BY <1>3, <1>5 DEF CodeVerified
  <2>3. WellTyped(prog, e, c, l, k)
    BY <1>3, <1>5 DEF ContractsTyped
  <2> QED BY <1>3, <2>1, <2>2, <2>3 DEF Checked
<1>9. PICK types : types = bs \o NewTypes(c)
  OBVIOUS
<1>10. PICK hi : hi = NewMark(c, Base)
  OBVIOUS
<1> HIDE DEF l, k, bs
<1>11. /\ types \in Seq(Nat) /\ Len(types) = Len(Objects) /\ Len(Objects) = hi.objects
       /\ KindsTyped(types, Objects)
       /\ \A j \in 1..Base.objects : types[j] = bs[j]
       /\ HeapTyped(types, Objects, Bottom, hi)
  <2> DEFINE d == c
             at == Base
             os == xs
             TT == bs \o NewTypes(d)
             OO == os \o NewObjects(d)
  <2>1. d \in Contract /\ at \in MarkType /\ at.objects = Len(os) /\ os \in Seq(Object) /\ bs \in Seq(Nat)
        /\ KindsTyped(bs, os) /\ Len(bs) = Len(os)
    BY <1>3, <1>4, <1>6
  <2> HIDE DEF d, at, os
  <2>2. /\ TT \in Seq(Nat) /\ OO \in Seq(Object) /\ Len(TT) = Len(OO)
        /\ Len(OO) = NewMark(d, at).objects
        /\ KindsTyped(TT, OO)
        /\ \A j \in 1..at.objects : TT[j] = bs[j] /\ OO[j] = os[j]
        /\ \A j \in at.objects + 1..NewMark(d, at).objects :
             \A ts, lo, hi1 : ObjectTyped(ts, OO[j], TT[j], lo, hi1)
    BY <2>1, HeapBegun, Zenon
  <2>3. TT = types /\ OO = Objects /\ NewMark(d, at) = hi /\ at = Base
    BY <1>2, <1>9, <1>10 DEF d, at, os
  <2> HIDE DEF TT, OO
  <2>4. \A j \in Bottom.objects + 1..hi.objects : ObjectTyped(types, Objects[j], types[j], Bottom, hi)
    <3> SUFFICES ASSUME NEW j \in Bottom.objects + 1..hi.objects
                 PROVE  ObjectTyped(types, Objects[j], types[j], Bottom, hi)
      OBVIOUS
    <3>1. Bottom.objects = 0 /\ Base.objects \in Nat /\ hi.objects \in Nat
      BY <1>4, <2>2, <2>3 DEF Bottom, MarkType
    <3>2. CASE j \in 1..Base.objects
      <4>1. types[j] = bs[j] /\ j \in 1..Len(xs)
        BY <1>4, <2>2, <2>3, <3>2
      <4> QED BY <1>6, <4>1
    <3>3. CASE j \notin 1..Base.objects
      <4>1. j \in Base.objects + 1..hi.objects
        BY <3>1, <3>3
      <4> QED BY <2>2, <2>3, <4>1
    <3> QED BY <3>2, <3>3
  <2> QED BY <2>2, <2>3, <2>4 DEF HeapTyped
<1>12. hi \in MarkType /\ Below(Base, hi) /\ VarsTyped(c, types, act.Vars, Bottom, hi)
  <2> DEFINE d == c
             at == Base
             lo == Bottom
  <2>1. d \in Contract /\ at \in MarkType /\ Len(bs) = at.objects /\ types = bs \o NewTypes(d)
        /\ Below(lo, at) /\ lo \in MarkType
    BY <1>3, <1>4, <1>6, <1>9
  <2> HIDE DEF d, at, lo
  <2>2. NewMark(d, at) \in MarkType /\ Below(at, NewMark(d, at))
        /\ VarsTyped(d, types, NewVars(d, at), lo, NewMark(d, at))
    BY <1>6, <2>1, NewVarsTyped
  <2> QED BY <1>7, <1>10, <2>2 DEF d, at, lo
<1>13. Mark = hi
  <2> DEFINE ts == NewStrings(c)
             n == Cardinality(Slots(c, InStrings))
  <2>1. ts \in Seq(Text) /\ Len(ts) = n
    BY <1>3, NewStringsType, NewTypesType
  <2>2. Len(Strings) = Len(prog.strings) + n
    <3> DEFINE T == Text
               ps == prog.strings
    <3>1. ts \in Seq(T) /\ ps \in Seq(T) /\ Strings = ps \o ts
      BY <1>2, <1>3, <2>1
    <3> HIDE DEF T, ts, ps
    <3>2. Len(ps \o ts) = Len(ps) + Len(ts)
      BY <3>1
    <3> QED BY <2>1, <3>1, <3>2 DEF ps
  <2>3. hi = [strings |-> Len(prog.strings) + n, objects |-> hi.objects]
    BY <1>4, <1>10 DEF NewMark
  <2> HIDE DEF n
  <2> QED BY <1>11, <2>2, <2>3 DEF Mark
<1>14. Ground = Bottom /\ Middle = hi
  BY <1>2, <1>7, <1>13 DEF Ground, Lower, Middle
<1>15. EdgesRight
  BY <1>2, <1>4, <1>12, <1>13 DEF EdgesRight
<1>16. \A j \in 1..Base.objects : types[j] = bs[j]
  BY <1>11
<1>17. \A j \in DOMAIN prog.env : Denotes(types, prog.env[j], e[j], Origin, Base)
  <2> SUFFICES ASSUME NEW j \in DOMAIN prog.env PROVE Denotes(types, prog.env[j], e[j], Origin, Base)
    OBVIOUS
  <2>1. Denotes(bs, prog.env[j], e[j], Origin, Base)
    <3>1. \A i \in DOMAIN prog.env : Denotes(BaseTypes, prog.env[i], e[i], Origin, Base)
      BY <1>5, Zenon DEF HandedOver
    <3> QED BY <3>1 DEF bs
  <2>2. Below(Base, Base) /\ Below(Origin, Origin)
    BY <1>4, BelowOrder
  <2> QED BY <1>4, <1>16, <2>1, <2>2, DenotesCarried
<1>18. ParamsTyped(c, types, act.params, Bottom, hi)
  <2>1. ParamsTyped(c, bs, prog.params, Bottom, Base)
    BY <1>5 DEF HandedOver, bs
  <2>2. Below(Bottom, Bottom)
    BY <1>4, BelowOrder
  <2> DEFINE d == c
             ps == prog.params
  <2>3. ParamsTyped(d, bs, ps, Bottom, Base)
    BY <2>1
  <2> HIDE DEF d, ps
  <2>4. ParamsTyped(d, types, ps, Bottom, hi)
    <3> SUFFICES ASSUME NEW j \in 1..Len(ps) \div 2
                 PROVE  /\ ps[2 * j - 1] \in 0..Variables(d) - 1
                        /\ Denotes(types, ps[2 * j], VarType(d, ps[2 * j - 1] + 1), Bottom, hi)
      BY DEF ParamsTyped
    <3> DEFINE v == ps[2 * j]
               t == VarType(d, ps[2 * j - 1] + 1)
    <3>1. ps[2 * j - 1] \in 0..Variables(d) - 1 /\ Denotes(bs, v, t, Bottom, Base)
      BY <2>3 DEF ParamsTyped
    <3> HIDE DEF v, t
    <3>2. Denotes(types, v, t, Bottom, hi)
      BY <1>4, <1>12, <1>16, <2>2, <3>1, DenotesCarried
    <3> QED BY <3>1, <3>2 DEF v, t
  <2> QED BY <1>7, <2>4 DEF d, ps
<1>19. RunTyped(Sorts(prog, e, cnt), types)
  <2>1. cnt = c /\ Here = l /\ Sorts(prog, e, cnt) = k
    BY <1>7 DEF cnt, Here, l, k
  <2> DEFINE d == c
             os == Objects
             a == act
  <2>2. /\ a.calls = <<>> /\ a.pars = <<>> /\ a.isParContract = FALSE /\ a.top = 0 /\ a.i = CodeStart(d)
        /\ Checked(prog, e, d, l, k)
    BY <1>7, <1>8
  <2> HIDE DEF d, os, a
  <2>3. /\ CallsTyped(d, l, k, types, os, a, Bottom, hi)
        /\ StackTyped(d, l, k, types, os, a, a.i, a.top, Bottom, hi, hi)
        /\ a.i \in Starts(d) => ParsTyped(types, a, k.pars[a.i], hi, hi)
    BY <2>2, RunBegun
  <2>4. HeapTyped(types, os, hi, hi)
    <3>1. hi.objects \in Nat
      BY <1>12 DEF MarkType
    <3>2. hi.objects + 1..hi.objects = {}
      BY <3>1
    <3> QED BY <3>2 DEF HeapTyped
  <2> QED BY <1>11, <1>12, <1>13, <1>14, <1>18, <2>1, <2>3, <2>4 DEF RunTyped, LocalsTyped, d, os, a
<1>20. \A n \in DOMAIN callers : WaitingTyped(e, types, Objects, n)
  BY <1>2
<1>21. FramesTyped(e, types)
  BY <1>11, <1>15, <1>17, <1>19, <1>20, Zenon DEF FramesTyped
<1> QED BY <1>21

-----------------------------------------------------------------------------
(***************************************************************************)
(* The invariant.                                                          *)
(***************************************************************************)
\* What the code was compiled for does not change.
LEMMA CompiledKept ==
  ASSUME NEW e, prog' = prog
  PROVE  CompiledFor(e)' <=> CompiledFor(e)
<1>1. CodeVerified' <=> CodeVerified
  BY DEF CodeVerified
<1>2. ContractsTyped(e)' <=> ContractsTyped(e)
  BY DEF ContractsTyped
<1>3. Base' = Base
  BY DEF Base
<1>4. BaseTypes' = BaseTypes /\ Bottom' = Bottom
  BY BottomKept DEF BaseTypes
<1>5. HandedOver(e)' <=> HandedOver(e)
  BY <1>3, <1>4 DEF HandedOver
<1> QED BY <1>1, <1>2, <1>5 DEF CompiledFor

\* A run that has ended does not go on.
LEMMA LastingBefore ==
  ASSUME TypeOK, [Next]_vars, status' \in Lasting
  PROVE  status \in Lasting
<1>1. CASE \/ Stacking \/ Numbers \/ Jumping \/ Texts \/ Structures \/ Amounts \/ Calling \/ LoadPars
  <2>1. Local
    BY <1>1, LocalStep, Zenon
  <2> QED BY <2>1 DEF Local, Lasting
<1>2. CASE ParContract \/ CallContract \/ Return \/ FallOff
  BY <1>2 DEF ParContract, CallContract, Return, FallOff, Dispatch, Paid, Fetching, Lasting
<1>3. CASE Errors
  BY <1>3 DEF Errors, OutOfGas, Fail, HostError, DecodeError, Unwind, GoPanic, Dispatch, Paid, Fetching, Lasting
<1>4. CASE Finished \/ UNCHANGED vars
  BY <1>4 DEF Finished, vars
<1> QED BY <1>1, <1>2, <1>3, <1>4, Zenon DEF Next, Contracts

\* Nor does its heap change.
LEMMA EndedStays ==
  ASSUME TypeOK, [Next]_vars, status \notin Lasting
  PROVE  UNCHANGED Strings
<1>1. CASE \/ Stacking \/ Numbers \/ Jumping \/ Texts \/ Structures \/ Amounts \/ Calling \/ LoadPars
  <2>1. Local
    BY <1>1, LocalStep, Zenon
  <2> QED BY <2>1 DEF Local, Lasting
<1>2. CASE ParContract \/ CallContract \/ Return \/ FallOff
  BY <1>2 DEF ParContract, CallContract, Return, FallOff, Dispatch, Paid, Fetching, Lasting
<1>3. CASE Errors
  BY <1>3 DEF Errors, OutOfGas, Fail, HostError, DecodeError, Unwind, GoPanic, Dispatch, Paid, Fetching, Lasting
<1>4. CASE Finished \/ UNCHANGED vars
  BY <1>4 DEF Finished, vars, heap
<1> QED BY <1>1, <1>2, <1>3, <1>4, Zenon DEF Next, Contracts

\* What the invariant says of the present state.
LEMMA TypedNow ==
  ASSUME TypeIInv, NEW e, CompiledFor(e), status \in Lasting
  PROVE  \E types : TypedState(e, types)
<1>1. PICK types : FramesTyped(e, types)
  BY DEF TypeIInv, Lasting
<1>2. IInv /\ CodeInv
  BY DEF TypeIInv, CodeIInv, CompiledFor
<1> QED BY <1>1, <1>2 DEF TypedState

\* What the invariant says of the next step.
LEMMA TypingNow ==
  ASSUME TypeIInv, [Next]_vars, NEW e, CompiledFor(e), status \in Lasting
  PROVE  Right(e)
<1>1. PICK types : TypedState(e, types)
  BY TypedNow
<1>2. CodeIInv'
  BY CodeNext DEF TypeIInv
<1>3. TypeOK /\ prog' = prog
  BY SameContracts DEF TypeIInv, CodeIInv, IInv
<1>4. CompiledFor(e)'
  BY <1>3, CompiledKept
<1>5. TypeOK' /\ CodeInv'
  BY <1>2, <1>4 DEF CodeIInv, IInv, CompiledFor
<1>6. Typing(e, types)
  BY <1>1, <1>5 DEF Typing
<1> QED BY <1>6, NextTyped

\* The invariant is inductive.
LEMMA TypeNext ==
  ASSUME TypeIInv, [Next]_vars
  PROVE  TypeIInv'
<1>1. CodeIInv'
  BY CodeNext DEF TypeIInv
<1>2. TypeOK /\ prog' = prog
  BY SameContracts DEF TypeIInv, CodeIInv, IInv
<1>3. ASSUME NEW e, CompiledFor(e)', status' \in Lasting
      PROVE  Typable(e)'
  <2>1. CompiledFor(e)
    BY <1>2, <1>3, CompiledKept
  <2>2. status \in Lasting
    BY <1>2, <1>3, LastingBefore
  <2>3. Right(e)
    BY <2>1, <2>2, TypingNow
  <2> QED BY <1>3, <2>3 DEF Right
<1> QED BY <1>1, <1>3 DEF TypeIInv, Typable, Lasting

\* In every run there are types for all that was made, as the compiler had them in mind.
THEOREM TypesAlways == Spec => []TypeIInv
<1>1. Init => TypeIInv
  <2> SUFFICES ASSUME Init PROVE TypeIInv
    OBVIOUS
  <2>1. CodeIInv
    BY InitInv, InitAligned DEF CodeIInv
  <2> QED BY <2>1, InitTyped DEF TypeIInv
<1>2. TypeIInv /\ [Next]_vars => TypeIInv'
  BY TypeNext
<1> QED BY <1>1, <1>2, PTL DEF Spec

-----------------------------------------------------------------------------
(***************************************************************************)
(* What that gives.                                                        *)
(***************************************************************************)
\* An object of the heap is what its type says.
LEMMA HandleHeld ==
  ASSUME Objects \in Seq(Object), NEW types, KindsTyped(types, Objects),
         NEW v, NEW t, NEW lo \in MarkType, NEW hi \in MarkType, hi.objects <= Len(Objects),
         Denotes(types, v, t, Anchor(lo), hi), MainType(t) \in Handles
  PROVE  /\ v + 1 \in 1..hi.objects /\ types[v + 1] = t /\ Obj(v) = Objects[v + 1] /\ Obj(v) \in Object
         /\ IsKind(v, KindOf(t))
         /\ MainType(t) \in Owned => v + 1 \in lo.objects + 1..hi.objects
<1>1. /\ v \in 0..hi.objects - 1 /\ types[v + 1] = t
      /\ MainType(t) \in Owned => v >= lo.objects
  BY DenotesOf DEF Anchor
<1>2. hi.objects \in Nat /\ lo.objects \in Nat /\ Len(Objects) \in Nat
  BY DEF MarkType
<1>3. v + 1 \in 1..hi.objects /\ v + 1 \in 1..Len(Objects) /\ v \in 0..Len(Objects) - 1
  BY <1>1, <1>2
<1>4. MainType(t) \in Owned => v + 1 \in lo.objects + 1..hi.objects
  BY <1>1, <1>2
<1>5. Obj(v) = Objects[v + 1] /\ Obj(v) \in Object /\ Obj(v).kind = KindOf(t)
  BY <1>1, <1>3 DEF Obj, KindsTyped
<1> QED BY <1>1, <1>3, <1>4, <1>5 DEF IsKind, IsObject

\* A value is what it is taken for, down to the items of the items.
HeapHere(types, lo, hi) ==
  /\ Strings \in Seq(Text) /\ Objects \in Seq(Object) /\ KindsTyped(types, Objects)
  /\ lo \in MarkType /\ hi \in MarkType /\ Below(hi, Mark) /\ HeapTyped(types, Objects, lo, hi)

\* The marks lie inside the heap.
LEMMA HeapSizes ==
  ASSUME NEW types, NEW lo, NEW hi, HeapHere(types, lo, hi)
  PROVE  /\ Len(Strings) \in Nat /\ Len(Objects) \in Nat
         /\ hi.strings \in Nat /\ hi.objects \in Nat
         /\ hi.strings <= Len(Strings) /\ hi.objects <= Len(Objects)
BY DEF HeapHere, Below, Mark, MarkType

\* A value that denotes one of a type holds one, as far as the value itself goes.
LEMMA ScalarHeld ==
  ASSUME NEW types, NEW lo, NEW hi, HeapHere(types, lo, hi), NEW v, NEW t,
         Denotes(types, v, t, Anchor(lo), hi)
  PROVE  HoldsScalar(v, t)
<1>1. /\ Objects \in Seq(Object) /\ KindsTyped(types, Objects) /\ lo \in MarkType /\ hi \in MarkType
  BY DEF HeapHere
<1>2. hi.objects <= Len(Objects)
  BY HeapSizes
<1>3. MainType(t) = VStr => IsString(v)
  <2>1. MainType(t) = VStr => v \in 0..hi.strings - 1
    BY DenotesOf DEF Anchor
  <2> QED BY <2>1, HeapSizes DEF IsString
<1>4. MainType(t) = VBool => v \in {0, 1}
  BY DenotesOf
<1>5. MainType(t) \in Handles => IsKind(v, KindOf(t))
  BY <1>1, <1>2, HandleHeld
<1>6. /\ MainType(t) = VMoney => IsKind(v, "money")
      /\ MainType(t) = VBytes => IsKind(v, "bytes")
      /\ MainType(t) = VObject => IsKind(v, "obj")
  BY <1>5, KindsOf, TypesApart, Zenon
<1> QED BY <1>3, <1>4, <1>6 DEF HoldsScalar

\* The items of an array or a map.
LEMMA ItemsHeld ==
  ASSUME NEW types, NEW lo, NEW hi, HeapHere(types, lo, hi), NEW v, NEW t,
         Denotes(types, v, t, Anchor(lo), hi), MainType(t) \in {VArr, VMap}
  PROVE  /\ MainType(t) = VArr => IsKind(v, "arr")
         /\ MainType(t) = VMap => IsKind(v, "map")
         /\ \A k \in DOMAIN Obj(v).items : Denotes(types, Obj(v).items[k], SubType(t), Anchor(lo), hi)
<1>1. /\ Objects \in Seq(Object) /\ KindsTyped(types, Objects) /\ lo \in MarkType /\ hi \in MarkType
      /\ HeapTyped(types, Objects, lo, hi)
  BY DEF HeapHere
<1>2. hi.objects <= Len(Objects)
  BY HeapSizes
<1>3. MainType(t) \in Handles /\ MainType(t) \in Owned
  BY TypesApart DEF Owned
<1>4. /\ types[v + 1] = t /\ Obj(v) = Objects[v + 1] /\ IsKind(v, KindOf(t))
      /\ v + 1 \in lo.objects + 1..hi.objects
  BY <1>1, <1>2, <1>3, HandleHeld
<1>5. ObjectTyped(types, Obj(v), t, lo, hi)
  BY <1>1, <1>4 DEF HeapTyped
<1>6. \A k \in DOMAIN Obj(v).items : Denotes(types, Obj(v).items[k], SubType(t), Anchor(lo), hi)
  BY <1>5 DEF ObjectTyped
<1>7. /\ MainType(t) = VArr => IsKind(v, "arr")
      /\ MainType(t) = VMap => IsKind(v, "map")
  BY <1>4, KindsOf, Zenon
<1> QED BY <1>6, <1>7

\* It does, down to its items.
LEMMA ListHeld ==
  ASSUME NEW types, NEW lo, NEW hi, HeapHere(types, lo, hi), NEW v, NEW t,
         Denotes(types, v, t, Anchor(lo), hi)
  PROVE  HoldsList(v, t)
<1>1. HoldsScalar(v, t)
  BY ScalarHeld
<1>2. CASE MainType(t) \in {VArr, VMap}
  <2>1. /\ MainType(t) = VArr => IsKind(v, "arr")
        /\ MainType(t) = VMap => IsKind(v, "map")
        /\ \A k \in DOMAIN Obj(v).items : Denotes(types, Obj(v).items[k], SubType(t), Anchor(lo), hi)
    BY <1>2, ItemsHeld
  <2>2. \A k \in DOMAIN Obj(v).items : HoldsScalar(Obj(v).items[k], SubType(t))
    BY <2>1, ScalarHeld
  <2> QED BY <1>2, <2>1, <2>2 DEF HoldsList
<1>3. CASE MainType(t) \notin {VArr, VMap}
  BY <1>1, <1>3 DEF HoldsList
<1> QED BY <1>2, <1>3

\* It does, down to the items of its items.
LEMMA ValueHeld ==
  ASSUME NEW types, NEW lo, NEW hi, HeapHere(types, lo, hi), NEW v, NEW t,
         Denotes(types, v, t, lo, hi)
  PROVE  Holds(v, t)
<1>1. Denotes(types, v, t, Anchor(lo), hi)
  BY DenotesAnchor DEF HeapHere
<1>2. HoldsScalar(v, t)
  BY <1>1, ScalarHeld
<1>3. CASE MainType(t) \in {VArr, VMap}
  <2>1. /\ MainType(t) = VArr => IsKind(v, "arr")
        /\ MainType(t) = VMap => IsKind(v, "map")
        /\ \A k \in DOMAIN Obj(v).items : Denotes(types, Obj(v).items[k], SubType(t), Anchor(lo), hi)
    BY <1>1, <1>3, ItemsHeld
  <2>2. \A k \in DOMAIN Obj(v).items : HoldsList(Obj(v).items[k], SubType(t))
    BY <2>1, ListHeld
  <2> QED BY <1>3, <2>1, <2>2 DEF Holds
<1>4. CASE MainType(t) \notin {VArr, VMap}
  BY <1>2, <1>4 DEF Holds
<1> QED BY <1>3, <1>4

\* The variables of one activation.
VarsHold(a) ==
  LET c == prog.contracts[a.cnt]
  IN \A m \in DOMAIN a.Vars : Holds(a.Vars[m], c.vars[Nth(Slots(c, InVars), m)])

\* The variables of an activation hold values of their types.
LEMMA VarsHeld ==
  ASSUME NEW types, NEW lo, NEW hi, HeapHere(types, lo, hi), NEW a \in ActivationType,
         VarsTyped(prog.contracts[a.cnt], types, a.Vars, lo, hi)
  PROVE  VarsHold(a)
<1> DEFINE c == prog.contracts[a.cnt]
<1> SUFFICES ASSUME NEW m \in DOMAIN a.Vars
             PROVE  Holds(a.Vars[m], c.vars[Nth(Slots(c, InVars), m)])
  BY DEF VarsHold
<1>1. m \in 1..Len(a.Vars)
  BY DEF ActivationType
<1>2. Denotes(types, a.Vars[m], VarType(c, m), lo, hi)
  BY <1>1 DEF VarsTyped
<1>3. Holds(a.Vars[m], VarType(c, m))
  BY <1>2, ValueHeld
<1> QED BY <1>3 DEF VarType

\* No activation waits once the run has ended.
Ended == status \in {"done", "error"} => callers = <<>>

\* Nothing waits once the run has ended.
LEMMA EndedNext ==
  ASSUME TypeOK, Ended, [Next]_vars
  PROVE  Ended'
<1>1. CASE \/ Stacking \/ Numbers \/ Jumping \/ Texts \/ Structures \/ Amounts \/ Calling \/ LoadPars
  <2>1. Local
    BY <1>1, LocalStep, Zenon
  <2> QED BY <2>1 DEF Local, Ended
<1>2. CASE ParContract \/ CallContract
  BY <1>2 DEF ParContract, CallContract, Dispatch, Paid, Fetching, Ended, Proceed
<1>3. CASE Return \/ FallOff
  <2>1. status = "running" /\ \E text, gas : Leave(text, gas)
    BY <1>3 DEF Return, FallOff, Dispatch, Paid, Fetching
  <2> QED BY <2>1 DEF Leave, Ended
<1>4. CASE Errors
  BY <1>4 DEF Errors, OutOfGas, Fail, HostError, DecodeError, Abort, Unwind, GoPanic, Dispatch, Paid, Fetching, Ended
<1>5. CASE Finished \/ UNCHANGED vars
  BY <1>5 DEF Finished, vars, Ended
<1> QED BY <1>1, <1>2, <1>3, <1>4, <1>5, Zenon DEF Next, Contracts

\* The invariant gives VarsWellTyped.
LEMMA AllHeld ==
  ASSUME TypeIInv, Ended, CodeTyped
  PROVE  VarsWellTyped
<1>1. PICK e : CompiledFor(e)
  BY DEF CodeTyped, CompiledFor
<1>2. TypeOK /\ IInv
  BY DEF TypeIInv, CodeIInv, IInv
<1>3. CASE status \in Lasting
  <2>1. PICK types : TypedState(e, types)
    BY <1>1, <1>3, TypedNow
  <2>2. FramesTyped(e, types)
    BY <2>1 DEF TypedState
  <2>3. Strings \in Seq(Text) /\ Objects \in Seq(Object) /\ KindsTyped(types, Objects)
    BY <1>2, <2>2 DEF TypeOK, FramesTyped
  <2>4. ASSUME NEW n \in DOMAIN callers PROVE VarsHold(callers[n])
    <3>1. callers[n] \in ActivationType
      BY <1>2 DEF TypeOK
    <3>2. WaitingTyped(e, types, Objects, n)
      BY <2>2 DEF FramesTyped
    <3>3. /\ VarsTyped(prog.contracts[callers[n].cnt], types, callers[n].Vars, Lower(n), Edge(n))
          /\ HeapTyped(types, Objects, Lower(n), Edge(n))
      BY <3>2 DEF WaitingTyped, WaitTyped, LocalsTyped
    <3>4. Edge(n) \in MarkType /\ Below(Edge(n), Mark)
      BY <2>2 DEF FramesTyped, EdgesRight
    <3>5. Lower(n) \in MarkType
      <4>1. CASE n = 1
        BY <2>2, <4>1 DEF Lower, FramesTyped, EdgesRight
      <4>2. CASE n # 1
        <5>1. n - 1 \in DOMAIN callers
          BY <1>2, <4>2 DEF TypeOK
        <5>2. Edge(n - 1) \in MarkType
          BY <2>2, <5>1 DEF FramesTyped, EdgesRight
        <5> QED BY <4>2, <5>2 DEF Lower
      <4> QED BY <4>1, <4>2
    <3>6. HeapHere(types, Lower(n), Edge(n))
      BY <2>3, <3>3, <3>4, <3>5 DEF HeapHere
    <3> QED BY <3>1, <3>3, <3>6, VarsHeld
  <2>5. ASSUME status \in {"running", "panic"} PROVE VarsHold(act)
    <3>1. act \in ActivationType
      BY <1>2 DEF TypeOK
    <3>2. /\ Ground \in MarkType /\ Middle \in MarkType /\ Below(Middle, Mark)
      BY <1>2, <2>2, <2>5, RunningBounds DEF FramesTyped
    <3>3. RunTyped(HereSorts(e), types)
      BY <2>2, <2>5 DEF FramesTyped, HereSorts
    <3>4. VarsTyped(prog.contracts[act.cnt], types, act.Vars, Ground, Middle)
          /\ HeapTyped(types, Objects, Ground, Middle)
      BY <3>3 DEF RunTyped, LocalsTyped, cnt
    <3>5. HeapHere(types, Ground, Middle)
      BY <2>3, <3>2, <3>4 DEF HeapHere
    <3> QED BY <3>1, <3>4, <3>5, VarsHeld
  <2>6. ASSUME NEW k \in DOMAIN Live PROVE VarsHold(Live[k])
    <3>1. callers \in Seq(ActivationType)
      BY <1>2 DEF TypeOK
    <3>2. CASE status \in {"running", "panic"}
      <4>1. Live = Append(callers, act)
        BY <3>2 DEF Live
      <4>2. (k \in DOMAIN callers /\ Live[k] = callers[k]) \/ Live[k] = act
        BY <2>6, <3>1, <4>1
      <4> QED BY <2>4, <2>5, <3>2, <4>2
    <3>3. CASE status \notin {"running", "panic"}
      BY <2>4, <2>6, <3>3 DEF Live
    <3> QED BY <3>2, <3>3
  <2> QED BY <2>6 DEF VarsWellTyped, VarsHold
<1>4. CASE status \notin Lasting
  <2>1. status \in {"done", "error"}
    BY <1>2, <1>4 DEF TypeOK, Final, Lasting
  <2>2. Live = <<>>
    BY <2>1 DEF Ended, Live
  <2> QED BY <2>2 DEF VarsWellTyped
<1> QED BY <1>3, <1>4

\* What the code was typed for stays as it is.
LEMMA TypedKept ==
  ASSUME TypeOK, [Next]_vars, CodeTyped
  PROVE  CodeTyped'
<1>1. prog' = prog
  BY SameContracts
<1>2. PICK e : e \in [DOMAIN prog.env -> EnvTypes] /\ CompiledFor(e)
  BY DEF CodeTyped, CompiledFor
<1>3. CompiledFor(e)'
  BY <1>1, <1>2, CompiledKept
<1> QED BY <1>3 DEF CompiledFor, CodeTyped

\* Every variable of every activation holds a value of its declared type.
THEOREM VariablesTyped == Spec /\ CodeTyped => []VarsWellTyped
<1> DEFINE Inv == TypeIInv /\ Ended /\ CodeTyped
<1>1. Init => Ended
  BY DEF Init, Begin, Ended
<1>2. TypeIInv /\ Ended /\ CodeTyped /\ [Next]_vars => (Ended /\ CodeTyped)'
  <2> SUFFICES ASSUME TypeIInv, Ended, CodeTyped, [Next]_vars PROVE Ended' /\ CodeTyped'
    OBVIOUS
  <2>1. TypeOK
    BY DEF TypeIInv, CodeIInv, IInv
  <2> QED BY <2>1, EndedNext, TypedKept
<1>3. TypeIInv /\ Ended /\ CodeTyped => VarsWellTyped
  BY AllHeld
<1> QED BY <1>1, <1>2, <1>3, TypesAlways, PTL DEF Spec

\* A contract that is called leaves alone what belongs to its callers.
THEOREM CallersUntouched == Spec /\ CodeTyped => CallerIsolated
<1>1. TypeIInv /\ CodeTyped /\ [Next]_vars => CodeTyped'
  BY TypedKept DEF TypeIInv, CodeIInv, IInv
<1>2. TypeIInv /\ CodeTyped /\ [Next]_vars => Confined
  <2> SUFFICES ASSUME TypeIInv, CodeTyped, [Next]_vars, status = "running" PROVE Confined
    BY DEF Confined
  <2>1. PICK e : CompiledFor(e)
    BY DEF CodeTyped, CompiledFor
  <2>2. Right(e)
    BY <2>1, TypingNow DEF Lasting
  <2> QED BY <2>2 DEF Right
<1>3. Confined => [(callers # <<>> /\ status = "running") =>
       LET m == Limit IN
       /\ SubSeq(Strings', 1, m.strings) = SubSeq(Strings, 1, m.strings)
       /\ SubSeq(Objects', 1, m.objects) = SubSeq(Objects, 1, m.objects)]_<<Strings, Objects, callers>>
  BY DEF Confined
<1> QED BY <1>1, <1>2, <1>3, TypesAlways, PTL DEF Spec, CallerIsolated

\* The heap begins with the texts of the environment.
LEMMA EnvironmentFirst ==
  ASSUME Init, CodeTyped
  PROVE  EnvironmentKept
<1>1. PICK e : HandedOver(e)
  BY DEF CodeTyped
<1>2. TypeOK /\ Linked(prog)
  BY ProgramsAssumption, InitInv DEF Init, IInv
<1> DEFINE T == Text
           n == Bottom.strings
           ps == prog.strings
<1>3. ps \in Seq(T) /\ Strings \in Seq(T)
  BY <1>2 DEF TypeOK, Linked, Program
<1>4. Strings = ps \o NewStrings(prog.contracts[prog.main])
  BY DEF Init, Begin
<1>5. NewStrings(prog.contracts[prog.main]) \in Seq(T)
  <2>1. prog.contracts[prog.main] \in Contract
    BY <1>2 DEF Linked, Program
  <2> QED BY <2>1, NewStringsType
<1>6. n \in 1..Len(ps)
  BY <1>1 DEF HandedOver, Base
<1> DEFINE ns == NewStrings(prog.contracts[prog.main])
<1> HIDE DEF T, n, ps, ns
<1>7. /\ n \in Nat /\ n <= Len(ps) /\ n <= Len(Strings)
      /\ \A j \in 1..n : Strings[j] = ps[j]
  BY <1>3, <1>4, <1>5, <1>6 DEF ns
<1>8. SubSeq(Strings, 1, n) = SubSeq(ps, 1, n)
  BY <1>3, <1>7, SamePrefix
<1> QED BY <1>8 DEF EnvironmentKept, n, ps

\* No statement of any contract changes a text of the environment.
THEOREM EnvironmentStays == Spec /\ CodeTyped => []EnvironmentKept
<1>1. TypeIInv /\ CodeTyped /\ [Next]_vars => CodeTyped'
  BY TypedKept DEF TypeIInv, CodeIInv, IInv
<1>2. Init /\ CodeTyped => EnvironmentKept
  BY EnvironmentFirst
<1>3. TypeIInv /\ CodeTyped /\ EnvironmentKept /\ [Next]_vars => EnvironmentKept'
  <2> SUFFICES ASSUME TypeIInv, CodeTyped, EnvironmentKept, [Next]_vars PROVE EnvironmentKept'
    OBVIOUS
  <2>1. prog' = prog
    BY SameContracts DEF TypeIInv, CodeIInv, IInv
  <2>2. Bottom' = Bottom
    BY <2>1, BottomKept
  <2>3. Spared
    <3>1. CASE status \in Lasting
      <4>1. PICK e : CompiledFor(e)
        BY DEF CodeTyped, CompiledFor
      <4>2. Right(e)
        BY <3>1, <4>1, TypingNow
      <4> QED BY <4>2 DEF Right
    <3>2. CASE status \notin Lasting
      <4>1. TypeOK
        BY DEF TypeIInv, CodeIInv, IInv
      <4>2. UNCHANGED Strings
        BY <3>2, <4>1, EndedStays
      <4> QED BY <4>2 DEF Spared
    <3> QED BY <3>1, <3>2
  <2> QED BY <2>1, <2>2, <2>3 DEF Spared, EnvironmentKept
<1> QED BY <1>1, <1>2, <1>3, TypesAlways, PTL DEF Spec

-----------------------------------------------------------------------------
(***************************************************************************)
(* The values an instruction finds.                                        *)
(***************************************************************************)
\* A value of a type is what code takes it for that looks values of some types up.
Looked == {VStr, VArr, VMap, VMoney, VBytes, VFile, VObject}

\* The operand expected for a type, where values of some types are looked up.
LEMMA SortsOfTypes ==
  ASSUME NEW t, NEW S, S \subseteq Looked
  PROVE  /\ MainType(t) \notin S => Sort(t, S) = "any"
         /\ MainType(t) \in S /\ MainType(t) = VStr => Sort(t, S) = "str"
         /\ MainType(t) \in S /\ MainType(t) # VStr => MainType(t) \in Handles /\ Sort(t, S) = KindOf(t)
<1>1. CASE MainType(t) \notin S
  BY <1>1, SMT DEF Sort
<1>2. CASE MainType(t) \in S
  <2>1. MainType(t) \in {VStr, VArr, VMap, VMoney, VBytes, VFile, VObject}
    BY <1>2, Zenon DEF Looked
  <2>2. /\ MainType(t) = VStr => Sort(t, S) = "str"
        /\ MainType(t) = VArr => Sort(t, S) = "arr"
        /\ MainType(t) = VMap => Sort(t, S) = "map"
        /\ MainType(t) = VMoney => Sort(t, S) = "money"
        /\ MainType(t) = VBytes => Sort(t, S) = "bytes"
        /\ MainType(t) = VFile => Sort(t, S) = "file"
        /\ MainType(t) = VObject => Sort(t, S) = "obj"
    BY <1>2, SMT DEF Sort, VStr, VArr, VMap, VMoney, VBytes, VFile, VObject
  <2>3. /\ MainType(t) = VArr => KindOf(t) = "arr"
        /\ MainType(t) = VMap => KindOf(t) = "map"
        /\ MainType(t) = VMoney => KindOf(t) = "money"
        /\ MainType(t) = VBytes => KindOf(t) = "bytes"
        /\ MainType(t) = VFile => KindOf(t) = "file"
        /\ MainType(t) = VObject => KindOf(t) = "obj"
    BY KindsOf, Zenon
  <2>4. MainType(t) # VStr => MainType(t) \in Handles
    BY <2>1, TypesApart, Zenon
  <2>5. MainType(t) # VStr => Sort(t, S) = KindOf(t)
    BY <2>1, <2>2, <2>3
  <2> QED BY <1>2, <2>2, <2>4, <2>5
<1> QED BY <1>1, <1>2, Zenon

\* When a value fits what is expected.
LEMMA FitsKinds ==
  ASSUME NEW v
  PROVE  /\ Fits(v, "any")
         /\ Fits(v, "str") <=> IsString(v)
         /\ Fits(v, "item") <=> IsObject(v)
         /\ Fits(v, "tree") <=> IsObject(v) /\ Obj(v).kind \in {"obj", "list"}
         /\ \A t : MainType(t) \in {VArr, VMap, VMoney, VBytes, VFile, VObject} =>
              (Fits(v, KindOf(t)) <=> IsKind(v, KindOf(t)))
<1>1. \A t : MainType(t) \in {VArr, VMap, VMoney, VBytes, VFile, VObject} =>
        KindOf(t) \in {"arr", "map", "money", "bytes", "file", "obj"}
  BY KindsOf, Zenon
<1>2. \A k \in {"arr", "map", "money", "bytes", "file", "obj"} : Fits(v, k) <=> IsKind(v, k)
  BY DEF Fits
<1>3. \A t : MainType(t) \in {VArr, VMap, VMoney, VBytes, VFile, VObject} =>
              (Fits(v, KindOf(t)) <=> IsKind(v, KindOf(t)))
  BY <1>1, <1>2
<1>4. Fits(v, "any") /\ (Fits(v, "str") <=> IsString(v)) /\ (Fits(v, "item") <=> IsObject(v))
      /\ (Fits(v, "tree") <=> IsObject(v) /\ Obj(v).kind \in {"obj", "list"})
  BY DEF Fits
<1> QED BY <1>3, <1>4

\* The objects that are looked up are found.
LEMMA ObjectFits ==
  ASSUME NEW e, NEW types, TypedState(e, types), Fetching, NEW v, NEW t,
         Denotes(types, v, t, Anchor(Ground), Mark), MainType(t) \in Handles
  PROVE  IsObject(v) /\ Obj(v).kind = KindOf(t)
<1>1. Objects \in Seq(Object) /\ KindsTyped(types, Objects)
  BY DEF TypedState, IInv, TypeOK, FramesTyped
<1>2. Ground \in MarkType /\ Mark \in MarkType /\ Mark.objects = Len(Objects) /\ Len(Objects) \in Nat
  BY <1>1, Between
<1>3. Mark.objects <= Len(Objects)
  BY <1>2
<1>4. IsKind(v, KindOf(t))
  BY <1>1, <1>2, <1>3, HandleHeld
<1> QED BY <1>4 DEF IsKind

\* A value of a type fits what is expected for that type.
LEMMA DenotesFits ==
  ASSUME NEW e, NEW types, TypedState(e, types), Fetching, NEW v, NEW t,
         Denotes(types, v, t, Anchor(Ground), Mark), NEW S, S \subseteq Looked
  PROVE  Fits(v, Sort(t, S))
<1>1. CASE MainType(t) \notin S
  BY <1>1, SortsOfTypes, FitsKinds
<1>2. CASE MainType(t) \in S /\ MainType(t) = VStr
  <2>1. v \in 0..Mark.strings - 1
    BY <1>2, DenotesOf DEF Anchor
  <2>2. IsString(v)
    BY <2>1, Between DEF IsString
  <2> QED BY <1>2, <2>2, SortsOfTypes, FitsKinds
<1>3. CASE MainType(t) \in S /\ MainType(t) # VStr
  <2>1. MainType(t) \in Handles /\ Sort(t, S) = KindOf(t)
    BY <1>3, SortsOfTypes
  <2>2. MainType(t) \in {VArr, VMap, VMoney, VBytes, VFile, VObject}
    BY <1>3 DEF Looked
  <2>3. IsKind(v, KindOf(t))
    BY <2>1, ObjectFits DEF IsKind
  <2> QED BY <2>1, <2>2, <2>3, FitsKinds
<1> QED BY <1>1, <1>2, <1>3

\* What can be read as a value of a type is one.
LEMMA ReadsDenotes ==
  ASSUME NEW e, NEW types, TypedState(e, types), Fetching, NEW j \in 0..Len(SortsHere(e)) - 1,
         NEW t, Reads(Top(SortsHere(e), j), t), MainType(t) # VBool
  PROVE  Denotes(types, Cell(j), t, Anchor(Ground), Mark)
<1> DEFINE s == Top(SortsHere(e), j)
<1>1. CASE MainType(t) = VStr
  <2>1. IsText(s)
    BY <1>1, TypesApart, Zenon DEF Reads
  <2>2. Cell(j) \in 0..Len(Strings) - 1
    BY <2>1, TextHere
  <2>3. Cell(j) \in Anchor(Ground).strings..Mark.strings - 1
    BY <2>2, Between DEF Anchor
  <2> QED BY <1>1, <2>3, DenotesOf
<1>2. CASE MainType(t) \in Handles
  <2>1. s.form = "value" /\ s.of = t
    BY <1>2, TypesApart, Zenon DEF Reads
  <2>2. Denotes(types, Cell(j), t, Ground, Mark)
    BY <2>1, ValueHere
  <2> QED BY <2>2, DenotesAnchor, Between
<1>3. CASE MainType(t) \notin Handles \cup {VStr, VBool}
  BY <1>3, DenotesOf
<1> QED BY <1>1, <1>2, <1>3

\* So does a cell that can be read as one.
LEMMA ReadsFits ==
  ASSUME NEW e, NEW types, TypedState(e, types), Fetching, NEW j \in 0..Len(SortsHere(e)) - 1,
         NEW t, Reads(Top(SortsHere(e), j), t), NEW S, S \subseteq Looked
  PROVE  Fits(Cell(j), Sort(t, S))
<1>1. CASE MainType(t) = VBool
  <2>1. MainType(t) \notin S
    BY <1>1 DEF Looked, VBool, VStr, VArr, VMap, VMoney, VBytes, VFile, VObject
  <2> QED BY <2>1, SortsOfTypes, FitsKinds
<1>2. CASE MainType(t) # VBool
  BY <1>2, ReadsDenotes, DenotesFits
<1> QED BY <1>1, <1>2

\* So are the items of an array or a map.
LEMMA ItemsFound ==
  ASSUME NEW e, NEW types, TypedState(e, types), Fetching, NEW j \in 0..Len(SortsHere(e)) - 1,
         NEW t, Reads(Top(SortsHere(e), j), t), MainType(t) \in {VArr, VMap},
         NEW S, S \subseteq Looked
  PROVE  ElementsFit(Cell(j), Sort(SubType(t), S))
<1>1. MainType(t) \in Handles
  BY TypesApart
<1>2. Top(SortsHere(e), j).form = "value" /\ Top(SortsHere(e), j).of = t
  BY <1>1, TypesApart, Zenon DEF Reads
<1>3. Denotes(types, Cell(j), t, Ground, Mark)
  BY <1>2, ValueHere
<1>4. /\ Obj(Cell(j)) \in Object
      /\ \A k \in DOMAIN Obj(Cell(j)).items :
           Denotes(types, Obj(Cell(j)).items[k], SubType(t), Anchor(Ground), Mark)
  BY <1>1, <1>3, HeldHere
<1>5. DOMAIN Obj(Cell(j)).items = 1..Len(Obj(Cell(j)).items)
  BY <1>4 DEF Object
<1>6. \A k \in 1..Len(Obj(Cell(j)).items) : Fits(Obj(Cell(j)).items[k], Sort(SubType(t), S))
  BY <1>4, <1>5, DenotesFits
<1> QED BY <1>6 DEF ElementsFit

\* The cells meet the demands.
LEMMA DemandMet ==
  ASSUME NEW e, NEW types, TypedState(e, types), Fetching, NEW j \in 0..Len(SortsHere(e)) - 1,
         NEW d, Meets1(cnt, Top(SortsHere(e), j), d)
  PROVE  Fits(Cell(j), d)
<1> DEFINE s == Top(SortsHere(e), j)
           A == {"addr", "addr_str", "addr_arr", "addr_bytes", "addr_money"}
<1>1. d \in {"any", "str", "item", "arr", "map", "bytes", "money", "file", "obj"} \cup A
  BY DEF Meets1
<1>2. CASE d \in {"any", "str"}
  <2>1. d = "str" => IsString(Cell(j))
    BY MeetsOf, TextHere
  <2> QED BY <1>2, <2>1, FitsKinds
<1>3. CASE d \in {"item", "arr", "map", "bytes", "money", "file", "obj"}
  <2>1. /\ s.form = "value" /\ MainType(s.of) \in Handles
        /\ d = "arr" => MainType(s.of) = VArr
        /\ d = "map" => MainType(s.of) = VMap
        /\ d = "bytes" => MainType(s.of) = VBytes
        /\ d = "money" => MainType(s.of) = VMoney
        /\ d = "file" => MainType(s.of) = VFile
        /\ d = "obj" => MainType(s.of) = VObject
    BY <1>3, MeetsOf, TypesApart, Zenon DEF IsOf
  <2>2. Denotes(types, Cell(j), s.of, Ground, Mark)
    BY <2>1, ValueHere
  <2>3. IsObject(Cell(j)) /\ Obj(Cell(j)).kind = KindOf(s.of)
    BY <2>1, <2>2, HeldHere
  <2>4. d # "item" => IsKind(Cell(j), d)
    BY <1>3, <2>1, <2>3, KindsOf, Zenon DEF IsKind
  <2>5. d # "item" => Fits(Cell(j), d)
    BY <1>3, <2>4 DEF Fits
  <2> QED BY <2>3, <2>5, FitsKinds
<1>4. CASE d \in A
  <2> DEFINE m == s.of + 1
             t == VarType(cnt, m)
  <2>1. s.form = "addr" /\ s.of < Variables(cnt)
    BY <1>4, MeetsOf
  <2>2. /\ IsAddress(Cell(j)) /\ VarOf(cnt, s) = t
        /\ Denotes(types, Pointed(Cell(j)), t, Ground, Middle)
    BY <2>1, AddressFound
  <2>3. Ground \in MarkType /\ Middle \in MarkType /\ Mark \in MarkType /\ Below(Middle, Mark) /\ Below(Ground, Ground)
    BY Between DEF Below, MarkType
  <2>4. Denotes(types, Pointed(Cell(j)), t, Ground, Mark)
    BY <2>2, <2>3, DenotesCarried
  <2>5. Denotes(types, Pointed(Cell(j)), t, Anchor(Ground), Mark)
    BY <2>3, <2>4, DenotesAnchor
  <2>6. /\ d = "addr_str" => MainType(t) = VStr
        /\ d = "addr_arr" => MainType(t) = VArr
        /\ d = "addr_bytes" => MainType(t) = VBytes
        /\ d = "addr_money" => MainType(t) = VMoney
    BY <2>2, MeetsOf
  <2>7. d = "addr_str" => IsString(Pointed(Cell(j)))
    <3>1. MainType(t) = VStr => Pointed(Cell(j)) \in 0..Mark.strings - 1
      BY <2>5, DenotesOf DEF Anchor
    <3> QED BY <2>6, <3>1, Between DEF IsString
  <2>8. MainType(t) \in Handles => IsObject(Pointed(Cell(j))) /\ Obj(Pointed(Cell(j))).kind = KindOf(t)
    BY <2>5, ObjectFits
  <2>9. /\ d = "addr_arr" => IsKind(Pointed(Cell(j)), "arr")
        /\ d = "addr_bytes" => IsKind(Pointed(Cell(j)), "bytes")
        /\ d = "addr_money" => IsKind(Pointed(Cell(j)), "money")
    BY <2>6, <2>8, KindsOf, TypesApart, Zenon DEF IsKind
  <2> HIDE DEF t, m, s
  <2> QED BY <1>4, <2>2, <2>7, <2>9 DEF Fits
<1> QED BY <1>1, <1>2, <1>3, <1>4

\* Each cell fits the operand the instruction takes it for.
LEMMA OperandsMet ==
  ASSUME NEW e, NEW types, TypedState(e, types), Fetching
  PROVE  \A k \in 1..Len(Operands(Op)) :
           Fits(act.stack[act.top - Len(Operands(Op)) + k], Operands(Op)[k])
<1> DEFINE n == Len(Operands(Op))
           ss == SortsHere(e)
<1>1. n <= Len(ss) /\ \A k \in 1..n : Meets1(cnt, ss[Len(ss) - n + k], Operands(Op)[k])
  BY MeetsFound
<1>2. Len(ss) \in Nat /\ act.top \in Nat /\ n \in Nat
  BY TypedHere, MeetsFound DEF TypedState
<1> HIDE DEF n, ss
<1> SUFFICES ASSUME NEW k \in 1..n PROVE Fits(act.stack[act.top - n + k], Operands(Op)[k])
  BY DEF n
<1>3. n - k \in 0..Len(ss) - 1 /\ Len(ss) - (n - k) = Len(ss) - n + k /\ act.top - (n - k) = act.top - n + k
  BY <1>1, <1>2
<1>4. Meets1(cnt, Top(ss, n - k), Operands(Op)[k])
  BY <1>1, <1>3 DEF Top
<1>5. Fits(Cell(n - k), Operands(Op)[k])
  BY <1>3, <1>4, DemandMet DEF ss
<1> QED BY <1>3, <1>5 DEF Cell

-----------------------------------------------------------------------------
\* What the instruction asks of the cells it takes.
LEMMA AskedHere ==
  ASSUME NEW e, NEW types, TypedState(e, types), Fetching
  PROVE  /\ act.i \in Int /\ AsksHere(e)
         /\ SortsHere(e) \in Seq(SortSet) /\ Len(SortsHere(e)) \in Nat
         /\ Takes(prog, Op, W(1)) \in Nat /\ Takes(prog, Op, W(1)) <= Len(SortsHere(e))
<1>1. TypeOK /\ CodeVerified /\ CodeInv
  BY HereChecked
<1>2. act.i \in Int
  BY <1>1, RunningContract DEF Fetching
<1>3. Accepts(prog, cnt, act.i, SortsHere(e), ParsHere(e))
  BY TypedHere
<1>4. AsksHere(e)
  BY <1>3, Zenon DEF Accepts, AsksHere
<1>5. SortsHere(e) \in Seq(SortSet)
  BY TypedHere
<1> QED BY <1>2, <1>4, <1>5, TypedHere

\* The words behind an opcode.
LEMMA FetchedWord ==
  ASSUME NEW e, NEW types, TypedState(e, types), Fetching, NEW k \in Nat \ {0}, k < Words(Op)
  PROVE  W(k) \in Nat
<1>1. TypeOK /\ CodeVerified /\ CodeInv
  BY HereChecked
<1>2. act.i \in 0..Len(cnt.code) - 1 /\ act.i + Words(Op) <= Len(cnt.code)
  BY <1>1, TablesHere DEF Known, Fetching
<1>3. Words(Op) \in Nat /\ Len(cnt.code) \in Nat
  BY <1>1, WordsType, CodeType
<1>4. act.i + 1 + k \in 1..Len(cnt.code)
  BY <1>2, <1>3
<1> QED BY <1>1, <1>4, WordType

\* An index has been checked against the container beside it.
LEMMA IndexHere ==
  ASSUME NEW e, NEW types, TypedState(e, types), Fetching, NEW j \in 0..Len(SortsHere(e)) - 1,
         Top(SortsHere(e), j).form = "index"
  PROVE  Cell(j) \in 0..ObjLen(Obj(Cell(j + 1))) - 1
<1> DEFINE s == Top(SortsHere(e), j)
<1>1. /\ CellIs(types, Objects, act.stack, act.top - j, s, Ground, Mark)
      /\ Cell(j) = act.stack[act.top - j] /\ act.top - j \in Nat
  BY CellHere
<1>2. act.stack[act.top - j] \in 0..ObjLen(Objects[act.stack[act.top - j - 1] + 1]) - 1
  BY <1>1 DEF CellIs
<1>3. act.top \in Nat
  BY TypedHere
<1>4. act.top - j - 1 = act.top - (j + 1)
  BY <1>3
<1> QED BY <1>1, <1>2, <1>4 DEF Cell, Obj

\* The parameters an activation takes over are for variables it has.
LEMMA ParamsFit ==
  ASSUME NEW e, NEW types, TypedState(e, types), Fetching
  PROVE  \A k \in 1..Len(act.params) \div 2 : act.params[2 * k - 1] \in 0..Len(act.Vars) - 1
<1>1. ParamsTyped(cnt, types, act.params, Ground, Middle)
  BY Between
<1>2. Len(act.Vars) = Variables(cnt)
  BY HereChecked, RunningFrame, Zenon
<1> QED BY <1>1, <1>2 DEF ParamsTyped

\* A text is among the items of what Join takes.
LEMMA JoinFits ==
  ASSUME NEW e, NEW types, TypedState(e, types), Fetching, Op = EMBEDFUNC, W(1) = Join
  PROVE  ElementsFit(Cell(1), "str")
<1>1. /\ AsksHere(e) /\ act.i \in Int /\ Len(SortsHere(e)) \in Nat
      /\ Takes(prog, Op, W(1)) \in Nat /\ Takes(prog, Op, W(1)) <= Len(SortsHere(e))
  BY AskedHere
<1>2. Top(SortsHere(e), 1).of = TypeOf(VArr, VStr)
  BY <1>1, AsksOf
<1>3. Operands(Op) = <<"arr", "str">>
  <2>1. LibSig(W(1)) = <<"arr", "str">>
    BY LibraryOf
  <2> QED BY <2>1, OperandsOf
<1>4. Len(Operands(Op)) = 2 /\ Operands(Op)[1] = "arr"
  BY <1>3
<1>5. Meets1(cnt, SortsHere(e)[Len(SortsHere(e)) - 2 + 1], "arr") /\ 2 <= Len(SortsHere(e))
  BY <1>4, MeetsFound
<1>6. 1 \in 0..Len(SortsHere(e)) - 1 /\ Len(SortsHere(e)) - 2 + 1 = Len(SortsHere(e)) - 1
  BY <1>1, <1>5
<1>7. Top(SortsHere(e), 1).form = "value"
  BY <1>5, <1>6, MeetsOf DEF Top, IsOf
<1> DEFINE t == TypeOf(VArr, VStr)
<1>8. VStr \in Nat /\ MainType(t) = VArr /\ SubType(t) = VStr
  BY TypeWords
<1>9. Reads(Top(SortsHere(e), 1), t)
  <2>1. MainType(t) \in Handles
    BY <1>8, TypesApart
  <2> QED BY <1>2, <1>7, <2>1, TypesApart, Zenon DEF Reads
<1>10. ElementsFit(Cell(1), Sort(SubType(t), {VStr}))
  <2>1. {VStr} \subseteq Looked
    BY DEF Looked
  <2>2. MainType(t) \in {VArr, VMap}
    BY <1>8
  <2> QED BY <1>6, <1>9, <2>1, <2>2, ItemsFound
<1>11. Sort(VStr, {VStr}) = "str"
  <2>1. MainType(VStr) = VStr
    BY TypeWords, <1>8
  <2>2. {VStr} \subseteq Looked
    BY DEF Looked
  <2> QED BY <2>1, <2>2, SortsOfTypes
<1> QED BY <1>8, <1>10, <1>11

\* What an object is made of.
LEMMA TakenHere ==
  ASSUME NEW e, NEW types, TypedState(e, types), Fetching, NEW w \in {2, 3}, NEW k \in 1..W(1),
         w * W(1) <= Len(SortsHere(e)), W(1) \in Nat,
         Printable(Top(SortsHere(e), w * (W(1) - k) + 1), Top(SortsHere(e), w * (W(1) - k)))
  PROVE  TakenFits(k, w)
<1> DEFINE j == w * (W(1) - k)
           n == Len(SortsHere(e))
           v == Top(SortsHere(e), j + 1)
           s == Top(SortsHere(e), j)
           t == TakenType(k, w)
<1>1. n \in Nat
  BY AskedHere
<1>2. j \in 0..n - 1 /\ j + 1 \in 0..n - 1
  <2>1. CASE w = 2
    BY <1>1, <2>1
  <2>2. CASE w = 3
    BY <1>1, <2>2
  <2> QED BY <2>1, <2>2
<1>3. Taken(k, w) = Cell(j + 1) /\ t = Cell(j)
  BY DEF Taken, TakenType
<1>4. Printable(v, s)
  OBVIOUS
<1> HIDE DEF j, n
<1>5. CellIs(types, Objects, act.stack, act.top - j, s, Ground, Mark) /\ Cell(j) = act.stack[act.top - j]
  BY <1>2, CellHere DEF n
<1>6. s.form = "literal"
  BY <1>4 DEF Printable
<1>7. t = s.of
  BY <1>3, <1>5, <1>6 DEF CellIs
<1> HIDE DEF t, s, v
<1>8. CASE t \in {VObject, VObjList}
  <2>1. v.form = "value" /\ MainType(v.of) \in {VObject, VObjList}
    BY <1>4, <1>7, <1>8 DEF Printable, IsOf
  <2>2. Denotes(types, Cell(j + 1), v.of, Ground, Mark)
    BY <1>2, <2>1, ValueHere DEF v, n
  <2>3. IsObject(Cell(j + 1)) /\ Obj(Cell(j + 1)).kind = KindOf(v.of)
    BY <2>1, <2>2, HeldHere, TypesApart
  <2>4. Obj(Cell(j + 1)).kind \in {"obj", "list"}
    BY <2>1, <2>3, KindsOf, Zenon
  <2>5. Fits(Taken(k, w), "tree")
    BY <1>3, <2>3, <2>4, FitsKinds
  <2> QED BY <1>8, <2>5 DEF TakenFits, t
<1>9. CASE t \notin {VObject, VObjList}
  <2>1. Reads(v, t)
    BY <1>4, <1>7, <1>9 DEF Printable
  <2> DEFINE S == {VStr, VArr, VMap, VMoney, VObject}
  <2>2. S \subseteq Looked
    BY DEF Looked
  <2> HIDE DEF S
  <2>3. Fits(Cell(j + 1), Sort(t, S))
    BY <1>2, <2>1, <2>2, ReadsFits DEF v, n
  <2>4. MainType(t) \in {VArr, VMap} => ElementsFit(Cell(j + 1), Sort(SubType(t), S))
    BY <1>2, <2>1, <2>2, ItemsFound DEF v, n
  <2>5. PrintSort(t) = Sort(t, S) /\ PrintSort(SubType(t)) = Sort(SubType(t), S)
    BY DEF PrintSort, S
  <2>6. Fits(Taken(k, w), PrintSort(t))
    BY <1>3, <2>3, <2>5
  <2>7. MainType(t) \in {VArr, VMap} => ElementsFit(Taken(k, w), PrintSort(SubType(t)))
    BY <1>3, <2>4, <2>5
  <2> QED BY <1>9, <2>6, <2>7 DEF TakenFits, t
<1> QED BY <1>8, <1>9

\* Each value an object is made of fits the type beside it.
LEMMA ObjectMet ==
  ASSUME NEW e, NEW types, TypedState(e, types), Fetching
  PROVE  /\ Op = INITOBJ => \A k \in 1..W(1) : TakenFits(k, 3)
         /\ Op = INITOBJLIST => \A k \in 1..W(1) : TakenFits(k, 2)
<1> DEFINE ss == SortsHere(e)
<1>1. AsksHere(e) /\ act.i \in Int /\ Takes(prog, Op, W(1)) <= Len(ss) /\ Len(ss) \in Nat
  BY AskedHere
<1>0. Op \in {INITOBJ, INITOBJLIST} => W(1) \in Nat
  BY HereChecked, CountType
<1>2. /\ Op = INITOBJ => \A k \in 1..W(1) : Printable(Top(ss, 3 * k - 2), Top(ss, 3 * k - 3))
      /\ Op = INITOBJLIST => \A k \in 1..W(1) : Printable(Top(ss, 2 * k - 1), Top(ss, 2 * k - 2))
  BY <1>1, AsksOf
<1>3. Op = INITOBJ => Takes(prog, Op, W(1)) = 3 * W(1)
  BY TakesOf
<1>4. Op = INITOBJLIST => Takes(prog, Op, W(1)) = 2 * W(1)
  BY TakesOf
<1> HIDE DEF ss
<1>5. ASSUME Op = INITOBJ, NEW k \in 1..W(1) PROVE TakenFits(k, 3)
  <2>1. /\ W(1) - k + 1 \in 1..W(1) /\ 3 * (W(1) - k + 1) - 2 = 3 * (W(1) - k) + 1
        /\ 3 * (W(1) - k + 1) - 3 = 3 * (W(1) - k)
    BY <1>5, <1>0
  <2>2. Printable(Top(ss, 3 * (W(1) - k) + 1), Top(ss, 3 * (W(1) - k)))
    BY <1>2, <1>5, <2>1
  <2>3. 3 * W(1) <= Len(ss)
    BY <1>1, <1>3, <1>5
  <2> QED BY <1>5, <1>0, <2>2, <2>3, TakenHere DEF ss
<1>6. ASSUME Op = INITOBJLIST, NEW k \in 1..W(1) PROVE TakenFits(k, 2)
  <2>1. /\ W(1) - k + 1 \in 1..W(1) /\ 2 * (W(1) - k + 1) - 1 = 2 * (W(1) - k) + 1
        /\ 2 * (W(1) - k + 1) - 2 = 2 * (W(1) - k)
    BY <1>6, <1>0
  <2>2. Printable(Top(ss, 2 * (W(1) - k) + 1), Top(ss, 2 * (W(1) - k)))
    BY <1>2, <1>6, <2>1
  <2>3. 2 * W(1) <= Len(ss)
    BY <1>1, <1>4, <1>6
  <2> QED BY <1>6, <1>0, <2>2, <2>3, TakenHere DEF ss
<1> QED BY <1>5, <1>6

\* What is printed or copied item by item.
LEMMA CopiedItemsFit ==
  ASSUME NEW e, NEW types, TypedState(e, types), Fetching
  PROVE  /\ (Op = RETURN /\ MainType(W(1)) \in {VArr, VMap}) =>
              ElementsFit(Cell(0), PrintSort(SubType(W(1))))
         /\ (Op \in {COPY, PARCONTRACT} /\ MainType(CopiedType) \in {VArr, VMap}) =>
              ElementsFit(Cell(0), CopySort(ElementType(CopiedType)))
<1> DEFINE s == Top(SortsHere(e), 0)
<1>1. AsksHere(e) /\ act.i \in Int /\ Takes(prog, Op, W(1)) <= Len(SortsHere(e)) /\ Len(SortsHere(e)) \in Nat
  BY AskedHere
<1>2. /\ Op \in {RETURN, COPY} => Reads(s, W(1))
      /\ Op = PARCONTRACT => Contains(s, W(2))
  BY <1>1, AsksOf
<1>3. Op \in {RETURN, COPY, PARCONTRACT} => 0 \in 0..Len(SortsHere(e)) - 1
  <2>1. Op \in {RETURN, COPY, PARCONTRACT} => Takes(prog, Op, W(1)) = 1
    BY TakesOf
  <2> QED BY <1>1, <2>1
<1>4. \A t : Contains(s, t) /\ MainType(t) \in {VArr, VMap} => Reads(s, t)
  BY DEF Contains, Stores, VArr, VMap, VStr, VBool
<1> HIDE DEF s
<1>5. ASSUME Op = RETURN, MainType(W(1)) \in {VArr, VMap}
      PROVE  ElementsFit(Cell(0), PrintSort(SubType(W(1))))
  <2> DEFINE S == {VStr, VArr, VMap, VMoney, VObject}
  <2>1. S \subseteq Looked
    BY DEF Looked
  <2> HIDE DEF S
  <2>2. ElementsFit(Cell(0), Sort(SubType(W(1)), S))
    BY <1>2, <1>3, <1>5, <2>1, ItemsFound DEF s
  <2> QED BY <2>2 DEF PrintSort, S
<1>6. ASSUME Op \in {COPY, PARCONTRACT}, MainType(CopiedType) \in {VArr, VMap}
      PROVE  ElementsFit(Cell(0), CopySort(ElementType(CopiedType)))
  <2> DEFINE S == {VStr, VArr, VMap, VMoney, VBytes, VFile}
             t == CopiedType
  <2>1. S \subseteq Looked
    BY DEF Looked
  <2>2. Reads(s, t)
    <3>1. CASE Op = COPY
      BY <1>2, <3>1 DEF CopiedType
    <3>2. CASE Op = PARCONTRACT
      <4>1. t = W(2)
        BY <3>2 DEF CopiedType, PARCONTRACT, COPY
      <4> QED BY <1>2, <1>4, <1>6, <3>2, <4>1
    <3> QED BY <1>6, <3>1, <3>2
  <2> HIDE DEF S
  <2>3. ElementsFit(Cell(0), Sort(SubType(t), S))
    BY <1>3, <1>6, <2>1, <2>2, ItemsFound DEF s
  <2>4. Sort(ElementType(t), S) = Sort(SubType(t), S)
    <3>1. MainType(MainType(SubType(t))) = MainType(SubType(t))
      <4>1. t \in Nat
        <5>1. Op = COPY => Words(Op) = 2
          BY WordsOf
        <5>2. Op = PARCONTRACT => Words(Op) = 3
          BY WordsOf
        <5> QED BY <1>6, <5>1, <5>2, FetchedWord DEF CopiedType
      <4> QED BY <4>1 DEF MainType, SubType
    <3> QED BY <3>1 DEF Sort, ElementType
  <2> QED BY <2>3, <2>4 DEF CopySort, S
<1>7. (Op = RETURN /\ MainType(W(1)) \in {VArr, VMap}) =>
        ElementsFit(Cell(0), PrintSort(SubType(W(1))))
  BY <1>5, Zenon
<1>8. (Op \in {COPY, PARCONTRACT} /\ MainType(CopiedType) \in {VArr, VMap}) =>
        ElementsFit(Cell(0), CopySort(ElementType(CopiedType)))
  BY <1>6, Zenon
<1> QED BY <1>7, <1>8, Zenon

-----------------------------------------------------------------------------
\* What is stored by an index is stored inside.
LEMMA StoredInside ==
  ASSUME NEW e, NEW types, TypedState(e, types), Fetching
  PROVE  /\ Op = ASSIGNSETARR => Cell(1) \in 0..Len(Obj(Cell(2)).items) - 1
         /\ Op = ASSIGNSETBYTES => Cell(1) \in 0..Obj(Cell(2)).num - 1
<1> SUFFICES ASSUME Op \in {ASSIGNSETARR, ASSIGNSETBYTES}
             PROVE  /\ Op = ASSIGNSETARR => Cell(1) \in 0..Len(Obj(Cell(2)).items) - 1
                    /\ Op = ASSIGNSETBYTES => Cell(1) \in 0..Obj(Cell(2)).num - 1
  OBVIOUS
<1> DEFINE ss == SortsHere(e)
<1>1. AsksHere(e) /\ act.i \in Int /\ Len(ss) \in Nat
  BY AskedHere
<1>2. Top(ss, 1).form = "index"
  BY <1>1, AsksOf
<1>3. /\ Op = ASSIGNSETARR => Operands(Op) = <<"arr", "any", "any">>
      /\ Op = ASSIGNSETBYTES => Operands(Op) = <<"bytes", "any", "any">>
  BY OperandsOf
<1>4. Len(Operands(Op)) = 3
  BY <1>3
<1>5. 3 <= Len(ss) /\ Meets1(cnt, ss[Len(ss) - 3 + 1], Operands(Op)[1])
  BY <1>4, MeetsFound
<1>6. 1 \in 0..Len(ss) - 1 /\ 2 \in 0..Len(ss) - 1 /\ Len(ss) - 3 + 1 = Len(ss) - 2
  BY <1>1, <1>5
<1>7. Top(ss, 2) = ss[Len(ss) - 2]
  BY DEF Top
<1> HIDE DEF ss
<1>8. Fits(Cell(2), Operands(Op)[1])
  BY <1>5, <1>6, <1>7, DemandMet DEF ss
<1>9. Cell(1) \in 0..ObjLen(Obj(Cell(2))) - 1
  <2>1. Cell(1) \in 0..ObjLen(Obj(Cell(1 + 1))) - 1
    BY <1>2, <1>6, IndexHere DEF ss
  <2>2. 1 + 1 = 2
    OBVIOUS
  <2> QED BY <2>1, <2>2
<1>10. CASE Op = ASSIGNSETARR
  <2>1. Fits(Cell(2), "arr")
    BY <1>3, <1>8, <1>10
  <2>2. Obj(Cell(2)).kind = "arr"
    BY <2>1 DEF Fits, IsKind
  <2> QED BY <1>9, <1>10, <2>2 DEF ObjLen, ASSIGNSETARR, ASSIGNSETBYTES
<1>11. CASE Op = ASSIGNSETBYTES
  <2>1. Fits(Cell(2), "bytes")
    BY <1>3, <1>8, <1>11
  <2>2. Obj(Cell(2)).kind = "bytes"
    BY <2>1 DEF Fits, IsKind
  <2> QED BY <1>9, <1>11, <2>2 DEF ObjLen, ASSIGNSETARR, ASSIGNSETBYTES
<1> QED BY <1>10, <1>11

\* Substr adds a start and a length whose sum leaves the int64.
SliceOverflow == Op = EMBEDFUNC /\ W(1) = Substr /\ ~SubstrRefused /\ ~(SubstrFrom <= SubstrTo)

\* Every operand fits, and every index, but for the slice Substr may ask for.
LEMMA ValuesMet ==
  ASSUME NEW e, NEW types, TypedState(e, types), Fetching
  PROVE  ValuesFit \/ SliceOverflow
<1>1. \A k \in 1..Len(Operands(Op)) :
        Fits(act.stack[act.top - Len(Operands(Op)) + k], Operands(Op)[k])
  BY OperandsMet
<1>2. SUFFICES ASSUME ~SliceOverflow PROVE ItemsFit
  BY <1>1, Zenon DEF ValuesFit
<1>3. Op = LOADPARS => \A k \in 1..Len(act.params) \div 2 :
                         act.params[2 * k - 1] \in 0..Len(act.Vars) - 1
  BY ParamsFit
<1>4. (Op = EMBEDFUNC /\ W(1) = Join) => ElementsFit(Cell(1), "str")
  BY JoinFits
<1>5. (Op = EMBEDFUNC /\ W(1) = Substr /\ ~SubstrRefused) => SubstrFrom <= SubstrTo
  BY <1>2, Zenon DEF SliceOverflow
<1>6. /\ Op = INITOBJ => \A k \in 1..W(1) : TakenFits(k, 3)
      /\ Op = INITOBJLIST => \A k \in 1..W(1) : TakenFits(k, 2)
  BY ObjectMet
<1>7. /\ Op = ASSIGNSETARR => Cell(1) \in 0..Len(Obj(Cell(2)).items) - 1
      /\ Op = ASSIGNSETBYTES => Cell(1) \in 0..Obj(Cell(2)).num - 1
  BY StoredInside
<1>8. /\ (Op = RETURN /\ MainType(W(1)) \in {VArr, VMap}) =>
           ElementsFit(Cell(0), PrintSort(SubType(W(1))))
      /\ (Op \in {COPY, PARCONTRACT} /\ MainType(CopiedType) \in {VArr, VMap}) =>
           ElementsFit(Cell(0), CopySort(ElementType(CopiedType)))
  BY CopiedItemsFit
<1> QED BY <1>3, <1>4, <1>5, <1>6, <1>7, <1>8, Zenon DEF ItemsFit

\* Every instruction of code the compiler typed finds operands of the kinds it takes them
\* for, and indices inside; only Substr's sum of a start and a length can go wrong.
THEOREM ValuesAlwaysFound == Spec /\ CodeTyped => [](ValuesFound \/ SliceOverflow)
<1> DEFINE Inv == TypeIInv /\ CodeTyped
<1>1. Spec => []TypeIInv
  BY TypesAlways
<1>2. TypeIInv /\ CodeTyped /\ [Next]_vars => CodeTyped'
  BY TypedKept DEF TypeIInv, CodeIInv, IInv
<1>3. TypeIInv /\ CodeTyped => ValuesFound \/ SliceOverflow
  <2> SUFFICES ASSUME TypeIInv, CodeTyped, Fetching PROVE ValuesFit \/ SliceOverflow
    BY DEF ValuesFound
  <2>1. PICK e : CompiledFor(e)
    BY DEF CodeTyped, CompiledFor
  <2>2. status \in Lasting
    BY DEF Fetching, Lasting
  <2>3. PICK types : TypedState(e, types)
    BY <2>1, <2>2, TypedNow
  <2> QED BY <2>3, ValuesMet
<1> QED BY <1>1, <1>2, <1>3, PTL DEF Spec

\* Substr's slice depends on the code, the stack and the texts.
LEMMA SliceKept ==
  ASSUME UNCHANGED <<prog, act, Strings>>
  PROVE  SliceOverflow' = SliceOverflow
<1>1. /\ Op' = Op /\ \A k : W(k)' = W(k) /\ Cell(k)' = Cell(k)
  BY DEF Op, W, Cell, cnt
<1>2. \A v : String(v)' = String(v)
  BY DEF String
<1>3. SubstrLen' = SubstrLen
  BY <1>1 DEF SubstrLen
<1>4. SubstrFrom' = SubstrFrom
  BY <1>1, <1>3 DEF SubstrFrom
<1>5. SubstrTo' = SubstrTo
  BY <1>1, <1>2, <1>3, <1>4 DEF SubstrTo
<1>6. SubstrRefused' = SubstrRefused
  BY <1>1, <1>2, <1>3, <1>4 DEF SubstrRefused
<1> QED BY <1>1, <1>4, <1>5, <1>6 DEF SliceOverflow

\* Code the compiler typed panics only where one of the two stacks is full, or in Substr.
THEOREM TypedPanics == Spec /\ CodeTyped => [](OnlyOverflow \/ SliceOverflow)
<1> DEFINE Caught == status = "panic" => ValuesFit \/ SliceOverflow
<1>1. Init => Caught
  BY DEF Init, Begin
<1>2. TypeIInv /\ CodeTyped /\ Caught /\ [Next]_vars => Caught' /\ CodeTyped'
  <2> SUFFICES ASSUME TypeIInv, CodeTyped, Caught, [Next]_vars, status' = "panic"
               PROVE  (ValuesFit \/ SliceOverflow)'
    BY TypedKept DEF TypeIInv, CodeIInv, IInv
  <2>1. TypeOK /\ CodeInv
    BY DEF TypeIInv, CodeIInv, IInv, CodeTyped
  <2>2. GoPanic \/ UNCHANGED vars
    BY <2>1, PanicStep
  <2>3. ValuesFit \/ SliceOverflow
    <3>1. CASE UNCHANGED vars
      BY <3>1 DEF vars
    <3>2. CASE GoPanic
      <4>1. PICK e : CompiledFor(e)
        BY DEF CodeTyped, CompiledFor
      <4>2. status \in Lasting
        BY <3>2 DEF GoPanic, Lasting
      <4>3. PICK types : TypedState(e, types)
        BY <4>1, <4>2, TypedNow
      <4>4. act.i \in 0..Len(cnt.code)
        <5>1. act.i \in Ends(cnt)
          BY <2>1 DEF CodeInv, Aligned, AlignedIn, cnt
        <5>2. cnt \in Contract /\ Packed(cnt) /\ Len(cnt.code) \in Nat
          BY <2>1, RunningContract DEF CodeTyped
        <5> QED BY <5>1, <5>2, StartsType DEF Ends
      <4>5. Fetching
        BY <3>2, <4>4 DEF GoPanic
      <4> QED BY <4>3, <4>5, ValuesMet
    <3> QED BY <2>2, <3>1, <3>2
  <2>4. UNCHANGED <<prog, act, Strings, Objects>>
    BY <2>2 DEF GoPanic, heap, vars
  <2> QED BY <2>3, <2>4, ValuesKept, SliceKept
<1>3. CodeTyped => CodeVerified
  BY DEF CodeTyped
<1>4. Caught /\ (CodeVerified /\ ValuesFit => OnlyOverflow) /\ CodeVerified
        => OnlyOverflow \/ SliceOverflow
  BY DEF OnlyOverflow
<1>5. Spec => []TypeIInv
  BY TypesAlways
<1>6. Spec => []((CodeVerified /\ ValuesFit) => OnlyOverflow)
  BY PanicConfined
<1> QED BY <1>1, <1>2, <1>3, <1>4, <1>5, <1>6, PTL DEF Spec

-----------------------------------------------------------------------------
(***************************************************************************)
(* The operands of the callers of functions.                               *)
(***************************************************************************)
\* What carries on behind a RETFUNC has carried it out.
LEMMA RetFuncOnly ==
  ASSUME TypeOK, [Next]_vars, Fetching, Op = RETFUNC, status' = "running", callers' = callers
  PROVE  RetFunc \/ UNCHANGED vars
<1>1. CASE Straight
  <2>1. Op \notin Turns
    BY <1>1, StraightOps
  <2> QED BY <2>1 DEF Turns
<1>2. CASE Jmp \/ JmpRel \/ JumpIf \/ CallFunc
  <2>1. Op \in {JMP, JMPREL, JZE, JNZ, CALLFUNC}
    BY <1>2 DEF Jmp, JmpRel, JumpIf, CallFunc, Dispatch
  <2> QED BY <2>1 DEF JMP, JMPREL, JZE, JNZ, CALLFUNC, RETFUNC
<1>3. CASE CallContract \/ Return
  <2>1. Op \in {CALLCONTRACT, RETURN}
    BY <1>3 DEF CallContract, Return, Dispatch
  <2> QED BY <2>1 DEF CALLCONTRACT, RETURN, RETFUNC
<1>4. CASE FallOff
  BY <1>4 DEF FallOff, Fetching
<1>5. CASE Errors
  <2>1. status' # "running"
    BY <1>5, Zenon DEF Errors, OutOfGas, Fail, HostError, DecodeError, Unwind, GoPanic, Abort
  <2> QED BY <2>1
<1>6. CASE Finished \/ UNCHANGED vars
  BY <1>6 DEF Finished
<1> QED BY <1>1, <1>2, <1>3, <1>4, <1>5, <1>6, Zenon
        DEF Next, Contracts, Jumping, Straight

\* How high the stack is at the end of a function.
LEMMA FunctionEnds ==
  ASSUME NEW e, NEW types, TypedState(e, types), Fetching, Op = RETFUNC, act.calls # <<>>,
         NEW n, n = Len(act.calls), NEW f, f = Opened(cnt, act.calls, n),
         f \notin Here.lost
  PROVE  /\ f \in Entries(cnt) /\ act.calls[n].top \in Int /\ Here.at[f] \in Nat
         /\ Len(HereSorts(e).gives[f]) \in Nat
         /\ act.top = act.calls[n].top - Here.at[f] + Len(HereSorts(e).gives[f])
<1> DEFINE ss == SortsHere(e)
           k == HereSorts(e)
<1>1. TypeOK /\ CodeVerified /\ CodeInv /\ act \in ActivationType /\ Checked(prog, e, cnt, Here, k)
  BY HereChecked
<1>2. act.calls \in Seq(Returns) /\ n \in Nat \ {0} /\ n \in DOMAIN act.calls
  BY <1>1 DEF ActivationType
<1>3. act.calls[n] \in Returns
  BY <1>2
<1>4. act.i \in Starts(cnt) /\ Here.at[act.i] \in Nat /\ ss \in Seq(SortSet)
  BY TypedHere
<1>5. Owner(cnt, act.i) = f
  BY <1>1, RunningFrame DEF FrameRight
<1>6. CallKnown(cnt, Here, k, act.calls, n)
  <2> HIDE DEF CallKnown, k
  <2> QED BY <1>2, HereChecked DEF k
<1> HIDE DEF k
<1>7. Len(k.at[f]) = Here.at[f] /\ k.at[f] \in Seq(SortSet)
  BY <1>6 DEF CallKnown
<1>8. Len(ss) = Len(k.gives[f])
  <2>1. cnt.code[act.i + 1] = RETFUNC
    BY DEF Op
  <2> QED BY <1>1, <1>4, <1>5, <2>1, GivesOf DEF SortsHere, k
<1>9. act.top = Floor(cnt, Here, act.calls, n) + Len(ss)
  <2>1. StackTyped(cnt, Here, HereSorts(e), types, Objects, act, act.i, act.top, Ground, Middle, Mark)
    BY DEF TypedState, FramesTyped, RunTyped, HereSorts, Fetching
  <2> QED BY <1>4, <1>5, <2>1 DEF StackTyped, SortsHere, HereSorts
<1>10. Floor(cnt, Here, act.calls, n) = act.calls[n].top - Here.at[f]
  BY <1>2 DEF Floor
<1>11. f \in Entries(cnt)
  <2>1. Entered(cnt, act.calls[n].ret)
    BY <1>2, HereChecked, Zenon DEF AlignedIn
  <2>2. /\ act.calls[n].ret - 2 \in Starts(cnt) /\ cnt.code[act.calls[n].ret - 1] = CALLFUNC
        /\ f = Target(cnt, act.calls[n].ret - 2)
    BY <1>2, <2>1 DEF Entered, Opened
  <2>3. act.calls[n].ret - 2 + 1 = act.calls[n].ret - 1
    BY <1>3 DEF Returns
  <2> QED BY <2>2, <2>3 DEF Entries
<1> QED BY <1>3, <1>4, <1>7, <1>8, <1>9, <1>10, <1>11 DEF Returns, k

\* What is left of the operands of a function's caller when the function returns.
LEMMA FrugalEnds ==
  ASSUME TypeIInv, NEW e, CompiledFor(e), Frugal(e), [Next]_vars, ~UNCHANGED vars,
         Fetching, Op = RETFUNC, status' = "running", callers' = callers
  PROVE  LET call == act.calls[Len(act.calls)]
         IN act'.top - (call.top - Params(call)) \in {0, 1}
<1> DEFINE n == Len(act.calls)
           f == Opened(cnt, act.calls, n)
           gives == HereSorts(e).gives[f]
<1>1. TypeOK
  BY DEF TypeIInv, CodeIInv, IInv
<1>2. status \in Lasting
  BY DEF Fetching, Lasting
<1>3. PICK types : TypedState(e, types)
  BY <1>2, TypedNow
<1>4. act \in ActivationType /\ CodeVerified /\ CodeInv
  BY <1>3, HereChecked
<1>5. RetFunc
  BY <1>1, RetFuncOnly
<1>6. act'.top = act.top
  BY <1>4, <1>5, RetFuncStep
<1>7. act.calls # <<>>
  BY <1>1, <1>5, Dispatched DEF RetFunc, IndicesFit
<1>8. act.calls \in Seq(Returns) /\ n \in Nat \ {0} /\ n \in DOMAIN act.calls
  BY <1>4, <1>7 DEF ActivationType
<1>9. f \in Entries(cnt)
  <2>1. Entered(cnt, act.calls[n].ret)
    BY <1>3, <1>8, HereChecked, Zenon DEF AlignedIn
  <2>2. /\ act.calls[n].ret - 2 \in Starts(cnt) /\ cnt.code[act.calls[n].ret - 1] = CALLFUNC
        /\ f = Target(cnt, act.calls[n].ret - 2)
    BY <1>8, <2>1 DEF Entered, Opened
  <2> HIDE DEF n
  <2>3. act.calls[n] \in Returns
    BY <1>8
  <2>4. act.calls[n].ret - 2 + 1 = act.calls[n].ret - 1
    BY <2>3 DEF Returns
  <2> QED BY <2>2, <2>4 DEF Entries
<1>10. act.cnt \in DOMAIN prog.contracts
  BY <1>1 DEF TypeOK, ActivationType, Linked
<1>11. /\ f \notin Here.lost /\ Len(gives) <= 1
       /\ Here.at[f] = IF cnt.code[f + 1] = GETPARAMS THEN cnt.code[f + 2] ELSE 0
  BY <1>9, <1>10 DEF Frugal, HereSorts, Here, cnt
<1>12. f = EntryOf(act.calls[n])
  BY <1>8 DEF Opened, EntryOf
<1>13. Here.at[f] = Params(act.calls[n])
  BY <1>11, <1>12 DEF Params
<1> HIDE DEF n, f, gives
<1>14. /\ act.calls[n].top \in Int /\ Here.at[f] \in Nat /\ Len(gives) \in Nat
       /\ act.top = act.calls[n].top - Here.at[f] + Len(gives)
  BY <1>3, <1>7, <1>11, FunctionEnds DEF n, f, gives
<1>15. act'.top - (act.calls[n].top - Params(act.calls[n])) \in {0, 1}
  BY <1>6, <1>11, <1>13, <1>14
<1> QED BY <1>15 DEF n

\* What the code was compiled for stays as it is.
LEMMA FrugalKept ==
  ASSUME TypeOK, [Next]_vars, CodeFrugal
  PROVE  CodeFrugal'
<1>1. prog' = prog
  BY SameContracts
<1>2. PICK e : e \in [DOMAIN prog.env -> EnvTypes] /\ CompiledFor(e) /\ Frugal(e)
  BY DEF CodeFrugal, CompiledFor
<1>3. CompiledFor(e)'
  BY <1>1, <1>2, CompiledKept
<1>4. Frugal(e)'
  BY <1>1, <1>2 DEF Frugal
<1> QED BY <1>3, <1>4 DEF CompiledFor, CodeFrugal

\* Functions that come to no loop and leave one value at most take their parameters off
\* the stack, and leave the values their callers have computed.
THEOREM FunctionsKeep == Spec /\ CodeFrugal => FunctionKeepsStack
<1> DEFINE Keeping ==
      (Fetching /\ Op = RETFUNC /\ status' = "running" /\ callers' = callers) =>
        LET call == act.calls[Len(act.calls)]
        IN act'.top - (call.top - Params(call)) \in {0, 1}
<1>1. TypeIInv /\ CodeFrugal /\ [Next]_vars => CodeFrugal'
  BY FrugalKept DEF TypeIInv, CodeIInv, IInv
<1>2. TypeIInv /\ CodeFrugal /\ [Next]_vars => [Keeping]_vars
  <2> SUFFICES ASSUME TypeIInv, CodeFrugal, [Next]_vars, ~UNCHANGED vars PROVE Keeping
    OBVIOUS
  <2>1. PICK e : CompiledFor(e) /\ Frugal(e)
    BY DEF CodeFrugal, CompiledFor
  <2> QED BY <2>1, FrugalEnds
<1>3. [][Keeping]_vars => FunctionKeepsStack
  BY DEF FunctionKeepsStack
<1> QED BY <1>1, <1>2, <1>3, TypesAlways, PTL DEF Spec
=============================================================================
