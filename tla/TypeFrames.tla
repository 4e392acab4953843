----------------------------- MODULE TypeFrames -----------------------------
(***************************************************************************)
(* What it means that the cells, the variables and the objects are of the  *)
(* types the sorts of module CodeTypes say, and what keeps it so: the      *)
(* regions of the heap that belong to the activations, the steps that      *)
(* leave most of them alone, and the instructions that put values          *)
(* together.                                                               *)
(***************************************************************************)
EXTENDS CodeTypes, RuntimeProofs

-----------------------------------------------------------------------------
(***************************************************************************)
(* What it means for the cells, the variables and the heap to be as the    *)
(* sorts say.                                                              *)
(***************************************************************************)

\* The cell at pos is as the sort s says, and refers to what lies between two marks.
CellIs(types, os, stack, pos, s, lo, end) ==
  LET v == stack[pos]
      o == stack[pos - 1]
  IN CASE s.form = "value"   -> Denotes(types, v, s.of, lo, end)
       [] s.form = "shared"  -> v \in 0..end.strings - 1
       [] s.form = "addr"    -> v = AddressOf(s.of)
       [] s.form = "literal" -> v = s.of
       [] OTHER -> o \in 0..end.objects - 1 /\ v \in 0..ObjLen(os[o + 1]) - 1
\* The cells up to h are as the sorts ss say; the late ones may refer to what lies
\* between the marks mid and hi.
CellsAre(types, os, stack, h, ss, lo, mid, hi) ==
  /\ Len(ss) <= h
  /\ \A j \in 1..Len(ss) :
       CellIs(types, os, stack, h - Len(ss) + j, ss[j], lo, IF ss[j].late THEN hi ELSE mid)
VarsTyped(c, types, values, lo, mid) ==
  \A m \in 1..Len(values) : Denotes(types, values[m], VarType(c, m), lo, mid)

\* Two stacks have the same cells up to h.
Alike(stack, stack2, h) == \A pos \in 0..h : stack2[pos] = stack[pos]

\* Texts may be those of others, and containers not.
Anchor(lo) == [strings |-> 0, objects |-> lo.objects]
ObjectTyped(types, o, t, lo, hi) ==
  MainType(t) \in {VArr, VMap} =>
    \A j \in DOMAIN o.items : Denotes(types, o.items[j], SubType(t), Anchor(lo), hi)
KindsTyped(types, os) == \A j \in 1..Len(os) : os[j].kind = KindOf(types[j])
HeapTyped(types, os, lo, hi) ==
  \A k \in lo.objects + 1..hi.objects : ObjectTyped(types, os[k], types[k], lo, hi)

\* The n first objects have the types they had, and the indexes of their items.
Carried(types, os, types2, os2, n) ==
  \A j \in 1..n : /\ types2[j] = types[j]
                  /\ 0..ObjLen(os[j]) - 1 \subseteq 0..ObjLen(os2[j]) - 1

\* What a value refers to, by its type.
LEMMA TypesApart ==
  /\ VStr \notin Handles /\ VBool \notin Handles /\ VStr # VBool /\ VInt \notin Handles \cup {VStr, VBool}
  /\ {VArr, VMap, VBytes, VMoney, VFile, VObject, VObjList} \subseteq Handles /\ Owned \subseteq Handles
  /\ VStr \notin Owned /\ VBool \notin Owned
BY DEF VStr, VBool, VInt, Handles, Owned, VArr, VMap, VBytes, VMoney, VFile, VObject, VObjList

\* What a value denotes, one kind of type at a time.
LEMMA DenotesOf ==
  ASSUME NEW types, NEW v, NEW t, NEW lo, NEW hi
  PROVE  /\ MainType(t) = VStr => (Denotes(types, v, t, lo, hi) <=> v \in lo.strings..hi.strings - 1)
         /\ MainType(t) \in Handles =>
              (Denotes(types, v, t, lo, hi) <=>
                 /\ v \in 0..hi.objects - 1 /\ types[v + 1] = t
                 /\ MainType(t) \in Owned => v >= lo.objects)
         /\ MainType(t) = VBool => (Denotes(types, v, t, lo, hi) <=> v \in {0, 1})
         /\ MainType(t) \notin Handles \cup {VStr, VBool} => Denotes(types, v, t, lo, hi)
<1> DEFINE m == MainType(t)
<1>1. VStr \notin Handles /\ VBool \notin Handles /\ VStr # VBool
  BY TypesApart
<1>2. CASE m = VStr
  BY <1>1, <1>2 DEF Denotes
<1>3. CASE m \in Handles
  BY <1>1, <1>3 DEF Denotes
<1>4. CASE m = VBool
  BY <1>1, <1>4 DEF Denotes
<1>5. CASE m \notin Handles \cup {VStr, VBool}
  BY <1>5 DEF Denotes
<1> QED BY <1>1, <1>2, <1>3, <1>4, <1>5

\* A value keeps its type when the heap grows.
LEMMA DenotesCarried ==
  ASSUME NEW types, NEW types2, NEW v, NEW t, NEW lo \in MarkType, NEW hi \in MarkType,
         NEW lo2 \in MarkType, NEW hi2 \in MarkType, Below(hi, hi2), Below(lo2, lo),
         \A j \in 1..hi.objects : types2[j] = types[j], Denotes(types, v, t, lo, hi)
  PROVE  Denotes(types2, v, t, lo2, hi2)
<1>1. /\ lo.strings \in Nat /\ hi.strings \in Nat /\ lo2.strings \in Nat /\ hi2.strings \in Nat
      /\ lo.objects \in Nat /\ hi.objects \in Nat /\ lo2.objects \in Nat /\ hi2.objects \in Nat
      /\ hi.strings <= hi2.strings /\ hi.objects <= hi2.objects
      /\ lo2.strings <= lo.strings /\ lo2.objects <= lo.objects
  BY DEF MarkType, Below
<1>2. CASE MainType(t) = VStr
  <2>1. v \in lo.strings..hi.strings - 1
    BY <1>2, DenotesOf
  <2> QED BY <1>1, <1>2, <2>1, DenotesOf
<1>3. CASE MainType(t) # VStr /\ MainType(t) \in Handles
  <2>1. v \in 0..hi.objects - 1 /\ types[v + 1] = t /\ (MainType(t) \in Owned => v >= lo.objects)
    BY <1>3, DenotesOf
  <2>2. v + 1 \in 1..hi.objects
    BY <1>1, <2>1
  <2>3. types2[v + 1] = t
    BY <2>1, <2>2
  <2>4. v \in 0..hi2.objects - 1 /\ (MainType(t) \in Owned => v >= lo2.objects)
    BY <1>1, <2>1
  <2> QED BY <1>3, <2>3, <2>4, DenotesOf
<1>4. CASE MainType(t) # VStr /\ MainType(t) \notin Handles
  BY <1>4, DenotesOf
<1> QED BY <1>2, <1>3, <1>4

\* Of what is never changed it does not matter where it lies.
LEMMA DenotesUnowned ==
  ASSUME NEW types, NEW v, NEW t, NEW lo, NEW hi, NEW lo2,
         MainType(t) # VStr, MainType(t) \notin Owned, Denotes(types, v, t, lo, hi)
  PROVE  Denotes(types, v, t, lo2, hi)
BY DenotesOf, TypesApart

\* Texts of others will do where a container is to be one's own.
LEMMA DenotesAnchor ==
  ASSUME NEW types, NEW v, NEW t, NEW lo \in MarkType, NEW hi \in MarkType,
         Denotes(types, v, t, lo, hi)
  PROVE  Denotes(types, v, t, Anchor(lo), hi)
<1>1. Anchor(lo) \in MarkType /\ Below(Anchor(lo), lo) /\ Below(hi, hi)
  BY DEF MarkType, Below, Anchor
<1> QED BY <1>1, DenotesCarried

\* An object keeps its type when the heap grows.
LEMMA ObjectCarried ==
  ASSUME NEW types, NEW types2, NEW o, NEW t, NEW lo \in MarkType, NEW hi \in MarkType,
         NEW hi2 \in MarkType, Below(hi, hi2),
         \A j \in 1..hi.objects : types2[j] = types[j], ObjectTyped(types, o, t, lo, hi)
  PROVE  ObjectTyped(types2, o, t, lo, hi2)
<1>1. Anchor(lo) \in MarkType /\ Below(Anchor(lo), Anchor(lo))
  BY DEF MarkType, Below, Anchor
<1>2. ASSUME NEW w, NEW u, Denotes(types, w, u, Anchor(lo), hi)
      PROVE  Denotes(types2, w, u, Anchor(lo), hi2)
  BY <1>1, <1>2, DenotesCarried
<1> QED BY <1>2 DEF ObjectTyped

\* So does a cell of the stack.
LEMMA CellCarried ==
  ASSUME NEW types, NEW os, NEW types2, NEW os2, NEW stack, NEW stack2, NEW pos, NEW s,
         NEW lo \in MarkType, NEW end \in MarkType, NEW end2 \in MarkType, Below(end, end2),
         Carried(types, os, types2, os2, end.objects),
         stack2[pos] = stack[pos], stack2[pos - 1] = stack[pos - 1],
         CellIs(types, os, stack, pos, s, lo, end)
  PROVE  CellIs(types2, os2, stack2, pos, s, lo, end2)
<1>1. /\ end.strings \in Nat /\ end2.strings \in Nat /\ end.objects \in Nat /\ end2.objects \in Nat
      /\ end.strings <= end2.strings /\ end.objects <= end2.objects
  BY DEF MarkType, Below
<1>2. Below(lo, lo) /\ \A j \in 1..end.objects : types2[j] = types[j]
  BY DEF MarkType, Below, Carried
<1>3. CASE s.form = "value"
  <2>1. Denotes(types, stack[pos], s.of, lo, end)
    BY <1>3 DEF CellIs
  <2>2. Denotes(types2, stack2[pos], s.of, lo, end2)
    BY <1>2, <2>1, DenotesCarried
  <2> QED BY <1>3, <2>2 DEF CellIs
<1>4. CASE s.form = "shared"
  BY <1>1, <1>4 DEF CellIs
<1>5. CASE s.form \in {"addr", "literal"}
  BY <1>5 DEF CellIs
<1>6. CASE s.form \notin {"value", "shared", "addr", "literal"}
  <2> DEFINE o == stack[pos - 1]
             v == stack[pos]
  <2>1. o \in 0..end.objects - 1 /\ v \in 0..ObjLen(os[o + 1]) - 1
    BY <1>6 DEF CellIs
  <2>2. o + 1 \in 1..end.objects /\ o \in 0..end2.objects - 1
    BY <1>1, <2>1
  <2>3. v \in 0..ObjLen(os2[o + 1]) - 1
    BY <2>1, <2>2 DEF Carried
  <2> QED BY <1>6, <2>2, <2>3 DEF CellIs
<1> QED BY <1>3, <1>4, <1>5, <1>6

\* Cells that are left alone keep their sorts while the heap grows.
LEMMA CellsCarried ==
  ASSUME NEW types, NEW os, NEW types2, NEW os2, NEW stack, NEW stack2, NEW h \in Int,
         NEW ss \in Seq(SortSet), NEW lo \in MarkType, NEW mid \in MarkType, NEW hi \in MarkType,
         NEW mid2 \in MarkType, NEW hi2 \in MarkType,
         Below(mid, hi), Below(mid, mid2), Below(hi, hi2),
         Carried(types, os, types2, os2, hi.objects),
         Alike(stack, stack2, h),
         CellsAre(types, os, stack, h, ss, lo, mid, hi)
  PROVE  CellsAre(types2, os2, stack2, h, ss, lo, mid2, hi2)
<1> SUFFICES ASSUME NEW j \in 1..Len(ss)
             PROVE  CellIs(types2, os2, stack2, h - Len(ss) + j, ss[j], lo, IF ss[j].late THEN hi2 ELSE mid2)
  BY DEF CellsAre
<1>0. Len(ss) \in Nat /\ Len(ss) <= h
  BY DEF CellsAre
<1> DEFINE pos == h - Len(ss) + j
           end == IF ss[j].late THEN hi ELSE mid
           end2 == IF ss[j].late THEN hi2 ELSE mid2
<1>1. CellIs(types, os, stack, pos, ss[j], lo, end)
  BY DEF CellsAre
<1>2. pos \in 0..h /\ pos - 1 \in 0..h
  BY <1>0
<1>3. stack2[pos] = stack[pos] /\ stack2[pos - 1] = stack[pos - 1]
  BY <1>2 DEF Alike
<1>4. end \in MarkType /\ end2 \in MarkType /\ Below(end, end2)
  OBVIOUS
<1>5. Carried(types, os, types2, os2, end.objects)
  <2>1. mid.objects \in Nat /\ hi.objects \in Nat /\ mid.objects <= hi.objects
    BY DEF MarkType, Below
  <2>2. 1..end.objects \subseteq 1..hi.objects
    BY <2>1
  <2> QED BY <2>2 DEF Carried
<1> HIDE DEF pos, end, end2
<1>6. CellIs(types2, os2, stack2, pos, ss[j], lo, end2)
  BY <1>1, <1>3, <1>4, <1>5, CellCarried
<1> QED BY <1>6 DEF pos, end2

\* Variables keep the types of their values while the heap grows.
LEMMA VarsCarried ==
  ASSUME NEW c, NEW types, NEW types2, NEW values, NEW lo \in MarkType, NEW mid \in MarkType,
         NEW mid2 \in MarkType, Below(mid, mid2),
         \A j \in 1..mid.objects : types2[j] = types[j], VarsTyped(c, types, values, lo, mid)
  PROVE  VarsTyped(c, types2, values, lo, mid2)
<1>1. Below(lo, lo)
  BY DEF MarkType, Below
<1>2. ASSUME NEW v, NEW t, Denotes(types, v, t, lo, mid) PROVE Denotes(types2, v, t, lo, mid2)
  BY <1>1, <1>2, DenotesCarried
<1> QED BY <1>2 DEF VarsTyped

\* So do the parameters an activation was given.
LEMMA ParamsCarried ==
  ASSUME NEW c, NEW types, NEW types2, NEW params, NEW lo \in MarkType, NEW mid \in MarkType,
         NEW mid2 \in MarkType, Below(mid, mid2),
         \A j \in 1..mid.objects : types2[j] = types[j], ParamsTyped(c, types, params, lo, mid)
  PROVE  ParamsTyped(c, types2, params, lo, mid2)
<1>1. Below(lo, lo)
  BY DEF MarkType, Below
<1>2. ASSUME NEW v, NEW t, Denotes(types, v, t, lo, mid) PROVE Denotes(types2, v, t, lo, mid2)
  BY <1>1, <1>2, DenotesCarried
<1> QED BY <1>2 DEF ParamsTyped

-----------------------------------------------------------------------------
(***************************************************************************)
(* What can be done with a cell of a sort.                                 *)
(***************************************************************************)

\* A text is read from it.
LEMMA TextRead ==
  ASSUME NEW types, NEW os, NEW stack, NEW pos, NEW s, NEW lo \in MarkType, NEW end \in MarkType,
         CellIs(types, os, stack, pos, s, lo, end), IsText(s)
  PROVE  stack[pos] \in 0..end.strings - 1
<1>1. lo.strings \in Nat /\ end.strings \in Nat
  BY DEF MarkType
<1>2. CASE s.form = "shared"
  BY <1>2 DEF CellIs
<1>3. CASE s.form = "value" /\ MainType(s.of) = VStr
  BY <1>1, <1>3, DenotesOf DEF CellIs
<1> QED BY <1>2, <1>3 DEF IsText, IsOf

\* A variable takes it.
LEMMA StoresDenotes ==
  ASSUME NEW types, NEW os, NEW stack, NEW pos, NEW s, NEW t, NEW lo \in MarkType,
         NEW end \in MarkType, CellIs(types, os, stack, pos, s, lo, end), Stores(s, t)
  PROVE  Denotes(types, stack[pos], t, lo, end)
<1>1. VStr # VBool /\ VStr \notin Handles /\ VBool \notin Handles
  BY TypesApart
<1>2. CASE MainType(t) = VStr
  <2>1. s.form = "value" /\ MainType(s.of) = VStr
    BY <1>1, <1>2 DEF Stores, IsOf
  <2> QED BY <1>2, <2>1, DenotesOf DEF CellIs
<1>3. CASE MainType(t) = VBool
  <2>1. (s.form = "value" /\ MainType(s.of) = VBool) \/ (s.form = "literal" /\ s.of \in {0, 1})
    BY <1>1, <1>3 DEF Stores, IsOf
  <2> QED BY <1>1, <1>3, <2>1, DenotesOf DEF CellIs
<1>4. CASE MainType(t) \in Handles
  <2>1. s.form = "value" /\ s.of = t
    BY <1>1, <1>4 DEF Stores, Reads
  <2> QED BY <2>1 DEF CellIs
<1>5. CASE MainType(t) \notin Handles \cup {VStr, VBool}
  BY <1>5, DenotesOf
<1> QED BY <1>2, <1>3, <1>4, <1>5

\* An item takes it.
LEMMA ContainsDenotes ==
  ASSUME NEW types, NEW os, NEW stack, NEW pos, NEW s, NEW t, NEW lo \in MarkType,
         NEW end \in MarkType, CellIs(types, os, stack, pos, s, lo, end), Contains(s, t)
  PROVE  Denotes(types, stack[pos], t, Anchor(lo), end)
<1>1. CASE Stores(s, t)
  BY <1>1, StoresDenotes, DenotesAnchor
<1>2. CASE MainType(t) = VStr /\ IsText(s)
  BY <1>2, TextRead, DenotesOf DEF Anchor
<1> QED BY <1>1, <1>2 DEF Contains

\* It serves whoever expects another.
LEMMA ServesCell ==
  ASSUME NEW types, NEW os, NEW stack, NEW pos, NEW s \in SortSet, NEW r \in SortSet,
         NEW lo \in MarkType, NEW mid \in MarkType, NEW hi \in MarkType, Below(mid, hi),
         CellIs(types, os, stack, pos, s, lo, IF s.late THEN hi ELSE mid), Serves(s, r),
         Carried(types, os, types, os, hi.objects)
  PROVE  CellIs(types, os, stack, pos, r, lo, IF r.late THEN hi ELSE mid)
<1> DEFINE end == IF s.late THEN hi ELSE mid
           end2 == IF r.late THEN hi ELSE mid
<1>1. end \in MarkType /\ end2 \in MarkType /\ Below(end, end2)
  BY DEF Serves, Below, MarkType
<1> HIDE DEF end
<1>2. CASE r.form = "value"
  <2>1. Stores(s, r.of)
    BY <1>2 DEF Serves
  <2>2. Denotes(types, stack[pos], r.of, lo, end)
    BY <1>1, <2>1, StoresDenotes DEF end
  <2>3. Denotes(types, stack[pos], r.of, lo, end2)
    <3>1. Below(lo, lo)
      BY DEF MarkType, Below
    <3> HIDE DEF end2
    <3> QED BY <1>1, <2>2, <3>1, DenotesCarried
  <2> QED BY <1>2, <2>3 DEF CellIs
<1>3. CASE r.form = "shared"
  <2>1. IsText(s)
    BY <1>3 DEF Serves
  <2>2. stack[pos] \in 0..end.strings - 1
    BY <1>1, <2>1, TextRead DEF end
  <2>3. end.strings \in Nat /\ end2.strings \in Nat /\ end.strings <= end2.strings
    BY <1>1 DEF MarkType, Below
  <2>4. stack[pos] \in 0..end2.strings - 1
    <3> HIDE DEF end2
    <3> QED BY <2>2, <2>3
  <2> QED BY <1>3, <2>4 DEF CellIs
<1>4. CASE r.form \notin {"value", "shared"}
  <2>1. s.form = r.form /\ s.of = r.of
    BY <1>4 DEF Serves
  <2>2. CASE r.form \in {"addr", "literal"}
    BY <2>1, <2>2 DEF CellIs
  <2>3. CASE r.form \notin {"addr", "literal"}
    <3>1. stack[pos - 1] \in 0..end.objects - 1 /\ stack[pos] \in 0..ObjLen(os[stack[pos - 1] + 1]) - 1
      BY <1>4, <2>1, <2>3 DEF CellIs, end
    <3>2. end.objects \in Nat /\ end2.objects \in Nat /\ end.objects <= end2.objects
      BY <1>1 DEF MarkType, Below
    <3>3. stack[pos - 1] \in 0..end2.objects - 1
      <4> HIDE DEF end2
      <4> QED BY <3>1, <3>2
    <3> QED BY <1>4, <2>3, <3>1, <3>3 DEF CellIs
  <2> QED BY <2>2, <2>3
<1> QED BY <1>2, <1>3, <1>4

\* Cells that cover what is expected are what is expected.
LEMMA CoversCells ==
  ASSUME NEW types, NEW os, NEW stack, NEW h \in Int, NEW ss \in Seq(SortSet),
         NEW rs \in Seq(SortSet), NEW lo \in MarkType, NEW mid \in MarkType, NEW hi \in MarkType,
         Below(mid, hi), CellsAre(types, os, stack, h, ss, lo, mid, hi), Covers(ss, rs)
  PROVE  CellsAre(types, os, stack, h, rs, lo, mid, hi)
<1> SUFFICES ASSUME NEW j \in 1..Len(rs)
             PROVE  CellIs(types, os, stack, h - Len(rs) + j, rs[j], lo, IF rs[j].late THEN hi ELSE mid)
  <2>1. Len(rs) \in Nat /\ Len(ss) \in Nat /\ Len(rs) <= Len(ss) /\ Len(ss) <= h
    BY DEF Covers, CellsAre
  <2> QED BY <2>1 DEF CellsAre
<1> DEFINE i == Len(ss) - Len(rs) + j
<1>1. Len(rs) <= Len(ss) /\ Serves(ss[i], rs[j])
  BY DEF Covers
<1>2. i \in 1..Len(ss) /\ h - Len(ss) + i = h - Len(rs) + j
  BY <1>1
<1>3. CellIs(types, os, stack, h - Len(rs) + j, ss[i], lo, IF ss[i].late THEN hi ELSE mid)
  BY <1>2 DEF CellsAre
<1>4. ss[i] \in SortSet /\ rs[j] \in SortSet
  BY <1>2
<1>5. Carried(types, os, types, os, hi.objects)
  BY DEF Carried
<1> HIDE DEF i
<1> QED BY <1>1, <1>3, <1>4, <1>5, ServesCell

-----------------------------------------------------------------------------
(***************************************************************************)
(* The heap belongs to the activations in turn: that of the n-th caller    *)
(* lies between Lower(n) and Edge(n), that of the activation that runs     *)
(* begins at Ground.  While it passes parameters, the copies that are not  *)
(* its own lie behind Middle.                                              *)
(***************************************************************************)
Edge(n) ==
  IF callers[n].isParContract THEN LastMark(callers[n])
  ELSE (IF n < Len(callers) THEN callers[n + 1] ELSE act).counts[1]
Lower(n) == IF n = 1 THEN Bottom ELSE Edge(n - 1)
Ground   == Lower(Len(callers) + 1)
Middle   == IF act.isParContract THEN LastMark(act) ELSE Mark
EdgesRight ==
  /\ Bottom \in MarkType /\ Below(Bottom, Base) /\ Below(Base, Mark)
  /\ \A n \in DOMAIN callers : /\ Edge(n) \in MarkType /\ Below(Base, Edge(n))
                               /\ Below(Edge(n), Mark)
  /\ \A n, m \in DOMAIN callers : n <= m => Below(Edge(n), Edge(m))

(***************************************************************************)
(* The cells that the caller of a function has below those of the function *)
(* are as they were at the call.                                           *)
(***************************************************************************)
CallsTyped(c, l, k, types, os, a, lo, mid) ==
  \A n \in DOMAIN a.calls :
    LET f == Opened(c, a.calls, n)
        q == a.calls[n].ret - 2
        h == Floor(c, l, a.calls, n)
    IN f \notin l.lost =>
         /\ CellsAre(types, os, a.stack, h, Kept(k.at[q], k.at[f]), lo, mid, mid)
         /\ Opened(c, a.calls, n - 1) \notin l.lost =>
              a.calls[n].top = Floor(c, l, a.calls, n - 1) + Len(k.at[q])
         /\ \A m \in n..Len(a.calls) :
              Opened(c, a.calls, m) \notin l.lost /\ h <= Floor(c, l, a.calls, m)

\* Activation a stands at p with h cells on its stack: they are as the sorts k say.
StackTyped(c, l, k, types, os, a, p, h, lo, mid, hi) ==
  p \in Starts(c) =>
    /\ CellsAre(types, os, a.stack, h, k.at[p], lo, mid, hi)
    /\ Owner(c, p) \notin l.lost => h = Floor(c, l, a.calls, Len(a.calls)) + Len(k.at[p])
LocalsTyped(c, l, k, types, os, a, lo, mid) ==
  /\ VarsTyped(c, types, a.Vars, lo, mid)
  /\ ParamsTyped(c, types, a.params, lo, mid)
  /\ CallsTyped(c, l, k, types, os, a, lo, mid)

\* The parameters passed so far are those that the code passes.
ParsTyped(types, a, ps, mid, hi) ==
  /\ a.isParContract <=> ps # <<>>
  /\ Len(a.pars) = 2 * Len(ps)
  /\ \A j \in 1..Len(ps) : /\ a.pars[2 * j - 1] = ps[j][1]
                           /\ Denotes(types, a.pars[2 * j], ps[j][2], mid, hi)

\* The activation that runs, and the n-th of those that wait for a contract they called.
RunTyped(k, types) ==
  /\ LocalsTyped(cnt, Here, k, types, Objects, act, Ground, Middle)
  /\ StackTyped(cnt, Here, k, types, Objects, act, act.i, act.top, Ground, Middle, Mark)
  /\ act.i \in Starts(cnt) => ParsTyped(types, act, k.pars[act.i], Middle, Mark)
  /\ HeapTyped(types, Objects, Ground, Middle) /\ HeapTyped(types, Objects, Middle, Mark)
WaitTyped(c, l, k, types, os, a, lo, hi) ==
  LET q == a.i - 2
  IN /\ q \in Starts(c) /\ c.code[q + 1] = CALLCONTRACT /\ l.at[q] \in Nat
     /\ LocalsTyped(c, l, k, types, os, a, lo, hi)
     /\ StackTyped(c, l, k, types, os, a, q, a.top - 1, lo, hi, hi)
     /\ HeapTyped(types, os, lo, hi)
WaitingTyped(e, types, os, n) ==
  LET c == prog.contracts[callers[n].cnt]
  IN WaitTyped(c, Levels(prog, c), Sorts(prog, e, c), types, os, callers[n], Lower(n), Edge(n))

FramesTyped(e, types) ==
  /\ types \in Seq(Nat) /\ Len(types) = Len(Objects) /\ KindsTyped(types, Objects)
  /\ \A j \in DOMAIN prog.env : Denotes(types, prog.env[j], e[j], Origin, Base)
  /\ EdgesRight
  /\ \A n \in DOMAIN callers : WaitingTyped(e, types, Objects, n)
  /\ status \in {"running", "panic"} => RunTyped(Sorts(prog, e, cnt), types)

CompiledFor(e) == /\ CodeVerified /\ e \in [DOMAIN prog.env -> EnvTypes]
                  /\ HandedOver(e) /\ ContractsTyped(e)
TypeIInv ==
  /\ CodeIInv
  /\ \A e : CompiledFor(e) /\ status \in {"running", "unwinding", "panic"} =>
              \E types : FramesTyped(e, types)

-----------------------------------------------------------------------------
(***************************************************************************)
(* The marks of the activation that runs.                                  *)
(***************************************************************************)
LEMMA RunningBounds ==
  ASSUME IInv, EdgesRight, status \in {"running", "panic"}
  PROVE  /\ Ground \in MarkType /\ Middle \in MarkType /\ Mark \in MarkType
         /\ Below(Ground, Middle) /\ Below(Middle, Mark) /\ Below(Ground, Mark)
         /\ ~act.isParContract => Middle = Mark
<1>1. TypeOK /\ MarksAscend
  BY DEF IInv, HeapMarks
<1>2. Mark \in MarkType
  BY <1>1, MarkTyped
<1>3. /\ Ascending(callers, act.counts[1]) /\ OwnMarks(act) /\ Below(LastMark(act), Mark)
      /\ act \in ActivationType
  BY <1>1, RunningMarks DEF TypeOK
<1>4. act.counts[1] \in MarkType /\ LastMark(act) \in MarkType
  BY <1>3, MarksTyped
<1>5. Below(act.counts[1], LastMark(act))
  BY <1>3 DEF OwnMarks
<1>6. Middle \in MarkType /\ Below(LastMark(act), Middle) /\ Below(Middle, Mark)
  BY <1>2, <1>3, <1>4, BelowOrder DEF Middle
<1>7. Below(act.counts[1], Middle)
  BY <1>4, <1>5, <1>6, BelowOrder
<1>8. Ground \in MarkType /\ Below(Ground, act.counts[1])
  <2>1. CASE callers = <<>>
    <3>1. Ground = Bottom
      BY <1>1, <2>1 DEF Ground, Lower
    <3>2. act.counts[1] = Base
      BY <1>1, <2>1, RunningMarks DEF IInv, HeapMarks
    <3> QED BY <3>1, <3>2 DEF EdgesRight
  <2>2. CASE callers # <<>>
    <3>1. Len(callers) \in Nat \ {0} /\ Ground = Edge(Len(callers)) /\ Len(callers) \in DOMAIN callers
      <4>1. callers \in Seq(ActivationType)
        BY <1>1 DEF TypeOK
      <4> QED BY <2>2, <4>1 DEF Ground, Lower
    <3>2. Edge(Len(callers)) \in MarkType
      BY <3>1 DEF EdgesRight
    <3>3. CASE callers[Len(callers)].isParContract
      <4>1. Edge(Len(callers)) = LastMark(callers[Len(callers)])
        BY <3>3 DEF Edge
      <4> QED BY <1>3, <3>1, <3>2, <4>1 DEF Ascending
    <3>4. CASE ~callers[Len(callers)].isParContract
      <4>1. Edge(Len(callers)) = act.counts[1]
        BY <3>1, <3>4 DEF Edge
      <4> QED BY <1>4, <3>1, <4>1, BelowOrder
    <3> QED BY <3>3, <3>4
  <2> QED BY <2>1, <2>2
<1>9. Below(Ground, Middle) /\ Below(Ground, Mark)
  BY <1>2, <1>4, <1>6, <1>7, <1>8, BelowOrder
<1> QED BY <1>2, <1>6, <1>8, <1>9 DEF Middle

\* What was given to the contract that is run is settled at the start.
LEMMA BottomKept ==
  ASSUME UNCHANGED prog
  PROVE  Bottom' = Bottom /\ Base' = Base
BY DEF Bottom, Base

\* As long as an activation runs, its callers keep their places.
LEMMA EdgesKept ==
  ASSUME TypeOK, UNCHANGED <<prog, callers>>, act'.counts[1] = act.counts[1]
  PROVE  /\ \A n \in DOMAIN callers : Edge(n)' = Edge(n) /\ Lower(n)' = Lower(n)
         /\ Ground' = Ground
<1>1. callers \in Seq(ActivationType)
  BY DEF TypeOK
<1>2. \A n \in DOMAIN callers : Edge(n)' = Edge(n)
  BY <1>1 DEF Edge, LastMark
<1>3. \A n \in 1..Len(callers) + 1 : Lower(n)' = Lower(n)
  <2> SUFFICES ASSUME NEW n \in 1..Len(callers) + 1 PROVE Lower(n)' = Lower(n)
    OBVIOUS
  <2>1. CASE n = 1
    BY <2>1, BottomKept DEF Lower
  <2>2. CASE n # 1
    <3>1. n - 1 \in DOMAIN callers
      BY <1>1, <2>2
    <3> QED BY <1>2, <2>2, <3>1 DEF Lower
  <2> QED BY <2>1, <2>2
<1> QED BY <1>1, <1>2, <1>3 DEF Ground

-----------------------------------------------------------------------------
(***************************************************************************)
(* What the sorts say of one instruction.                                  *)
(***************************************************************************)

\* The code of a contract with levels and sorts that are right.
Checked(g, e, c, l, k) == /\ c \in Contract /\ Packed(c) /\ Verified(c)
                          /\ Balanced(g, c, l) /\ WellTyped(g, e, c, l, k)

\* The sorts the verifier found are sequences of sorts.
LEMMA SortsOf ==
  ASSUME NEW g, NEW e, NEW c, NEW l, NEW k, Checked(g, e, c, l, k), NEW p \in Starts(c)
  PROVE  /\ k.at[p] \in Seq(SortSet) /\ Len(k.at[p]) \in Nat /\ k.pars[p] \in Seq(Nat \X Nat)
         /\ \A f \in Entries(c) \cup {Main} : k.gives[f] \in Seq(SortSet)
BY DEF Checked, WellTyped

\* What holds before and after an instruction that code reaches, by its opcode.
LEMMA TypedOf ==
  ASSUME NEW g, NEW e, NEW c, NEW l, NEW k, Checked(g, e, c, l, k), NEW p \in Starts(c),
         l.at[p] \in Nat
  PROVE  LET op == c.code[p + 1]
             ss == k.at[p]
             ps == k.pars[p]
             o  == Owner(c, p)
             next == p + Length(c.code, p)
             rest == SubSeq(ss, 1, Len(ss) - 1)
         IN /\ Len(ss) = l.at[p] /\ Accepts(g, c, p, ss, ps)
            /\ op = JMP => Arrives(c, l, k, Target(c, p), <<>>, <<>>)
            /\ op = JMPREL => Arrives(c, l, k, Target(c, p), ss, ps)
            /\ op \in {JZE, JNZ} => /\ Arrives(c, l, k, next, rest, ps)
                                    /\ Arrives(c, l, k, Target(c, p), rest, ps)
            /\ op = CALLFUNC => CallTyped(c, l, k, p, Target(c, p))
            /\ op = RETFUNC => /\ Covers(ss, k.gives[o])
                               /\ o \notin l.lost => Len(ss) = Len(k.gives[o])
            /\ op = PARCONTRACT =>
                 Arrives(c, l, k, next, rest, Append(ps, <<c.code[p + 2], c.code[p + 3]>>))
            /\ op = CALLCONTRACT => /\ \A j \in 1..Len(ss) : ~ss[j].late
                                    /\ Passed(g, c, p, ps)
                                    /\ Arrives(c, l, k, next, Append(ss, Value(VStr)), <<>>)
            /\ op \notin Turns \cup {PARCONTRACT, CALLCONTRACT} =>
                 Arrives(c, l, k, next, After(g, e, c, p, ss, ps), ps)
<1>1. StepTyped(g, e, c, l, k, p)
  BY DEF Checked, WellTyped, Unreached
<1> DEFINE op == c.code[p + 1]
           ss == k.at[p]
           ps == k.pars[p]
           o  == Owner(c, p)
           next == p + Length(c.code, p)
           rest == SubSeq(ss, 1, Len(ss) - 1)
           jmp == Arrives(c, l, k, Target(c, p), <<>>, <<>>)
           rel == Arrives(c, l, k, Target(c, p), ss, ps)
           past == Arrives(c, l, k, next, rest, ps)
           back == Arrives(c, l, k, Target(c, p), rest, ps)
           call == CallTyped(c, l, k, p, Target(c, p))
           gives == Covers(ss, k.gives[o])
           even == o \notin l.lost => Len(ss) = Len(k.gives[o])
           par == Arrives(c, l, k, next, rest, Append(ps, <<c.code[p + 2], c.code[p + 3]>>))
           late == \A j \in 1..Len(ss) : ~ss[j].late
           passed == Passed(g, c, p, ps)
           text == Arrives(c, l, k, next, Append(ss, Value(VStr)), <<>>)
           on == Arrives(c, l, k, next, After(g, e, c, p, ss, ps), ps)
<1>2. /\ Len(ss) = l.at[p] /\ Accepts(g, c, p, ss, ps)
      /\ CASE op = RETURN -> TRUE
           [] op = JMP -> jmp
           [] op = JMPREL -> rel
           [] op \in {JZE, JNZ} -> past /\ back
           [] op = CALLFUNC -> call
           [] op = RETFUNC -> gives /\ even
           [] op = PARCONTRACT -> par
           [] op = CALLCONTRACT -> late /\ passed /\ text
           [] OTHER -> on
  BY <1>1 DEF StepTyped
<1> HIDE DEF op, ss, ps, o, next, rest, jmp, rel, past, back, call, gives, even, par, late, passed, text, on
<1>3. /\ op = JMP => jmp
      /\ op = JMPREL => rel
      /\ op \in {JZE, JNZ} => past /\ back
      /\ op = CALLFUNC => call
      /\ op = RETFUNC => gives /\ even
      /\ op = PARCONTRACT => par
      /\ op = CALLCONTRACT => late /\ passed /\ text
      /\ op \notin Turns \cup {PARCONTRACT, CALLCONTRACT} => on
  BY <1>2 DEF Turns, RETURN, JMP, JMPREL, JZE, JNZ, CALLFUNC, RETFUNC, PARCONTRACT, CALLCONTRACT
<1> QED BY <1>2, <1>3 DEF op, ss, ps, o, next, rest, jmp, rel, past, back, call, gives, even, par, late, passed, text, on

\* An instruction that code reaches accepts the sorts it is reached with.
LEMMA AcceptedOf ==
  ASSUME NEW g, NEW e, NEW c, NEW l, NEW k, Checked(g, e, c, l, k), NEW p \in Starts(c),
         l.at[p] \in Nat
  PROVE  Len(k.at[p]) = l.at[p] /\ Accepts(g, c, p, k.at[p], k.pars[p])
<1>1. StepTyped(g, e, c, l, k, p)
  BY DEF Checked, WellTyped, Unreached
<1> QED BY <1>1 DEF StepTyped

\* A call that code reaches fits the function it enters.
LEMMA CallTypedOf ==
  ASSUME NEW g, NEW e, NEW c, NEW l, NEW k, Checked(g, e, c, l, k), NEW p \in Starts(c),
         l.at[p] \in Nat, c.code[p + 1] = CALLFUNC
  PROVE  CallTyped(c, l, k, p, Target(c, p))
BY TypedOf, Zenon

\* The n-th function an activation has called, and the place where it did.
CallKnown(c, l, k, calls, n) ==
  LET f == Opened(c, calls, n)
      q == calls[n].ret - 2
  IN /\ q \in Starts(c) /\ f \in Starts(c) /\ f = Target(c, q) /\ q + 2 = calls[n].ret
     /\ Owner(c, q) = Opened(c, calls, n - 1)
     /\ Owner(c, q + 2) = Opened(c, calls, n - 1)
     /\ f \in l.lost => Opened(c, calls, n - 1) \in l.lost
     /\ Floor(c, l, calls, n) \in Nat /\ Floor(c, l, calls, n - 1) \in Nat
     /\ k.at[q] \in Seq(SortSet) /\ k.at[f] \in Seq(SortSet) /\ CallTyped(c, l, k, q, f)
     /\ Len(k.at[f]) = l.at[f] /\ Len(k.at[f]) <= Len(k.at[q])
     /\ Kept(k.at[q], k.at[f]) \in Seq(SortSet)
     /\ Len(Kept(k.at[q], k.at[f])) = Len(k.at[q]) - Len(k.at[f])
     /\ \A j \in 1..Len(Kept(k.at[q], k.at[f])) : Kept(k.at[q], k.at[f])[j] = k.at[q][j]
                                                  /\ ~k.at[q][j].late

\* A call on the call stack was made by a CALLFUNC the verifier looked at.
LEMMA CallSite ==
  ASSUME NEW g, NEW e, NEW c, NEW l, NEW k, Checked(g, e, c, l, k),
         NEW a \in ActivationType, AlignedIn(c, a), LevelledIn(c, l, a), NEW n \in DOMAIN a.calls
  PROVE  CallKnown(c, l, k, a.calls, n)
<1> DEFINE r == a.calls[n].ret
           q == r - 2
           f == Opened(c, a.calls, n)
           h == a.calls[n].top
           o == Opened(c, a.calls, n - 1)
<1>1. a.calls \in Seq(Returns) /\ a.calls[n] \in Returns /\ n \in 1..Len(a.calls) /\ n # 0
  BY DEF ActivationType
<1>2. r \in Int /\ h \in Int /\ q \in Int /\ q + 2 = r
  BY <1>1 DEF Returns
<1>3. q \in Starts(c) /\ c.code[q + 1] = CALLFUNC
  <2>1. Entered(c, r) /\ r - 1 = q + 1
    BY <1>2 DEF AlignedIn
  <2> QED BY <2>1 DEF Entered
<1>4. f = Target(c, q)
  BY <1>1 DEF Opened
<1>5. FrameRight(c, l, a.calls, n - 1, q, h)
  BY DEF LevelledIn
<1>6. Owner(c, q) = o /\ Floor(c, l, a.calls, n - 1) \in Nat /\ l.at[q] \in Nat
  BY <1>3, <1>5 DEF FrameRight
<1>7. CallsRight(c, l, q, f)
  <2>1. Balanced(g, c, l)
    BY DEF Checked
  <2> HIDE DEF q, f
  <2> QED BY <1>3, <1>4, <1>6, <2>1, StepOf
<1>8. /\ f \in Starts(c) /\ l.at[f] \in 0..l.at[q] /\ l.at[f] \in Nat
      /\ f \in l.lost => o \in l.lost
      /\ Owner(c, q + 2) = o
  BY <1>6, <1>7 DEF CallsRight, Leads
<1>9. Floor(c, l, a.calls, n) \in Nat
  <2>1. CASE f \in l.lost
    BY <2>1 DEF Floor
  <2>2. CASE f \notin l.lost
    <3>1. Floor(c, l, a.calls, n) = h - l.at[f]
      BY <1>1, <2>2 DEF Floor
    <3>2. h >= Floor(c, l, a.calls, n - 1) + l.at[q]
      BY <1>3, <1>5 DEF FrameRight
    <3> HIDE DEF h, q, f
    <3> QED BY <1>2, <1>6, <1>8, <3>1, <3>2
  <2> QED BY <2>1, <2>2
<1>10. /\ k.at[q] \in Seq(SortSet) /\ k.at[f] \in Seq(SortSet)
       /\ Len(k.at[q]) = l.at[q] /\ Len(k.at[f]) = l.at[f]
       /\ Accepts(g, c, q, k.at[q], k.pars[q])
       /\ CallTyped(c, l, k, q, f)
  <2> HIDE DEF q, f
  <2>1. k.at[q] \in Seq(SortSet) /\ k.at[f] \in Seq(SortSet)
    BY <1>3, <1>8, SortsOf
  <2>2. Len(k.at[f]) = l.at[f]
    BY <1>8, AcceptedOf
  <2>3. /\ Len(k.at[q]) = l.at[q] /\ Accepts(g, c, q, k.at[q], k.pars[q])
        /\ CallTyped(c, l, k, q, Target(c, q))
    BY <1>3, <1>6, AcceptedOf, CallTypedOf
  <2> QED BY <1>3, <1>4, <2>1, <2>2, <2>3
<1>11. \A j \in 1..Len(k.at[q]) : ~k.at[q][j].late
  <2>1. k.pars[q] = <<>>
    <3>1. CALLFUNC \in Stores1
      BY DEF Stores1
    <3> HIDE DEF q
    <3> QED BY <1>3, <1>10, <3>1 DEF Accepts, Keeps
  <2> HIDE DEF q
  <2> QED BY <1>10, <2>1 DEF Accepts
<1>12. /\ Len(k.at[f]) <= Len(k.at[q])
       /\ Kept(k.at[q], k.at[f]) \in Seq(SortSet)
       /\ Len(Kept(k.at[q], k.at[f])) = Len(k.at[q]) - Len(k.at[f])
       /\ \A j \in 1..Len(Kept(k.at[q], k.at[f])) : /\ Kept(k.at[q], k.at[f])[j] = k.at[q][j]
                                                    /\ j \in 1..Len(k.at[q])
  <2> DEFINE ss == k.at[q]
             rs == k.at[f]
             d == Len(ss) - Len(rs)
  <2>1. ss \in Seq(SortSet) /\ rs \in Seq(SortSet) /\ Len(rs) <= Len(ss)
    BY <1>10 DEF CallTyped, Covers
  <2> HIDE DEF ss, rs
  <2>2. d \in Nat /\ d <= Len(ss)
    BY <2>1
  <2>3. Kept(ss, rs) \in Seq(SortSet) /\ Len(Kept(ss, rs)) = d /\ \A i \in 1..d : Kept(ss, rs)[i] = ss[i]
    <3> HIDE DEF d
    <3>1. Kept(ss, rs) = SubSeq(ss, 1, d)
      BY DEF Kept, d
    <3> QED BY <2>1, <2>2, <3>1, Prefix
  <2>4. \A i \in 1..d : i \in 1..Len(ss)
    BY <2>2
  <2>5. /\ Len(rs) <= Len(ss) /\ Kept(ss, rs) \in Seq(SortSet)
        /\ Len(Kept(ss, rs)) = Len(ss) - Len(rs)
        /\ \A j \in 1..Len(Kept(ss, rs)) : Kept(ss, rs)[j] = ss[j] /\ j \in 1..Len(ss)
    BY <2>1, <2>3, <2>4
  <2> QED BY <2>5 DEF ss, rs
<1> HIDE DEF q, f, r
<1>13. \A j \in 1..Len(Kept(k.at[q], k.at[f])) : /\ Kept(k.at[q], k.at[f])[j] = k.at[q][j]
                                                 /\ ~k.at[q][j].late
  BY <1>11, <1>12
<1> QED BY <1>2, <1>3, <1>4, <1>6, <1>8, <1>9, <1>10, <1>12, <1>13 DEF CallKnown, q, f, r, o

-----------------------------------------------------------------------------
(***************************************************************************)
(* What an activation knows holds on when the heap grows, and what is      *)
(* below Floor on its stack is not touched.                                *)
(***************************************************************************)
LEMMA CallsCarried ==
  ASSUME NEW c, NEW l, NEW k, NEW types, NEW os, NEW types2, NEW os2, NEW a, NEW b,
         NEW lo \in MarkType, NEW mid \in MarkType, NEW mid2 \in MarkType, Below(mid, mid2),
         Carried(types, os, types2, os2, mid.objects),
         a.calls \in Seq(Returns), b.calls = a.calls,
         \A n \in DOMAIN a.calls : CallKnown(c, l, k, a.calls, n),
         Alike(a.stack, b.stack, Floor(c, l, a.calls, Len(a.calls))),
         CallsTyped(c, l, k, types, os, a, lo, mid)
  PROVE  CallsTyped(c, l, k, types2, os2, b, lo, mid2)
<1> SUFFICES ASSUME NEW n \in DOMAIN a.calls, Opened(c, a.calls, n) \notin l.lost
             PROVE  CellsAre(types2, os2, b.stack, Floor(c, l, a.calls, n),
                             Kept(k.at[a.calls[n].ret - 2], k.at[Opened(c, a.calls, n)]), lo, mid2, mid2)
  BY DEF CallsTyped
<1> DEFINE h == Floor(c, l, a.calls, n)
           top == Floor(c, l, a.calls, Len(a.calls))
           ss == Kept(k.at[a.calls[n].ret - 2], k.at[Opened(c, a.calls, n)])
<1>1. n \in 1..Len(a.calls) /\ Len(a.calls) \in n..Len(a.calls) /\ Len(a.calls) \in DOMAIN a.calls
  OBVIOUS
<1>2. h \in Nat /\ ss \in Seq(SortSet)
  BY DEF CallKnown
<1>3. top \in Nat
  BY <1>1 DEF CallKnown
<1>4. h <= top /\ CellsAre(types, os, a.stack, h, ss, lo, mid, mid)
  BY <1>1 DEF CallsTyped
<1> HIDE DEF h, ss, top
<1>5. Alike(a.stack, b.stack, h)
  BY <1>2, <1>3, <1>4 DEF top, Alike
<1>6. Below(mid, mid)
  BY DEF Below, MarkType
<1> QED BY <1>2, <1>4, <1>5, <1>6, CellsCarried DEF h, ss

\* The objects below a mark keep their types while the heap grows above it.
LEMMA HeapCarried ==
  ASSUME NEW types, NEW os, NEW types2, NEW os2, NEW lo \in MarkType, NEW hi \in MarkType,
         NEW hi2 \in MarkType, Below(hi, hi2), \A j \in 1..hi.objects : types2[j] = types[j] /\ os2[j] = os[j],
         HeapTyped(types, os, lo, hi)
  PROVE  \A j \in lo.objects + 1..hi.objects : ObjectTyped(types2, os2[j], types2[j], lo, hi2)
<1> SUFFICES ASSUME NEW j \in lo.objects + 1..hi.objects
             PROVE  ObjectTyped(types2, os2[j], types2[j], lo, hi2)
  OBVIOUS
<1>1. j \in 1..hi.objects
  BY DEF MarkType
<1>2. ObjectTyped(types, os[j], types[j], lo, hi)
  BY DEF HeapTyped
<1>3. os2[j] = os[j] /\ types2[j] = types[j]
  BY <1>1
<1> QED BY <1>2, <1>3, ObjectCarried

\* An activation that waits does not mind what is done behind its part of the heap.
LEMMA WaitCarried ==
  ASSUME NEW g, NEW e, NEW c, NEW l, NEW k, Checked(g, e, c, l, k),
         NEW types, NEW os, NEW types2, NEW os2, NEW a \in ActivationType,
         NEW lo \in MarkType, NEW hi \in MarkType,
         \A n \in DOMAIN a.calls : CallKnown(c, l, k, a.calls, n),
         \A j \in 1..hi.objects : types2[j] = types[j] /\ os2[j] = os[j],
         WaitTyped(c, l, k, types, os, a, lo, hi)
  PROVE  WaitTyped(c, l, k, types2, os2, a, lo, hi)
<1> DEFINE q == a.i - 2
<1>1. Below(hi, hi) /\ Carried(types, os, types2, os2, hi.objects) /\ a.calls \in Seq(Returns)
  BY DEF Below, MarkType, Carried, ActivationType
<1>2. /\ q \in Starts(c) /\ c.code[q + 1] = CALLCONTRACT /\ l.at[q] \in Nat
      /\ LocalsTyped(c, l, k, types, os, a, lo, hi)
      /\ StackTyped(c, l, k, types, os, a, q, a.top - 1, lo, hi, hi)
      /\ HeapTyped(types, os, lo, hi)
  BY DEF WaitTyped
<1>3. LocalsTyped(c, l, k, types2, os2, a, lo, hi)
  <2>1. VarsTyped(c, types2, a.Vars, lo, hi)
    BY <1>1, <1>2, VarsCarried DEF LocalsTyped
  <2>2. ParamsTyped(c, types2, a.params, lo, hi)
    BY <1>1, <1>2, ParamsCarried DEF LocalsTyped
  <2>3. CallsTyped(c, l, k, types2, os2, a, lo, hi)
    BY <1>1, <1>2, CallsCarried DEF LocalsTyped, Alike
  <2> QED BY <2>1, <2>2, <2>3 DEF LocalsTyped
<1>4. StackTyped(c, l, k, types2, os2, a, q, a.top - 1, lo, hi, hi)
  <2>1. /\ CellsAre(types, os, a.stack, a.top - 1, k.at[q], lo, hi, hi)
        /\ Owner(c, q) \notin l.lost =>
             a.top - 1 = Floor(c, l, a.calls, Len(a.calls)) + Len(k.at[q])
    BY <1>2 DEF StackTyped
  <2>2. k.at[q] \in Seq(SortSet) /\ a.top - 1 \in Int
    BY <1>2, SortsOf DEF ActivationType, Depths
  <2>3. CellsAre(types2, os2, a.stack, a.top - 1, k.at[q], lo, hi, hi)
    BY <1>1, <2>1, <2>2, CellsCarried DEF Alike
  <2> QED BY <2>1, <2>3 DEF StackTyped
<1>5. HeapTyped(types2, os2, lo, hi)
  BY <1>1, <1>2, HeapCarried DEF HeapTyped
<1> QED BY <1>2, <1>3, <1>4, <1>5 DEF WaitTyped

-----------------------------------------------------------------------------
HereSorts(e) == Sorts(prog, e, cnt)
TypedState(e, types) == IInv /\ CodeInv /\ CompiledFor(e) /\ FramesTyped(e, types)

\* Each contract of a typed program has been checked.
LEMMA ContractChecked ==
  ASSUME NEW e, NEW types, TypedState(e, types), NEW n \in DOMAIN prog.contracts
  PROVE  LET c == prog.contracts[n]
         IN Checked(prog, e, c, Levels(prog, c), Sorts(prog, e, c))
<1>1. TypeOK /\ CodeVerified /\ ContractsTyped(e)
  BY DEF TypedState, IInv, CompiledFor
<1>2. LET c == prog.contracts[n]
      IN /\ c \in Contract /\ Packed(c) /\ Verified(c)
         /\ Balanced(prog, c, Levels(prog, c))
  BY <1>1, VerifiedContract
<1>3. LET c == prog.contracts[n]
      IN WellTyped(prog, e, c, Levels(prog, c), Sorts(prog, e, c))
  BY <1>1 DEF ContractsTyped
<1> QED BY <1>2, <1>3 DEF Checked

\* So has the one that runs, and its activation is where the verifier has been.
LEMMA HereChecked ==
  ASSUME NEW e, NEW types, TypedState(e, types)
  PROVE  /\ Checked(prog, e, cnt, Here, HereSorts(e)) /\ act \in ActivationType
         /\ AlignedIn(cnt, act) /\ LevelledIn(cnt, Here, act)
         /\ \A n \in DOMAIN act.calls : CallKnown(cnt, Here, HereSorts(e), act.calls, n)
         /\ TypeOK /\ CodeVerified /\ CodeInv
<1>1. TypeOK /\ CodeVerified /\ CodeInv /\ act \in ActivationType /\ act.cnt \in DOMAIN prog.contracts
  BY DEF TypedState, IInv, CompiledFor, TypeOK
<1>2. Checked(prog, e, cnt, Here, HereSorts(e))
  BY <1>1, ContractChecked DEF cnt, Here, HereSorts
<1>3. AlignedIn(cnt, act) /\ LevelledIn(cnt, Here, act)
  BY <1>1 DEF CodeInv, Aligned, cnt, Here
<1>4. \A n \in DOMAIN act.calls : CallKnown(cnt, Here, HereSorts(e), act.calls, n)
  <2> HIDE DEF CallKnown
  <2> QED BY <1>1, <1>2, <1>3, CallSite
<1> QED BY <1>1, <1>2, <1>3, <1>4

\* So have those that wait, and their activations are where it has been.
LEMMA CallerChecked ==
  ASSUME NEW e, NEW types, TypedState(e, types), NEW n \in DOMAIN callers
  PROVE  LET c == prog.contracts[callers[n].cnt]
             l == Levels(prog, c)
             k == Sorts(prog, e, c)
         IN /\ Checked(prog, e, c, l, k) /\ callers[n] \in ActivationType
            /\ AlignedIn(c, callers[n]) /\ LevelledIn(c, l, callers[n])
            /\ \A j \in DOMAIN callers[n].calls : CallKnown(c, l, k, callers[n].calls, j)
<1> DEFINE c == prog.contracts[callers[n].cnt]
           l == Levels(prog, c)
           k == Sorts(prog, e, c)
           a == callers[n]
<1>1. a \in ActivationType /\ a.cnt \in DOMAIN prog.contracts /\ CodeInv
  BY DEF TypedState, IInv, TypeOK
<1>2. Checked(prog, e, c, l, k)
  BY <1>1, ContractChecked
<1>3. AlignedIn(c, a) /\ LevelledIn(c, l, a)
  BY <1>1 DEF CodeInv, Aligned
<1> HIDE DEF c, l, k, a
<1>4. \A j \in DOMAIN a.calls : CallKnown(c, l, k, a.calls, j)
  <2> HIDE DEF CallKnown
  <2> QED BY <1>1, <1>2, <1>3, CallSite
<1> QED BY <1>1, <1>2, <1>3, <1>4 DEF c, l, k, a

-----------------------------------------------------------------------------
(***************************************************************************)
(* A step of the activation that runs.                                     *)
(***************************************************************************)

\* The heap has types again after the step: what lies below Ground is as it was, and
\* what lay behind has the types it had.
HeapStep(types, types2) ==
  /\ types2 \in Seq(Nat) /\ Len(types2) = Len(Objects')
  /\ Mark' \in MarkType /\ Middle' \in MarkType
  /\ Below(Mark, Mark') /\ Below(Middle, Middle') /\ Below(Middle', Mark')
  /\ KindsTyped(types2, Objects')
  /\ Carried(types, Objects, types2, Objects', Mark.objects)
  /\ \A j \in 1..Ground.objects : Objects'[j] = Objects[j]
  /\ \A j \in 1..Ground.strings : Strings'[j] = Strings[j]
  /\ HeapTyped(types2, Objects', Ground, Middle') /\ HeapTyped(types2, Objects', Middle', Mark')

\* Callers that wait keep their types when the activation that runs takes a step.
LEMMA OthersWait ==
  ASSUME NEW e, NEW types, TypedState(e, types), status = "running", NEW types2,
         types2 \in Seq(Nat), Len(types2) = Len(Objects'), KindsTyped(types2, Objects'),
         Mark' \in MarkType, Below(Ground, Mark'), Below(Base, Mark'),
         \A j \in 1..Ground.objects : types2[j] = types[j] /\ Objects'[j] = Objects[j],
         \A j \in 1..Base.objects : types2[j] = types[j],
         UNCHANGED <<prog, callers>>, act'.counts[1] = act.counts[1]
  PROVE  /\ \A j \in DOMAIN prog.env : Denotes(types2, prog.env[j], e[j], Origin, Base)
         /\ EdgesRight'
         /\ \A n \in DOMAIN callers : WaitingTyped(e, types2, Objects, n)'
<1>1. TypeOK /\ EdgesRight /\ callers \in Seq(ActivationType) /\ IInv
  BY DEF TypedState, IInv, FramesTyped, TypeOK
<1>2. /\ \A n \in DOMAIN callers : Edge(n)' = Edge(n) /\ Lower(n)' = Lower(n)
      /\ Ground' = Ground
  BY <1>1, EdgesKept
<1>3. /\ Ground \in MarkType /\ Base \in MarkType /\ Bottom \in MarkType
      /\ Origin \in MarkType
  <2>1. Ground \in MarkType
    BY <1>1, RunningBounds
  <2>2. prog.strings \in Seq(Text) /\ prog.objects \in Seq(Object)
    BY <1>1 DEF TypeOK, Linked, Program
  <2> QED BY <1>1, <2>1, <2>2 DEF Base, Origin, MarkType, EdgesRight
<1>4. \A n \in DOMAIN callers : Below(Edge(n), Ground) /\ Edge(n) \in MarkType /\ Lower(n) \in MarkType
  <2> SUFFICES ASSUME NEW n \in DOMAIN callers
               PROVE  Below(Edge(n), Ground) /\ Edge(n) \in MarkType /\ Lower(n) \in MarkType
    OBVIOUS
  <2>1. Len(callers) \in Nat \ {0} /\ n \in 1..Len(callers) /\ Len(callers) \in DOMAIN callers
    BY <1>1
  <2>2. Ground = Edge(Len(callers))
    BY <2>1 DEF Ground, Lower
  <2>3. Lower(n) \in MarkType
    <3>1. n # 1 => n - 1 \in DOMAIN callers
      BY <1>1, <2>1
    <3> QED BY <1>1, <1>3, <3>1 DEF Lower, EdgesRight
  <2> QED BY <1>1, <2>1, <2>2, <2>3 DEF EdgesRight
<1>5. \A j \in DOMAIN prog.env : Denotes(types2, prog.env[j], e[j], Origin, Base)
  <2> SUFFICES ASSUME NEW j \in DOMAIN prog.env
               PROVE  Denotes(types2, prog.env[j], e[j], Origin, Base)
    OBVIOUS
  <2>1. Denotes(types, prog.env[j], e[j], Origin, Base)
    BY DEF TypedState, FramesTyped
  <2>2. Below(Base, Base) /\ Below(Origin, Origin)
    BY <1>3, BelowOrder
  <2> QED BY <1>3, <2>1, <2>2, DenotesCarried
<1>6. EdgesRight'
  <2>1. /\ Base' = Base /\ Bottom' = Bottom
        /\ Bottom \in MarkType /\ Below(Bottom, Base)
    BY <1>1, BottomKept DEF EdgesRight
  <2>2. \A n \in DOMAIN callers : Below(Edge(n), Mark')
    <3> SUFFICES ASSUME NEW n \in DOMAIN callers PROVE Below(Edge(n), Mark')
      OBVIOUS
    <3> QED BY <1>3, <1>4, BelowOrder
  <2>3. \A n \in DOMAIN callers : Edge(n) \in MarkType /\ Below(Base, Edge(n))
    BY <1>1 DEF EdgesRight
  <2>4. \A n, m \in DOMAIN callers : n <= m => Below(Edge(n), Edge(m))
    BY <1>1 DEF EdgesRight
  <2> QED BY <1>2, <2>1, <2>2, <2>3, <2>4 DEF EdgesRight
<1>7. \A n \in DOMAIN callers : WaitingTyped(e, types2, Objects, n)'
  <2> SUFFICES ASSUME NEW n \in DOMAIN callers PROVE WaitingTyped(e, types2, Objects, n)'
    OBVIOUS
  <2> DEFINE c == prog.contracts[callers[n].cnt]
             l == Levels(prog, c)
             k == Sorts(prog, e, c)
             a == callers[n]
             lo == Lower(n)
             hi == Edge(n)
  <2>1. /\ Checked(prog, e, c, l, k) /\ a \in ActivationType
        /\ \A j \in DOMAIN a.calls : CallKnown(c, l, k, a.calls, j)
    BY CallerChecked
  <2>2. WaitTyped(c, l, k, types, Objects, a, lo, hi)
    BY DEF TypedState, FramesTyped, WaitingTyped
  <2>3. \A j \in 1..hi.objects : types2[j] = types[j] /\ Objects'[j] = Objects[j]
    <3>1. hi.objects \in Nat /\ Ground.objects \in Nat /\ hi.objects <= Ground.objects
      BY <1>3, <1>4 DEF MarkType, Below
    <3> HIDE DEF hi
    <3> QED BY <3>1
  <2>4. lo \in MarkType /\ hi \in MarkType
    BY <1>4
  <2>5. WaitTyped(c, l, k, types2, Objects', a, lo, hi)
    <3> HIDE DEF c, l, k, a, lo, hi
    <3> QED BY <2>1, <2>2, <2>3, <2>4, WaitCarried
  <2> QED BY <1>2, <2>5 DEF WaitingTyped
<1> QED BY <1>5, <1>6, <1>7

\* The marks around the activation that runs, before the step and after it.
LEMMA StepBounds ==
  ASSUME NEW e, NEW types, TypedState(e, types), status = "running", NEW types2,
         HeapStep(types, types2)
  PROVE  /\ Ground \in MarkType /\ Middle \in MarkType /\ Mark \in MarkType
         /\ Middle' \in MarkType /\ Mark' \in MarkType /\ Base \in MarkType
         /\ Below(Ground, Middle) /\ Below(Middle, Mark) /\ Below(Ground, Mark)
         /\ Below(Middle, Middle') /\ Below(Mark, Mark') /\ Below(Middle', Mark')
         /\ Below(Ground, Middle') /\ Below(Ground, Mark') /\ Below(Base, Mark')
         /\ \A m \in {Ground, Middle, Mark, Base} :
              Carried(types, Objects, types2, Objects', m.objects)
<1>1. IInv /\ EdgesRight /\ TypeOK
  BY DEF TypedState, IInv, FramesTyped
<1>2. /\ Ground \in MarkType /\ Middle \in MarkType /\ Mark \in MarkType
      /\ Below(Ground, Middle) /\ Below(Middle, Mark) /\ Below(Ground, Mark)
  BY <1>1, RunningBounds
<1>3. /\ Middle' \in MarkType /\ Mark' \in MarkType /\ Below(Middle, Middle')
      /\ Below(Mark, Mark') /\ Below(Middle', Mark')
      /\ Carried(types, Objects, types2, Objects', Mark.objects)
  BY DEF HeapStep
<1>4. Base \in MarkType /\ Below(Base, Mark)
  <2>1. prog.strings \in Seq(Text) /\ prog.objects \in Seq(Object)
    BY <1>1 DEF TypeOK, Linked, Program
  <2> QED BY <1>1, <2>1 DEF Base, MarkType, EdgesRight
<1>5. Below(Ground, Middle') /\ Below(Ground, Mark') /\ Below(Base, Mark')
  BY <1>2, <1>3, <1>4, BelowOrder
<1>6. ASSUME NEW m \in {Ground, Middle, Mark, Base}
      PROVE  Carried(types, Objects, types2, Objects', m.objects)
  <2>1. m \in MarkType /\ Below(m, Mark)
    BY <1>2, <1>4, BelowOrder
  <2>2. m.objects \in Nat /\ Mark.objects \in Nat /\ m.objects <= Mark.objects
    BY <1>2, <2>1 DEF MarkType, Below
  <2> QED BY <1>3, <2>2 DEF Carried
<1> QED BY <1>2, <1>3, <1>4, <1>5, <1>6

\* A step of the activation that runs leaves the frames with types, given the sorts the
\* next instruction expects.
LEMMA FrameMoved ==
  ASSUME NEW e, NEW types, TypedState(e, types), status = "running", NEW types2,
         HeapStep(types, types2), UNCHANGED <<prog, callers>>, CodeInv',
         act' \in ActivationType, act'.cnt = act.cnt, act'.calls = act.calls,
         act'.params = act.params, act'.counts[1] = act.counts[1],
         VarsTyped(cnt, types2, act'.Vars, Ground, Middle'),
         act.i \in Starts(cnt),
         Alike(act.stack, act'.stack, Floor(cnt, Here, act.calls, Len(act.calls))),
         NEW ss2 \in Seq(SortSet), NEW ps2,
         Arrives(cnt, Here, HereSorts(e), act'.i, ss2, ps2),
         CellsAre(types2, Objects', act'.stack, act'.top, ss2, Ground, Middle', Mark'),
         Owner(cnt, act.i) \notin Here.lost =>
           act'.top - Len(ss2) = act.top - Len(HereSorts(e).at[act.i]),
         ParsTyped(types2, act', ps2, Middle', Mark')
  PROVE  FramesTyped(e, types2)'
<1> DEFINE k == HereSorts(e)
           calls == act.calls
           floor == Floor(cnt, Here, calls, Len(calls))
<1>1. /\ Checked(prog, e, cnt, Here, k) /\ act \in ActivationType
      /\ \A n \in DOMAIN calls : CallKnown(cnt, Here, k, calls, n)
      /\ TypeOK /\ CodeVerified /\ CodeInv
  BY HereChecked
<1>2. /\ Ground \in MarkType /\ Middle \in MarkType /\ Mark \in MarkType
      /\ Middle' \in MarkType /\ Mark' \in MarkType
      /\ Below(Middle, Middle') /\ Below(Mark, Mark') /\ Below(Middle', Mark')
      /\ Below(Ground, Middle') /\ Below(Ground, Mark') /\ Below(Base, Mark')
      /\ Carried(types, Objects, types2, Objects', Ground.objects)
      /\ Carried(types, Objects, types2, Objects', Middle.objects)
      /\ Carried(types, Objects, types2, Objects', Base.objects)
  BY StepBounds
<1>3. cnt' = cnt /\ Here' = Here /\ HereSorts(e)' = k /\ Ground' = Ground
  <2>1. cnt' = cnt
    BY DEF cnt
  <2>2. Ground' = Ground
    BY <1>1, EdgesKept
  <2> QED BY <2>1, <2>2 DEF Here, HereSorts
<1>4. RunTyped(k, types)
  BY DEF TypedState, FramesTyped, HereSorts
<1>5. LocalsTyped(cnt, Here, k, types2, Objects', act', Ground, Middle')
  <2>1. LocalsTyped(cnt, Here, k, types, Objects, act, Ground, Middle)
    BY <1>4 DEF RunTyped
  <2>2. ParamsTyped(cnt, types2, act'.params, Ground, Middle')
    <3>1. \A j \in 1..Middle.objects : types2[j] = types[j]
      BY <1>2 DEF Carried
    <3> QED BY <1>2, <2>1, <3>1, ParamsCarried DEF LocalsTyped
  <2>3. CallsTyped(cnt, Here, k, types2, Objects', act', Ground, Middle')
    <3>1. calls \in Seq(Returns)
      BY <1>1 DEF ActivationType
    <3> HIDE DEF k
    <3> QED BY <1>1, <1>2, <2>1, <3>1, CallsCarried DEF LocalsTyped
  <2> QED BY <2>2, <2>3 DEF LocalsTyped
<1>6. StackTyped(cnt, Here, k, types2, Objects', act', act'.i, act'.top, Ground, Middle', Mark')
  <2> SUFFICES ASSUME act'.i \in Starts(cnt)
               PROVE  /\ CellsAre(types2, Objects', act'.stack, act'.top, k.at[act'.i], Ground, Middle', Mark')
                      /\ Owner(cnt, act'.i) \notin Here.lost =>
                           act'.top = floor + Len(k.at[act'.i])
    BY DEF StackTyped
  <2>1. /\ Covers(ss2, k.at[act'.i])
        /\ Owner(cnt, act'.i) \notin Here.lost => Len(ss2) = Len(k.at[act'.i])
    BY DEF Arrives
  <2>2. k.at[act'.i] \in Seq(SortSet) /\ Len(k.at[act'.i]) \in Nat /\ Len(k.at[act.i]) \in Nat
    <3> HIDE DEF k
    <3> QED BY <1>1, SortsOf
  <2>3. act'.top \in Int /\ act.top \in Int /\ Len(ss2) \in Nat
    BY <1>1 DEF ActivationType, Depths
  <2>4. Owner(cnt, act'.i) = Owner(cnt, act.i)
    <3>1. Owner(cnt, act.i) = Opened(cnt, calls, Len(calls))
      BY <1>1, RunningFrame DEF FrameRight
    <3>2. FrameRight(cnt, Here, calls, Len(calls), act'.i, act'.top)
      BY <1>3 DEF CodeInv, Aligned, LevelledIn, Here, cnt
    <3> QED BY <3>1, <3>2 DEF FrameRight
  <2>5. CellsAre(types2, Objects', act'.stack, act'.top, k.at[act'.i], Ground, Middle', Mark')
    <3> HIDE DEF k
    <3> QED BY <1>2, <2>1, <2>2, <2>3, CoversCells
  <2>6. ASSUME Owner(cnt, act'.i) \notin Here.lost
        PROVE  act'.top = floor + Len(k.at[act'.i])
    <3>1. act.top = floor + Len(k.at[act.i])
      BY <1>4, <2>4, <2>6 DEF RunTyped, StackTyped
    <3>2. act'.top - Len(ss2) = act.top - Len(k.at[act.i]) /\ Len(ss2) = Len(k.at[act'.i])
      BY <2>1, <2>4, <2>6
    <3>3. floor \in Int
      BY <1>1, RunningFrame DEF FrameRight
    <3> DEFINE t == act.top
               t2 == act'.top
               n == Len(k.at[act.i])
               n2 == Len(k.at[act'.i])
    <3>4. t \in Int /\ t2 \in Int /\ n \in Nat /\ n2 \in Nat /\ t2 - n2 = t - n /\ t = floor + n
      BY <2>2, <2>3, <3>1, <3>2
    <3> HIDE DEF t, t2, n, n2, floor
    <3>5. t2 = floor + n2
      BY <3>3, <3>4
    <3> QED BY <3>5 DEF t2, n2
  <2> QED BY <2>5, <2>6
<1>7. act'.i \in Starts(cnt) => ParsTyped(types2, act', k.pars[act'.i], Middle', Mark')
  BY DEF Arrives
<1>8. RunTyped(HereSorts(e), types2)'
  BY <1>3, <1>5, <1>6, <1>7 DEF RunTyped, HeapStep
<1>9. /\ \A j \in DOMAIN prog.env : Denotes(types2, prog.env[j], e[j], Origin, Base)
      /\ EdgesRight'
      /\ \A n \in DOMAIN callers : WaitingTyped(e, types2, Objects, n)'
  <2>1. /\ types2 \in Seq(Nat) /\ Len(types2) = Len(Objects') /\ KindsTyped(types2, Objects')
        /\ \A j \in 1..Ground.objects : Objects'[j] = Objects[j]
    BY DEF HeapStep
  <2>2. /\ \A j \in 1..Ground.objects : types2[j] = types[j]
        /\ \A j \in 1..Base.objects : types2[j] = types[j]
    BY <1>2 DEF Carried
  <2> QED BY <1>2, <2>1, <2>2, OthersWait
<1> HIDE DEF k
<1>11. /\ types2 \in Seq(Nat) /\ Len(types2) = Len(Objects') /\ KindsTyped(types2, Objects')
  BY DEF HeapStep
<1>12. \A j \in DOMAIN prog'.env : Denotes(types2, prog'.env[j], e[j], Origin, Base')
  BY <1>9 DEF Base
<1>13. \A n \in DOMAIN callers' : WaitingTyped(e, types2, Objects, n)'
  BY <1>9
<1>14. RunTyped(Sorts(prog, e, cnt), types2)'
  BY <1>8 DEF HereSorts
<1> QED BY <1>9, <1>11, <1>12, <1>13, <1>14, Zenon DEF FramesTyped

-----------------------------------------------------------------------------
(***************************************************************************)
(* The current instruction and what the sorts say of it.                   *)
(***************************************************************************)
SortsHere(e) == HereSorts(e).at[act.i]
ParsHere(e)  == HereSorts(e).pars[act.i]
AfterHere(e) == After(prog, e, cnt, act.i, SortsHere(e), ParsHere(e))

\* What is known of the cells and the parameters before the instruction that runs.
LEMMA TypedHere ==
  ASSUME NEW e, NEW types, TypedState(e, types), Fetching
  PROVE  /\ act.i \in Starts(cnt) /\ Here.at[act.i] \in Nat
         /\ SortsHere(e) \in Seq(SortSet) /\ Len(SortsHere(e)) = Here.at[act.i]
         /\ Accepts(prog, cnt, act.i, SortsHere(e), ParsHere(e))
         /\ CellsAre(types, Objects, act.stack, act.top, SortsHere(e), Ground, Middle, Mark)
         /\ Floor(cnt, Here, act.calls, Len(act.calls)) \in Nat /\ act.top \in Nat
         /\ act.top >= Floor(cnt, Here, act.calls, Len(act.calls)) + Len(SortsHere(e))
         /\ Takes(prog, Op, W(1)) \in Nat /\ Takes(prog, Op, W(1)) <= Len(SortsHere(e))
         /\ ParsTyped(types, act, ParsHere(e), Middle, Mark)
         /\ ParsHere(e) \in Seq(Nat \X Nat)
         /\ act.isParContract <=> ParsHere(e) # <<>>
<1> DEFINE ss == SortsHere(e)
           floor == Floor(cnt, Here, act.calls, Len(act.calls))
<1>1. /\ Checked(prog, e, cnt, Here, HereSorts(e)) /\ act \in ActivationType
      /\ TypeOK /\ CodeVerified /\ CodeInv
  BY HereChecked
<1>2. act.i \in Starts(cnt) /\ Here.at[act.i] \in Nat
  BY <1>1, FetchedAt, StepHere
<1>3. /\ ss \in Seq(SortSet) /\ Len(ss) = Here.at[act.i]
      /\ Accepts(prog, cnt, act.i, ss, ParsHere(e)) /\ ParsHere(e) \in Seq(Nat \X Nat)
  BY <1>1, <1>2, SortsOf, AcceptedOf DEF SortsHere, ParsHere
<1>4. RunTyped(HereSorts(e), types)
  BY DEF TypedState, FramesTyped, HereSorts, Fetching
<1>5. /\ CellsAre(types, Objects, act.stack, act.top, ss, Ground, Middle, Mark)
      /\ ParsTyped(types, act, ParsHere(e), Middle, Mark)
  BY <1>2, <1>4 DEF RunTyped, StackTyped, SortsHere, ParsHere
<1>6. floor \in Nat /\ act.top >= floor + Len(ss)
  BY <1>1, <1>2, <1>3, RunningFrame DEF FrameRight
<1>7. /\ Takes(prog, Op, W(1)) \in Nat /\ Here.at[act.i] - Takes(prog, Op, W(1)) >= 0
  BY <1>1, GainType, StepHere
<1>8. act.top \in Int
  BY <1>1 DEF ActivationType, Depths
<1> HIDE DEF ss, floor
<1>9. act.top \in Nat /\ Takes(prog, Op, W(1)) <= Len(ss)
  BY <1>2, <1>3, <1>6, <1>7, <1>8
<1>10. act.isParContract <=> ParsHere(e) # <<>>
  BY <1>5 DEF ParsTyped
<1> QED BY <1>2, <1>3, <1>5, <1>6, <1>7, <1>9, <1>10 DEF ss, floor

\* What an instruction leaves serves the one behind it, if it is not a turn.
LEMMA OnwardTyped ==
  ASSUME NEW e, NEW types, TypedState(e, types), Fetching,
         Op \notin Turns \cup {PARCONTRACT, CALLCONTRACT}
  PROVE  Arrives(cnt, Here, HereSorts(e), act.i + Words(Op), AfterHere(e), ParsHere(e))
<1>1. /\ Checked(prog, e, cnt, Here, HereSorts(e)) /\ act.i \in Starts(cnt)
      /\ Here.at[act.i] \in Nat /\ TypeOK
  BY HereChecked, TypedHere
<1>2. Words(Op) = Length(cnt.code, act.i) /\ Op = cnt.code[act.i + 1]
  BY <1>1, WordsRead DEF Op
<1>3. Arrives(cnt, Here, HereSorts(e), act.i + Length(cnt.code, act.i), AfterHere(e), ParsHere(e))
  BY <1>1, <1>2, TypedOf, Zenon DEF AfterHere, SortsHere, ParsHere
<1> QED BY <1>2, <1>3

\* The k-th cell below the top, and what is known of it.
LEMMA CellHere ==
  ASSUME NEW e, NEW types, TypedState(e, types), Fetching, NEW j \in 0..Len(SortsHere(e)) - 1
  PROVE  LET s == Top(SortsHere(e), j)
         IN /\ s \in SortSet /\ act.top - j \in Nat
            /\ CellIs(types, Objects, act.stack, act.top - j, s, Ground, Mark)
            /\ Cell(j) = act.stack[act.top - j]
            /\ CellIs(types, Objects, act.stack, act.top - j, s, Ground, IF s.late THEN Mark ELSE Middle)
            /\ s.late => ParsHere(e) # <<>>
<1> DEFINE ss == SortsHere(e)
           s == Top(ss, j)
           end == IF s.late THEN Mark ELSE Middle
<1>1. /\ ss \in Seq(SortSet) /\ Len(ss) \in Nat /\ act.top \in Nat
      /\ CellsAre(types, Objects, act.stack, act.top, ss, Ground, Middle, Mark)
      /\ Accepts(prog, cnt, act.i, ss, ParsHere(e))
  BY TypedHere
<1>2. /\ Ground \in MarkType /\ Middle \in MarkType /\ Mark \in MarkType /\ Below(Middle, Mark)
      /\ Below(Mark, Mark)
  BY RunningBounds, BelowOrder DEF TypedState, FramesTyped, Fetching
<1> HIDE DEF ss
<1>3. Len(ss) - j \in 1..Len(ss) /\ act.top - Len(ss) + (Len(ss) - j) = act.top - j
  BY <1>1 DEF ss
<1>4. s \in SortSet /\ s = ss[Len(ss) - j]
  BY <1>1, <1>3 DEF Top
<1>5. act.top - j \in Nat
  BY <1>1, <1>3 DEF CellsAre
<1>6. CellIs(types, Objects, act.stack, act.top - j, s, Ground, end)
  BY <1>1, <1>3, <1>4 DEF CellsAre
<1> HIDE DEF s
<1>7. end \in MarkType /\ Below(end, Mark)
  BY <1>2
<1>8. CellIs(types, Objects, act.stack, act.top - j, s, Ground, Mark)
  <2>1. Carried(types, Objects, types, Objects, end.objects)
    BY DEF Carried
  <2> HIDE DEF end
  <2> QED BY <1>2, <1>6, <1>7, <2>1, CellCarried
<1>9. s.late => ParsHere(e) # <<>>
  BY <1>1, <1>3, <1>4 DEF Accepts, ss
<1> QED BY <1>4, <1>5, <1>6, <1>8, <1>9 DEF s, ss, Cell

-----------------------------------------------------------------------------
(***************************************************************************)
(* The cells that are left, and one more.                                  *)
(***************************************************************************)
LEMMA DroppedCells ==
  ASSUME NEW types, NEW os, NEW types2, NEW os2, NEW stack, NEW stack2, NEW h \in Int,
         NEW ss \in Seq(SortSet), NEW n \in 0..Len(ss), NEW lo \in MarkType, NEW mid \in MarkType,
         NEW hi \in MarkType, NEW mid2 \in MarkType, NEW hi2 \in MarkType,
         Below(mid, hi), Below(mid, mid2), Below(hi, hi2),
         Carried(types, os, types2, os2, hi.objects),
         Alike(stack, stack2, h - n),
         CellsAre(types, os, stack, h, ss, lo, mid, hi)
  PROVE  /\ SubSeq(ss, 1, Len(ss) - n) \in Seq(SortSet)
         /\ Len(SubSeq(ss, 1, Len(ss) - n)) = Len(ss) - n
         /\ CellsAre(types2, os2, stack2, h - n, SubSeq(ss, 1, Len(ss) - n), lo, mid2, hi2)
<1> DEFINE d == Len(ss) - n
           rs == SubSeq(ss, 1, d)
<1>1. d \in Nat /\ d <= Len(ss) /\ n \in Nat /\ Len(ss) <= h
  BY DEF CellsAre
<1>2. rs \in Seq(SortSet) /\ Len(rs) = d /\ \A i \in 1..d : rs[i] = ss[i]
  <2> HIDE DEF d
  <2> QED BY <1>1, Prefix
<1> HIDE DEF rs
<1>3. CellsAre(types, os, stack, h - n, rs, lo, mid, hi)
  <2>1. Len(rs) <= h - n
    BY <1>1, <1>2
  <2>2. ASSUME NEW j \in 1..Len(rs)
        PROVE  CellIs(types, os, stack, h - n - Len(rs) + j, rs[j], lo, IF rs[j].late THEN hi ELSE mid)
    <3>1. j \in 1..Len(ss) /\ rs[j] = ss[j] /\ h - n - Len(rs) + j = h - Len(ss) + j
      BY <1>1, <1>2
    <3> QED BY <3>1 DEF CellsAre
  <2> QED BY <2>1, <2>2 DEF CellsAre
<1>4. CellsAre(types2, os2, stack2, h - n, rs, lo, mid2, hi2)
  <2>1. h - n \in Int
    BY <1>1
  <2> QED BY <1>2, <1>3, <2>1, CellsCarried
<1> QED BY <1>2, <1>4 DEF rs

\* One more cell, of a sort of its own.
LEMMA YieldedCells ==
  ASSUME NEW types, NEW os, NEW stack, NEW h \in Int, NEW rs \in Seq(SortSet), NEW s \in SortSet,
         NEW lo, NEW mid, NEW hi, CellsAre(types, os, stack, h, rs, lo, mid, hi),
         CellIs(types, os, stack, h + 1, s, lo, IF s.late THEN hi ELSE mid)
  PROVE  /\ Append(rs, s) \in Seq(SortSet) /\ Len(Append(rs, s)) = Len(rs) + 1
         /\ CellsAre(types, os, stack, h + 1, Append(rs, s), lo, mid, hi)
<1> DEFINE ss == Append(rs, s)
<1>1. ss \in Seq(SortSet) /\ Len(ss) = Len(rs) + 1 /\ Len(rs) \in Nat /\ Len(rs) <= h
      /\ ss[Len(rs) + 1] = s /\ \A j \in 1..Len(rs) : ss[j] = rs[j]
  BY DEF CellsAre
<1> HIDE DEF ss
<1>2. ASSUME NEW j \in 1..Len(ss)
      PROVE  CellIs(types, os, stack, h + 1 - Len(ss) + j, ss[j], lo, IF ss[j].late THEN hi ELSE mid)
  <2>1. CASE j = Len(rs) + 1
    <3>1. h + 1 - Len(ss) + j = h + 1 /\ ss[j] = s
      BY <1>1, <2>1
    <3> QED BY <3>1
  <2>2. CASE j # Len(rs) + 1
    <3>1. j \in 1..Len(rs) /\ ss[j] = rs[j] /\ h + 1 - Len(ss) + j = h - Len(rs) + j
      BY <1>1, <2>2
    <3> QED BY <3>1 DEF CellsAre
  <2> QED BY <2>1, <2>2
<1>3. Len(ss) <= h + 1
  BY <1>1
<1> QED BY <1>1, <1>2, <1>3 DEF CellsAre, ss

-----------------------------------------------------------------------------
(***************************************************************************)
(* An instruction that neither calls nor passes a parameter.               *)
(***************************************************************************)
Steady == /\ UNCHANGED <<prog, callers>>
          /\ act' \in ActivationType /\ act'.cnt = act.cnt /\ act'.calls = act.calls
          /\ act'.params = act.params /\ act'.pars = act.pars /\ act'.counts = act.counts
          /\ act'.isParContract = act.isParContract /\ act'.i = act.i + Words(Op)

\* The parameters passed so far keep their types in a steady step.
LEMMA SteadyPars ==
  ASSUME NEW e, NEW types, TypedState(e, types), Fetching, Steady, NEW types2,
         HeapStep(types, types2)
  PROVE  ParsTyped(types2, act', ParsHere(e), Middle', Mark')
<1> DEFINE ps == ParsHere(e)
<1>1. ParsTyped(types, act, ps, Middle, Mark)
  BY TypedHere
<1>2. CASE ps = <<>>
  BY <1>1, <1>2 DEF ParsTyped, Steady
<1>3. CASE ps # <<>>
  <2>1. Middle' = Middle
    BY <1>1, <1>3 DEF ParsTyped, Steady, Middle, LastMark
  <2>2. /\ Middle \in MarkType /\ Mark \in MarkType /\ Mark' \in MarkType /\ Below(Mark, Mark')
        /\ Carried(types, Objects, types2, Objects', Mark.objects)
    BY StepBounds DEF Fetching
  <2>3. Below(Middle, Middle) /\ \A j \in 1..Mark.objects : types2[j] = types[j]
    BY <2>2, BelowOrder DEF Carried
  <2>4. ASSUME NEW v, NEW t, Denotes(types, v, t, Middle, Mark) PROVE Denotes(types2, v, t, Middle, Mark')
    BY <2>2, <2>3, <2>4, DenotesCarried
  <2> QED BY <1>1, <2>1, <2>4 DEF ParsTyped, Steady
<1> QED BY <1>2, <1>3

\* A steady step to the instruction behind leaves the frames with types.
LEMMA SteadyMoved ==
  ASSUME NEW e, NEW types, TypedState(e, types), Fetching, Steady, CodeInv', NEW types2,
         HeapStep(types, types2), VarsTyped(cnt, types2, act'.Vars, Ground, Middle'),
         Op \notin Turns \cup {PARCONTRACT, CALLCONTRACT},
         Alike(act.stack, act'.stack, act.top - Len(SortsHere(e))),
         AfterHere(e) \in Seq(SortSet),
         act'.top - Len(AfterHere(e)) = act.top - Len(SortsHere(e)),
         CellsAre(types2, Objects', act'.stack, act'.top, AfterHere(e), Ground, Middle', Mark')
  PROVE  FramesTyped(e, types2)'
<1>1. /\ act.i \in Starts(cnt) /\ act.top \in Nat /\ Len(SortsHere(e)) \in Nat
      /\ Floor(cnt, Here, act.calls, Len(act.calls)) \in Nat
      /\ act.top >= Floor(cnt, Here, act.calls, Len(act.calls)) + Len(SortsHere(e))
  BY TypedHere
<1>2. Arrives(cnt, Here, HereSorts(e), act'.i, AfterHere(e), ParsHere(e))
  BY OnwardTyped DEF Steady
<1>3. ParsTyped(types2, act', ParsHere(e), Middle', Mark')
  BY SteadyPars
<1>4. Alike(act.stack, act'.stack, Floor(cnt, Here, act.calls, Len(act.calls)))
  BY <1>1 DEF Alike
<1>5. act'.top - Len(AfterHere(e)) = act.top - Len(HereSorts(e).at[act.i])
  BY DEF SortsHere
<1> QED BY <1>1, <1>2, <1>3, <1>4, <1>5, FrameMoved DEF Steady, Fetching

\* The variables it does not assign keep their types.
LEMMA SteadyVars ==
  ASSUME NEW e, NEW types, TypedState(e, types), Fetching, NEW types2,
         HeapStep(types, types2), act'.Vars = act.Vars
  PROVE  VarsTyped(cnt, types2, act'.Vars, Ground, Middle')
<1>1. VarsTyped(cnt, types, act.Vars, Ground, Middle)
  BY DEF TypedState, FramesTyped, RunTyped, LocalsTyped, Fetching
<1>2. /\ Ground \in MarkType /\ Middle \in MarkType /\ Middle' \in MarkType /\ Below(Middle, Middle')
      /\ Carried(types, Objects, types2, Objects', Middle.objects)
  BY StepBounds DEF Fetching
<1> QED BY <1>1, <1>2, VarsCarried DEF Carried

\* It takes n cells and leaves none; or it leaves one.
LEMMA Dropping ==
  ASSUME NEW e, NEW types, TypedState(e, types), Fetching, Steady, CodeInv', NEW types2,
         HeapStep(types, types2), VarsTyped(cnt, types2, act'.Vars, Ground, Middle'),
         Op \notin Turns \cup {PARCONTRACT, CALLCONTRACT},
         NEW n \in 0..Len(SortsHere(e)), act'.top = act.top - n, act'.stack = act.stack,
         AfterHere(e) = SubSeq(SortsHere(e), 1, Len(SortsHere(e)) - n)
  PROVE  FramesTyped(e, types2)'
<1> DEFINE ss == SortsHere(e)
           rs == AfterHere(e)
<1>1. /\ ss \in Seq(SortSet) /\ act.top \in Nat
      /\ CellsAre(types, Objects, act.stack, act.top, ss, Ground, Middle, Mark)
  BY TypedHere
<1>2. /\ Ground \in MarkType /\ Middle \in MarkType /\ Mark \in MarkType
      /\ Middle' \in MarkType /\ Mark' \in MarkType
      /\ Below(Middle, Mark) /\ Below(Middle, Middle') /\ Below(Mark, Mark')
      /\ Carried(types, Objects, types2, Objects', Mark.objects)
  BY StepBounds DEF Fetching
<1>3. /\ rs \in Seq(SortSet) /\ Len(rs) = Len(ss) - n
      /\ CellsAre(types2, Objects', act.stack, act.top - n, rs, Ground, Middle', Mark')
  <2>1. act.top \in Int /\ n \in 0..Len(ss) /\ Alike(act.stack, act.stack, act.top - n)
    BY <1>1 DEF Alike
  <2>2. rs = SubSeq(ss, 1, Len(ss) - n)
    OBVIOUS
  <2> HIDE DEF ss, rs
  <2> QED BY <1>1, <1>2, <2>1, <2>2, DroppedCells
<1>4. act'.top - Len(rs) = act.top - Len(ss) /\ Len(ss) \in Nat
  BY <1>1, <1>3
<1>5. Alike(act.stack, act'.stack, act.top - Len(ss))
  BY DEF Alike
<1> QED BY <1>3, <1>4, <1>5, SteadyMoved

\* A steady step that takes n cells and leaves one value of the sort expected.
LEMMA Yielding ==
  ASSUME NEW e, NEW types, TypedState(e, types), Fetching, Steady, CodeInv', NEW types2,
         HeapStep(types, types2), act'.Vars = act.Vars,
         Op \notin Turns \cup {PARCONTRACT, CALLCONTRACT},
         NEW n \in 0..Len(SortsHere(e)), act'.top = act.top - n + 1,
         Alike(act.stack, act'.stack, act.top - n),
         NEW s \in SortSet, s.late = (ParsHere(e) # <<>>),
         AfterHere(e) = Append(SubSeq(SortsHere(e), 1, Len(SortsHere(e)) - n), s),
         CellIs(types2, Objects', act'.stack, act'.top, s, Ground, Mark')
  PROVE  FramesTyped(e, types2)'
<1> DEFINE ss == SortsHere(e)
           rs == SubSeq(ss, 1, Len(ss) - n)
<1>1. /\ ss \in Seq(SortSet) /\ act.top \in Nat /\ (act.isParContract <=> ParsHere(e) # <<>>)
      /\ CellsAre(types, Objects, act.stack, act.top, ss, Ground, Middle, Mark)
  BY TypedHere
<1>2. /\ Ground \in MarkType /\ Middle \in MarkType /\ Mark \in MarkType
      /\ Middle' \in MarkType /\ Mark' \in MarkType
      /\ Below(Middle, Mark) /\ Below(Middle, Middle') /\ Below(Mark, Mark')
      /\ Carried(types, Objects, types2, Objects', Mark.objects)
  BY StepBounds DEF Fetching
<1>3. /\ rs \in Seq(SortSet) /\ Len(rs) = Len(ss) - n
      /\ CellsAre(types2, Objects', act'.stack, act.top - n, rs, Ground, Middle', Mark')
  <2>1. act.top \in Int
    BY <1>1
  <2> HIDE DEF ss
  <2> QED BY <1>1, <1>2, <2>1, DroppedCells DEF ss
<1>4. CellIs(types2, Objects', act'.stack, act'.top, s, Ground, IF s.late THEN Mark' ELSE Middle')
  <2>1. CASE s.late
    BY <2>1
  <2>2. CASE ~s.late
    <3>1. Middle' = Mark'
      BY <1>1, <2>2 DEF Steady, Middle
    <3> QED BY <2>2, <3>1
  <2> QED BY <2>1, <2>2
<1> HIDE DEF rs
<1>5. /\ Append(rs, s) \in Seq(SortSet) /\ Len(Append(rs, s)) = Len(rs) + 1
      /\ CellsAre(types2, Objects', act'.stack, act'.top, Append(rs, s), Ground, Middle', Mark')
  <2> DEFINE h == act.top - n
  <2>1. h \in Int /\ act'.top = h + 1
    BY <1>1
  <2>2. CellsAre(types2, Objects', act'.stack, h, rs, Ground, Middle', Mark') /\ rs \in Seq(SortSet)
    BY <1>3
  <2>3. CellIs(types2, Objects', act'.stack, h + 1, s, Ground, IF s.late THEN Mark' ELSE Middle')
    BY <1>4, <2>1
  <2> HIDE DEF h
  <2>4. /\ Append(rs, s) \in Seq(SortSet) /\ Len(Append(rs, s)) = Len(rs) + 1
        /\ CellsAre(types2, Objects', act'.stack, h + 1, Append(rs, s), Ground, Middle', Mark')
    BY <2>1, <2>2, <2>3, YieldedCells
  <2> QED BY <2>1, <2>4
<1>6. act'.top - Len(Append(rs, s)) = act.top - Len(ss) /\ Len(ss) \in Nat
  <2> DEFINE m == Len(Append(rs, s))
  <2>1. m = Len(ss) - n + 1 /\ Len(ss) \in Nat
    BY <1>1, <1>3, <1>5
  <2> HIDE DEF m
  <2>2. act'.top - m = act.top - Len(ss)
    BY <1>1, <2>1
  <2> QED BY <2>1, <2>2 DEF m
<1>7. Alike(act.stack, act'.stack, act.top - Len(ss))
  BY <1>1, <1>6 DEF Alike
<1>8. VarsTyped(cnt, types2, act'.Vars, Ground, Middle')
  BY SteadyVars
<1> QED BY <1>5, <1>6, <1>7, <1>8, SteadyMoved DEF rs

-----------------------------------------------------------------------------
(***************************************************************************)
(* What the steps do to the heap.                                          *)
(***************************************************************************)

\* Where what is made now may not lie below: the copies of parameters and what is
\* made after them are apart.
Fresh == IF act.isParContract THEN Middle ELSE Ground

\* Nothing, or the texts change behind Ground.
LEMMA HeapKept ==
  ASSUME NEW e, NEW types, TypedState(e, types), Fetching, Steady,
         UNCHANGED Objects, Len(Strings') = Len(Strings),
         \A j \in 1..Ground.strings : Strings'[j] = Strings[j]
  PROVE  HeapStep(types, types)
<1>1. IInv /\ EdgesRight /\ RunTyped(HereSorts(e), types) /\ types \in Seq(Nat)
      /\ Len(types) = Len(Objects) /\ KindsTyped(types, Objects)
  BY DEF TypedState, FramesTyped, HereSorts, Fetching
<1>2. /\ Middle \in MarkType /\ Mark \in MarkType /\ Below(Middle, Mark)
      /\ Below(Middle, Middle) /\ Below(Mark, Mark)
  BY <1>1, RunningBounds, BelowOrder DEF Fetching
<1>3. Mark' = Mark
  BY DEF Mark
<1>4. Middle' = Middle
  BY <1>3 DEF Middle, Steady, LastMark
<1>5. Carried(types, Objects, types, Objects', Mark.objects)
  BY DEF Carried
<1> QED BY <1>1, <1>2, <1>3, <1>4, <1>5 DEF HeapStep, RunTyped

\* A step that leaves texts and objects alone keeps the types of the heap.
LEMMA HeapUnchanged ==
  ASSUME NEW e, NEW types, TypedState(e, types), Fetching, Steady, UNCHANGED <<Strings, Objects>>
  PROVE  HeapStep(types, types)
BY HeapKept

\* The parts of a concatenation.
LEMMA Appended ==
  ASSUME NEW S, NEW s \in Seq(S), NEW t \in Seq(S)
  PROVE  /\ s \o t \in Seq(S) /\ Len(s \o t) = Len(s) + Len(t)
         /\ \A j \in 1..Len(s) : (s \o t)[j] = s[j]
         /\ \A j \in 1..Len(t) : (s \o t)[Len(s) + j] = t[j]
         /\ \A j \in Len(s) + 1..Len(s) + Len(t) : j - Len(s) \in 1..Len(t) /\ (s \o t)[j] = t[j - Len(s)]
OBVIOUS

\* Texts and objects are appended.
LEMMA HeapGrown ==
  ASSUME NEW e, NEW types, TypedState(e, types), Fetching, NEW ts \in Seq(Text),
         NEW os \in Seq(Object), NEW us \in Seq(Nat), Len(us) = Len(os),
         Strings' = Strings \o ts, Objects' = Objects \o os,
         act'.isParContract => Middle' = Middle, act.isParContract => act'.isParContract,
         \A j \in 1..Len(os) : os[j].kind = KindOf(us[j]),
         \A j \in 1..Len(os) : ObjectTyped(types \o us, os[j], us[j],
                                 IF act'.isParContract THEN Middle ELSE Ground, Mark')
  PROVE  HeapStep(types, types \o us)
<1> DEFINE types2 == types \o us
           lo == IF act'.isParContract THEN Middle ELSE Ground
<1>1. IInv /\ TypeOK /\ EdgesRight /\ RunTyped(HereSorts(e), types) /\ types \in Seq(Nat)
      /\ Len(types) = Len(Objects) /\ KindsTyped(types, Objects)
  BY DEF TypedState, FramesTyped, HereSorts, Fetching, IInv
<1>2. /\ Ground \in MarkType /\ Middle \in MarkType /\ Mark \in MarkType /\ Below(Middle, Mark)
      /\ Below(Ground, Middle) /\ Below(Ground, Mark) /\ (~act.isParContract => Middle = Mark)
  BY <1>1, RunningBounds DEF Fetching
<1>3. Strings \in Seq(Text) /\ Objects \in Seq(Object)
  BY <1>1 DEF TypeOK
<1>4. /\ Strings' \in Seq(Text) /\ Len(Strings') = Len(Strings) + Len(ts)
      /\ \A j \in 1..Len(Strings) : Strings'[j] = Strings[j]
  BY <1>3, Appended
<1>5. /\ Objects' \in Seq(Object) /\ Len(Objects') = Len(Objects) + Len(os)
      /\ \A j \in 1..Len(Objects) : Objects'[j] = Objects[j]
      /\ \A j \in Len(Objects) + 1..Len(Objects) + Len(os) :
           j - Len(Objects) \in 1..Len(os) /\ Objects'[j] = os[j - Len(Objects)]
  BY <1>3, Appended
<1>6. /\ types2 \in Seq(Nat) /\ Len(types2) = Len(Objects')
      /\ \A j \in 1..Len(Objects) : types2[j] = types[j]
      /\ \A j \in Len(Objects) + 1..Len(Objects) + Len(os) : types2[j] = us[j - Len(Objects)]
  <2>1. /\ types2 \in Seq(Nat) /\ Len(types2) = Len(types) + Len(us)
        /\ \A j \in 1..Len(types) : types2[j] = types[j]
        /\ \A j \in Len(types) + 1..Len(types) + Len(us) : types2[j] = us[j - Len(types)]
    <3>1. us \in Seq(Nat) /\ types \in Seq(Nat)
      BY <1>1
    <3>2. /\ types \o us \in Seq(Nat) /\ Len(types \o us) = Len(types) + Len(us)
          /\ \A j \in 1..Len(types) : (types \o us)[j] = types[j]
          /\ \A j \in Len(types) + 1..Len(types) + Len(us) : (types \o us)[j] = us[j - Len(types)]
      <4>1. LET s == types
                t == us
            IN /\ s \o t \in Seq(Nat) /\ Len(s \o t) = Len(s) + Len(t)
               /\ \A j \in 1..Len(s) : (s \o t)[j] = s[j]
               /\ \A j \in 1..Len(t) : (s \o t)[Len(s) + j] = t[j]
               /\ \A j \in Len(s) + 1..Len(s) + Len(t) : j - Len(s) \in 1..Len(t) /\ (s \o t)[j] = t[j - Len(s)]
        BY <3>1, Appended, Zenon
      <4> QED BY <4>1, Zenon
    <3> QED BY <3>2
  <2> QED BY <1>1, <1>5, <2>1
<1> HIDE DEF types2
<1>7. /\ Len(Objects) \in Nat /\ Len(os) \in Nat /\ Len(Strings) \in Nat /\ Len(ts) \in Nat
      /\ Mark.objects = Len(Objects) /\ Mark'.objects = Len(Objects) + Len(os)
      /\ Mark.strings = Len(Strings) /\ Mark'.strings = Len(Strings) + Len(ts)
  BY <1>3, <1>4, <1>5 DEF Mark
<1>8. Mark' \in MarkType /\ Below(Mark, Mark')
  <2>1. Mark' \in MarkType
    BY <1>4, <1>5 DEF Mark, MarkType
  <2> QED BY <1>7, <2>1 DEF Below
<1>9. Middle' = (IF act'.isParContract THEN Middle ELSE Mark') /\ Middle' \in MarkType
      /\ Below(Middle, Middle') /\ Below(Middle', Mark')
  <2>1. Middle' = (IF act'.isParContract THEN Middle ELSE Mark')
    BY DEF Middle
  <2> QED BY <1>2, <1>8, <2>1, BelowOrder
<1>10. KindsTyped(types2, Objects')
  <2> SUFFICES ASSUME NEW j \in 1..Len(Objects') PROVE Objects'[j].kind = KindOf(types2[j])
    BY DEF KindsTyped
  <2>1. CASE j \in 1..Len(Objects)
    BY <1>1, <1>5, <1>6, <2>1 DEF KindsTyped
  <2>2. CASE j \notin 1..Len(Objects)
    <3>1. j \in Len(Objects) + 1..Len(Objects) + Len(os)
      BY <1>5, <1>7, <2>2
    <3> QED BY <1>5, <1>6, <3>1
  <2> QED BY <2>1, <2>2
<1>11. Carried(types, Objects, types2, Objects', Mark.objects)
  BY <1>5, <1>6, <1>7 DEF Carried
<1>12. /\ \A j \in 1..Ground.objects : Objects'[j] = Objects[j]
       /\ \A j \in 1..Ground.strings : Strings'[j] = Strings[j]
  <2>1. /\ Ground.objects \in Nat /\ Ground.objects <= Len(Objects)
        /\ Ground.strings \in Nat /\ Ground.strings <= Len(Strings)
    BY <1>2, <1>7 DEF Below, MarkType
  <2> QED BY <1>4, <1>5, <1>7, <2>1
<1>13. ASSUME NEW m \in MarkType, NEW n \in MarkType, Below(n, Mark), HeapTyped(types, Objects, m, n)
       PROVE  \A j \in m.objects + 1..n.objects : ObjectTyped(types2, Objects'[j], types2[j], m, Mark')
  <2>1. \A j \in 1..n.objects : types2[j] = types[j] /\ Objects'[j] = Objects[j]
    <3>1. n.objects \in Nat /\ n.objects <= Len(Objects)
      BY <1>7, <1>13 DEF Below, MarkType
    <3> QED BY <1>5, <1>6, <1>7, <3>1
  <2>2. Below(n, Mark')
    BY <1>2, <1>8, <1>13, BelowOrder
  <2> QED BY <1>8, <1>13, <2>1, <2>2, HeapCarried
<1>14. \A j \in Mark.objects + 1..Mark'.objects : ObjectTyped(types2, Objects'[j], types2[j], lo, Mark')
  <2> SUFFICES ASSUME NEW j \in Mark.objects + 1..Mark'.objects
               PROVE  ObjectTyped(types2, Objects'[j], types2[j], lo, Mark')
    OBVIOUS
  <2> DEFINE i == j - Len(Objects)
  <2>1. i \in 1..Len(os) /\ Objects'[j] = os[i] /\ types2[j] = us[i]
    BY <1>5, <1>6, <1>7
  <2>2. ObjectTyped(types2, os[i], us[i], lo, Mark')
    BY <2>1 DEF types2
  <2> QED BY <2>1, <2>2
<1>15. HeapTyped(types, Objects, Ground, Middle) /\ HeapTyped(types, Objects, Middle, Mark)
  BY <1>1 DEF RunTyped
<1>16. HeapTyped(types2, Objects', Ground, Middle') /\ HeapTyped(types2, Objects', Middle', Mark')
  <2>1. CASE act'.isParContract
    <3>1. \A j \in Ground.objects + 1..Middle.objects : ObjectTyped(types2, Objects'[j], types2[j], Ground, Middle)
      <4>1. \A j \in 1..Middle.objects : types2[j] = types[j] /\ Objects'[j] = Objects[j]
        <5>1. Middle.objects \in Nat /\ Middle.objects <= Len(Objects)
          BY <1>2, <1>7 DEF Below, MarkType
        <5> QED BY <1>5, <1>6, <1>7, <5>1
      <4> QED BY <1>2, <1>15, <4>1, BelowOrder, HeapCarried
    <3>2. \A j \in Middle.objects + 1..Mark.objects : ObjectTyped(types2, Objects'[j], types2[j], Middle, Mark')
      BY <1>2, <1>13, <1>15, BelowOrder
    <3>3. \A j \in Middle.objects + 1..Mark'.objects : ObjectTyped(types2, Objects'[j], types2[j], Middle, Mark')
      <4>1. /\ Middle.objects \in Nat /\ Mark.objects \in Nat /\ Mark'.objects \in Nat
            /\ Middle.objects <= Mark.objects /\ Mark.objects <= Mark'.objects
        BY <1>2, <1>8 DEF Below, MarkType
      <4>2. ASSUME NEW j \in Middle.objects + 1..Mark'.objects
            PROVE  j \in Middle.objects + 1..Mark.objects \/ j \in Mark.objects + 1..Mark'.objects
        BY <4>1
      <4>3. lo = Middle
        BY <2>1
      <4> HIDE DEF lo
      <4> QED BY <1>14, <3>2, <4>2, <4>3, Zenon
    <3> QED BY <1>9, <2>1, <3>1, <3>3 DEF HeapTyped
  <2>2. CASE ~act'.isParContract
    <3>1. Middle = Mark /\ Middle' = Mark'
      BY <1>2, <1>9, <2>2
    <3>2. \A j \in Ground.objects + 1..Mark.objects : ObjectTyped(types2, Objects'[j], types2[j], Ground, Mark')
      BY <1>2, <1>13, <1>15, <3>1, BelowOrder
    <3>3. \A j \in Ground.objects + 1..Mark'.objects : ObjectTyped(types2, Objects'[j], types2[j], Ground, Mark')
      <4>1. /\ Ground.objects \in Nat /\ Mark.objects \in Nat /\ Mark'.objects \in Nat
            /\ Ground.objects <= Mark.objects /\ Mark.objects <= Mark'.objects
        BY <1>2, <1>8 DEF Below, MarkType
      <4>2. ASSUME NEW j \in Ground.objects + 1..Mark'.objects
            PROVE  j \in Ground.objects + 1..Mark.objects \/ j \in Mark.objects + 1..Mark'.objects
        BY <4>1
      <4>3. lo = Ground
        BY <2>2
      <4> HIDE DEF lo
      <4> QED BY <1>14, <3>2, <4>2, <4>3, Zenon
    <3>4. Mark'.objects + 1..Mark'.objects = {}
      BY <1>8 DEF MarkType
    <3> QED BY <3>1, <3>3, <3>4 DEF HeapTyped
  <2> QED BY <2>1, <2>2
<1>17. HeapStep(types, types2)
  BY <1>6, <1>8, <1>9, <1>10, <1>11, <1>12, <1>16 DEF HeapStep
<1> QED BY <1>17 DEF types2

\* An object of one's own is changed, while no parameters are passed.
LEMMA HeapChanged ==
  ASSUME NEW e, NEW types, TypedState(e, types), Fetching, Steady, ~act.isParContract,
         UNCHANGED Strings, NEW k \in Ground.objects + 1..Mark.objects, NEW o \in Object,
         Objects' = [Objects EXCEPT ![k] = o], o.kind = Objects[k].kind,
         0..ObjLen(Objects[k]) - 1 \subseteq 0..ObjLen(o) - 1,
         ObjectTyped(types, o, types[k], Ground, Mark)
  PROVE  HeapStep(types, types)
<1>1. IInv /\ TypeOK /\ EdgesRight /\ RunTyped(HereSorts(e), types) /\ types \in Seq(Nat)
      /\ Len(types) = Len(Objects) /\ KindsTyped(types, Objects)
  BY DEF TypedState, FramesTyped, HereSorts, Fetching, IInv
<1>2. /\ Ground \in MarkType /\ Middle = Mark /\ Mark \in MarkType /\ Below(Ground, Mark)
      /\ Below(Mark, Mark) /\ Below(Middle, Middle)
  BY <1>1, RunningBounds, BelowOrder DEF Fetching
<1>3. Objects \in Seq(Object) /\ Mark.objects = Len(Objects) /\ Ground.objects \in Nat
      /\ k \in DOMAIN Objects
  <2>1. Objects \in Seq(Object) /\ Mark.objects = Len(Objects) /\ Ground.objects \in Nat
    BY <1>1, <1>2 DEF TypeOK, Mark, MarkType
  <2> QED BY <2>1
<1>4. /\ Objects' \in Seq(Object) /\ Len(Objects') = Len(Objects) /\ Objects'[k] = o
      /\ \A j \in 1..Len(Objects) : j # k => Objects'[j] = Objects[j]
  BY <1>3, Update
<1>5. Mark' = Mark /\ Middle' = Mark
  <2>1. Mark' = Mark
    BY <1>4 DEF Mark
  <2> QED BY <2>1 DEF Middle, Steady
<1>6. KindsTyped(types, Objects')
  BY <1>1, <1>4 DEF KindsTyped
<1>7. Carried(types, Objects, types, Objects', Mark.objects)
  <2> SUFFICES ASSUME NEW j \in 1..Len(Objects)
               PROVE  0..ObjLen(Objects[j]) - 1 \subseteq 0..ObjLen(Objects'[j]) - 1
    BY <1>3 DEF Carried
  <2> QED BY <1>4
<1>8. \A j \in 1..Ground.objects : Objects'[j] = Objects[j]
  <2>1. Ground.objects <= Len(Objects)
    BY <1>2, <1>3 DEF Below
  <2> QED BY <1>3, <1>4, <2>1
<1>9. HeapTyped(types, Objects', Ground, Mark)
  <2>1. HeapTyped(types, Objects, Ground, Mark)
    BY <1>1, <1>2 DEF RunTyped
  <2> QED BY <1>3, <1>4, <2>1 DEF HeapTyped
<1>10. HeapTyped(types, Objects', Mark, Mark)
  <2>1. Mark.objects + 1..Mark.objects = {}
    BY <1>2 DEF MarkType
  <2> QED BY <2>1 DEF HeapTyped
<1> QED BY <1>1, <1>2, <1>4, <1>5, <1>6, <1>7, <1>8, <1>9, <1>10 DEF HeapStep

-----------------------------------------------------------------------------
(***************************************************************************)
(* The tables of module CodeTypes, read at the current instruction.        *)
(***************************************************************************)
AsksHere(e) == Asks(prog, cnt, act.i, SortsHere(e))
MadeHere(e) == Made(prog, e, cnt, act.i, SortsHere(e))
Left(e)     == SubSeq(SortsHere(e), 1, Len(SortsHere(e)) - Takes(prog, Op, W(1)))
LateHere(e, s) == [s EXCEPT !.late = @ \/ ParsHere(e) # <<>>]

\* What is asked of the cells taken, one opcode at a time.
LEMMA AsksOf ==
  ASSUME NEW e, act.i \in Int, AsksHere(e)
  PROVE  LET ss == SortsHere(e)
             w  == W(1)
             u  == W(2)
         IN /\ Op \in IntAssign \cup IntAssignDivide => Stores(Value(VInt), VarOf(cnt, Top(ss, 1)))
            /\ Op = ASSIGNINT => Stores(Top(ss, 0), VarOf(cnt, Top(ss, 1)))
            /\ Op = ASSIGNSTR => MainType(VarOf(cnt, Top(ss, 1))) = VStr
            /\ Op \in MoneyAssign => VarOf(cnt, Top(ss, 1)) = VMoney
            /\ Op = APPENDARR => Contains(Top(ss, 0), SubType(VarOf(cnt, Top(ss, 1))))
            /\ Op = ASSIGNSETARR => Contains(Top(ss, 0), SubType(Top(ss, 2).of)) /\ Top(ss, 1).form = "index"
            /\ Op = ASSIGNSETMAP => Contains(Top(ss, 0), SubType(Top(ss, 2).of))
            /\ Op = ASSIGNSETBYTES => Top(ss, 1).form = "index"
            /\ Op = GETPARAMS => \A k \in 1..w : Stores(Top(ss, k - 1), VarType(cnt, cnt.code[act.i + 2 + k] + 1))
            /\ Op = INITARR => w > 0 /\ \A k \in 1..w : Contains(Top(ss, k - 1), SubType(ListType(ss, w)))
            /\ Op = INITMAP => w > 0 /\ \A k \in 1..w : Contains(Top(ss, 2 * k - 2), SubType(DictType(ss, w)))
            /\ Op = INITOBJ => \A k \in 1..w : Printable(Top(ss, 3 * k - 2), Top(ss, 3 * k - 3))
            /\ Op = INITOBJLIST => \A k \in 1..w : Printable(Top(ss, 2 * k - 1), Top(ss, 2 * k - 2))
            /\ Op \in {RETURN, COPY} => Reads(Top(ss, 0), w)
            /\ Op = PARCONTRACT => Contains(Top(ss, 0), u) /\ OwnCopy(u)
            /\ Op = EMBEDFUNC => w \in Library /\ (w = Join => Top(ss, 1).of = TypeOf(VArr, VStr))
            /\ Op \in Modelled
<1> DEFINE ss == SortsHere(e)
           w  == W(1)
           u  == W(2)
<1> USE DEF NOP, PUSH16, PUSH32, PUSHSTR, INITVARS, DELVARS, ADDINT, SUBINT, MULINT,
           DIVINT, MODINT, EQINT, LTINT, GTINT, AND, OR, DUP, GETVAR, SETVAR, JMP,
           JMPREL, JZE, JNZ, ASSIGNINT, ASSIGNSTR, ASSIGNADDINT, ASSIGNSUBINT,
           ASSIGNMULINT, ASSIGNDIVINT, ASSIGNMODINT, CALLFUNC, EMBEDFUNC,
           CUSTOMFUNC, CALLCONTRACT, LOADPARS, PARCONTRACT, GETPARAMS, RETURN,
           RETFUNC, SIGNINT, NOT, ADDSTR, EQSTR, ASSIGNADDSTR, APPENDARR, GETINDEX,
           SETINDEX, GETMAP, SETMAP, COPYSTR, COPY, ASSIGNSETMAP, ASSIGNSETARR,
           ASSIGNSETBYTES, INITARR, INITMAP, INITOBJ, INITOBJLIST, OBJ2LIST, ENV,
           PUSH64, SIGNFLOAT, ADDFLOAT, SUBFLOAT, MULFLOAT, DIVFLOAT,
           ASSIGNADDFLOAT, ASSIGNSUBFLOAT, ASSIGNMULFLOAT, ASSIGNDIVFLOAT, EQFLOAT,
           LTFLOAT, GTFLOAT, ADDMONEY, SUBMONEY, MULMONEY, DIVMONEY, SIGNMONEY,
           ASSIGNADDMONEY, ASSIGNSUBMONEY, ASSIGNMULMONEY, ASSIGNDIVMONEY, EQMONEY,
           LTMONEY, GTMONEY, ASSIGNADDBYTES, DATA
<1> USE DEF IntBinary, IntDivide, IntAssign, IntAssignDivide, MoneyBinary, MoneyCompare, MoneyAssign
<1>1. act.i + 1 + 1 = act.i + 2 /\ act.i + 1 + 2 = act.i + 3
  OBVIOUS
<1>2. Op = cnt.code[act.i + 1] /\ w = cnt.code[act.i + 2] /\ u = cnt.code[act.i + 3]
  BY <1>1 DEF Op, W
<1> DEFINE asked(op) ==
     CASE op \in IntAssign \cup IntAssignDivide -> Stores(Value(VInt), VarOf(cnt, Top(ss, 1)))
       [] op = ASSIGNINT -> Stores(Top(ss, 0), VarOf(cnt, Top(ss, 1)))
       [] op = ASSIGNSTR -> MainType(VarOf(cnt, Top(ss, 1))) = VStr
       [] op \in MoneyAssign -> VarOf(cnt, Top(ss, 1)) = VMoney
       [] op = APPENDARR -> Contains(Top(ss, 0), SubType(VarOf(cnt, Top(ss, 1))))
       [] op \in {ASSIGNSETARR, ASSIGNSETMAP} -> /\ Contains(Top(ss, 0), SubType(Top(ss, 2).of))
                                                 /\ op = ASSIGNSETARR => Top(ss, 1).form = "index"
       [] op = ASSIGNSETBYTES -> Top(ss, 1).form = "index"
       [] op = GETPARAMS -> \A k \in 1..w : Stores(Top(ss, k - 1), VarType(cnt, cnt.code[act.i + 2 + k] + 1))
       [] op = INITARR -> w > 0 /\ \A k \in 1..w : Contains(Top(ss, k - 1), SubType(ListType(ss, w)))
       [] op = INITMAP -> w > 0 /\ \A k \in 1..w : Contains(Top(ss, 2 * k - 2), SubType(DictType(ss, w)))
       [] op = INITOBJ -> \A k \in 1..w : Printable(Top(ss, 3 * k - 2), Top(ss, 3 * k - 3))
       [] op = INITOBJLIST -> \A k \in 1..w : Printable(Top(ss, 2 * k - 1), Top(ss, 2 * k - 2))
       [] op \in {RETURN, COPY} -> Reads(Top(ss, 0), w)
       [] op = PARCONTRACT -> Contains(Top(ss, 0), u) /\ OwnCopy(u)
       [] op = EMBEDFUNC -> w \in Library /\ (w = Join => Top(ss, 1).of = TypeOf(VArr, VStr))
       [] OTHER -> op \in Modelled
<1>3. asked(Op)
  BY <1>2 DEF AsksHere, Asks
<1> HIDE DEF w, u, ss
<1>4. Op \in IntAssign \cup IntAssignDivide => Stores(Value(VInt), VarOf(cnt, Top(ss, 1)))
  BY <1>3
<1>5. /\ Op = ASSIGNINT => Stores(Top(ss, 0), VarOf(cnt, Top(ss, 1)))
      /\ Op = ASSIGNSTR => MainType(VarOf(cnt, Top(ss, 1))) = VStr
      /\ Op \in MoneyAssign => VarOf(cnt, Top(ss, 1)) = VMoney
      /\ Op = APPENDARR => Contains(Top(ss, 0), SubType(VarOf(cnt, Top(ss, 1))))
  BY <1>3
<1>6. /\ Op = ASSIGNSETARR => Contains(Top(ss, 0), SubType(Top(ss, 2).of)) /\ Top(ss, 1).form = "index"
      /\ Op = ASSIGNSETMAP => Contains(Top(ss, 0), SubType(Top(ss, 2).of))
      /\ Op = ASSIGNSETBYTES => Top(ss, 1).form = "index"
  BY <1>3
<1>7. /\ Op = GETPARAMS => \A k \in 1..w : Stores(Top(ss, k - 1), VarType(cnt, cnt.code[act.i + 2 + k] + 1))
      /\ Op = INITARR => w > 0 /\ \A k \in 1..w : Contains(Top(ss, k - 1), SubType(ListType(ss, w)))
      /\ Op = INITMAP => w > 0 /\ \A k \in 1..w : Contains(Top(ss, 2 * k - 2), SubType(DictType(ss, w)))
  BY <1>3
<1>8. /\ Op = INITOBJ => \A k \in 1..w : Printable(Top(ss, 3 * k - 2), Top(ss, 3 * k - 3))
      /\ Op = INITOBJLIST => \A k \in 1..w : Printable(Top(ss, 2 * k - 1), Top(ss, 2 * k - 2))
      /\ Op \in {RETURN, COPY} => Reads(Top(ss, 0), w)
      /\ Op = PARCONTRACT => Contains(Top(ss, 0), u) /\ OwnCopy(u)
      /\ Op = EMBEDFUNC => w \in Library /\ (w = Join => Top(ss, 1).of = TypeOf(VArr, VStr))
  BY <1>3
<1>9. Op \in Modelled
  BY <1>3 DEF Modelled
<1> QED BY <1>4, <1>5, <1>6, <1>7, <1>8, <1>9 DEF w, u, ss

\* What is put on the stack, one opcode at a time.
LEMMA MadeOf ==
  ASSUME NEW e, act.i \in Int
  PROVE  LET ss == SortsHere(e)
             w  == W(1)
         IN /\ Op = PUSH16 => MadeHere(e) = Cast("literal", w)
            /\ Op \in {PUSHSTR, ADDSTR, COPYSTR} => MadeHere(e) = Value(VStr)
            /\ Op = GETVAR => MadeHere(e) = Value(VarType(cnt, w + 1))
            /\ Op = SETVAR => MadeHere(e) = Cast("addr", w)
            /\ Op = ENV => MadeHere(e) = IF e[w + 1] = VStr THEN Shared ELSE Value(e[w + 1])
            /\ Op \in {EQINT, LTINT, GTINT, AND, OR, NOT, EQSTR} \cup MoneyCompare => MadeHere(e) = Value(VBool)
            /\ Op \in MoneyBinary \cup {SIGNMONEY} => MadeHere(e) = Value(VMoney)
            /\ Op = INITARR => MadeHere(e) = Value(ListType(ss, w))
            /\ Op = INITMAP => MadeHere(e) = Value(DictType(ss, w))
            /\ Op = INITOBJ => MadeHere(e) = Value(VObject)
            /\ Op \in {INITOBJLIST, OBJ2LIST} => MadeHere(e) = Value(VObjList)
            /\ Op = GETINDEX => MadeHere(e) = IF MainType(Top(ss, 1).of) = VArr THEN SortOfItem(Top(ss, 1).of)
                                              ELSE Value(VInt)
            /\ Op = GETMAP => MadeHere(e) = SortOfItem(Top(ss, 1).of)
            /\ Op = SETINDEX => MadeHere(e) = Cast("index", 0)
            /\ Op = COPY => MadeHere(e) = IF MainType(w) \in InHeap \cup {VStr} THEN Value(w) ELSE Bare(Top(ss, 0))
            /\ Op = DUP => MadeHere(e) = Bare(Top(ss, 0))
            /\ Op = EMBEDFUNC => MadeHere(e) = LibType(w)
            /\ Op = CUSTOMFUNC => MadeHere(e) = Value(prog.funcs[w + 1].result)
            /\ Op \in {PUSH32, PUSH64, SIGNINT} \cup {ADDINT, SUBINT, MULINT} \cup IntDivide => MadeHere(e) = Value(VInt)
<1> DEFINE ss == SortsHere(e)
           w  == W(1)
<1> USE DEF NOP, PUSH16, PUSH32, PUSHSTR, INITVARS, DELVARS, ADDINT, SUBINT, MULINT,
           DIVINT, MODINT, EQINT, LTINT, GTINT, AND, OR, DUP, GETVAR, SETVAR, JMP,
           JMPREL, JZE, JNZ, ASSIGNINT, ASSIGNSTR, ASSIGNADDINT, ASSIGNSUBINT,
           ASSIGNMULINT, ASSIGNDIVINT, ASSIGNMODINT, CALLFUNC, EMBEDFUNC,
           CUSTOMFUNC, CALLCONTRACT, LOADPARS, PARCONTRACT, GETPARAMS, RETURN,
           RETFUNC, SIGNINT, NOT, ADDSTR, EQSTR, ASSIGNADDSTR, APPENDARR, GETINDEX,
           SETINDEX, GETMAP, SETMAP, COPYSTR, COPY, ASSIGNSETMAP, ASSIGNSETARR,
           ASSIGNSETBYTES, INITARR, INITMAP, INITOBJ, INITOBJLIST, OBJ2LIST, ENV,
           PUSH64, SIGNFLOAT, ADDFLOAT, SUBFLOAT, MULFLOAT, DIVFLOAT,
           ASSIGNADDFLOAT, ASSIGNSUBFLOAT, ASSIGNMULFLOAT, ASSIGNDIVFLOAT, EQFLOAT,
           LTFLOAT, GTFLOAT, ADDMONEY, SUBMONEY, MULMONEY, DIVMONEY, SIGNMONEY,
           ASSIGNADDMONEY, ASSIGNSUBMONEY, ASSIGNMULMONEY, ASSIGNDIVMONEY, EQMONEY,
           LTMONEY, GTMONEY, ASSIGNADDBYTES, DATA
<1> USE DEF IntBinary, IntDivide, IntAssign, IntAssignDivide, MoneyBinary, MoneyCompare, MoneyAssign
<1>1. act.i + 1 + 1 = act.i + 2
  OBVIOUS
<1>2. Op = cnt.code[act.i + 1] /\ w = cnt.code[act.i + 2]
  BY <1>1 DEF Op, W
<1> DEFINE made(op) ==
     CASE op = PUSH16 -> Cast("literal", w)
       [] op \in {PUSHSTR, ADDSTR, COPYSTR} -> Value(VStr)
       [] op = GETVAR -> Value(VarType(cnt, w + 1))
       [] op = SETVAR -> Cast("addr", w)
       [] op = ENV -> IF e[w + 1] = VStr THEN Shared ELSE Value(e[w + 1])
       [] op \in {EQINT, LTINT, GTINT, AND, OR, NOT, EQSTR} \cup MoneyCompare -> Value(VBool)
       [] op \in MoneyBinary \cup {SIGNMONEY} -> Value(VMoney)
       [] op = INITARR -> Value(ListType(ss, w))
       [] op = INITMAP -> Value(DictType(ss, w))
       [] op = INITOBJ -> Value(VObject)
       [] op \in {INITOBJLIST, OBJ2LIST} -> Value(VObjList)
       [] op = GETINDEX -> IF MainType(Top(ss, 1).of) = VArr THEN SortOfItem(Top(ss, 1).of)
                           ELSE Value(VInt)
       [] op = GETMAP -> SortOfItem(Top(ss, 1).of)
       [] op = SETINDEX -> Cast("index", 0)
       [] op = COPY -> IF MainType(w) \in InHeap \cup {VStr} THEN Value(w) ELSE Bare(Top(ss, 0))
       [] op = DUP -> Bare(Top(ss, 0))
       [] op = EMBEDFUNC -> LibType(w)
       [] op = CUSTOMFUNC -> Value(prog.funcs[w + 1].result)
       [] OTHER -> Value(VInt)
<1>3. MadeHere(e) = made(Op)
  BY <1>2 DEF MadeHere, Made
<1> HIDE DEF w, ss
<1>4. /\ Op = PUSH16 => MadeHere(e) = Cast("literal", w)
      /\ Op \in {PUSHSTR, ADDSTR, COPYSTR} => MadeHere(e) = Value(VStr)
      /\ Op = GETVAR => MadeHere(e) = Value(VarType(cnt, w + 1))
      /\ Op = SETVAR => MadeHere(e) = Cast("addr", w)
      /\ Op = ENV => MadeHere(e) = IF e[w + 1] = VStr THEN Shared ELSE Value(e[w + 1])
  BY <1>3
<1>5. /\ Op \in {EQINT, LTINT, GTINT, AND, OR, NOT, EQSTR} \cup MoneyCompare => MadeHere(e) = Value(VBool)
      /\ Op \in MoneyBinary \cup {SIGNMONEY} => MadeHere(e) = Value(VMoney)
  BY <1>3
<1>6. /\ Op = INITARR => MadeHere(e) = Value(ListType(ss, w))
      /\ Op = INITMAP => MadeHere(e) = Value(DictType(ss, w))
      /\ Op = INITOBJ => MadeHere(e) = Value(VObject)
      /\ Op \in {INITOBJLIST, OBJ2LIST} => MadeHere(e) = Value(VObjList)
  BY <1>3
<1>7. /\ Op = GETINDEX => MadeHere(e) = IF MainType(Top(ss, 1).of) = VArr THEN SortOfItem(Top(ss, 1).of)
                                              ELSE Value(VInt)
      /\ Op = GETMAP => MadeHere(e) = SortOfItem(Top(ss, 1).of)
      /\ Op = SETINDEX => MadeHere(e) = Cast("index", 0)
      /\ Op = COPY => MadeHere(e) = IF MainType(w) \in InHeap \cup {VStr} THEN Value(w) ELSE Bare(Top(ss, 0))
  BY <1>3
<1>8. Op = DUP => MadeHere(e) = Bare(Top(ss, 0))
  BY <1>3
<1>9. /\ Op = EMBEDFUNC => MadeHere(e) = LibType(w)
      /\ Op = CUSTOMFUNC => MadeHere(e) = Value(prog.funcs[w + 1].result)
      /\ Op \in {PUSH32, PUSH64, SIGNINT} \cup {ADDINT, SUBINT, MULINT} \cup IntDivide => MadeHere(e) = Value(VInt)
  BY <1>3
<1> QED BY <1>4, <1>5, <1>6, <1>7, <1>8, <1>9 DEF w, ss

\* The sorts of the cells behind an instruction, one opcode at a time.
LEMMA AfterOf ==
  ASSUME NEW e, act.i \in Int
  PROVE  /\ Op = SETMAP => AfterHere(e) = SortsHere(e)
         /\ Op = DUP => AfterHere(e) = Append(SortsHere(e), LateHere(e, MadeHere(e)))
         /\ Op = SETINDEX => AfterHere(e) = Append(SubSeq(SortsHere(e), 1, Len(SortsHere(e)) - 1),
                                                   LateHere(e, MadeHere(e)))
         /\ Op \notin {SETMAP, DUP, SETINDEX} =>
              AfterHere(e) = IF Leaves(prog, Op, W(1)) = 1 THEN Append(Left(e), LateHere(e, MadeHere(e)))
                             ELSE Left(e)
<1>1. act.i + 1 + 1 = act.i + 2
  OBVIOUS
<1>2. Op = cnt.code[act.i + 1] /\ W(1) = cnt.code[act.i + 2]
  BY <1>1 DEF Op, W
<1>3. SETMAP # DUP /\ SETMAP # SETINDEX /\ DUP # SETINDEX
  BY DEF SETMAP, DUP, SETINDEX
<1> QED BY <1>2, <1>3 DEF AfterHere, After, LateHere, MadeHere, Left

-----------------------------------------------------------------------------
\* What is known before a step, and that it leaves the machine as it should be.
Typing(e, types) == TypedState(e, types) /\ TypeOK' /\ CodeInv'
Typable(e) == \E types : FramesTyped(e, types)
\* The part of the heap that belongs to others is as it was.
Untouched == /\ Below(Ground, Mark')
             /\ \A j \in 1..Ground.objects : Objects'[j] = Objects[j]
             /\ \A j \in 1..Ground.strings : Strings'[j] = Strings[j]
Stepped(e) == Typable(e)' /\ Untouched

\* v is as s says, where it does not matter what lies below.
ValueIs(types, v, s, lo, end) ==
  CASE s.form = "value"   -> Denotes(types, v, s.of, lo, end)
    [] s.form = "shared"  -> v \in 0..end.strings - 1
    [] s.form = "addr"    -> v = AddressOf(s.of)
    [] s.form = "literal" -> v = s.of
    [] OTHER -> FALSE

\* The sorts the opcodes make are sorts.
LEMMA SortCast ==
  /\ \A t \in Nat : Value(t) \in SortSet /\ Value(t).form = "value" /\ Value(t).of = t /\ Value(t).late = FALSE
  /\ Shared \in SortSet /\ Shared.form = "shared" /\ Shared.of = VStr /\ Shared.late = FALSE
  /\ \A t \in Nat : /\ Cast("literal", t) \in SortSet /\ Cast("literal", t).form = "literal"
                    /\ Cast("literal", t).of = t /\ Cast("literal", t).late = FALSE
  /\ \A t \in Nat : /\ Cast("addr", t) \in SortSet /\ Cast("addr", t).form = "addr"
                    /\ Cast("addr", t).of = t /\ Cast("addr", t).late = FALSE
  /\ Cast("index", 0) \in SortSet /\ Cast("index", 0).form = "index" /\ Cast("index", 0).late = FALSE
BY DEF Value, Cast, SortSet, Shared, VStr

\* A sort made while parameters are passed is late, and otherwise as it was.
LEMMA LateSort ==
  ASSUME NEW e, NEW s \in SortSet, s.late => ParsHere(e) # <<>>
  PROVE  /\ LateHere(e, s) \in SortSet /\ LateHere(e, s).form = s.form /\ LateHere(e, s).of = s.of
         /\ LateHere(e, s).late = (ParsHere(e) # <<>>)
<1> DEFINE b == ParsHere(e) # <<>>
<1>1. b \in BOOLEAN
  OBVIOUS
<1> HIDE DEF b
<1>2. s = [form |-> s.form, of |-> s.of, late |-> s.late] /\ s.form \in {"value", "shared", "addr", "literal", "index"}
      /\ s.of \in Nat /\ s.late \in BOOLEAN
  BY DEF SortSet
<1>3. (s.late \/ b) = b
  BY <1>1, <1>2 DEF b
<1>4. LateHere(e, s) = [form |-> s.form, of |-> s.of, late |-> s.late \/ b]
  BY <1>2 DEF LateHere, b
<1> QED BY <1>1, <1>2, <1>3, <1>4 DEF SortSet, b

-----------------------------------------------------------------------------
(***************************************************************************)
(* The forms of Proceed.                                                   *)
(***************************************************************************)
LEMMA PutSteady ==
  ASSUME TypeOK, TypeOK', Fetching, NEW n \in Nat, n <= act.top + 1, NEW v, NEW g,
         Proceed([Replace(n, v) EXCEPT !.gas = g])
  PROVE  /\ Steady /\ status' = "running" /\ act'.top = act.top - n + 1
         /\ Alike(act.stack, act'.stack, act.top - n)
         /\ act'.stack[act'.top] = v /\ act'.Vars = act.Vars
<1>1. act \in ActivationType /\ act' \in ActivationType /\ status = "running"
  BY DEF TypeOK, Fetching
<1>2. /\ act'.cnt = act.cnt /\ act'.calls = act.calls /\ act'.params = act.params
      /\ act'.pars = act.pars /\ act'.counts = act.counts /\ act'.isParContract = act.isParContract
      /\ act'.i = act.i + Words(Op) /\ act'.Vars = act.Vars
  BY <1>1 DEF Proceed, Replace, ActivationType
<1>3. act'.top = act.top - n + 1 /\ act'.stack = [act.stack EXCEPT ![act.top - n + 1] = v]
  BY <1>1 DEF Proceed, Replace, ActivationType
<1>4. act.top \in Int /\ act.stack \in [0..StackSize - 1 -> Int] /\ act'.top \in -1..StackSize - 1 /\ StackSize \in Nat
  BY <1>1, SizesAssumption DEF ActivationType, Depths, Stacks
<1>5. act.top - n + 1 \in 0..StackSize - 1
  BY <1>3, <1>4
<1>6. act'.stack[act'.top] = v
  BY <1>3, <1>4, <1>5
<1>7. ASSUME NEW pos \in 0..act.top - n
      PROVE  act'.stack[pos] = act.stack[pos]
  <2>1. pos # act.top - n + 1 /\ pos \in 0..StackSize - 1
    BY <1>4, <1>5
  <2> QED BY <1>3, <1>4, <2>1
<1>8. UNCHANGED <<prog, callers, status>>
  BY DEF Proceed
<1> QED BY <1>1, <1>2, <1>3, <1>6, <1>7, <1>8 DEF Steady, Alike

\* Taking cells off the stack is a steady step.
LEMMA DropSteady ==
  ASSUME TypeOK, TypeOK', Fetching, NEW n \in Nat, NEW g, Proceed([Drop(n) EXCEPT !.gas = g])
  PROVE  /\ Steady /\ status' = "running" /\ act'.top = act.top - n
         /\ act'.stack = act.stack /\ act'.Vars = act.Vars
<1>1. act \in ActivationType /\ act' \in ActivationType /\ status = "running"
  BY DEF TypeOK, Fetching
<1>2. /\ act'.cnt = act.cnt /\ act'.calls = act.calls /\ act'.params = act.params
      /\ act'.pars = act.pars /\ act'.counts = act.counts /\ act'.isParContract = act.isParContract
      /\ act'.i = act.i + Words(Op) /\ act'.Vars = act.Vars
  BY <1>1 DEF Proceed, Drop, ActivationType
<1>3. act'.top = act.top - n /\ act'.stack = act.stack
  BY <1>1 DEF Proceed, Drop, ActivationType
<1>4. UNCHANGED <<prog, callers, status>>
  BY DEF Proceed
<1> QED BY <1>1, <1>2, <1>3, <1>4 DEF Steady

\* So is taking them off and assigning variables.
LEMMA StoreSteady ==
  ASSUME TypeOK, TypeOK', Fetching, NEW n \in Nat, NEW v, NEW vs,
         Proceed([Drop(n) EXCEPT !.Vars = vs])
  PROVE  /\ Steady /\ status' = "running" /\ act'.top = act.top - n
         /\ act'.stack = act.stack /\ act'.Vars = vs
<1>1. act \in ActivationType /\ act' \in ActivationType /\ status = "running"
  BY DEF TypeOK, Fetching
<1>2. /\ act'.cnt = act.cnt /\ act'.calls = act.calls /\ act'.params = act.params
      /\ act'.pars = act.pars /\ act'.counts = act.counts /\ act'.isParContract = act.isParContract
      /\ act'.i = act.i + Words(Op) /\ act'.Vars = vs
  BY <1>1 DEF Proceed, Drop, ActivationType
<1>3. act'.top = act.top - n /\ act'.stack = act.stack
  BY <1>1 DEF Proceed, Drop, ActivationType
<1>4. UNCHANGED <<prog, callers, status>>
  BY DEF Proceed
<1> QED BY <1>1, <1>2, <1>3, <1>4 DEF Steady

\* The forms the next activation is written in, as one.
LEMMA FormsOfProceed ==
  ASSUME act \in ActivationType
  PROVE  /\ \A v : Push(v) = [Replace(0, v) EXCEPT !.gas = act.gas]
         /\ \A n, v : Replace(n, v) = [Replace(n, v) EXCEPT !.gas = act.gas]
         /\ \A n : Drop(n) = [Drop(n) EXCEPT !.gas = act.gas]
         /\ act = [Drop(0) EXCEPT !.gas = act.gas]
         /\ \A addr, v, n : Store(addr, v, n) =
              [Drop(n) EXCEPT !.Vars = [act.Vars EXCEPT ![addr - HalfRange + 1] = v]]
<1>1. act.top \in Int
  BY DEF ActivationType, Depths
<1>2. \A v : Push(v) = [Replace(0, v) EXCEPT !.gas = act.gas]
  <2> TAKE v
  <2>1. act.top - 0 + 1 = act.top + 1
    BY <1>1
  <2>2. Replace(0, v) = Push(v)
    BY <2>1, Zenon DEF Replace, Push
  <2>3. Replace(0, v) = [Replace(0, v) EXCEPT !.gas = act.gas]
    BY DEF ActivationType, Replace
  <2> QED BY <2>2, <2>3
<1>3. \A n, v : Replace(n, v) = [Replace(n, v) EXCEPT !.gas = act.gas]
  BY DEF ActivationType, Replace
<1>4. \A n : Drop(n) = [Drop(n) EXCEPT !.gas = act.gas]
  BY DEF ActivationType, Drop
<1>5. act = [Drop(0) EXCEPT !.gas = act.gas]
  <2>1. act.top - 0 = act.top
    BY <1>1
  <2>2. Drop(0) = act
    BY <2>1 DEF Drop, ActivationType
  <2>3. Drop(0) = [Drop(0) EXCEPT !.gas = act.gas]
    BY <1>4
  <2> QED BY <2>2, <2>3
<1>6. \A addr, v, n : Store(addr, v, n) =
        [Drop(n) EXCEPT !.Vars = [act.Vars EXCEPT ![addr - HalfRange + 1] = v]]
  BY DEF ActivationType, Store, Drop
<1> QED BY <1>2, <1>3, <1>4, <1>5, <1>6

-----------------------------------------------------------------------------
(***************************************************************************)
(* An instruction that takes n cells and puts one in their place.          *)
(***************************************************************************)
LEMMA Putting ==
  ASSUME NEW e, NEW types, Typing(e, types), Fetching, NEW n \in Nat, NEW v, NEW g,
         Proceed([Replace(n, v) EXCEPT !.gas = g]),
         Op \notin Turns \cup {PARCONTRACT, CALLCONTRACT, SETMAP, SETINDEX},
         Op = DUP => n = 0, Op # DUP => n = Takes(prog, Op, W(1)) /\ Leaves(prog, Op, W(1)) = 1,
         NEW types2, HeapStep(types, types2),
         NEW s \in SortSet, MadeHere(e) = s, s.late => ParsHere(e) # <<>>, s.form # "index",
         ValueIs(types2, v, s, Ground, Mark')
  PROVE  Stepped(e)
<1> DEFINE ss == SortsHere(e)
           t == LateHere(e, s)
<1>1. TypedState(e, types) /\ TypeOK /\ TypeOK' /\ CodeInv'
  BY DEF Typing, TypedState, IInv
<1>2. /\ ss \in Seq(SortSet) /\ Takes(prog, Op, W(1)) \in Nat /\ Takes(prog, Op, W(1)) <= Len(ss)
      /\ act.top \in Nat /\ act.top >= Floor(cnt, Here, act.calls, Len(act.calls)) + Len(ss)
      /\ Floor(cnt, Here, act.calls, Len(act.calls)) \in Nat /\ act.i \in Int
  BY <1>1, TypedHere DEF Fetching
<1>3. n \in 0..Len(ss) /\ n <= act.top + 1
  BY <1>2
<1>4. /\ Steady /\ act'.top = act.top - n + 1 /\ Alike(act.stack, act'.stack, act.top - n)
      /\ act'.stack[act'.top] = v /\ act'.Vars = act.Vars
  BY <1>1, <1>3, PutSteady
<1>5. t \in SortSet /\ t.form = s.form /\ t.of = s.of /\ t.late = (ParsHere(e) # <<>>)
  BY LateSort
<1>6. AfterHere(e) = Append(SubSeq(ss, 1, Len(ss) - n), t)
  <2>1. CASE Op = DUP
    <3>1. n = 0 /\ SubSeq(ss, 1, Len(ss)) = ss /\ Len(ss) - 0 = Len(ss)
      BY <1>2, <2>1
    <3> QED BY <1>2, <2>1, <3>1, AfterOf
  <2>2. CASE Op # DUP
    BY <1>2, <2>2, AfterOf DEF Left
  <2> QED BY <2>1, <2>2
<1>7. CellIs(types2, Objects', act'.stack, act'.top, t, Ground, Mark')
  BY <1>4, <1>5 DEF CellIs, ValueIs
<1>8. Op \notin Turns \cup {PARCONTRACT, CALLCONTRACT}
  OBVIOUS
<1> HIDE DEF t, ss
<1>9. FramesTyped(e, types2)'
  BY <1>1, <1>3, <1>4, <1>5, <1>6, <1>7, <1>8, Yielding DEF ss
<1>10. Untouched
  BY <1>1, StepBounds DEF HeapStep, Untouched, Fetching
<1> QED BY <1>9, <1>10 DEF Typable, Stepped

\* An instruction that takes its cells and leaves none keeps the types.
LEMMA Consuming ==
  ASSUME NEW e, NEW types, Typing(e, types), Fetching, Steady,
         act'.top = act.top - Takes(prog, Op, W(1)), act'.stack = act.stack,
         Op \notin Turns \cup {PARCONTRACT, CALLCONTRACT, SETMAP, SETINDEX, DUP},
         Leaves(prog, Op, W(1)) # 1, NEW types2, HeapStep(types, types2),
         VarsTyped(cnt, types2, act'.Vars, Ground, Middle')
  PROVE  Stepped(e)
<1> DEFINE n == Takes(prog, Op, W(1))
<1>1. TypedState(e, types) /\ TypeOK /\ TypeOK' /\ CodeInv' /\ act.i \in Int
  BY DEF Typing, TypedState, IInv, Fetching
<1>2. n \in 0..Len(SortsHere(e))
  BY <1>1, TypedHere
<1>3. AfterHere(e) = SubSeq(SortsHere(e), 1, Len(SortsHere(e)) - n)
  BY <1>1, AfterOf DEF Left
<1>4. Op \notin Turns \cup {PARCONTRACT, CALLCONTRACT}
  OBVIOUS
<1> HIDE DEF n
<1>5. act'.top = act.top - n
  BY DEF n
<1>6. FramesTyped(e, types2)'
  BY <1>1, <1>2, <1>3, <1>4, <1>5, Dropping
<1>7. Untouched
  BY <1>1, StepBounds DEF HeapStep, Untouched, Fetching
<1> QED BY <1>6, <1>7 DEF Typable, Stepped

-----------------------------------------------------------------------------
\* The type of a variable is a number, of one of the types variables have.
LEMMA VarTypeNat ==
  ASSUME NEW c \in Contract, NEW m \in 1..Variables(c)
  PROVE  VarType(c, m) \in Nat /\ MainType(VarType(c, m)) \in InVars
<1>1. Slots(c, InVars) \subseteq 0..Len(c.vars) /\ Len(c.vars) \in Nat /\ Slots(c, InVars) \subseteq 1..Len(c.vars)
  BY SlotsType
<1>2. Nth(Slots(c, InVars), m) \in Slots(c, InVars)
  BY <1>1, NthMember DEF Variables
<1>3. c.vars \in Seq(0..WordMax)
  BY DEF Contract
<1> DEFINE k == Nth(Slots(c, InVars), m)
<1>4. k \in 1..Len(c.vars) /\ MainType(c.vars[k]) \in InVars
  BY <1>1, <1>2 DEF Slots
<1> HIDE DEF k
<1>5. c.vars[k] \in Nat
  <2>1. ASSUME NEW S, NEW s \in Seq(S), NEW j \in 1..Len(s) PROVE s[j] \in S
    OBVIOUS
  <2>2. 0..WordMax \subseteq Nat
    BY DEF WordMax
  <2> QED BY <1>3, <1>4, <2>1, <2>2
<1> QED BY <1>4, <1>5 DEF k, VarType

\* What is known before an instruction.
LEMMA Before ==
  ASSUME NEW e, NEW types, Typing(e, types), NEW ops, Dispatch(ops)
  PROVE  /\ TypedState(e, types) /\ TypeOK /\ TypeOK' /\ CodeInv' /\ Fetching /\ Op \in ops
         /\ act.i \in Int /\ act \in ActivationType /\ CodeVerified /\ CodeInv /\ cnt \in Contract
         /\ AsksHere(e) /\ SortsHere(e) \in Seq(SortSet) /\ Len(SortsHere(e)) \in Nat
         /\ act.top \in Nat /\ Len(SortsHere(e)) <= act.top
         /\ types \in Seq(Nat) /\ Len(types) = Len(Objects) /\ KindsTyped(types, Objects)
         /\ Strings \in Seq(Text) /\ Objects \in Seq(Object)
         /\ e \in [DOMAIN prog.env -> EnvTypes]
<1>1. TypedState(e, types) /\ TypeOK /\ TypeOK' /\ CodeInv' /\ IInv /\ CodeInv /\ CompiledFor(e)
      /\ FramesTyped(e, types)
  BY DEF Typing, TypedState, IInv
<1>2. Fetching /\ Op \in ops /\ act.i \in Int
  BY <1>1, Dispatched
<1>3. CodeVerified /\ cnt \in Contract /\ act \in ActivationType
  BY <1>1, RunningContract DEF CompiledFor, TypeOK
<1>4. /\ SortsHere(e) \in Seq(SortSet) /\ Accepts(prog, cnt, act.i, SortsHere(e), ParsHere(e))
      /\ act.top \in Nat /\ CellsAre(types, Objects, act.stack, act.top, SortsHere(e), Ground, Middle, Mark)
  BY <1>1, <1>2, TypedHere
<1>5. AsksHere(e)
  BY <1>4, Zenon DEF Accepts, AsksHere
<1>6. Len(SortsHere(e)) <= act.top
  BY <1>4 DEF CellsAre
<1> QED BY <1>1, <1>2, <1>3, <1>4, <1>5, <1>6 DEF FramesTyped, TypeOK, CompiledFor

\* The marks between which what is here lies.
LEMMA Between ==
  ASSUME NEW e, NEW types, TypedState(e, types), Fetching
  PROVE  /\ Ground \in MarkType /\ Middle \in MarkType /\ Mark \in MarkType /\ Origin \in MarkType /\ Base \in MarkType
         /\ Below(Ground, Middle) /\ Below(Middle, Mark) /\ Below(Ground, Mark) /\ Below(Base, Mark)
         /\ Mark.strings = Len(Strings) /\ Mark.objects = Len(Objects)
         /\ VarsTyped(cnt, types, act.Vars, Ground, Middle)
         /\ ParamsTyped(cnt, types, act.params, Ground, Middle)
         /\ \A j \in DOMAIN prog.env : Denotes(types, prog.env[j], e[j], Origin, Base)
<1>1. IInv /\ EdgesRight /\ TypeOK
  BY DEF TypedState, FramesTyped, IInv
<1>2. /\ Ground \in MarkType /\ Middle \in MarkType /\ Mark \in MarkType
      /\ Below(Ground, Middle) /\ Below(Middle, Mark) /\ Below(Ground, Mark)
  BY <1>1, RunningBounds DEF Fetching
<1>3. Origin \in MarkType
  BY DEF Origin, MarkType
<1>4. Base \in MarkType
  BY <1>1 DEF TypeOK, Linked, Program, Base, MarkType
<1>5. /\ VarsTyped(cnt, types, act.Vars, Ground, Middle) /\ ParamsTyped(cnt, types, act.params, Ground, Middle)
  BY DEF TypedState, FramesTyped, Fetching, RunTyped, LocalsTyped
<1> QED BY <1>1, <1>2, <1>3, <1>4, <1>5 DEF EdgesRight, Mark, TypedState, FramesTyped

\* A value put on the stack, while the heap stays as it is.
LEMMA PuttingHere ==
  ASSUME NEW e, NEW types, Typing(e, types), NEW ops, Dispatch(ops), UNCHANGED heap,
         NEW n \in Nat, NEW v, NEW g, Proceed([Replace(n, v) EXCEPT !.gas = g]),
         Op \notin Turns \cup {PARCONTRACT, CALLCONTRACT, SETMAP, SETINDEX},
         Op = DUP => n = 0, Op # DUP => n = Takes(prog, Op, W(1)) /\ Leaves(prog, Op, W(1)) = 1,
         NEW s \in SortSet, MadeHere(e) = s, s.late => ParsHere(e) # <<>>, s.form # "index",
         ValueIs(types, v, s, Ground, Mark)
  PROVE  Stepped(e)
<1>1. TypedState(e, types) /\ TypeOK /\ TypeOK' /\ Fetching /\ act.top \in Nat
      /\ Takes(prog, Op, W(1)) <= Len(SortsHere(e)) /\ Len(SortsHere(e)) <= act.top
  BY Before, TypedHere
<1>2. UNCHANGED <<Strings, Objects>> /\ Mark' = Mark
  BY DEF heap, Mark
<1>3. n <= act.top + 1
  <2>1. n = 0 \/ n = Takes(prog, Op, W(1))
    OBVIOUS
  <2> QED BY <1>1, <2>1, Before
<1>4. Steady
  BY <1>1, <1>3, PutSteady
<1>5. HeapStep(types, types)
  BY <1>1, <1>2, <1>4, HeapUnchanged
<1>6. ValueIs(types, v, s, Ground, Mark')
  BY <1>2
<1> QED BY <1>1, <1>5, <1>6, Putting

\* A number put on the stack.
LEMMA PuttingNumber ==
  ASSUME NEW e, NEW types, Typing(e, types), NEW ops, Dispatch(ops), UNCHANGED heap,
         NEW n \in Nat, NEW v, NEW g, Proceed([Replace(n, v) EXCEPT !.gas = g]),
         Op \notin Turns \cup {PARCONTRACT, CALLCONTRACT, SETMAP, SETINDEX, DUP},
         n = Takes(prog, Op, W(1)), Leaves(prog, Op, W(1)) = 1,
         \/ MadeHere(e) = Value(VInt)
         \/ MadeHere(e) = Value(VBool) /\ v \in {0, 1}
  PROVE  Stepped(e)
<1> DEFINE s == MadeHere(e)
<1>1. VInt \in Nat /\ VBool \in Nat /\ MainType(VInt) = VInt /\ MainType(VBool) = VBool
  BY DEF VInt, VBool, MainType
<1>2. s \in SortSet /\ s.form = "value" /\ s.late = FALSE
  BY <1>1, SortCast
<1>3. ValueIs(types, v, s, Ground, Mark)
  <2>1. CASE s = Value(VInt)
    <3>1. Denotes(types, v, VInt, Ground, Mark)
      BY <1>1, DenotesOf, TypesApart
    <3> QED BY <1>1, <2>1, <3>1, SortCast DEF ValueIs
  <2>2. CASE s = Value(VBool) /\ v \in {0, 1}
    <3>1. Denotes(types, v, VBool, Ground, Mark)
      BY <1>1, <2>2, DenotesOf, TypesApart
    <3> QED BY <1>1, <2>2, <3>1, SortCast DEF ValueIs
  <2> QED BY <2>1, <2>2
<1> HIDE DEF s
<1> QED BY <1>2, <1>3, PuttingHere DEF s

-----------------------------------------------------------------------------
PutOps == IntBinary \cup IntDivide \cup MoneyBinary \cup MoneyCompare
  \cup {PUSH16, PUSH32, PUSH64, PUSHSTR, GETVAR, SETVAR, ENV, ADDSTR, EQSTR, GETINDEX, GETMAP,
        SIGNINT, NOT, SIGNMONEY, COPYSTR, COPY, OBJ2LIST, INITARR, INITMAP, INITOBJ,
        INITOBJLIST, EMBEDFUNC}
TakeOps == IntAssign \cup IntAssignDivide \cup MoneyAssign
  \cup {ASSIGNINT, ASSIGNSTR, ASSIGNADDSTR, ASSIGNADDBYTES, APPENDARR, ASSIGNSETMAP,
        ASSIGNSETARR, ASSIGNSETBYTES, GETPARAMS, LOADPARS}

\* The opcodes that put a value, those that take cells, and the others are apart.
LEMMA OpsApart ==
  /\ Op \in PutOps => /\ Op \notin Turns \cup {PARCONTRACT, CALLCONTRACT, SETMAP, SETINDEX, DUP}
                      /\ Leaves(prog, Op, W(1)) = 1
  /\ Op \in TakeOps => /\ Op \notin Turns \cup {PARCONTRACT, CALLCONTRACT, SETMAP, SETINDEX, DUP}
                       /\ Leaves(prog, Op, W(1)) = 0
  /\ Op \in {DUP, CUSTOMFUNC, SETMAP, SETINDEX} => Op \notin Turns \cup {PARCONTRACT, CALLCONTRACT}
  /\ Op = DUP => Op \notin {SETMAP, SETINDEX}
  /\ Op = CUSTOMFUNC => Op \notin {SETMAP, SETINDEX, DUP}
<1> USE DEF NOP, PUSH16, PUSH32, PUSHSTR, INITVARS, DELVARS, ADDINT, SUBINT, MULINT,
           DIVINT, MODINT, EQINT, LTINT, GTINT, AND, OR, DUP, GETVAR, SETVAR, JMP,
           JMPREL, JZE, JNZ, ASSIGNINT, ASSIGNSTR, ASSIGNADDINT, ASSIGNSUBINT,
           ASSIGNMULINT, ASSIGNDIVINT, ASSIGNMODINT, CALLFUNC, EMBEDFUNC,
           CUSTOMFUNC, CALLCONTRACT, LOADPARS, PARCONTRACT, GETPARAMS, RETURN,
           RETFUNC, SIGNINT, NOT, ADDSTR, EQSTR, ASSIGNADDSTR, APPENDARR, GETINDEX,
           SETINDEX, GETMAP, SETMAP, COPYSTR, COPY, ASSIGNSETMAP, ASSIGNSETARR,
           ASSIGNSETBYTES, INITARR, INITMAP, INITOBJ, INITOBJLIST, OBJ2LIST, ENV,
           PUSH64, ADDMONEY, SUBMONEY, MULMONEY, DIVMONEY, SIGNMONEY,
           ASSIGNADDMONEY, ASSIGNSUBMONEY, ASSIGNMULMONEY, ASSIGNDIVMONEY, EQMONEY,
           LTMONEY, GTMONEY, ASSIGNADDBYTES, DATA
<1> USE DEF IntBinary, IntDivide, IntAssign, IntAssignDivide, MoneyBinary, MoneyCompare, MoneyAssign
<1>1. Op \in PutOps => Op \notin Turns \cup {PARCONTRACT, CALLCONTRACT, SETMAP, SETINDEX, DUP}
  BY DEF PutOps, Turns
<1>2. Op \in TakeOps => Op \notin Turns \cup {PARCONTRACT, CALLCONTRACT, SETMAP, SETINDEX, DUP}
  BY DEF TakeOps, Turns
<1>3. /\ Op \in {DUP, CUSTOMFUNC, SETMAP, SETINDEX} => Op \notin Turns \cup {PARCONTRACT, CALLCONTRACT}
      /\ Op = DUP => Op \notin {SETMAP, SETINDEX}
      /\ Op = CUSTOMFUNC => Op \notin {SETMAP, SETINDEX, DUP}
  BY DEF Turns
<1>4. Op \in PutOps => Leaves(prog, Op, W(1)) = 1
  BY LeavesOf DEF PutOps
<1>5. Op \in TakeOps => Leaves(prog, Op, W(1)) = 0
  BY LeavesOf DEF TakeOps
<1> QED BY <1>1, <1>2, <1>3, <1>4, <1>5

\* What an instruction asks of the k-th cell below the top.
LEMMA MeetsFound ==
  ASSUME NEW e, NEW types, TypedState(e, types), Fetching
  PROVE  /\ Len(Operands(Op)) <= Len(SortsHere(e)) /\ Takes(prog, Op, W(1)) = Len(Operands(Op))
         /\ \A j \in 1..Len(Operands(Op)) :
              Meets1(cnt, SortsHere(e)[Len(SortsHere(e)) - Len(Operands(Op)) + j], Operands(Op)[j])
<1>1. /\ TypedState(e, types) /\ TypeOK /\ CodeVerified /\ CodeInv /\ Fetching /\ act.i \in Int
  BY HereChecked, RunningContract DEF Fetching
<1>2. Accepts(prog, cnt, act.i, SortsHere(e), ParsHere(e))
  BY <1>1, TypedHere
<1>3. act.i + 1 + 1 = act.i + 2 /\ act.i + 1 + 2 = act.i + 3
  BY <1>1
<1>4. Operands(Op) = Demands(prog, cnt.code[act.i + 1], cnt.code[act.i + 2], cnt.code[act.i + 3])
  BY <1>3 DEF Operands, Op, W
<1> QED BY <1>1, <1>2, <1>4, TakesOperands, Zenon DEF Accepts

\* The same for an instruction that is carried out.
LEMMA MeetsHere ==
  ASSUME NEW e, NEW types, Typing(e, types), NEW ops, Dispatch(ops)
  PROVE  /\ Len(Operands(Op)) <= Len(SortsHere(e)) /\ Takes(prog, Op, W(1)) = Len(Operands(Op))
         /\ \A j \in 1..Len(Operands(Op)) :
              Meets1(cnt, SortsHere(e)[Len(SortsHere(e)) - Len(Operands(Op)) + j], Operands(Op)[j])
<1>1. TypedState(e, types) /\ Fetching
  BY Before
<1> QED BY <1>1, MeetsFound

\* The demand of an instruction that takes one cell.
LEMMA Meets11 ==
  ASSUME NEW e, NEW types, Typing(e, types), NEW ops, Dispatch(ops), NEW s, Operands(Op) = <<s>>
  PROVE  /\ Takes(prog, Op, W(1)) = 1 /\ Len(SortsHere(e)) >= 1
         /\ Meets1(cnt, Top(SortsHere(e), 0), s)
<1> DEFINE ss == SortsHere(e)
<1>1. Len(ss) \in Nat /\ Len(Operands(Op)) = 1
  BY Before
<1>2. /\ Len(Operands(Op)) <= Len(ss) /\ Takes(prog, Op, W(1)) = Len(Operands(Op))
      /\ \A j \in 1..Len(Operands(Op)) : Meets1(cnt, ss[Len(ss) - Len(Operands(Op)) + j], Operands(Op)[j])
  BY MeetsHere
<1> HIDE DEF ss
<1>3. Meets1(cnt, ss[Len(ss) - 1 + 1], Operands(Op)[1])
  BY <1>1, <1>2
<1>4. Len(ss) - 1 + 1 = Len(ss) - 0 /\ Operands(Op)[1] = s
  BY <1>1
<1> QED BY <1>1, <1>2, <1>3, <1>4 DEF Top, ss

\* The demands of an instruction that takes two.
LEMMA Meets12 ==
  ASSUME NEW e, NEW types, Typing(e, types), NEW ops, Dispatch(ops), NEW s, NEW t,
         Operands(Op) = <<s, t>>
  PROVE  /\ Takes(prog, Op, W(1)) = 2 /\ Len(SortsHere(e)) >= 2
         /\ Meets1(cnt, Top(SortsHere(e), 1), s) /\ Meets1(cnt, Top(SortsHere(e), 0), t)
<1> DEFINE ss == SortsHere(e)
<1>1. Len(ss) \in Nat /\ Len(Operands(Op)) = 2
  BY Before
<1>2. /\ Len(Operands(Op)) <= Len(ss) /\ Takes(prog, Op, W(1)) = Len(Operands(Op))
      /\ \A j \in 1..Len(Operands(Op)) : Meets1(cnt, ss[Len(ss) - Len(Operands(Op)) + j], Operands(Op)[j])
  BY MeetsHere
<1> HIDE DEF ss
<1>3. /\ Meets1(cnt, ss[Len(ss) - 2 + 1], Operands(Op)[1])
      /\ Meets1(cnt, ss[Len(ss) - 2 + 2], Operands(Op)[2])
  BY <1>1, <1>2
<1>4. /\ Len(ss) - 2 + 1 = Len(ss) - 1 /\ Operands(Op)[1] = s
      /\ Len(ss) - 2 + 2 = Len(ss) - 0 /\ Operands(Op)[2] = t
  BY <1>1
<1> QED BY <1>1, <1>2, <1>3, <1>4 DEF Top, ss

\* The demands of an instruction that takes three.
LEMMA Meets13 ==
  ASSUME NEW e, NEW types, Typing(e, types), NEW ops, Dispatch(ops), NEW s, NEW t, NEW u,
         Operands(Op) = <<s, t, u>>
  PROVE  /\ Takes(prog, Op, W(1)) = 3 /\ Len(SortsHere(e)) >= 3
         /\ Meets1(cnt, Top(SortsHere(e), 2), s) /\ Meets1(cnt, Top(SortsHere(e), 1), t)
         /\ Meets1(cnt, Top(SortsHere(e), 0), u)
<1> DEFINE ss == SortsHere(e)
<1>1. Len(ss) \in Nat /\ Len(Operands(Op)) = 3
  BY Before
<1>2. /\ Len(Operands(Op)) <= Len(ss) /\ Takes(prog, Op, W(1)) = Len(Operands(Op))
      /\ \A j \in 1..Len(Operands(Op)) : Meets1(cnt, ss[Len(ss) - Len(Operands(Op)) + j], Operands(Op)[j])
  BY MeetsHere
<1> HIDE DEF ss
<1>3. /\ Meets1(cnt, ss[Len(ss) - 3 + 1], Operands(Op)[1])
      /\ Meets1(cnt, ss[Len(ss) - 3 + 2], Operands(Op)[2])
      /\ Meets1(cnt, ss[Len(ss) - 3 + 3], Operands(Op)[3])
  BY <1>1, <1>2
<1>4. /\ Len(ss) - 3 + 1 = Len(ss) - 2 /\ Operands(Op)[1] = s
      /\ Len(ss) - 3 + 2 = Len(ss) - 1 /\ Operands(Op)[2] = t
      /\ Len(ss) - 3 + 3 = Len(ss) - 0 /\ Operands(Op)[3] = u
  BY <1>1
<1> QED BY <1>1, <1>2, <1>3, <1>4 DEF Top, ss

\* Meeting a demand for a value of a type.
LEMMA MeetsOf ==
  ASSUME NEW c, NEW s
  PROVE  /\ Meets1(c, s, "str") => IsText(s)
         /\ Meets1(c, s, "item") => IsOf(s, {VArr, VBytes})
         /\ Meets1(c, s, "arr") => IsOf(s, {VArr})
         /\ Meets1(c, s, "map") => IsOf(s, {VMap})
         /\ Meets1(c, s, "bytes") => IsOf(s, {VBytes})
         /\ Meets1(c, s, "money") => IsOf(s, {VMoney})
         /\ Meets1(c, s, "file") => IsOf(s, {VFile})
         /\ Meets1(c, s, "obj") => IsOf(s, {VObject})
         /\ \A d \in {"addr", "addr_str", "addr_arr", "addr_bytes", "addr_money"} :
              Meets1(c, s, d) => s.form = "addr" /\ s.of < Variables(c)
         /\ Meets1(c, s, "addr_str") => MainType(VarOf(c, s)) = VStr
         /\ Meets1(c, s, "addr_arr") => MainType(VarOf(c, s)) = VArr
         /\ Meets1(c, s, "addr_bytes") => MainType(VarOf(c, s)) = VBytes
         /\ Meets1(c, s, "addr_money") => MainType(VarOf(c, s)) = VMoney
BY DEF Meets1, VarOf

-----------------------------------------------------------------------------
\* A step of Push16 leaves the heap and the frames with types.
LEMMA Push16Typed ==
  ASSUME NEW e, NEW types, Typing(e, types), Push16
  PROVE  Stepped(e)
<1>1. Dispatch({PUSH16}) /\ Proceed(Push(W(1))) /\ UNCHANGED heap
  BY DEF Push16
<1>2. Op = PUSH16 /\ act \in ActivationType /\ act.i \in Int /\ TypeOK
  BY <1>1, Before
<1>3. W(1) \in Nat
  BY <1>1, <1>2, WordsOf, OperandWord
<1>4. /\ Op \notin Turns \cup {PARCONTRACT, CALLCONTRACT, SETMAP, SETINDEX, DUP}
      /\ Leaves(prog, Op, W(1)) = 1 /\ Takes(prog, Op, W(1)) = 0
  BY <1>2, OpsApart, TakesOf DEF PutOps
<1>5. Proceed([Replace(0, W(1)) EXCEPT !.gas = act.gas])
  BY <1>1, <1>2, FormsOfProceed
<1> DEFINE s == Cast("literal", W(1))
<1>6. MadeHere(e) = s /\ s \in SortSet /\ s.form = "literal" /\ s.of = W(1) /\ s.late = FALSE
  BY <1>2, <1>3, MadeOf, SortCast
<1>7. ValueIs(types, W(1), s, Ground, Mark)
  BY <1>6 DEF ValueIs
<1> HIDE DEF s
<1> QED BY <1>1, <1>4, <1>5, <1>6, <1>7, PuttingHere

\* A step of Push32 leaves the heap and the frames with types.
LEMMA Push32Typed ==
  ASSUME NEW e, NEW types, Typing(e, types), Push32
  PROVE  Stepped(e)
<1> DEFINE v == W(1) * 65536 + W(2)
<1>1. Dispatch({PUSH32}) /\ Proceed(Push(v)) /\ UNCHANGED heap
  BY DEF Push32
<1>2. Op = PUSH32 /\ act \in ActivationType /\ act.i \in Int
  BY <1>1, Before
<1>4. /\ Op \notin Turns \cup {PARCONTRACT, CALLCONTRACT, SETMAP, SETINDEX, DUP}
      /\ Leaves(prog, Op, W(1)) = 1 /\ Takes(prog, Op, W(1)) = 0
  BY <1>2, OpsApart, TakesOf DEF PutOps
<1> HIDE DEF v
<1>5. Proceed([Replace(0, v) EXCEPT !.gas = act.gas])
  BY <1>1, <1>2, FormsOfProceed
<1>6. MadeHere(e) = Value(VInt)
  BY <1>2, MadeOf
<1> QED BY <1>1, <1>4, <1>5, <1>6, PuttingNumber

\* A step of Push64 leaves the heap and the frames with types.
LEMMA Push64Typed ==
  ASSUME NEW e, NEW types, Typing(e, types), Push64
  PROVE  Stepped(e)
<1> DEFINE v == Wrap(Shift16(Shift16(Shift16(W(1)) + W(2)) + W(3)) + W(4))
<1>1. Dispatch({PUSH64}) /\ Proceed(Push(v)) /\ UNCHANGED heap
  BY DEF Push64
<1>2. Op = PUSH64 /\ act \in ActivationType /\ act.i \in Int
  BY <1>1, Before
<1>4. /\ Op \notin Turns \cup {PARCONTRACT, CALLCONTRACT, SETMAP, SETINDEX, DUP}
      /\ Leaves(prog, Op, W(1)) = 1 /\ Takes(prog, Op, W(1)) = 0
  BY <1>2, OpsApart, TakesOf DEF PutOps
<1> HIDE DEF v
<1>5. Proceed([Replace(0, v) EXCEPT !.gas = act.gas])
  BY <1>1, <1>2, FormsOfProceed
<1>6. MadeHere(e) = Value(VInt)
  BY <1>2, MadeOf
<1> QED BY <1>1, <1>4, <1>5, <1>6, PuttingNumber

\* A cell that is copied out of its place serves as what it denotes.
LEMMA PlainSort ==
  ASSUME NEW types, NEW pos, NEW s \in SortSet, NEW lo, NEW end,
         CellIs(types, Objects, act.stack, pos, s, lo, end)
  PROVE  /\ Bare(s) \in SortSet /\ Bare(s).form # "index" /\ (Bare(s).late => s.late)
         /\ ValueIs(types, act.stack[pos], Bare(s), lo, end)
<1>1. CASE s.form # "index"
  <2>1. s.form \in {"value", "shared", "addr", "literal", "index"} /\ Bare(s) = s
    BY <1>1 DEF SortSet, Bare
  <2> QED BY <1>1, <2>1 DEF CellIs, ValueIs
<1>2. CASE s.form = "index"
  <2>1. VInt \in Nat /\ MainType(VInt) = VInt
    BY DEF VInt, MainType
  <2>2. Denotes(types, act.stack[pos], VInt, lo, end)
    BY <2>1, DenotesOf, TypesApart
  <2>3. Bare(s) = Value(VInt)
    BY <1>2 DEF Bare
  <2> QED BY <2>1, <2>2, <2>3, SortCast DEF ValueIs
<1> QED BY <1>1, <1>2

\* A step of Dup leaves the heap and the frames with types.
LEMMA DupTyped ==
  ASSUME NEW e, NEW types, Typing(e, types), Dup
  PROVE  Stepped(e)
<1>1. Dispatch({DUP}) /\ Proceed(Push(Cell(0))) /\ UNCHANGED heap
  BY DEF Dup
<1>2. Op = DUP /\ act \in ActivationType /\ act.i \in Int /\ TypedState(e, types) /\ Fetching
      /\ Len(SortsHere(e)) \in Nat
  BY <1>1, Before
<1>3. Len(SortsHere(e)) >= 1
  BY <1>1, <1>2, Meets11, OperandsOf
<1> DEFINE s == Top(SortsHere(e), 0)
           t == Bare(s)
<1>4. /\ s \in SortSet /\ CellIs(types, Objects, act.stack, act.top - 0, s, Ground, Mark)
      /\ Cell(0) = act.stack[act.top - 0]
      /\ s.late => ParsHere(e) # <<>>
  <2>1. 0 \in 0..Len(SortsHere(e)) - 1
    BY <1>2, <1>3
  <2> QED BY <1>2, <2>1, CellHere
<1>5. Proceed([Replace(0, Cell(0)) EXCEPT !.gas = act.gas])
  BY <1>1, <1>2, FormsOfProceed
<1>6. Op \notin Turns \cup {PARCONTRACT, CALLCONTRACT, SETMAP, SETINDEX}
  BY <1>2, OpsApart
<1>7. MadeHere(e) = t
  BY <1>2, MadeOf
<1> HIDE DEF t, s
<1>8. /\ t \in SortSet /\ t.form # "index" /\ (t.late => ParsHere(e) # <<>>)
      /\ ValueIs(types, Cell(0), t, Ground, Mark)
  BY <1>4, PlainSort DEF t
<1>9. Op = DUP /\ 0 \in Nat
  BY <1>2
<1> QED BY <1>1, <1>5, <1>6, <1>7, <1>8, <1>9, PuttingHere

\* A step of GetVar leaves the heap and the frames with types.
LEMMA GetVarTyped ==
  ASSUME NEW e, NEW types, Typing(e, types), GetVar
  PROVE  Stepped(e)
<1> DEFINE v == act.Vars[W(1) + 1]
           t == VarType(cnt, W(1) + 1)
<1>1. Dispatch({GETVAR}) /\ Proceed(Push(v)) /\ UNCHANGED heap
  BY DEF GetVar
<1>2. /\ Op = GETVAR /\ act \in ActivationType /\ act.i \in Int /\ TypedState(e, types) /\ Fetching
      /\ cnt \in Contract /\ TypeOK /\ CodeVerified /\ CodeInv
  BY <1>1, Before
<1>3. W(1) \in Nat /\ W(1) < Len(act.Vars) /\ Len(act.Vars) = Variables(cnt) /\ Len(act.Vars) \in Nat
  <2>1. W(1) \in Nat
    BY <1>1, <1>2, WordsOf, OperandWord
  <2>2. IndicesFit
    BY <1>1, <1>2, Dispatched
  <2>3. Len(act.Vars) \in Nat
    BY <1>2 DEF ActivationType
  <2> QED BY <1>2, <2>1, <2>2, <2>3, RunningFrame DEF IndicesFit
<1>4. /\ Op \notin Turns \cup {PARCONTRACT, CALLCONTRACT, SETMAP, SETINDEX, DUP}
      /\ Leaves(prog, Op, W(1)) = 1 /\ Takes(prog, Op, W(1)) = 0
  BY <1>2, OpsApart, TakesOf DEF PutOps
<1>5. W(1) + 1 \in 1..Len(act.Vars)
  BY <1>3
<1>6. t \in Nat
  BY <1>2, <1>3, <1>5, VarTypeNat
<1>7. MadeHere(e) = Value(t)
  BY <1>2, MadeOf
<1>8. Denotes(types, v, t, Ground, Mark)
  <2>1. /\ VarsTyped(cnt, types, act.Vars, Ground, Middle) /\ Ground \in MarkType /\ Middle \in MarkType
        /\ Mark \in MarkType /\ Below(Middle, Mark) /\ Below(Ground, Ground)
    BY <1>2, Between, BelowOrder
  <2>2. Denotes(types, v, t, Ground, Middle)
    BY <1>5, <2>1 DEF VarsTyped
  <2> HIDE DEF v, t
  <2> QED BY <2>1, <2>2, DenotesCarried
<1> HIDE DEF v, t
<1>9. Proceed([Replace(0, v) EXCEPT !.gas = act.gas])
  BY <1>1, <1>2, FormsOfProceed
<1> DEFINE s == Value(t)
<1>10. s \in SortSet /\ s.form = "value" /\ s.of = t /\ s.late = FALSE
  BY <1>6, SortCast
<1> HIDE DEF s
<1>11. MadeHere(e) = s /\ ValueIs(types, v, s, Ground, Mark)
  BY <1>7, <1>8, <1>10 DEF ValueIs, s
<1> QED BY <1>1, <1>4, <1>9, <1>10, <1>11, PuttingHere

\* A step of SetVar leaves the heap and the frames with types.
LEMMA SetVarTyped ==
  ASSUME NEW e, NEW types, Typing(e, types), SetVar
  PROVE  Stepped(e)
<1> DEFINE v == AddressOf(W(1))
           s == Cast("addr", W(1))
<1>1. Dispatch({SETVAR}) /\ Proceed(Push(v)) /\ UNCHANGED heap
  BY DEF SetVar
<1>2. /\ Op = SETVAR /\ act \in ActivationType /\ act.i \in Int /\ TypeOK
  BY <1>1, Before
<1>3. W(1) \in Nat
  BY <1>1, <1>2, WordsOf, OperandWord
<1>4. /\ Op \notin Turns \cup {PARCONTRACT, CALLCONTRACT, SETMAP, SETINDEX, DUP}
      /\ Leaves(prog, Op, W(1)) = 1 /\ Takes(prog, Op, W(1)) = 0
  BY <1>2, OpsApart, TakesOf DEF PutOps
<1>6. MadeHere(e) = s /\ s \in SortSet /\ s.form = "addr" /\ s.of = W(1) /\ s.late = FALSE
  BY <1>2, <1>3, MadeOf, SortCast
<1>7. ValueIs(types, v, s, Ground, Mark)
  BY <1>6 DEF ValueIs
<1> HIDE DEF s, v
<1>5. Proceed([Replace(0, v) EXCEPT !.gas = act.gas])
  BY <1>1, <1>2, FormsOfProceed
<1> QED BY <1>1, <1>4, <1>5, <1>6, <1>7, PuttingHere

\* A step of Env leaves the heap and the frames with types.
LEMMA EnvTyped ==
  ASSUME NEW e, NEW types, Typing(e, types), Env
  PROVE  Stepped(e)
<1> DEFINE v == prog.env[W(1) + 1]
           t == e[W(1) + 1]
           s == IF t = VStr THEN Shared ELSE Value(t)
<1>1. Dispatch({ENV}) /\ Proceed(Push(v)) /\ UNCHANGED heap
  BY DEF Env
<1>2. /\ Op = ENV /\ act \in ActivationType /\ act.i \in Int /\ TypedState(e, types) /\ Fetching
      /\ TypeOK /\ e \in [DOMAIN prog.env -> EnvTypes]
  BY <1>1, Before
<1>3. W(1) + 1 \in DOMAIN prog.env
  <2>1. W(1) \in Nat
    BY <1>1, <1>2, WordsOf, OperandWord
  <2>2. IndicesFit
    BY <1>1, <1>2, Dispatched
  <2>3. W(1) < Len(prog.env)
    BY <1>2, <2>2 DEF IndicesFit
  <2>4. prog.env \in Seq(Int)
    BY <1>2 DEF TypeOK, Linked, Program
  <2> QED BY <2>1, <2>3, <2>4
<1>4. /\ Op \notin Turns \cup {PARCONTRACT, CALLCONTRACT, SETMAP, SETINDEX, DUP}
      /\ Leaves(prog, Op, W(1)) = 1 /\ Takes(prog, Op, W(1)) = 0
  BY <1>2, OpsApart, TakesOf DEF PutOps
<1>5. t \in {VInt, VBool, VStr, VMoney, VFile, VObject}
  BY <1>2, <1>3 DEF EnvTypes
<1>6. /\ Denotes(types, v, t, Origin, Base) /\ Origin \in MarkType /\ Base \in MarkType
      /\ Mark \in MarkType /\ Below(Base, Mark) /\ Below(Origin, Origin)
  BY <1>2, <1>3, Between, BelowOrder
<1>7. MadeHere(e) = s
  BY <1>2, MadeOf
<1>8. Denotes(types, v, t, Origin, Mark)
  <2> HIDE DEF v, t
  <2> QED BY <1>6, DenotesCarried
<1> HIDE DEF v, t
<1>9. t \in Nat /\ MainType(t) = t /\ (t # VStr => MainType(t) # VStr /\ MainType(t) \notin Owned)
  BY <1>5 DEF MainType, VInt, VBool, VStr, VMoney, VFile, VObject, Owned, VArr, VMap, VBytes
<1>10. s \in SortSet /\ s.late = FALSE /\ s.form # "index"
  BY <1>9, SortCast
<1>11. ValueIs(types, v, s, Ground, Mark)
  <2>1. CASE t = VStr
    <3>1. s = Shared /\ s.form = "shared"
      BY <2>1, SortCast
    <3>2. v \in Origin.strings..Mark.strings - 1
      BY <1>8, <1>9, <2>1, DenotesOf
    <3>3. v \in 0..Mark.strings - 1
      BY <3>2 DEF Origin
    <3> HIDE DEF s
    <3> QED BY <3>1, <3>3 DEF ValueIs
  <2>2. CASE t # VStr
    <3>1. s = Value(t) /\ s.form = "value" /\ s.of = t
      BY <1>9, <2>2, SortCast
    <3>2. Denotes(types, v, t, Ground, Mark)
      BY <1>8, <1>9, <2>2, DenotesUnowned
    <3> HIDE DEF s
    <3> QED BY <3>1, <3>2 DEF ValueIs
  <2> QED BY <2>1, <2>2
<1> HIDE DEF s
<1>12. Proceed([Replace(0, v) EXCEPT !.gas = act.gas])
  BY <1>1, <1>2, FormsOfProceed DEF v
<1> QED BY <1>1, <1>4, <1>7, <1>10, <1>11, <1>12, PuttingHere

\* Each step of Stacking but PushStr keeps the types.
LEMMA StackingTyped ==
  ASSUME NEW e, NEW types, Typing(e, types), Stacking, ~PushStr
  PROVE  Stepped(e)
BY Push16Typed, Push32Typed, Push64Typed, DupTyped, GetVarTyped, SetVarTyped, EnvTyped, Zenon DEF Stacking

-----------------------------------------------------------------------------
(***************************************************************************)
(* What a value of the heap is.                                            *)
(***************************************************************************)
LEMMA KindsOf ==
  ASSUME NEW t
  PROVE  /\ MainType(t) = VArr <=> KindOf(t) = "arr"
         /\ MainType(t) = VMap <=> KindOf(t) = "map"
         /\ MainType(t) = VMoney <=> KindOf(t) = "money"
         /\ MainType(t) = VBytes <=> KindOf(t) = "bytes"
         /\ MainType(t) = VFile <=> KindOf(t) = "file"
         /\ MainType(t) = VObject <=> KindOf(t) = "obj"
         /\ MainType(t) = VObjList <=> KindOf(t) = "list"
BY DEF KindOf, VArr, VMap, VMoney, VBytes, VFile, VObject, VObjList

\* A handle found in a cell is that of an object made for its type, with items of the
\* types it has.
LEMMA HeldHere ==
  ASSUME NEW e, NEW types, TypedState(e, types), Fetching, NEW v, NEW t,
         Denotes(types, v, t, Ground, Mark), MainType(t) \in Handles
  PROVE  /\ v \in Int /\ v + 1 \in 1..Len(Objects) /\ IsObject(v) /\ Obj(v) = Objects[v + 1]
         /\ Obj(v) \in Object /\ Obj(v).kind = KindOf(t) /\ types[v + 1] = t
         /\ MainType(t) \in Owned => v + 1 \in Ground.objects + 1..Mark.objects
         /\ MainType(t) \in {VArr, VMap} =>
              \A j \in DOMAIN Obj(v).items :
                Denotes(types, Obj(v).items[j], SubType(t), Anchor(Ground), Mark)
<1>1. /\ v \in 0..Mark.objects - 1 /\ types[v + 1] = t
      /\ MainType(t) \in Owned => v >= Ground.objects
  BY DenotesOf
<1>2. /\ Ground \in MarkType /\ Middle \in MarkType /\ Mark \in MarkType
      /\ Below(Ground, Middle) /\ Below(Middle, Mark)
      /\ Mark.objects = Len(Objects) /\ Mark.objects \in Nat /\ Ground.objects \in Nat /\ Middle.objects \in Nat
      /\ Ground.objects <= Middle.objects
  BY Between DEF Below, MarkType
<1>3. v \in Int /\ v + 1 \in 1..Len(Objects) /\ v \in 0..Len(Objects) - 1
  BY <1>1, <1>2
<1>4. Objects \in Seq(Object) /\ KindsTyped(types, Objects)
  BY DEF TypedState, FramesTyped, IInv, TypeOK
<1>5. IsObject(v) /\ Obj(v) = Objects[v + 1] /\ Obj(v) \in Object /\ Obj(v).kind = KindOf(t)
  BY <1>1, <1>3, <1>4 DEF IsObject, Obj, KindsTyped
<1>6. MainType(t) \in Owned => v + 1 \in Ground.objects + 1..Mark.objects
  BY <1>1, <1>2
<1>7. MainType(t) \in {VArr, VMap} =>
        \A j \in DOMAIN Obj(v).items : Denotes(types, Obj(v).items[j], SubType(t), Anchor(Ground), Mark)
  <2> SUFFICES ASSUME MainType(t) \in {VArr, VMap}, NEW j \in DOMAIN Obj(v).items
               PROVE  Denotes(types, Obj(v).items[j], SubType(t), Anchor(Ground), Mark)
    OBVIOUS
  <2>1. HeapTyped(types, Objects, Ground, Middle) /\ HeapTyped(types, Objects, Middle, Mark)
    BY DEF TypedState, FramesTyped, Fetching, RunTyped
  <2>2. v + 1 \in Ground.objects + 1..Mark.objects
    BY <1>6 DEF Owned
  <2>3. CASE v + 1 <= Middle.objects
    <3>1. v + 1 \in Ground.objects + 1..Middle.objects
      BY <1>2, <2>2, <2>3
    <3>2. ObjectTyped(types, Obj(v), t, Ground, Middle)
      BY <1>1, <1>5, <2>1, <3>1 DEF HeapTyped
    <3>3. Denotes(types, Obj(v).items[j], SubType(t), Anchor(Ground), Middle)
      BY <3>2 DEF ObjectTyped
    <3>4. Anchor(Ground) \in MarkType /\ Below(Anchor(Ground), Anchor(Ground))
      BY <1>2 DEF Anchor, MarkType, Below
    <3> QED BY <1>2, <3>3, <3>4, DenotesCarried
  <2>4. CASE ~(v + 1 <= Middle.objects)
    <3>1. v + 1 \in Middle.objects + 1..Mark.objects
      BY <1>2, <2>2, <2>4
    <3>2. ObjectTyped(types, Obj(v), t, Middle, Mark)
      BY <1>1, <1>5, <2>1, <3>1 DEF HeapTyped
    <3>3. Denotes(types, Obj(v).items[j], SubType(t), Anchor(Middle), Mark)
      BY <3>2 DEF ObjectTyped
    <3>4. /\ Anchor(Ground) \in MarkType /\ Anchor(Middle) \in MarkType /\ Below(Anchor(Ground), Anchor(Middle))
          /\ Below(Mark, Mark)
      BY <1>2 DEF Anchor, MarkType, Below
    <3> QED BY <1>2, <3>3, <3>4, DenotesCarried
  <2> QED BY <2>3, <2>4
<1> QED BY <1>1, <1>3, <1>5, <1>6, <1>7

\* A value is what its sort says.
LEMMA ValueHere ==
  ASSUME NEW e, NEW types, TypedState(e, types), Fetching, NEW j \in 0..Len(SortsHere(e)) - 1,
         Top(SortsHere(e), j).form = "value"
  PROVE  /\ Denotes(types, Cell(j), Top(SortsHere(e), j).of, Ground, Mark)
         /\ Top(SortsHere(e), j).of \in Nat
BY CellHere DEF CellIs, SortSet

\* A text found in a cell is the index of one of the texts.
LEMMA TextHere ==
  ASSUME NEW e, NEW types, TypedState(e, types), Fetching, NEW j \in 0..Len(SortsHere(e)) - 1,
         IsText(Top(SortsHere(e), j))
  PROVE  /\ Cell(j) \in 0..Len(Strings) - 1 /\ IsString(Cell(j)) /\ String(Cell(j)) \in Text
<1>1. CellIs(types, Objects, act.stack, act.top - j, Top(SortsHere(e), j), Ground, Mark)
      /\ Cell(j) = act.stack[act.top - j]
  BY CellHere
<1>2. Ground \in MarkType /\ Mark \in MarkType /\ Mark.strings = Len(Strings)
  BY Between
<1>3. Cell(j) \in 0..Len(Strings) - 1
  BY <1>1, <1>2, TextRead
<1>4. TypeOK
  BY DEF TypedState, IInv
<1> QED BY <1>3, <1>4, StringType DEF IsString

-----------------------------------------------------------------------------
(***************************************************************************)
(* Instructions that put a number on the stack, and what the containers    *)
(* are asked for.                                                          *)
(***************************************************************************)
LEMMA ComputeTyped ==
  ASSUME NEW e, NEW types, Typing(e, types), Compute
  PROVE  Stepped(e)
<1> DEFINE v == Arith(Op, Cell(1), Cell(0))
<1>1. Dispatch(IntBinary \cup IntDivide) /\ Proceed(Replace(2, v)) /\ UNCHANGED heap
  BY DEF Compute
<1>2. Op \in IntBinary \cup IntDivide /\ act \in ActivationType /\ act.i \in Int
  BY <1>1, Before
<1>3. /\ Op \notin Turns \cup {PARCONTRACT, CALLCONTRACT, SETMAP, SETINDEX, DUP}
      /\ Leaves(prog, Op, W(1)) = 1 /\ Takes(prog, Op, W(1)) = 2
  BY <1>2, OpsApart, TakesOf DEF PutOps
<1>4. MadeHere(e) = Value(VInt) \/ (MadeHere(e) = Value(VBool) /\ v \in {0, 1})
  <2>1. CASE Op \in {ADDINT, SUBINT, MULINT} \cup IntDivide
    BY <1>2, <2>1, MadeOf
  <2>2. CASE Op \in {EQINT, LTINT, GTINT, AND, OR}
    <3>1. MadeHere(e) = Value(VBool)
      BY <1>2, <2>2, MadeOf
    <3>2. v \in {0, 1}
      BY <2>2 DEF Arith, Truth, ADDINT, SUBINT, MULINT, DIVINT, MODINT, EQINT, LTINT, GTINT, AND, OR,
                  ASSIGNADDINT, ASSIGNSUBINT, ASSIGNMULINT, ASSIGNDIVINT, ASSIGNMODINT
    <3> QED BY <3>1, <3>2
  <2> QED BY <1>2, <2>1, <2>2 DEF IntBinary
<1> HIDE DEF v
<1>5. Proceed([Replace(2, v) EXCEPT !.gas = act.gas])
  BY <1>1, <1>2, FormsOfProceed
<1> QED BY <1>1, <1>3, <1>4, <1>5, PuttingNumber

\* A step of Negate leaves the heap and the frames with types.
LEMMA NegateTyped ==
  ASSUME NEW e, NEW types, Typing(e, types), Negate
  PROVE  Stepped(e)
<1> DEFINE v == Wrap(-Cell(0))
<1>1. Dispatch({SIGNINT}) /\ Proceed(Replace(1, v)) /\ UNCHANGED heap
  BY DEF Negate
<1>2. Op = SIGNINT /\ act \in ActivationType /\ act.i \in Int
  BY <1>1, Before
<1>3. /\ Op \notin Turns \cup {PARCONTRACT, CALLCONTRACT, SETMAP, SETINDEX, DUP}
      /\ Leaves(prog, Op, W(1)) = 1 /\ Takes(prog, Op, W(1)) = 1
  BY <1>2, OpsApart, TakesOf DEF PutOps
<1>4. MadeHere(e) = Value(VInt)
  BY <1>2, MadeOf
<1> HIDE DEF v
<1>5. Proceed([Replace(1, v) EXCEPT !.gas = act.gas])
  BY <1>1, <1>2, FormsOfProceed
<1> QED BY <1>1, <1>3, <1>4, <1>5, PuttingNumber

\* A step of Not leaves the heap and the frames with types.
LEMMA NotTyped ==
  ASSUME NEW e, NEW types, Typing(e, types), Not
  PROVE  Stepped(e)
<1> DEFINE v == Truth(Cell(0) = 0)
<1>1. Dispatch({NOT}) /\ Proceed(Replace(1, v)) /\ UNCHANGED heap
  BY DEF Not
<1>2. Op = NOT /\ act \in ActivationType /\ act.i \in Int
  BY <1>1, Before
<1>3. /\ Op \notin Turns \cup {PARCONTRACT, CALLCONTRACT, SETMAP, SETINDEX, DUP}
      /\ Leaves(prog, Op, W(1)) = 1 /\ Takes(prog, Op, W(1)) = 1
  BY <1>2, OpsApart, TakesOf DEF PutOps
<1>4. MadeHere(e) = Value(VBool) /\ v \in {0, 1}
  BY <1>2, MadeOf DEF Truth
<1> HIDE DEF v
<1>5. Proceed([Replace(1, v) EXCEPT !.gas = act.gas])
  BY <1>1, <1>2, FormsOfProceed
<1> QED BY <1>1, <1>3, <1>4, <1>5, PuttingNumber

\* A step of EqStr leaves the heap and the frames with types.
LEMMA EqStrTyped ==
  ASSUME NEW e, NEW types, Typing(e, types), EqStr
  PROVE  Stepped(e)
<1> DEFINE v == Truth(String(Cell(1)) = String(Cell(0)))
<1>1. Dispatch({EQSTR}) /\ Proceed(Replace(2, v)) /\ UNCHANGED heap
  BY DEF EqStr
<1>2. Op = EQSTR /\ act \in ActivationType /\ act.i \in Int
  BY <1>1, Before
<1>3. /\ Op \notin Turns \cup {PARCONTRACT, CALLCONTRACT, SETMAP, SETINDEX, DUP}
      /\ Leaves(prog, Op, W(1)) = 1 /\ Takes(prog, Op, W(1)) = 2
  BY <1>2, OpsApart, TakesOf DEF PutOps
<1>4. MadeHere(e) = Value(VBool) /\ v \in {0, 1}
  BY <1>2, MadeOf DEF Truth
<1> HIDE DEF v
<1>5. Proceed([Replace(2, v) EXCEPT !.gas = act.gas])
  BY <1>1, <1>2, FormsOfProceed
<1> QED BY <1>1, <1>3, <1>4, <1>5, PuttingNumber

\* A step of CompareMoney leaves the heap and the frames with types.
LEMMA CompareMoneyTyped ==
  ASSUME NEW e, NEW types, Typing(e, types), CompareMoney
  PROVE  Stepped(e)
<1> DEFINE v == Truth(MoneyOrder(Op, Obj(Cell(1)), Obj(Cell(0))))
<1>1. Dispatch(MoneyCompare) /\ Proceed(Replace(2, v)) /\ UNCHANGED heap
  BY DEF CompareMoney
<1>2. Op \in MoneyCompare /\ act \in ActivationType /\ act.i \in Int
  BY <1>1, Before
<1>3. /\ Op \notin Turns \cup {PARCONTRACT, CALLCONTRACT, SETMAP, SETINDEX, DUP}
      /\ Leaves(prog, Op, W(1)) = 1 /\ Takes(prog, Op, W(1)) = 2
  BY <1>2, OpsApart, TakesOf DEF PutOps
<1>4. MadeHere(e) = Value(VBool) /\ v \in {0, 1}
  BY <1>2, MadeOf DEF Truth
<1> HIDE DEF v
<1>5. Proceed([Replace(2, v) EXCEPT !.gas = act.gas])
  BY <1>1, <1>2, FormsOfProceed
<1> QED BY <1>1, <1>3, <1>4, <1>5, PuttingNumber

\* What an array or a map holds, read as its sort says.
LEMMA ItemRead ==
  ASSUME NEW e, NEW types, TypedState(e, types), Fetching, NEW v, NEW t \in Nat,
         Denotes(types, v, SubType(t), Anchor(Ground), Mark)
  PROVE  /\ SortOfItem(t) \in SortSet /\ SortOfItem(t).late = FALSE /\ SortOfItem(t).form # "index"
         /\ ValueIs(types, v, SortOfItem(t), Ground, Mark)
<1> DEFINE u == SubType(t)
<1>1. u \in Nat
  BY DEF SubType
<1>2. CASE MainType(u) = VStr
  <2>1. SortOfItem(t) = Shared
    BY <1>2 DEF SortOfItem
  <2>2. v \in Anchor(Ground).strings..Mark.strings - 1
    BY <1>2, DenotesOf
  <2>3. v \in 0..Mark.strings - 1
    BY <2>2 DEF Anchor
  <2> QED BY <2>1, <2>3, SortCast DEF ValueIs
<1>3. CASE MainType(u) # VStr
  <2>1. SortOfItem(t) = Value(u)
    BY <1>3 DEF SortOfItem
  <2>2. Denotes(types, v, u, Ground, Mark)
    BY <1>3, DenotesOf DEF Anchor
  <2> HIDE DEF u
  <2>3. Value(u) \in SortSet /\ Value(u).form = "value" /\ Value(u).of = u /\ Value(u).late = FALSE
    BY <1>1, SortCast
  <2> QED BY <2>1, <2>2, <2>3 DEF ValueIs
<1> QED BY <1>2, <1>3

\* A step of GetIndex leaves the heap and the frames with types.
LEMMA GetIndexTyped ==
  ASSUME NEW e, NEW types, Typing(e, types), GetIndex
  PROVE  Stepped(e)
<1> DEFINE o == Obj(Cell(1))
           v == CASE o.kind = "arr"   -> o.items[Cell(0) + 1]
                  [] o.kind = "bytes" -> Buffers[o.buf][Cell(0) + 1]
                  [] OTHER -> Cell(1)
           s == Top(SortsHere(e), 1)
<1>1. Dispatch({GETINDEX}) /\ Proceed(Replace(2, v)) /\ UNCHANGED heap
  BY DEF GetIndex
<1>2. Op = GETINDEX /\ act \in ActivationType /\ act.i \in Int /\ TypedState(e, types) /\ Fetching /\ TypeOK
  BY <1>1, Before
<1>3. /\ Op \notin Turns \cup {PARCONTRACT, CALLCONTRACT, SETMAP, SETINDEX, DUP}
      /\ Leaves(prog, Op, W(1)) = 1 /\ Takes(prog, Op, W(1)) = 2
  BY <1>2, OpsApart, TakesOf DEF PutOps
<1>4. Operands(Op) = <<"item", "any">>
  BY <1>2, OperandsOf, Zenon
<1>5. s.form = "value" /\ MainType(s.of) \in {VArr, VBytes} /\ 1 \in 0..Len(SortsHere(e)) - 1
  <2>1. Meets1(cnt, s, "item") /\ Len(SortsHere(e)) >= 2 /\ Len(SortsHere(e)) \in Nat
    BY <1>1, <1>4, Meets12, Before
  <2> QED BY <2>1, MeetsOf DEF IsOf
<1>6. Denotes(types, Cell(1), s.of, Ground, Mark) /\ s.of \in Nat
  BY <1>2, <1>5, ValueHere
<1>7. /\ o \in Object /\ o.kind = KindOf(s.of)
      /\ MainType(s.of) = VArr =>
           \A j \in DOMAIN o.items : Denotes(types, o.items[j], SubType(s.of), Anchor(Ground), Mark)
  <2>1. MainType(s.of) \in Handles
    BY <1>5, TypesApart
  <2> HIDE DEF s
  <2> QED BY <1>2, <1>6, <2>1, HeldHere
<1>8. o.kind \in {"arr", "bytes"} => Cell(0) \in 0..ObjLen(o) - 1
  BY <1>1, <1>2, Dispatched, Unfailing
<1>9. MadeHere(e) = IF MainType(s.of) = VArr THEN SortOfItem(s.of) ELSE Value(VInt)
  BY <1>2, MadeOf
<1>10. CASE MainType(s.of) = VArr
  <2>1. o.kind = "arr"
    BY <1>7, <1>10, KindsOf
  <2>2. Cell(0) + 1 \in DOMAIN o.items
    BY <1>7, <1>8, <2>1 DEF ObjLen, Object
  <2>3. v = o.items[Cell(0) + 1] /\ Denotes(types, v, SubType(s.of), Anchor(Ground), Mark)
    BY <1>7, <1>10, <2>1, <2>2
  <2>4. MadeHere(e) = SortOfItem(s.of)
    BY <1>9, <1>10
  <2> HIDE DEF v, s
  <2>5. /\ SortOfItem(s.of) \in SortSet /\ SortOfItem(s.of).late = FALSE /\ SortOfItem(s.of).form # "index"
        /\ ValueIs(types, v, SortOfItem(s.of), Ground, Mark)
    BY <1>2, <1>6, <2>3, ItemRead
  <2>6. Proceed([Replace(2, v) EXCEPT !.gas = act.gas])
    BY <1>1, <1>2, FormsOfProceed
  <2> DEFINE r == SortOfItem(s.of)
  <2> HIDE DEF r
  <2>7. r \in SortSet /\ r.late = FALSE /\ r.form # "index" /\ ValueIs(types, v, r, Ground, Mark) /\ MadeHere(e) = r
    BY <2>4, <2>5 DEF r
  <2> QED BY <1>1, <1>3, <2>6, <2>7, PuttingHere
<1>11. CASE MainType(s.of) # VArr
  <2>1. MadeHere(e) = Value(VInt)
    BY <1>9, <1>11
  <2> HIDE DEF v, s
  <2>2. Proceed([Replace(2, v) EXCEPT !.gas = act.gas])
    BY <1>1, <1>2, FormsOfProceed
  <2> QED BY <1>1, <1>3, <2>1, <2>2, PuttingNumber
<1> QED BY <1>10, <1>11

\* A step of GetMap leaves the heap and the frames with types.
LEMMA GetMapTyped ==
  ASSUME NEW e, NEW types, Typing(e, types), GetMap
  PROVE  Stepped(e)
<1> DEFINE o == Obj(Cell(1))
           k == At(o, String(Cell(0)))
           v == o.items[k]
           s == Top(SortsHere(e), 1)
<1>1. Dispatch({GETMAP}) /\ Proceed(Replace(2, v)) /\ UNCHANGED heap
  BY DEF GetMap
<1>2. Op = GETMAP /\ act \in ActivationType /\ act.i \in Int /\ TypedState(e, types) /\ Fetching /\ TypeOK
  BY <1>1, Before
<1>3. /\ Op \notin Turns \cup {PARCONTRACT, CALLCONTRACT, SETMAP, SETINDEX, DUP}
      /\ Leaves(prog, Op, W(1)) = 1 /\ Takes(prog, Op, W(1)) = 2
  BY <1>2, OpsApart, TakesOf DEF PutOps
<1>4. Operands(Op) = <<"map", "any">>
  BY <1>2, OperandsOf, Zenon
<1>5. s.form = "value" /\ MainType(s.of) = VMap /\ 1 \in 0..Len(SortsHere(e)) - 1
  <2>1. Meets1(cnt, s, "map") /\ Len(SortsHere(e)) >= 2 /\ Len(SortsHere(e)) \in Nat
    BY <1>1, <1>4, Meets12, Before
  <2> QED BY <2>1, MeetsOf DEF IsOf
<1>6. Denotes(types, Cell(1), s.of, Ground, Mark) /\ s.of \in Nat
  BY <1>2, <1>5, ValueHere
<1>7. /\ o \in Object
      /\ \A j \in DOMAIN o.items : Denotes(types, o.items[j], SubType(s.of), Anchor(Ground), Mark)
  <2>1. MainType(s.of) \in Handles
    BY <1>5, TypesApart
  <2> HIDE DEF s
  <2> QED BY <1>2, <1>5, <1>6, <2>1, HeldHere
<1>8. k \in DOMAIN o.items
  <2>1. HasKey(o, String(Cell(0)))
    BY <1>1, <1>2, Dispatched, Unfailing
  <2>2. k \in 1..Len(o.items)
    BY <2>1, KeyPosition
  <2> QED BY <1>7, <2>2 DEF Object
<1>9. MadeHere(e) = SortOfItem(s.of)
  BY <1>2, MadeOf
<1>10. Denotes(types, v, SubType(s.of), Anchor(Ground), Mark)
  BY <1>7, <1>8
<1> HIDE DEF v, s
<1>11. /\ SortOfItem(s.of) \in SortSet /\ SortOfItem(s.of).late = FALSE /\ SortOfItem(s.of).form # "index"
       /\ ValueIs(types, v, SortOfItem(s.of), Ground, Mark)
  BY <1>2, <1>6, <1>10, ItemRead
<1>12. Proceed([Replace(2, v) EXCEPT !.gas = act.gas])
  BY <1>1, <1>2, FormsOfProceed
<1> DEFINE r == SortOfItem(s.of)
<1> HIDE DEF r
<1>13. r \in SortSet /\ r.late = FALSE /\ r.form # "index" /\ ValueIs(types, v, r, Ground, Mark) /\ MadeHere(e) = r
  BY <1>9, <1>11 DEF r
<1> QED BY <1>1, <1>3, <1>12, <1>13, PuttingHere

-----------------------------------------------------------------------------
(***************************************************************************)
(* The checks of an index, which leave the operands where they are.        *)
(***************************************************************************)
LEMMA CheckIndexTyped ==
  ASSUME NEW e, NEW types, Typing(e, types), CheckIndex
  PROVE  Stepped(e)
<1>1. Dispatch({SETINDEX, SETMAP}) /\ Proceed(act) /\ UNCHANGED heap
  BY DEF CheckIndex
<1>2. /\ Op \in {SETINDEX, SETMAP} /\ act \in ActivationType /\ act.i \in Int /\ TypedState(e, types)
      /\ Fetching /\ TypeOK /\ TypeOK' /\ CodeInv' /\ act.top \in Nat
      /\ SortsHere(e) \in Seq(SortSet) /\ Len(SortsHere(e)) \in Nat
  BY <1>1, Before
<1>3. Proceed([Drop(0) EXCEPT !.gas = act.gas])
  BY <1>1, <1>2, FormsOfProceed
<1>4. /\ Steady /\ act'.top = act.top - 0 /\ act'.stack = act.stack /\ act'.Vars = act.Vars
  BY <1>2, <1>3, DropSteady
<1>5. HeapStep(types, types) /\ UNCHANGED <<Strings, Objects>>
  BY <1>1, <1>2, <1>4, HeapUnchanged DEF heap
<1>6. Op \notin Turns \cup {PARCONTRACT, CALLCONTRACT}
  BY <1>2, OpsApart
<1>7. CASE Op = SETMAP
  <2>1. AfterHere(e) = SubSeq(SortsHere(e), 1, Len(SortsHere(e)) - 0)
    <3>1. AfterHere(e) = SortsHere(e)
      BY <1>2, <1>7, AfterOf
    <3>2. SubSeq(SortsHere(e), 1, Len(SortsHere(e))) = SortsHere(e)
      BY <1>2
    <3> QED BY <1>2, <3>1, <3>2
  <2>2. VarsTyped(cnt, types, act'.Vars, Ground, Middle')
    BY <1>2, <1>4, <1>5, SteadyVars
  <2>3. 0 \in 0..Len(SortsHere(e))
    BY <1>2
  <2>4. FramesTyped(e, types)'
    BY <1>2, <1>4, <1>5, <1>6, <2>1, <2>2, <2>3, Dropping
  <2>5. Untouched
    BY <1>2, <1>4, <1>5, StepBounds DEF HeapStep, Untouched, Fetching, Steady
  <2> QED BY <2>4, <2>5 DEF Typable, Stepped
<1>8. CASE Op = SETINDEX
  <2> DEFINE r == LateHere(e, Cast("index", 0))
             s == Top(SortsHere(e), 1)
  <2>1. Operands(Op) = <<"item", "any">>
    BY <1>8, OperandsOf, Zenon
  <2>2. /\ Takes(prog, Op, W(1)) = 2 /\ Len(SortsHere(e)) >= 2 /\ s.form = "value"
        /\ MainType(s.of) \in {VArr, VBytes} /\ 1 \in 0..Len(SortsHere(e)) - 1
    <3>1. Takes(prog, Op, W(1)) = 2 /\ Len(SortsHere(e)) >= 2 /\ Meets1(cnt, s, "item")
      BY <1>1, <2>1, Meets12
    <3> QED BY <1>2, <3>1, MeetsOf DEF IsOf
  <2>3. /\ Denotes(types, Cell(1), s.of, Ground, Mark) /\ MainType(s.of) \in Handles
    BY <1>2, <2>2, ValueHere, TypesApart
  <2>4. Cell(1) + 1 \in 1..Len(Objects) /\ Cell(1) \in Int /\ Obj(Cell(1)).kind = KindOf(s.of)
    <3> HIDE DEF s
    <3> QED BY <1>2, <2>3, HeldHere
  <2>5. Cell(0) \in 0..ObjLen(Obj(Cell(1))) - 1
    <3>1. Obj(Cell(1)).kind \in {"arr", "bytes"}
      BY <2>2, <2>4, KindsOf
    <3>2. Failure = "none"
      BY <1>1, <1>2, Dispatched
    <3>3. Op \notin IntDivide \cup IntAssignDivide /\ Op \notin {DIVMONEY, ASSIGNDIVMONEY}
      BY <1>8 DEF SETINDEX, IntDivide, IntAssignDivide, DIVMONEY, ASSIGNDIVMONEY, DIVINT, MODINT,
                  ASSIGNDIVINT, ASSIGNMODINT
    <3> QED BY <1>8, <3>1, <3>2, <3>3 DEF Failure
  <2>6. r \in SortSet /\ r.form = "index" /\ r.late = (ParsHere(e) # <<>>)
    BY SortCast, LateSort
  <2>7. AfterHere(e) = Append(SubSeq(SortsHere(e), 1, Len(SortsHere(e)) - 1), r)
    BY <1>2, <1>8, AfterOf, MadeOf
  <2>8. CellIs(types, Objects', act'.stack, act'.top, r, Ground, Mark')
    <3>1. Cell(0) = act.stack[act.top] /\ Cell(1) = act.stack[act.top - 1] /\ act'.top = act.top
      <4>1. act.top - 0 = act.top
        BY <1>2
      <4> QED BY <1>4, <4>1 DEF Cell
    <3>2. Mark'.objects = Len(Objects) /\ Objects' = Objects
      BY <1>5 DEF Mark
    <3>3. Cell(1) \in 0..Len(Objects) - 1
      <4>1. Len(Objects) \in Nat
        BY <1>2 DEF TypeOK
      <4> QED BY <2>4, <4>1
    <3> HIDE DEF r
    <3> QED BY <1>4, <2>5, <2>6, <3>1, <3>2, <3>3 DEF CellIs, Obj
  <2>9. act'.top = act.top - 1 + 1 /\ 1 \in 0..Len(SortsHere(e))
    BY <1>2, <1>4, <2>2
  <2>10. Alike(act.stack, act'.stack, act.top - 1)
    BY <1>4 DEF Alike
  <2> HIDE DEF r
  <2>11. FramesTyped(e, types)'
    BY <1>2, <1>4, <1>5, <1>6, <2>6, <2>7, <2>8, <2>9, <2>10, Yielding
  <2>12. Untouched
    BY <1>2, <1>4, <1>5, StepBounds DEF HeapStep, Untouched, Fetching, Steady
  <2> QED BY <2>11, <2>12 DEF Typable, Stepped
<1> QED BY <1>2, <1>7, <1>8

-----------------------------------------------------------------------------
(***************************************************************************)
(* Functions that answer with a number.                                    *)
(***************************************************************************)
LEMMA AnswerForm ==
  ASSUME NEW v, Answer(v)
  PROVE  \E g : Proceed([Replace(Len(LibSig(W(1))), v) EXCEPT !.gas = g])
BY DEF Answer

\* The types of what the functions of the library return.
LEMMA LibTypes ==
  /\ W(1) \in LibObject \cup {ContainsStr, HasPrefix} => LibType(W(1)) = Value(VBool)
  /\ W(1) \in LibValue \ (LibObject \cup {ContainsStr, HasPrefix}) => LibType(W(1)) = Value(VInt)
  /\ W(1) = GetStr => LibType(W(1)) = Shared
  /\ W(1) \in LibText => LibType(W(1)) = Value(VStr)
  /\ W(1) \in LibList => LibType(W(1)) = Value(TypeOf(VArr, VStr))
  /\ W(1) = GetMapOf => LibType(W(1)) = Value(TypeOf(VMap, VStr))
  /\ W(1) = MoneyInt => LibType(W(1)) = Value(VMoney)
  /\ W(1) = BytesStr => LibType(W(1)) = Value(VBytes)
  /\ W(1) = JSONDecode => LibType(W(1)) = Value(VObject)
<1> USE DEF LibObject, LibValue, LibText, LibList, GetStr, GetMapOf, MoneyInt, BytesStr, JSONDecode,
            IsExists, IsStr, IsArray, IsMap, LenArr, LenMap, LenStr, LenBytes, IntStr, ContainsStr, HasPrefix,
            StrInt, StrBool, StrMoney, Join, ReplaceStr, Substr, JSONEncode, Keys, Split, GetArray
<1>1. W(1) \in LibObject \cup {ContainsStr, HasPrefix} => LibType(W(1)) = Value(VBool)
  <2> SUFFICES ASSUME W(1) \in LibObject \cup {ContainsStr, HasPrefix} PROVE LibType(W(1)) = Value(VBool)
    OBVIOUS
  <2>1. W(1) # GetStr
    OBVIOUS
  <2>2. W(1) \in {ContainsStr, HasPrefix} \cup LibObject
    OBVIOUS
  <2> QED BY <2>1, <2>2 DEF LibType
<1>2. W(1) \in LibValue \ (LibObject \cup {ContainsStr, HasPrefix}) => LibType(W(1)) = Value(VInt)
  BY DEF LibType
<1>3. W(1) \in LibText => LibType(W(1)) = Value(VStr)
  BY DEF LibType
<1>4. W(1) \in LibList => LibType(W(1)) = Value(TypeOf(VArr, VStr))
  BY DEF LibType
<1>5. /\ W(1) = GetStr => LibType(W(1)) = Shared
      /\ W(1) = GetMapOf => LibType(W(1)) = Value(TypeOf(VMap, VStr))
      /\ W(1) = MoneyInt => LibType(W(1)) = Value(VMoney)
  BY DEF LibType
<1>6. /\ W(1) = BytesStr => LibType(W(1)) = Value(VBytes)
      /\ W(1) = JSONDecode => LibType(W(1)) = Value(VObject)
  BY DEF LibType
<1> QED BY <1>1, <1>2, <1>3, <1>4, <1>5, <1>6

\* What a library function takes, and that it leaves one cell.
LEMMA LibHere ==
  ASSUME NEW e, NEW types, Typing(e, types), NEW v, Dispatch({EMBEDFUNC}), Answer(v)
  PROVE  /\ Op \notin Turns \cup {PARCONTRACT, CALLCONTRACT, SETMAP, SETINDEX, DUP}
         /\ Leaves(prog, Op, W(1)) = 1 /\ Takes(prog, Op, W(1)) \in Nat
         /\ MadeHere(e) = LibType(W(1)) /\ Operands(Op) = LibSig(W(1))
         /\ \E g : Proceed([Replace(Takes(prog, Op, W(1)), v) EXCEPT !.gas = g])
<1>1. Op = EMBEDFUNC /\ act.i \in Int /\ TypedState(e, types) /\ Fetching
  BY Before
<1>2. Takes(prog, Op, W(1)) = Len(LibSig(W(1))) /\ Takes(prog, Op, W(1)) \in Nat
  BY <1>1, TakesOf, TypedHere
<1>3. Operands(Op) = LibSig(W(1))
  BY <1>1, OperandsOf, Zenon
<1>4. Op \in PutOps
  BY <1>1 DEF PutOps
<1> QED BY <1>1, <1>2, <1>3, <1>4, AnswerForm, OpsApart, MadeOf

\* A step of EmbedValue leaves the heap and the frames with types.
LEMMA EmbedValueTyped ==
  ASSUME NEW e, NEW types, Typing(e, types), EmbedValue
  PROVE  Stepped(e)
<1> DEFINE v == CASE W(1) = LenStr -> Len(String(Cell(0)))
              [] W(1) = IntStr -> Number(String(Cell(0)))
              [] W(1) = ContainsStr -> Truth(HasText(String(Cell(1)), String(Cell(0))))
              [] W(1) = HasPrefix -> Truth(HasPrefixAt(String(Cell(1)), String(Cell(0)), 1))
              [] W(1) = IsExists -> Truth(JsonFound)
              [] W(1) = IsStr -> JsonForm("text")
              [] W(1) = IsArray -> JsonForm("list")
              [] W(1) = IsMap -> JsonForm("map")
              [] OTHER -> ObjLen(Obj(Cell(0)))
<1>1. Dispatch({EMBEDFUNC}) /\ Answer(v) /\ UNCHANGED heap /\ W(1) \in LibValue
  BY DEF EmbedValue
<1>2. \/ MadeHere(e) = Value(VInt)
      \/ MadeHere(e) = Value(VBool) /\ v \in {0, 1}
  <2>1. CASE W(1) \in LibObject \cup {ContainsStr, HasPrefix}
    <3>1. v \in {0, 1}
      BY <2>1 DEF Truth, JsonForm, LibObject, IsExists, IsStr, IsArray, IsMap, ContainsStr, HasPrefix, LenStr, IntStr
    <3> HIDE DEF v
    <3> QED BY <1>1, <2>1, <3>1, LibHere, LibTypes
  <2>2. CASE W(1) \notin LibObject \cup {ContainsStr, HasPrefix}
    <3> HIDE DEF v
    <3> QED BY <1>1, <2>2, LibHere, LibTypes
  <2> QED BY <2>1, <2>2
<1> HIDE DEF v
<1>3. PICK g : Proceed([Replace(Takes(prog, Op, W(1)), v) EXCEPT !.gas = g])
  BY <1>1, LibHere
<1> QED BY <1>1, <1>2, <1>3, LibHere, PuttingNumber

-----------------------------------------------------------------------------
(***************************************************************************)
(* Instructions that append to the heap.                                   *)
(***************************************************************************)
LEMMA SteadyGrown ==
  ASSUME NEW e, NEW types, TypedState(e, types), Fetching, Steady, NEW ts \in Seq(Text),
         NEW os \in Seq(Object), NEW us \in Seq(Nat), Len(us) = Len(os),
         Strings' = Strings \o ts, Objects' = Objects \o os,
         \A j \in 1..Len(os) : os[j].kind = KindOf(us[j]),
         \A j \in 1..Len(os) : ObjectTyped(types \o us, os[j], us[j], Fresh, Mark')
  PROVE  HeapStep(types, types \o us)
<1>1. act'.isParContract = act.isParContract /\ act'.counts = act.counts
  BY DEF Steady
<1>2. act'.isParContract => Middle' = Middle
  BY <1>1 DEF Middle, LastMark
<1>3. Fresh = IF act'.isParContract THEN Middle ELSE Ground
  BY <1>1 DEF Fresh
<1> QED BY <1>1, <1>2, <1>3, HeapGrown

\* An instruction that appends texts and objects to the heap, and leaves one value that
\* may refer to them, keeps the types.
LEMMA GrownPutting ==
  ASSUME NEW e, NEW types, Typing(e, types), NEW ops, Dispatch(ops), NEW ts \in Seq(Text),
         NEW os \in Seq(Object), NEW us \in Seq(Nat), Len(us) = Len(os),
         Strings' = Strings \o ts, Objects' = Objects \o os,
         \A j \in 1..Len(os) : os[j].kind = KindOf(us[j]),
         \A j \in 1..Len(os) : ObjectTyped(types \o us, os[j], us[j], Fresh, Mark'),
         NEW n \in Nat, NEW v, NEW g, Proceed([Replace(n, v) EXCEPT !.gas = g]),
         Op \notin Turns \cup {PARCONTRACT, CALLCONTRACT, SETMAP, SETINDEX, DUP},
         n = Takes(prog, Op, W(1)), Leaves(prog, Op, W(1)) = 1,
         NEW s \in SortSet, MadeHere(e) = s, s.late => ParsHere(e) # <<>>, s.form # "index",
         ValueIs(types \o us, v, s, Ground, Mark')
  PROVE  Stepped(e)
<1>1. TypedState(e, types) /\ TypeOK /\ TypeOK' /\ Fetching
      /\ Takes(prog, Op, W(1)) <= Len(SortsHere(e)) /\ Len(SortsHere(e)) <= act.top
      /\ act.top \in Nat /\ Len(SortsHere(e)) \in Nat
  BY Before, TypedHere
<1>2. n <= act.top + 1
  BY <1>1
<1>3. Steady
  BY <1>1, <1>2, PutSteady
<1>4. HeapStep(types, types \o us)
  BY <1>1, <1>3, SteadyGrown
<1> QED BY <1>1, <1>4, Putting

\* Nothing appended.
LEMMA NothingMore ==
  ASSUME NEW S, NEW s \in Seq(S)
  PROVE  s \o <<>> = s /\ <<>> \in Seq(S)
OBVIOUS

\* What has been appended is of the heap's kind.
LEMMA NewOnes ==
  ASSUME TypeOK, TypeOK'
  PROVE  /\ \A t : NewString(t) => t \in Text
         /\ \A o : NewObject(o) => o \in Object
<1>1. ASSUME NEW S, NEW s \in Seq(S), NEW x, Append(s, x) \in Seq(S) PROVE x \in S
  <2>1. Len(Append(s, x)) = Len(s) + 1 /\ Append(s, x)[Len(s) + 1] = x
    OBVIOUS
  <2>2. Len(s) + 1 \in 1..Len(Append(s, x))
    BY <2>1
  <2> HIDE <1>1
  <2>3. Append(s, x)[Len(s) + 1] \in S
    BY <1>1, <2>2, ElementOfSeq
  <2> QED BY <2>1, <2>3
<1> QED BY <1>1 DEF TypeOK, NewString, NewObject

\* A text is appended, and its index put on the stack.
LEMMA TextPutting ==
  ASSUME NEW e, NEW types, Typing(e, types), NEW ops, Dispatch(ops), NEW t,
         NewString(t), UNCHANGED Objects,
         NEW n \in Nat, NEW g, Proceed([Replace(n, Len(Strings)) EXCEPT !.gas = g]),
         Op \notin Turns \cup {PARCONTRACT, CALLCONTRACT, SETMAP, SETINDEX, DUP},
         n = Takes(prog, Op, W(1)), Leaves(prog, Op, W(1)) = 1,
         MadeHere(e) \in {Value(VStr), Shared}
  PROVE  Stepped(e)
<1> DEFINE ts == <<t>>
           us == [j \in 1..0 |-> 0]
           os == [j \in 1..0 |-> Blank]
           s == MadeHere(e)
           v == Len(Strings)
<1>1. /\ TypedState(e, types) /\ Fetching /\ Strings \in Seq(Text) /\ Objects \in Seq(Object)
      /\ types \in Seq(Nat) /\ t \in Text
  BY Before, NewOnes
<1>2. ts \in Seq(Text) /\ Strings' = Strings \o ts
  BY <1>1 DEF NewString
<1>3. us \in Seq(Nat) /\ os \in Seq(Object) /\ Len(us) = 0 /\ Len(os) = 0 /\ us = <<>> /\ os = <<>>
  OBVIOUS
<1>4. Objects' = Objects \o os /\ types \o us = types
  <2>1. Objects \o <<>> = Objects
    BY <1>1
  <2>2. types \o <<>> = types
    BY <1>1
  <2> QED BY <1>3, <2>1, <2>2
<1>5. /\ Ground \in MarkType /\ Mark \in MarkType /\ Below(Ground, Mark) /\ Mark.strings = Len(Strings)
  BY <1>1, Between
<1>6. Mark'.strings = Len(Strings) + 1 /\ Len(Strings) \in Nat
  BY <1>1 DEF Mark, NewString
<1>7. v \in Ground.strings..Mark'.strings - 1 /\ v \in 0..Mark'.strings - 1
  BY <1>5, <1>6 DEF Below, MarkType
<1>8. s \in SortSet /\ s.late = FALSE /\ s.form # "index"
  BY SortCast DEF VStr
<1>9. ValueIs(types \o us, v, s, Ground, Mark')
  <2>1. CASE s = Shared
    BY <1>7, <2>1, SortCast DEF ValueIs
  <2>2. CASE s = Value(VStr)
    <3>1. VStr \in Nat /\ MainType(VStr) = VStr
      BY DEF VStr, MainType
    <3>2. s.form = "value" /\ s.of = VStr
      BY <2>2, <3>1, SortCast
    <3> HIDE DEF s, v
    <3>3. Denotes(types \o us, v, VStr, Ground, Mark')
      BY <1>7, <3>1, DenotesOf
    <3> QED BY <3>2, <3>3 DEF ValueIs
  <2> QED BY <2>1, <2>2
<1>10. /\ \A j \in 1..Len(os) : os[j].kind = KindOf(us[j])
       /\ \A j \in 1..Len(os) : ObjectTyped(types \o us, os[j], us[j], Fresh, Mark')
  <2>1. \A j : j \notin 1..Len(os)
    BY <1>3
  <2> QED BY <2>1
<1> HIDE DEF ts, us, os, s, v
<1> QED BY <1>2, <1>3, <1>4, <1>8, <1>9, <1>10, GrownPutting DEF s, v

\* A step of PushStr leaves the heap and the frames with types.
LEMMA PushStrTyped ==
  ASSUME NEW e, NEW types, Typing(e, types), PushStr
  PROVE  Stepped(e)
<1> DEFINE t == SubSeq(Literals(cnt), W(1) + 1, Word(W(1) + W(2)))
<1>1. Dispatch({PUSHSTR}) /\ NewString(t) /\ Proceed(Push(Len(Strings))) /\ UNCHANGED Objects
  BY DEF PushStr
<1>2. Op = PUSHSTR /\ act \in ActivationType /\ act.i \in Int
  BY <1>1, Before
<1>3. /\ Op \notin Turns \cup {PARCONTRACT, CALLCONTRACT, SETMAP, SETINDEX, DUP}
      /\ Leaves(prog, Op, W(1)) = 1 /\ Takes(prog, Op, W(1)) = 0
  BY <1>2, OpsApart, TakesOf DEF PutOps
<1>4. MadeHere(e) = Value(VStr)
  BY <1>2, MadeOf
<1>5. Proceed([Replace(0, Len(Strings)) EXCEPT !.gas = act.gas])
  BY <1>1, <1>2, FormsOfProceed
<1> QED BY <1>1, <1>3, <1>4, <1>5, TextPutting

\* A step of AddStr leaves the heap and the frames with types.
LEMMA AddStrTyped ==
  ASSUME NEW e, NEW types, Typing(e, types), AddStr
  PROVE  Stepped(e)
<1> DEFINE t == String(Cell(1)) \o String(Cell(0))
<1>1. Dispatch({ADDSTR}) /\ NewString(t) /\ Proceed(Replace(2, Len(Strings))) /\ UNCHANGED Objects
  BY DEF AddStr
<1>2. Op = ADDSTR /\ act \in ActivationType /\ act.i \in Int
  BY <1>1, Before
<1>3. /\ Op \notin Turns \cup {PARCONTRACT, CALLCONTRACT, SETMAP, SETINDEX, DUP}
      /\ Leaves(prog, Op, W(1)) = 1 /\ Takes(prog, Op, W(1)) = 2
  BY <1>2, OpsApart, TakesOf DEF PutOps
<1>4. MadeHere(e) = Value(VStr)
  BY <1>2, MadeOf
<1>5. Proceed([Replace(2, Len(Strings)) EXCEPT !.gas = act.gas])
  BY <1>1, <1>2, FormsOfProceed
<1> QED BY <1>1, <1>3, <1>4, <1>5, TextPutting

\* A step of EmbedText leaves the heap and the frames with types.
LEMMA EmbedTextTyped ==
  ASSUME NEW e, NEW types, Typing(e, types), EmbedText
  PROVE  Stepped(e)
<1>1. /\ Dispatch({EMBEDFUNC}) /\ W(1) \in LibText /\ NewString(LibAnswer)
      /\ Answer(Len(Strings)) /\ UNCHANGED Objects
  BY DEF EmbedText
<1>2. MadeHere(e) = Value(VStr)
  BY <1>1, LibHere, LibTypes
<1>3. PICK g : Proceed([Replace(Takes(prog, Op, W(1)), Len(Strings)) EXCEPT !.gas = g])
  BY <1>1, LibHere
<1> QED BY <1>1, <1>2, <1>3, LibHere, TextPutting

\* A step of EmbedGetString leaves the heap and the frames with types.
LEMMA EmbedGetStringTyped ==
  ASSUME NEW e, NEW types, Typing(e, types), EmbedGetString
  PROVE  Stepped(e)
<1>1. Dispatch({EMBEDFUNC}) /\ W(1) = GetStr /\ UNCHANGED <<Objects, Buffers>>
  BY DEF EmbedGetString
<1>2. CASE JsonFound
  <2>1. NewString(SprintTree(JsonHeld)) /\ Answer(Len(Strings))
    BY <1>2 DEF EmbedGetString
  <2>2. MadeHere(e) = Shared
    BY <1>1, <2>1, LibHere, LibTypes
  <2>3. PICK g : Proceed([Replace(Takes(prog, Op, W(1)), Len(Strings)) EXCEPT !.gas = g])
    BY <1>1, <2>1, LibHere
  <2> QED BY <1>1, <2>1, <2>2, <2>3, LibHere, TextPutting
<1>3. CASE ~JsonFound
  <2>1. Answer(0) /\ UNCHANGED heap
    BY <1>1, <1>3 DEF EmbedGetString, heap
  <2>2. MadeHere(e) = Shared
    BY <1>1, <2>1, LibHere, LibTypes
  <2>3. PICK g : Proceed([Replace(Takes(prog, Op, W(1)), 0) EXCEPT !.gas = g])
    BY <1>1, <2>1, LibHere
  <2>4. ValueIs(types, 0, Shared, Ground, Mark)
    <3>1. TypedState(e, types) /\ Fetching /\ TypeOK
      BY <1>1, Before
    <3>2. Base.strings \in Nat \ {0}
      <4>1. Bottom.strings \in 1..Base.strings
        BY <3>1 DEF TypedState, CompiledFor, HandedOver
      <4>2. prog.strings \in Seq(Text)
        BY <3>1 DEF TypeOK, Linked, Program
      <4>3. Base.strings \in Nat
        BY <4>2 DEF Base
      <4> QED BY <4>1, <4>3
    <3>3. Mark.strings \in Nat /\ Base.strings <= Mark.strings
      BY <3>1, Between DEF MarkType, Below
    <3>4. 0 \in 0..Mark.strings - 1
      BY <3>2, <3>3
    <3> QED BY <3>4, SortCast DEF ValueIs
  <2> QED BY <1>1, <2>1, <2>2, <2>3, <2>4, LibHere, SortCast, PuttingHere
<1> QED BY <1>2, <1>3

\* A step of CustomFunc leaves the heap and the frames with types.
LEMMA CustomFuncTyped ==
  ASSUME NEW e, NEW types, Typing(e, types), CustomFunc
  PROVE  Stepped(e)
<1> DEFINE n == HostArgs
<1>1. Dispatch({CUSTOMFUNC})
  BY DEF CustomFunc
<1>2. /\ Op = CUSTOMFUNC /\ act \in ActivationType /\ act.i \in Int /\ TypedState(e, types) /\ Fetching
      /\ TypeOK /\ TypeOK'
  BY <1>1, Before
<1>3. /\ Op \notin Turns \cup {PARCONTRACT, CALLCONTRACT, SETMAP, SETINDEX, DUP}
      /\ Takes(prog, Op, W(1)) = n /\ n \in Nat
      /\ Leaves(prog, Op, W(1)) = IF HostFunc.result = VVoid THEN 0 ELSE 1
  BY <1>2, OpsApart, TakesOf, LeavesOf, TypedHere DEF HostArgs
<1>4. MadeHere(e) = Value(HostFunc.result)
  BY <1>2, MadeOf DEF HostFunc
<1> HIDE DEF n
<1>5. PICK cost \in HostGas :
       \/ /\ HostFunc.result = VVoid
          /\ Proceed([Drop(n) EXCEPT !.gas = @ - cost])
          /\ UNCHANGED heap
       \/ \E v \in CASE HostFunc.result = VInt  -> HostInts
                     [] HostFunc.result = VBool -> {0, 1}
                     [] OTHER -> {} :
            /\ Proceed([Replace(n, v) EXCEPT !.gas = @ - cost])
            /\ UNCHANGED heap
       \/ /\ HostFunc.result = VStr
          /\ \E t \in HostTexts : NewString(t)
          /\ Proceed([Replace(n, Len(Strings)) EXCEPT !.gas = @ - cost])
          /\ UNCHANGED <<Objects, Buffers>>
  BY Zenon DEF CustomFunc, n
<1>6. CASE HostFunc.result = VVoid /\ Proceed([Drop(n) EXCEPT !.gas = @ - cost]) /\ UNCHANGED heap
  <2>1. /\ Steady /\ act'.top = act.top - n /\ act'.stack = act.stack /\ act'.Vars = act.Vars
    BY <1>2, <1>3, <1>6, DropSteady
  <2>2. HeapStep(types, types)
    BY <1>2, <1>6, <2>1, HeapUnchanged DEF heap
  <2>3. VarsTyped(cnt, types, act'.Vars, Ground, Middle')
    BY <1>2, <2>1, <2>2, SteadyVars
  <2>4. Leaves(prog, Op, W(1)) # 1
    BY <1>3, <1>6
  <2> QED BY <1>2, <1>3, <2>1, <2>2, <2>3, <2>4, Consuming
<1>7. CASE \E v \in CASE HostFunc.result = VInt  -> HostInts
                      [] HostFunc.result = VBool -> {0, 1}
                      [] OTHER -> {} :
              Proceed([Replace(n, v) EXCEPT !.gas = @ - cost]) /\ UNCHANGED heap
  <2>1. PICK v \in CASE HostFunc.result = VInt  -> HostInts
                     [] HostFunc.result = VBool -> {0, 1}
                     [] OTHER -> {} :
          Proceed([Replace(n, v) EXCEPT !.gas = @ - cost]) /\ UNCHANGED heap
    BY <1>7
  <2>2. HostFunc.result = VInt \/ (HostFunc.result = VBool /\ v \in {0, 1})
    <3>1. VInt # VBool
      BY DEF VInt, VBool
    <3> QED BY <3>1
  <2>3. Leaves(prog, Op, W(1)) = 1
    BY <1>3, <2>2 DEF VInt, VBool, VVoid
  <2>4. PICK g : Proceed([Replace(n, v) EXCEPT !.gas = g])
    BY <2>1
  <2>5. \/ MadeHere(e) = Value(VInt)
        \/ MadeHere(e) = Value(VBool) /\ v \in {0, 1}
    BY <1>4, <2>2
  <2> QED BY <1>1, <1>3, <2>1, <2>3, <2>4, <2>5, PuttingNumber
<1>8. CASE /\ HostFunc.result = VStr
           /\ \E t \in HostTexts : NewString(t)
           /\ Proceed([Replace(n, Len(Strings)) EXCEPT !.gas = @ - cost])
           /\ UNCHANGED <<Objects, Buffers>>
  <2>1. Leaves(prog, Op, W(1)) = 1 /\ MadeHere(e) = Value(VStr)
    BY <1>3, <1>4, <1>8 DEF VStr, VVoid
  <2>2. PICK t : NewString(t)
    BY <1>8
  <2>3. PICK g : Proceed([Replace(n, Len(Strings)) EXCEPT !.gas = g])
    BY <1>8
  <2> QED BY <1>1, <1>3, <1>8, <2>1, <2>2, <2>3, TextPutting
<1> QED BY <1>5, <1>6, <1>7, <1>8

-----------------------------------------------------------------------------
(***************************************************************************)
(* Instructions that store, while no parameters are being passed.          *)
(***************************************************************************)
\* What the window of a call has to do with what may be stored.
LEMMA KeepsHere ==
  ASSUME NEW e, NEW types, Typing(e, types), NEW ops, Dispatch(ops)
  PROVE  /\ act.isParContract <=> ParsHere(e) # <<>>
         /\ act.isParContract => Keeps(cnt, act.i, SortsHere(e))
         /\ ~act.isParContract => /\ Middle = Mark
                                  /\ \A k \in 1..Len(SortsHere(e)) : ~SortsHere(e)[k].late
<1>1. TypedState(e, types) /\ Fetching
  BY Before
<1>2. /\ Accepts(prog, cnt, act.i, SortsHere(e), ParsHere(e))
      /\ act.isParContract <=> ParsHere(e) # <<>>
  BY <1>1, TypedHere
<1>3. IF ParsHere(e) # <<>> THEN Keeps(cnt, act.i, SortsHere(e))
      ELSE \A k \in 1..Len(SortsHere(e)) : ~SortsHere(e)[k].late
  BY <1>2, Zenon DEF Accepts
<1> QED BY <1>2, <1>3 DEF Middle

\* Nothing is stored while parameters are being passed.
LEMMA Closed ==
  ASSUME NEW e, NEW types, Typing(e, types), NEW ops, Dispatch(ops), Op \in Stores1
  PROVE  /\ ~act.isParContract /\ ParsHere(e) = <<>> /\ Middle = Mark
         /\ \A k \in 1..Len(SortsHere(e)) : ~SortsHere(e)[k].late
<1>1. ~Keeps(cnt, act.i, SortsHere(e))
  BY DEF Keeps, Op
<1> HIDE DEF Keeps
<1> QED BY <1>1, KeepsHere

\* The address of a variable on the stack.
LEMMA AddressFound ==
  ASSUME NEW e, NEW types, TypedState(e, types), Fetching,
         NEW j \in 0..Len(SortsHere(e)) - 1,
         Top(SortsHere(e), j).form = "addr", Top(SortsHere(e), j).of < Variables(cnt)
  PROVE  LET m == Top(SortsHere(e), j).of + 1
         IN /\ m \in 1..Len(act.Vars) /\ Cell(j) - HalfRange + 1 = m
            /\ IsAddress(Cell(j)) /\ Pointed(Cell(j)) = act.Vars[m]
            /\ VarOf(cnt, Top(SortsHere(e), j)) = VarType(cnt, m) /\ VarType(cnt, m) \in Nat
            /\ Denotes(types, Pointed(Cell(j)), VarType(cnt, m), Ground, Middle)
<1> DEFINE s == Top(SortsHere(e), j)
           m == s.of + 1
<1>1. /\ TypedState(e, types) /\ Fetching /\ TypeOK /\ CodeVerified /\ CodeInv /\ cnt \in Contract
      /\ act \in ActivationType
  BY HereChecked DEF Checked
<1>2. s \in SortSet /\ CellIs(types, Objects, act.stack, act.top - j, s, Ground, Mark)
      /\ Cell(j) = act.stack[act.top - j]
  BY <1>1, CellHere
<1>3. Cell(j) = AddressOf(s.of)
  BY <1>2 DEF CellIs
<1>4. s.of \in Nat /\ s.of < Variables(cnt)
  BY <1>2 DEF SortSet
<1>5. Len(act.Vars) = Variables(cnt) /\ Len(act.Vars) \in Nat
  BY <1>1, RunningFrame DEF ActivationType
<1>6. VarsTyped(cnt, types, act.Vars, Ground, Middle)
  BY <1>1, Between
<1>7. VarOf(cnt, s) = VarType(cnt, m)
  BY DEF VarOf
<1> HIDE DEF s
<1>8. m \in 1..Len(act.Vars) /\ Cell(j) - HalfRange = s.of /\ Cell(j) - HalfRange + 1 = m
  BY <1>3, <1>4, <1>5, SizesAssumption DEF AddressOf
<1>9. IsAddress(Cell(j)) /\ Pointed(Cell(j)) = act.Vars[m]
  BY <1>4, <1>5, <1>8 DEF IsAddress, Pointed
<1>10. VarType(cnt, m) \in Nat
  BY <1>1, <1>5, <1>8, VarTypeNat
<1>11. Denotes(types, Pointed(Cell(j)), VarType(cnt, m), Ground, Middle)
  BY <1>6, <1>8, <1>9 DEF VarsTyped
<1> QED BY <1>7, <1>8, <1>9, <1>10, <1>11 DEF s

\* The same for an instruction that is carried out.
LEMMA AddressHere ==
  ASSUME NEW e, NEW types, Typing(e, types), NEW ops, Dispatch(ops),
         NEW j \in 0..Len(SortsHere(e)) - 1,
         Top(SortsHere(e), j).form = "addr", Top(SortsHere(e), j).of < Variables(cnt)
  PROVE  LET m == Top(SortsHere(e), j).of + 1
         IN /\ m \in 1..Len(act.Vars) /\ Cell(j) - HalfRange + 1 = m
            /\ IsAddress(Cell(j)) /\ Pointed(Cell(j)) = act.Vars[m]
            /\ VarOf(cnt, Top(SortsHere(e), j)) = VarType(cnt, m) /\ VarType(cnt, m) \in Nat
            /\ Denotes(types, Pointed(Cell(j)), VarType(cnt, m), Ground, Middle)
<1>1. TypedState(e, types) /\ Fetching
  BY Before
<1> QED BY <1>1, AddressFound

\* A variable is overwritten.
LEMMA VarsStored ==
  ASSUME NEW c, NEW types, NEW values \in Seq(Int), NEW lo, NEW mid, NEW m \in 1..Len(values),
         NEW v, VarsTyped(c, types, values, lo, mid), Denotes(types, v, VarType(c, m), lo, mid)
  PROVE  VarsTyped(c, types, [values EXCEPT ![m] = v], lo, mid)
<1> DEFINE vs == [values EXCEPT ![m] = v]
<1>1. DOMAIN vs = 1..Len(values) /\ Len(values) \in Nat /\ Len(vs) = Len(values)
  OBVIOUS
<1>2. ASSUME NEW k \in 1..Len(values) PROVE Denotes(types, vs[k], VarType(c, k), lo, mid)
  <2>1. CASE k = m
    <3>1. vs[k] = v
      BY <2>1
    <3> QED BY <2>1, <3>1
  <2>2. CASE k # m
    <3>1. vs[k] = values[k]
      BY <2>2
    <3> QED BY <3>1 DEF VarsTyped
  <2> QED BY <2>1, <2>2
<1> HIDE DEF vs
<1> QED BY <1>1, <1>2 DEF VarsTyped, vs

\* The variables become vs, and the heap what it is to be.
LEMMA Storing ==
  ASSUME NEW e, NEW types, Typing(e, types), NEW ops, Dispatch(ops), Op \in TakeOps,
         NEW vs, Proceed([Drop(Takes(prog, Op, W(1))) EXCEPT !.Vars = vs]),
         NEW types2, Steady => HeapStep(types, types2),
         Steady /\ HeapStep(types, types2) => VarsTyped(cnt, types2, vs, Ground, Middle')
  PROVE  Stepped(e)
<1> DEFINE n == Takes(prog, Op, W(1))
<1>1. TypedState(e, types) /\ TypeOK /\ TypeOK' /\ Fetching
  BY Before
<1>2. n \in Nat
  BY <1>1, TypedHere
<1> HIDE DEF n
<1>3. Steady /\ act'.top = act.top - n /\ act'.stack = act.stack /\ act'.Vars = vs
  BY <1>1, <1>2, StoreSteady DEF n
<1>4. HeapStep(types, types2) /\ VarsTyped(cnt, types2, act'.Vars, Ground, Middle')
  BY <1>3
<1>5. /\ Op \notin Turns \cup {PARCONTRACT, CALLCONTRACT, SETMAP, SETINDEX, DUP}
      /\ Leaves(prog, Op, W(1)) # 1
  BY OpsApart
<1> QED BY <1>1, <1>3, <1>4, <1>5, Consuming DEF n

\* Two operands are taken, and nothing but the heap changes.
LEMMA Changing ==
  ASSUME NEW e, NEW types, Typing(e, types), NEW ops, Dispatch(ops), Op \in TakeOps,
         Proceed(Drop(Takes(prog, Op, W(1)))), NEW types2, Steady => HeapStep(types, types2)
  PROVE  Stepped(e)
<1> DEFINE n == Takes(prog, Op, W(1))
<1>1. TypedState(e, types) /\ TypeOK /\ TypeOK' /\ Fetching /\ act \in ActivationType
  BY Before
<1>2. n \in Nat
  BY <1>1, TypedHere
<1> HIDE DEF n
<1>3. Proceed([Drop(n) EXCEPT !.gas = act.gas])
  <2>1. Drop(n) = [Drop(n) EXCEPT !.gas = act.gas]
    BY <1>1, FormsOfProceed
  <2> QED BY <2>1 DEF n
<1>4. Steady /\ act'.top = act.top - n /\ act'.stack = act.stack /\ act'.Vars = act.Vars
  BY <1>1, <1>2, <1>3, DropSteady
<1>5. HeapStep(types, types2)
  BY <1>4
<1>6. VarsTyped(cnt, types2, act'.Vars, Ground, Middle')
  BY <1>1, <1>4, <1>5, SteadyVars
<1>7. /\ Op \notin Turns \cup {PARCONTRACT, CALLCONTRACT, SETMAP, SETINDEX, DUP}
      /\ Leaves(prog, Op, W(1)) # 1
  BY OpsApart
<1> QED BY <1>1, <1>4, <1>5, <1>6, <1>7, Consuming DEF n

\* The address an instruction stores through, and the value beside it.
LEMMA StoreHere ==
  ASSUME NEW e, NEW types, Typing(e, types), NEW ops, Dispatch(ops), NEW d, NEW u,
         d \in {"addr", "addr_str", "addr_arr", "addr_bytes", "addr_money"},
         Operands(Op) = <<d, u>>
  PROVE  /\ Takes(prog, Op, W(1)) = 2 /\ 0 \in 0..Len(SortsHere(e)) - 1 /\ 1 \in 0..Len(SortsHere(e)) - 1
         /\ Top(SortsHere(e), 1).form = "addr" /\ Top(SortsHere(e), 1).of < Variables(cnt)
         /\ Meets1(cnt, Top(SortsHere(e), 1), d) /\ Meets1(cnt, Top(SortsHere(e), 0), u)
<1>1. /\ Takes(prog, Op, W(1)) = 2 /\ Len(SortsHere(e)) >= 2 /\ Len(SortsHere(e)) \in Nat
      /\ Meets1(cnt, Top(SortsHere(e), 1), d) /\ Meets1(cnt, Top(SortsHere(e), 0), u)
  BY Meets12, Before
<1>2. 0 \in 0..Len(SortsHere(e)) - 1 /\ 1 \in 0..Len(SortsHere(e)) - 1
  BY <1>1
<1> QED BY <1>1, <1>2, MeetsOf

\* One variable is overwritten, and the heap stays as it is.
LEMMA StoringHere ==
  ASSUME NEW e, NEW types, Typing(e, types), NEW ops, Dispatch(ops), Op \in TakeOps,
         Operands(Op) = <<"addr", "any">>, UNCHANGED heap, NEW v,
         Proceed(Store(Cell(1), v, 2)),
         Denotes(types, v, VarOf(cnt, Top(SortsHere(e), 1)), Ground, Middle)
  PROVE  Stepped(e)
<1> DEFINE m == Top(SortsHere(e), 1).of + 1
           vs == [act.Vars EXCEPT ![m] = v]
<1>1. TypedState(e, types) /\ Fetching /\ act \in ActivationType
  BY Before
<1>2. /\ Takes(prog, Op, W(1)) = 2 /\ 1 \in 0..Len(SortsHere(e)) - 1
      /\ Top(SortsHere(e), 1).form = "addr" /\ Top(SortsHere(e), 1).of < Variables(cnt)
  BY StoreHere
<1>3. /\ m \in 1..Len(act.Vars) /\ Cell(1) - HalfRange + 1 = m
      /\ VarOf(cnt, Top(SortsHere(e), 1)) = VarType(cnt, m)
  BY <1>2, AddressHere
<1>4. VarsTyped(cnt, types, act.Vars, Ground, Middle) /\ act.Vars \in Seq(Int)
  BY <1>1, Between DEF ActivationType
<1> HIDE DEF m
<1>5. VarsTyped(cnt, types, vs, Ground, Middle)
  BY <1>3, <1>4, VarsStored
<1>6. Proceed([Drop(2) EXCEPT !.Vars = vs])
  <2>1. Store(Cell(1), v, 2) = [Drop(2) EXCEPT !.Vars = [act.Vars EXCEPT ![Cell(1) - HalfRange + 1] = v]]
    BY <1>1, FormsOfProceed
  <2> QED BY <1>3, <2>1
<1> HIDE DEF vs
<1>7. Steady => HeapStep(types, types)
  BY <1>1, HeapUnchanged DEF heap
<1>8. HeapStep(types, types) => VarsTyped(cnt, types, vs, Ground, Middle')
  <2> SUFFICES ASSUME HeapStep(types, types) PROVE VarsTyped(cnt, types, vs, Ground, Middle')
    OBVIOUS
  <2>1. Ground \in MarkType /\ Middle \in MarkType /\ Middle' \in MarkType /\ Below(Middle, Middle')
    BY <1>1, Between DEF HeapStep
  <2> QED BY <1>5, <2>1, VarsCarried
<1> QED BY <1>2, <1>6, <1>7, <1>8, Storing

\* A step of AssignInt leaves the heap and the frames with types.
LEMMA AssignIntTyped ==
  ASSUME NEW e, NEW types, Typing(e, types), AssignInt
  PROVE  Stepped(e)
<1> DEFINE ss == SortsHere(e)
<1>1. Dispatch({ASSIGNINT}) /\ Proceed(Store(Cell(1), Cell(0), 2)) /\ UNCHANGED heap
  BY DEF AssignInt
<1>2. Op = ASSIGNINT /\ act.i \in Int /\ TypedState(e, types) /\ Fetching /\ AsksHere(e)
  BY <1>1, Before
<1>3. Operands(Op) = <<"addr", "any">>
  BY <1>2, OperandsOf, Zenon
<1>4. Op \in TakeOps /\ Op \in Stores1
  BY <1>2 DEF TakeOps, Stores1
<1>5. 0 \in 0..Len(ss) - 1
  BY <1>1, <1>3, StoreHere
<1>6. Stores(Top(ss, 0), VarOf(cnt, Top(ss, 1)))
  BY <1>2, AsksOf
<1>7. CellIs(types, Objects, act.stack, act.top - 0, Top(ss, 0), Ground, Mark)
      /\ Cell(0) = act.stack[act.top - 0] /\ Middle = Mark
  BY <1>1, <1>2, <1>4, <1>5, CellHere, Closed
<1>8. Ground \in MarkType /\ Mark \in MarkType
  BY <1>2, Between
<1> HIDE DEF ss
<1>9. Denotes(types, Cell(0), VarOf(cnt, Top(ss, 1)), Ground, Middle)
  BY <1>6, <1>7, <1>8, StoresDenotes
<1> QED BY <1>1, <1>3, <1>4, <1>9, StoringHere DEF ss

\* A step of AssignCompute leaves the heap and the frames with types.
LEMMA AssignComputeTyped ==
  ASSUME NEW e, NEW types, Typing(e, types), AssignCompute
  PROVE  Stepped(e)
<1> DEFINE ss == SortsHere(e)
           v == Arith(Op, Pointed(Cell(1)), Cell(0))
<1>1. Dispatch(IntAssign \cup IntAssignDivide) /\ Proceed(Store(Cell(1), v, 2)) /\ UNCHANGED heap
  BY DEF AssignCompute
<1>2. Op \in IntAssign \cup IntAssignDivide /\ act.i \in Int /\ AsksHere(e)
  BY <1>1, Before
<1>3. Operands(Op) = <<"addr", "any">>
  BY <1>2, OperandsOf, Zenon
<1>4. Op \in TakeOps
  BY <1>2 DEF TakeOps
<1>6. Stores(Value(VInt), VarOf(cnt, Top(ss, 1)))
  BY <1>2, AsksOf
<1> HIDE DEF ss, v
<1>7. Denotes(types, v, VarOf(cnt, Top(ss, 1)), Ground, Middle)
  <2> DEFINE t == VarOf(cnt, Top(ss, 1))
             s == Value(VInt)
  <2> HIDE DEF t
  <2>1. s.form = "value" /\ MainType(s.of) = VInt /\ s.of = VInt
    BY DEF Value, Cast, MainType, VInt
  <2>2. Stores(s, t)
    BY <1>6 DEF t
  <2> HIDE DEF s
  <2>3. MainType(t) # VStr /\ MainType(t) # VBool
    BY <2>1, <2>2, TypesApart DEF Stores, IsOf
  <2>4. MainType(t) \notin Handles
    BY <2>1, <2>2, <2>3, TypesApart DEF Stores, Reads
  <2>5. Denotes(types, v, t, Ground, Middle)
    BY <2>3, <2>4, DenotesOf
  <2> QED BY <2>5 DEF t
<1> QED BY <1>1, <1>3, <1>4, <1>7, StoringHere DEF ss

-----------------------------------------------------------------------------
\* One object of type t is appended.
LEMMA OneMore ==
  ASSUME NEW types \in Seq(Nat), Len(types) = Len(Objects), Objects \in Seq(Object),
         NEW o \in Object, NewObject(o), NEW t \in Nat
  PROVE  /\ <<o>> \in Seq(Object) /\ <<t>> \in Seq(Nat) /\ Len(<<t>>) = Len(<<o>>)
         /\ Objects' = Objects \o <<o>> /\ (types \o <<t>>)[Len(Objects) + 1] = t
         /\ Mark'.objects = Len(Objects) + 1 /\ Len(Objects) \in Nat
<1>1. <<o>> \in Seq(Object) /\ <<t>> \in Seq(Nat) /\ Len(<<t>>) = Len(<<o>>)
  OBVIOUS
<1>2. Objects' = Objects \o <<o>> /\ Len(Objects) \in Nat
  BY DEF NewObject
<1>3. (types \o <<t>>)[Len(types) + 1] = t
  OBVIOUS
<1>4. Mark'.objects = Len(Objects) + 1
  BY DEF Mark, NewObject
<1> QED BY <1>1, <1>2, <1>3, <1>4

\* An object without items is of its type.
LEMMA PlainObject ==
  ASSUME NEW t \in {VMoney, VBytes, VFile, VObject, VObjList}
  PROVE  /\ t \in Nat /\ MainType(t) = t /\ t \in Handles
         /\ t = VMoney => KindOf(t) = "money"
         /\ t = VBytes => KindOf(t) = "bytes"
         /\ t = VFile => KindOf(t) = "file"
         /\ t = VObject => KindOf(t) = "obj"
         /\ t = VObjList => KindOf(t) = "list"
         /\ \A types, o, lo, hi : ObjectTyped(types, o, t, lo, hi)
<1>1. t \in Nat /\ MainType(t) = t
  BY DEF VMoney, VBytes, VFile, VObject, VObjList, MainType
<1>2. MainType(t) \notin {VArr, VMap}
  BY <1>1 DEF VMoney, VBytes, VFile, VObject, VObjList, VArr, VMap
<1>3. \A types, o, lo, hi : ObjectTyped(types, o, t, lo, hi)
  BY <1>2 DEF ObjectTyped
<1>4. t \in Handles
  BY TypesApart
<1>5. /\ t = VMoney => KindOf(t) = "money"
      /\ t = VBytes => KindOf(t) = "bytes"
      /\ t = VFile => KindOf(t) = "file"
      /\ t = VObject => KindOf(t) = "obj"
      /\ t = VObjList => KindOf(t) = "list"
  BY <1>1 DEF KindOf, VMoney, VBytes, VFile, VObject, VObjList, VArr, VMap
<1> QED BY <1>1, <1>3, <1>4, <1>5

-----------------------------------------------------------------------------
\* One variable is overwritten with what has been made.
LEMMA GrownStoring ==
  ASSUME NEW e, NEW types, Typing(e, types), NEW ops, Dispatch(ops), Op \in TakeOps, Op \in Stores1,
         NEW d \in {"addr", "addr_money"}, NEW u, Operands(Op) = <<d, u>>,
         NEW ts \in Seq(Text),
         NEW os \in Seq(Object), NEW us \in Seq(Nat), Len(us) = Len(os),
         Strings' = Strings \o ts, Objects' = Objects \o os,
         \A j \in 1..Len(os) : os[j].kind = KindOf(us[j]),
         \A j \in 1..Len(os) : ObjectTyped(types \o us, os[j], us[j], Fresh, Mark'),
         NEW v, Proceed(Store(Cell(1), v, 2)),
         Denotes(types \o us, v, VarOf(cnt, Top(SortsHere(e), 1)), Ground, Mark')
  PROVE  Stepped(e)
<1> DEFINE m == Top(SortsHere(e), 1).of + 1
           vs == [act.Vars EXCEPT ![m] = v]
           types2 == types \o us
<1>1. TypedState(e, types) /\ Fetching /\ act \in ActivationType
  BY Before
<1>2. /\ Takes(prog, Op, W(1)) = 2 /\ 1 \in 0..Len(SortsHere(e)) - 1
      /\ Top(SortsHere(e), 1).form = "addr" /\ Top(SortsHere(e), 1).of < Variables(cnt)
  BY StoreHere
<1>3. /\ m \in 1..Len(act.Vars) /\ Cell(1) - HalfRange + 1 = m
      /\ VarOf(cnt, Top(SortsHere(e), 1)) = VarType(cnt, m)
  BY <1>2, AddressHere
<1>4. VarsTyped(cnt, types, act.Vars, Ground, Middle) /\ act.Vars \in Seq(Int)
      /\ Ground \in MarkType /\ Middle \in MarkType /\ Mark \in MarkType
  BY <1>1, Between DEF ActivationType
<1>5. ~act.isParContract /\ Middle = Mark
  BY Closed
<1> HIDE DEF m
<1>6. Proceed([Drop(2) EXCEPT !.Vars = vs])
  <2>1. Store(Cell(1), v, 2) = [Drop(2) EXCEPT !.Vars = [act.Vars EXCEPT ![Cell(1) - HalfRange + 1] = v]]
    BY <1>1, FormsOfProceed
  <2> QED BY <1>3, <2>1
<1>7. Steady => HeapStep(types, types2)
  BY <1>1, SteadyGrown
<1>8. Denotes(types2, v, VarType(cnt, m), Ground, Mark')
  BY <1>3
<1> HIDE DEF types2
<1>9. Steady /\ HeapStep(types, types2) => VarsTyped(cnt, types2, vs, Ground, Middle')
  <2> SUFFICES ASSUME Steady, HeapStep(types, types2) PROVE VarsTyped(cnt, types2, vs, Ground, Middle')
    OBVIOUS
  <2>1. Middle' = Mark'
    BY <1>5 DEF Steady, Middle
  <2>2. Mark' \in MarkType /\ Below(Mark, Mark') /\ \A j \in 1..Mark.objects : types2[j] = types[j]
    BY DEF HeapStep, Carried
  <2>3. VarsTyped(cnt, types2, act.Vars, Ground, Mark')
    BY <1>4, <1>5, <2>2, VarsCarried
  <2> QED BY <1>3, <1>4, <1>8, <2>1, <2>3, VarsStored
<1> HIDE DEF vs
<1> QED BY <1>2, <1>6, <1>7, <1>9, Storing

\* A step of AssignStr leaves the heap and the frames with types.
LEMMA AssignStrTyped ==
  ASSUME NEW e, NEW types, Typing(e, types), AssignStr
  PROVE  Stepped(e)
<1> DEFINE ss == SortsHere(e)
           t == String(Cell(0))
           ts == <<t>>
           us == [j \in 1..0 |-> 0]
           os == [j \in 1..0 |-> Blank]
           v == Len(Strings)
<1>1. Dispatch({ASSIGNSTR}) /\ NewString(t) /\ Proceed(Store(Cell(1), v, 2)) /\ UNCHANGED Objects
  BY DEF AssignStr
<1>2. /\ Op = ASSIGNSTR /\ act.i \in Int /\ TypedState(e, types) /\ Fetching /\ AsksHere(e)
      /\ Strings \in Seq(Text) /\ Objects \in Seq(Object) /\ types \in Seq(Nat) /\ TypeOK /\ TypeOK'
  BY <1>1, Before
<1>3. Operands(Op) = <<"addr", "str">>
  BY <1>2, OperandsOf, Zenon
<1>4. Op \in TakeOps /\ Op \in Stores1
  BY <1>2 DEF TakeOps, Stores1
<1>5. MainType(VarOf(cnt, Top(ss, 1))) = VStr
  BY <1>2, AsksOf
<1>6. t \in Text
  BY <1>1, <1>2, NewOnes
<1> HIDE DEF t
<1>7. ts \in Seq(Text) /\ Strings' = Strings \o ts
  BY <1>1, <1>6 DEF NewString
<1>8. us \in Seq(Nat) /\ os \in Seq(Object) /\ Len(us) = 0 /\ Len(os) = 0 /\ us = <<>> /\ os = <<>>
  OBVIOUS
<1>9. Objects' = Objects \o os /\ types \o us = types
  BY <1>1, <1>2, <1>8, NothingMore
<1>10. v \in Ground.strings..Mark'.strings - 1
  <2>1. Ground \in MarkType /\ Mark \in MarkType /\ Below(Ground, Mark) /\ Mark.strings = Len(Strings)
    BY <1>2, Between
  <2>2. Mark'.strings = Len(Strings) + 1 /\ Len(Strings) \in Nat
    BY <1>1, <1>2 DEF Mark, NewString
  <2> QED BY <2>1, <2>2 DEF Below, MarkType
<1> HIDE DEF v, ts, ss
<1>11. Denotes(types \o us, v, VarOf(cnt, Top(ss, 1)), Ground, Mark')
  BY <1>5, <1>10, DenotesOf
<1>12. /\ \A j \in 1..Len(os) : os[j].kind = KindOf(us[j])
       /\ \A j \in 1..Len(os) : ObjectTyped(types \o us, os[j], us[j], Fresh, Mark')
  <2>1. \A j : j \notin 1..Len(os)
    BY <1>8
  <2> QED BY <2>1
<1> HIDE DEF us, os
<1> QED BY <1>1, <1>3, <1>4, <1>7, <1>8, <1>9, <1>11, <1>12, GrownStoring DEF ss

\* A step of AssignMoney leaves the heap and the frames with types.
LEMMA AssignMoneyTyped ==
  ASSUME NEW e, NEW types, Typing(e, types), AssignMoney
  PROVE  Stepped(e)
<1> DEFINE ss == SortsHere(e)
           o == MoneyArith(Op, Obj(Pointed(Cell(1))), Obj(Cell(0)))
           os == <<o>>
           us == <<VMoney>>
           v == Len(Objects)
<1>1. Dispatch(MoneyAssign) /\ NewObject(o) /\ Proceed(Store(Cell(1), v, 2)) /\ UNCHANGED Strings
  BY DEF AssignMoney
<1>2. /\ Op \in MoneyAssign /\ act.i \in Int /\ TypedState(e, types) /\ Fetching /\ AsksHere(e)
      /\ Strings \in Seq(Text) /\ Objects \in Seq(Object) /\ types \in Seq(Nat) /\ TypeOK /\ TypeOK'
      /\ Len(types) = Len(Objects)
  BY <1>1, Before
<1>3. Operands(Op) = <<"addr_money", "money">>
  BY <1>2, OperandsOf, Zenon
<1>4. Op \in TakeOps /\ Op \in Stores1
  BY <1>2 DEF TakeOps, Stores1
<1>5. VarOf(cnt, Top(ss, 1)) = VMoney
  BY <1>2, AsksOf
<1>6. o.kind = "money" /\ o \in Object
  <2>1. /\ act.top \in Nat \ {0} /\ Fits(Cell(1), "addr_money") /\ Fits(Cell(0), "money")
        /\ Cell(1) \in Int
    BY <1>1, <1>2, <1>3, Dispatched, Operand2
  <2>2. Obj(Pointed(Cell(1))) \in Object /\ Obj(Cell(0)) \in Object
    BY <1>2, <2>1, FitsOf, ObjectType DEF IsKind
  <2> QED BY <1>1, <1>2, <2>2, AmountType
<1> HIDE DEF o
<1>7. VMoney \in Nat /\ MainType(VMoney) = VMoney /\ VMoney \in Handles /\ KindOf(VMoney) = "money"
      /\ \A tys, x, lo, hi : ObjectTyped(tys, x, VMoney, lo, hi)
  BY PlainObject
<1>8. /\ os \in Seq(Object) /\ us \in Seq(Nat) /\ Len(us) = Len(os) /\ Objects' = Objects \o os
      /\ (types \o us)[v + 1] = VMoney /\ Mark'.objects = v + 1 /\ v \in Nat
  BY <1>1, <1>2, <1>6, <1>7, OneMore
<1>9. \A j \in 1..Len(os) : os[j] = o /\ us[j] = VMoney
  OBVIOUS
<1>10. Strings' = Strings \o <<>> /\ <<>> \in Seq(Text)
  BY <1>1, <1>2, NothingMore
<1>11. VMoney \notin Owned
  BY DEF Owned, VMoney, VArr, VMap, VBytes
<1> HIDE DEF v, os, us, ss
<1>12. v \in 0..Mark'.objects - 1
  BY <1>8
<1>13. Denotes(types \o us, v, VarOf(cnt, Top(ss, 1)), Ground, Mark')
  <2> DEFINE types2 == types \o us
             t == VarOf(cnt, Top(ss, 1))
  <2>1. types2[v + 1] = t /\ MainType(t) \in Handles /\ MainType(t) \notin Owned
    BY <1>5, <1>7, <1>8, <1>11
  <2> HIDE DEF types2, t
  <2>2. Denotes(types2, v, t, Ground, Mark')
    BY <1>12, <2>1, DenotesOf
  <2> QED BY <2>2 DEF types2, t
<1>14. /\ \A j \in 1..Len(os) : os[j].kind = KindOf(us[j])
       /\ \A j \in 1..Len(os) : ObjectTyped(types \o us, os[j], us[j], Fresh, Mark')
  BY <1>6, <1>7, <1>9
<1> QED BY <1>1, <1>3, <1>4, <1>8, <1>10, <1>13, <1>14, GrownStoring DEF ss

-----------------------------------------------------------------------------
(***************************************************************************)
(* The parameters of a function and of a contract.                         *)
(***************************************************************************)
LEMMA GetParamsTyped ==
  ASSUME NEW e, NEW types, Typing(e, types), GetParams
  PROVE  Stepped(e)
<1> DEFINE ss == SortsHere(e)
           n == W(1)
           vs == [k \in DOMAIN act.Vars |->
                    IF \E j \in 1..n : W(1 + j) = k - 1
                    THEN Cell((CHOOSE j \in 1..n : W(1 + j) = k - 1) - 1)
                    ELSE act.Vars[k]]
<1>1. Dispatch({GETPARAMS}) /\ Proceed([Drop(n) EXCEPT !.Vars = vs]) /\ UNCHANGED heap
  BY DEF GetParams
<1>2. /\ Op = GETPARAMS /\ act.i \in Int /\ TypedState(e, types) /\ Fetching /\ AsksHere(e)
      /\ act \in ActivationType /\ Len(ss) \in Nat
  BY <1>1, Before
<1>3. Op \in TakeOps /\ Op \in Stores1
  BY <1>2 DEF TakeOps, Stores1
<1>4. Takes(prog, Op, W(1)) = n /\ n \in Nat /\ n <= Len(ss)
  BY <1>2, TakesOf, TypedHere
<1>5. \A k \in 1..n : Stores(Top(ss, k - 1), VarType(cnt, cnt.code[act.i + 2 + k] + 1))
  BY <1>2, AsksOf
<1>6. \A k \in 1..n : W(1 + k) = cnt.code[act.i + 2 + k]
  <2> SUFFICES ASSUME NEW k \in 1..n PROVE W(1 + k) = cnt.code[act.i + 2 + k]
    OBVIOUS
  <2>1. act.i + 1 + (1 + k) = act.i + 2 + k
    BY <1>2
  <2> QED BY <2>1 DEF W
<1>7. VarsTyped(cnt, types, act.Vars, Ground, Middle) /\ act.Vars \in Seq(Int)
      /\ Ground \in MarkType /\ Middle \in MarkType /\ Mark \in MarkType /\ Middle = Mark
  BY <1>1, <1>2, <1>3, Between, Closed DEF ActivationType
<1> HIDE DEF ss, n
<1>8. ASSUME NEW k \in DOMAIN act.Vars
      PROVE  Denotes(types, vs[k], VarType(cnt, k), Ground, Middle)
  <2>1. CASE \E j \in 1..n : W(1 + j) = k - 1
    <3> DEFINE j == CHOOSE j \in 1..n : W(1 + j) = k - 1
    <3>1. j \in 1..n /\ W(1 + j) = k - 1
      BY <2>1
    <3>2. vs[k] = Cell(j - 1)
      BY <2>1
    <3> HIDE DEF j, vs
    <3>3. j - 1 \in 0..Len(ss) - 1
      BY <1>2, <1>4, <3>1
    <3>4. cnt.code[act.i + 2 + j] + 1 = k
      <4>1. k \in Nat
        BY <1>7
      <4> QED BY <1>6, <3>1, <4>1
    <3>5. Stores(Top(ss, j - 1), VarType(cnt, k))
      BY <1>5, <3>1, <3>4
    <3>6. CellIs(types, Objects, act.stack, act.top - (j - 1), Top(ss, j - 1), Ground, Mark)
          /\ Cell(j - 1) = act.stack[act.top - (j - 1)]
      BY <1>2, <3>3, CellHere DEF ss
    <3> QED BY <1>7, <3>2, <3>5, <3>6, StoresDenotes
  <2>2. CASE ~\E j \in 1..n : W(1 + j) = k - 1
    <3>1. vs[k] = act.Vars[k]
      BY <2>2
    <3>2. k \in 1..Len(act.Vars)
      BY <1>7
    <3> QED BY <1>7, <3>1, <3>2 DEF VarsTyped
  <2> QED BY <2>1, <2>2
<1>9. DOMAIN vs = DOMAIN act.Vars
  OBVIOUS
<1> HIDE DEF vs
<1>10. VarsTyped(cnt, types, vs, Ground, Middle)
  <2>1. Len(vs) = Len(act.Vars) /\ DOMAIN act.Vars = 1..Len(act.Vars)
    <3>1. DOMAIN act.Vars = 1..Len(act.Vars) /\ Len(act.Vars) \in Nat
      BY <1>7
    <3> QED BY <1>9, <3>1
  <2> QED BY <1>8, <2>1 DEF VarsTyped
<1>11. Steady => HeapStep(types, types)
  BY <1>1, <1>2, HeapUnchanged DEF heap
<1>12. Steady /\ HeapStep(types, types) => VarsTyped(cnt, types, vs, Ground, Middle')
  <2> SUFFICES ASSUME HeapStep(types, types) PROVE VarsTyped(cnt, types, vs, Ground, Middle')
    OBVIOUS
  <2>1. Middle' \in MarkType /\ Below(Middle, Middle')
    BY DEF HeapStep
  <2> QED BY <1>7, <1>10, <2>1, VarsCarried
<1> QED BY <1>1, <1>3, <1>4, <1>11, <1>12, Storing

\* A step of LoadPars leaves the heap and the frames with types.
LEMMA LoadParsTyped ==
  ASSUME NEW e, NEW types, Typing(e, types), LoadPars
  PROVE  Stepped(e)
<1> DEFINE n == Len(act.params) \div 2
           given(k) == {j \in 1..n : act.params[2 * j - 1] = k - 1}
           last(k)  == CHOOSE j \in given(k) : \A m \in given(k) : m <= j
           val(k) == IF given(k) = {} THEN act.Vars[k] ELSE act.params[2 * last(k)]
           vs == [k \in DOMAIN act.Vars |-> val(k)]
<1>1. Dispatch({LOADPARS}) /\ Proceed([act EXCEPT !.Vars = vs]) /\ UNCHANGED heap
  BY DEF LoadPars
<1>2. /\ Op = LOADPARS /\ act.i \in Int /\ TypedState(e, types) /\ Fetching /\ act \in ActivationType
  BY <1>1, Before
<1>3. act.Vars \in Seq(Int) /\ act.params \in Seq(Int)
  BY <1>2 DEF ActivationType
<1>4. n \in Nat
  <2>1. \A m \in Nat : m \div 2 \in Nat
    OBVIOUS
  <2>2. Len(act.params) \in Nat
    BY <1>3
  <2> QED BY <2>1, <2>2
<1>5. /\ VarsTyped(cnt, types, act.Vars, Ground, Middle)
      /\ ParamsTyped(cnt, types, act.params, Ground, Middle)
      /\ Ground \in MarkType /\ Middle \in MarkType
  BY <1>2, Between
<1>6. \A j \in 1..n : Denotes(types, act.params[2 * j], VarType(cnt, act.params[2 * j - 1] + 1), Ground, Middle)
  BY <1>5 DEF ParamsTyped
<1> HIDE DEF n
<1>7. ASSUME NEW k \in DOMAIN act.Vars
      PROVE  Denotes(types, val(k), VarType(cnt, k), Ground, Middle)
  <2>1. CASE given(k) = {}
    <3>1. k \in 1..Len(act.Vars)
      BY <1>3
    <3> QED BY <1>5, <2>1, <3>1 DEF VarsTyped
  <2>2. CASE given(k) # {}
    <3>1. given(k) \subseteq 0..n /\ given(k) \subseteq 1..n
      BY <1>4
    <3>2. \A j \in given(k) : act.params[2 * j - 1] + 1 = k
      <4>1. k \in Int
        BY <1>3
      <4> QED BY <4>1
    <3> HIDE DEF given
    <3>3. \E j \in given(k) : \A m \in given(k) : m <= j
      BY <1>4, <2>2, <3>1, Largest
    <3>4. last(k) \in given(k)
      BY <3>3
    <3> HIDE DEF last
    <3>5. Denotes(types, act.params[2 * last(k)], VarType(cnt, k), Ground, Middle)
      BY <1>6, <3>1, <3>2, <3>4
    <3> QED BY <2>2, <3>5
  <2> QED BY <2>1, <2>2
<1> HIDE DEF val
<1>8. \A k \in DOMAIN act.Vars : vs[k] = val(k)
  OBVIOUS
<1>9. DOMAIN vs = DOMAIN act.Vars
  OBVIOUS
<1> HIDE DEF vs
<1>10. VarsTyped(cnt, types, vs, Ground, Middle)
  <2>1. Len(vs) = Len(act.Vars) /\ DOMAIN act.Vars = 1..Len(act.Vars)
    <3>1. DOMAIN act.Vars = 1..Len(act.Vars) /\ Len(act.Vars) \in Nat
      BY <1>3
    <3> QED BY <1>9, <3>1
  <2> QED BY <1>7, <1>8, <2>1 DEF VarsTyped
<1>11. Op \in TakeOps /\ Takes(prog, Op, W(1)) = 0
  BY <1>2, TakesOf DEF TakeOps
<1>12. Proceed([Drop(0) EXCEPT !.Vars = vs])
  <2>1. act.top - 0 = act.top
    BY <1>2 DEF ActivationType, Depths
  <2>2. Drop(0) = act
    BY <1>2, <2>1 DEF Drop, ActivationType
  <2> QED BY <1>1, <2>2
<1>13. Steady => HeapStep(types, types)
  BY <1>1, <1>2, HeapUnchanged DEF heap
<1>14. Steady /\ HeapStep(types, types) => VarsTyped(cnt, types, vs, Ground, Middle')
  <2> SUFFICES ASSUME HeapStep(types, types) PROVE VarsTyped(cnt, types, vs, Ground, Middle')
    OBVIOUS
  <2>1. Middle' \in MarkType /\ Below(Middle, Middle') /\ \A j \in 1..Middle.objects : types[j] = types[j]
    BY DEF HeapStep
  <2> QED BY <1>5, <1>10, <2>1, VarsCarried
<1> QED BY <1>1, <1>11, <1>12, <1>13, <1>14, Storing
=============================================================================
