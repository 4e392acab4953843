------------------------------ MODULE CodeTypes ------------------------------
(***************************************************************************)
(* The types the compiler had in mind, found again in the code it emits:   *)
(* no word and no cell says what it is, so that what an instruction takes  *)
(* its operands for rests on what the instructions before it put there.    *)
(***************************************************************************)
EXTENDS CodeSafety

(***************************************************************************)
(* What is known of a cell of the operand stack: "value" is a value of     *)
(* type of, "shared" a text that others may refer to as well, "addr" the   *)
(* address of the variable of, "literal" the number of, and "index" a      *)
(* checked index of the array or the bytes in the cell below.  It is late  *)
(* if it was put there after the first parameter of a call was passed:     *)
(* what it refers to may be gone when the call returns.                    *)
(***************************************************************************)
SortSet == [form : {"value", "shared", "addr", "literal", "index"}, of : Nat, late : BOOLEAN]
Cast(form, of) == [form |-> form, of |-> of, late |-> FALSE]
Value(t) == Cast("value", t)
Shared   == Cast("shared", VStr)

\* The m-th of the variables of a contract, as NewVars counts them.
VarType(c, m) == c.vars[Nth(Slots(c, InVars), m)]

\* Containers are changed in place, other objects never are.
Owned   == {VArr, VMap, VBytes}
Handles == Owned \cup {VMoney, VFile, VObject, VObjList}

IsOf(s, mains) == s.form = "value" /\ MainType(s.of) \in mains
IsText(s) == s.form = "shared" \/ IsOf(s, {VStr})
\* The cell s can be read as a value of type t, be stored in a variable of that
\* type, and become an item of that type.
Reads(s, t) ==
  CASE MainType(t) = VStr -> IsText(s)
    [] MainType(t) \in Handles -> s.form = "value" /\ s.of = t
    [] OTHER -> TRUE
Stores(s, t) ==
  CASE MainType(t) = VStr -> IsOf(s, {VStr})
    [] MainType(t) = VBool -> IsOf(s, {VBool}) \/ (s.form = "literal" /\ s.of \in {0, 1})
    [] OTHER -> Reads(s, t)
Contains(s, t) == Stores(s, t) \/ (MainType(t) = VStr /\ IsText(s))

\* Whoever expects a cell like r is served by a cell like s.
Serves(s, r) ==
  /\ CASE r.form = "value"  -> Stores(s, r.of)
       [] r.form = "shared" -> IsText(s)
       [] OTHER -> s.form = r.form /\ s.of = r.of
  /\ s.late => r.late
Covers(ss, rs) == /\ Len(rs) <= Len(ss)
                  /\ \A j \in 1..Len(rs) : Serves(ss[Len(ss) - Len(rs) + j], rs[j])

\* The demands of module Runtime, made to what is known of a cell.
Meets1(c, s, demand) ==
  CASE demand = "any"   -> TRUE
    [] demand = "str"   -> IsText(s)
    [] demand = "item"  -> IsOf(s, {VArr, VBytes})
    [] demand = "arr"   -> IsOf(s, {VArr})    [] demand = "map"   -> IsOf(s, {VMap})
    [] demand = "bytes" -> IsOf(s, {VBytes})  [] demand = "money" -> IsOf(s, {VMoney})
    [] demand = "file"  -> IsOf(s, {VFile})   [] demand = "obj"   -> IsOf(s, {VObject})
    [] OTHER -> /\ s.form = "addr" /\ s.of < Variables(c)
                /\ LET m == MainType(VarType(c, s.of + 1)) IN
                   CASE demand = "addr"       -> TRUE
                     [] demand = "addr_str"   -> m = VStr
                     [] demand = "addr_arr"   -> m = VArr
                     [] demand = "addr_bytes" -> m = VBytes
                     [] demand = "addr_money" -> m = VMoney
                     [] OTHER -> FALSE

(***************************************************************************)
(* What each instruction asks of the cells it takes beyond that, and what  *)
(* it leaves in their place; ss are the sorts of the cells, the top last.  *)
(***************************************************************************)
Top(ss, k) == ss[Len(ss) - k]
VarOf(c, s) == VarType(c, s.of + 1)
ItemType(s) == CASE s.form = "shared" -> VStr [] s.form = "value" -> s.of [] OTHER -> VInt
ListType(ss, w) == TypeOf(VArr, ItemType(Top(ss, w - 1)))
DictType(ss, w) == TypeOf(VMap, ItemType(Top(ss, 2 * w - 2)))
\* A copy has its own containers, down to the items of its items.
OwnCopy(t) == MainType(t) \in {VArr, VMap} /\ MainType(SubType(t)) \in {VArr, VMap} =>
                MainType(SubType(SubType(t))) \notin Owned
\* The value v, printed into an object as the literal beside it says.
Printable(v, s) == /\ s.form = "literal"
                   /\ IF s.of \in {VObject, VObjList} THEN IsOf(v, {VObject, VObjList})
                      ELSE Reads(v, s.of)

Stores1 == IntAssign \cup IntAssignDivide \cup MoneyAssign
  \cup {ASSIGNINT, ASSIGNSTR, ASSIGNADDSTR, ASSIGNADDBYTES, APPENDARR, ASSIGNSETMAP,
        ASSIGNSETARR, ASSIGNSETBYTES, GETPARAMS, LOADPARS, JMP, CALLFUNC, RETFUNC}

Asks(g, c, p, ss) ==
  LET op == c.code[p + 1]
      w  == c.code[p + 2]
      u  == c.code[p + 3]
  IN CASE op \in IntAssign \cup IntAssignDivide -> Stores(Value(VInt), VarOf(c, Top(ss, 1)))
       [] op = ASSIGNINT -> Stores(Top(ss, 0), VarOf(c, Top(ss, 1)))
       [] op = ASSIGNSTR -> MainType(VarOf(c, Top(ss, 1))) = VStr
       [] op \in MoneyAssign -> VarOf(c, Top(ss, 1)) = VMoney
       [] op = APPENDARR -> Contains(Top(ss, 0), SubType(VarOf(c, Top(ss, 1))))
       [] op \in {ASSIGNSETARR, ASSIGNSETMAP} -> /\ Contains(Top(ss, 0), SubType(Top(ss, 2).of))
                                                 /\ op = ASSIGNSETARR => Top(ss, 1).form = "index"
       [] op = ASSIGNSETBYTES -> Top(ss, 1).form = "index"
       [] op = GETPARAMS -> \A k \in 1..w : Stores(Top(ss, k - 1), VarType(c, c.code[p + 2 + k] + 1))
       [] op = INITARR -> w > 0 /\ \A k \in 1..w : Contains(Top(ss, k - 1), SubType(ListType(ss, w)))
       [] op = INITMAP -> w > 0 /\ \A k \in 1..w : Contains(Top(ss, 2 * k - 2), SubType(DictType(ss, w)))
       [] op = INITOBJ -> \A k \in 1..w : Printable(Top(ss, 3 * k - 2), Top(ss, 3 * k - 3))
       [] op = INITOBJLIST -> \A k \in 1..w : Printable(Top(ss, 2 * k - 1), Top(ss, 2 * k - 2))
       [] op \in {RETURN, COPY} -> Reads(Top(ss, 0), w)
       [] op = PARCONTRACT -> Contains(Top(ss, 0), u) /\ OwnCopy(u)
       [] op = EMBEDFUNC -> w \in Library /\ (w = Join => Top(ss, 1).of = TypeOf(VArr, VStr))
       [] OTHER -> op \in Modelled
\* While parameters are being passed nothing is stored that outlives the call.
Keeps(c, p, ss) ==
  LET op == c.code[p + 1]
      w  == c.code[p + 2]
  IN /\ op \notin Stores1
     /\ op = INITARR => MainType(ItemType(Top(ss, w - 1))) \notin Owned
     /\ op = INITMAP => MainType(ItemType(Top(ss, 2 * w - 2))) \notin Owned
     /\ op = COPY => OwnCopy(w)

Accepts(g, c, p, ss, ps) ==
  LET ds == Demands(g, c.code[p + 1], c.code[p + 2], c.code[p + 3])
  IN /\ Len(ds) <= Len(ss)
     /\ \A k \in 1..Len(ds) : Meets1(c, ss[Len(ss) - Len(ds) + k], ds[k])
     /\ Asks(g, c, p, ss)
     /\ IF ps # <<>> THEN Keeps(c, p, ss) ELSE \A k \in 1..Len(ss) : ~ss[k].late

\* A cell that another cell is not beside.
Bare(s) == IF s.form = "index" THEN Value(VInt) ELSE s
SortOfItem(t) == IF MainType(SubType(t)) = VStr THEN Shared ELSE Value(SubType(t))
LibType(f) ==
  CASE f = GetStr -> Shared
    [] f \in {ContainsStr, HasPrefix} \cup LibObject -> Value(VBool)
    [] f \in {LenArr, LenMap, LenStr, LenBytes, IntStr} -> Value(VInt)
    [] f \in LibText -> Value(VStr)
    [] f \in LibList -> Value(TypeOf(VArr, VStr))
    [] f = GetMapOf -> Value(TypeOf(VMap, VStr))
    [] f = MoneyInt -> Value(VMoney)
    [] f = BytesStr -> Value(VBytes)
    [] OTHER -> Value(VObject)
Made(g, e, c, p, ss) ==
  LET op == c.code[p + 1]
      w  == c.code[p + 2]
  IN CASE op = PUSH16 -> Cast("literal", w)
       [] op \in {PUSHSTR, ADDSTR, COPYSTR} -> Value(VStr)
       [] op = GETVAR -> Value(VarType(c, w + 1))
       [] op = SETVAR -> Cast("addr", w)
       [] op = ENV -> IF e[w + 1] = VStr THEN Shared ELSE Value(e[w + 1])
       [] op \in {EQINT, LTINT, GTINT, AND, OR, NOT, EQSTR} \cup MoneyCompare -> Value(VBool)
       [] op \in MoneyBinary \cup {SIGNMONEY} -> Value(VMoney)
       [] op = INITARR -> Value(ListType(ss, w))
       [] op = INITMAP -> Value(DictType(ss, w))
       [] op = INITOBJ -> Value(VObject)
       [] op \in {INITOBJLIST, OBJ2LIST} -> Value(VObjList)
       [] op = GETINDEX -> IF MainType(Top(ss, 1).of) = VArr THEN SortOfItem(Top(ss, 1).of)
                           ELSE Value(VInt)
       [] op = GETMAP -> SortOfItem(Top(ss, 1).of)
       [] op = SETINDEX -> Cast("index", 0)
       [] op = COPY -> IF MainType(w) \in InHeap \cup {VStr} THEN Value(w) ELSE Bare(Top(ss, 0))
       [] op = DUP -> Bare(Top(ss, 0))
       [] op = EMBEDFUNC -> LibType(w)
       [] op = CUSTOMFUNC -> Value(g.funcs[w + 1].result)
       [] OTHER -> Value(VInt)
\* The sorts after the instruction, where it does not lead elsewhere.
After(g, e, c, p, ss, ps) ==
  LET op == c.code[p + 1]
      w  == c.code[p + 2]
      n  == Takes(g, op, w)
      left == SubSeq(ss, 1, Len(ss) - n)
      made == [Made(g, e, c, p, ss) EXCEPT !.late = @ \/ ps # <<>>]
  IN CASE op = SETMAP -> ss
       [] op = DUP -> Append(ss, made)
       [] op = SETINDEX -> Append(SubSeq(ss, 1, Len(ss) - 1), made)
       [] OTHER -> IF Leaves(g, op, w) = 1 THEN Append(left, made) ELSE left

(***************************************************************************)
(* One pass along the code finds the sorts of the cells that Levels counts *)
(* (at), of the parameters passed so far to the contract that is about to  *)
(* be called (pars: none, or the index and the type of each), and of what  *)
(* a function leaves (gives).  e are the types of the environment's items. *)
(***************************************************************************)
\* What is known of a cell that is like r here and like s there.
Joined(r, s) ==
  LET bool == Value(VBool)
      both == IF Serves(s, [r EXCEPT !.late = TRUE]) THEN r
              ELSE IF Serves(r, [s EXCEPT !.late = TRUE]) THEN s
              ELSE IF Stores(r, VBool) /\ Stores(s, VBool) THEN bool
              ELSE Value(VInt)
  IN [both EXCEPT !.late = r.late \/ s.late]
JoinedAll(rs, ss) ==
  LET n == IF Len(rs) < Len(ss) THEN Len(rs) ELSE Len(ss)
  IN [j \in 1..n |-> Joined(rs[Len(rs) - n + j], ss[Len(ss) - n + j])]

ParamSorts(c, e) ==
  IF c.code[e + 1] # GETPARAMS THEN <<>>
  ELSE LET n == c.code[e + 2]
       IN [j \in 1..n |-> Value(VarType(c, c.code[e + 3 + n - j] + 1))]
Kept(ss, rs) == SubSeq(ss, 1, Len(ss) - Len(rs))

SortsAt(g, e, c, l, starts) ==
  LET reached == {p \in starts : l.at[p] # Unreached}
      op(p)   == c.code[p + 1]
      none == [at |-> [p \in starts |-> IF p \in Entries(c) THEN ParamSorts(c, p) ELSE <<>>],
               pars  |-> [p \in starts |-> <<>>],
               gives |-> [f \in Entries(c) \cup {Main} |-> <<>>],
               known |-> Entries(c) \cup {CodeStart(c)}, left |-> {}]
      reach(s, q, ss, ps) ==
        IF q \notin starts THEN s
        ELSE LET all == IF q \in s.known THEN JoinedAll(s.at[q], ss) ELSE ss
             IN [s EXCEPT !.at[q] = SubSeq(all, Len(all) - l.at[q] + 1, Len(all)),
                          !.pars[q] = ps, !.known = @ \cup {q}]
      after(s, p) ==
        LET ss == s.at[p]
            ps == s.pars[p]
            next == p + Length(c.code, p)
            to == Target(c, p)
            o  == Owner(c, p)
            rest == SubSeq(ss, 1, Len(ss) - 1)
        IN CASE op(p) = RETURN -> s
             [] op(p) = JMP -> reach(s, to, <<>>, <<>>)
             [] op(p) = JMPREL -> reach(s, to, ss, ps)
             [] op(p) \in {JZE, JNZ} -> reach(reach(s, next, rest, ps), to, rest, ps)
             [] op(p) = CALLFUNC ->
                  reach(s, next, (IF to \in l.lost THEN <<>> ELSE Kept(ss, s.at[to])) \o s.gives[to], ps)
             [] op(p) = RETFUNC ->
                  [s EXCEPT !.gives[o] = IF o \in s.left THEN JoinedAll(@, ss) ELSE ss,
                            !.left = @ \cup {o}]
             [] op(p) = PARCONTRACT -> reach(s, next, rest, Append(ps, <<c.code[p + 2], c.code[p + 3]>>))
             [] op(p) = CALLCONTRACT -> reach(s, next, Append(ss, Value(VStr)), <<>>)
             [] OTHER -> reach(s, next, After(g, e, c, p, ss, ps), ps)
      passes == [at : [starts -> Seq(SortSet)], pars : [starts -> Seq(Nat \X Nat)],
                 gives : [DOMAIN none.gives -> Seq(SortSet)], known : SUBSET starts,
                 left : SUBSET DOMAIN none.gives]
      pass[s \in passes, p \in Nat, n \in Nat] ==
        IF n > 1 THEN pass[pass[s, p, n \div 2], p + n \div 2, n - n \div 2]
        ELSE IF p \in reached THEN after(s, p) ELSE s
  IN pass[none, 0, Len(c.code)]
Sorts(g, e, c) == SortsAt(g, e, c, Levels(g, c), Starts(c))

(***************************************************************************)
(* The sorts k are right: what an instruction is reached with serves it,   *)
(* and what it leaves serves those it leads to.  In the body of a function *)
(* that does not empty the stack, they are all the cells the function has. *)
(***************************************************************************)
Arrives(c, l, k, q, ss, ps) ==
  q \in Starts(c) => /\ Covers(ss, k.at[q]) /\ k.pars[q] = ps
                     /\ Owner(c, q) \notin l.lost => Len(ss) = Len(k.at[q])
\* The contract to be called has each variable a value was passed for.
Passed(g, c, p, ps) ==
  LET callee == g.contracts[c.code[p + 2] + 1]
  IN \A j \in 1..Len(ps) : /\ ps[j][1] < Variables(callee)
                           /\ Stores(Value(ps[j][2]), VarType(callee, ps[j][1] + 1))
CallTyped(c, l, k, p, f) ==
  /\ Covers(k.at[p], k.at[f]) /\ k.pars[f] = <<>>
  /\ Arrives(c, l, k, p + 2,
       (IF f \in l.lost THEN <<>> ELSE Kept(k.at[p], k.at[f])) \o k.gives[f], <<>>)
StepTyped(g, e, c, l, k, p) ==
  LET op == c.code[p + 1]
      ss == k.at[p]
      ps == k.pars[p]
      o  == Owner(c, p)
      next == p + Length(c.code, p)
      rest == SubSeq(ss, 1, Len(ss) - 1)
  IN /\ Len(ss) = l.at[p] /\ Accepts(g, c, p, ss, ps)
     /\ CASE op = RETURN -> TRUE
          [] op = JMP -> Arrives(c, l, k, Target(c, p), <<>>, <<>>)
          [] op = JMPREL -> Arrives(c, l, k, Target(c, p), ss, ps)
          [] op \in {JZE, JNZ} -> /\ Arrives(c, l, k, next, rest, ps)
                                  /\ Arrives(c, l, k, Target(c, p), rest, ps)
          [] op = CALLFUNC -> CallTyped(c, l, k, p, Target(c, p))
          [] op = RETFUNC -> /\ Covers(ss, k.gives[o])
                             /\ o \notin l.lost => Len(ss) = Len(k.gives[o])
          [] op = PARCONTRACT ->
               Arrives(c, l, k, next, rest, Append(ps, <<c.code[p + 2], c.code[p + 3]>>))
          [] op = CALLCONTRACT -> /\ \A j \in 1..Len(ss) : ~ss[j].late
                                  /\ Passed(g, c, p, ps)
                                  /\ Arrives(c, l, k, next, Append(ss, Value(VStr)), <<>>)
          [] OTHER -> Arrives(c, l, k, next, After(g, e, c, p, ss, ps), ps)
WellTyped(g, e, c, l, k) ==
  /\ k.at \in [Starts(c) -> Seq(SortSet)]
  /\ k.pars \in [Starts(c) -> Seq(Nat \X Nat)]
  /\ k.gives \in [Entries(c) \cup {Main} -> Seq(SortSet)]
  /\ Arrives(c, l, k, CodeStart(c), <<>>, <<>>)
  /\ \A p \in Starts(c) : l.at[p] # Unreached => StepTyped(g, e, c, l, k, p)

(***************************************************************************)
(* What vm.Run hands over: the types of the objects it made, of the items  *)
(* of the environment and of the values for parameters.  types are those   *)
(* of the objects of a heap; what v refers to lies between the marks lo    *)
(* and hi, though an object that is never changed may lie below them.      *)
(***************************************************************************)
Denotes(types, v, t, lo, hi) ==
  CASE MainType(t) = VStr -> v \in lo.strings..hi.strings - 1
    [] MainType(t) \in Handles -> /\ v \in 0..hi.objects - 1 /\ types[v + 1] = t
                                  /\ MainType(t) \in Owned => v >= lo.objects
    [] MainType(t) = VBool -> v \in {0, 1}
    [] OTHER -> TRUE
KindOf(t) ==
  LET m == MainType(t) IN
  CASE m = VArr -> "arr" [] m = VMap -> "map" [] m = VMoney -> "money" [] m = VBytes -> "bytes"
    [] m = VFile -> "file" [] m = VObject -> "obj" [] m = VObjList -> "list" [] OTHER -> "blank"

ParamsTyped(c, types, params, lo, hi) ==
  \A j \in 1..Len(params) \div 2 :
    /\ params[2 * j - 1] \in 0..Variables(c) - 1
    /\ Denotes(types, params[2 * j], VarType(c, params[2 * j - 1] + 1), lo, hi)
BaseTypes == [j \in DOMAIN prog.objects |->
  CHOOSE t \in {VMoney, VBytes, VFile, VObject} : prog.objects[j].kind = KindOf(t)]

\* The texts of the heap that were given as parameters of the contract that is run.
\* They come behind the empty text of NewRuntime and those of the environment.
GivenTexts(p) ==
  {p.params[2 * j] : j \in {j \in 1..Len(p.params) \div 2 :
                               VarType(p.contracts[p.main], p.params[2 * j - 1] + 1) = VStr}}
FirstGiven(p) ==
  LET ends == GivenTexts(p) \cup {Len(p.strings)} IN CHOOSE n \in ends : \A m \in ends : n <= m
Origin == [strings |-> 0, objects |-> 0]
\* Where what main may change begins.
Bottom == [strings |-> FirstGiven(prog), objects |-> 0]
HandedOver(e) ==
  /\ Bottom.strings \in 1..Base.strings
  /\ \A j \in DOMAIN prog.objects : prog.objects[j].kind \in {"money", "bytes", "file", "obj"}
  /\ \A j \in DOMAIN prog.env : /\ Denotes(BaseTypes, prog.env[j], e[j], Origin, Base)
                                /\ e[j] = VStr => prog.env[j] < Bottom.strings
  /\ ParamsTyped(prog.contracts[prog.main], BaseTypes, prog.params, Bottom, Base)

EnvTypes == {VInt, VBool, VStr, VMoney, VFile, VObject}
ContractsTyped(e) ==
  \A k \in DOMAIN prog.contracts :
    LET c == prog.contracts[k] IN WellTyped(prog, e, c, Levels(prog, c), Sorts(prog, e, c))
\* The code was compiled for an environment of this kind.
CodeTyped ==
  CodeVerified /\ \E e \in [DOMAIN prog.env -> EnvTypes] : HandedOver(e) /\ ContractsTyped(e)
StartsTyped == (callers = <<>> /\ act.gas = 0) => CodeTyped

\* No function comes to a JMP, each finds its parameters and leaves one value at most.
Frugal(e) ==
  \A k \in DOMAIN prog.contracts :
    LET c == prog.contracts[k]
        l == Levels(prog, c)
    IN \A f \in Entries(c) : /\ f \notin l.lost /\ Len(Sorts(prog, e, c).gives[f]) <= 1
                             /\ l.at[f] = IF c.code[f + 1] = GETPARAMS THEN c.code[f + 2] ELSE 0
CodeFrugal ==
  CodeVerified /\ \E e \in [DOMAIN prog.env -> EnvTypes] : HandedOver(e) /\ ContractsTyped(e) /\ Frugal(e)
StartsFrugal == (callers = <<>> /\ act.gas = 0) => CodeFrugal

\* The texts of the environment and the empty text that GetString answers for a key
\* it does not find are the same for every statement of every contract of a run:
\* what takes such a text into a variable copies it, so that no += reaches it.
EnvironmentKept ==
  SubSeq(Strings, 1, Bottom.strings) = SubSeq(prog.strings, 1, Bottom.strings)
=============================================================================
