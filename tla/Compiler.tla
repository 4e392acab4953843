------------------------------- MODULE Compiler -------------------------------
(***************************************************************************)
(* The code generator of package compiler: nodeToCode, a recursive walk of *)
(* the syntax tree that appends words to Contract.Code, and Compile.       *)
(*                                                                         *)
(* A node of the tree is a record whose field n is its type.  The value    *)
(* of Gen(node, s) is the state of the compiler after the node: the fields *)
(* of the Go struct, the first error, and in res the Result of the node    *)
(* compiled last.                                                          *)
(*                                                                         *)
(* The parser is not modelled: a tree stands for the text it came from.    *)
(* Floats have no nodes here.                                              *)
(***************************************************************************)
EXTENDS Bytecode, FiniteSets
LOCAL INSTANCE TLC
LOCAL INSTANCE SequencesExt

\* A run of the compiler on behalf of vm, with the contracts linked so far and
\* the host functions and environment of Custom.
Start(vm) ==
  [vm |-> vm, code |-> <<>>, vars |-> <<>>, data |-> <<>>, funcs |-> <<>>, jumps |-> <<>>,
   params |-> <<>>, read |-> FALSE, name |-> "", inFunc |-> FALSE, retFunc |-> VVoid,
   res |-> VVoid, err |-> "none"]

Error(s, e)     == IF s.err = "none" THEN [s EXCEPT !.err = e] ELSE s
Check(s, ok, e) == IF ok THEN s ELSE Error(s, e)
Emit(s, words)  == IF s.err = "none" THEN [s EXCEPT !.code = @ \o words] ELSE s
Typed(s, t)     == [s EXCEPT !.res = t]
Here(s)         == Len(s.code)

\* Code[pos] = off, with and without the range check of JumpOff.
Put(s, pos, off)   == IF s.err = "none" THEN [s EXCEPT !.code[pos + 1] = Word(off)] ELSE s
Patch(s, pos, off) == Put(Check(s, off \in -32768..32767, "jump"), pos, off)
\* Mutant: the offset counts from behind the jump.
EmitJumpBehind(s, op, off) == Emit(Check(s, off \in -32768..32767, "jump"), <<op, Word(off - 2)>>)
EmitJump(s, op, off) == Emit(Check(s, off \in -32768..32767, "jump"), <<op, Word(off)>>)

\* Mutant: the literal is appended before its place is taken.
LiteralLate(s, text) ==
  [Emit(s, <<PUSHSTR, Len(s.data) + Len(text), Len(text)>>) EXCEPT !.data = @ \o text]
Literal(s, text) == [Emit(s, <<PUSHSTR, Len(s.data), Len(text)>>) EXCEPT !.data = @ \o text]

-----------------------------------------------------------------------------
(***************************************************************************)
(* The name space: operators by the types of their operands, functions by  *)
(* name and the types of their parameters.                                 *)
(***************************************************************************)
OuterType(t)  == IF t > 15 THEN MainType(t) ELSE IF t = VBytes THEN VBytes ELSE VVoid
ElementOf(t)  == IF t > 15 THEN SubType(t) ELSE IF t = VBytes THEN VInt ELSE VVoid

ArithSigns  == <<"+", "-", "*", "/", "%">>
AssignSigns == <<"+=", "-=", "*=", "/=", "%=">>
OrderSigns  == <<"==", "<", ">">>
Row(first, result, signs, n, t) ==
  {<<first + k - 1, result, signs[k], t, t>> : k \in 1..n}
Operators ==
  Row(ADDINT, VInt, ArithSigns, 5, VInt) \cup Row(ASSIGNADDINT, VVoid, AssignSigns, 5, VInt)
  \cup Row(EQINT, VBool, OrderSigns, 3, VInt)
  \cup Row(ADDMONEY, VMoney, ArithSigns, 4, VMoney)
  \cup Row(ASSIGNADDMONEY, VVoid, AssignSigns, 4, VMoney)
  \cup Row(EQMONEY, VBool, OrderSigns, 3, VMoney)
  \cup {<<ASSIGNINT, VVoid, "=", t, t>> : t \in {VInt, VBool, VMoney, VBytes}}
  \cup {<<ASSIGNINT, VObject, "=", VObject, VObject>>, <<AND, VBool, "&&", VBool, VBool>>, <<OR, VBool, "||", VBool, VBool>>,
        <<ADDSTR, VStr, "+", VStr, VStr>>, <<ASSIGNSTR, VVoid, "=", VStr, VStr>>,
        <<ASSIGNADDSTR, VVoid, "+=", VStr, VStr>>, <<EQSTR, VBool, "==", VStr, VStr>>,
        <<ASSIGNADDBYTES, VVoid, "+=", VBytes, VBytes>>}
Unary == {<<SIGNINT, VInt, "-", VInt>>, <<NOT, VBool, "!", VBool>>,
          <<SIGNMONEY, VMoney, "-", VMoney>>}

\* The words of a binary operator and the type of its value; no words: unknown.
FindBinary(sign, l, r) ==
  LET rows == {o \in Operators : o[3] = sign /\ o[4] = l /\ o[5] = r}
      copy == CASE r = VStr -> <<COPYSTR>> [] r = VMoney -> <<COPY, VMoney>> [] OTHER -> <<>>
      inside == OuterType(l) # VVoid /\ ElementOf(l) = r
  IN CASE rows # {} -> LET o == CHOOSE o \in rows : TRUE IN [words |-> <<o[1]>>, res |-> o[2]]
       [] sign = "+=" /\ OuterType(l) = VArr /\ inside -> [words |-> <<APPENDARR>>, res |-> VVoid]
       [] sign = "=" /\ MainType(l) \in {VArr, VMap, VBytes} /\ l = r ->
            [words |-> <<ASSIGNINT>>, res |-> VVoid]
       [] sign = "=" /\ MainType(l) \in {VArr, VMap, VBytes} /\ l # r /\ inside ->
            [words |-> Append(copy, CASE OuterType(l) = VMap -> ASSIGNSETMAP
                                      [] OuterType(l) = VArr -> ASSIGNSETARR
                                      [] OuterType(l) = VBytes -> ASSIGNSETBYTES),
             res |-> VVoid]
       [] OTHER -> [words |-> <<>>, res |-> VVoid]

\* The library functions modelled by the interpreter, by their index in StdLib.
StdLib == {<<0, "Keys", <<VMap>>, TypeOf(VArr, VStr)>>, <<1, "Len", <<VArr>>, VInt>>,
           <<2, "Len", <<VMap>>, VInt>>, <<3, "Len", <<VStr>>, VInt>>,
           <<4, "Len", <<VBytes>>, VInt>>, <<5, "str", <<VInt>>, VStr>>,
           <<6, "str", <<VBool>>, VStr>>, <<7, "str", <<VMoney>>, VStr>>,
           <<8, "int", <<VStr>>, VInt>>, <<12, "money", <<VInt>>, VMoney>>,
           <<15, "bytes", <<VStr>>, VBytes>>,
           <<22, "Replace", <<VStr, VStr, VStr>>, VStr>>,
           <<23, "Split", <<VStr, VStr>>, TypeOf(VArr, VStr)>>,
           <<24, "Substr", <<VStr, VInt, VInt>>, VStr>>, <<25, "Contains", <<VStr, VStr>>, VBool>>,
           <<26, "HasPrefix", <<VStr, VStr>>, VBool>>,
           <<27, "Join", <<TypeOf(VArr, VStr), VStr>>, VStr>>,
           <<31, "JSONDecode", <<VStr>>, VObject>>, <<32, "JSONEncode", <<VObject>>, VStr>>,
           <<34, "IsExists", <<VObject, VStr>>, VBool>>, <<35, "IsString", <<VObject, VStr>>, VBool>>,
           <<36, "IsArray", <<VObject, VStr>>, VBool>>, <<37, "IsMap", <<VObject, VStr>>, VBool>>,
           <<38, "GetString", <<VObject, VStr>>, VStr>>,
           <<39, "GetArray", <<VObject, VStr>>, TypeOf(VArr, VStr)>>,
           <<40, "GetMap", <<VObject, VStr>>, TypeOf(VMap, VStr)>>}

\* What a call of name with parameters of the types ts refers to: a function of
\* the contract, of the host, or of the library.
Found(s, name, ts) ==
  LET own  == {k \in 1..Len(s.funcs) : s.funcs[k].name = name /\ s.funcs[k].types = ts}
      host == {k \in 1..Len(s.vm.funcs) :
                 s.vm.funcs[k].name = name /\ s.vm.funcs[k].params = ts}
      lib  == {f \in StdLib : f[2] = name /\ f[3] = ts}
  IN CASE own # {}  -> [in |-> "own", k |-> CHOOSE k \in own : TRUE,
                        res |-> s.funcs[CHOOSE k \in own : TRUE].result % 256]
       [] host # {} -> LET k == CHOOSE k \in host : \A j \in host : j <= k
                       IN [in |-> "host", k |-> k, res |-> s.vm.funcs[k].result]
       [] lib # {}  -> LET f == CHOOSE f \in lib : TRUE
                       IN [in |-> "lib", k |-> f[1], res |-> f[4]]
       [] OTHER     -> [in |-> "none", k |-> 0, res |-> VVoid]
\* Nested types also match a parameter that names only the outer type.
FindCall(s, name, ts) ==
  LET soft == [k \in 1..Len(ts) |-> IF ts[k] > 15 THEN MainType(ts[k]) ELSE ts[k]]
  IN IF Found(s, name, ts).in # "none" THEN Found(s, name, ts) ELSE Found(s, name, soft)

-----------------------------------------------------------------------------
RECURSIVE Gen(_, _), GenAll(_, _), GenItems(_, _), GenArms(_, _), GenTests(_, _, _), GenCases(_, _, _),
          GenGiven(_, _, _), GenIndexes(_, _, _)

\* The nodes es one after another: the state, and the types of their values.
GenAll(es, s) ==
  IF es = <<>> THEN [s |-> s, types |-> <<>>]
  ELSE LET before == GenAll(Front(es), s)
           t == Gen(Last(es), before.s)
       IN [s |-> t, types |-> Append(before.types, t.res)]
GenSeq(es, s) == GenAll(es, s).s

\* No code: the interpreter gives every variable its place before it starts.
InitVars(list, s) ==
  LET declared == {s.vars[k].name : k \in 1..Len(s.vars)}
      added == [k \in 1..Len(list) |-> [name |-> list[k].name, type |-> list[k].type]]
      dup == \E k \in 1..Len(list) : \/ list[k].name \in declared
                                     \/ \E j \in 1..k - 1 : list[j].name = list[k].name
      defaults == SelectSeq(list, LAMBDA v : v.exp # <<>>)
      t == [Check(Check(s, ~dup, "var exists"),
                  \A k \in 1..Len(list) : list[k].type # VVoid, "type")
              EXCEPT !.vars = @ \o added]
  IN GenSeq([k \in 1..Len(defaults) |-> defaults[k].exp[1]], t)

Variable(s, name) == {k \in 1..Len(s.vars) : s.vars[k].name = name}
GenVar(op, name, s) ==
  IF Variable(s, name) = {} THEN Error(s, "unknown variable")
  ELSE LET k == CHOOSE k \in Variable(s, name) : TRUE
       IN Typed(Emit(s, <<op, k - 1>>), s.vars[k].type)

\* ConditionCode; c.pos is what it returns as after.
Condition(e, s) == LET t == Gen(e, s) IN Check(t, t.res = VBool, "condition")

GenBlock(node, s) ==
  LET pars == node.pars
      t == IF pars = <<>> THEN s
           ELSE [Emit(InitVars(pars, s), <<LOADPARS>>) EXCEPT
                   !.params = [k \in 1..Len(pars) |-> [name |-> pars[k].name,
                                                       type |-> pars[k].type]]]
      u == GenSeq(node.body, t)
  IN [u EXCEPT !.funcs = SubSeq(@, 1, Len(s.funcs))]

GenReturn(node, s) ==
  LET t == IF node.e = <<>> THEN Typed(s, VVoid) ELSE Gen(node.e[1], s)
  IN IF s.inFunc THEN Emit(Check(t, t.res = s.retFunc, "return type"), <<RETFUNC>>)
     ELSE Emit(t, <<RETURN, t.res>>)

(***************************************************************************)
(* Binary operators, assignments among them.  The comparisons !=, <= and   *)
(* >= are compiled as ==, > and < with NOT.  For && and || a conditional   *)
(* jump is inserted in front of the code of the right side, which moves.   *)
(***************************************************************************)
Negated == [s \in {"!=", "<=", ">="} |-> CASE s = "!=" -> "==" [] s = "<=" -> ">" [] s = ">=" -> "<"]

GenBinary(node, s) ==
  LET left == CASE node.l.n = "vars" ->
                     Gen([n |-> "set", name |-> node.l.list[1].name], Gen(node.l, s))
                [] node.l.n = "index" /\ node.op = "=" -> Gen([node.l EXCEPT !.n = "setindex"], s)
                [] OTHER -> Gen(node.l, s)
      right == Gen(node.r, left)
      negate == node.op \in DOMAIN Negated
      found == FindBinary(IF negate THEN Negated[node.op] ELSE node.op, left.res, right.res)
      t == Emit(Check(right, found.words # <<>>, "operator"),
                found.words \o (IF negate THEN <<NOT>> ELSE <<>>))
      at == Here(left)
      jump == <<DUP, IF node.op = "&&" THEN JZE ELSE JNZ, Word(Here(t) - at + 2)>>
      u == IF node.op \in {"&&", "||"} /\ t.err = "none"
           THEN [t EXCEPT !.code = SubSeq(@, 1, at) \o jump \o SubSeq(@, at + 1, Len(@))] ELSE t
  IN Typed(u, found.res)

GenUnary(node, s) ==
  LET t == Gen(node.e, s)
      rows == {o \in Unary : o[3] = node.op /\ o[4] = t.res}
  IN IF rows = {} THEN Error(t, "operator")
     ELSE LET o == CHOOSE o \in rows : TRUE IN Typed(Emit(t, <<o[1]>>), o[2])

\* Mutant: the jump over the right side drops what is below as well.
GenQuestionJmp(node, s) ==
  LET c == Condition(node.c, s)
      l == Gen(node.l, Emit(c, <<JZE, 0>>))
      r == Gen(node.r, Emit(l, <<JMP, 0>>))
      t == Patch(Check(r, l.res = r.res, "question types"), Here(c) + 1, Here(l) - Here(c) + 2)
  IN Typed(Patch(t, Here(l) + 1, Here(r) - Here(l)), l.res)
GenQuestion(node, s) ==
  LET c == Condition(node.c, s)
      l == Gen(node.l, Emit(c, <<JZE, 0>>))
      r == Gen(node.r, Emit(l, <<JMPREL, 0>>))
      t == Patch(Check(r, l.res = r.res, "question types"), Here(c) + 1, Here(l) - Here(c) + 2)
  IN Typed(Patch(t, Here(l) + 1, Here(r) - Here(l)), l.res)

(***************************************************************************)
(* Loops.  The innermost element of jumps collects where the operands of   *)
(* the JMPs of break and continue are; they are filled in unchecked.       *)
(***************************************************************************)
PutAll(s, where, target) ==
  [s EXCEPT !.code = [p \in DOMAIN @ |-> IF \E k \in DOMAIN where : where[k] = p - 1
                                         THEN Word(target - p + 2) ELSE @[p]]]
Inner(s) == s.jumps[Len(s.jumps)]

GenWhile(node, s) ==
  LET c == Condition(node.c, [s EXCEPT !.jumps = Append(@, [breaks |-> <<>>, continues |-> <<>>])])
      b == Gen(node.body, Emit(c, <<JZE, 0>>))
      back == EmitJump(PutAll(b, Inner(b).continues, Here(s)), JMP, Here(s) - Here(b))
      t == PutAll(Patch(back, Here(c) + 1, Here(back) - Here(c)), Inner(b).breaks, Here(back))
  IN [t EXCEPT !.jumps = SubSeq(@, 1, Len(s.jumps))]

GenLeaveLoop(node, s) ==
  IF s.jumps = <<>> THEN Error(s, "outside a loop")
  ELSE LET t == Emit(s, <<JMP, 0>>)
       IN IF node.n = "break"
          THEN [t EXCEPT !.jumps[Len(s.jumps)].breaks = Append(@, Here(t) - 1)]
          ELSE [t EXCEPT !.jumps[Len(s.jumps)].continues = Append(@, Here(t) - 1)]

\* Mutant: continue goes to the head of the loop, past the step of a for.
GenEndLabelNone(s) == s
GenEndLabel(s) == [PutAll(s, Inner(s).continues, Here(s))
                     EXCEPT !.jumps[Len(s.jumps)].continues = <<>>]

(***************************************************************************)
(* if, elif, else: node.arms is the sequence of condition and body pairs;  *)
(* ends is where the jumps behind the bodies are.                          *)
(***************************************************************************)
\* Mutant: the jumps behind an arm go one word too far.
LandFar(s, ends) ==
  [Check(s, \A k \in DOMAIN ends : Here(s) - ends[k] < 32767, "jump")
     EXCEPT !.code = [p \in DOMAIN @ |-> IF \E k \in DOMAIN ends : ends[k] = p - 2
                                         THEN Word(Here(s) - p + 3) ELSE @[p]]]
\* The jumps at ends lead here.
Land(s, ends) ==
  [Check(s, \A k \in DOMAIN ends : Here(s) - ends[k] <= 32767, "jump")
     EXCEPT !.code = [p \in DOMAIN @ |-> IF \E k \in DOMAIN ends : ends[k] = p - 2
                                         THEN Word(Here(s) - p + 2) ELSE @[p]]]

GenArms(arms, s) ==
  IF arms = <<>> THEN [s |-> s, ends |-> <<>>]
  ELSE LET before == GenArms(Front(arms), s)
           c == Condition(Last(arms).c, before.s)
           b == Gen(Last(arms).body, Emit(c, <<JZE, 0>>))
           e == Emit(b, <<JMP, 0>>)
       IN [s |-> Patch(e, Here(c) + 1, Here(e) - Here(c)), ends |-> Append(before.ends, Here(b))]

GenIf(node, s) ==
  LET all == GenArms(node.arms, s) IN Land(GenSeq(node.other, all.s), all.ends)

(***************************************************************************)
(* switch leaves the value it compares on the stack.                       *)
(***************************************************************************)
\* The values es of a case, compared with one of type type.
GenTests(es, type, s) ==
  IF es = <<>> THEN [s |-> s, ends |-> <<>>]
  ELSE LET before == GenTests(Front(es), type, s)
           t == Gen(Last(es), Emit(before.s, <<DUP>>))
           u == Emit(Check(t, t.res = type, "case type"), <<IF type = VStr THEN EQSTR ELSE EQINT>>)
       IN [s |-> Emit(u, <<JNZ, 0>>), ends |-> Append(before.ends, Here(u))]
GenCases(cases, type, s) ==
  IF cases = <<>> THEN [s |-> s, ends |-> <<>>]
  ELSE LET before == GenCases(Front(cases), type, s)
           tests == GenTests(Last(cases).es, type, before.s)
           next  == Here(tests.s)
           b == Gen(Last(cases).body, Land(Emit(tests.s, <<JMPREL, 0>>), tests.ends))
           e == Emit(b, <<JMPREL, 0>>)
       IN [s |-> Patch(e, next + 1, Here(e) - next), ends |-> Append(before.ends, Here(b))]

GenSwitch(node, s) ==
  LET v == Gen(node.e, s)
      all == GenCases(node.cases, v.res, Check(v, v.res \in {VInt, VStr}, "switch type"))
  IN Land(GenSeq(node.other, all.s), all.ends)

(***************************************************************************)
(* Functions and contracts.                                                *)
(***************************************************************************)
GenFunc(node, s) ==
  LET types == [k \in 1..Len(node.pars) |-> node.pars[k].type]
      j == Emit(Check(Check([s EXCEPT !.retFunc = node.result], ~s.inFunc, "function level"),
                      Found(s, node.name, types).in = "none", "function exists"), <<JMP, 0>>)
      v == InitVars(node.pars, [j EXCEPT !.inFunc = TRUE])
      get == <<GETPARAMS, Len(types)>> \o [k \in 1..Len(types) |-> Len(j.vars) + k - 1]
      b == [Gen(node.body, IF types = <<>> THEN v ELSE Emit(v, get)) EXCEPT !.inFunc = FALSE]
      r == IF b.code # <<>> /\ b.code[Here(b)] = RETFUNC THEN b
           ELSE Emit(Check(b, b.retFunc = VVoid, "missing return"), <<RETFUNC>>)
  IN [Patch(r, Here(s) + 1, Here(r) - Here(s)) EXCEPT
        !.funcs = Append(@, [name |-> node.name, types |-> types, result |-> node.result,
                             offset |-> Here(s) + 2])]

GenCall(node, s) ==
  LET args == GenAll(node.args, s)
      t == args.s
      f == FindCall(t, node.name, args.types)
      host == t.vm.funcs[f.k]
  IN IF t.err # "none" THEN t ELSE
     CASE f.in = "own"  -> Typed(EmitJump(t, CALLFUNC, t.funcs[f.k].offset - Here(t)), f.res)
       [] f.in = "lib"  -> Typed(Emit(t, <<EMBEDFUNC, f.k>>), f.res)
       [] f.in = "host" -> Typed(Check(Emit(Check(t, f.res <= VStr, "result type"),
                                            <<CUSTOMFUNC, f.k - 1>>),
                                       t.read => host.read, "read contract"), f.res)
       [] OTHER -> Error(t, "unknown function")

\* The parameters args given to the contract cnt.
GenGiven(args, cnt, s) ==
  IF args = <<>> THEN s
  ELSE LET before == GenGiven(Front(args), cnt, s)
           par == {k \in 1..Len(cnt.params) : cnt.params[k].name = Last(args).name}
           k == CHOOSE k \in par : TRUE
           t == Gen(Last(args).e, before)
       IN IF par = {} THEN Error(before, "no such parameter")
          ELSE Emit(Check(t, t.res = cnt.params[k].type, "parameter type"),
                    <<PARCONTRACT, k - 1, cnt.params[k].type>>)

GenContractCall(node, s) ==
  LET named == {k \in 1..Len(s.vm.contracts) : s.vm.contracts[k].name = node.name}
      ind == CHOOSE k \in named : TRUE
      cnt == s.vm.contracts[ind]
      t == GenGiven(node.args, cnt, Check(s, s.read => cnt.read, "read contract"))
  IN IF named = {} THEN Error(s, "no such contract")
     ELSE Typed(Emit(t, <<CALLCONTRACT, ind - 1>>), VStr)

(***************************************************************************)
(* Indexing.  An assignment checks its last index with SETINDEX or SETMAP, *)
(* and has the type of the innermost array or map.                         *)
(***************************************************************************)
\* The indexes ix into a value of type a.type; set: the last one is to be assigned to.
GenIndexes(ix, set, a) ==
  IF ix = <<>> THEN a
  ELSE LET before == GenIndexes(Front(ix), FALSE, a)
           t == Gen(Last(ix), before.s)
           outer == OuterType(before.type)
           op == IF outer = VMap THEN IF set THEN SETMAP ELSE GETMAP
                                 ELSE IF set THEN SETINDEX ELSE GETINDEX
       IN [s |-> Emit(Check(Check(t, outer \in {VArr, VMap, VBytes}, "not indexed"),
                            t.res = (IF outer = VMap THEN VStr ELSE VInt), "index type"), <<op>>),
           type |-> ElementOf(before.type), inner |-> before.type]
GenIndexed(node, s) ==
  LET v == GenVar(GETVAR, node.name, s)
      last == GenIndexes(node.ix, node.n = "setindex", [s |-> v, type |-> v.res, inner |-> v.res])
  IN Typed(last.s, IF node.n = "setindex" THEN last.inner ELSE last.type)

SameTypes(types) == \A k \in 1..Len(types) : types[k] = types[1]
GenArray(node, s) ==
  LET all == GenAll(node.es, s)
  IN Typed(Emit(Check(all.s, SameTypes(all.types), "element type"), <<INITARR, Len(node.es)>>),
           TypeOf(VArr, all.types[1]))
\* The pairs are compiled as a sequence of keys and values.
GenMap(node, s) ==
  LET n == Len(node.pairs)
      all == GenAll([k \in 1..2 * n |->
               IF k % 2 = 1 THEN [n |-> "str", v |-> node.pairs[(k + 1) \div 2].key]
                            ELSE node.pairs[k \div 2].e], s)
      values == [k \in 1..n |-> all.types[2 * k]]
  IN Typed(Emit(Check(all.s, SameTypes(values), "element type"), <<INITMAP, n>>),
           TypeOf(VMap, values[1]))

\* Mutant: the type is that of the value before.
GenItemsBefore(items, s) ==
  IF items = <<>> THEN s
  ELSE LET before == GenItems(Front(items), s)
           key == Last(items).key
           t == Gen(Last(items).e, IF key = <<>> THEN before ELSE Literal(before, key[1]))
       IN Emit(t, <<PUSH16, before.res>>)

\* The entries of an object, or the items of a list in it: each value is followed by
\* its type.  The operand of objlist is an object written there.
GenItems(items, s) ==
  IF items = <<>> THEN s
  ELSE LET before == GenItems(Front(items), s)
           key == Last(items).key
           t == Gen(Last(items).e, IF key = <<>> THEN before ELSE Literal(before, key[1]))
       IN Emit(t, <<PUSH16, t.res>>)
GenObject(node, s)  == Typed(Emit(GenItems(node.items, s), <<INITOBJ, Len(node.items)>>), VObject)
GenObjArr(node, s)  == Typed(Emit(GenItems(node.items, s), <<INITOBJLIST, Len(node.items)>>), VObjList)
GenObjList(node, s) == Typed(Emit(Gen(node.obj, s), <<OBJ2LIST>>), VObject)

GenEnv(node, s) ==
  LET items == {k \in 1..Len(s.vm.env) : s.vm.env[k].name = node.name}
      k == CHOOSE k \in items : TRUE
  IN IF items = {} THEN Error(s, "unknown environment")
     ELSE Typed(Emit(s, <<ENV, k - 1>>), s.vm.env[k].type)

GenInt(v, s) ==
  Typed(Emit(s, IF v <= 32767 THEN <<PUSH16, v>> ELSE <<PUSH32, v \div 65536, v % 65536>>), VInt)

-----------------------------------------------------------------------------
(***************************************************************************)
(* for.go rewrites for loops into while loops.  The type of the sequence   *)
(* is found by compiling it once and dropping the code; that compilation   *)
(* has already turned its !=, <= and >= into ==, > and <.                  *)
(***************************************************************************)
RECURSIVE Settled(_)
Settled(e) ==
  CASE e.n = "bin"  -> [e EXCEPT !.op = IF @ \in DOMAIN Negated THEN Negated[@] ELSE @,
                                 !.l = Settled(@), !.r = Settled(@)]
    [] e.n = "un"    -> [e EXCEPT !.e = Settled(@)]
    [] e.n = "quest" -> [e EXCEPT !.c = Settled(@), !.l = Settled(@), !.r = Settled(@)]
    [] e.n = "call"  -> [e EXCEPT !.args = [k \in DOMAIN @ |-> Settled(@[k])]]
    [] e.n = "contract" -> [e EXCEPT !.args = [k \in DOMAIN @ |-> [@[k] EXCEPT !.e = Settled(@)]]]
    [] e.n = "index" -> [e EXCEPT !.ix = [k \in DOMAIN @ |-> Settled(@[k])]]
    [] e.n = "arr"   -> [e EXCEPT !.es = [k \in DOMAIN @ |-> Settled(@[k])]]
    [] e.n \in {"obj", "objarr"} ->
         [e EXCEPT !.items = [k \in DOMAIN @ |-> [@[k] EXCEPT !.e = Settled(@)]]]
    [] e.n = "objlist" -> [e EXCEPT !.obj = Settled(@)]
    [] e.n = "map"   -> [e EXCEPT !.pairs = [k \in DOMAIN @ |-> [@[k] EXCEPT !.e = Settled(@)]]]
    [] OTHER -> e

GetVarOf(name)     == [n |-> "get", name |-> name]
SetTo(name, e)     == [n |-> "bin", op |-> "=", l |-> [n |-> "set", name |-> name], r |-> e]
Next1(name)        == [n |-> "bin", op |-> "+=", l |-> [n |-> "set", name |-> name],
                       r |-> [n |-> "int", v |-> 1]]
ItemOf(name, ind)  == [n |-> "index", name |-> name, ix |-> <<GetVarOf(ind)>>]
CallOf(f, name)    == [n |-> "call", name |-> f, args |-> <<GetVarOf(name)>>]
NewVar(name, type) == [name |-> name, type |-> type, exp |-> <<>>]
Loop(sign, l, r, body) ==
  [n |-> "while", c |-> [n |-> "bin", op |-> sign, l |-> l, r |-> r],
   body |-> [n |-> "block", pars |-> <<>>, body |-> body]]
Closing(name) == <<[n |-> "endlabel"], Next1(name)>>
\* parser.RandName: a name nobody else has.
RandName(s, k) == "~" \o ToString(Len(s.vars) + k)

GenFor(node, s) ==
  LET once  == Gen(node.e, s)
      type  == once.res
      outer == OuterType(type)
      key   == IF node.key = "" THEN RandName(s, 1) ELSE node.key
      i     == RandName(s, 2)
      obj   == RandName(s, 3)
      keys  == RandName(s, 4)
      isMap == outer = VMap
      places == <<NewVar(obj, type), NewVar(node.var, ElementOf(type)),
                  NewVar(key, IF isMap THEN VStr ELSE VInt), NewVar(i, VInt)>>
      before == IF isMap THEN <<SetTo(key, ItemOf(keys, i)), SetTo(node.var, ItemOf(obj, key))>>
                ELSE IF node.key # "" THEN <<SetTo(node.var, ItemOf(obj, i)), SetTo(key, GetVarOf(i))>>
                ELSE <<SetTo(node.var, ItemOf(obj, i))>>
      range == IF isMap THEN keys ELSE obj
      loop == Loop("<", GetVarOf(i), CallOf("Len", range), before \o node.body \o Closing(i))
      decl == [n |-> "vars", list |-> IF isMap THEN Append(places, NewVar(keys, TypeOf(VArr, VStr)))
                                      ELSE places]
      t == Check([once EXCEPT !.code = s.code], outer \in {VArr, VMap, VBytes}, "for type")
  IN GenBlock([pars |-> <<>>,
       body |-> <<decl, SetTo(obj, Settled(node.e))>>
                \o (IF isMap THEN <<SetTo(keys, CallOf("Keys", obj))>> ELSE <<>>)
                \o <<loop>>], t)

GenForInt(node, s) ==
  LET from == Gen(node.from, s)
      to   == Gen(node.to, from)
      t    == [Check(Check(to, from.res = VInt, "index type"), to.res = VInt, "index type")
                 EXCEPT !.code = s.code]
      max  == RandName(s, 1)
      decl == [n |-> "vars", list |-> <<NewVar(node.var, VInt), NewVar(max, VInt)>>]
  IN GenBlock([pars |-> <<>>,
       body |-> <<decl, SetTo(node.var, Settled(node.from)), SetTo(max, Settled(node.to)),
                  Loop("<=", GetVarOf(node.var), GetVarOf(max),
                       node.body \o Closing(node.var))>>], t)

-----------------------------------------------------------------------------
Gen(node, s) ==
  IF s.err # "none" THEN s ELSE
  CASE node.n = "block"    -> GenBlock(node, s)
    [] node.n = "return"   -> GenReturn(node, s)
    [] node.n = "bin"      -> GenBinary(node, s)
    [] node.n = "un"       -> GenUnary(node, s)
    [] node.n = "quest"    -> GenQuestion(node, s)
    [] node.n = "int"      -> GenInt(node.v, s)
    [] node.n = "wide"     -> Typed(Emit(s, <<PUSH64>> \o node.words), VInt)
    [] node.n = "bool"     -> Typed(Emit(s, <<PUSH16, IF node.v THEN 1 ELSE 0>>), VBool)
    [] node.n = "str"      -> Typed(Literal(s, node.v), VStr)
    [] node.n = "vars"     -> InitVars(node.list, s)
    [] node.n = "get"      -> GenVar(GETVAR, node.name, s)
    [] node.n = "set"      -> GenVar(SETVAR, node.name, s)
    [] node.n = "while"    -> GenWhile(node, s)
    [] node.n = "if"       -> GenIf(node, s)
    [] node.n = "func"     -> GenFunc(node, s)
    [] node.n = "call"     -> GenCall(node, s)
    [] node.n = "contract" -> GenContractCall(node, s)
    [] node.n \in {"index", "setindex"} -> GenIndexed(node, s)
    [] node.n = "for"      -> GenFor(node, s)
    [] node.n = "forint"   -> GenForInt(node, s)
    [] node.n \in {"break", "continue"} -> GenLeaveLoop(node, s)
    [] node.n = "endlabel" -> GenEndLabel(s)
    [] node.n = "arr"      -> GenArray(node, s)
    [] node.n = "map"      -> GenMap(node, s)
    [] node.n = "obj"      -> GenObject(node, s)
    [] node.n = "objarr"   -> GenObjArr(node, s)
    [] node.n = "objlist"  -> GenObjList(node, s)
    [] node.n = "env"      -> GenEnv(node, s)
    [] node.n = "switch"   -> GenSwitch(node, s)

(***************************************************************************)
(* Compile: the literals are packed in front of the code, two to a word.   *)
(***************************************************************************)
WithData(code, data) ==
  LET even == IF Len(data) % 2 = 1 THEN Append(data, 0) ELSE data
      half == Len(even) \div 2
  IN IF data = <<>> THEN code
     ELSE <<DATA, half>> \o [k \in 1..half |-> 256 * even[2 * k - 1] + even[2 * k]] \o code

\* The contract of the source once its tree is compiled.
Compiled(source, s) ==
  [name |-> source.name, read |-> source.read, params |-> s.params,
   err |-> Check(s, Len(s.data) <= 65535, "data").err, code |-> WithData(s.code, s.data),
   vars |-> [k \in 1..Len(s.vars) |-> s.vars[k].type]]
Compile(vm, source) ==
  Compiled(source, Gen(source.block, [Start(vm) EXCEPT !.name = source.name, !.read = source.read]))
=============================================================================
