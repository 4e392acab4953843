------------------------------- MODULE Runtime -------------------------------
(***************************************************************************)
(* The interpreter of package runtime: one Runtime object (the heap of     *)
(* Strings and Objects, the Env) and a stack of activations of the method  *)
(* Run, the innermost of which executes one instruction per step.          *)
(*                                                                         *)
(* Every cell of the operand stack, every variable and every array item is *)
(* an int64: a number, an index into Strings, an index into Objects or the *)
(* address of a variable, and nothing in the cell says which.  Whatever    *)
(* makes the Go code index out of range or fail a type assertion ends the  *)
(* run in the status "panic".                                              *)
(*                                                                         *)
(* Not modelled here: floats, the functions on files, the remaining        *)
(* library functions, and INITVARS and DELVARS, which no compiled contract *)
(* contains.  A step onto one of those opcodes has no action, so that a    *)
(* run which needs them deadlocks.                                         *)
(***************************************************************************)
EXTENDS Heap, FiniteSets

CONSTANTS
  Programs,   \* the linked contracts and the inputs of each run considered
  StackSize,  \* cells of the operand stack of an activation (100)
  CallsSize,  \* nested function calls an activation can hold (1000 / 2)
  HalfRange,  \* an int64 lies in -HalfRange .. HalfRange - 1 (2^63)
  MoneyUnit,  \* amounts are rounded to multiples of 1 / MoneyUnit (10^16)
  HostGas,    \* what a host function may report as its cost
  HostInts,   \* the numbers a host function may return
  HostTexts,  \* the texts a host function may return
  Documents   \* what JSONDecode may make of a text

ASSUME SizesAssumption ==
  /\ StackSize \in Nat \ {0} /\ CallsSize \in Nat
  /\ HalfRange \in Nat /\ HalfRange >= 32768
  /\ MoneyUnit \in Nat \ {0}
  /\ HostGas \subseteq Int /\ HostInts \subseteq Int /\ HostTexts \subseteq Text
  /\ Documents \subseteq Tree

ASSUME ProgramsAssumption == \A p \in Programs : Linked(p)

VARIABLES
  prog,     \* the program of this run, which no step changes
  act,      \* the locals of the innermost activation of Run
  callers,  \* the locals of the activations suspended in CALLCONTRACT
  Strings,  \* Runtime.Strings
  Objects,  \* Runtime.Objects
  Buffers,  \* the backing arrays of the []byte values
  status,   \* "running", "unwinding" an error, or one of Final
  result,   \* the text Run returned
  error     \* the error it stopped with, or "none"

heap == <<Strings, Objects, Buffers>>
vars == <<prog, act, callers, heap, status, result, error>>

Final  == {"done", "error", "panic"}
cnt    == prog.contracts[act.cnt]

(***************************************************************************)
(* Helpers.                                                                *)
(***************************************************************************)
Wrap(x) == ((x + HalfRange) % (2 * HalfRange)) - HalfRange
\* x << 16 of an int64: what it loses at the left and what it leaves.
Shift16(x) == (x % (HalfRange \div 32768)) * 65536
Abs(x)  == IF x < 0 THEN -x ELSE x
Truth(b) == IF b THEN 1 ELSE 0

\* Go's integer division truncates towards zero.
Quo(a, b) == IF (a < 0) = (b < 0) THEN Abs(a) \div Abs(b) ELSE -(Abs(a) \div Abs(b))
Rem(a, b) == a - b * Quo(a, b)

\* The m-th smallest number in the set S.
Nth(S, m) == CHOOSE k \in S : Cardinality({j \in S : j <= k}) = m

-----------------------------------------------------------------------------
(***************************************************************************)
(* Starting an activation of Run.                                          *)
(***************************************************************************)

\* A contract with literals starts with DATA, a length and the packed bytes.
HasData(c)   == c.code # <<>> /\ c.code[1] = DATA
CodeStart(c) == IF HasData(c) THEN 2 + c.code[2] ELSE 0
Literals(c)  == IF ~HasData(c) THEN <<>> ELSE
  [k \in 1..2 * c.code[2] |->
     LET word == c.code[2 + ((k + 1) \div 2)]
     IN IF k % 2 = 1 THEN word \div 256 ELSE word % 256]

(***************************************************************************)
(* The variables of a contract.  Each entry of VarsList is looked at by    *)
(* two switches: the first appends to Strings for every type but int, and  *)
(* to Vars for str and int; the second appends to Objects, and to Vars     *)
(* unless the type is str.  No case of either gives a bool or a float a    *)
(* place in Vars.                                                          *)
(***************************************************************************)
InStrings == 0..15 \ {VInt}
InObjects == {VStr, VArr, VMap, VMoney, VBytes, VFile, VObject}
InVars    == {VStr, VInt, VArr, VMap, VMoney, VBytes, VFile, VObject}
Zero(t) == CASE t = VArr    -> Arr(<<>>)
             [] t = VMap    -> Map(<<>>, <<>>)
             [] t = VMoney  -> Money(0, 1)
             [] t = VBytes  -> Bytes(0, 0)
             [] t = VFile   -> [Blank EXCEPT !.kind = "file"]
             [] t = VObject -> [Blank EXCEPT !.kind = "obj"]
             [] OTHER       -> Blank

Slots(c, types) == {k \in 1..Len(c.vars) : MainType(c.vars[k]) \in types}
NewStrings(c)   == [k \in 1..Cardinality(Slots(c, InStrings)) |-> <<>>]
NewObjects(c)   == [m \in 1..Cardinality(Slots(c, InObjects)) |->
                      Zero(MainType(c.vars[Nth(Slots(c, InObjects), m)]))]
\* Mutant: a str is taken to have no place in Objects.
NewVarsSkippingStr(c, at) ==
  [m \in 1..Cardinality(Slots(c, InVars)) |->
     LET k == Nth(Slots(c, InVars), m)
         t == MainType(c.vars[k])
     IN CASE t = VInt -> 0
          [] t = VStr -> at.strings + Cardinality({j \in Slots(c, InStrings) : j < k})
          [] OTHER    -> at.objects + Cardinality({j \in Slots(c, InObjects \ {VStr}) : j < k})]
NewVars(c, at) ==
  [m \in 1..Cardinality(Slots(c, InVars)) |->
     LET k == Nth(Slots(c, InVars), m)
         t == MainType(c.vars[k])
     IN CASE t = VInt -> 0
          [] t = VStr -> at.strings + Cardinality({j \in Slots(c, InStrings) : j < k})
          [] OTHER    -> at.objects + Cardinality({j \in Slots(c, InObjects) : j < k})]

(***************************************************************************)
(* The locals of Run.  counts is a stack of lengths the heap will be cut   *)
(* back to; its first element is taken on entry.  An element of calls is   *)
(* the return address; top, the depth of the operand stack at the call, is *)
(* recorded for the properties only.                                       *)
(***************************************************************************)
Mark == [strings |-> Len(Strings), objects |-> Len(Objects)]
Activation(c, params, limit, at) ==
  [cnt |-> c, i |-> CodeStart(prog.contracts[c]), top |-> 0, gas |-> 0, limit |-> limit,
   stack |-> [s \in 0..StackSize - 1 |-> 0], Vars |-> NewVars(prog.contracts[c], at),
   params |-> params, pars |-> <<>>, calls |-> <<>>, counts |-> <<at>>,
   isParContract |-> FALSE]

MarkType == [strings : Nat, objects : Nat]
Depths   == -1..StackSize - 1
Stacks   == [0..StackSize - 1 -> Int]
Returns  == [ret : Int, top : Int]
ActivationType ==
  [cnt : Nat, i : Int, top : Depths, gas : Int, limit : Int, stack : Stacks,
   Vars : Seq(Int), params : Seq(Int), pars : Seq(Int), calls : Seq(Returns),
   counts : Seq(MarkType), isParContract : BOOLEAN]

-----------------------------------------------------------------------------
(***************************************************************************)
(* Reading the current instruction.                                        *)
(***************************************************************************)
Op       == cnt.code[act.i + 1]
W(k)     == cnt.code[act.i + 1 + k]     \* the k-th word after the opcode
Cell(k)  == act.stack[act.top - k]      \* the k-th cell below the top
AddressOf(k) == HalfRange + k           \* of Vars[k]; no number looks like it
IsAddress(v) == v - HalfRange \in 0..Len(act.Vars) - 1
Pointed(v)   == act.Vars[v - HalfRange + 1]
IsString(v)  == v \in 0..Len(Strings) - 1
String(v)    == Strings[v + 1]
IsObject(v)  == v \in 0..Len(Objects) - 1
Obj(v)       == Objects[v + 1]
IsKind(v, kind) == IsObject(v) /\ Obj(v).kind = kind
Content(o)   == IF o.num = 0 THEN <<>> ELSE SubSeq(Buffers[o.buf], 1, o.num)
ObjLen(o)    == IF o.kind = "bytes" THEN o.num ELSE Len(o.items)

IntBinary  == {ADDINT, SUBINT, MULINT, EQINT, LTINT, GTINT, AND, OR}
IntDivide  == {DIVINT, MODINT}
IntAssign  == {ASSIGNADDINT, ASSIGNSUBINT, ASSIGNMULINT}
IntAssignDivide == {ASSIGNDIVINT, ASSIGNMODINT}
MoneyBinary  == {ADDMONEY, SUBMONEY, MULMONEY, DIVMONEY}
MoneyCompare == {EQMONEY, LTMONEY, GTMONEY}
MoneyAssign  == {ASSIGNADDMONEY, ASSIGNSUBMONEY, ASSIGNMULMONEY, ASSIGNDIVMONEY}
Modelled == IntBinary \cup IntDivide \cup IntAssign \cup IntAssignDivide
  \cup MoneyBinary \cup MoneyCompare \cup MoneyAssign
  \cup {PUSH16, PUSH32, PUSH64, PUSHSTR, DUP, GETVAR, SETVAR, JMP, JMPREL, JZE, JNZ,
        ASSIGNINT, ASSIGNSTR, CALLFUNC, EMBEDFUNC, CUSTOMFUNC, CALLCONTRACT, LOADPARS,
        PARCONTRACT, GETPARAMS, RETURN, RETFUNC, SIGNINT, NOT, ADDSTR, EQSTR,
        ASSIGNADDSTR, APPENDARR, GETINDEX, SETINDEX, GETMAP, SETMAP, COPYSTR, COPY,
        ASSIGNSETMAP, ASSIGNSETARR, ASSIGNSETBYTES, INITARR, INITMAP, INITOBJ,
        INITOBJLIST, OBJ2LIST, ENV, SIGNMONEY, ASSIGNADDBYTES}
\* Opcodes of runtime.go this module has no action for.
Beyond == {INITVARS, DELVARS} \cup SIGNFLOAT..GTFLOAT
StdLibSize == 48

\* The words of the instruction, its operands included.
Words(op) ==
  CASE op \in {PUSH16, GETVAR, SETVAR, JMP, JMPREL, JZE, JNZ, CALLFUNC, EMBEDFUNC,
               CUSTOMFUNC, CALLCONTRACT, RETURN, COPY, INITARR, INITMAP, INITOBJ,
               INITOBJLIST, ENV} -> 2
    [] op \in {PUSH32, PUSHSTR, PARCONTRACT} -> 3
    [] op = PUSH64 -> 5
    [] op = GETPARAMS -> IF act.i + 1 < Len(cnt.code) THEN 2 + W(1) ELSE 2
    [] OTHER -> 1

(***************************************************************************)
(* The library functions modelled: their gas and the operands they take.   *)
(***************************************************************************)
LibObject == {IsExists, IsStr, IsArray, IsMap}
LibValue == {LenArr, LenMap, LenStr, LenBytes, IntStr, ContainsStr, HasPrefix} \cup LibObject
LibText  == {StrInt, StrBool, StrMoney, Join, ReplaceStr, Substr, JSONEncode}
LibList  == {Keys, Split, GetArray}
Library  == LibValue \cup LibText \cup LibList
  \cup {MoneyInt, BytesStr, JSONDecode, GetStr, GetMapOf}
LibGas(f) == CASE f = Keys -> 20 [] f \in {JSONDecode, JSONEncode} -> 10
               [] f \in {MoneyInt, BytesStr, Split} -> 7 [] OTHER -> 5
LibSig(f) == CASE f \in {Keys, LenMap} -> <<"map">>
               [] f = LenArr -> <<"arr">>
               [] f = LenBytes -> <<"bytes">>
               [] f = StrMoney -> <<"money">>
               [] f = Join -> <<"arr", "str">>
               [] f \in {LenStr, IntStr, BytesStr, JSONDecode} -> <<"str">>
               [] f \in {ContainsStr, HasPrefix, Split} -> <<"str", "str">>
               [] f = ReplaceStr -> <<"str", "str", "str">>
               [] f = Substr -> <<"str", "any", "any">>
               [] f = JSONEncode -> <<"obj">>
               [] f \in LibObject \cup {GetStr, GetArray, GetMapOf} -> <<"obj", "str">>
               [] OTHER -> <<"any">>

\* The operand expected for a value of type t by code that looks values of the
\* given types up in the heap and takes any other value as it is.
Sort(t, types) == LET m == MainType(t) IN
  IF m \notin types THEN "any" ELSE
  CASE m = VStr -> "str"     [] m = VArr -> "arr"      [] m = VMap -> "map"
    [] m = VMoney -> "money" [] m = VBytes -> "bytes"  [] m = VFile -> "file"
    [] OTHER -> "obj"
CopySort(t)  == Sort(t, {VStr, VArr, VMap, VMoney, VBytes, VFile})
PrintSort(t) == Sort(t, {VStr, VArr, VMap, VMoney, VObject})
HostSort(t)  == Sort(t, {VStr, VMoney, VObject})

(***************************************************************************)
(* The operands an instruction reads from the stack, deepest first: those  *)
(* of the opcode op, with the words w and u behind it, of the program g.   *)
(* "addr" is the address of a variable, "addr_x" the address of a variable *)
(* that holds an x, "item" an object or anything else that indexes one.    *)
(***************************************************************************)
Demands(g, op, w, u) ==
  CASE op \in IntBinary \cup IntDivide -> <<"any", "any">>
    [] op \in IntAssign \cup IntAssignDivide \cup {ASSIGNINT} -> <<"addr", "any">>
    [] op \in {DUP, JZE, JNZ, SIGNINT, NOT, SETMAP} -> <<"any">>
    [] op = RETURN -> <<PrintSort(w)>>
    [] op \in MoneyBinary \cup MoneyCompare -> <<"money", "money">>
    [] op \in MoneyAssign -> <<"addr_money", "money">>
    [] op = SIGNMONEY -> <<"money">>
    [] op = ASSIGNSTR -> <<"addr", "str">>
    [] op \in {ADDSTR, EQSTR} -> <<"str", "str">>
    [] op = ASSIGNADDSTR -> <<"addr_str", "str">>
    [] op = ASSIGNADDBYTES -> <<"addr_bytes", "bytes">>
    [] op = APPENDARR -> <<"addr_arr", "any">>
    [] op \in {GETINDEX, SETINDEX} -> <<"item", "any">>
    [] op = GETMAP -> <<"map", "any">>
    [] op = ASSIGNSETMAP -> <<"map", "str", "any">>
    [] op = ASSIGNSETARR -> <<"arr", "any", "any">>
    [] op = ASSIGNSETBYTES -> <<"bytes", "any", "any">>
    [] op = COPYSTR -> <<"str">>
    [] op = COPY -> <<CopySort(w)>>
    [] op = PARCONTRACT -> <<CopySort(u)>>
    [] op \in {GETPARAMS, INITARR} -> [k \in 1..w |-> "any"]
    [] op = INITMAP -> [k \in 1..2 * w |-> IF k % 2 = 1 THEN "str" ELSE "any"]
    [] op = INITOBJ -> [k \in 1..3 * w |-> IF k % 3 = 1 THEN "str" ELSE "any"]
    [] op = INITOBJLIST -> [k \in 1..2 * w |-> "any"]
    [] op = OBJ2LIST -> <<"obj">>
    [] op = EMBEDFUNC -> LibSig(w)
    [] op = CUSTOMFUNC -> LET ps == g.funcs[w + 1].params
                          IN [k \in 1..Len(ps) |-> HostSort(ps[k])]
    [] OTHER -> <<>>
Operands(op) == Demands(prog, op, W(1), W(2))

Fits(v, sort) ==
  CASE sort = "any"  -> TRUE
    [] sort = "str"  -> IsString(v)
    [] sort = "item" -> IsObject(v)
    [] sort = "tree" -> IsObject(v) /\ Obj(v).kind \in {"obj", "list"}
    [] sort = "addr" -> IsAddress(v)
    [] sort = "addr_str"   -> IsAddress(v) /\ IsString(Pointed(v))
    [] sort = "addr_arr"   -> IsAddress(v) /\ IsKind(Pointed(v), "arr")
    [] sort = "addr_bytes" -> IsAddress(v) /\ IsKind(Pointed(v), "bytes")
    [] sort = "addr_money" -> IsAddress(v) /\ IsKind(Pointed(v), "money")
    [] OTHER -> IsKind(v, sort)

ElementType(t) == MainType(SubType(t))
\* The type operand of COPY and of PARCONTRACT.
CopiedType == IF Op = COPY THEN W(1) ELSE W(2)
ElementsFit(v, sort) == \A k \in 1..Len(Obj(v).items) : Fits(Obj(v).items[k], sort)

\* The values INITOBJ and INITOBJLIST take, each with its type above it, and w cells
\* from one to the next.
Taken(k, w)     == Cell(w * (W(1) - k) + 1)
TakenType(k, w) == Cell(w * (W(1) - k))
TakenFits(k, w) ==
  LET v == Taken(k, w)
      t == TakenType(k, w)
  IN IF t \in {VObject, VObjList} THEN Fits(v, "tree")
     ELSE /\ Fits(v, PrintSort(t))
          /\ MainType(t) \in {VArr, VMap} => ElementsFit(v, PrintSort(SubType(t)))

\* Substr counts from the end of a negative length; a sum can leave the int64.  It
\* counts runes where Len counts bytes: a text is a sequence of ASCII characters here.
SubstrLen  == IF Cell(0) < 0 THEN Wrap(-Cell(0)) ELSE Cell(0)
SubstrFrom == IF Cell(0) < 0 THEN Wrap(Cell(1) - SubstrLen) ELSE Cell(1)
SubstrTo   == IF SubstrLen = 0 THEN Len(String(Cell(2))) ELSE Wrap(SubstrFrom + SubstrLen)
SubstrCut  == SubSeq(String(Cell(2)), SubstrFrom + 1, SubstrTo)
SubstrRefused == \/ SubstrFrom \notin 0..Len(String(Cell(2))) - 1
                 \/ Wrap(SubstrFrom + SubstrLen) > Len(String(Cell(2)))

Pushes(op) ==
  \/ op \in {PUSH16, PUSH32, PUSH64, PUSHSTR, DUP, GETVAR, SETVAR, CALLCONTRACT, ENV}
  \/ op \in {INITARR, INITMAP, INITOBJ, INITOBJLIST} /\ W(1) = 0
  \/ op = CUSTOMFUNC /\ prog.funcs[W(1) + 1].params = <<>>
       /\ prog.funcs[W(1) + 1].result # VVoid

(***************************************************************************)
(* The Go code does not panic on the instruction: its operands are inside  *)
(* the stack and are what their use takes them for, and every other index  *)
(* it uses is in range.                                                    *)
(***************************************************************************)
OperandsFit ==
  LET sorts == Operands(Op) IN
  /\ act.top >= Len(sorts) - 1
  /\ \A k \in 1..Len(sorts) : Fits(act.stack[act.top - Len(sorts) + k], sorts[k])
  /\ Pushes(Op) => act.top + 1 < StackSize

IndicesFit ==
  /\ Op \in {GETVAR, SETVAR} => W(1) < Len(act.Vars)
  /\ Op = GETPARAMS => \A k \in 1..W(1) : W(1 + k) < Len(act.Vars)
  /\ Op = PUSHSTR => Word(W(1) + W(2)) \in W(1)..Len(Literals(cnt))
  /\ Op = CALLFUNC => Len(act.calls) < CallsSize
  /\ Op = RETFUNC => act.calls # <<>>
  /\ Op = ENV => W(1) < Len(prog.env)
  /\ Op = CALLCONTRACT => W(1) < Len(prog.contracts)

\* The same of the indices that are values, and of what the operands lead to.
ItemsFit ==
  /\ Op = LOADPARS => \A k \in 1..Len(act.params) \div 2 :
                         act.params[2 * k - 1] \in 0..Len(act.Vars) - 1
  /\ (Op = EMBEDFUNC /\ W(1) = Join) => ElementsFit(Cell(1), "str")
  /\ (Op = EMBEDFUNC /\ W(1) = Substr /\ ~SubstrRefused) => SubstrFrom <= SubstrTo
  /\ Op = INITOBJ => \A k \in 1..W(1) : TakenFits(k, 3)
  /\ Op = INITOBJLIST => \A k \in 1..W(1) : TakenFits(k, 2)
  /\ (Op = RETURN /\ MainType(W(1)) \in {VArr, VMap}) =>
       ElementsFit(Cell(0), PrintSort(SubType(W(1))))
  /\ (Op \in {COPY, PARCONTRACT} /\ MainType(CopiedType) \in {VArr, VMap}) =>
       ElementsFit(Cell(0), CopySort(ElementType(CopiedType)))
  /\ Op = ASSIGNSETARR => Cell(1) \in 0..Len(Obj(Cell(2)).items) - 1
  /\ (Op = ASSIGNSETBYTES /\ Cell(0) \in 0..255) => Cell(1) \in 0..Obj(Cell(2)).num - 1

\* The operands of CUSTOMFUNC and EMBEDFUNC are known only if the function is.
Known == /\ act.i + Words(Op) <= Len(cnt.code)
         /\ Op = CUSTOMFUNC => W(1) < Len(prog.funcs)
         /\ Op = EMBEDFUNC => W(1) < StdLibSize

(***************************************************************************)
(* The errors the Go code checks for and returns.                          *)
(***************************************************************************)
HasKey(o, t) == \E p \in 1..Len(o.items) : o.keys[p] = t
At(o, t)     == CHOOSE p \in 1..Len(o.items) : o.keys[p] = t

\* A number that fits an int64.
Parsed(t) == IsNumber(t) /\ Number(t) \in -HalfRange..HalfRange - 1

Failure ==
  CASE Op \in IntDivide \cup IntAssignDivide /\ Cell(0) = 0 -> "errDivZero"
    [] Op \in {DIVMONEY, ASSIGNDIVMONEY} /\ Obj(Cell(0)).num = 0 -> "errDivZero"
    [] Op \in {GETINDEX, SETINDEX} /\ Obj(Cell(1)).kind \in {"arr", "bytes"}
         /\ Cell(0) \notin 0..ObjLen(Obj(Cell(1))) - 1 -> "errIndexOut"
    [] Op \in {GETMAP, SETMAP} /\ ~IsString(Cell(0)) -> "errIndexOut"
    [] Op = GETMAP /\ IsString(Cell(0)) /\ ~HasKey(Obj(Cell(1)), String(Cell(0))) ->
         "errIndexMap"
    [] Op = ASSIGNSETBYTES /\ Cell(0) \notin 0..255 -> "errBytesVal"
    [] Op = EMBEDFUNC /\ W(1) = IntStr /\ ~Parsed(String(Cell(0))) -> "errStr2Int"
    [] Op = EMBEDFUNC /\ W(1) = Substr /\ SubstrRefused -> "errInvalidParam"
    [] Op \notin Modelled \cup Beyond -> "errCommand"
    [] OTHER -> "none"

(***************************************************************************)
(* The head of the loop: there is an instruction, and gas for it.          *)
(***************************************************************************)
Fetching == status = "running" /\ act.i \in 0..Len(cnt.code) - 1
Paid     == Fetching /\ act.gas < act.limit
Supported == /\ Op \notin Beyond
             /\ Op = EMBEDFUNC => W(1) \notin (0..StdLibSize - 1) \ Library
             \* the first text is JSONEncode's indent
             /\ (Op = EMBEDFUNC /\ W(1) = JSONEncode) => Strings[1] = <<>>
Sound    == Known /\ OperandsFit /\ IndicesFit /\ ItemsFit
Dispatch(ops) == Paid /\ Op \in ops /\ Supported /\ Sound /\ Failure = "none"

\* The activation goes on as a, after the words of the instruction.
Proceed(a) ==
  /\ act' = [a EXCEPT !.i = @ + Words(Op), !.gas = @ + 1]
  /\ UNCHANGED <<prog, callers, status, result, error>>

Push(v)       == [act EXCEPT !.top = @ + 1, !.stack[act.top + 1] = v]
\* Mutant: an instruction takes one operand too many.
DropTooMany(n) == [act EXCEPT !.top = @ - n - 1]
Drop(n)       == [act EXCEPT !.top = @ - n]
Replace(n, v) == [act EXCEPT !.top = @ - n + 1, !.stack[act.top - n + 1] = v]
Store(addr, v, n) == [act EXCEPT !.Vars[addr - HalfRange + 1] = v, !.top = @ - n]

\* runtime.go and the handlers: append to a table, answer with the new index.
NewString(t) == Strings' = Append(Strings, t)
NewObject(o) == Objects' = Append(Objects, o)

(***************************************************************************)
(* print(): the text of a value.  Arrays and maps of scalars are printed   *)
(* element by element, maps in the order of their keys.                    *)
(***************************************************************************)
\* The position of the m-th key of the map o in sorted order.
Ranked(o, m) == CHOOSE p \in 1..Len(o.keys) :
  Cardinality({q \in 1..Len(o.keys) : ~Less(o.keys[p], o.keys[q])}) = m
\* The test is true of every map, as in Concat.
SortedKeys(o) == LET ks == [m \in 1..Len(o.keys) |-> o.keys[Ranked(o, m)]]
                 IN IF ks \in Seq(Text) THEN ks ELSE <<>>

\* An amount prints as a whole number or as a fraction in lowest terms, which
\* stands for its decimal form.
SprintMoney(o) ==
  LET d == Nth({e \in 1..o.den : (o.num * e) % o.den = 0}, 1)
      n == (o.num * d) \div o.den
  IN AsText(IF d = 1 THEN Sprint(n) ELSE Sprint(n) \o <<47>> \o Sprint(d))

PrintScalar(v, t) ==
  CASE MainType(t) = VVoid  -> <<>>
    [] MainType(t) = VStr   -> String(v)
    [] MainType(t) = VBool  -> SprintBool(v)
    [] MainType(t) = VMoney -> SprintMoney(Obj(v))
    [] MainType(t) = VObject -> SprintTree(TreeVal("map", Obj(v).tree))
    [] OTHER -> Sprint(v)
\* print goes down to items of any depth; what is nested in an item is its index here.
PrintItem(o, p, t) == PrintScalar(o.items[p], SubType(t))
PrintValue(v, t) ==
  CASE MainType(t) = VArr ->
         LET o == Obj(v)
         IN <<91>> \o Separated([p \in 1..Len(o.items) |-> PrintItem(o, p, t)], <<32>>) \o <<93>>
    [] MainType(t) = VMap ->
         LET o == Obj(v)
             item(m) == o.keys[Ranked(o, m)] \o <<58, 32>> \o PrintItem(o, Ranked(o, m), t)
         IN <<91>> \o Separated([m \in 1..Len(o.keys) |-> item(m)], <<32>>) \o <<93>>
    [] OTHER -> PrintScalar(v, t)

(***************************************************************************)
(* copy(): a copy of an array or a map copies its elements too, but as     *)
(* values of the one nibble (vtype >> 4) & 0xf: an element that is itself  *)
(* an array gets a new array of the same items.  The copy of a []byte      *)
(* shares its backing array.                                               *)
(***************************************************************************)
InHeap == {VArr, VMap, VMoney, VBytes, VFile}
CopiedStrings(o, t) ==
  IF ElementType(t) = VStr THEN [k \in 1..Len(o.items) |-> String(o.items[k])] ELSE <<>>
CopiedObjects(o, t) ==
  IF ElementType(t) \in InHeap THEN [k \in 1..Len(o.items) |-> Obj(o.items[k])] ELSE <<>>
CopiedItems(o, t) ==
  [k \in 1..Len(o.items) |->
     IF ElementType(t) = VStr THEN Len(Strings) + k - 1
     ELSE IF ElementType(t) \in InHeap THEN Len(Objects) + k - 1 ELSE o.items[k]]
CopyStrings(v, t) ==
  CASE MainType(t) = VStr -> <<String(v)>>
    [] MainType(t) \in {VArr, VMap} -> CopiedStrings(Obj(v), t)
    [] OTHER -> <<>>
CopyObjects(v, t) ==
  CASE MainType(t) \in {VMoney, VBytes, VFile} -> <<Obj(v)>>
    [] MainType(t) \in {VArr, VMap} ->
         Append(CopiedObjects(Obj(v), t), [Obj(v) EXCEPT !.items = CopiedItems(Obj(v), t)])
    [] OTHER -> <<>>
\* Mutant: a text is handed over as it is.
CopyIndexShared(v, t) ==
  IF MainType(t) \in InHeap THEN Len(Objects) + Len(CopyObjects(v, t)) - 1 ELSE v
CopyIndex(v, t) ==
  CASE MainType(t) = VStr -> Len(Strings)
    [] MainType(t) \in InHeap -> Len(Objects) + Len(CopyObjects(v, t)) - 1
    [] OTHER -> v
CopyInHeap(v, t) == /\ Strings' = Strings \o CopyStrings(v, t)
                    /\ Objects' = Objects \o CopyObjects(v, t)
                    /\ UNCHANGED Buffers

-----------------------------------------------------------------------------
(***************************************************************************)
(* Literals, variables, the operand stack.                                 *)
(***************************************************************************)
Push16 == Dispatch({PUSH16}) /\ Proceed(Push(W(1))) /\ UNCHANGED heap
Push32 == Dispatch({PUSH32}) /\ Proceed(Push(W(1) * 65536 + W(2))) /\ UNCHANGED heap
Push64 == /\ Dispatch({PUSH64})
          /\ Proceed(Push(Wrap(Shift16(Shift16(Shift16(W(1)) + W(2)) + W(3)) + W(4))))
          /\ UNCHANGED heap

PushStr ==
  /\ Dispatch({PUSHSTR})
  /\ NewString(SubSeq(Literals(cnt), W(1) + 1, Word(W(1) + W(2))))
  /\ Proceed(Push(Len(Strings)))
  /\ UNCHANGED <<Objects, Buffers>>

Dup    == Dispatch({DUP})    /\ Proceed(Push(Cell(0)))            /\ UNCHANGED heap
GetVar == Dispatch({GETVAR}) /\ Proceed(Push(act.Vars[W(1) + 1])) /\ UNCHANGED heap
SetVar == Dispatch({SETVAR}) /\ Proceed(Push(AddressOf(W(1))))    /\ UNCHANGED heap
Env    == Dispatch({ENV})    /\ Proceed(Push(prog.env[W(1) + 1])) /\ UNCHANGED heap

(***************************************************************************)
(* Numbers and booleans.                                                   *)
(***************************************************************************)
Arith(op, a, b) ==
  CASE op \in {ADDINT, ASSIGNADDINT} -> Wrap(a + b)
    [] op \in {SUBINT, ASSIGNSUBINT} -> Wrap(a - b)
    [] op \in {MULINT, ASSIGNMULINT} -> Wrap(a * b)
    [] op \in {DIVINT, ASSIGNDIVINT} -> Wrap(Quo(a, b))
    [] op \in {MODINT, ASSIGNMODINT} -> Rem(a, b)
    [] op = EQINT -> Truth(a = b)
    [] op = LTINT -> Truth(a < b)
    [] op = GTINT -> Truth(a > b)
    [] op = AND -> Truth(a = 1 /\ b = 1)
    [] op = OR  -> Truth(a = 1 \/ b = 1)

Compute ==
  /\ Dispatch(IntBinary \cup IntDivide)
  /\ Proceed(Replace(2, Arith(Op, Cell(1), Cell(0))))
  /\ UNCHANGED heap

Negate == Dispatch({SIGNINT}) /\ Proceed(Replace(1, Wrap(-Cell(0)))) /\ UNCHANGED heap
Not    == Dispatch({NOT}) /\ Proceed(Replace(1, Truth(Cell(0) = 0))) /\ UNCHANGED heap

\* Also the assignment of bools, money, arrays, maps and bytes: it stores the
\* index, so that two variables share the object.
AssignInt ==
  /\ Dispatch({ASSIGNINT})
  /\ Proceed(Store(Cell(1), Cell(0), 2))
  /\ UNCHANGED heap

AssignCompute ==
  /\ Dispatch(IntAssign \cup IntAssignDivide)
  /\ Proceed(Store(Cell(1), Arith(Op, Pointed(Cell(1)), Cell(0)), 2))
  /\ UNCHANGED heap

(***************************************************************************)
(* Jumps.  JMP ends a statement, and empties the operand stack.            *)
(***************************************************************************)
\* Mutant: each jump begins a budget of its own.
JumpAnew(a) == /\ act' = [a EXCEPT !.i = @ + Signed(W(1)), !.gas = 0]
               /\ UNCHANGED <<prog, callers, status, result, error, heap>>
Jump(a) == /\ act' = [a EXCEPT !.i = @ + Signed(W(1)), !.gas = @ + 1]
           /\ UNCHANGED <<prog, callers, status, result, error, heap>>

Jmp    == Dispatch({JMP}) /\ Jump([act EXCEPT !.top = 0])
JmpRel == Dispatch({JMPREL}) /\ Jump(act)
JumpIf == /\ Dispatch({JZE, JNZ})
          /\ IF (Cell(0) = 0) = (Op = JZE) THEN Jump(Drop(1))
                                           ELSE Proceed(Drop(1)) /\ UNCHANGED heap

(***************************************************************************)
(* Functions of the contract share its variables and its operand stack.    *)
(***************************************************************************)
\* Mutant: the return address is the operand of the call.
CallFuncOperand ==
  /\ Dispatch({CALLFUNC})
  /\ Jump([act EXCEPT !.calls = Append(@, [ret |-> act.i + 1, top |-> act.top])])

CallFunc ==
  /\ Dispatch({CALLFUNC})
  /\ Jump([act EXCEPT !.calls = Append(@, [ret |-> act.i + 2, top |-> act.top])])

\* Mutant: the parameters stay on the stack.
GetParamsPeek ==
  /\ Dispatch({GETPARAMS})
  /\ Proceed([act EXCEPT !.Vars =
       [k \in DOMAIN act.Vars |->
          IF \E j \in 1..W(1) : W(1 + j) = k - 1
          THEN Cell((CHOOSE j \in 1..W(1) : W(1 + j) = k - 1) - 1)
          ELSE act.Vars[k]]])
  /\ UNCHANGED heap

\* The first parameter of the list takes the top of the stack.
GetParams ==
  /\ Dispatch({GETPARAMS})
  /\ Proceed([Drop(W(1)) EXCEPT !.Vars =
       [k \in DOMAIN act.Vars |->
          IF \E j \in 1..W(1) : W(1 + j) = k - 1
          THEN Cell((CHOOSE j \in 1..W(1) : W(1 + j) = k - 1) - 1)
          ELSE act.Vars[k]]])
  /\ UNCHANGED heap

\* Mutant: a return ends all calls that are open.
RetFuncAll ==
  /\ Dispatch({RETFUNC})
  /\ act' = [act EXCEPT !.i = act.calls[Len(act.calls)].ret, !.gas = @ + 1, !.calls = <<>>]
  /\ UNCHANGED <<prog, callers, status, result, error, heap>>

RetFunc ==
  /\ Dispatch({RETFUNC})
  /\ act' = [act EXCEPT !.i = act.calls[Len(act.calls)].ret, !.gas = @ + 1,
                        !.calls = SubSeq(@, 1, Len(@) - 1)]
  /\ UNCHANGED <<prog, callers, status, result, error, heap>>

-----------------------------------------------------------------------------
(***************************************************************************)
(* Strings.  ASSIGNADDSTR extends the entry of Strings itself, which every *)
(* variable and item with the same index sees.                             *)
(***************************************************************************)
AddStr ==
  /\ Dispatch({ADDSTR})
  /\ NewString(String(Cell(1)) \o String(Cell(0)))
  /\ Proceed(Replace(2, Len(Strings)))
  /\ UNCHANGED <<Objects, Buffers>>

EqStr ==
  /\ Dispatch({EQSTR})
  /\ Proceed(Replace(2, Truth(String(Cell(1)) = String(Cell(0)))))
  /\ UNCHANGED heap

\* Mutant: the variable takes the text itself.
AssignStrShared ==
  /\ Dispatch({ASSIGNSTR})
  /\ Proceed(Store(Cell(1), Cell(0), 2))
  /\ UNCHANGED heap

AssignStr ==
  /\ Dispatch({ASSIGNSTR})
  /\ NewString(String(Cell(0)))
  /\ Proceed(Store(Cell(1), Len(Strings), 2))
  /\ UNCHANGED <<Objects, Buffers>>

AssignAddStr ==
  /\ Dispatch({ASSIGNADDSTR})
  /\ Strings' = [Strings EXCEPT ![Pointed(Cell(1)) + 1] = @ \o String(Cell(0))]
  /\ Proceed(Drop(2))
  /\ UNCHANGED <<Objects, Buffers>>

(***************************************************************************)
(* Arrays, maps, bytes.  SETINDEX and SETMAP check the index before the    *)
(* right side is evaluated, the ASSIGNSET instructions use it after.       *)
(***************************************************************************)
InitArr ==
  /\ Dispatch({INITARR})
  /\ NewObject(Arr([k \in 1..W(1) |-> Cell(W(1) - k)]))
  /\ Proceed(Replace(W(1), Len(Objects)))
  /\ UNCHANGED <<Strings, Buffers>>

\* Of two equal keys the later one counts.
InitMap ==
  /\ Dispatch({INITMAP})
  /\ LET n      == W(1)
         key(k) == String(Cell(2 * (n - k) + 1))
         last   == {k \in 1..n : \A m \in k + 1..n : key(m) # key(k)}
     IN /\ NewObject(Map([p \in 1..Cardinality(last) |-> key(Nth(last, p))],
                         [p \in 1..Cardinality(last) |-> Cell(2 * (n - Nth(last, p)))]))
        /\ Proceed(Replace(2 * n, Len(Objects)))
  /\ UNCHANGED <<Strings, Buffers>>

\* Texts, and what print() makes of other values, go into an object as copies.
JsonValue(v, t) ==
  IF t \in {VObject, VObjList}
  THEN TreeVal(IF Obj(v).kind = "list" THEN "list" ELSE "map", Obj(v).tree)
  ELSE TextVal(PrintValue(v, t))
Taking(w) == [k \in 1..W(1) |-> JsonValue(Taken(k, w), TakenType(k, w))]

InitObj ==
  /\ Dispatch({INITOBJ})
  /\ NewObject(JsonObject("obj",
       SetAll([k \in 1..W(1) |-> String(Cell(3 * (W(1) - k) + 2))], Taking(3))))
  /\ Proceed(Replace(3 * W(1), Len(Objects)))
  /\ UNCHANGED <<Strings, Buffers>>

InitObjList ==
  /\ Dispatch({INITOBJLIST})
  /\ NewObject(JsonObject("list", ListOf(Taking(2))))
  /\ Proceed(Replace(2 * W(1), Len(Objects)))
  /\ UNCHANGED <<Strings, Buffers>>

Obj2List ==
  /\ Dispatch({OBJ2LIST})
  /\ NewObject(JsonObject("list", EachAlone(Obj(Cell(0)).tree)))
  /\ Proceed(Replace(1, Len(Objects)))
  /\ UNCHANGED <<Strings, Buffers>>

AppendArr ==
  /\ Dispatch({APPENDARR})
  /\ Objects' = [Objects EXCEPT ![Pointed(Cell(1)) + 1].items = Append(@, Cell(0))]
  /\ Proceed(Drop(2))
  /\ UNCHANGED <<Strings, Buffers>>

GetIndex ==
  /\ Dispatch({GETINDEX})
  /\ Proceed(Replace(2, LET o == Obj(Cell(1)) IN
       CASE o.kind = "arr"   -> o.items[Cell(0) + 1]
         [] o.kind = "bytes" -> Buffers[o.buf][Cell(0) + 1]
         [] OTHER -> Cell(1)))
  /\ UNCHANGED heap

GetMap ==
  /\ Dispatch({GETMAP})
  /\ Proceed(Replace(2, Obj(Cell(1)).items[At(Obj(Cell(1)), String(Cell(0)))]))
  /\ UNCHANGED heap

CheckIndex == Dispatch({SETINDEX, SETMAP}) /\ Proceed(act) /\ UNCHANGED heap

AssignSetArr ==
  /\ Dispatch({ASSIGNSETARR})
  /\ Objects' = [Objects EXCEPT ![Cell(2) + 1].items[Cell(1) + 1] = Cell(0)]
  /\ Proceed(Drop(3))
  /\ UNCHANGED <<Strings, Buffers>>

AssignSetMap ==
  /\ Dispatch({ASSIGNSETMAP})
  /\ LET o == Obj(Cell(2))
         t == String(Cell(1))
     IN Objects' = [Objects EXCEPT ![Cell(2) + 1] =
          IF HasKey(o, t) THEN [o EXCEPT !.items[At(o, t)] = Cell(0)]
          ELSE Map(Append(o.keys, t), Append(o.items, Cell(0)))]
  /\ Proceed(Drop(3))
  /\ UNCHANGED <<Strings, Buffers>>

AssignSetBytes ==
  /\ Dispatch({ASSIGNSETBYTES})
  /\ Buffers' = [Buffers EXCEPT ![Obj(Cell(2)).buf][Cell(1) + 1] = Cell(0)]
  /\ Proceed(Drop(3))
  /\ UNCHANGED <<Strings, Objects>>

\* Go's append writes behind the last byte if the backing array has room there,
\* and moves the bytes to a new backing array if not.
AssignAddBytes ==
  /\ Dispatch({ASSIGNADDBYTES})
  /\ LET ind == Pointed(Cell(1))
         old == Obj(ind)
         new == Content(Obj(Cell(0)))
         len == old.num + Len(new)
     IN \/ /\ old.num > 0 \/ new = <<>>
           /\ IF new = <<>> THEN UNCHANGED Buffers ELSE
                Buffers' = [Buffers EXCEPT ![old.buf] =
                              Content(old) \o new \o SubSeq(@, len + 1, Len(@))]
           /\ Objects' = [Objects EXCEPT ![ind + 1].num = len]
        \/ /\ new # <<>>
           /\ Buffers' = Append(Buffers, Content(old) \o new)
           /\ Objects' = [Objects EXCEPT ![ind + 1] = Bytes(Len(Buffers) + 1, len)]
  /\ Proceed(Drop(2))
  /\ UNCHANGED Strings

Copy ==
  /\ Dispatch({COPYSTR, COPY})
  /\ LET t == IF Op = COPYSTR THEN VStr ELSE W(1)
     IN /\ CopyInHeap(Cell(0), t)
        /\ Proceed(Replace(1, CopyIndex(Cell(0), t)))

(***************************************************************************)
(* Money: amounts are never changed in place.                              *)
(***************************************************************************)

\* Decimal.Div rounds, half away from zero; the other operations are exact.
Round(x, y) == LET q == (2 * Abs(x) + Abs(y)) \div (2 * Abs(y))
               IN IF (x < 0) = (y < 0) THEN q ELSE -q
MoneyArith(op, a, b) ==
  CASE op \in {ADDMONEY, ASSIGNADDMONEY} -> Money(a.num * b.den + b.num * a.den, a.den * b.den)
    [] op \in {SUBMONEY, ASSIGNSUBMONEY} -> Money(a.num * b.den - b.num * a.den, a.den * b.den)
    [] op \in {MULMONEY, ASSIGNMULMONEY} -> Money(a.num * b.num, a.den * b.den)
    [] op \in {DIVMONEY, ASSIGNDIVMONEY} ->
         Money(Round(a.num * b.den * MoneyUnit, a.den * b.num), MoneyUnit)
MoneyOrder(op, a, b) ==
  LET x == a.num * b.den
      y == b.num * a.den
  IN CASE op = EQMONEY -> x = y [] op = LTMONEY -> x < y [] op = GTMONEY -> x > y

ComputeMoney ==
  /\ Dispatch(MoneyBinary)
  /\ NewObject(MoneyArith(Op, Obj(Cell(1)), Obj(Cell(0))))
  /\ Proceed(Replace(2, Len(Objects)))
  /\ UNCHANGED <<Strings, Buffers>>

SignMoney ==
  /\ Dispatch({SIGNMONEY})
  /\ NewObject([Obj(Cell(0)) EXCEPT !.num = -@])
  /\ Proceed(Replace(1, Len(Objects)))
  /\ UNCHANGED <<Strings, Buffers>>

AssignMoney ==
  /\ Dispatch(MoneyAssign)
  /\ NewObject(MoneyArith(Op, Obj(Pointed(Cell(1))), Obj(Cell(0))))
  /\ Proceed(Store(Cell(1), Len(Objects), 2))
  /\ UNCHANGED <<Strings, Buffers>>

CompareMoney ==
  /\ Dispatch(MoneyCompare)
  /\ Proceed(Replace(2, Truth(MoneyOrder(Op, Obj(Cell(1)), Obj(Cell(0))))))
  /\ UNCHANGED heap

-----------------------------------------------------------------------------
(***************************************************************************)
(* Library functions (EMBEDFUNC).  The price of the function is taken off  *)
(* the gas counted so far.                                                 *)
(***************************************************************************)
Answer(v) == Proceed([Replace(Len(LibSig(W(1))), v) EXCEPT !.gas = @ - LibGas(W(1))])

\* What GetString, GetArray, GetMap and the tests find under a key of an object.
Json      == Obj(Cell(1)).tree
JsonFound == Under(Json, String(Cell(0))) # {}
JsonHeld  == Held(Json, String(Cell(0)))
JsonItems == {p \in 1..Len(JsonHeld.tree) : JsonHeld.tree[p].depth = 1}
JsonForm(form) == Truth(JsonFound /\ JsonHeld.form = form)

EmbedValue ==
  /\ Dispatch({EMBEDFUNC}) /\ W(1) \in LibValue
  /\ Answer(CASE W(1) = LenStr -> Len(String(Cell(0)))
              [] W(1) = IntStr -> Number(String(Cell(0)))
              [] W(1) = ContainsStr -> Truth(HasText(String(Cell(1)), String(Cell(0))))
              [] W(1) = HasPrefix -> Truth(HasPrefixAt(String(Cell(1)), String(Cell(0)), 1))
              [] W(1) = IsExists -> Truth(JsonFound)
              [] W(1) = IsStr -> JsonForm("text")
              [] W(1) = IsArray -> JsonForm("list")
              [] W(1) = IsMap -> JsonForm("map")
              [] OTHER -> ObjLen(Obj(Cell(0))))
  /\ UNCHANGED heap

LibAnswer ==
  CASE W(1) = StrInt   -> Sprint(Cell(0))
    [] W(1) = StrBool  -> SprintBool(Cell(0))
    [] W(1) = StrMoney -> SprintMoney(Obj(Cell(0)))
    [] W(1) = Join     -> LET items == Obj(Cell(1)).items IN
         Separated([k \in 1..Len(items) |-> String(items[k])], String(Cell(0)))
    [] W(1) = ReplaceStr -> Replaced(String(Cell(2)), String(Cell(1)), String(Cell(0)))
    [] W(1) = Substr  -> SubstrCut
    [] W(1) = JSONEncode -> MarshalTree(TreeVal("map", Obj(Cell(0)).tree))

EmbedText ==
  /\ Dispatch({EMBEDFUNC}) /\ W(1) \in LibText
  /\ NewString(LibAnswer)
  /\ Answer(Len(Strings))
  /\ UNCHANGED <<Objects, Buffers>>

\* The texts of the items of an array or the entries of a Map, in order.
JsonTexts == LET nth(m) == ValueAt(JsonHeld.tree, Nth(JsonItems, m))
             IN AsTexts([m \in 1..Cardinality(JsonItems) |-> SprintTree(nth(m))])
LibTexts ==
  CASE W(1) = Keys  -> SortedKeys(Obj(Cell(0)))
    [] W(1) = Split -> SplitBy(String(Cell(1)), String(Cell(0)))
    [] W(1) = GetArray -> IF ~JsonFound THEN <<>>
                          ELSE IF JsonHeld.form = "list" THEN JsonTexts
                          ELSE <<SprintTree(JsonHeld)>>
EmbedList ==
  /\ Dispatch({EMBEDFUNC}) /\ W(1) \in LibList
  /\ Strings' = Strings \o LibTexts
  /\ NewObject(Arr([k \in 1..Len(LibTexts) |-> Len(Strings) + k - 1]))
  /\ Answer(Len(Objects))
  /\ UNCHANGED Buffers

EmbedGetMap ==
  /\ Dispatch({EMBEDFUNC}) /\ W(1) = GetMapOf
  /\ LET texts == IF JsonFound /\ JsonHeld.form = "map" THEN JsonTexts ELSE <<>>
     IN /\ Strings' = Strings \o texts
        /\ NewObject(Map(AsTexts([k \in 1..Len(texts) |-> JsonHeld.tree[Nth(JsonItems, k)].key]),
                         [k \in 1..Len(texts) |-> Len(Strings) + k - 1]))
  /\ Answer(Len(Objects))
  /\ UNCHANGED Buffers

\* A key that is not there is answered with the first text of the heap, the empty
\* one that newRuntime put there for all to share.
EmbedGetString ==
  /\ Dispatch({EMBEDFUNC}) /\ W(1) = GetStr
  /\ IF JsonFound THEN NewString(SprintTree(JsonHeld)) /\ Answer(Len(Strings))
                  ELSE Answer(0) /\ UNCHANGED Strings
  /\ UNCHANGED <<Objects, Buffers>>

\* json.Unmarshal is the library's; ConvertMap leaves keys in order and texts.
EmbedDecode ==
  /\ Dispatch({EMBEDFUNC}) /\ W(1) = JSONDecode
  /\ \E t \in Documents : NewObject(JsonObject("obj", t))
  /\ Answer(Len(Objects))
  /\ UNCHANGED <<Strings, Buffers>>

EmbedObject ==
  /\ Dispatch({EMBEDFUNC}) /\ W(1) \in {MoneyInt, BytesStr}
  /\ IF W(1) = MoneyInt
     THEN NewObject(Money(Cell(0), 1)) /\ UNCHANGED Buffers
     ELSE /\ Buffers' = Append(Buffers, String(Cell(0)))
          /\ NewObject(Bytes(Len(Buffers) + 1, Len(String(Cell(0)))))
  /\ Answer(Len(Objects))
  /\ UNCHANGED Strings

(***************************************************************************)
(* Host functions (CUSTOMFUNC).  The host reports the price.               *)
(***************************************************************************)
HostFunc == prog.funcs[W(1) + 1]
HostArgs == Len(HostFunc.params)

CustomFunc ==
  /\ Dispatch({CUSTOMFUNC})
  /\ \E cost \in HostGas :
       \/ /\ HostFunc.result = VVoid
          /\ Proceed([Drop(HostArgs) EXCEPT !.gas = @ - cost])
          /\ UNCHANGED heap
       \/ \E v \in CASE HostFunc.result = VInt  -> HostInts
                     [] HostFunc.result = VBool -> {0, 1}
                     [] OTHER -> {} :
            /\ Proceed([Replace(HostArgs, v) EXCEPT !.gas = @ - cost])
            /\ UNCHANGED heap
       \/ /\ HostFunc.result = VStr
          /\ \E t \in HostTexts : NewString(t)
          /\ Proceed([Replace(HostArgs, Len(Strings)) EXCEPT !.gas = @ - cost])
          /\ UNCHANGED <<Objects, Buffers>>

-----------------------------------------------------------------------------
(***************************************************************************)
(* Contracts calling contracts.                                            *)
(***************************************************************************)

\* Of two values for one parameter the later one counts.
LoadPars ==
  /\ Dispatch({LOADPARS})
  /\ LET n == Len(act.params) \div 2
         given(k) == {j \in 1..n : act.params[2 * j - 1] = k - 1}
         last(k)  == CHOOSE j \in given(k) : \A m \in given(k) : m <= j
     IN Proceed([act EXCEPT !.Vars = [k \in DOMAIN act.Vars |->
          IF given(k) = {} THEN act.Vars[k] ELSE act.params[2 * last(k)]]])
  /\ UNCHANGED heap

\* The first parameter of a call marks the heap, to drop the copies after it.
ParContract ==
  /\ Dispatch({PARCONTRACT})
  /\ CopyInHeap(Cell(0), W(2))
  /\ LET v == CopyIndex(Cell(0), W(2)) IN
     Proceed([act EXCEPT !.stack[act.top] = v, !.top = @ - 1,
       !.pars   = @ \o <<W(1), v>>,
       !.counts = IF act.isParContract THEN @ ELSE Append(@, Mark),
       !.isParContract = TRUE])

\* gasLimit - gas, after CALLCONTRACT itself has been counted.
Remaining == act.limit - (act.gas + 1)

\* The caller waits with the slot of the result on top of its stack.  With a full
\* stack Run goes through the callee first and panics when it stores the result; here
\* it panics before the call.
CallContract ==
  /\ Dispatch({CALLCONTRACT})
  /\ LET callee == prog.contracts[W(1) + 1] IN
     /\ callers' = Append(callers, [act EXCEPT !.top = @ + 1, !.gas = @ + 1, !.i = @ + 2])
     /\ act' = Activation(W(1) + 1, act.pars, Remaining, Mark)
     /\ Strings' = Strings \o NewStrings(callee)
     /\ Objects' = Objects \o NewObjects(callee)
  /\ UNCHANGED <<prog, Buffers, status, result, error>>

\* Mutant: only the texts are given back.
CutTexts(m) == Strings' = SubSeq(Strings, 1, m.strings) /\ UNCHANGED <<Objects, Buffers>>
Cut(m) == /\ Strings' = SubSeq(Strings, 1, m.strings)
          /\ Objects' = SubSeq(Objects, 1, m.objects)
          /\ UNCHANGED Buffers

Caller   == callers[Len(callers)]
Suspended == SubSeq(callers, 1, Len(callers) - 1)
LastMark(a) == a.counts[Len(a.counts)]

\* Mutant: the mark of the parameters stays.
ResumedMarked(gas) == [Caller EXCEPT !.gas = @ - gas, !.pars = <<>>, !.isParContract = FALSE]
\* What CALLCONTRACT does in the caller when the callee is gone.
Resumed(gas) ==
  [Caller EXCEPT !.gas = @ - gas, !.pars = <<>>, !.isParContract = FALSE,
     !.counts = IF Caller.isParContract THEN SubSeq(@, 1, Len(@) - 1) ELSE @]

\* Run returns a text and the gas: the heap is cut back to where it began, then,
\* by a caller that passed parameters, to where their copies begin.
Leave(text, gas) ==
  IF callers = <<>>
  THEN /\ Cut(act.counts[1])
       /\ status' = "done" /\ result' = text
       /\ act' = [act EXCEPT !.gas = gas]
       /\ UNCHANGED <<prog, callers, error>>
  ELSE LET m == IF Caller.isParContract THEN LastMark(Caller) ELSE act.counts[1] IN
       /\ Strings' = Append(SubSeq(SubSeq(Strings, 1, act.counts[1].strings), 1, m.strings), text)
       /\ Objects' = SubSeq(SubSeq(Objects, 1, act.counts[1].objects), 1, m.objects)
       /\ act' = [Resumed(gas) EXCEPT !.stack[Caller.top] = m.strings]
       /\ callers' = Suspended
       /\ UNCHANGED <<prog, Buffers, status, result, error>>

Return ==
  /\ Dispatch({RETURN})
  /\ Leave(PrintValue(Cell(0), W(1)), act.gas + 1)

FallOff ==
  /\ status = "running" /\ act.i >= Len(cnt.code)
  /\ Leave(<<>>, act.gas)

-----------------------------------------------------------------------------
(***************************************************************************)
(* Errors.  Run returns the error with its gas, after cutting the heap;    *)
(* each caller in turn subtracts the gas, cuts its own part and returns.   *)
(***************************************************************************)
Abort(kind, gas) ==
  /\ Cut(act.counts[1])
  /\ status' = IF callers = <<>> THEN "error" ELSE "unwinding"
  /\ error' = kind
  /\ act' = [act EXCEPT !.gas = gas]
  /\ UNCHANGED <<prog, callers, result>>

OutOfGas ==
  /\ status = "running" /\ act.i < Len(cnt.code) /\ act.gas >= act.limit
  /\ Abort("errGasLimit", act.gas + 1)

Fail ==
  /\ Paid /\ Supported /\ Sound /\ Failure # "none"
  /\ Abort(Failure, IF Op = EMBEDFUNC THEN act.gas + 1 - LibGas(W(1)) ELSE act.gas + 1)

\* The host function itself fails, or has a result Run cannot take over.
HostError ==
  /\ Dispatch({CUSTOMFUNC})
  /\ \E cost \in HostGas :
       Abort(IF HostFunc.result \in {VVoid, VInt, VBool, VStr} THEN "errHost"
             ELSE "errRetType", act.gas + 1 - cost)

\* A text that is no JSON object.
DecodeError ==
  /\ Dispatch({EMBEDFUNC}) /\ W(1) = JSONDecode
  /\ Abort("errJSON", act.gas + 1 - LibGas(JSONDecode))

Unwind ==
  /\ status = "unwinding"
  /\ LET m == IF Caller.isParContract THEN LastMark(Caller) ELSE Caller.counts[1] IN
     /\ Strings' = SubSeq(SubSeq(Strings, 1, m.strings), 1, Caller.counts[1].strings)
     /\ Objects' = SubSeq(SubSeq(Objects, 1, m.objects), 1, Caller.counts[1].objects)
  /\ act' = Resumed(act.gas)
  /\ callers' = Suspended
  /\ status' = IF Suspended = <<>> THEN "error" ELSE "unwinding"
  /\ UNCHANGED <<prog, Buffers, result, error>>

\* An index out of range or a failed type assertion.
GoPanic ==
  /\ status = "running" /\ act.gas < act.limit
  /\ act.i < 0 \/ (Fetching /\ Supported /\ ~Sound)
  /\ status' = "panic"
  /\ UNCHANGED <<prog, act, callers, heap, result, error>>

Finished == status \in Final /\ UNCHANGED vars

-----------------------------------------------------------------------------
(***************************************************************************)
(* vm.Run has loaded the environment and the parameters, and calls Run.    *)
(***************************************************************************)
Base == [strings |-> Len(prog.strings), objects |-> Len(prog.objects)]
Begin ==
  /\ Strings = prog.strings \o NewStrings(prog.contracts[prog.main])
  /\ Objects = prog.objects \o NewObjects(prog.contracts[prog.main])
  /\ Buffers = prog.buffers
  /\ act = Activation(prog.main, prog.params, prog.gas, Base)
  /\ callers = <<>>
  /\ status = "running" /\ result = <<>> /\ error = "none"
Init == prog \in Programs /\ Begin

Numbers   == Compute \/ Negate \/ Not \/ AssignInt \/ AssignCompute
Stacking  == Push16 \/ Push32 \/ Push64 \/ PushStr \/ Dup \/ GetVar \/ SetVar \/ Env
Jumping   == Jmp \/ JmpRel \/ JumpIf \/ CallFunc \/ GetParams \/ RetFunc
Texts     == AddStr \/ EqStr \/ AssignStr \/ AssignAddStr
Structures == InitArr \/ InitMap \/ InitObj \/ InitObjList \/ Obj2List \/ AppendArr \/ GetIndex \/ GetMap \/ CheckIndex
  \/ AssignSetArr \/ AssignSetMap \/ AssignSetBytes \/ AssignAddBytes \/ Copy
Amounts   == ComputeMoney \/ SignMoney \/ AssignMoney \/ CompareMoney
Calling   == EmbedValue \/ EmbedText \/ EmbedList \/ EmbedObject \/ EmbedGetString
  \/ EmbedGetMap \/ EmbedDecode \/ CustomFunc
Contracts == LoadPars \/ ParContract \/ CallContract \/ Return \/ FallOff
Errors    == OutOfGas \/ Fail \/ HostError \/ DecodeError \/ Unwind \/ GoPanic

Next == \/ Stacking \/ Numbers \/ Jumping \/ Texts \/ Structures \/ Amounts
        \/ Calling \/ Contracts \/ Errors \/ Finished

Spec == Init /\ [][Next]_vars
\* Run is a plain Go loop on the goroutine of its caller.
FairSpec == Spec /\ WF_vars(Next)
=============================================================================
