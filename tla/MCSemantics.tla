----------------------------- MODULE MCSemantics -----------------------------
(***************************************************************************)
(* The compiler and the interpreter against the semantics: every contract  *)
(* of a family that nests and combines the control structures.             *)
(***************************************************************************)
EXTENDS CodeTypes, VM, Syntax, Semantics

VARIABLE expected   \* what the contract means
varsMC == <<vars, expected>>

Gas == 2000
t == Get("t")
i == Get("i")
T0(e) == Assign("t", "=", e)
Add(k) == Assign("t", "+=", Num(k))

Conds == {Bin(i, "==", Num(2)), Bin(t, "!=", Num(5)), Un("!", Bin(i, ">=", Num(2))),
          Bin(Bin(Bin(t, "%", Num(2)), "==", Num(1)), "&&", Bin(i, "<=", Num(2))),
          Bin(Bin(i, "==", Num(1)), "||", Bin(Bin(Num(6), "/", Bin(t, "-", Num(2))), ">", Num(1)))}
Simple == {<<Add(1)>>, <<Assign("t", "*=", Num(2)), Assign("t", "-=", Num(1))>>,
           <<T0(Quest(Bin(t, ">", Num(1)), Bin(t, "-", i), Num(3)))>>}
Leaving == {<<Break>>, <<Continue>>, <<ReturnOf(t)>>}

\* Statements around the bodies x and y, with the condition c.
Branch(c, x, y) ==
  {<<If(c, x)>>, <<IfElse(<<Arm(c, x)>>, y)>>,
   <<IfElse(<<Arm(Bin(i, "==", Num(2)), y), Arm(c, x)>>, y)>>,
   <<Switch(t, <<Case(<<Num(1)>>, x), Case(<<Num(2), Bin(i, "+", Num(1))>>, y)>>, <<Add(2)>>)>>}
Around(body) ==
  {<<Assign("i", "=", Num(0)), While(Bin(i, "<", Num(3)), <<Assign("i", "+=", Num(1))>> \o body)>>,
   <<ForInt("j", Num(1), Num(2), <<Assign("i", "=", Get("j"))>> \o body)>>,
   <<ForKey("x", "k", List(<<Num(1), Num(3)>>), <<Assign("i", "=", Get("x"))>> \o body)>>}

Branches == UNION {Branch(c, x, <<Add(5)>>) : c \in Conds, x \in Simple}
Loops == UNION {Around(b \o <<T0(Bin(Bin(t, "*", Num(3)), "+", i))>>) : b \in
           UNION {Branch(c, x, <<Add(3)>>) : c \in Conds, x \in Leaving \cup {<<Add(7)>>}}}

\* Functions: with an early return, with an effect on a variable of the contract.
x == Get("x")
FuncBodies == {<<ReturnOf(Bin(x, "+", t))>>,
               <<If(Bin(x, ">", Num(2)), <<ReturnOf(Num(1))>>), ReturnOf(Bin(x, "*", Num(2)))>>,
               <<Assign("t", "+=", x), ReturnOf(t)>>,
               <<ReturnOf(Bin(Num(6), "/", Bin(x, "-", Num(2))))>>}
f(e) == Call("f", <<e>>)
FuncUses == {<<T0(f(Num(2)))>>, <<Assign("t", "+=", f(f(Num(1))))>>,
             <<T0(Bin(Bin(t, "+", f(t)), "*", f(Num(3))))>>, <<f(Num(3)), f(i)>>,
             <<If(Bin(f(i), "<", f(Num(3))), <<Add(7)>>)>>,
             <<ForInt("j", Num(1), f(Num(1)), <<T0(f(Get("j")))>>)>>}
Func1(b) == Func("f", <<Var(VInt, "x")>>, VInt, b)
\* A function that calls it twice.
Func2 == Func("g", <<Var(VInt, "y")>>, VInt,
  <<Assign("t", "+=", f(Get("y"))), ReturnOf(Bin(Get("y"), "*", f(Bin(Get("y"), "+", Num(1)))))>>)
Nested == {<<Func1(b), Func2, Assign("t", "+=", Bin(i, "+", Call("g", <<Num(n)>>)))>> :
             b \in FuncBodies, n \in {0, 2}}
Functions == {<<Func1(b)>> \o u : b \in FuncBodies, u \in FuncUses} \cup Nested

\* Arrays and texts, with indices in and out of range.
ArrInt == TypeOf(VArr, VInt)
l == Get("l")
Arrays == {<<Define(ArrInt, "l", List(<<Num(1), t>>)), Assign("l", "+=", Bin(i, "+", Num(k)))>> \o u :
  k \in {0, 1},
  u \in {<<AssignAt("l", <<i>>, Num(9)), T0(Item("l", <<Item("l", <<Num(0)>>)>>))>>,
         <<T0(Item("l", <<Item("l", <<Num(2)>>)>>)), ReturnOf(l)>>,
         <<AssignAt("l", <<Num(3)>>, Bin(Num(6), "/", Num(0)))>>,
         <<AssignAt("l", <<Num(2)>>, Bin(Num(6), "/", Bin(t, "-", Num(1))))>>,
         <<ForKey("x", "k", l, <<Assign("t", "+=", Bin(Get("x"), "*", Get("k"))),
                                 AssignAt("l", <<Get("k")>>, t)>>), ReturnOf(l)>>}}
str == Get("s")
Strings0 == {<<Define(VStr, "s", Str(<<97>>)), Assign("s", "+=", Call("str", <<t>>))>> \o u :
  u \in {<<T0(Call("Len", <<Bin(str, "+", str)>>))>>, <<ReturnOf(Bin(str, "+", Str(<<98>>)))>>,
         <<Define(VStr, "r", str), Assign("s", "+=", str), ReturnOf(Bin(Get("r"), "+", str))>>,
         <<Switch(str, <<Case(<<Str(<<97>>), Str(<<>>)>>, <<Add(1)>>)>>, <<Add(2)>>),
           ReturnOf(Bin(str, "!=", Str(<<97>>)))>>}}

\* Objects, made, changed to lists and looked into; Substr with any offset and length.
ka == <<97>>
kb == <<98>>
o == Get("o")
Values0 == {Get("t"), Bin(i, "==", Num(1)), Str(<<97, 32>>), JObject(<<Keyed(kb, Str(<<98, 32>>))>>),
          JArray(<<t, JObject(<<Keyed(ka, Str(<<>>)), Keyed(kb, JArray(<<i>>))>>), Str(kb)>>)}
Around0 == {JObject(<<Keyed(ka, e), Keyed(kb, d), Keyed(ka, d)>>) : e \in {Num(7)}, d \in Values0}
  \cup {JObject(<<Keyed(ka, JList(<<Keyed(kb, d), Keyed(ka, JArray(<<d>>))>>)), Keyed(kb, d)>>) : d \in Values0}
Look(name, e, k) == Call(name, <<e, Str(k)>>)
Objects0 == {<<Define(VObject, "o", e)>> \o u : e \in Around0,
  u \in {<<ReturnOf(o)>>, <<ReturnOf(Call("JSONEncode", <<o>>))>>,
         <<ForKey("x", "k", Look("GetArray", o, ka),
             <<Assign("o", "=", JObject(<<Keyed(ka, o), Keyed(kb, Get("x"))>>))>>),
           ReturnOf(Look("GetString", o, ka))>>,
         <<If(Look("IsArray", o, ka), <<Add(1)>>), If(Look("IsMap", o, kb), <<Add(2)>>),
           If(Look("IsString", o, kb), <<Add(4)>>), If(Look("IsExists", o, <<99>>), <<Add(8)>>)>>,
         <<ReturnOf(Bin(Look("GetString", o, ka), "+", Look("GetString", o, <<99>>)))>>}}
Parts == {<<ReturnOf(Call("Substr", <<Str(<<97, 98, 99>>), Bin(i, "+", m), n>>))>> :
            m \in {Un("-", Num(2))} \cup {Num(k) : k \in 0..2},
            n \in {Num(k) : k \in 0..3} \cup {Un("-", Num(k)) : k \in 1..3}}

\* Contracts that call contracts, one of which may fail.
Leaf == Source("leaf", <<Default(VInt, "n", Num(2)), Var(VStr, "s")>>,
  <<Assign("s", "+=", Str(<<98>>)),
    ReturnOf(Bin(str, "+", Call("str", <<Bin(Num(6), "/", Get("n"))>>)))>>)
Twice == Source("twice", <<Var(VInt, "n")>>,
  <<Define(VStr, "s", Contr("leaf", <<Given("n", Get("n"))>>)),
    ReturnOf(Contr("leaf", <<Given("s", str), Given("n", Bin(Get("n"), "-", Num(1)))>>))>>)
Calls == {<<Define(VStr, "s", Str(<<97>>))>> \o u \o <<ReturnOf(str)>> :
  u \in {<<Assign("s", "=", Contr("leaf", <<>>))>>,
         <<Assign("s", "+=", Contr("leaf", <<Given("s", Contr("leaf", <<Given("n", Num(3))>>)),
                                            Given("n", t)>>))>>,
         <<ForInt("j", Num(1), Num(2), <<Assign("s", "=", Contr("leaf", <<Given("s", str)>>))>>)>>,
         <<ForInt("j", Num(0), Num(2),
             <<Assign("s", "=", Contr("twice", <<Given("n", Bin(Num(3), "-", Get("j")))>>))>>)>>,
         <<Contr("leaf", <<Given("s", str)>>), Assign("s", "+=", Str(<<99>>))>>}}

MainOf(t0, ss) == Source("main", <<>>,
  <<Define(VInt, "t", Num(t0)), Define(VInt, "i", Num(1))>> \o ss \o <<Add(100), ReturnOf(t)>>)
MCSources == {MainOf(t0, ss) : t0 \in {1, 2},
  ss \in Branches \cup Loops \cup Functions \cup Arrays \cup Strings0 \cup Objects0 \cup Parts \cup Calls}
MCHostTexts == {}
MCDocuments == {}

ProgramOf(source) == Prepare(LoadAll(NewVM(<<>>, <<>>), <<Leaf, Twice, source>>), source.name, <<>>, <<>>, Gas)
MCPrograms == {ProgramOf(source) : source \in MCSources}

InitMC == \E source \in MCSources :
  /\ prog = ProgramOf(source)
  /\ expected = Meaning(source, <<>>, {Leaf, Twice})
  /\ Begin
NextMC == Next /\ UNCHANGED expected
SpecMC == InitMC /\ [][NextMC]_varsMC

Meets == /\ status = "done" => expected.flow = "return" /\ result = expected.val.v
         /\ status = "error" => expected.flow = "error" /\ error = expected.val
         /\ status # "panic"
=============================================================================
