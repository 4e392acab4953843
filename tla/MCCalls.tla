-------------------------------- MODULE MCCalls --------------------------------
(***************************************************************************)
(* Contracts that call contracts three deep, with and without parameters,  *)
(* in a loop, in the parameters of a call, after one another; with a       *)
(* failure at the bottom, and with a gas limit that runs out anywhere.     *)
(***************************************************************************)
EXTENDS RuntimeSafety, VM, Syntax

A == Str(<<97>>)
B == Str(<<98>>)
n == Get("n")
s == Get("s")
l == Get("l")
ArrStr   == TypeOf(VArr, VStr)
MapMoney == TypeOf(VMap, VMoney)

\* Changes everything it was given, and fails for n = 0.
Leaf == Source("leaf", <<Default(VInt, "n", Num(2)), Var(VStr, "s"), Var(ArrStr, "l"),
                         Var(MapMoney, "m"), Var(VMoney, "x")>>,
  << Assign("s", "+=", B), Assign("l", "+=", s), AssignAt("l", <<Num(0)>>, B),
     AssignAt("m", <<A>>, Get("x")),
     Assign("x", "+=", Call("money", <<Bin(Num(6), "/", n)>>)),
     ReturnOf(Bin(s, "+", Call("str", <<Get("x")>>))) >>)

\* Has no parameters, so that its call marks nothing; ends without return.
Quiet == Source("quiet", <<>>,
  << Define(ArrStr, "l", List(<<A, B>>)), Assign("l", "+=", Call("Join", <<l, A>>)) >>)

Mid == Source("mid", <<Var(VInt, "n"), Var(VStr, "s"), Var(ArrStr, "l")>>,
  << Assign("s", "+=", Contr("quiet", <<>>)),
     Assign("l", "+=", Contr("leaf", <<Given("s", s), Given("l", l),
                                       Given("n", Bin(n, "-", Num(1)))>>)),
     ReturnOf(Call("Join", <<l, Contr("quiet", <<>>)>>)) >>)

\* Calls on two levels, after one another; n = 1 makes the deepest one fail.
Deep == Source("deep", <<Var(VInt, "n"), Var(VStr, "s")>>,
  << Define(ArrStr, "l", List(<<s>>)),
     Define(VMoney, "x", Call("money", <<Num(3)>>)),
     Define(MapMoney, "m", Dict(<<Pair(<<98>>, Get("x"))>>)),
     Assign("s", "=", Contr("mid", <<Given("n", n), Given("l", l), Given("s", s)>>)),
     Assign("l", "+=", Contr("leaf", <<Given("m", Get("m")), Given("x", Get("x"))>>)),
     ReturnOf(l) >>)

\* Calls in a loop, in the parameters of a call, and in a function; n = 2 fails.
Wide == Source("wide", <<Var(VInt, "n"), Var(VStr, "s")>>,
  << Func("f", <<Var(VStr, "y")>>, VStr, <<ReturnOf(Contr("leaf", <<Given("s", Get("y"))>>))>>),
     ForInt("i", Num(0), n,
       << Assign("s", "=", Contr("leaf", <<Given("s", Contr("leaf", <<Given("s", s)>>)),
                                           Given("n", Bin(Num(2), "-", Get("i")))>>)) >>),
     ReturnOf(Call("f", <<s>>)) >>)

VM1 == LoadAll(NewVM(<<>>, <<>>), <<Leaf, Quiet, Mid, Deep, Wide>>)
Data(k) == <<[index |-> 0, value |-> [type |-> VInt, v |-> k]],
             [index |-> 1, value |-> [type |-> VStr, v |-> <<97>>]]>>
GasLimits == {7 * k : k \in 1..20} \cup {500}
CallPrograms == {Prepare(VM1, name, <<>>, Data(k), gas) :
                 name \in {"deep", "wide"}, k \in {1, 2}, gas \in GasLimits}
=============================================================================
