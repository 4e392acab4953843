--------------------------------- MODULE MCGas ---------------------------------
(***************************************************************************)
(* Contracts that would run for ever: gas is what stops them.  None of     *)
(* them calls a library function, a host function or a contract.           *)
(***************************************************************************)
EXTENDS RuntimeSafety, VM, Syntax

t == Get("t")
One == Num(1)
Begins(ss) == <<Define(VInt, "t", One)>> \o ss

\* hard_test, contract Over, with a sum that comes round.
Over == Source("over", <<>>, Begins(<<
  While(Bool(TRUE), <<Assign("t", "+=", One), Assign("t", "%=", Num(3))>>), ReturnOf(t)>>))
\* The bound of the loop keeps its distance.
Chase == Source("chase", <<>>, Begins(<<ForInt("i", One, Num(2), <<Assign("i", "-=", One)>>)>>))
\* continue skips what would end the loop.
Skip == Source("skip", <<>>, Begins(<<
  While(Bin(t, ">", Num(0)), <<If(Bin(t, "==", One), <<Continue>>), Assign("t", "-=", One)>>)>>))
\* A loop within a function, and around its call.
Within == Source("within", <<>>, Begins(<<
  Func("f", <<>>, VVoid, <<While(Bin(t, "<", Num(3)), <<Assign("t", "*=", t)>>)>>), Call("f", <<>>)>>))
Again == Source("again", <<>>, Begins(<<
  Func("f", <<Var(VInt, "x")>>, VInt, <<ReturnOf(Bin(Get("x"), "%", Num(2)))>>),
  While(Bin(t, "!=", Num(2)), <<Assign("t", "=", Call("f", <<t>>))>>)>>))
\* Results nobody takes off the stack: the interpreter panics.
Pile == Source("pile", <<>>,
  <<Func("f", <<>>, VInt, <<ReturnOf(One)>>)>> \o [k \in 1..StackSize |-> Call("f", <<>>)])
\* Stops by itself.
Closes == Source("ends", <<>>, Begins(<<While(Bin(t, "<", Num(9)), <<Assign("t", "+=", t)>>), ReturnOf(t)>>))

Alone(source, gas) == Prepare(LoadAll(NewVM(<<>>, <<>>), <<source>>), source.name, <<>>, <<>>, gas)
LoopPrograms == {Alone(source, gas) : source \in {Over, Chase, Skip, Within, Again, Pile, Closes},
                                      gas \in {0, 1, 10, 37, 90}}
=============================================================================
