------------------------------ MODULE MCFindings ------------------------------
(***************************************************************************)
(* Contracts on which the code does not do what a test, a comment or a     *)
(* note of the repository says.  Each configuration runs one of them       *)
(* against one property, and the property fails.                           *)
(***************************************************************************)
EXTENDS CodeSafety, VM, Syntax

Of(sources, gas) ==
  LET vm == LoadAll(NewVM(<<>>, <<>>), sources)
  IN {Prepare(vm, sources[Len(sources)].name, <<>>, <<>>, gas)}
MCHostTexts == {}
MCDocuments == {}

\* tests/default_test:1398-1406.
MyparFunc == Of(<<Source("myparFunc", <<>>,
  << Declare(VInt, "c"),
     Func("name_int", <<Var(VInt, "a"), Var(VInt, "b")>>, VInt,
       << Assign("c", "+=", Num(1)),
          ReturnOf(Bin(Bin(Bin(Get("b"), "-", Get("a")), "+", Num(1)), "*", Get("c"))) >>),
     ReturnOf(Bin(Call("name_int", <<Num(3), Num(4)>>), "+",
                  Call("name_int", <<Num(1), Num(4)>>))) >>)>>, 200)
\* The test expects 10: the first parameter of a function gets the first value
\* of the call (GETPARAMS).
MyparFuncIsTen == status = "done" => result = Sprint(10)

\* A call of a function on the right of &&.
Guarded == Of(<<Source("guarded", <<>>,
  << Func("f", <<Var(VInt, "x")>>, VInt, << ReturnOf(Bin(Get("x"), "+", Num(1))) >>),
     If(Bin(Bin(Num(1), "==", Num(1)), "&&", Bin(Call("f", <<Num(3)>>), "==", Num(4))),
        <<ReturnOf(Num(5))>>),
     ReturnOf(Num(6)) >>)>>, 200)
\* The comment in Run says that GETPARAMS is the instruction behind CALLFUNC.  The code
\* of the right side moves when the jump of && comes in front of it, and the offsets of
\* the calls inside stay what they were.
CallsFindParams == \A k \in DOMAIN act.calls : cnt.code[EntryOf(act.calls[k]) + 1] = GETPARAMS

\* tests/default_test:1509-1518.
Divided(k) == Bin(Num(k), "/", Num(0))
MyORAND == Of(<<Source("myORAND", <<>>,
  << Define(VBool, "b", Bin(Bin(Num(10), ">", Num(1)), "||", Bin(Divided(2), "==", Num(3)))),
     If(Un("!", Get("b")), <<ReturnOf(Bool(FALSE))>>),
     Assign("b", "=", Bin(Bin(Get("b"), "&&", Bin(Num(1), ">", Num(5))), "&&",
                          Bin(Divided(6), "==", Num(7)))),
     Assign("b", "=", Bin(Bin(Un("!", Get("b")), "&&", Bool(TRUE)), "&&",
                          Bin(Num(5), "==", Num(5)))),
     ReturnOf(Get("b")) >>)>>, 200)
\* The test expects true; the comment in Run says that the tables of strings and
\* variables keep the same length.  No bool has a place in Vars.
MyORANDIsTrue == status \in Final => status = "done" /\ result = SprintBool(1)

\* A function with a loop, called while its caller has values on the stack.
Clobber == Of(<<Source("clobber", <<>>,
  << Func("f", <<Var(VInt, "x")>>, VInt,
       << While(Bin(Get("x"), "<", Num(2)), <<Assign("x", "+=", Num(1))>>), ReturnOf(Get("x")) >>),
     ReturnOf(Bin(Num(7), "*", Bin(Num(8), "+", Call("f", <<Num(1)>>)))) >>)>>, 200)

\* An endless loop that calls a library function.
Endless == Of(<<Source("endless", <<>>,
  << Declare(TypeOf(VMap, VInt), "m"), While(Bool(TRUE), <<Call("Len", <<Get("m")>>)>>) >>)>>, 200)
\* hard_test, contract Over: an endless loop ends with "gas is over".
GasIsOver == <>(status = "error")
=============================================================================
