---------------------------------- MODULE VM ----------------------------------
(***************************************************************************)
(* vm.go: the registry of contracts, and what Run prepares before it hands *)
(* a contract to the interpreter.                                          *)
(***************************************************************************)
EXTENDS Compiler

NewVM(env, funcs) == [contracts |-> <<>>, env |-> env, funcs |-> funcs]

\* A contract that does not compile, or whose name is taken, is not linked.
Link(vm, cnt) ==
  IF cnt.err # "none" \/ \E k \in 1..Len(vm.contracts) : vm.contracts[k].name = cnt.name
  THEN vm ELSE [vm EXCEPT !.contracts = Append(@, cnt)]
LoadContract(vm, source) == Link(vm, Compile(vm, source))
RECURSIVE LoadAll(_, _)
LoadAll(vm, sources) ==
  IF sources = <<>> THEN vm ELSE LoadAll(LoadContract(vm, Head(sources)), Tail(sources))

\* The sequence f: TLC computes its items once, and not at every use.
Table(f) == SubSeq(f, 1, Len(f))

(***************************************************************************)
(* Run: the values of the environment and of the parameters go to the heap *)
(* of a new Runtime, whose Strings starts with one empty string.  A value  *)
(* is given as [type, v], where v is a number, a truth value as 0 or 1, or *)
(* a sequence of bytes.                                                    *)
(***************************************************************************)
NewRuntime == [strings |-> << <<>> >>, objects |-> <<>>, buffers |-> <<>>, cells |-> <<>>]
HeapObject(kind, num, buf) ==
  [kind |-> kind, items |-> <<>>, keys |-> <<>>, num |-> num, den |-> 1, buf |-> buf, tree |-> <<>>]

Take(rt, d) ==
  CASE d.type = VStr ->
         [rt EXCEPT !.strings = Append(@, d.v), !.cells = Append(@, Len(rt.strings))]
    [] d.type = VMoney ->
         [rt EXCEPT !.objects = Append(@, HeapObject("money", d.v, 0)),
                    !.cells = Append(@, Len(rt.objects))]
    [] d.type = VBytes ->
         [rt EXCEPT !.buffers = Append(@, d.v), !.cells = Append(@, Len(rt.objects)),
                    !.objects = Append(@, HeapObject("bytes", Len(d.v), Len(rt.buffers) + 1))]
    [] OTHER -> [rt EXCEPT !.cells = Append(@, d.v)]
RECURSIVE TakeAll(_, _)
TakeAll(rt, ds) == IF ds = <<>> THEN rt ELSE TakeAll(Take(rt, Head(ds)), Tail(ds))

\* The program of Runtime for a run of the contract name with the values env and
\* given, the latter by the position of the parameter; parameters of the
\* contract that are not given keep what their defaults assigned.
Prepare(vm, name, env, given, gas) ==
  LET main == CHOOSE k \in 1..Len(vm.contracts) : vm.contracts[k].name = name
      e == TakeAll(NewRuntime, env)
      p == TakeAll(e, [k \in 1..Len(given) |-> given[k].value])
  IN [contracts |-> Table([k \in 1..Len(vm.contracts) |->
                             [code |-> vm.contracts[k].code, vars |-> Table(vm.contracts[k].vars)]]),
      main |-> main, strings |-> p.strings, objects |-> p.objects, buffers |-> p.buffers,
      params |-> Table([k \in 1..2 * Len(given) |->
                          IF k % 2 = 1 THEN given[(k + 1) \div 2].index
                          ELSE p.cells[Len(env) + k \div 2]]),
      env |-> SubSeq(p.cells, 1, Len(env)), gas |-> gas,
      funcs |-> Table([k \in 1..Len(vm.funcs) |->
                         [params |-> vm.funcs[k].params, result |-> vm.funcs[k].result]])]
=============================================================================
