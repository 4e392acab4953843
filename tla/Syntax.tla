-------------------------------- MODULE Syntax --------------------------------
(***************************************************************************)
(* Constructors for the syntax trees the grammar of parser.y builds, so    *)
(* that the contracts of the model-checking modules read like contracts.   *)
(***************************************************************************)
EXTENDS Bytecode

Str(t)         == [n |-> "str", v |-> t]
Num(v)         == [n |-> "int", v |-> v]
Long(words)    == [n |-> "wide", words |-> words]   \* an int beyond 32 bits, in 16-bit words
Bool(b)        == [n |-> "bool", v |-> b]
Get(x)         == [n |-> "get", name |-> x]
Bin(l, op, r)  == [n |-> "bin", op |-> op, l |-> l, r |-> r]
Un(op, e)      == [n |-> "un", op |-> op, e |-> e]
Quest(c, l, r) == [n |-> "quest", c |-> c, l |-> l, r |-> r]
Call(f, args)  == [n |-> "call", name |-> f, args |-> args]
Item(x, ix)    == [n |-> "index", name |-> x, ix |-> ix]
List(es)       == [n |-> "arr", es |-> es]
Pair(t, e)     == [key |-> t, e |-> e]
Dict(pairs)    == [n |-> "map", pairs |-> pairs]
Keyed(t, e)    == [key |-> <<t>>, e |-> e]
JObject(items) == [n |-> "obj", items |-> items]
JArray(es)     == [n |-> "objarr", items |-> [k \in 1..Len(es) |-> [key |-> <<>>, e |-> es[k]]]]
JList(items)   == [n |-> "objlist", obj |-> JObject(items)]
EnvOf(x)       == [n |-> "env", name |-> x]
Given(x, e)    == [name |-> x, e |-> e]
Contr(c, args) == [n |-> "contract", name |-> c, args |-> args]

Var(type, x)      == [name |-> x, type |-> type, exp |-> <<>>]
Declare(type, x)  == [n |-> "vars", list |-> <<Var(type, x)>>]
DeclareAll(vs)    == [n |-> "vars", list |-> vs]
Assign(x, op, e)  == Bin([n |-> "set", name |-> x], op, e)
Define(type, x, e) == Bin(Declare(type, x), "=", e)
AssignAt(x, ix, e) == Bin(Item(x, ix), "=", e)
Default(type, x, e) == [name |-> x, type |-> type, exp |-> <<Assign(x, "=", e)>>]

Block(ss)        == [n |-> "block", pars |-> <<>>, body |-> ss]
ReturnOf(e)      == [n |-> "return", e |-> <<e>>]
ReturnVoid       == [n |-> "return", e |-> <<>>]
While(c, ss)     == [n |-> "while", c |-> c, body |-> Block(ss)]
Arm(c, ss)       == [c |-> c, body |-> Block(ss)]
IfElse(arms, ss) == [n |-> "if", arms |-> arms, other |-> IF ss = <<>> THEN <<>> ELSE <<Block(ss)>>]
If(c, ss)        == IfElse(<<Arm(c, ss)>>, <<>>)
Case(es, ss)     == [es |-> es, body |-> Block(ss)]
Switch(e, cases, ss) ==
  [n |-> "switch", e |-> e, cases |-> cases, other |-> IF ss = <<>> THEN <<>> ELSE <<Block(ss)>>]
For(x, e, ss)    == [n |-> "for", key |-> "", var |-> x, e |-> e, body |-> ss]
ForKey(x, k, e, ss) == [n |-> "for", key |-> k, var |-> x, e |-> e, body |-> ss]
ForInt(x, from, to, ss) == [n |-> "forint", var |-> x, from |-> from, to |-> to, body |-> ss]
Break            == [n |-> "break"]
Continue         == [n |-> "continue"]
Func(f, pars, result, ss) ==
  [n |-> "func", name |-> f, pars |-> pars, result |-> result, body |-> Block(ss)]

Source(name, pars, ss) ==
  [name |-> name, read |-> FALSE, block |-> [n |-> "block", pars |-> pars, body |-> ss]]
=============================================================================
