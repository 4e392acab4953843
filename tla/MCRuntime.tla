------------------------------ MODULE MCRuntime ------------------------------
(***************************************************************************)
(* Contracts that use every instruction of module Runtime, compiled by     *)
(* module Compiler, with those that call one another and those that loop.  *)
(***************************************************************************)
EXTENDS CodeTypes, MCCalls, MCGas

a == <<97>>
b == <<98>>
c == <<99>>
ArrInt == TypeOf(VArr, VInt)
MapInt == TypeOf(VMap, VInt)
MapStr == TypeOf(VMap, VStr)

EnvItems  == <<[name |-> "block", type |-> VInt], [name |-> "owner", type |-> VStr]>>
HostFuncs == <<[name |-> "Touch", params |-> <<VInt>>, result |-> VVoid, read |-> FALSE],
               [name |-> "Rate", params |-> <<>>, result |-> VInt, read |-> TRUE],
               [name |-> "Known", params |-> <<VStr>>, result |-> VBool, read |-> TRUE],
               [name |-> "Label", params |-> <<VInt>>, result |-> VStr, read |-> TRUE]>>
EnvData   == <<[type |-> VInt, v |-> 7], [type |-> VStr, v |-> a]>>
VM0       == NewVM(EnvItems, HostFuncs)

\* Linked before each contract below.
Callee == Source("callee", <<Default(VInt, "n", Num(2)), Var(VStr, "s"), Var(ArrInt, "l")>>,
  << AssignAt("l", <<Num(0)>>, Get("n")),
     Assign("s", "+=", Str(b)),
     ReturnOf(Bin(Get("s"), "+", Call("str", <<Item("l", <<Num(0)>>)>>))) >>)

Sum == Source("sum", <<>>,
  << Define(VInt, "t", Num(0)),
     ForInt("i", Num(1), Num(3),
       <<If(Bin(Get("i"), "==", Num(2)), <<Continue>>), Assign("t", "+=", Get("i"))>>),
     While(Bin(Get("t"), "<", Num(6)), <<Assign("t", "*=", Num(2))>>),
     ReturnOf(Get("t")) >>)

Lists == Source("lists", <<>>,
  << Define(ArrInt, "l", List(<<Num(1), Num(2)>>)),
     Assign("l", "+=", Num(3)),
     AssignAt("l", <<Num(0)>>, Un("-", Num(4))),
     Define(MapInt, "m", Dict(<<Pair(b, Num(1)), Pair(a, Num(2)), Pair(b, Num(3))>>)),
     AssignAt("m", <<Str(<<99>>)>>, Item("l", <<Num(2)>>)),
     ForKey("v", "k", Get("m"), <<Assign("l", "+=", Item("m", <<Get("k")>>))>>),
     ReturnOf(Get("l")) >>)

Texts0 == Source("texts", <<>>,
  << Define(VStr, "s", EnvOf("owner")),
     Assign("s", "+=", Call("str", <<EnvOf("block")>>)),
     Define(ArrStr, "l", List(<<Get("s"), Str(b)>>)),
     Define(VStr, "u", Call("Join", <<Get("l"), Str(<<44>>)>>)),
     If(Bin(Get("u"), "!=", Get("s")),
        <<Assign("u", "=", Bin(Get("u"), "+", Call("str", <<Bool(TRUE)>>)))>>),
     ReturnOf(Get("u")) >>)

Funcs0 == Source("funcs", <<>>,
  << Func("twice", <<Var(VInt, "x")>>, VInt, <<ReturnOf(Bin(Get("x"), "+", Get("x")))>>),
     Func("log", <<Var(VStr, "y")>>, VVoid, <<Assign("y", "+=", Str(a))>>),
     Define(VInt, "n", Call("twice", <<Num(4)>>)),
     Call("log", <<Str(b)>>),
     Switch(Get("n"), <<Case(<<Num(1), Num(8)>>, <<Assign("n", "-=", Num(3))>>)>>,
            <<Assign("n", "=", Num(0))>>),
     ReturnOf(Quest(Bin(Get("n"), ">=", Num(5)), Get("n"), Num(0))) >>)

Money0 == Source("money", <<>>,
  << Define(VMoney, "m", Call("money", <<Num(5)>>)),
     Assign("m", "/=", Call("money", <<Num(2)>>)),
     Assign("m", "+=", Un("-", Bin(Get("m"), "*", Get("m")))),
     If(Bin(Get("m"), "<", Call("money", <<Num(0)>>)), <<ReturnOf(Call("str", <<Get("m")>>))>>),
     ReturnOf(Get("m")) >>)

Bytes0 == Source("bytes", <<>>,
  << Define(VBytes, "x", Call("bytes", <<Str(a)>>)),
     Assign("x", "+=", Call("bytes", <<Str(b)>>)),
     AssignAt("x", <<Num(1)>>, Num(65)),
     ReturnOf(Bin(Item("x", <<Num(1)>>), "+", Call("Len", <<Get("x")>>))) >>)

Host0 == Source("host", <<>>,
  << Call("Touch", <<Num(1)>>),
     If(Bin(Call("Known", <<Str(a)>>), "&&", Bin(Call("Rate", <<>>), ">", Num(1))),
        <<ReturnOf(Call("Label", <<Num(1)>>))>>) >>)

\* int("-12") + int("017"), then int("1a").
Parse0 == Source("parse", <<>>,
  << Define(VInt, "n", Bin(Call("int", <<Str(<<45, 49, 50>>)>>), "+",
                           Call("int", <<Str(<<48, 49, 55>>)>>))),
     If(Bin(Bin(Get("n"), ">", Num(70000)), "||", Bin(Get("n"), ">", Long(<<0, 1, 0, 9>>))),
        <<ReturnOf(Call("str", <<Get("n")>>))>>),
     ReturnOf(Call("int", <<Bin(Call("str", <<Num(1)>>), "+", Str(a))>>)) >>)

Caller0 == Source("caller", <<>>,
  << Define(VStr, "s", Str(a)),
     Define(ArrInt, "l", List(<<Num(9)>>)),
     Assign("s", "=", Contr("callee", <<Given("s", Get("s")), Given("l", Get("l"))>>)),
     ReturnOf(Bin(Get("s"), "+", Call("str", <<Item("l", <<Num(0)>>)>>))) >>)

\* An object with a list, an object and a [key: value] list in it; a key comes twice.
Nested == JObject(<<
  Keyed(a, Num(1)), Keyed(b, JArray(<<Str(a), JObject(<<Keyed(b, Bool(TRUE))>>), Num(2)>>)),
  Keyed(c, JList(<<Keyed(a, Get("n")), Keyed(b, JObject(<<Keyed(b, Num(3))>>))>>)), Keyed(a, Str(b))>>)
Objects0 == Source("objects", <<>>,
  << Define(VMoney, "n", Call("money", <<Num(5)>>)), Define(VObject, "o", Nested),
     ForKey("v", "k", Call("GetArray", <<Get("o"), Str(b)>>),
       << If(Bin(Get("v"), "==", Str(a)), <<Continue>>),
          If(Call("IsArray", <<Get("o"), Get("v")>>), <<ReturnOf(Get("o"))>>) >>),
     ReturnOf(Bin(Call("JSONEncode", <<Get("o")>>), "+",
                  Contr("holder", <<Given("o", Get("o")), Given("k", Str(c))>>))) >>)
Holder == Source("holder", <<Var(VObject, "o"), Var(VStr, "k")>>,
  << Define(ArrStr, "l", Call("GetArray", <<Get("o"), Get("k")>>)),
     Assign("o", "=", JObject(<<Keyed(a, Get("o")), Keyed(b, Item("l", <<Num(1)>>))>>)),
     ReturnOf(Call("GetString", <<Get("o"), Str(b)>>)) >>)

\* What JSONDecode made of a text is looked into.
Decode0 == Source("decode", <<>>,
  << Define(VObject, "o", Call("JSONDecode", <<Str(a)>>)),
     Define(MapStr, "m", Call("GetMap", <<Get("o"), Str(a)>>)),
     Assign("m", "=", Call("GetMap", <<Get("o"), Str(b)>>)),
     If(Call("IsMap", <<Get("o"), Str(b)>>), <<ReturnOf(Item("m", <<Str(a)>>))>>),
     If(Bin(Call("IsExists", <<Get("o"), Str(a)>>), "&&", Call("IsString", <<Get("o"), Str(a)>>)),
        <<ReturnOf(Call("Join", <<Call("GetArray", <<Get("o"), Str(a)>>), Str(b)>>))>>),
     ReturnOf(Call("GetString", <<Get("o"), Str(a)>>)) >>)
Item1(key, form, text) == [depth |-> 1, key |-> key, form |-> form, text |-> text]
MCDocuments == {<<>>, <<Item1(a, "text", b)>>,
                <<Item1(b, "map", <<>>), [Item1(a, "text", c) EXCEPT !.depth = 2]>>}

Pieces0 == Source("pieces", <<>>,
  << Define(VStr, "s", Call("Replace", <<Str(a \o b \o a), Str(a), Str(c)>>)),
     Define(ArrStr, "l", Call("Split", <<Get("s"), Str(b)>>)),
     If(Bin(Call("Contains", <<Get("s"), Item("l", <<Num(1)>>)>>), "&&",
            Call("HasPrefix", <<Get("s"), Item("l", <<Num(0)>>)>>)),
        <<Assign("s", "+=", Call("Substr", <<Get("s"), Num(2), Un("-", Num(2))>>))>>),
     ReturnOf(Call("Substr", <<Get("s"), Num(5), Call("Len", <<Get("l")>>)>>)) >>)

\* Texts that are not its own go into variables and into a contract it calls.
Shared0 == Source("shared", <<Var(VStr, "t")>>,
  << Func("log", <<Var(VStr, "y")>>, VStr, <<Assign("y", "+=", Str(b)), ReturnOf(Get("y"))>>),
     Define(VStr, "s", EnvOf("owner")),
     Assign("s", "+=", Call("log", <<Get("s")>>)),
     Assign("t", "+=", Get("s")),
     Assign("s", "=", Call("GetString", <<JObject(<<Keyed(a, Num(1))>>), Str(b)>>)),
     Assign("s", "+=", Contr("callee", <<Given("s", EnvOf("owner"))>>)),
     ReturnOf(Bin(Get("s"), "+", Get("t"))) >>)

Sources == <<Objects0, Decode0, Pieces0, Sum, Lists, Texts0, Funcs0, Money0, Bytes0, Host0, Parse0, Caller0>>
ProgramOf(source, given, gas) ==
  Prepare(LoadAll(VM0, <<Callee, Holder, source>>), source.name, EnvData, given, gas)
Features == {ProgramOf(Sources[k], <<>>, gas) : k \in 1..Len(Sources), gas \in {3, 8, 17, 26, 39, 60, 200}}
GivenText == <<[index |-> 0, value |-> [type |-> VStr, v |-> c]]>>
SharedPrograms == {ProgramOf(Shared0, GivenText, gas) : gas \in {26, 60, 200}}
MCPrograms == Features \cup SharedPrograms \cup CallPrograms \cup LoopPrograms
MCHostTexts == {b}
=============================================================================
