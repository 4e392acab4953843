------------------------------- MODULE MCEntry -------------------------------
(***************************************************************************)
(* Two parameters of each pair of types given each pair of values, three   *)
(* that all go to the heap, and every environment beside one of them.      *)
(***************************************************************************)
EXTENDS Entry

Values(kind) == {[go |-> kind, text |-> <<>>, n |-> 0]}
TextOf(t)    == [go |-> "string", text |-> t, n |-> 0]
Minus1p5     == <<45, 49, 46, 53>>
HexText      == <<48, 102>>
SomeTexts    == {<<>>, <<48>>, <<49, 50>>, Minus1p5, HexText}
HostArrays   == <<<<1, 2>>, <<>>>>
FromArray(n) == [go |-> "bytes", text |-> <<>>, n |-> n]
Number5      == [go |-> "int64", text |-> <<>>, n |-> 5]

AnyValue == {TextOf(t) : t \in SomeTexts} \cup {FromArray(1), Number5}
              \cup Values("nil") \cup Values("file")
ToHeap   == {TextOf(HexText), FromArray(1), FromArray(2)} \cup Values("nil")
AnyType  == {VInt, VBool, VStr, VArr, VFloat, VMoney, VBytes, VFile}

Env0 == <<Number5, TextOf(<<49, 50>>)>>
Env1 == <<TextOf(HexText), TextOf(HexText)>>
EnvsBesides == {<<>>, <<Number5>>, Env1 \o Env0, Env1,
                <<Number5, FromArray(1)>>, <<[Number5 EXCEPT !.go = "int"], Number5>>}

RunOf(main, es, names, types, given) ==
  [main |-> main, env |-> es, arrays |-> HostArrays, given |-> given,
   params |-> [k \in names |-> [index |-> CHOOSE i \in 0..2 : <<"b", "a", "c">>[i + 1] = k,
                                type |-> types[k]]]]
Two   == {"a", "b"}
Three == {"a", "b", "c"}
TextToAll(names) == [k \in names |-> TextOf(HexText)]

MCRuns ==
  {RunOf(1, Env0, Two, ts, vs) : ts \in [Two -> AnyType], vs \in [Two -> AnyValue]}
  \cup {RunOf(1, Env1, Three, ts, vs) : ts \in [Three -> {VStr, VBytes}], vs \in [Three -> ToHeap]}
  \cup {RunOf(main, es, Two, [k \in Two |-> VStr], TextToAll(Two)) :
          main \in {0, 1}, es \in EnvsBesides}

MCMachine == [contracts |-> <<[code |-> <<DATA, 1, 258>>, vars |-> <<>>]>>, gas |-> 100,
              funcs |-> <<[params |-> <<VInt>>, result |-> VStr]>>]
MCFloatOf == [t \in {<<48>>, <<49, 50>>, Minus1p5} |-> Len(t)]
=============================================================================
