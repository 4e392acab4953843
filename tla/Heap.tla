--------------------------------- MODULE Heap ---------------------------------
(***************************************************************************)
(* What a run of the interpreter works on: linked contracts, the elements  *)
(* of the heap, and all that vm.Run hands over.                            *)
(***************************************************************************)
EXTENDS Bytecode, Trees

(***************************************************************************)
(* A linked contract: Contract.Code, the types of Contract.VarsList.       *)
(***************************************************************************)
Contract == [code : Seq(0..WordMax), vars : Seq(0..WordMax)]

(***************************************************************************)
(* An element of Runtime.Objects.  "arr" uses items; "map" holds the value *)
(* of keys[p] in items[p]; "money" is num / den; "bytes" is the first num  *)
(* bytes of the backing array Buffers[buf]; "obj" is a types.Map and       *)
(* "list" a []interface{} with the entries in tree; "blank" is the empty   *)
(* string that Run puts into Objects for a variable of type str.           *)
(***************************************************************************)
Kinds  == {"blank", "arr", "map", "money", "bytes", "file", "obj", "list"}
Object == [kind : Kinds, items : Seq(Int), keys : Seq(Text), num : Int, den : Nat \ {0}, buf : Nat,
           tree : Tree]

Blank        == [kind |-> "blank", items |-> <<>>, keys |-> <<>>, num |-> 0, den |-> 1, buf |-> 0,
                 tree |-> <<>>]
Arr(items)   == [Blank EXCEPT !.kind = "arr", !.items = items]
Map(ks, vs)  == [Blank EXCEPT !.kind = "map", !.keys = ks, !.items = vs]
Money(n, d)  == [Blank EXCEPT !.kind = "money", !.num = n, !.den = d]
Bytes(b, n)  == [Blank EXCEPT !.kind = "bytes", !.buf = b, !.num = n]
JsonObject(kind, t) == [Blank EXCEPT !.kind = kind, !.tree = t]

(***************************************************************************)
(* What vm.Run hands to Runtime.Run: the contract to execute, the heap the *)
(* environment and the parameters were loaded into, the parameters as      *)
(* index and value pairs, the environment, VMSettings.GasLimit and the     *)
(* host functions.                                                         *)
(***************************************************************************)
Program == [contracts : Seq(Contract), main : Nat, strings : Seq(Text),
            objects : Seq(Object), buffers : Seq(Seq(Int)), params : Seq(Int),
            env : Seq(Int), gas : Nat, funcs : Seq([params : Seq(Nat), result : Nat])]

\* What Compile, Link and vm.Run guarantee: the packed literals are in the code, the
\* contract to run is one of the linked ones, and a []byte lies in its backing array.
Packed(c) == c.code # <<>> /\ c.code[1] = DATA =>
               Len(c.code) >= 2 /\ Len(c.code) >= 2 + c.code[2]
Loaded(p) == \A k \in DOMAIN p.objects :
  LET o == p.objects[k]
  IN o.kind = "bytes" /\ o.num # 0 => /\ o.buf \in DOMAIN p.buffers
                                      /\ o.num \in 1..Len(p.buffers[o.buf])
Linked(p) == /\ p \in Program /\ p.main \in DOMAIN p.contracts
             /\ \A k \in DOMAIN p.contracts : Packed(p.contracts[k])
             /\ Loaded(p)
=============================================================================
