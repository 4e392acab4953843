-------------------------------- MODULE Entry --------------------------------
(***************************************************************************)
(* VM.Run up to the call of the interpreter (vm.go): the host's values for *)
(* the environment and for the contract's parameters become cells and      *)
(* elements of a new heap.  The parameters are visited in the order of a   *)
(* Go map, which is any order.                                             *)
(***************************************************************************)
EXTENDS Heap, FiniteSets

CONSTANTS
  Machine,    \* what the VM adds: its contracts and host functions, the gas
  EnvSize,    \* the variables of VMSettings.Env
  Runs,       \* calls of RunByName: the contract found and what the host gives
  FloatOf,    \* strconv.ParseFloat: texts to the bits of their numbers
  HalfRange   \* an int64 lies in -HalfRange .. HalfRange - 1 (2^63)

(***************************************************************************)
(* A Go value of the host.  "string" has a text, "bytes" one of the host's *)
(* arrays of bytes, "int64" and "int" a number.                            *)
(***************************************************************************)
Value == [go : {"nil", "string", "bytes", "int64", "int", "file", "other"}, text : Text, n : Int]
NumberKinds == {"int64", "int"}

\* main is 0 if the name is not known; params is Contract.Params by name.
IsRun(r) ==
  /\ r.main \in 0..Len(Machine.contracts)
  /\ r.env \in Seq(Value) /\ r.arrays \in Seq(Text)
  /\ r.params \in [DOMAIN r.params -> [index : Nat, type : Nat]]
  /\ \A j, k \in DOMAIN r.params : r.params[j].index = r.params[k].index => j = k
  /\ r.given \in [DOMAIN r.params -> Value]
  /\ \A k \in DOMAIN r.params : r.given[k].go = "bytes" => r.given[k].n \in DOMAIN r.arrays

ASSUME MachineAssumption ==
  /\ Machine.contracts \in Seq(Contract) /\ \A c \in DOMAIN Machine.contracts : Packed(Machine.contracts[c])
  /\ Machine.gas \in Nat /\ Machine.funcs \in Seq([params : Seq(Nat), result : Nat])
ASSUME RunsAssumption == \A r \in Runs : IsRun(r)
ASSUME NumbersAssumption == /\ HalfRange \in Nat /\ EnvSize \in Nat
                            /\ FloatOf \in [DOMAIN FloatOf -> Int]

VARIABLES
  run,      \* this call, which no step changes
  phase,    \* "named", "env", "params", then "handed" or "refused"
  env,      \* the cells of the environment so far
  todo,     \* the parameters not visited yet
  params,   \* indexes and cells of those given
  Strings, Objects, Buffers,  \* the heap
  error

heap == <<Strings, Objects, Buffers>>
vars == <<run, phase, env, todo, params, heap, error>>

-----------------------------------------------------------------------------
(***************************************************************************)
(* Conversions.                                                            *)
(***************************************************************************)

\* decimal.NewFromString, but for exponents: digits around at most one point, the
\* zeros at the end of a fraction dropped before anything else; then Floor.  That a
\* number is an Int is said for the proofs.
Points(t)    == {k \in DOMAIN t : t[k] = 46}
Point(t)     == CHOOSE k \in Points(t) : TRUE
WholePart(t) == IF Points(t) = {} THEN t ELSE SubSeq(t, 1, Point(t) - 1)
Trimmed(t)   == SubSeq(t, 1, CHOOSE n \in 0..Len(t) : /\ n = 0 \/ t[n] # 48
                                                      /\ \A k \in n + 1..Len(t) : t[k] = 48)
Fraction(t)  == IF Points(t) = {} THEN <<>> ELSE Trimmed(SubSeq(t, Point(t) + 1, Len(t)))
Units(t)     == Whole(WholePart(t) \o Fraction(t), 10) \div 10^Len(Fraction(t))
IsAmount(t)  == /\ Cardinality(Points(t)) <= 1 /\ IsWhole(WholePart(t) \o Fraction(t), 10)
                /\ Units(t) \in Int

\* hex.DecodeString.
Nibbles   == 48..57 \cup 65..70 \cup 97..102
Nibble(c) == IF c <= 57 THEN c - 48 ELSE IF c <= 70 THEN c - 55 ELSE c - 87
IsHex(t)  == Len(t) % 2 = 0 /\ \A k \in DOMAIN t : t[k] \in Nibbles
HexOf(t)  == [k \in 1..Len(t) \div 2 |-> 16 * Nibble(t[2 * k - 1]) + Nibble(t[2 * k])]

IsInt(t)  == IsWhole(t, 10) /\ Whole(t, 10) \in -HalfRange..HalfRange - 1
False     == {<<48>>, <<>>, <<102, 97, 108, 115, 101>>}

\* The Go value v will do for a parameter of type t.
Suits(v, t) ==
  CASE v.go = "string" -> \/ t \in {VStr, VBool}
                          \/ t = VInt /\ IsInt(v.text)
                          \/ t = VFloat /\ v.text \in DOMAIN FloatOf
                          \/ t = VMoney /\ IsAmount(v.text)
                          \/ t = VBytes /\ IsHex(v.text)
    [] v.go = "bytes"  -> t = VBytes
    [] v.go = "file"   -> t = VFile
    [] OTHER           -> FALSE
File      == [Blank EXCEPT !.kind = "file"]
Numeric   == {VInt, VBool, VFloat}
CellOf(v, t) == CASE t = VInt  -> Whole(v.text, 10)
                  [] t = VBool -> IF v.text \in False THEN 0 ELSE 1
                  [] t = VFloat -> FloatOf[v.text]
\* Mutant: the length of the text is taken for that of the bytes.
ObjectOfText(v, t) == CASE t = VMoney -> Money(Units(v.text), 1)
                        [] t = VFile  -> File
                        [] t = VBytes /\ v.go = "string" -> Bytes(Len(Buffers) + 1, Len(v.text))
                        [] t = VBytes /\ v.go = "bytes"  -> Bytes(v.n, Len(run.arrays[v.n]))
\* The bytes of a text are new, a []byte is the host's.
ObjectOf(v, t) == CASE t = VMoney -> Money(Units(v.text), 1)
                    [] t = VFile  -> File
                    [] t = VBytes /\ v.go = "string" -> Bytes(Len(Buffers) + 1, Len(HexOf(v.text)))
                    [] t = VBytes /\ v.go = "bytes"  -> Bytes(v.n, Len(run.arrays[v.n]))

-----------------------------------------------------------------------------
Refuse(e) == /\ phase' = "refused" /\ error' = e
             /\ UNCHANGED <<run, env, todo, params, heap>>

\* RunByName.
NoContract == phase = "named" /\ run.main = 0 /\ Refuse("errCntNotExists")
GetContract == /\ phase = "named" /\ run.main # 0 /\ phase' = "env"
               /\ UNCHANGED <<run, env, todo, params, heap, error>>

\* The environment, in the order of the settings.
Counted  == phase = "env" /\ Len(run.env) = EnvSize
NextEnv  == run.env[Len(env) + 1]
CountsDiffer == phase = "env" /\ Len(run.env) # EnvSize /\ Refuse("errGlobVar")
EnvNumber ==
  /\ Counted /\ Len(env) < EnvSize /\ NextEnv.go \in NumberKinds
  /\ env' = Append(env, NextEnv.n)
  /\ UNCHANGED <<run, phase, todo, params, heap, error>>
\* Mutant: a text that is there is not stored again.
EnvTextOnce ==
  /\ Counted /\ Len(env) < EnvSize /\ NextEnv.go = "string"
  /\ IF \E k \in DOMAIN Strings : Strings[k] = NextEnv.text
     THEN /\ env' = Append(env, (CHOOSE k \in DOMAIN Strings : Strings[k] = NextEnv.text) - 1)
          /\ UNCHANGED Strings
     ELSE Strings' = Append(Strings, NextEnv.text) /\ env' = Append(env, Len(Strings))
  /\ UNCHANGED <<run, phase, todo, params, Objects, Buffers, error>>
EnvText ==
  /\ Counted /\ Len(env) < EnvSize /\ NextEnv.go = "string"
  /\ Strings' = Append(Strings, NextEnv.text)
  /\ env' = Append(env, Len(Strings))
  /\ UNCHANGED <<run, phase, todo, params, Objects, Buffers, error>>
EnvRefused == /\ Counted /\ Len(env) < EnvSize /\ NextEnv.go \notin NumberKinds \cup {"string"}
              /\ Refuse("errGlobType")
EnvDone == /\ Counted /\ Len(env) = EnvSize /\ phase' = "params"
           /\ UNCHANGED <<run, env, todo, params, heap, error>>

\* The parameter k, visited once.
Visit(k)  == phase = "params" /\ k \in todo /\ todo' = todo \ {k} /\ UNCHANGED <<run, phase, env, error>>
Given(k)  == run.given[k]
Type(k)   == run.params[k].type
\* Mutant: the index of the parameter is forgotten.
PassCellOnly(k, cell) == params' = Append(params, cell)
Pass(k, cell) == params' = params \o <<run.params[k].index, cell>>

\* Mutant: an empty text counts as not given.
SkipEmpty(k) == /\ Visit(k) /\ (Given(k).go = "nil" \/ (Given(k).go = "string" /\ Given(k).text = <<>>))
                /\ UNCHANGED <<params, heap>>
Skip(k) == Visit(k) /\ Given(k).go = "nil" /\ UNCHANGED <<params, heap>>
TakeNumber(k) ==
  /\ Visit(k) /\ Suits(Given(k), Type(k)) /\ Type(k) \in Numeric
  /\ Pass(k, CellOf(Given(k), Type(k)))
  /\ UNCHANGED heap
\* Mutant: the index of the text before it.
TakeTextBefore(k) ==
  /\ Visit(k) /\ Suits(Given(k), Type(k)) /\ Type(k) = VStr
  /\ Strings' = Append(Strings, Given(k).text)
  /\ Pass(k, Len(Strings) - 1)
  /\ UNCHANGED <<Objects, Buffers>>
TakeText(k) ==
  /\ Visit(k) /\ Suits(Given(k), Type(k)) /\ Type(k) = VStr
  /\ Strings' = Append(Strings, Given(k).text)
  /\ Pass(k, Len(Strings))
  /\ UNCHANGED <<Objects, Buffers>>
TakeObject(k) ==
  /\ Visit(k) /\ Suits(Given(k), Type(k)) /\ Type(k) \in {VMoney, VBytes, VFile}
  /\ Objects' = Append(Objects, ObjectOf(Given(k), Type(k)))
  /\ Buffers' = IF Type(k) = VBytes /\ Given(k).go = "string"
                THEN Append(Buffers, HexOf(Given(k).text)) ELSE Buffers
  /\ Pass(k, Len(Objects))
  /\ UNCHANGED Strings
RefuseParam(k) ==
  /\ phase = "params" /\ k \in todo /\ Given(k).go # "nil" /\ ~Suits(Given(k), Type(k))
  /\ Refuse(IF Given(k).go = "string" /\ Type(k) \in {VInt, VFloat, VMoney, VBytes} THEN "parse"
            ELSE IF Given(k).go \in {"string", "bytes", "file"} THEN "type" ELSE "kind")

\* The call of Runtime.Run.
HandOver == /\ phase = "params" /\ todo = {} /\ phase' = "handed"
            /\ UNCHANGED <<run, env, todo, params, heap, error>>
Stopped  == phase \in {"handed", "refused"} /\ UNCHANGED vars

Init == /\ run \in Runs /\ phase = "named" /\ error = "none"
        /\ env = <<>> /\ todo = DOMAIN run.params /\ params = <<>>
        /\ Strings = << <<>> >> /\ Objects = <<>> /\ Buffers = run.arrays
Next == \/ NoContract \/ GetContract \/ CountsDiffer \/ EnvNumber \/ EnvText \/ EnvRefused
        \/ EnvDone \/ HandOver \/ Stopped
        \/ \E k \in todo : Skip(k) \/ TakeNumber(k) \/ TakeText(k) \/ TakeObject(k) \/ RefuseParam(k)
Spec == Init /\ [][Next]_vars

-----------------------------------------------------------------------------
(***************************************************************************)
(* Properties.                                                             *)
(***************************************************************************)

\* The heap, the environment and the pairs of index and cell are what the interpreter
\* takes (vm.go Run); the host's arrays stay where they are.
TypeOK ==
  /\ IsRun(run) /\ phase \in {"named", "env", "params", "handed", "refused"}
  /\ error \in {"none", "errCntNotExists", "errGlobVar", "errGlobType", "parse", "type", "kind"}
  /\ env \in Seq(Int) /\ Len(env) <= EnvSize /\ todo \subseteq DOMAIN run.params
  /\ params \in Seq(Int) /\ Len(params) % 2 = 0
  /\ Strings \in Seq(Text) /\ Len(Strings) > 0
  /\ Objects \in Seq(Object) /\ Buffers \in Seq(Text)
  /\ \A n \in DOMAIN run.arrays : n \in DOMAIN Buffers /\ Buffers[n] = run.arrays[n]

\* What the interpreter is started with is a program as Runtime assumes it: it indexes
\* contracts, the heap and the backing arrays without a check of its own.
Handed == [contracts |-> Machine.contracts, main |-> run.main, strings |-> Strings,
           objects |-> Objects, buffers |-> Buffers, params |-> params, env |-> env,
           gas |-> Machine.gas, funcs |-> Machine.funcs]
HandedOver == phase = "handed" => Linked(Handed)

\* The cell leads to the value v, given for a parameter of type t.
BytesOf(v) == IF v.go = "string" THEN HexOf(v.text) ELSE run.arrays[v.n]
At(cell) == Objects[cell + 1]
Leads(cell, v, t) ==
  CASE t \in Numeric -> cell = CellOf(v, t)
    [] t = VStr   -> cell + 1 \in DOMAIN Strings /\ Strings[cell + 1] = v.text
    [] OTHER      -> /\ cell + 1 \in DOMAIN Objects
                     /\ t = VMoney => At(cell) = Money(Units(v.text), 1)
                     /\ t = VFile  => At(cell) = File
                     /\ t = VBytes => /\ At(cell).kind = "bytes"
                                      /\ At(cell).buf \in DOMAIN Buffers
                                      /\ Buffers[At(cell).buf] = BytesOf(v)
                                      /\ At(cell).num = Len(BytesOf(v))
EnvLeads(cell, v) ==
  IF v.go = "string" THEN cell + 1 \in DOMAIN Strings /\ Strings[cell + 1] = v.text ELSE cell = v.n

\* Whatever the order in which the map of the parameters is visited, each parameter
\* the host gave arrives once, under its own index, as the value given, and one that
\* was not given does not arrive; so do the variables of the environment, in their
\* order.  A later value must not move or overwrite an earlier one in the heap.
Pairs(k) == {j \in 1..Len(params) \div 2 : params[2 * j - 1] = run.params[k].index}
Arrived(k) == IF k \in todo \/ Given(k).go = "nil" THEN Pairs(k) = {}
              ELSE \E j \in Pairs(k) : Pairs(k) = {j} /\ Leads(params[2 * j], Given(k), Type(k))
Delivered == phase = "handed" =>
  /\ todo = {} /\ \A k \in DOMAIN run.params : Arrived(k)
  /\ DOMAIN env = DOMAIN run.env /\ \A k \in DOMAIN env : EnvLeads(env[k], run.env[k])

\* The interpreter starts if and only if the contract is known and everything the
\* host gave can be converted, whichever parameter is visited first.
Right == /\ run.main # 0 /\ Len(run.env) = EnvSize
         /\ \A k \in DOMAIN run.env : run.env[k].go \in NumberKinds \cup {"string"}
         /\ \A k \in DOMAIN run.params : Given(k).go # "nil" => Suits(Given(k), Type(k))
Judged == (phase = "handed" => Right) /\ (phase = "refused" => ~Right)

\* No two texts of the environment and the parameters share an element of Strings,
\* and none is element 0, which stands for the empty text everywhere: a += writes
\* the element itself.
EnvTexts   == {k \in DOMAIN env : run.env[k].go = "string"}
ParamTexts == {j \in 1..Len(params) \div 2 :
                 \E k \in DOMAIN run.params : Type(k) = VStr /\ params[2 * j - 1] = run.params[k].index}
TextsApart ==
  /\ \A k \in EnvTexts : env[k] \in 1..Len(Strings) - 1
  /\ \A j \in ParamTexts : params[2 * j] \in 1..Len(Strings) - 1
  /\ \A j, k \in EnvTexts : env[j] = env[k] => j = k
  /\ \A j, k \in ParamTexts : params[2 * j] = params[2 * k] => j = k
  /\ \A k \in EnvTexts, j \in ParamTexts : env[k] # params[2 * j]
=============================================================================
