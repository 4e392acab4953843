--------------------------- MODULE RuntimeProofs ----------------------------
(***************************************************************************)
(* Every run of every linked contract keeps TypeOK and the marks of the    *)
(* heap in order, and gives back the heap it took. The inductive invariant *)
(* is the conjunction of the three: the marks need the types, the types    *)
(* need the marks where Run cuts the heap back, and the heap is given back *)
(* because of the marks.                                                   *)
(***************************************************************************)
(***************************************************************************)
(* From there it is shown that the interpreter follows verified code from  *)
(* instruction to instruction. Verified looks at the words of a contract   *)
(* alone; here this is enough for every run: through jumps, functions that *)
(* call one another, contracts called and left, and errors that end        *)
(* several of them at once.                                                *)
(***************************************************************************)
EXTENDS CodeSafety, TLAPS, SequenceTheorems, FiniteSetTheorems, Ordering

-----------------------------------------------------------------------------
(***************************************************************************)
(* Sets of natural numbers.                                                *)
(***************************************************************************)

\* Nth(S, m) is a member of S: there is one with m - 1 members below it.
LEMMA NthMember ==
  ASSUME NEW b \in Nat, NEW S, S \subseteq 0..b, NEW m \in 1..Cardinality(S)
  PROVE  Nth(S, m) \in S /\ Cardinality({j \in S : j <= Nth(S, m)}) = m
<1> DEFINE upto(k) == {j \in S : j <= k}
           T == {k \in S : Cardinality(upto(k)) >= m}
<1>0. S \subseteq Nat /\ 0 \in Int /\ b \in Int
  OBVIOUS
<1>1. IsFiniteSet(S)
  <2>1. IsFiniteSet(0..b)
    BY <1>0, FS_Interval
  <2> QED BY <2>1, FS_Subset
<1>2. ASSUME NEW k PROVE IsFiniteSet(upto(k)) /\ Cardinality(upto(k)) \in Nat
  BY <1>1, FS_Subset, FS_CardinalityType
<1>3. S # {} /\ Cardinality(S) \in Nat /\ m \in Nat
  BY <1>1, FS_EmptySet, FS_CardinalityType
<1>4. PICK x \in S : \A j \in S : j <= x
  BY <1>3, Largest
<1>5. upto(x) = S
  BY <1>4
<1>6. x \in T
  BY <1>3, <1>5
<1>7. T \subseteq Nat
  <2>1. T \subseteq S
    OBVIOUS
  <2> QED BY <1>0, <2>1
<1>8. PICK k \in T : \A j \in T : k <= j
  BY <1>6, <1>7, Smallest
<1>9. Cardinality(upto(k)) = m
  <2> DEFINE below == {j \in S : j < k}
  <2>1. IsFiniteSet(below) /\ Cardinality(below) \in Nat
    BY <1>1, FS_Subset, FS_CardinalityType
  <2>2. upto(k) = below \cup {k} /\ k \notin below
    <3>1. k \in S
      OBVIOUS
    <3>2. \A j \in S : j <= k <=> (j < k \/ j = k)
      BY <1>0, <3>1
    <3>3. k \notin below
      BY <1>0, <3>1
    <3> QED BY <3>1, <3>2, <3>3
  <2>3. Cardinality(upto(k)) = Cardinality(below) + 1
    BY <2>1, <2>2, FS_AddElement
  <2>4. Cardinality(below) < m
    <3>1. CASE below = {}
      BY <3>1, <1>3, FS_EmptySet
    <3>2. CASE below # {}
      <4>1. below \subseteq 0..b
        OBVIOUS
      <4>2. PICK j \in below : \A i \in below : i <= j
        BY <3>2, <4>1, Largest
      <4>3. upto(j) = below
        <5>1. j \in S /\ k \in S /\ j < k
          BY <4>2
        <5>2. \A i \in S : i <= j => i < k
          BY <1>0, <5>1
        <5>3. \A i \in S : i < k => i <= j
          BY <4>2
        <5> QED BY <5>2, <5>3
      <4>4. j \notin T
        BY <1>8
      <4> QED BY <4>3, <4>4, <2>1, <1>3
    <3> QED BY <3>1, <3>2
  <2>5. Cardinality(upto(k)) >= m
    BY <1>8
  <2> QED BY <2>1, <2>3, <2>4, <2>5, <1>3
<1>10. \E j \in S : Cardinality({i \in S : i <= j}) = m
  BY <1>8, <1>9
<1> QED BY <1>10 DEF Nth

\* A function over 1..n is a sequence of length n.
LEMMA FunctionSeq ==
  ASSUME NEW S, NEW n \in Nat, NEW f \in [1..n -> S]
  PROVE  f \in Seq(S) /\ Len(f) = n
<1>1. f \in Seq(S)
  BY SeqDef
<1> QED BY <1>1

\* One element of a sequence changed.
LEMMA Update ==
  ASSUME NEW S, NEW s \in Seq(S), NEW k \in DOMAIN s, NEW x \in S
  PROVE  /\ [s EXCEPT ![k] = x] \in Seq(S) /\ Len([s EXCEPT ![k] = x]) = Len(s)
         /\ DOMAIN [s EXCEPT ![k] = x] = DOMAIN s
         /\ [s EXCEPT ![k] = x][k] = x
         /\ \A j \in DOMAIN s : j # k => [s EXCEPT ![k] = x][j] = s[j]
OBVIOUS

\* The first n elements of a sequence.
LEMMA Prefix ==
  ASSUME NEW S, NEW s \in Seq(S), NEW n \in Nat, n <= Len(s)
  PROVE  /\ SubSeq(s, 1, n) \in Seq(S) /\ Len(SubSeq(s, 1, n)) = n
         /\ \A i \in 1..n : SubSeq(s, 1, n)[i] = s[i]
<1>1. \A i \in 1..n : s[i] \in S
  OBVIOUS
<1>2. /\ SubSeq(s, 1, n) \in Seq(S) /\ Len(SubSeq(s, 1, n)) = (IF 1 <= n THEN n - 1 + 1 ELSE 0)
      /\ \A i \in 1..n - 1 + 1 : SubSeq(s, 1, n)[i] = s[1 + i - 1]
  BY <1>1, SubSeqProperties
<1>3. Len(SubSeq(s, 1, n)) = n
  BY <1>2
<1>4. \A i \in 1..n : SubSeq(s, 1, n)[i] = s[i]
  BY <1>2
<1> QED BY <1>2, <1>3, <1>4

\* The first m of the first n elements are the first m elements.
LEMMA PrefixOfPrefix ==
  ASSUME NEW S, NEW s \in Seq(S), NEW n \in Nat, n <= Len(s), NEW m \in Nat, m <= n
  PROVE  SubSeq(SubSeq(s, 1, n), 1, m) = SubSeq(s, 1, m)
<1> DEFINE t == SubSeq(s, 1, n)
           u == SubSeq(t, 1, m)
           v == SubSeq(s, 1, m)
<1>1. t \in Seq(S) /\ Len(t) = n /\ \A i \in 1..n : t[i] = s[i]
  BY Prefix
<1> HIDE DEF t
<1>2. u \in Seq(S) /\ Len(u) = m /\ \A i \in 1..m : u[i] = t[i]
  BY <1>1, Prefix
<1>3. m <= Len(s)
  OBVIOUS
<1>4. v \in Seq(S) /\ Len(v) = m /\ \A i \in 1..m : v[i] = s[i]
  BY <1>3, Prefix
<1> HIDE DEF u, v
<1>5. \A i \in 1..m : u[i] = v[i]
  BY <1>1, <1>2, <1>4
<1>6. u = v
  BY <1>2, <1>4, <1>5, SeqEqual
<1> QED BY <1>6 DEF t, u, v

-----------------------------------------------------------------------------
(***************************************************************************)
(* Changes to the locals of an activation.                                 *)
(***************************************************************************)

\* a is a later state of the frame b of Run: it is well formed, runs the same
\* contract with the same limit, and has taken or given up no mark.
SameFrame(a, b) ==
  /\ a \in ActivationType
  /\ a.cnt = b.cnt /\ a.limit = b.limit
  /\ a.counts = b.counts /\ a.isParContract = b.isParContract

\* Push keeps the frame if there is room on the operand stack.
LEMMA PushFrame ==
  ASSUME act \in ActivationType, NEW v \in Int, act.top + 1 < StackSize
  PROVE  SameFrame(Push(v), act)
<1>1. act.top \in Depths /\ act.stack \in Stacks
  BY DEF ActivationType
<1>2. act.top + 1 \in Depths
  BY <1>1, SizesAssumption DEF Depths
<1>3. [act.stack EXCEPT ![act.top + 1] = v] \in Stacks
  BY <1>1, <1>2 DEF Stacks
<1> QED BY <1>2, <1>3 DEF Push, SameFrame, ActivationType

\* Drop keeps the frame if the operands are there.
LEMMA DropFrame ==
  ASSUME act \in ActivationType, NEW n \in Nat, n <= act.top + 1
  PROVE  SameFrame(Drop(n), act)
<1>1. act.top \in Depths
  BY DEF ActivationType
<1>2. act.top - n \in Depths
  BY <1>1, SizesAssumption DEF Depths
<1> QED BY <1>2 DEF Drop, SameFrame, ActivationType

\* Replace keeps the frame if the operands are there, or room if it takes none.
LEMMA ReplaceFrame ==
  ASSUME act \in ActivationType, NEW n \in Nat, NEW v \in Int, n <= act.top + 1,
         n = 0 => act.top + 1 < StackSize
  PROVE  SameFrame(Replace(n, v), act)
<1>1. act.top \in Depths /\ act.stack \in Stacks
  BY DEF ActivationType
<1>2. act.top - n + 1 \in Depths
  BY <1>1, SizesAssumption DEF Depths
<1>3. [act.stack EXCEPT ![act.top - n + 1] = v] \in Stacks
  BY <1>1, <1>2 DEF Stacks
<1> QED BY <1>2, <1>3 DEF Replace, SameFrame, ActivationType

\* Store keeps the frame if the address is that of a variable.
LEMMA StoreFrame ==
  ASSUME act \in ActivationType, NEW addr \in Int, NEW v \in Int, NEW n \in Nat,
         n <= act.top + 1, IsAddress(addr)
  PROVE  SameFrame(Store(addr, v, n), act)
<1>1. act.top \in Depths /\ act.Vars \in Seq(Int)
  BY DEF ActivationType
<1>2. act.top - n \in Depths
  BY <1>1, SizesAssumption DEF Depths
<1>3. [act.Vars EXCEPT ![addr - HalfRange + 1] = v] \in Seq(Int)
  BY <1>1, SizesAssumption DEF IsAddress
<1> QED BY <1>2, <1>3 DEF Store, SameFrame, ActivationType

\* New values for the variables, the gas or the depth of the stack alone.
LEMMA VarsFrame ==
  ASSUME NEW a \in ActivationType, NEW vs \in Seq(Int)
  PROVE  SameFrame([a EXCEPT !.Vars = vs], a)
BY DEF SameFrame, ActivationType

\* Another gas count keeps the frame.
LEMMA GasFrame ==
  ASSUME NEW a \in ActivationType, NEW g \in Int
  PROVE  SameFrame([a EXCEPT !.gas = g], a)
BY DEF SameFrame, ActivationType

\* Another depth of the operand stack keeps the frame.
LEMMA TopFrame ==
  ASSUME NEW a \in ActivationType, NEW t \in Depths
  PROVE  SameFrame([a EXCEPT !.top = t], a)
BY DEF SameFrame, ActivationType

\* Moving on and counting gas keeps the frame.
LEMMA MoveFrame ==
  ASSUME NEW a \in ActivationType, NEW i \in Int, NEW g \in Int
  PROVE  SameFrame([a EXCEPT !.i = i, !.gas = g], a)
BY DEF SameFrame, ActivationType

\* A frame kept by two changes is kept by both together.
LEMMA FrameTransitive ==
  ASSUME NEW a, NEW b, NEW c, SameFrame(a, b), SameFrame(b, c)
  PROVE  SameFrame(a, c)
BY DEF SameFrame

-----------------------------------------------------------------------------
(***************************************************************************)
(* The instruction under way.                                              *)
(***************************************************************************)

\* The code of the running contract consists of words, its literals inside it.
LEMMA CodeType ==
  ASSUME TypeOK
  PROVE  cnt.code \in Seq(0..WordMax) /\ cnt.vars \in Seq(0..WordMax) /\ Packed(cnt)
<1>1. prog.contracts \in Seq(Contract) /\ act.cnt \in DOMAIN prog.contracts
  BY DEF TypeOK, Linked, Program
<1>2. cnt \in Contract
  BY <1>1 DEF cnt
<1>3. Packed(cnt)
  BY <1>1 DEF TypeOK, Linked, cnt
<1> QED BY <1>2, <1>3 DEF Contract

\* What lies inside the code is a word.
LEMMA WordType ==
  ASSUME TypeOK, NEW k \in Nat, act.i + 1 + k \in 1..Len(cnt.code)
  PROVE  W(k) \in 0..WordMax /\ W(k) \in Nat
<1>1. cnt.code \in Seq(0..WordMax)
  BY CodeType
<1>2. cnt.code[act.i + 1 + k] \in 0..WordMax
  BY <1>1, ElementOfSeq, Zenon
<1>3. 0..WordMax \subseteq Nat
  BY DEF WordMax
<1> QED BY <1>2, <1>3, Zenon DEF W

\* An instruction has at least one word.
LEMMA WordsType ==
  ASSUME TypeOK, Fetching
  PROVE  Words(Op) \in Nat \ {0}
<1>1. CASE act.i + 1 < Len(cnt.code)
  <2>1. W(1) \in Nat
    BY <1>1, WordType, CodeType DEF Fetching
  <2> QED BY <2>1, <1>1 DEF Words
<1>2. CASE ~(act.i + 1 < Len(cnt.code))
  BY <1>2 DEF Words
<1> QED BY <1>1, <1>2

\* The words of an instruction.
LEMMA WordsOf ==
  /\ \A op \in {PUSH16, GETVAR, SETVAR, JMP, JMPREL, JZE, JNZ, CALLFUNC, EMBEDFUNC, CUSTOMFUNC,
               CALLCONTRACT, RETURN, COPY, INITARR, INITMAP, INITOBJ, INITOBJLIST,
               ENV} : Words(op) = 2
  /\ \A op \in {PUSH32, PUSHSTR, PARCONTRACT} : Words(op) = 3
  /\ Words(PUSH64) = 5
  /\ act.i + 1 < Len(cnt.code) => Words(GETPARAMS) = 2 + W(1)
  /\ ~(act.i + 1 < Len(cnt.code)) => Words(GETPARAMS) = 2
<1> USE DEF NOP, PUSH16, PUSH32, PUSHSTR, INITVARS, DELVARS, ADDINT, SUBINT, MULINT,
           DIVINT, MODINT, EQINT, LTINT, GTINT, AND, OR, DUP, GETVAR, SETVAR, JMP,
           JMPREL, JZE, JNZ, ASSIGNINT, ASSIGNSTR, ASSIGNADDINT, ASSIGNSUBINT,
           ASSIGNMULINT, ASSIGNDIVINT, ASSIGNMODINT, CALLFUNC, EMBEDFUNC,
           CUSTOMFUNC, CALLCONTRACT, LOADPARS, PARCONTRACT, GETPARAMS, RETURN,
           RETFUNC, SIGNINT, NOT, ADDSTR, EQSTR, ASSIGNADDSTR, APPENDARR, GETINDEX,
           SETINDEX, GETMAP, SETMAP, COPYSTR, COPY, ASSIGNSETMAP, ASSIGNSETARR,
           ASSIGNSETBYTES, INITARR, INITMAP, INITOBJ, INITOBJLIST, OBJ2LIST, ENV,
           PUSH64, SIGNFLOAT, ADDFLOAT, SUBFLOAT, MULFLOAT, DIVFLOAT,
           ASSIGNADDFLOAT, ASSIGNSUBFLOAT, ASSIGNMULFLOAT, ASSIGNDIVFLOAT, EQFLOAT,
           LTFLOAT, GTFLOAT, ADDMONEY, SUBMONEY, MULMONEY, DIVMONEY, SIGNMONEY,
           ASSIGNADDMONEY, ASSIGNSUBMONEY, ASSIGNMULMONEY, ASSIGNDIVMONEY, EQMONEY,
           LTMONEY, GTMONEY, ASSIGNADDBYTES, DATA
<1>1. /\ Words(PUSH16) = 2 /\ Words(GETVAR) = 2 /\ Words(SETVAR) = 2 /\ Words(JMP) = 2
      /\ Words(JMPREL) = 2 /\ Words(JZE) = 2 /\ Words(JNZ) = 2 /\ Words(CALLFUNC) = 2
      /\ Words(EMBEDFUNC) = 2 /\ Words(CUSTOMFUNC) = 2 /\ Words(CALLCONTRACT) = 2
      /\ Words(RETURN) = 2 /\ Words(COPY) = 2 /\ Words(INITARR) = 2 /\ Words(INITMAP) = 2
      /\ Words(ENV) = 2 /\ Words(PUSH32) = 3 /\ Words(PUSHSTR) = 3
      /\ Words(PARCONTRACT) = 3 /\ Words(PUSH64) = 5
      /\ Words(INITOBJ) = 2 /\ Words(INITOBJLIST) = 2
  BY DEF Words
<1>2. /\ act.i + 1 < Len(cnt.code) => Words(GETPARAMS) = 2 + W(1)
      /\ ~(act.i + 1 < Len(cnt.code)) => Words(GETPARAMS) = 2
  BY DEF Words
<1> QED BY <1>1, <1>2, Zenon

\* The operands of an instruction.
LEMMA OperandsOf ==
  /\ \A op \in IntBinary \cup IntDivide : Operands(op) = <<"any", "any">>
  /\ \A op \in IntAssign \cup IntAssignDivide \cup {ASSIGNINT} : Operands(op) = <<"addr", "any">>
  /\ \A op \in {DUP, JZE, JNZ, SIGNINT, NOT, SETMAP} : Operands(op) = <<"any">>
  /\ Operands(RETURN) = <<PrintSort(W(1))>>
  /\ \A op \in MoneyBinary \cup MoneyCompare : Operands(op) = <<"money", "money">>
  /\ \A op \in MoneyAssign : Operands(op) = <<"addr_money", "money">>
  /\ Operands(SIGNMONEY) = <<"money">>
  /\ Operands(ASSIGNSTR) = <<"addr", "str">>
  /\ \A op \in {ADDSTR, EQSTR} : Operands(op) = <<"str", "str">>
  /\ Operands(ASSIGNADDSTR) = <<"addr_str", "str">>
  /\ Operands(ASSIGNADDBYTES) = <<"addr_bytes", "bytes">>
  /\ Operands(APPENDARR) = <<"addr_arr", "any">>
  /\ \A op \in {GETINDEX, SETINDEX} : Operands(op) = <<"item", "any">>
  /\ Operands(GETMAP) = <<"map", "any">>
  /\ Operands(ASSIGNSETMAP) = <<"map", "str", "any">>
  /\ Operands(ASSIGNSETARR) = <<"arr", "any", "any">>
  /\ Operands(ASSIGNSETBYTES) = <<"bytes", "any", "any">>
  /\ Operands(COPYSTR) = <<"str">>
  /\ Operands(COPY) = <<CopySort(W(1))>>
  /\ Operands(PARCONTRACT) = <<CopySort(W(2))>>
  /\ \A op \in {GETPARAMS, INITARR} : Operands(op) = [k \in 1..W(1) |-> "any"]
  /\ Operands(INITMAP) = [k \in 1..2 * W(1) |-> IF k % 2 = 1 THEN "str" ELSE "any"]
  /\ Operands(INITOBJ) = [k \in 1..3 * W(1) |-> IF k % 3 = 1 THEN "str" ELSE "any"]
  /\ Operands(INITOBJLIST) = [k \in 1..2 * W(1) |-> "any"]
  /\ Operands(OBJ2LIST) = <<"obj">>
  /\ Operands(EMBEDFUNC) = LibSig(W(1))
  /\ Operands(CUSTOMFUNC) = [k \in 1..Len(HostFunc.params) |-> HostSort(HostFunc.params[k])]
<1> USE DEF NOP, PUSH16, PUSH32, PUSHSTR, INITVARS, DELVARS, ADDINT, SUBINT, MULINT,
           DIVINT, MODINT, EQINT, LTINT, GTINT, AND, OR, DUP, GETVAR, SETVAR, JMP,
           JMPREL, JZE, JNZ, ASSIGNINT, ASSIGNSTR, ASSIGNADDINT, ASSIGNSUBINT,
           ASSIGNMULINT, ASSIGNDIVINT, ASSIGNMODINT, CALLFUNC, EMBEDFUNC,
           CUSTOMFUNC, CALLCONTRACT, LOADPARS, PARCONTRACT, GETPARAMS, RETURN,
           RETFUNC, SIGNINT, NOT, ADDSTR, EQSTR, ASSIGNADDSTR, APPENDARR, GETINDEX,
           SETINDEX, GETMAP, SETMAP, COPYSTR, COPY, ASSIGNSETMAP, ASSIGNSETARR,
           ASSIGNSETBYTES, INITARR, INITMAP, INITOBJ, INITOBJLIST, OBJ2LIST, ENV,
           PUSH64, SIGNFLOAT, ADDFLOAT, SUBFLOAT, MULFLOAT, DIVFLOAT,
           ASSIGNADDFLOAT, ASSIGNSUBFLOAT, ASSIGNMULFLOAT, ASSIGNDIVFLOAT, EQFLOAT,
           LTFLOAT, GTFLOAT, ADDMONEY, SUBMONEY, MULMONEY, DIVMONEY, SIGNMONEY,
           ASSIGNADDMONEY, ASSIGNSUBMONEY, ASSIGNMULMONEY, ASSIGNDIVMONEY, EQMONEY,
           LTMONEY, GTMONEY, ASSIGNADDBYTES, DATA
<1> USE DEF Operands, Demands, IntBinary, IntDivide, IntAssign, IntAssignDivide, MoneyBinary, MoneyCompare, MoneyAssign
<1>1. /\ Operands(ADDINT) = <<"any", "any">> /\ Operands(SUBINT) = <<"any", "any">>
      /\ Operands(MULINT) = <<"any", "any">> /\ Operands(EQINT) = <<"any", "any">>
      /\ Operands(LTINT) = <<"any", "any">> /\ Operands(GTINT) = <<"any", "any">>
      /\ Operands(AND) = <<"any", "any">> /\ Operands(OR) = <<"any", "any">>
      /\ Operands(DIVINT) = <<"any", "any">> /\ Operands(MODINT) = <<"any", "any">>
  OBVIOUS
<1>2. /\ Operands(ASSIGNADDINT) = <<"addr", "any">>
      /\ Operands(ASSIGNSUBINT) = <<"addr", "any">>
      /\ Operands(ASSIGNMULINT) = <<"addr", "any">>
      /\ Operands(ASSIGNDIVINT) = <<"addr", "any">>
      /\ Operands(ASSIGNMODINT) = <<"addr", "any">> /\ Operands(ASSIGNINT) = <<"addr", "any">>
  OBVIOUS
<1>3. /\ Operands(DUP) = <<"any">> /\ Operands(JZE) = <<"any">> /\ Operands(JNZ) = <<"any">>
      /\ Operands(SIGNINT) = <<"any">> /\ Operands(NOT) = <<"any">>
      /\ Operands(SETMAP) = <<"any">>
  OBVIOUS
<1>4. /\ Operands(ADDMONEY) = <<"money", "money">> /\ Operands(SUBMONEY) = <<"money", "money">>
      /\ Operands(MULMONEY) = <<"money", "money">> /\ Operands(DIVMONEY) = <<"money", "money">>
      /\ Operands(EQMONEY) = <<"money", "money">> /\ Operands(LTMONEY) = <<"money", "money">>
      /\ Operands(GTMONEY) = <<"money", "money">>
  OBVIOUS
<1>5. /\ Operands(ASSIGNADDMONEY) = <<"addr_money", "money">>
      /\ Operands(ASSIGNSUBMONEY) = <<"addr_money", "money">>
      /\ Operands(ASSIGNMULMONEY) = <<"addr_money", "money">>
      /\ Operands(ASSIGNDIVMONEY) = <<"addr_money", "money">>
  OBVIOUS
<1>6. /\ Operands(SIGNMONEY) = <<"money">> /\ Operands(COPYSTR) = <<"str">>
  OBVIOUS
<1>7. Operands(RETURN) = <<PrintSort(W(1))>>
  OBVIOUS
<1>8. Operands(COPY) = <<CopySort(W(1))>>
  OBVIOUS
<1>9. Operands(PARCONTRACT) = <<CopySort(W(2))>>
  OBVIOUS
<1>10. /\ Operands(ADDSTR) = <<"str", "str">> /\ Operands(EQSTR) = <<"str", "str">>
  OBVIOUS
<1>11. Operands(ASSIGNSTR) = <<"addr", "str">>
  OBVIOUS
<1>12. Operands(ASSIGNADDSTR) = <<"addr_str", "str">>
  OBVIOUS
<1>13. Operands(ASSIGNADDBYTES) = <<"addr_bytes", "bytes">>
  OBVIOUS
<1>14. Operands(APPENDARR) = <<"addr_arr", "any">>
  OBVIOUS
<1>15. /\ Operands(GETINDEX) = <<"item", "any">> /\ Operands(SETINDEX) = <<"item", "any">>
  OBVIOUS
<1>16. Operands(GETMAP) = <<"map", "any">>
  OBVIOUS
<1>17. Operands(ASSIGNSETMAP) = <<"map", "str", "any">>
  OBVIOUS
<1>18. Operands(ASSIGNSETARR) = <<"arr", "any", "any">>
  OBVIOUS
<1>19. Operands(ASSIGNSETBYTES) = <<"bytes", "any", "any">>
  OBVIOUS
<1>20. Operands(GETPARAMS) = [k \in 1..W(1) |-> "any"]
  OBVIOUS
<1>21. Operands(INITARR) = [k \in 1..W(1) |-> "any"]
  OBVIOUS
<1>22. Operands(INITMAP) = [k \in 1..2 * W(1) |-> IF k % 2 = 1 THEN "str" ELSE "any"]
  OBVIOUS
<1>23. Operands(EMBEDFUNC) = LibSig(W(1))
  OBVIOUS
<1>24. Operands(CUSTOMFUNC) = [k \in 1..Len(HostFunc.params) |-> HostSort(HostFunc.params[k])]
  BY DEF HostFunc
<1>25. Operands(INITOBJ) = [k \in 1..3 * W(1) |-> IF k % 3 = 1 THEN "str" ELSE "any"]
  OBVIOUS
<1>26. Operands(INITOBJLIST) = [k \in 1..2 * W(1) |-> "any"]
  OBVIOUS
<1>27. Operands(OBJ2LIST) = <<"obj">>
  OBVIOUS
<1> HIDE DEF Operands, Demands
<1> QED
  BY <1>1, <1>2, <1>3, <1>4, <1>5, <1>6, <1>7, <1>8, <1>9, <1>10, <1>11, <1>12, <1>13,
     <1>14, <1>15, <1>16, <1>17, <1>18, <1>19, <1>20, <1>21, <1>22, <1>23, <1>24, <1>25, <1>26,
     <1>27, Zenon

\* What an operand that fits its sort can be used for.
LEMMA FitsOf ==
  ASSUME NEW v
  PROVE  /\ Fits(v, "str") => IsString(v)
         /\ Fits(v, "item") => IsObject(v)
         /\ Fits(v, "addr") => IsAddress(v)
         /\ Fits(v, "addr_str") => IsAddress(v) /\ IsString(Pointed(v))
         /\ Fits(v, "addr_arr") => IsAddress(v) /\ IsKind(Pointed(v), "arr")
         /\ Fits(v, "addr_bytes") => IsAddress(v) /\ IsKind(Pointed(v), "bytes")
         /\ Fits(v, "addr_money") => IsAddress(v) /\ IsKind(Pointed(v), "money")
         /\ \A sort \in {"money", "arr", "map", "bytes", "file", "obj"} :
              Fits(v, sort) => IsKind(v, sort)
BY DEF Fits

\* What an action finds once its instruction has been dispatched.
LEMMA Dispatched ==
  ASSUME TypeOK, NEW ops, Dispatch(ops)
  PROVE  /\ Op \in ops /\ status = "running" /\ Fetching
         /\ act \in ActivationType /\ act.gas < act.limit
         /\ act.i \in 0..Len(cnt.code) - 1 /\ act.i + Words(Op) <= Len(cnt.code)
         /\ Known /\ OperandsFit /\ IndicesFit /\ ItemsFit /\ Failure = "none" /\ Supported
BY DEF Dispatch, Paid, Fetching, Sound, Known, TypeOK

\* The operand words of a dispatched instruction lie inside the code.
LEMMA OperandWord ==
  ASSUME TypeOK, NEW ops, Dispatch(ops), NEW k \in Nat \ {0}, k < Words(Op)
  PROVE  W(k) \in 0..WordMax /\ W(k) \in Nat
<1>1. act.i \in 0..Len(cnt.code) - 1 /\ act.i + Words(Op) <= Len(cnt.code)
  BY Dispatched
<1>2. Words(Op) \in Nat /\ Len(cnt.code) \in Nat
  BY WordsType, Dispatched, CodeType
<1>3. act.i + 1 + k \in 1..Len(cnt.code)
  BY <1>1, <1>2
<1> QED BY <1>3, WordType

\* A cell that is not below the bottom of the operand stack is a number.
LEMMA CellType ==
  ASSUME act \in ActivationType, NEW k \in Nat, k <= act.top
  PROVE  Cell(k) \in Int
<1>1. act.top \in Depths /\ act.stack \in Stacks
  BY DEF ActivationType
<1>2. act.top - k \in 0..StackSize - 1
  BY <1>1, SizesAssumption DEF Depths
<1> QED BY <1>1, <1>2 DEF Cell, Stacks

\* The operand of an instruction that takes one.
LEMMA Operand1 ==
  ASSUME TypeOK, OperandsFit, NEW s, Operands(Op) = <<s>>
  PROVE  act.top \in Nat /\ Cell(0) \in Int /\ Fits(Cell(0), s)
<1>1. act \in ActivationType /\ act.top \in Int
  BY DEF TypeOK, ActivationType, Depths
<1>2. act.top >= 0 /\ Fits(act.stack[act.top - 1 + 1], s)
  BY DEF OperandsFit
<1> QED BY <1>1, <1>2, CellType DEF Cell

\* The operands of an instruction that takes two.
LEMMA Operand2 ==
  ASSUME TypeOK, OperandsFit, NEW s, NEW t, Operands(Op) = <<s, t>>
  PROVE  /\ act.top \in Nat \ {0} /\ Cell(0) \in Int /\ Cell(1) \in Int
         /\ Fits(Cell(1), s) /\ Fits(Cell(0), t)
<1>1. act \in ActivationType /\ act.top \in Int
  BY DEF TypeOK, ActivationType, Depths
<1>2. /\ act.top >= 1
      /\ Fits(act.stack[act.top - 2 + 1], s) /\ Fits(act.stack[act.top - 2 + 2], t)
  BY DEF OperandsFit
<1> QED BY <1>1, <1>2, CellType DEF Cell

\* The operands of an instruction that takes three.
LEMMA Operand3 ==
  ASSUME TypeOK, OperandsFit, NEW s, NEW t, NEW u, Operands(Op) = <<s, t, u>>
  PROVE  /\ act.top \in Nat /\ act.top >= 2
         /\ Cell(0) \in Int /\ Cell(1) \in Int /\ Cell(2) \in Int
         /\ Fits(Cell(2), s) /\ Fits(Cell(1), t) /\ Fits(Cell(0), u)
<1>1. act \in ActivationType /\ act.top \in Int
  BY DEF TypeOK, ActivationType, Depths
<1>2. /\ act.top >= 2
      /\ Fits(act.stack[act.top - 3 + 1], s) /\ Fits(act.stack[act.top - 3 + 2], t)
      /\ Fits(act.stack[act.top - 3 + 3], u)
  BY DEF OperandsFit
<1> QED BY <1>1, <1>2, CellType DEF Cell

\* The operands of an instruction that takes n.
LEMMA OperandsN ==
  ASSUME TypeOK, OperandsFit, NEW n \in Nat, NEW S, NEW sorts \in Seq(S), sorts = Operands(Op),
         Len(sorts) = n
  PROVE  /\ act.top \in Int /\ n <= act.top + 1
         /\ \A k \in 0..n - 1 : Cell(k) \in Int /\ Fits(Cell(k), sorts[n - k])
<1>1. act \in ActivationType /\ act.top \in Int
  BY DEF TypeOK, ActivationType, Depths
<1>2. act.top >= n - 1 /\ \A k \in 1..n : Fits(act.stack[act.top - n + k], sorts[k])
  BY DEF OperandsFit
<1>3. ASSUME NEW k \in 0..n - 1 PROVE Cell(k) \in Int /\ Fits(Cell(k), sorts[n - k])
  <2>1. n - k \in 1..n /\ act.top - n + (n - k) = act.top - k /\ k \in Nat /\ k <= act.top
    BY <1>1, <1>2
  <2>2. Fits(act.stack[act.top - k], sorts[n - k])
    BY <1>2, <2>1
  <2> QED BY <1>1, <2>1, <2>2, CellType DEF Cell
<1> QED BY <1>1, <1>2, <1>3

-----------------------------------------------------------------------------
(***************************************************************************)
(* The heap and the variables.                                             *)
(***************************************************************************)

\* The index of a text leads to a text.
LEMMA StringType ==
  ASSUME TypeOK, NEW v, IsString(v)
  PROVE  String(v) \in Text /\ v + 1 \in 1..Len(Strings)
<1>1. Strings \in Seq(Text) /\ v + 1 \in 1..Len(Strings)
  BY DEF TypeOK, IsString
<1> QED BY <1>1 DEF String

\* The index of an object leads to an object.
LEMMA ObjectType ==
  ASSUME TypeOK, NEW v, IsObject(v)
  PROVE  Obj(v) \in Object /\ v + 1 \in 1..Len(Objects)
<1>1. Objects \in Seq(Object) /\ v + 1 \in 1..Len(Objects)
  BY DEF TypeOK, IsObject
<1> QED BY <1>1 DEF Obj

\* The address of a variable leads to a number.
LEMMA PointedType ==
  ASSUME TypeOK, NEW v \in Int, IsAddress(v)
  PROVE  Pointed(v) \in Int
<1>1. act.Vars \in Seq(Int)
  BY DEF TypeOK, ActivationType
<1> QED BY <1>1, SizesAssumption DEF IsAddress, Pointed

\* The heap is well formed after the step, and no smaller.
HeapGrows ==
  /\ Strings' \in Seq(Text) /\ Len(Strings) <= Len(Strings')
  /\ Objects' \in Seq(Object) /\ Len(Objects) <= Len(Objects')
  /\ Buffers' \in Seq(Text) /\ BytesBacked'

\* A heap that does not change grows.
LEMMA HeapSame ==
  ASSUME TypeOK, UNCHANGED heap
  PROVE  HeapGrows
BY DEF TypeOK, HeapGrows, heap, BytesBacked, Backed

\* Texts are appended to the heap.
LEMMA StringsGrow ==
  ASSUME TypeOK, NEW ts \in Seq(Text), Strings' = Strings \o ts, UNCHANGED <<Objects, Buffers>>
  PROVE  HeapGrows
BY DEF TypeOK, HeapGrows, BytesBacked, Backed

\* One text is appended to the heap.
LEMMA StringAdded ==
  ASSUME TypeOK, NEW t \in Text, NewString(t), UNCHANGED <<Objects, Buffers>>
  PROVE  HeapGrows
BY DEF TypeOK, HeapGrows, BytesBacked, Backed, NewString

\* Objects appended to the heap; those that are bytes have their backing array.
LEMMA ObjectsGrow ==
  ASSUME TypeOK, NEW ts \in Seq(Text), Strings' = Strings \o ts,
         NEW os \in Seq(Object), Objects' = Objects \o os, UNCHANGED Buffers,
         \A k \in 1..Len(os) : os[k].kind = "bytes" => Backed(os[k])
  PROVE  HeapGrows
<1>1. /\ Strings \in Seq(Text) /\ Objects \in Seq(Object) /\ Buffers \in Seq(Text)
      /\ BytesBacked
  BY DEF TypeOK
<1>2. Strings' \in Seq(Text) /\ Len(Strings) <= Len(Strings')
  BY <1>1
<1>3. Objects' \in Seq(Object) /\ Len(Objects) <= Len(Objects')
  BY <1>1
<1>4. ASSUME NEW k \in DOMAIN Objects', Objects'[k].kind = "bytes" PROVE Backed(Objects[k])'
  <2>1. CASE k <= Len(Objects)
    <3>1. Objects'[k] = Objects[k] /\ k \in DOMAIN Objects
      BY <1>1, <2>1
    <3> QED BY <1>1, <1>4, <3>1 DEF BytesBacked, Backed
  <2>2. CASE k > Len(Objects)
    <3>1. Objects'[k] = os[k - Len(Objects)] /\ k - Len(Objects) \in 1..Len(os)
      BY <1>1, <2>2
    <3> QED BY <1>4, <3>1 DEF Backed
  <2> QED BY <1>1, <1>3, <2>1, <2>2
<1> QED BY <1>1, <1>2, <1>3, <1>4 DEF HeapGrows, BytesBacked

\* One object is appended to the heap.
LEMMA ObjectAdded ==
  ASSUME TypeOK, NEW o \in Object, NewObject(o), UNCHANGED <<Strings, Buffers>>,
         o.kind = "bytes" => Backed(o)
  PROVE  HeapGrows
<1>1. Strings \in Seq(Text) /\ Objects \in Seq(Object)
  BY DEF TypeOK
<1>2. Strings' = Strings \o <<>> /\ Objects' = Objects \o <<o>>
  BY <1>1 DEF NewObject
<1>3. <<>> \in Seq(Text) /\ <<o>> \in Seq(Object) /\ \A k \in 1..Len(<<o>>) : <<o>>[k] = o
  OBVIOUS
<1> QED BY <1>2, <1>3, ObjectsGrow

\* Objects changed in place: none becomes bytes, and none gets longer bytes.
LEMMA ObjectChanged ==
  ASSUME TypeOK, NEW k \in DOMAIN Objects, NEW o \in Object,
         Objects' = [Objects EXCEPT ![k] = o], UNCHANGED <<Strings, Buffers>>,
         o.kind = "bytes" => Backed(o)
  PROVE  HeapGrows
<1>1. /\ Strings \in Seq(Text) /\ Objects \in Seq(Object) /\ Buffers \in Seq(Text)
      /\ BytesBacked
  BY DEF TypeOK
<1>2. Objects' \in Seq(Object) /\ Len(Objects') = Len(Objects)
  BY <1>1
<1>3. ASSUME NEW j \in DOMAIN Objects', Objects'[j].kind = "bytes" PROVE Backed(Objects[j])'
  <2>1. CASE j = k
    BY <1>1, <1>3, <2>1 DEF Backed
  <2>2. CASE j # k
    BY <1>1, <1>3, <2>2 DEF BytesBacked, Backed
  <2> QED BY <2>1, <2>2
<1> QED BY <1>1, <1>2, <1>3 DEF HeapGrows, BytesBacked

\* The empty object is an object.
LEMMA BlankObject ==
  Blank \in Object /\ Blank.kind = "blank"
<1>1. <<>> \in Seq(Int) /\ <<>> \in Seq(Text) /\ <<>> \in Tree
  BY DEF Tree
<1> QED BY <1>1 DEF Blank, Object, Kinds

\* An array is an object.
LEMMA ArrObject ==
  ASSUME NEW items \in Seq(Int)
  PROVE  Arr(items) \in Object /\ Arr(items).kind = "arr"
BY BlankObject DEF Arr, Object, Kinds

\* A map is an object.
LEMMA MapObject ==
  ASSUME NEW ks \in Seq(Text), NEW items \in Seq(Int)
  PROVE  Map(ks, items) \in Object /\ Map(ks, items).kind = "map"
BY BlankObject DEF Map, Object, Kinds

\* An amount is an object.
LEMMA MoneyObject ==
  ASSUME NEW n \in Int, NEW d \in Nat \ {0}
  PROVE  Money(n, d) \in Object /\ Money(n, d).kind = "money"
BY BlankObject DEF Money, Object, Kinds

\* Bytes are an object.
LEMMA BytesObject ==
  ASSUME NEW b \in Nat, NEW n \in Int
  PROVE  /\ Bytes(b, n) \in Object
         /\ Bytes(b, n).kind = "bytes" /\ Bytes(b, n).buf = b /\ Bytes(b, n).num = n
BY BlankObject DEF Bytes, Object, Kinds

\* A Map or a list with the entries of a tree is an object.
LEMMA JsonObjectType ==
  ASSUME NEW kind \in {"obj", "list"}, NEW t \in Tree
  PROVE  JsonObject(kind, t) \in Object /\ JsonObject(kind, t).kind # "bytes"
BY BlankObject DEF JsonObject, Object, Kinds

\* An object with another number, or other items.
LEMMA NumObject ==
  ASSUME NEW o \in Object, NEW n \in Int
  PROVE  /\ [o EXCEPT !.num = n] \in Object /\ [o EXCEPT !.num = n].num = n
         /\ [o EXCEPT !.num = n].buf = o.buf /\ [o EXCEPT !.num = n].kind = o.kind
BY DEF Object

\* An object that is not bytes, with other items.
LEMMA ItemsObject ==
  ASSUME NEW o \in Object, NEW items \in Seq(Int), o.kind # "bytes"
  PROVE  [o EXCEPT !.items = items] \in Object /\ [o EXCEPT !.items = items].kind # "bytes"
BY DEF Object

-----------------------------------------------------------------------------
(***************************************************************************)
(* Steps within one activation.                                            *)
(***************************************************************************)

\* An instruction that calls and leaves no contract.
Local ==
  /\ status = "running" /\ UNCHANGED <<prog, callers, status, result, error>>
  /\ SameFrame(act', act) /\ HeapGrows

\* Going on to the next instruction keeps the frame.
LEMMA ProceedFrame ==
  ASSUME TypeOK, Fetching, NEW a, SameFrame(a, act), Proceed(a)
  PROVE  SameFrame(act', act) /\ UNCHANGED <<prog, callers, status, result, error>>
<1>1. Words(Op) \in Int /\ a \in ActivationType /\ a.i \in Int /\ a.gas \in Int
  BY WordsType DEF SameFrame, ActivationType
<1>2. a.i + Words(Op) \in Int /\ a.gas + 1 \in Int
  BY <1>1
<1>3. SameFrame([a EXCEPT !.i = a.i + Words(Op), !.gas = a.gas + 1], a)
  BY <1>1, <1>2, MoveFrame
<1>4. act' = [a EXCEPT !.i = a.i + Words(Op), !.gas = a.gas + 1]
  BY <1>1 DEF Proceed, ActivationType
<1>5. SameFrame(act', a)
  BY <1>3, <1>4, Zenon
<1> QED BY <1>5, FrameTransitive DEF Proceed

\* Jumping keeps the frame.
LEMMA JumpFrame ==
  ASSUME TypeOK, Fetching, NEW a, SameFrame(a, act), Jump(a), W(1) \in Nat
  PROVE  SameFrame(act', act) /\ UNCHANGED <<prog, callers, status, result, error, heap>>
<1>1. Signed(W(1)) \in Int /\ a \in ActivationType /\ a.i \in Int /\ a.gas \in Int
  BY DEF Signed, SameFrame, ActivationType
<1>2. a.i + Signed(W(1)) \in Int /\ a.gas + 1 \in Int
  BY <1>1
<1>3. SameFrame([a EXCEPT !.i = a.i + Signed(W(1)), !.gas = a.gas + 1], a)
  BY <1>1, <1>2, MoveFrame
<1>4. act' = [a EXCEPT !.i = a.i + Signed(W(1)), !.gas = a.gas + 1]
  BY <1>1 DEF Jump, ActivationType
<1>5. SameFrame(act', a)
  BY <1>3, <1>4, Zenon
<1> QED BY <1>5, FrameTransitive DEF Jump

\* What an instruction that does not fail has checked.
LEMMA Unfailing ==
  ASSUME Failure = "none"
  PROVE  /\ Op \in IntDivide \cup IntAssignDivide => Cell(0) # 0
         /\ Op \in {DIVMONEY, ASSIGNDIVMONEY} => Obj(Cell(0)).num # 0
         /\ Op = GETINDEX /\ Obj(Cell(1)).kind \in {"arr", "bytes"} =>
              Cell(0) \in 0..ObjLen(Obj(Cell(1))) - 1
         /\ Op = GETMAP => IsString(Cell(0)) /\ HasKey(Obj(Cell(1)), String(Cell(0)))
         /\ Op = ASSIGNSETBYTES => Cell(0) \in 0..255
         /\ Op = EMBEDFUNC /\ W(1) = IntStr => Parsed(String(Cell(0)))
         /\ Op = EMBEDFUNC /\ W(1) = Substr => ~SubstrRefused
BY DEF Failure

-----------------------------------------------------------------------------
(***************************************************************************)
(* The ways a Local step changes the operand stack.                        *)
(***************************************************************************)

\* An instruction that pushes one value is Local.
LEMMA PushLocal ==
  ASSUME TypeOK, NEW ops, Dispatch(ops), Pushes(Op), NEW v \in Int, Proceed(Push(v)), HeapGrows
  PROVE  Local
<1>1. Fetching /\ status = "running" /\ OperandsFit /\ act \in ActivationType
  BY Dispatched
<1>2. act.top + 1 < StackSize
  BY <1>1 DEF OperandsFit
<1>3. SameFrame(Push(v), act)
  BY <1>1, <1>2, PushFrame
<1> QED BY <1>1, <1>3, ProceedFrame DEF Local

\* An instruction that only takes its operands is Local.
LEMMA DropLocal ==
  ASSUME TypeOK, NEW ops, Dispatch(ops), NEW n \in Nat, n <= act.top + 1, Proceed(Drop(n)), HeapGrows
  PROVE  Local
<1>1. Fetching /\ status = "running" /\ act \in ActivationType
  BY Dispatched
<1>2. SameFrame(Drop(n), act)
  BY <1>1, DropFrame
<1> QED BY <1>1, <1>2, ProceedFrame DEF Local

\* An instruction that replaces its operands by one value is Local.
LEMMA ReplaceLocal ==
  ASSUME TypeOK, NEW ops, Dispatch(ops), NEW n \in Nat, n <= act.top + 1, n = 0 => Pushes(Op),
         NEW v \in Int, Proceed(Replace(n, v)), HeapGrows
  PROVE  Local
<1>1. Fetching /\ status = "running" /\ OperandsFit /\ act \in ActivationType
  BY Dispatched
<1>2. n = 0 => act.top + 1 < StackSize
  BY <1>1 DEF OperandsFit
<1>3. SameFrame(Replace(n, v), act)
  BY <1>1, <1>2, ReplaceFrame
<1> QED BY <1>1, <1>3, ProceedFrame DEF Local

\* An instruction that stores one value into a variable is Local.
LEMMA StoreLocal ==
  ASSUME TypeOK, NEW ops, Dispatch(ops), NEW addr \in Int, IsAddress(addr), NEW v \in Int,
         NEW n \in Nat, n <= act.top + 1, Proceed(Store(addr, v, n)), HeapGrows
  PROVE  Local
<1>1. Fetching /\ status = "running" /\ act \in ActivationType
  BY Dispatched
<1>2. SameFrame(Store(addr, v, n), act)
  BY <1>1, StoreFrame
<1> QED BY <1>1, <1>2, ProceedFrame DEF Local

\* An instruction that jumps is Local.
LEMMA JumpLocal ==
  ASSUME TypeOK, NEW ops, Dispatch(ops), Words(Op) = 2, NEW a, SameFrame(a, act), Jump(a)
  PROVE  Local
<1>1. Fetching /\ status = "running"
  BY Dispatched
<1>2. W(1) \in Nat
  BY OperandWord
<1>3. SameFrame(act', act) /\ UNCHANGED <<prog, callers, status, result, error, heap>>
  BY <1>1, <1>2, JumpFrame
<1> QED BY <1>1, <1>3, HeapSame DEF Local

-----------------------------------------------------------------------------
(***************************************************************************)
(* Literals, variables, the operand stack.                                 *)
(***************************************************************************)

\* A wrapped number is a number.
LEMMA WrapType ==
  ASSUME NEW x \in Int
  PROVE  Wrap(x) \in Int
BY SizesAssumption DEF Wrap

\* A shifted natural number is one.
LEMMA Shift16Type ==
  ASSUME NEW x \in Nat
  PROVE  Shift16(x) \in Nat
<1>1. HalfRange \div 32768 \in Nat /\ HalfRange \div 32768 >= 1
  BY SizesAssumption
<1>2. x % (HalfRange \div 32768) \in Nat
  BY <1>1
<1> QED BY <1>2 DEF Shift16

\* Push16 is a Local step.
LEMMA Push16Local ==
  ASSUME TypeOK, Push16
  PROVE  Local
<1>1. Dispatch({PUSH16}) /\ Op = PUSH16 /\ Proceed(Push(W(1))) /\ HeapGrows
  BY Dispatched, HeapSame DEF Push16
<1>2. W(1) \in Int
  BY <1>1, WordsOf, OperandWord
<1>3. Pushes(Op)
  BY <1>1 DEF Pushes
<1> QED BY <1>1, <1>2, <1>3, PushLocal

\* Push32 is a Local step.
LEMMA Push32Local ==
  ASSUME TypeOK, Push32
  PROVE  Local
<1>1. Dispatch({PUSH32}) /\ Op = PUSH32 /\ Proceed(Push(W(1) * 65536 + W(2))) /\ HeapGrows
  BY Dispatched, HeapSame DEF Push32
<1>2. Words(Op) = 3
  BY <1>1, WordsOf
<1>3. W(1) \in Nat /\ W(2) \in Nat
  BY <1>1, <1>2, OperandWord
<1>4. Pushes(Op)
  BY <1>1 DEF Pushes
<1>5. W(1) * 65536 + W(2) \in Int
  BY <1>3
<1> QED BY <1>1, <1>4, <1>5, PushLocal

\* Push64 is a Local step.
LEMMA Push64Local ==
  ASSUME TypeOK, Push64
  PROVE  Local
<1> DEFINE n == Shift16(Shift16(Shift16(W(1)) + W(2)) + W(3)) + W(4)
<1>1. Dispatch({PUSH64}) /\ Op = PUSH64 /\ Proceed(Push(Wrap(n))) /\ HeapGrows
  BY Dispatched, HeapSame DEF Push64
<1>2. Words(Op) = 5
  BY <1>1, WordsOf
<1>3. W(1) \in Nat /\ W(2) \in Nat /\ W(3) \in Nat /\ W(4) \in Nat
  BY <1>1, <1>2, OperandWord
<1>4. Pushes(Op)
  BY <1>1 DEF Pushes
<1>5. n \in Int
  BY <1>3, Shift16Type
<1>6. Wrap(n) \in Int
  BY <1>5, WrapType
<1> HIDE DEF n
<1> QED BY <1>1, <1>4, <1>6, PushLocal

\* The packed literals are a text.
LEMMA LiteralsType ==
  ASSUME TypeOK
  PROVE  Literals(cnt) \in Text
<1>1. CASE ~HasData(cnt)
  BY <1>1 DEF Literals, Text
<1>2. CASE HasData(cnt)
  <2> DEFINE n == cnt.code[2]
  <2>1. cnt.code \in Seq(0..WordMax) /\ Len(cnt.code) >= 2 /\ Len(cnt.code) >= 2 + n
    BY <1>2, CodeType DEF Packed, HasData
  <2>2. n \in Nat
    <3>1. 2 \in 1..Len(cnt.code)
      BY <2>1
    <3>2. cnt.code[2] \in 0..WordMax
      BY <2>1, <3>1, ElementOfSeq, Zenon
    <3>3. 0..WordMax \subseteq Nat
      BY DEF WordMax
    <3> QED BY <3>2, <3>3, Zenon
  <2>3. ASSUME NEW k \in 1..2 * n
        PROVE  cnt.code[2 + ((k + 1) \div 2)] \in Nat
    <3>1. 2 + ((k + 1) \div 2) \in 1..Len(cnt.code)
      BY <2>1, <2>2
    <3>2. cnt.code[2 + ((k + 1) \div 2)] \in 0..WordMax
      BY <2>1, <3>1, ElementOfSeq, Zenon
    <3>3. 0..WordMax \subseteq Nat
      BY DEF WordMax
    <3> QED BY <3>2, <3>3, Zenon
  <2>4. \A w \in Nat : w \div 256 \in Int /\ w % 256 \in Int
    OBVIOUS
  <2> DEFINE f == [k \in 1..2 * n |->
                    IF k % 2 = 1 THEN cnt.code[2 + ((k + 1) \div 2)] \div 256
                    ELSE cnt.code[2 + ((k + 1) \div 2)] % 256]
  <2>5. f \in [1..2 * n -> Int]
    BY <2>3, <2>4
  <2>6. 2 * n \in Nat
    BY <2>2
  <2>7. Literals(cnt) = f
    BY <1>2 DEF Literals
  <2> HIDE DEF f
  <2>8. f \in Seq(Int)
    BY <2>5, <2>6, FunctionSeq
  <2> QED BY <2>7, <2>8 DEF Text
<1> QED BY <1>1, <1>2

\* PushStr is a Local step.
LEMMA PushStrLocal ==
  ASSUME TypeOK, PushStr
  PROVE  Local
<1> DEFINE t == SubSeq(Literals(cnt), W(1) + 1, Word(W(1) + W(2)))
<1>1. /\ Dispatch({PUSHSTR}) /\ Op = PUSHSTR
      /\ NewString(t) /\ Proceed(Push(Len(Strings))) /\ UNCHANGED <<Objects, Buffers>>
  BY Dispatched DEF PushStr
<1>2. W(1) \in Nat
  BY <1>1, WordsOf, OperandWord
<1>3. Word(W(1) + W(2)) \in W(1)..Len(Literals(cnt))
  BY <1>1, Dispatched DEF IndicesFit
<1>4. t \in Text
  BY <1>2, <1>3, LiteralsType DEF Text
<1>5. HeapGrows
  BY <1>1, <1>4, StringAdded
<1>6. Pushes(Op) /\ Len(Strings) \in Int
  BY <1>1 DEF Pushes, TypeOK
<1> QED BY <1>1, <1>5, <1>6, PushLocal

\* Dup is a Local step.
LEMMA DupLocal ==
  ASSUME TypeOK, Dup
  PROVE  Local
<1>1. Dispatch({DUP}) /\ Op = DUP /\ Proceed(Push(Cell(0))) /\ HeapGrows
  BY Dispatched, HeapSame DEF Dup
<1>2. Operands(Op) = <<"any">>
  BY <1>1, OperandsOf, Zenon
<1>3. Cell(0) \in Int
  BY <1>1, <1>2, Dispatched, Operand1
<1>4. Pushes(Op)
  BY <1>1 DEF Pushes
<1> QED BY <1>1, <1>3, <1>4, PushLocal

\* GetVar is a Local step.
LEMMA GetVarLocal ==
  ASSUME TypeOK, GetVar
  PROVE  Local
<1>1. Dispatch({GETVAR}) /\ Op = GETVAR /\ Proceed(Push(act.Vars[W(1) + 1])) /\ HeapGrows
  BY Dispatched, HeapSame DEF GetVar
<1>2. W(1) \in Nat
  BY <1>1, WordsOf, OperandWord
<1>3. W(1) < Len(act.Vars) /\ act.Vars \in Seq(Int)
  BY <1>1, Dispatched DEF IndicesFit, ActivationType
<1>4. act.Vars[W(1) + 1] \in Int
  BY <1>2, <1>3
<1>5. Pushes(Op)
  BY <1>1 DEF Pushes
<1> QED BY <1>1, <1>4, <1>5, PushLocal

\* SetVar is a Local step.
LEMMA SetVarLocal ==
  ASSUME TypeOK, SetVar
  PROVE  Local
<1>1. Dispatch({SETVAR}) /\ Op = SETVAR /\ Proceed(Push(AddressOf(W(1)))) /\ HeapGrows
  BY Dispatched, HeapSame DEF SetVar
<1>2. W(1) \in Nat
  BY <1>1, WordsOf, OperandWord
<1>3. AddressOf(W(1)) \in Int
  BY <1>2, SizesAssumption DEF AddressOf
<1>4. Pushes(Op)
  BY <1>1 DEF Pushes
<1> QED BY <1>1, <1>3, <1>4, PushLocal

\* Env is a Local step.
LEMMA EnvLocal ==
  ASSUME TypeOK, Env
  PROVE  Local
<1>1. Dispatch({ENV}) /\ Op = ENV /\ Proceed(Push(prog.env[W(1) + 1])) /\ HeapGrows
  BY Dispatched, HeapSame DEF Env
<1>2. W(1) \in Nat
  BY <1>1, WordsOf, OperandWord
<1>3. W(1) < Len(prog.env) /\ prog.env \in Seq(Int)
  BY <1>1, Dispatched DEF IndicesFit, TypeOK, Linked, Program
<1>4. prog.env[W(1) + 1] \in Int
  BY <1>2, <1>3
<1>5. Pushes(Op)
  BY <1>1 DEF Pushes
<1> QED BY <1>1, <1>4, <1>5, PushLocal

-----------------------------------------------------------------------------
(***************************************************************************)
(* Numbers and booleans.                                                   *)
(***************************************************************************)

\* Quotient and remainder are numbers.
LEMMA QuoRemType ==
  ASSUME NEW a \in Int, NEW b \in Int \ {0}
  PROVE  Quo(a, b) \in Int /\ Rem(a, b) \in Int
<1>1. Abs(a) \in Nat /\ Abs(b) \in Nat \ {0}
  BY DEF Abs
<1>2. Quo(a, b) \in Int
  BY <1>1 DEF Quo
<1>3. b * Quo(a, b) \in Int
  BY <1>2
<1> QED BY <1>2, <1>3 DEF Rem

\* The operators on numbers yield numbers, / and % if the divisor is not 0.
LEMMA ArithType ==
  ASSUME NEW a \in Int, NEW b \in Int
  PROVE  /\ \A op \in IntBinary \cup IntAssign : Arith(op, a, b) \in Int
         /\ b # 0 => \A op \in IntDivide \cup IntAssignDivide : Arith(op, a, b) \in Int
<1> USE DEF ADDINT, SUBINT, MULINT, DIVINT, MODINT, EQINT, LTINT, GTINT, AND, OR,
            ASSIGNADDINT, ASSIGNSUBINT, ASSIGNMULINT, ASSIGNDIVINT, ASSIGNMODINT
<1>1. a + b \in Int /\ a - b \in Int /\ a * b \in Int
  OBVIOUS
<1>2. Wrap(a + b) \in Int /\ Wrap(a - b) \in Int /\ Wrap(a * b) \in Int
  BY <1>1, WrapType
<1>3. b # 0 => Wrap(Quo(a, b)) \in Int /\ Rem(a, b) \in Int
  BY QuoRemType, WrapType
<1>4. /\ Arith(ADDINT, a, b) \in Int /\ Arith(SUBINT, a, b) \in Int
      /\ Arith(MULINT, a, b) \in Int /\ Arith(ASSIGNADDINT, a, b) \in Int
      /\ Arith(ASSIGNSUBINT, a, b) \in Int /\ Arith(ASSIGNMULINT, a, b) \in Int
  BY <1>2 DEF Arith
<1>5. /\ Arith(EQINT, a, b) \in Int /\ Arith(LTINT, a, b) \in Int /\ Arith(GTINT, a, b) \in Int
      /\ Arith(AND, a, b) \in Int /\ Arith(OR, a, b) \in Int
  BY DEF Arith, Truth
<1>6. b # 0 => /\ Arith(DIVINT, a, b) \in Int /\ Arith(MODINT, a, b) \in Int
               /\ Arith(ASSIGNDIVINT, a, b) \in Int /\ Arith(ASSIGNMODINT, a, b) \in Int
  BY <1>3 DEF Arith
<1> QED BY <1>4, <1>5, <1>6, Zenon DEF IntBinary, IntAssign, IntDivide, IntAssignDivide

\* Compute is a Local step.
LEMMA ComputeLocal ==
  ASSUME TypeOK, Compute
  PROVE  Local
<1> DEFINE v == Arith(Op, Cell(1), Cell(0))
<1>1. /\ Dispatch(IntBinary \cup IntDivide) /\ Op \in IntBinary \cup IntDivide
      /\ Proceed(Replace(2, v)) /\ HeapGrows
  BY Dispatched, HeapSame DEF Compute
<1>2. Operands(Op) = <<"any", "any">>
  BY <1>1, OperandsOf, Zenon
<1>3. act.top \in Nat \ {0} /\ Cell(0) \in Int /\ Cell(1) \in Int
  BY <1>1, <1>2, Dispatched, Operand2
<1>4. Op \in IntDivide => Cell(0) # 0
  BY <1>1, Dispatched, Unfailing
<1>5. v \in Int
  BY <1>1, <1>3, <1>4, ArithType
<1> HIDE DEF v
<1> QED BY <1>1, <1>3, <1>5, ReplaceLocal

\* Negate is a Local step.
LEMMA NegateLocal ==
  ASSUME TypeOK, Negate
  PROVE  Local
<1>1. /\ Dispatch({SIGNINT}) /\ Op = SIGNINT
      /\ Proceed(Replace(1, Wrap(-Cell(0)))) /\ HeapGrows
  BY Dispatched, HeapSame DEF Negate
<1>2. Operands(Op) = <<"any">>
  BY <1>1, OperandsOf, Zenon
<1>3. act.top \in Nat /\ Cell(0) \in Int
  BY <1>1, <1>2, Dispatched, Operand1
<1>4. Wrap(-Cell(0)) \in Int
  BY <1>3, WrapType
<1> QED BY <1>1, <1>3, <1>4, ReplaceLocal

\* Not is a Local step.
LEMMA NotLocal ==
  ASSUME TypeOK, Not
  PROVE  Local
<1>1. Dispatch({NOT}) /\ Op = NOT /\ Proceed(Replace(1, Truth(Cell(0) = 0))) /\ HeapGrows
  BY Dispatched, HeapSame DEF Not, NOT
<1>2. Operands(Op) = <<"any">>
  BY <1>1, OperandsOf, Zenon
<1>3. act.top \in Nat /\ Cell(0) \in Int
  BY <1>1, <1>2, Dispatched, Operand1, Zenon
<1>4. Truth(Cell(0) = 0) \in Int
  BY DEF Truth
<1> DEFINE v == Truth(Cell(0) = 0)
<1>5. Proceed(Replace(1, v)) /\ v \in Int
  BY <1>1, <1>4
<1> HIDE DEF v
<1>6. 1 \in Nat /\ 1 <= act.top + 1
  BY <1>3
<1> QED BY <1>1, <1>5, <1>6, ReplaceLocal DEF NOT

\* AssignInt is a Local step.
LEMMA AssignIntLocal ==
  ASSUME TypeOK, AssignInt
  PROVE  Local
<1>1. /\ Dispatch({ASSIGNINT}) /\ Op = ASSIGNINT
      /\ Proceed(Store(Cell(1), Cell(0), 2)) /\ HeapGrows
  BY Dispatched, HeapSame DEF AssignInt
<1>2. Operands(Op) = <<"addr", "any">>
  BY <1>1, OperandsOf, Zenon
<1>3. /\ act.top \in Nat \ {0} /\ Cell(0) \in Int /\ Cell(1) \in Int
      /\ Fits(Cell(1), "addr")
  BY <1>1, <1>2, Dispatched, Operand2
<1>4. IsAddress(Cell(1))
  BY <1>3, FitsOf
<1>5. 2 \in Nat /\ 2 <= act.top + 1
  BY <1>3
<1> QED BY <1>1, <1>3, <1>4, <1>5, StoreLocal, Zenon

\* AssignCompute is a Local step.
LEMMA AssignComputeLocal ==
  ASSUME TypeOK, AssignCompute
  PROVE  Local
<1> DEFINE v == Arith(Op, Pointed(Cell(1)), Cell(0))
<1>1. /\ Dispatch(IntAssign \cup IntAssignDivide) /\ Op \in IntAssign \cup IntAssignDivide
      /\ Proceed(Store(Cell(1), v, 2)) /\ HeapGrows
  BY Dispatched, HeapSame DEF AssignCompute
<1>2. Operands(Op) = <<"addr", "any">>
  BY <1>1, OperandsOf, Zenon
<1>3. /\ act.top \in Nat \ {0} /\ Cell(0) \in Int /\ Cell(1) \in Int
      /\ Fits(Cell(1), "addr")
  BY <1>1, <1>2, Dispatched, Operand2
<1>4. IsAddress(Cell(1)) /\ Pointed(Cell(1)) \in Int
  BY <1>3, FitsOf, PointedType
<1>5. Op \in IntAssignDivide => Cell(0) # 0
  BY <1>1, Dispatched, Unfailing
<1>6. v \in Int
  BY <1>1, <1>3, <1>4, <1>5, ArithType
<1> HIDE DEF v
<1>7. 2 \in Nat /\ 2 <= act.top + 1
  BY <1>3
<1> QED BY <1>1, <1>3, <1>4, <1>6, <1>7, StoreLocal, Zenon

-----------------------------------------------------------------------------
(***************************************************************************)
(* Jumps and functions.                                                    *)
(***************************************************************************)

\* Jmp is a Local step.
LEMMA JmpLocal ==
  ASSUME TypeOK, Jmp
  PROVE  Local
<1>1. Dispatch({JMP}) /\ Op = JMP /\ Jump([act EXCEPT !.top = 0])
  BY Dispatched DEF Jmp
<1>2. act \in ActivationType /\ 0 \in Depths
  BY <1>1, Dispatched, SizesAssumption DEF Depths
<1>3. SameFrame([act EXCEPT !.top = 0], act)
  BY <1>2, TopFrame
<1>4. Words(Op) = 2
  BY <1>1, WordsOf
<1> QED BY <1>1, <1>3, <1>4, JumpLocal

\* An activation that does not change keeps its frame.
LEMMA SameAsItself ==
  ASSUME act \in ActivationType
  PROVE  SameFrame(act, act)
BY DEF SameFrame

\* JmpRel is a Local step.
LEMMA JmpRelLocal ==
  ASSUME TypeOK, JmpRel
  PROVE  Local
<1>1. Dispatch({JMPREL}) /\ Op = JMPREL /\ Jump(act) /\ SameFrame(act, act)
  BY Dispatched, SameAsItself DEF JmpRel
<1>2. Words(Op) = 2
  BY <1>1, WordsOf
<1> QED BY <1>1, <1>2, JumpLocal

\* JumpIf is a Local step.
LEMMA JumpIfLocal ==
  ASSUME TypeOK, JumpIf
  PROVE  Local
<1>1. /\ Dispatch({JZE, JNZ}) /\ Op \in {JZE, JNZ}
      /\ Jump(Drop(1)) \/ (Proceed(Drop(1)) /\ HeapGrows)
  BY Dispatched, HeapSame DEF JumpIf
<1>2. Operands(Op) = <<"any">> /\ Words(Op) = 2
  BY <1>1, OperandsOf, WordsOf, Zenon
<1>3. act.top \in Nat /\ act \in ActivationType
  BY <1>1, <1>2, Dispatched, Operand1
<1>4. SameFrame(Drop(1), act)
  BY <1>3, DropFrame
<1>5. CASE Jump(Drop(1))
  BY <1>1, <1>2, <1>4, <1>5, JumpLocal
<1>6. CASE Proceed(Drop(1)) /\ HeapGrows
  BY <1>1, <1>3, <1>6, DropLocal
<1> QED BY <1>1, <1>5, <1>6

\* CallFunc is a Local step.
LEMMA CallFuncLocal ==
  ASSUME TypeOK, CallFunc
  PROVE  Local
<1> DEFINE r == [ret |-> act.i + 2, top |-> act.top]
<1>1. Dispatch({CALLFUNC}) /\ Op = CALLFUNC /\ Jump([act EXCEPT !.calls = Append(@, r)])
  BY Dispatched DEF CallFunc
<1>2. act \in ActivationType
  BY <1>1, Dispatched
<1>3. r \in Returns
  BY <1>2 DEF ActivationType, Depths, Returns
<1>4. act.calls \in Seq(Returns)
  BY <1>2 DEF ActivationType
<1> HIDE DEF r
<1>5. Append(act.calls, r) \in Seq(Returns)
  BY <1>3, <1>4
<1>6. SameFrame([act EXCEPT !.calls = Append(@, r)], act)
  BY <1>2, <1>5 DEF SameFrame, ActivationType
<1>7. Words(Op) = 2
  BY <1>1, WordsOf
<1> QED BY <1>1, <1>6, <1>7, JumpLocal

\* n operands of any sort.
LEMMA AnyOperands ==
  ASSUME TypeOK, OperandsFit, NEW n \in Nat, Operands(Op) = [k \in 1..n |-> "any"]
  PROVE  n <= act.top + 1 /\ \A k \in 0..n - 1 : Cell(k) \in Int
<1> DEFINE sorts == [k \in 1..n |-> "any"]
<1>1. sorts \in [1..n -> {"any"}]
  OBVIOUS
<1> HIDE DEF sorts
<1>2. sorts \in Seq({"any"}) /\ Len(sorts) = n
  BY <1>1, FunctionSeq
<1>3. sorts = Operands(Op)
  BY DEF sorts
<1> QED BY <1>2, <1>3, OperandsN

\* GetParams is a Local step.
LEMMA GetParamsLocal ==
  ASSUME TypeOK, GetParams
  PROVE  Local
<1> DEFINE vs == [k \in DOMAIN act.Vars |->
                    IF \E j \in 1..W(1) : W(1 + j) = k - 1
                    THEN Cell((CHOOSE j \in 1..W(1) : W(1 + j) = k - 1) - 1)
                    ELSE act.Vars[k]]
<1>1. Dispatch({GETPARAMS}) /\ Op = GETPARAMS /\ Proceed([Drop(W(1)) EXCEPT !.Vars = vs]) /\ HeapGrows
  BY Dispatched, HeapSame DEF GetParams
<1>2. W(1) \in Nat
  <2>1. Words(Op) \in Nat /\ Words(Op) >= 2
    <3>1. Fetching
      BY <1>1, Dispatched
    <3>2. Words(Op) \in Nat
      BY <3>1, WordsType
    <3>3. CASE act.i + 1 < Len(cnt.code)
      <4>1. act.i + 1 + 1 \in 1..Len(cnt.code)
        BY <3>1, <3>3, CodeType DEF Fetching
      <4>2. W(1) \in Nat
        BY <4>1, WordType
      <4> QED BY <1>1, <3>3, <4>2, <3>2, WordsOf
    <3>4. CASE ~(act.i + 1 < Len(cnt.code))
      BY <1>1, <3>2, <3>4, WordsOf
    <3> QED BY <3>3, <3>4
  <2>2. 1 < Words(Op)
    BY <2>1
  <2> QED BY <1>1, <2>2, OperandWord
<1>3. Operands(Op) = [k \in 1..W(1) |-> "any"]
  BY <1>1, OperandsOf, Zenon
<1>4. act \in ActivationType /\ OperandsFit
  BY <1>1, Dispatched
<1>5. W(1) <= act.top + 1 /\ \A k \in 0..W(1) - 1 : Cell(k) \in Int
  BY <1>2, <1>3, <1>4, AnyOperands
<1>6. act.Vars \in Seq(Int)
  BY <1>4 DEF ActivationType
<1>7. vs \in Seq(Int)
  <2>1. ASSUME NEW k \in DOMAIN act.Vars PROVE vs[k] \in Int
    <3>1. CASE \E j \in 1..W(1) : W(1 + j) = k - 1
      <4> DEFINE first == CHOOSE j \in 1..W(1) : W(1 + j) = k - 1
      <4>1. first \in 1..W(1)
        BY <3>1
      <4> HIDE DEF first
      <4>2. first - 1 \in 0..W(1) - 1
        BY <1>2, <4>1
      <4>3. Cell(first - 1) \in Int
        BY <1>5, <4>2
      <4> QED BY <3>1, <4>3 DEF first
    <3>2. CASE ~\E j \in 1..W(1) : W(1 + j) = k - 1
      BY <1>6, <3>2
    <3> QED BY <3>1, <3>2
  <2>2. DOMAIN vs = 1..Len(act.Vars) /\ Len(act.Vars) \in Nat
    BY <1>6
  <2>3. vs \in [1..Len(act.Vars) -> Int]
    BY <2>1, <2>2
  <2> HIDE DEF vs
  <2> QED BY <2>2, <2>3, FunctionSeq
<1> HIDE DEF vs
<1>8. SameFrame(Drop(W(1)), act)
  BY <1>2, <1>4, <1>5, DropFrame
<1>9. SameFrame([Drop(W(1)) EXCEPT !.Vars = vs], Drop(W(1)))
  BY <1>7, <1>8, VarsFrame DEF SameFrame
<1>10. SameFrame([Drop(W(1)) EXCEPT !.Vars = vs], act)
  BY <1>8, <1>9, FrameTransitive
<1>11. status = "running" /\ Fetching
  BY <1>1, Dispatched
<1> QED BY <1>1, <1>10, <1>11, ProceedFrame DEF Local

\* RetFunc is a Local step.
LEMMA RetFuncLocal ==
  ASSUME TypeOK, RetFunc
  PROVE  Local
<1>1. /\ Dispatch({RETFUNC}) /\ Op = RETFUNC
      /\ act' = [act EXCEPT !.i = act.calls[Len(act.calls)].ret, !.gas = @ + 1,
                            !.calls = SubSeq(@, 1, Len(@) - 1)]
      /\ UNCHANGED <<prog, callers, status, result, error, heap>>
  BY Dispatched DEF RetFunc
<1>2. act \in ActivationType /\ act.calls # <<>> /\ status = "running"
  BY <1>1, Dispatched DEF IndicesFit
<1>3. act.calls \in Seq(Returns) /\ act.gas + 1 \in Int
  BY <1>2 DEF ActivationType
<1>4. act.calls[Len(act.calls)] \in Returns /\ SubSeq(act.calls, 1, Len(act.calls) - 1) \in Seq(Returns)
  BY <1>2, <1>3
<1>5. act.calls[Len(act.calls)].ret \in Int
  BY <1>4 DEF Returns
<1>6. SameFrame(act', act)
  BY <1>1, <1>2, <1>3, <1>4, <1>5 DEF SameFrame, ActivationType
<1> QED BY <1>1, <1>2, <1>6, HeapSame DEF Local

-----------------------------------------------------------------------------
(***************************************************************************)
(* Strings.                                                                *)
(***************************************************************************)

\* AddStr is a Local step.
LEMMA AddStrLocal ==
  ASSUME TypeOK, AddStr
  PROVE  Local
<1>1. /\ Dispatch({ADDSTR}) /\ Op = ADDSTR /\ NewString(String(Cell(1)) \o String(Cell(0)))
      /\ Proceed(Replace(2, Len(Strings))) /\ UNCHANGED <<Objects, Buffers>>
  BY Dispatched DEF AddStr
<1>2. Operands(Op) = <<"str", "str">>
  BY <1>1, OperandsOf, Zenon
<1>3. act.top \in Nat \ {0} /\ Fits(Cell(1), "str") /\ Fits(Cell(0), "str")
  BY <1>1, <1>2, Dispatched, Operand2
<1>4. String(Cell(1)) \in Text /\ String(Cell(0)) \in Text
  BY <1>3, FitsOf, StringType
<1>5. String(Cell(1)) \o String(Cell(0)) \in Text
  BY <1>4 DEF Text
<1>6. HeapGrows
  BY <1>1, <1>5, StringAdded
<1>7. Len(Strings) \in Int
  BY DEF TypeOK
<1> QED BY <1>1, <1>3, <1>6, <1>7, ReplaceLocal

\* EqStr is a Local step.
LEMMA EqStrLocal ==
  ASSUME TypeOK, EqStr
  PROVE  Local
<1> DEFINE v == Truth(String(Cell(1)) = String(Cell(0)))
<1>1. Dispatch({EQSTR}) /\ Op = EQSTR /\ Proceed(Replace(2, v)) /\ HeapGrows
  BY Dispatched, HeapSame DEF EqStr
<1>2. Operands(Op) = <<"str", "str">>
  BY <1>1, OperandsOf, Zenon
<1>3. act.top \in Nat \ {0}
  BY <1>1, <1>2, Dispatched, Operand2
<1>4. v \in Int
  BY DEF Truth
<1> HIDE DEF v
<1> QED BY <1>1, <1>3, <1>4, ReplaceLocal

\* AssignStr is a Local step.
LEMMA AssignStrLocal ==
  ASSUME TypeOK, AssignStr
  PROVE  Local
<1>1. /\ Dispatch({ASSIGNSTR}) /\ Op = ASSIGNSTR /\ NewString(String(Cell(0)))
      /\ Proceed(Store(Cell(1), Len(Strings), 2)) /\ UNCHANGED <<Objects, Buffers>>
  BY Dispatched DEF AssignStr
<1>2. Operands(Op) = <<"addr", "str">>
  BY <1>1, OperandsOf, Zenon
<1>3. /\ act.top \in Nat \ {0} /\ Cell(1) \in Int
      /\ Fits(Cell(1), "addr") /\ Fits(Cell(0), "str")
  BY <1>1, <1>2, Dispatched, Operand2
<1>4. IsAddress(Cell(1)) /\ String(Cell(0)) \in Text
  BY <1>3, FitsOf, StringType
<1>5. HeapGrows
  BY <1>1, <1>4, StringAdded
<1>6. Len(Strings) \in Int /\ 2 \in Nat /\ 2 <= act.top + 1
  BY <1>3 DEF TypeOK
<1> QED BY <1>1, <1>3, <1>4, <1>5, <1>6, StoreLocal, Zenon

\* AssignAddStr is a Local step.
LEMMA AssignAddStrLocal ==
  ASSUME TypeOK, AssignAddStr
  PROVE  Local
<1> DEFINE k == Pointed(Cell(1)) + 1
<1>1. /\ Dispatch({ASSIGNADDSTR}) /\ Op = ASSIGNADDSTR
      /\ Strings' = [Strings EXCEPT ![k] = @ \o String(Cell(0))]
      /\ Proceed(Drop(2)) /\ UNCHANGED <<Objects, Buffers>>
  BY Dispatched DEF AssignAddStr
<1>2. Operands(Op) = <<"addr_str", "str">>
  BY <1>1, OperandsOf, Zenon
<1>3. /\ act.top \in Nat \ {0} /\ Fits(Cell(1), "addr_str") /\ Fits(Cell(0), "str")
  BY <1>1, <1>2, Dispatched, Operand2
<1>4. k \in 1..Len(Strings) /\ String(Cell(0)) \in Text
  BY <1>3, FitsOf, StringType
<1> HIDE DEF k
<1>5. Strings \in Seq(Text)
  BY DEF TypeOK
<1>6. Strings[k] \o String(Cell(0)) \in Text
  BY <1>4, <1>5 DEF Text
<1>7. Strings' \in Seq(Text) /\ Len(Strings') = Len(Strings)
  BY <1>1, <1>4, <1>5, <1>6
<1>8. HeapGrows
  BY <1>1, <1>5, <1>7 DEF HeapGrows, TypeOK, BytesBacked, Backed
<1> QED BY <1>1, <1>3, <1>8, DropLocal

-----------------------------------------------------------------------------
(***************************************************************************)
(* Arrays, maps and bytes.                                                 *)
(***************************************************************************)

\* InitArr is a Local step.
LEMMA InitArrLocal ==
  ASSUME TypeOK, InitArr
  PROVE  Local
<1> DEFINE f == [k \in 1..W(1) |-> Cell(W(1) - k)]
<1>1. /\ Dispatch({INITARR}) /\ Op = INITARR /\ NewObject(Arr(f))
      /\ Proceed(Replace(W(1), Len(Objects))) /\ UNCHANGED <<Strings, Buffers>>
  BY Dispatched DEF InitArr
<1>2. W(1) \in Nat
  BY <1>1, WordsOf, OperandWord
<1>3. Operands(Op) = [k \in 1..W(1) |-> "any"]
  BY <1>1, OperandsOf, Zenon
<1>4. W(1) <= act.top + 1 /\ \A k \in 0..W(1) - 1 : Cell(k) \in Int
  BY <1>1, <1>2, <1>3, Dispatched, AnyOperands
<1>5. f \in [1..W(1) -> Int]
  <2>1. ASSUME NEW k \in 1..W(1) PROVE Cell(W(1) - k) \in Int
    <3>1. W(1) - k \in 0..W(1) - 1
      BY <1>2
    <3> QED BY <1>4, <3>1
  <2> QED BY <2>1
<1> HIDE DEF f
<1>6. f \in Seq(Int)
  BY <1>2, <1>5, FunctionSeq
<1>7. HeapGrows
  BY <1>1, <1>6, ArrObject, ObjectAdded
<1>8. (W(1) = 0 => Pushes(Op)) /\ Len(Objects) \in Int
  BY <1>1 DEF Pushes, TypeOK
<1> QED BY <1>1, <1>2, <1>4, <1>7, <1>8, ReplaceLocal

\* InitMap is a Local step.
LEMMA InitMapLocal ==
  ASSUME TypeOK, InitMap
  PROVE  Local
<1> DEFINE n      == W(1)
           key(k) == String(Cell(2 * (n - k) + 1))
           last   == {k \in 1..n : \A m \in k + 1..n : key(m) # key(k)}
           ks     == [p \in 1..Cardinality(last) |-> key(Nth(last, p))]
           vs     == [p \in 1..Cardinality(last) |-> Cell(2 * (n - Nth(last, p)))]
           sorts  == [k \in 1..2 * n |-> IF k % 2 = 1 THEN "str" ELSE "any"]
<1>1. /\ Dispatch({INITMAP}) /\ Op = INITMAP /\ NewObject(Map(ks, vs))
      /\ Proceed(Replace(2 * n, Len(Objects))) /\ UNCHANGED <<Strings, Buffers>>
  BY Dispatched DEF InitMap
<1>2. n \in Nat /\ 2 * n \in Nat
  <2>1. W(1) \in Nat
    BY <1>1, WordsOf, OperandWord
  <2> QED BY <2>1
<1>3. sorts \in [1..2 * n -> {"str", "any"}] /\ sorts = Operands(Op)
  <2>1. Operands(INITMAP) = [k \in 1..2 * W(1) |-> IF k % 2 = 1 THEN "str" ELSE "any"]
    BY OperandsOf, Zenon
  <2> QED BY <1>1, <2>1
<1>4. \A k \in 1..2 * n : k % 2 = 1 => sorts[k] = "str"
  OBVIOUS
<1> HIDE DEF sorts
<1>5. sorts \in Seq({"str", "any"}) /\ Len(sorts) = 2 * n
  BY <1>2, <1>3, FunctionSeq
<1>6. /\ 2 * n <= act.top + 1
      /\ \A k \in 0..2 * n - 1 : Cell(k) \in Int /\ Fits(Cell(k), sorts[2 * n - k])
  BY <1>1, <1>2, <1>3, <1>5, Dispatched, OperandsN
<1>7. ASSUME NEW k \in 1..n PROVE key(k) \in Text /\ Cell(2 * (n - k)) \in Int
  <2>1. /\ 2 * (n - k) \in 0..2 * n - 1 /\ 2 * (n - k) + 1 \in 0..2 * n - 1
        /\ 2 * n - (2 * (n - k) + 1) = 2 * k - 1
    BY <1>2
  <2>2. 2 * k - 1 \in 1..2 * n /\ (2 * k - 1) % 2 = 1
    BY <1>2
  <2>3. Fits(Cell(2 * (n - k) + 1), "str")
    BY <1>4, <1>6, <2>1, <2>2
  <2> QED BY <1>6, <2>1, <2>3, FitsOf, StringType
<1>8. last \subseteq 0..n /\ last \subseteq 1..n /\ Cardinality(last) \in Nat
  <2>1. last \subseteq 1..n /\ last \subseteq 0..n
    BY <1>2
  <2>2. IsFiniteSet(1..n)
    BY <1>2, FS_Interval
  <2> HIDE DEF last
  <2> QED BY <2>1, <2>2, FS_Subset, FS_CardinalityType
<1> HIDE DEF last
<1>9. ASSUME NEW p \in 1..Cardinality(last) PROVE Nth(last, p) \in 1..n
  BY <1>2, <1>8, NthMember
<1> HIDE DEF key, n
<1>10. ks \in [1..Cardinality(last) -> Text]
  BY <1>7, <1>9
<1>11. vs \in [1..Cardinality(last) -> Int]
  BY <1>7, <1>9
<1> HIDE DEF ks, vs
<1>12. ks \in Seq(Text) /\ vs \in Seq(Int)
  BY <1>8, <1>10, <1>11, FunctionSeq
<1>13. HeapGrows
  BY <1>1, <1>12, MapObject, ObjectAdded
<1>14. (2 * n = 0 => Pushes(Op)) /\ Len(Objects) \in Int
  BY <1>1, <1>2 DEF Pushes, TypeOK, n
<1> QED BY <1>1, <1>2, <1>6, <1>13, <1>14, ReplaceLocal

\* What objects and lists are made of are trees.
LEMMA TreeType ==
  /\ \A ks, vs : SetAll(ks, vs) \in Tree
  /\ \A vs : ListOf(vs) \in Tree
  /\ \A t : EachAlone(t) \in Tree
<1>1. \A ts : Forest(ts) \in Tree
  <2>1. \A t : AsTree(t) \in Tree
    BY DEF AsTree, Tree
  <2> QED BY <2>1, Zenon DEF Forest
<1>2. \A ks, vs : SetAll(ks, vs) \in Tree
  BY <1>1, Zenon DEF SetAll
<1>3. \A vs : ListOf(vs) \in Tree
  BY <1>1, Zenon DEF ListOf
<1>4. ASSUME NEW t PROVE EachAlone(t) \in Tree
  <2> DEFINE of[c \in Tree] ==
        Forest([p \in 1..Len(c) |->
          IF c[p].depth > 1 THEN <<>>
          ELSE Node(<<>>, TreeVal("map", Node(c[p].key, ValueAt(c, p))))])
  <2>1. \A c \in Tree : of[c] \in Tree
    BY <1>1
  <2>2. Converted(t) \in Tree
    BY <1>1, Zenon DEF Converted
  <2> HIDE DEF of
  <2>3. EachAlone(t) = of[Converted(t)]
    BY Zenon DEF EachAlone, of
  <2> QED BY <2>1, <2>2, <2>3
<1> QED BY <1>2, <1>3, <1>4

\* InitObj is a Local step.
LEMMA InitObjLocal ==
  ASSUME TypeOK, InitObj
  PROVE  Local
<1> DEFINE n == 3 * W(1)
           f == [k \in 1..n |-> IF k % 3 = 1 THEN "str" ELSE "any"]
<1>1. Dispatch({INITOBJ}) /\ Op = INITOBJ /\ UNCHANGED <<Strings, Buffers>>
  BY Dispatched DEF InitObj
<1>2. PICK t \in Tree : NewObject(JsonObject("obj", t))
  BY TreeType, Zenon DEF InitObj
<1>3. Proceed(Replace(n, Len(Objects)))
  BY DEF InitObj
<1>4. W(1) \in Nat
  BY <1>1, WordsOf, OperandWord
<1>5. f = Operands(Op)
  BY <1>1, OperandsOf, Zenon
<1>6. n \in Nat /\ (n = 0 => W(1) = 0)
  BY <1>4
<1>7. f \in [1..n -> {"str", "any"}]
  OBVIOUS
<1> HIDE DEF n, f
<1>8. f \in Seq({"str", "any"}) /\ Len(f) = n
  BY <1>6, <1>7, FunctionSeq
<1>9. n <= act.top + 1
  BY <1>1, <1>5, <1>6, <1>8, Dispatched, OperandsN
<1>10. HeapGrows
  BY <1>1, <1>2, JsonObjectType, ObjectAdded
<1>11. (n = 0 => Pushes(Op)) /\ Len(Objects) \in Int
  BY <1>1, <1>6 DEF Pushes, TypeOK
<1> QED BY <1>1, <1>3, <1>6, <1>9, <1>10, <1>11, ReplaceLocal

\* InitObjList is a Local step.
LEMMA InitObjListLocal ==
  ASSUME TypeOK, InitObjList
  PROVE  Local
<1> DEFINE n == 2 * W(1)
<1>1. /\ Dispatch({INITOBJLIST}) /\ Op = INITOBJLIST /\ UNCHANGED <<Strings, Buffers>>
      /\ Proceed(Replace(n, Len(Objects)))
  BY Dispatched DEF InitObjList
<1>2. PICK t \in Tree : NewObject(JsonObject("list", t))
  BY TreeType, Zenon DEF InitObjList
<1>3. W(1) \in Nat
  BY <1>1, WordsOf, OperandWord
<1>4. Operands(Op) = [k \in 1..n |-> "any"]
  BY <1>1, OperandsOf, Zenon
<1>5. n \in Nat /\ (n = 0 => W(1) = 0)
  BY <1>3
<1> HIDE DEF n
<1>6. n <= act.top + 1
  BY <1>1, <1>4, <1>5, Dispatched, AnyOperands
<1>7. HeapGrows
  BY <1>1, <1>2, JsonObjectType, ObjectAdded
<1>8. (n = 0 => Pushes(Op)) /\ Len(Objects) \in Int
  BY <1>1, <1>5 DEF Pushes, TypeOK
<1> QED BY <1>1, <1>5, <1>6, <1>7, <1>8, ReplaceLocal

\* Obj2List is a Local step.
LEMMA Obj2ListLocal ==
  ASSUME TypeOK, Obj2List
  PROVE  Local
<1>1. /\ Dispatch({OBJ2LIST}) /\ Op = OBJ2LIST /\ UNCHANGED <<Strings, Buffers>>
      /\ Proceed(Replace(1, Len(Objects)))
  BY Dispatched DEF Obj2List
<1>2. PICK t \in Tree : NewObject(JsonObject("list", t))
  BY TreeType, Zenon DEF Obj2List
<1>3. Operands(Op) = <<"obj">>
  BY <1>1, OperandsOf, Zenon
<1>4. act.top \in Nat
  BY <1>1, <1>3, Dispatched, Operand1
<1>5. HeapGrows
  BY <1>1, <1>2, JsonObjectType, ObjectAdded
<1>6. Len(Objects) \in Int
  BY DEF TypeOK
<1> QED BY <1>1, <1>4, <1>5, <1>6, ReplaceLocal

\* AppendArr is a Local step.
LEMMA AppendArrLocal ==
  ASSUME TypeOK, AppendArr
  PROVE  Local
<1> DEFINE k == Pointed(Cell(1)) + 1
           o == Objects[k]
           new == [o EXCEPT !.items = Append(o.items, Cell(0))]
<1>1. /\ Dispatch({APPENDARR}) /\ Op = APPENDARR
      /\ Objects' = [Objects EXCEPT ![k].items = Append(@, Cell(0))]
      /\ Proceed(Drop(2)) /\ UNCHANGED <<Strings, Buffers>>
  BY Dispatched DEF AppendArr
<1>2. Operands(Op) = <<"addr_arr", "any">>
  BY <1>1, OperandsOf, Zenon
<1>3. act.top \in Nat \ {0} /\ Fits(Cell(1), "addr_arr") /\ Cell(0) \in Int
  BY <1>1, <1>2, Dispatched, Operand2
<1>4. k \in DOMAIN Objects /\ o \in Object /\ o.kind = "arr"
  <2>1. IsKind(Pointed(Cell(1)), "arr")
    BY <1>3, FitsOf
  <2>2. Objects \in Seq(Object)
    BY DEF TypeOK
  <2> QED BY <2>1, <2>2, ObjectType DEF IsKind, Obj
<1>5. o.items \in Seq(Int)
  BY <1>4 DEF Object
<1>6. Append(o.items, Cell(0)) \in Seq(Int)
  BY <1>3, <1>5
<1>7. Objects' = [Objects EXCEPT ![k] = new]
  BY <1>1, <1>4
<1>8. new \in Object /\ new.kind # "bytes"
  BY <1>4, <1>6, ItemsObject
<1> HIDE DEF k, new
<1>9. HeapGrows
  BY <1>1, <1>4, <1>7, <1>8, ObjectChanged
<1> QED BY <1>1, <1>3, <1>9, DropLocal

\* CheckIndex is a Local step.
LEMMA CheckIndexLocal ==
  ASSUME TypeOK, CheckIndex
  PROVE  Local
<1>1. Dispatch({SETINDEX, SETMAP}) /\ Proceed(act) /\ HeapGrows
  BY HeapSame DEF CheckIndex
<1>2. Fetching /\ status = "running" /\ SameFrame(act, act)
  BY <1>1, Dispatched, SameAsItself
<1> QED BY <1>1, <1>2, ProceedFrame DEF Local

\* GetIndex is a Local step.
LEMMA GetIndexLocal ==
  ASSUME TypeOK, GetIndex
  PROVE  Local
<1> DEFINE o == Obj(Cell(1))
           v == CASE o.kind = "arr"   -> o.items[Cell(0) + 1]
                  [] o.kind = "bytes" -> Buffers[o.buf][Cell(0) + 1]
                  [] OTHER -> Cell(1)
<1>1. Dispatch({GETINDEX}) /\ Op = GETINDEX /\ Proceed(Replace(2, v)) /\ HeapGrows
  BY Dispatched, HeapSame DEF GetIndex
<1>2. Operands(Op) = <<"item", "any">>
  BY <1>1, OperandsOf, Zenon
<1>3. act.top \in Nat \ {0} /\ Fits(Cell(1), "item") /\ Cell(0) \in Int /\ Cell(1) \in Int
  BY <1>1, <1>2, Dispatched, Operand2
<1>4. o \in Object /\ Cell(1) + 1 \in 1..Len(Objects) /\ o = Objects[Cell(1) + 1]
  BY <1>3, FitsOf, ObjectType DEF Obj
<1>5. o.kind \in {"arr", "bytes"} => Cell(0) \in 0..ObjLen(o) - 1
  BY <1>1, Dispatched, Unfailing
<1>6. v \in Int
  <2>1. CASE o.kind = "arr"
    <3>1. o.items \in Seq(Int) /\ Cell(0) \in 0..Len(o.items) - 1
      BY <1>4, <1>5, <2>1 DEF Object, ObjLen
    <3>2. o.items[Cell(0) + 1] \in Int
      BY <3>1
    <3> QED BY <2>1, <3>2
  <2>2. CASE o.kind = "bytes"
    <3>1. o.num \in Int /\ Cell(0) \in 0..o.num - 1
      BY <1>4, <1>5, <2>2 DEF Object, ObjLen
    <3>2. Objects \in Seq(Object) /\ Buffers \in Seq(Text) /\ BytesBacked
      BY DEF TypeOK
    <3>3. o.buf \in DOMAIN Buffers /\ o.num <= Len(Buffers[o.buf])
      BY <1>4, <2>2, <3>1, <3>2 DEF BytesBacked, Backed
    <3>4. Buffers[o.buf] \in Seq(Int)
      BY <3>2, <3>3 DEF Text
    <3>5. Buffers[o.buf][Cell(0) + 1] \in Int
      BY <3>1, <3>3, <3>4
    <3> QED BY <2>2, <3>5
  <2>3. CASE o.kind \notin {"arr", "bytes"}
    BY <1>3, <2>3
  <2> QED BY <2>1, <2>2, <2>3
<1> HIDE DEF v
<1> QED BY <1>1, <1>3, <1>6, ReplaceLocal

\* A key that is there has a position.
LEMMA KeyPosition ==
  ASSUME NEW o, NEW t, HasKey(o, t)
  PROVE  At(o, t) \in 1..Len(o.items)
BY DEF HasKey, At

\* GetMap is a Local step.
LEMMA GetMapLocal ==
  ASSUME TypeOK, GetMap
  PROVE  Local
<1> DEFINE o == Obj(Cell(1))
           t == String(Cell(0))
<1>1. Dispatch({GETMAP}) /\ Op = GETMAP /\ Proceed(Replace(2, o.items[At(o, t)])) /\ HeapGrows
  BY Dispatched, HeapSame DEF GetMap
<1>2. Operands(Op) = <<"map", "any">>
  BY <1>1, OperandsOf, Zenon
<1>3. act.top \in Nat \ {0} /\ Fits(Cell(1), "map")
  BY <1>1, <1>2, Dispatched, Operand2
<1>4. o \in Object /\ HasKey(o, t)
  BY <1>1, <1>3, Dispatched, Unfailing, FitsOf, ObjectType DEF IsKind
<1>5. o.items \in Seq(Int) /\ At(o, t) \in 1..Len(o.items)
  BY <1>4, KeyPosition DEF Object
<1>6. o.items[At(o, t)] \in Int
  BY <1>5
<1> QED BY <1>1, <1>3, <1>6, ReplaceLocal

\* AssignSetArr is a Local step.
LEMMA AssignSetArrLocal ==
  ASSUME TypeOK, AssignSetArr
  PROVE  Local
<1> DEFINE k == Cell(2) + 1
           o == Objects[k]
           items == [o.items EXCEPT ![Cell(1) + 1] = Cell(0)]
           new == [o EXCEPT !.items = items]
<1>1. /\ Dispatch({ASSIGNSETARR}) /\ Op = ASSIGNSETARR
      /\ Objects' = [Objects EXCEPT ![k].items[Cell(1) + 1] = Cell(0)]
      /\ Proceed(Drop(3)) /\ UNCHANGED <<Strings, Buffers>>
  BY Dispatched DEF AssignSetArr
<1>2. Operands(Op) = <<"arr", "any", "any">>
  BY <1>1, OperandsOf, Zenon
<1>3. /\ act.top \in Nat /\ act.top >= 2 /\ Fits(Cell(2), "arr")
      /\ Cell(0) \in Int /\ Cell(1) \in Int
  BY <1>1, <1>2, Dispatched, Operand3
<1>4. Objects \in Seq(Object)
  BY DEF TypeOK
<1>5. k \in DOMAIN Objects /\ o \in Object /\ o.kind = "arr"
  BY <1>3, <1>4, FitsOf, ObjectType DEF IsKind, Obj
<1>6. items \in Seq(Int)
  <2>1. o.items \in Seq(Int)
    BY <1>5 DEF Object
  <2>2. Cell(1) + 1 \in 1..Len(o.items)
    <3>1. Cell(1) \in 0..Len(Obj(Cell(2)).items) - 1
      BY <1>1, Dispatched DEF ItemsFit
    <3> QED BY <2>1, <3>1 DEF Obj
  <2> HIDE DEF o
  <2> QED BY <1>3, <2>1, <2>2
<1>7. Objects' = [Objects EXCEPT ![k] = new]
  BY <1>1, <1>4, <1>5
<1> HIDE DEF items
<1>8. new \in Object /\ new.kind # "bytes"
  BY <1>5, <1>6, ItemsObject
<1> HIDE DEF k, new
<1>9. HeapGrows
  BY <1>1, <1>5, <1>7, <1>8, ObjectChanged
<1>10. 3 \in Nat /\ 3 <= act.top + 1
  BY <1>3
<1> QED BY <1>1, <1>9, <1>10, DropLocal

\* AssignSetMap is a Local step.
LEMMA AssignSetMapLocal ==
  ASSUME TypeOK, AssignSetMap
  PROVE  Local
<1> DEFINE k == Cell(2) + 1
           o == Obj(Cell(2))
           t == String(Cell(1))
           set == [o EXCEPT !.items = [o.items EXCEPT ![At(o, t)] = Cell(0)]]
           add == Map(Append(o.keys, t), Append(o.items, Cell(0)))
           new == IF HasKey(o, t) THEN set ELSE add
<1>1. /\ Dispatch({ASSIGNSETMAP}) /\ Op = ASSIGNSETMAP
      /\ Objects' = [Objects EXCEPT ![k] =
           IF HasKey(o, t) THEN [o EXCEPT !.items[At(o, t)] = Cell(0)] ELSE add]
      /\ Proceed(Drop(3)) /\ UNCHANGED <<Strings, Buffers>>
  BY Dispatched DEF AssignSetMap
<1>2. Operands(Op) = <<"map", "str", "any">>
  BY <1>1, OperandsOf, Zenon
<1>3. /\ act.top \in Nat /\ act.top >= 2 /\ Fits(Cell(2), "map") /\ Fits(Cell(1), "str")
      /\ Cell(0) \in Int
  BY <1>1, <1>2, Dispatched, Operand3
<1>4. Objects \in Seq(Object)
  BY DEF TypeOK
<1>5. k \in DOMAIN Objects /\ o \in Object /\ o.kind = "map" /\ t \in Text
  BY <1>3, <1>4, FitsOf, ObjectType, StringType DEF IsKind
<1>6. o.keys \in Seq(Text) /\ o.items \in Seq(Int)
  BY <1>5 DEF Object
<1>7. HasKey(o, t) => [o.items EXCEPT ![At(o, t)] = Cell(0)] \in Seq(Int)
  BY <1>3, <1>6, KeyPosition
<1>8. HasKey(o, t) => set \in Object /\ set.kind # "bytes"
  BY <1>5, <1>7, ItemsObject
<1>9. Append(o.keys, t) \in Seq(Text) /\ Append(o.items, Cell(0)) \in Seq(Int)
  BY <1>3, <1>5, <1>6
<1>10. add \in Object /\ add.kind # "bytes"
  BY <1>9, MapObject
<1>11. [o EXCEPT !.items[At(o, t)] = Cell(0)] = set
  OBVIOUS
<1> HIDE DEF k, o, t, set, add
<1>12. Objects' = [Objects EXCEPT ![k] = new]
  BY <1>1, <1>11
<1>13. new \in Object /\ new.kind # "bytes"
  BY <1>8, <1>10
<1> HIDE DEF new
<1>14. HeapGrows
  BY <1>1, <1>5, <1>12, <1>13, ObjectChanged
<1>15. 3 \in Nat /\ 3 <= act.top + 1
  BY <1>3
<1> QED BY <1>1, <1>14, <1>15, DropLocal

\* AssignSetBytes is a Local step.
LEMMA AssignSetBytesLocal ==
  ASSUME TypeOK, AssignSetBytes
  PROVE  Local
<1> DEFINE o == Obj(Cell(2))
           j == Cell(1) + 1
<1>1. /\ Dispatch({ASSIGNSETBYTES}) /\ Op = ASSIGNSETBYTES
      /\ Buffers' = [Buffers EXCEPT ![o.buf][j] = Cell(0)]
      /\ Proceed(Drop(3)) /\ UNCHANGED <<Strings, Objects>>
  BY Dispatched DEF AssignSetBytes
<1>2. Operands(Op) = <<"bytes", "any", "any">>
  BY <1>1, OperandsOf, Zenon
<1>3. /\ act.top \in Nat /\ act.top >= 2 /\ Fits(Cell(2), "bytes")
      /\ Cell(0) \in Int /\ Cell(1) \in Int
  BY <1>1, <1>2, Dispatched, Operand3
<1>4. /\ Strings \in Seq(Text) /\ Objects \in Seq(Object) /\ Buffers \in Seq(Text)
      /\ BytesBacked
  BY DEF TypeOK
<1>5. o \in Object /\ o = Objects[Cell(2) + 1] /\ Cell(2) + 1 \in DOMAIN Objects /\ o.kind = "bytes"
  BY <1>3, <1>4, FitsOf, ObjectType DEF IsKind, Obj
<1>6. Cell(1) \in 0..o.num - 1 /\ o.num \in Int
  BY <1>1, <1>5, Dispatched, Unfailing DEF ItemsFit, Object
<1>7. o.buf \in DOMAIN Buffers /\ o.num <= Len(Buffers[o.buf])
  BY <1>4, <1>5, <1>6 DEF BytesBacked, Backed
<1> HIDE DEF o
<1>8. Buffers[o.buf] \in Seq(Int)
  BY <1>4, <1>7 DEF Text
<1>9. j \in 1..Len(Buffers[o.buf])
  BY <1>6, <1>7, <1>8
<1> HIDE DEF j
<1> DEFINE new == [Buffers[o.buf] EXCEPT ![j] = Cell(0)]
<1>10. new \in Text /\ Len(new) = Len(Buffers[o.buf])
  BY <1>3, <1>8, <1>9 DEF Text
<1>11. Buffers' = [Buffers EXCEPT ![o.buf] = new]
  BY <1>1
<1> HIDE DEF new
<1>12. /\ Buffers' \in Seq(Text) /\ DOMAIN Buffers' = DOMAIN Buffers
       /\ \A b \in DOMAIN Buffers : Len(Buffers'[b]) = Len(Buffers[b])
  BY <1>4, <1>7, <1>10, <1>11
<1>13. HeapGrows
  BY <1>1, <1>4, <1>12 DEF HeapGrows, BytesBacked, Backed
<1>14. 3 \in Nat /\ 3 <= act.top + 1
  BY <1>3
<1> QED BY <1>1, <1>13, <1>14, DropLocal

\* One object changed, and backing arrays added or lengthened.
LEMMA BytesChanged ==
  ASSUME TypeOK, UNCHANGED Strings,
         NEW k \in DOMAIN Objects, NEW o \in Object, Objects' = [Objects EXCEPT ![k] = o],
         o.num >= 0,
         o.num > 0 => o.buf \in DOMAIN Buffers' /\ o.num <= Len(Buffers'[o.buf]),
         Buffers' \in Seq(Text), DOMAIN Buffers \subseteq DOMAIN Buffers',
         \A b \in DOMAIN Buffers : Len(Buffers[b]) <= Len(Buffers'[b])
  PROVE  HeapGrows
<1>1. /\ Strings \in Seq(Text) /\ Objects \in Seq(Object) /\ Buffers \in Seq(Text)
      /\ BytesBacked
  BY DEF TypeOK
<1>2. Objects' \in Seq(Object) /\ Len(Objects') = Len(Objects)
  BY <1>1
<1>3. ASSUME NEW j \in DOMAIN Objects', Objects'[j].kind = "bytes" PROVE Backed(Objects[j])'
  <2>1. CASE j = k
    BY <1>1, <1>3, <2>1 DEF Backed
  <2>2. CASE j # k
    <3>1. Objects'[j] = Objects[j] /\ j \in DOMAIN Objects /\ Objects[j] \in Object
      BY <1>1, <1>2, <2>2
    <3>2. Backed(Objects[j])
      BY <1>1, <1>3, <3>1 DEF BytesBacked
    <3>3. Objects[j].num > 0 => /\ Objects[j].buf \in DOMAIN Buffers
                                /\ Objects[j].num <= Len(Buffers[Objects[j].buf])
      BY <3>2 DEF Backed
    <3>4. Objects[j].num > 0 => /\ Objects[j].buf \in DOMAIN Buffers'
                                /\ Objects[j].num <= Len(Buffers'[Objects[j].buf])
      <4> DEFINE b == Objects[j].buf
                 m == Objects[j].num
      <4>1. m \in Int
        BY <3>1 DEF Object
      <4>2. SUFFICES ASSUME m > 0 PROVE b \in DOMAIN Buffers' /\ m <= Len(Buffers'[b])
        OBVIOUS
      <4>3. b \in DOMAIN Buffers /\ m <= Len(Buffers[b])
        BY <3>3, <4>2
      <4> HIDE DEF b, m
      <4>4. Len(Buffers[b]) <= Len(Buffers'[b]) /\ b \in DOMAIN Buffers'
        BY <4>3
      <4>5. Buffers[b] \in Seq(Int) /\ Buffers'[b] \in Seq(Int)
        BY <1>1, <4>3, <4>4 DEF Text
      <4>6. Len(Buffers[b]) \in Int /\ Len(Buffers'[b]) \in Int
        BY <4>5
      <4> QED BY <4>1, <4>3, <4>4, <4>6
    <3> QED BY <3>1, <3>2, <3>4 DEF Backed
  <2> QED BY <2>1, <2>2
<1> QED BY <1>1, <1>2, <1>3 DEF HeapGrows, BytesBacked

\* The bytes of a []byte.
LEMMA ContentType ==
  ASSUME TypeOK, NEW v, IsKind(v, "bytes")
  PROVE  /\ Obj(v) \in Object /\ Obj(v).num \in Nat /\ v + 1 \in DOMAIN Objects
         /\ Obj(v).num > 0 => Obj(v).buf \in DOMAIN Buffers
         /\ Content(Obj(v)) \in Text /\ Len(Content(Obj(v))) = Obj(v).num
<1> DEFINE o == Obj(v)
<1>1. o \in Object /\ o.kind = "bytes" /\ v + 1 \in 1..Len(Objects) /\ o = Objects[v + 1]
  BY ObjectType DEF IsKind, Obj
<1>2. Objects \in Seq(Object) /\ Buffers \in Seq(Text) /\ BytesBacked
  BY DEF TypeOK
<1>3. o.num \in Int
  BY <1>1 DEF Object
<1>4. o.num >= 0 /\ (o.num > 0 => o.buf \in DOMAIN Buffers /\ o.num <= Len(Buffers[o.buf]))
  BY <1>1, <1>2 DEF BytesBacked, Backed
<1> HIDE DEF o
<1>5. Content(o) \in Text /\ Len(Content(o)) = o.num
  <2>1. CASE o.num = 0
    BY <2>1 DEF Content, Text
  <2>2. CASE o.num > 0
    <3>1. Buffers[o.buf] \in Seq(Int) /\ o.num <= Len(Buffers[o.buf])
      BY <1>2, <1>4, <2>2 DEF Text
    <3> QED BY <1>3, <2>2, <3>1 DEF Content, Text
  <2> QED BY <1>3, <1>4, <2>1, <2>2
<1> QED BY <1>1, <1>2, <1>3, <1>4, <1>5 DEF o

\* AssignAddBytes is a Local step.
LEMMA AssignAddBytesLocal ==
  ASSUME TypeOK, AssignAddBytes
  PROVE  Local
<1> DEFINE ind == Pointed(Cell(1))
           old == Obj(ind)
           new == Content(Obj(Cell(0)))
           len == old.num + Len(new)
           longer == [old EXCEPT !.num = len]
<1>1. /\ Dispatch({ASSIGNADDBYTES}) /\ Op = ASSIGNADDBYTES
      /\ \/ /\ old.num > 0 \/ new = <<>>
            /\ IF new = <<>> THEN UNCHANGED Buffers ELSE
                 Buffers' = [Buffers EXCEPT ![old.buf] =
                               Content(old) \o new \o SubSeq(@, len + 1, Len(@))]
            /\ Objects' = [Objects EXCEPT ![ind + 1].num = len]
         \/ /\ new # <<>>
            /\ Buffers' = Append(Buffers, Content(old) \o new)
            /\ Objects' = [Objects EXCEPT ![ind + 1] = Bytes(Len(Buffers) + 1, len)]
      /\ Proceed(Drop(2)) /\ UNCHANGED Strings
  <2>1. Dispatch({ASSIGNADDBYTES})
    BY DEF AssignAddBytes
  <2>2. Op = ASSIGNADDBYTES
    BY <2>1, Dispatched
  <2> QED BY <2>1, <2>2, Zenon DEF AssignAddBytes
<1>2. Operands(Op) = <<"addr_bytes", "bytes">>
  BY <1>1, OperandsOf, Zenon
<1>3. /\ act.top \in Nat \ {0} /\ Fits(Cell(1), "addr_bytes") /\ Fits(Cell(0), "bytes")
  BY <1>1, <1>2, Dispatched, Operand2
<1>4. IsKind(ind, "bytes") /\ IsKind(Cell(0), "bytes")
  BY <1>3, FitsOf
<1>5. Objects \in Seq(Object) /\ Buffers \in Seq(Text) /\ BytesBacked
  BY DEF TypeOK
<1>6. /\ old \in Object /\ old.num \in Nat /\ ind + 1 \in DOMAIN Objects
      /\ old = Objects[ind + 1] /\ (old.num > 0 => old.buf \in DOMAIN Buffers)
      /\ Content(old) \in Text /\ Len(Content(old)) = old.num
  BY <1>4, ContentType DEF Obj
<1>7. new \in Text /\ Len(new) \in Nat
  <2>1. new \in Text
    BY <1>4, ContentType
  <2> QED BY <2>1 DEF Text
<1>8. len \in Nat
  BY <1>6, <1>7
<1> HIDE DEF ind, old, new, len
<1>9. longer \in Object /\ longer.num = len /\ longer.buf = old.buf
  BY <1>6, <1>8, NumObject
<1>10. HeapGrows
  <2>1. CASE /\ new = <<>> /\ UNCHANGED Buffers
             /\ Objects' = [Objects EXCEPT ![ind + 1].num = len]
    <3>1. len = old.num
      BY <1>6, <2>1 DEF len
    <3>2. Objects' = [Objects EXCEPT ![ind + 1] = longer]
      BY <1>6, <2>1
    <3>3. old.kind = "bytes" /\ Backed(old)
      BY <1>4, <1>5, <1>6 DEF IsKind, old, BytesBacked
    <3>4. longer.kind = "bytes" /\ Backed(longer)
      BY <1>6, <1>9, <3>1, <3>3 DEF Backed, Object
    <3> HIDE DEF longer
    <3> QED BY <1>1, <1>6, <1>9, <2>1, <3>2, <3>4, ObjectChanged
  <2>2. CASE /\ new # <<>> /\ old.num > 0
             /\ Buffers' = [Buffers EXCEPT ![old.buf] =
                              Content(old) \o new \o SubSeq(@, len + 1, Len(@))]
             /\ Objects' = [Objects EXCEPT ![ind + 1].num = len]
    <3> DEFINE was  == Buffers[old.buf]
               tail == SubSeq(was, len + 1, Len(was))
               now  == (Content(old) \o new) \o tail
    <3>1. Objects' = [Objects EXCEPT ![ind + 1] = longer]
      BY <1>6, <2>2
    <3>2. was \in Seq(Int) /\ Len(was) \in Nat
      BY <1>5, <1>6, <2>2 DEF Text
    <3> HIDE DEF was
    <3>3. Content(old) \o new \in Seq(Int) /\ Len(Content(old) \o new) = len
      BY <1>6, <1>7 DEF Text, len
    <3>4. /\ tail \in Seq(Int)
          /\ Len(tail) = IF len < Len(was) THEN Len(was) - len ELSE 0
      BY <1>8, <3>2
    <3> DEFINE both == Content(old) \o new
    <3> HIDE DEF tail
    <3>5. now \in Seq(Int) /\ Len(now) = len + Len(tail)
      <4>1. both \in Seq(Int) /\ tail \in Seq(Int) /\ Len(both) = len
        BY <3>3, <3>4
      <4>2. now = both \o tail
        OBVIOUS
      <4> HIDE DEF both, now
      <4> QED BY <4>1, <4>2, ConcatProperties
    <3>6. now \in Text /\ Len(now) >= len /\ Len(now) >= Len(was) /\ Len(now) \in Nat
      BY <1>8, <3>2, <3>4, <3>5 DEF Text
    <3>7. Buffers' = [Buffers EXCEPT ![old.buf] = now]
      BY <2>2 DEF now, tail, was
    <3> HIDE DEF now, longer
    <3>8. /\ Buffers' \in Seq(Text) /\ DOMAIN Buffers' = DOMAIN Buffers
          /\ Buffers'[old.buf] = now
          /\ \A b \in DOMAIN Buffers : Len(Buffers[b]) <= Len(Buffers'[b])
      <4>1. ASSUME NEW b \in DOMAIN Buffers PROVE Len(Buffers[b]) <= Len(Buffers'[b])
        <5>1. CASE b = old.buf
          BY <1>5, <3>6, <3>7, <5>1 DEF was
        <5>2. CASE b # old.buf
          <6>1. Buffers'[b] = Buffers[b]
            BY <1>5, <3>7, <5>2
          <6>2. Len(Buffers[b]) \in Int
            BY <1>5 DEF Text
          <6> QED BY <6>1, <6>2
        <5> QED BY <5>1, <5>2
      <4>2. /\ Buffers' \in Seq(Text) /\ DOMAIN Buffers' = DOMAIN Buffers
            /\ Buffers'[old.buf] = now
        <5>1. Buffers \in Seq(Text) /\ old.buf \in DOMAIN Buffers /\ now \in Text
          BY <1>5, <1>6, <2>2, <3>6
        <5> DEFINE f == [Buffers EXCEPT ![old.buf] = now]
        <5>2. f \in Seq(Text) /\ DOMAIN f = DOMAIN Buffers /\ f[old.buf] = now
          BY <5>1, Update
        <5> QED BY <3>7, <5>2
      <4> QED BY <4>1, <4>2
    <3>9. longer.num >= 0 /\ longer.buf \in DOMAIN Buffers' /\ longer.num <= Len(Buffers'[longer.buf])
      BY <1>6, <1>8, <1>9, <2>2, <3>6, <3>8
    <3> QED BY <1>1, <1>6, <1>9, <3>1, <3>8, <3>9, BytesChanged
  <2>3. CASE /\ Buffers' = Append(Buffers, Content(old) \o new)
             /\ Objects' = [Objects EXCEPT ![ind + 1] = Bytes(Len(Buffers) + 1, len)]
    <3> DEFINE b == Bytes(Len(Buffers) + 1, len)
    <3>1. Content(old) \o new \in Text /\ Len(Content(old) \o new) = len
      BY <1>6, <1>7 DEF Text, len
    <3>2. b \in Object /\ b.num = len /\ b.buf = Len(Buffers) + 1
      BY <1>5, <1>8, BytesObject
    <3>3. Objects' = [Objects EXCEPT ![ind + 1] = b]
      BY <2>3
    <3> HIDE DEF b
    <3>4. /\ Buffers' \in Seq(Text) /\ DOMAIN Buffers \subseteq DOMAIN Buffers'
          /\ Len(Buffers) + 1 \in DOMAIN Buffers'
          /\ Buffers'[Len(Buffers) + 1] = Content(old) \o new
      BY <1>5, <2>3, <3>1
    <3>5. \A i \in DOMAIN Buffers : Len(Buffers[i]) <= Len(Buffers'[i])
      <4>1. ASSUME NEW i \in DOMAIN Buffers PROVE Len(Buffers[i]) <= Len(Buffers'[i])
        <5>1. Buffers'[i] = Buffers[i]
          BY <1>5, <2>3
        <5>2. Len(Buffers[i]) \in Int
          BY <1>5 DEF Text
        <5> QED BY <5>1, <5>2
      <4> QED BY <4>1
    <3>6. b.num >= 0 /\ b.buf \in DOMAIN Buffers' /\ b.num <= Len(Buffers'[b.buf])
      BY <1>8, <3>1, <3>2, <3>4
    <3> QED BY <1>1, <1>6, <3>2, <3>3, <3>4, <3>5, <3>6, BytesChanged
  <2> QED BY <1>1, <2>1, <2>2, <2>3
<1> QED BY <1>1, <1>3, <1>10, DropLocal

-----------------------------------------------------------------------------
(***************************************************************************)
(* Copies, taken by COPY, COPYSTR and PARCONTRACT.                         *)
(***************************************************************************)

\* The operand copy() expects for each type it looks up in the heap.
LEMMA CopySortOf ==
  ASSUME NEW t
  PROVE  /\ MainType(t) = VStr   => CopySort(t) = "str"
         /\ MainType(t) = VArr   => CopySort(t) = "arr"
         /\ MainType(t) = VMap   => CopySort(t) = "map"
         /\ MainType(t) = VMoney => CopySort(t) = "money"
         /\ MainType(t) = VBytes => CopySort(t) = "bytes"
         /\ MainType(t) = VFile  => CopySort(t) = "file"
<1> DEFINE m == MainType(t)
<1> HIDE DEF m
<1>1. CopySort(t) = IF m \notin {VStr, VArr, VMap, VMoney, VBytes, VFile} THEN "any"
                    ELSE CASE m = VStr -> "str"     [] m = VArr -> "arr"      [] m = VMap -> "map"
                           [] m = VMoney -> "money" [] m = VBytes -> "bytes"  [] m = VFile -> "file"
                           [] OTHER -> "obj"
  BY Zenon DEF CopySort, Sort, m
<1>2. /\ m = VStr => CopySort(t) = "str"
      /\ m = VArr => CopySort(t) = "arr"
      /\ m = VMap => CopySort(t) = "map"
      /\ m = VMoney => CopySort(t) = "money"
      /\ m = VBytes => CopySort(t) = "bytes"
      /\ m = VFile => CopySort(t) = "file"
  BY <1>1 DEF VStr, VArr, VMap, VMoney, VBytes, VFile
<1> QED BY <1>2 DEF m

\* What copy() finds where it looks: a text, or an object of the heap.
LEMMA CopiedValue ==
  ASSUME TypeOK, NEW v, NEW t, Fits(v, CopySort(t))
  PROVE  /\ MainType(t) = VStr => IsString(v) /\ String(v) \in Text
         /\ MainType(t) \in InHeap => IsObject(v) /\ Obj(v) \in Object
         /\ MainType(t) = VArr => Obj(v).kind = "arr"
         /\ MainType(t) = VMap => Obj(v).kind = "map"
<1>1. MainType(t) = VStr => IsString(v) /\ String(v) \in Text
  BY CopySortOf, FitsOf, StringType
<1>2. MainType(t) \in InHeap => IsKind(v, CopySort(t))
  BY CopySortOf, FitsOf, Zenon DEF InHeap
<1>3. MainType(t) \in InHeap => IsObject(v) /\ Obj(v) \in Object
  BY <1>2, ObjectType DEF IsKind
<1>4. MainType(t) \in {VArr, VMap} => Obj(v).kind = CopySort(t)
  BY <1>2, Zenon DEF IsKind, InHeap
<1> QED BY <1>1, <1>3, <1>4, CopySortOf

\* An object of the heap that is bytes has its backing array.
LEMMA ObjBacked ==
  ASSUME TypeOK, NEW v, IsObject(v), Obj(v).kind = "bytes"
  PROVE  Backed(Obj(v))
<1>1. v + 1 \in 1..Len(Objects) /\ Obj(v) = Objects[v + 1]
  BY ObjectType DEF Obj
<1>2. Objects \in Seq(Object) /\ BytesBacked
  BY DEF TypeOK
<1> QED BY <1>1, <1>2 DEF BytesBacked

\* The type nibble of a type nibble is itself.
LEMMA NibbleAgain ==
  ASSUME NEW t \in Nat
  PROVE  MainType(ElementType(t)) = ElementType(t)
BY DEF MainType, ElementType, SubType

\* The copies of the elements of an array or a map.
LEMMA CopiedElements ==
  ASSUME TypeOK, NEW t \in Nat, NEW v, Obj(v) \in Object,
         ElementsFit(v, CopySort(ElementType(t)))
  PROVE  /\ CopiedStrings(Obj(v), t) \in Seq(Text)
         /\ CopiedObjects(Obj(v), t) \in Seq(Object)
         /\ \A k \in 1..Len(CopiedObjects(Obj(v), t)) :
              CopiedObjects(Obj(v), t)[k].kind = "bytes" => Backed(CopiedObjects(Obj(v), t)[k])
         /\ CopiedItems(Obj(v), t) \in Seq(Int)
<1> DEFINE o == Obj(v)
           n == Len(o.items)
           e == ElementType(t)
<1>1. o.items \in Seq(Int) /\ n \in Nat
  BY DEF Object
<1>2. \A k \in 1..n : Fits(o.items[k], CopySort(e))
  BY DEF ElementsFit
<1>3. MainType(e) = e
  BY NibbleAgain
<1>4. Len(Strings) \in Int /\ Len(Objects) \in Int
  BY DEF TypeOK
<1> HIDE DEF o, e, n
<1>5. CopiedStrings(o, t) \in Seq(Text)
  <2>1. CASE e = VStr
    <3> DEFINE f == [k \in 1..n |-> String(o.items[k])]
    <3>1. f \in [1..n -> Text]
      BY <1>2, <1>3, <2>1, CopiedValue
    <3>2. CopiedStrings(o, t) = f
      BY <2>1 DEF CopiedStrings, n, e
    <3> HIDE DEF f
    <3> QED BY <1>1, <3>1, <3>2, FunctionSeq
  <2>2. CASE e # VStr
    BY <2>2 DEF CopiedStrings, e
  <2> QED BY <2>1, <2>2
<1>6. /\ CopiedObjects(o, t) \in Seq(Object)
      /\ \A k \in 1..Len(CopiedObjects(o, t)) :
           CopiedObjects(o, t)[k].kind = "bytes" => Backed(CopiedObjects(o, t)[k])
  <2>1. CASE e \in InHeap
    <3> DEFINE f == [k \in 1..n |-> Obj(o.items[k])]
    <3>1. \A k \in 1..n : IsObject(o.items[k]) /\ Obj(o.items[k]) \in Object
      BY <1>2, <1>3, <2>1, CopiedValue
    <3>2. f \in [1..n -> Object]
      BY <3>1
    <3>3. \A k \in 1..n : f[k].kind = "bytes" => Backed(f[k])
      BY <3>1, ObjBacked
    <3>4. CopiedObjects(o, t) = f
      BY <2>1 DEF CopiedObjects, n, e
    <3> HIDE DEF f
    <3>5. f \in Seq(Object) /\ Len(f) = n
      BY <1>1, <3>2, FunctionSeq
    <3> QED BY <3>3, <3>4, <3>5
  <2>2. CASE e \notin InHeap
    BY <2>2 DEF CopiedObjects, e
  <2> QED BY <2>1, <2>2
<1>7. CopiedItems(o, t) \in Seq(Int)
  <2> DEFINE f == [k \in 1..n |-> IF e = VStr THEN Len(Strings) + k - 1
                                  ELSE IF e \in InHeap THEN Len(Objects) + k - 1 ELSE o.items[k]]
  <2>1. \A k \in 1..n : /\ Len(Strings) + k - 1 \in Int /\ Len(Objects) + k - 1 \in Int
                        /\ o.items[k] \in Int
    BY <1>1, <1>4 DEF n
  <2>2. f \in [1..n -> Int]
    BY <2>1
  <2>3. CopiedItems(o, t) = f
    BY DEF CopiedItems, n, e
  <2> HIDE DEF f
  <2> QED BY <1>1, <2>2, <2>3, FunctionSeq
<1> QED BY <1>5, <1>6, <1>7 DEF o

\* The texts and the objects that copy() appends.
LEMMA CopiesType ==
  ASSUME TypeOK, NEW t \in Nat, NEW v \in Int, Fits(v, CopySort(t)),
         MainType(t) \in {VArr, VMap} => ElementsFit(v, CopySort(ElementType(t)))
  PROVE  /\ CopyStrings(v, t) \in Seq(Text) /\ CopyObjects(v, t) \in Seq(Object)
         /\ \A k \in 1..Len(CopyObjects(v, t)) :
              CopyObjects(v, t)[k].kind = "bytes" => Backed(CopyObjects(v, t)[k])
<1> DEFINE o == Obj(v)
           ts == CopyStrings(v, t)
           os == CopyObjects(v, t)
<1> USE DEF InHeap, VStr, VArr, VMap, VMoney, VBytes, VFile
<1>2. ts \in Seq(Text)
  <2>1. CASE MainType(t) = VStr
    BY <2>1, CopiedValue DEF CopyStrings
  <2>2. CASE MainType(t) \in {VArr, VMap}
    <3>1. o \in Object /\ ElementsFit(v, CopySort(ElementType(t)))
      BY <2>2, CopiedValue
    <3>2. CopiedStrings(o, t) \in Seq(Text)
      BY <3>1, CopiedElements
    <3>3. ts = CopiedStrings(o, t)
      BY <2>2 DEF CopyStrings
    <3> QED BY <3>2, <3>3
  <2>3. CASE MainType(t) \notin {VStr, VArr, VMap}
    BY <2>3 DEF CopyStrings
  <2> QED BY <2>1, <2>2, <2>3
<1>3. os \in Seq(Object) /\ \A k \in 1..Len(os) : os[k].kind = "bytes" => Backed(os[k])
  <2>1. CASE MainType(t) \in {VMoney, VBytes, VFile}
    <3>1. o \in Object /\ (o.kind = "bytes" => Backed(o))
      BY <2>1, CopiedValue, ObjBacked
    <3>2. os = <<o>>
      BY <2>1 DEF CopyObjects
    <3> HIDE DEF o, os
    <3> QED BY <3>1, <3>2
  <2>2. CASE MainType(t) \in {VArr, VMap}
    <3> DEFINE cs == CopiedObjects(o, t)
               items == CopiedItems(o, t)
               new == [o EXCEPT !.items = items]
    <3>1. o \in Object /\ o.kind # "bytes" /\ ElementsFit(v, CopySort(ElementType(t)))
      BY <2>2, CopiedValue
    <3>2. /\ cs \in Seq(Object) /\ items \in Seq(Int)
          /\ \A k \in 1..Len(cs) : cs[k].kind = "bytes" => Backed(cs[k])
      BY <3>1, CopiedElements
    <3> HIDE DEF cs, items
    <3>3. new \in Object /\ new.kind # "bytes"
      BY <3>1, <3>2, ItemsObject
    <3>4. os = Append(cs, new)
      BY <2>2 DEF CopyObjects, cs, items
    <3> HIDE DEF o, os, new
    <3>5. /\ os \in Seq(Object) /\ Len(os) = Len(cs) + 1
          /\ \A k \in 1..Len(os) : os[k] = IF k <= Len(cs) THEN cs[k] ELSE new
      BY <3>2, <3>3, <3>4
    <3>6. ASSUME NEW k \in 1..Len(os), os[k].kind = "bytes" PROVE Backed(os[k])
      <4>1. k <= Len(cs) /\ os[k] = cs[k]
        BY <3>3, <3>5, <3>6
      <4>2. k \in 1..Len(cs)
        BY <3>2, <3>5, <4>1
      <4> QED BY <3>2, <3>6, <4>1, <4>2
    <3> QED BY <3>5, <3>6
  <2>3. CASE MainType(t) \notin {VArr, VMap, VMoney, VBytes, VFile}
    BY <2>3 DEF CopyObjects
  <2> QED BY <2>1, <2>2, <2>3
<1> QED BY <1>2, <1>3

\* A copy leaves the heap well formed, and its index is a cell.
LEMMA CopyGrows ==
  ASSUME TypeOK, NEW t \in Nat, NEW v \in Int, Fits(v, CopySort(t)),
         MainType(t) \in {VArr, VMap} => ElementsFit(v, CopySort(ElementType(t))),
         CopyInHeap(v, t)
  PROVE  HeapGrows /\ CopyIndex(v, t) \in Int
<1> DEFINE ts == CopyStrings(v, t)
           os == CopyObjects(v, t)
<1>1. Strings' = Strings \o ts /\ Objects' = Objects \o os /\ UNCHANGED Buffers
  BY DEF CopyInHeap
<1> USE DEF InHeap, VStr, VArr, VMap, VMoney, VBytes, VFile
<1>2. ts \in Seq(Text) /\ os \in Seq(Object) /\ \A k \in 1..Len(os) : os[k].kind = "bytes" => Backed(os[k])
  BY CopiesType
<1>4. CopyIndex(v, t) \in Int
  <2>1. Len(Strings) \in Int /\ Len(Objects) \in Int
    BY DEF TypeOK
  <2>2. Len(os) \in Int
    BY <1>2
  <2> HIDE DEF os
  <2>3. Len(Objects) + Len(os) - 1 \in Int
    BY <2>1, <2>2
  <2> QED BY <2>1, <2>3 DEF CopyIndex, os
<1> HIDE DEF ts, os
<1> QED BY <1>1, <1>2, <1>4, ObjectsGrow

\* Copy is a Local step.
LEMMA CopyLocal ==
  ASSUME TypeOK, Copy
  PROVE  Local
<1> DEFINE t == IF Op = COPYSTR THEN VStr ELSE W(1)
<1>1. /\ Dispatch({COPYSTR, COPY}) /\ Op \in {COPYSTR, COPY}
      /\ CopyInHeap(Cell(0), t) /\ Proceed(Replace(1, CopyIndex(Cell(0), t)))
  BY Dispatched DEF Copy
<1>2. t \in Nat
  <2>1. CASE Op = COPYSTR
    BY <2>1 DEF VStr
  <2>2. CASE Op = COPY /\ Op # COPYSTR
    <3>1. Words(Op) = 2
      BY <2>2, WordsOf
    <3>2. W(1) \in Nat
      BY <1>1, <3>1, OperandWord
    <3> QED BY <2>2, <3>2
  <2> QED BY <1>1, <2>1, <2>2
<1>3. Operands(Op) = <<CopySort(t)>>
  <2>1. CASE Op = COPYSTR
    <3>1. MainType(VStr) = VStr
      BY DEF MainType, VStr
    <3>2. CopySort(VStr) = "str"
      BY <3>1, CopySortOf
    <3> QED BY <2>1, <3>2, OperandsOf, Zenon
  <2>2. CASE Op = COPY /\ Op # COPYSTR
    BY <2>2, OperandsOf, Zenon
  <2> QED BY <1>1, <2>1, <2>2
<1>4. act.top \in Nat /\ Cell(0) \in Int /\ Fits(Cell(0), CopySort(t))
  BY <1>1, <1>3, Dispatched, Operand1
<1>5. MainType(t) \in {VArr, VMap} => ElementsFit(Cell(0), CopySort(ElementType(t)))
  <2>1. CASE Op = COPYSTR
    BY <2>1 DEF MainType, VStr, VArr, VMap
  <2>2. CASE Op = COPY /\ Op # COPYSTR
    <3>1. CopiedType = t
      BY <2>2 DEF CopiedType
    <3>2. ItemsFit
      BY <1>1, Dispatched
    <3> QED BY <2>2, <3>1, <3>2, Zenon DEF ItemsFit
  <2> QED BY <1>1, <2>1, <2>2
<1> HIDE DEF t
<1>6. HeapGrows /\ CopyIndex(Cell(0), t) \in Int
  BY <1>1, <1>2, <1>4, <1>5, CopyGrows
<1>7. 1 \in Nat /\ 1 <= act.top + 1
  BY <1>4
<1> QED BY <1>1, <1>6, <1>7, ReplaceLocal

-----------------------------------------------------------------------------
(***************************************************************************)
(* Amounts.                                                                *)
(***************************************************************************)

\* A rounded quotient is a number.
LEMMA RoundType ==
  ASSUME NEW x \in Int, NEW y \in Int \ {0}
  PROVE  Round(x, y) \in Int
<1>1. 2 * Abs(x) + Abs(y) \in Nat /\ 2 * Abs(y) \in Nat \ {0}
  BY DEF Abs
<1>2. (2 * Abs(x) + Abs(y)) \div (2 * Abs(y)) \in Int
  BY <1>1
<1> QED BY <1>2 DEF Round

\* A product of numbers other than 0 is not 0.
LEMMA ProductNonzero ==
  ASSUME NEW x \in Int \ {0}, NEW y \in Int \ {0}
  PROVE  x * y \in Int \ {0}
OBVIOUS

\* The operators on amounts yield amounts, / if the divisor is not 0.
LEMMA MoneyArithType ==
  ASSUME NEW a \in Object, NEW b \in Object
  PROVE  /\ \A op \in {ADDMONEY, SUBMONEY, MULMONEY, ASSIGNADDMONEY, ASSIGNSUBMONEY, ASSIGNMULMONEY} :
              MoneyArith(op, a, b) \in Object /\ MoneyArith(op, a, b).kind = "money"
         /\ b.num # 0 => \A op \in {DIVMONEY, ASSIGNDIVMONEY} :
              MoneyArith(op, a, b) \in Object /\ MoneyArith(op, a, b).kind = "money"
<1> USE DEF ADDMONEY, SUBMONEY, MULMONEY, DIVMONEY, ASSIGNADDMONEY, ASSIGNSUBMONEY,
            ASSIGNMULMONEY, ASSIGNDIVMONEY
<1> DEFINE sum == Money(a.num * b.den + b.num * a.den, a.den * b.den)
           dif == Money(a.num * b.den - b.num * a.den, a.den * b.den)
           mul == Money(a.num * b.num, a.den * b.den)
           quo == Money(Round(a.num * b.den * MoneyUnit, a.den * b.num), MoneyUnit)
<1>1. /\ a.num \in Int /\ b.num \in Int /\ a.den \in Nat \ {0} /\ b.den \in Nat \ {0}
      /\ MoneyUnit \in Nat \ {0}
  BY SizesAssumption DEF Object
<1>2. /\ a.num * b.den \in Int /\ b.num * a.den \in Int /\ a.num * b.num \in Int
      /\ a.den * b.den \in Nat \ {0} /\ a.num * b.den * MoneyUnit \in Int
  <2>1. a.den * b.den # 0
    BY <1>1, ProductNonzero
  <2> QED BY <1>1, <2>1
<1>3. b.num # 0 => Round(a.num * b.den * MoneyUnit, a.den * b.num) \in Int
  <2>1. SUFFICES ASSUME b.num # 0
                 PROVE  Round(a.num * b.den * MoneyUnit, a.den * b.num) \in Int
    OBVIOUS
  <2>2. a.den * b.num \in Int \ {0}
    BY <1>1, <2>1, ProductNonzero
  <2> QED BY <1>2, <2>2, RoundType
<1>4. /\ sum \in Object /\ sum.kind = "money" /\ dif \in Object /\ dif.kind = "money"
      /\ mul \in Object /\ mul.kind = "money"
  <2>1. /\ a.num * b.den + b.num * a.den \in Int /\ a.num * b.den - b.num * a.den \in Int
    BY <1>2
  <2> QED BY <1>2, <2>1, MoneyObject
<1>5. b.num # 0 => quo \in Object /\ quo.kind = "money"
  BY <1>1, <1>3, MoneyObject
<1> HIDE DEF sum, dif, mul, quo
<1>6. /\ MoneyArith(ADDMONEY, a, b) = sum /\ MoneyArith(ASSIGNADDMONEY, a, b) = sum
      /\ MoneyArith(SUBMONEY, a, b) = dif /\ MoneyArith(ASSIGNSUBMONEY, a, b) = dif
      /\ MoneyArith(MULMONEY, a, b) = mul /\ MoneyArith(ASSIGNMULMONEY, a, b) = mul
  BY DEF MoneyArith, sum, dif, mul
<1>7. MoneyArith(DIVMONEY, a, b) = quo /\ MoneyArith(ASSIGNDIVMONEY, a, b) = quo
  BY DEF MoneyArith, quo
<1> QED BY <1>4, <1>5, <1>6, <1>7

\* The result of an operation on two amounts that has not failed.
LEMMA AmountType ==
  ASSUME TypeOK, NEW ops, Dispatch(ops), ops \in {MoneyBinary, MoneyAssign},
         NEW a \in Object, Obj(Cell(0)) \in Object
  PROVE  /\ MoneyArith(Op, a, Obj(Cell(0))) \in Object
         /\ MoneyArith(Op, a, Obj(Cell(0))).kind = "money"
<1>1. Op \in MoneyBinary \cup MoneyAssign
  BY Dispatched
<1>2. Op \in {DIVMONEY, ASSIGNDIVMONEY} => Obj(Cell(0)).num # 0
  BY Dispatched, Unfailing
<1>3. \/ Op \in {ADDMONEY, SUBMONEY, MULMONEY, ASSIGNADDMONEY, ASSIGNSUBMONEY, ASSIGNMULMONEY}
      \/ Op \in {DIVMONEY, ASSIGNDIVMONEY}
  BY <1>1 DEF MoneyBinary, MoneyAssign
<1> QED BY <1>2, <1>3, MoneyArithType, Zenon

\* ComputeMoney is a Local step.
LEMMA ComputeMoneyLocal ==
  ASSUME TypeOK, ComputeMoney
  PROVE  Local
<1> DEFINE o == MoneyArith(Op, Obj(Cell(1)), Obj(Cell(0)))
<1>1. /\ Dispatch(MoneyBinary) /\ Op \in MoneyBinary /\ NewObject(o)
      /\ Proceed(Replace(2, Len(Objects))) /\ UNCHANGED <<Strings, Buffers>>
  BY Dispatched DEF ComputeMoney
<1>2. Operands(Op) = <<"money", "money">>
  BY <1>1, OperandsOf, Zenon
<1>3. act.top \in Nat \ {0} /\ Fits(Cell(1), "money") /\ Fits(Cell(0), "money")
  BY <1>1, <1>2, Dispatched, Operand2
<1>4. Obj(Cell(1)) \in Object /\ Obj(Cell(0)) \in Object
  BY <1>3, FitsOf, ObjectType DEF IsKind
<1>5. o \in Object /\ o.kind = "money"
  BY <1>1, <1>4, AmountType
<1> HIDE DEF o
<1>6. HeapGrows
  BY <1>1, <1>5, ObjectAdded
<1>7. Len(Objects) \in Int
  BY DEF TypeOK
<1> QED BY <1>1, <1>3, <1>6, <1>7, ReplaceLocal

\* SignMoney is a Local step.
LEMMA SignMoneyLocal ==
  ASSUME TypeOK, SignMoney
  PROVE  Local
<1> DEFINE o == Obj(Cell(0))
           new == [o EXCEPT !.num = -o.num]
<1>1. /\ Dispatch({SIGNMONEY}) /\ Op = SIGNMONEY /\ NewObject(new)
      /\ Proceed(Replace(1, Len(Objects))) /\ UNCHANGED <<Strings, Buffers>>
  BY Dispatched DEF SignMoney
<1>2. Operands(Op) = <<"money">>
  BY <1>1, OperandsOf, Zenon
<1>3. act.top \in Nat /\ Fits(Cell(0), "money")
  BY <1>1, <1>2, Dispatched, Operand1
<1>4. o \in Object /\ o.kind = "money"
  BY <1>3, FitsOf, ObjectType DEF IsKind
<1>5. -o.num \in Int
  BY <1>4 DEF Object
<1>6. new \in Object /\ new.kind = "money"
  BY <1>4, <1>5, NumObject
<1> HIDE DEF new
<1>7. HeapGrows
  BY <1>1, <1>6, ObjectAdded
<1>8. Len(Objects) \in Int /\ 1 \in Nat /\ 1 <= act.top + 1
  BY <1>3 DEF TypeOK
<1> QED BY <1>1, <1>7, <1>8, ReplaceLocal

\* AssignMoney is a Local step.
LEMMA AssignMoneyLocal ==
  ASSUME TypeOK, AssignMoney
  PROVE  Local
<1> DEFINE o == MoneyArith(Op, Obj(Pointed(Cell(1))), Obj(Cell(0)))
<1>1. /\ Dispatch(MoneyAssign) /\ Op \in MoneyAssign /\ NewObject(o)
      /\ Proceed(Store(Cell(1), Len(Objects), 2)) /\ UNCHANGED <<Strings, Buffers>>
  BY Dispatched DEF AssignMoney
<1>2. Operands(Op) = <<"addr_money", "money">>
  BY <1>1, OperandsOf, Zenon
<1>3. /\ act.top \in Nat \ {0} /\ Fits(Cell(1), "addr_money") /\ Fits(Cell(0), "money")
      /\ Cell(1) \in Int
  BY <1>1, <1>2, Dispatched, Operand2
<1>4. Obj(Pointed(Cell(1))) \in Object /\ Obj(Cell(0)) \in Object /\ IsAddress(Cell(1))
  BY <1>3, FitsOf, ObjectType DEF IsKind
<1>5. o \in Object /\ o.kind = "money"
  BY <1>1, <1>4, AmountType
<1> HIDE DEF o
<1>6. HeapGrows
  BY <1>1, <1>5, ObjectAdded
<1>7. Len(Objects) \in Int /\ 2 \in Nat /\ 2 <= act.top + 1
  BY <1>3 DEF TypeOK
<1> QED BY <1>1, <1>3, <1>4, <1>6, <1>7, StoreLocal, Zenon

\* CompareMoney is a Local step.
LEMMA CompareMoneyLocal ==
  ASSUME TypeOK, CompareMoney
  PROVE  Local
<1> DEFINE v == Truth(MoneyOrder(Op, Obj(Cell(1)), Obj(Cell(0))))
<1>1. Dispatch(MoneyCompare) /\ Op \in MoneyCompare /\ Proceed(Replace(2, v)) /\ HeapGrows
  BY Dispatched, HeapSame DEF CompareMoney
<1>2. Operands(Op) = <<"money", "money">>
  BY <1>1, OperandsOf, Zenon
<1>3. act.top \in Nat \ {0}
  BY <1>1, <1>2, Dispatched, Operand2
<1>4. v \in Int
  BY DEF Truth
<1> HIDE DEF v
<1> QED BY <1>1, <1>3, <1>4, ReplaceLocal

-----------------------------------------------------------------------------
(***************************************************************************)
(* Library and host functions.                                             *)
(***************************************************************************)

\* The operands and the gas of each library function.
LEMMA LibraryOf ==
  /\ \A f \in {Keys, LenMap} : LibSig(f) = <<"map">>
  /\ LibSig(LenArr) = <<"arr">> /\ LibSig(LenBytes) = <<"bytes">>
  /\ LibSig(StrMoney) = <<"money">> /\ LibSig(Join) = <<"arr", "str">>
  /\ \A f \in {LenStr, IntStr, BytesStr} : LibSig(f) = <<"str">>
  /\ \A f \in {StrInt, StrBool, MoneyInt} : LibSig(f) = <<"any">>
  /\ LibSig(Substr) = <<"str", "any", "any">>
  /\ \A f \in Library : LibGas(f) \in Int /\ Len(LibSig(f)) \in 1..3
<1> USE DEF Keys, LenArr, LenMap, LenStr, LenBytes, StrInt, StrBool, StrMoney, IntStr,
            MoneyInt, BytesStr, Join, ReplaceStr, Split, Substr, ContainsStr, HasPrefix,
            JSONDecode, JSONEncode, IsExists, IsStr, IsArray, IsMap, GetStr, GetArray,
            GetMapOf, LibObject
<1>1. LibSig(Keys) = <<"map">> /\ LibSig(LenMap) = <<"map">> /\ LibSig(LenArr) = <<"arr">>
  BY DEF LibSig
<1>2. LibSig(LenBytes) = <<"bytes">> /\ LibSig(StrMoney) = <<"money">>
  BY DEF LibSig
<1>3. LibSig(Join) = <<"arr", "str">>
  BY DEF LibSig
<1>4. LibSig(LenStr) = <<"str">> /\ LibSig(IntStr) = <<"str">> /\ LibSig(BytesStr) = <<"str">>
  BY DEF LibSig
<1>5. LibSig(StrInt) = <<"any">> /\ LibSig(StrBool) = <<"any">> /\ LibSig(MoneyInt) = <<"any">>
  BY DEF LibSig
<1>6. \A f \in Library : LibGas(f) \in Int
  BY DEF LibGas
<1>7. /\ \A x : Len(<<x>>) = 1
      /\ \A x, y : Len(<<x, y>>) = 2
      /\ \A x, y, z : Len(<<x, y, z>>) = 3
  OBVIOUS
<1>8. /\ \A f \in {Keys, LenMap} : LibSig(f) = <<"map">>
      /\ \A f \in {LenStr, IntStr, BytesStr} : LibSig(f) = <<"str">>
      /\ \A f \in {StrInt, StrBool, MoneyInt} : LibSig(f) = <<"any">>
  BY <1>1, <1>4, <1>5, Zenon
<1>9. LibSig(Substr) = <<"str", "any", "any">>
  BY DEF LibSig
<1>10. \A f \in Library : Len(LibSig(f)) \in 1..3
  <2>1. \A f : \/ \E x : LibSig(f) = <<x>>
               \/ \E x, y : LibSig(f) = <<x, y>>
               \/ \E x, y, z : LibSig(f) = <<x, y, z>>
    <3> TAKE f
    <3>1. CASE f \in LibObject \cup {GetStr, GetArray, GetMapOf}
      BY <3>1 DEF LibSig
    <3>2. CASE f \in {ContainsStr, HasPrefix, Split, ReplaceStr, Substr, Join}
      BY <3>2 DEF LibSig
    <3>3. CASE f \notin LibObject \cup {GetStr, GetArray, GetMapOf, ContainsStr, HasPrefix,
                                        Split, ReplaceStr, Substr, Join}
      BY <3>3 DEF LibSig
    <3> QED BY <3>1, <3>2, <3>3
  <2> QED BY <1>7, <2>1
<1> QED BY <1>1, <1>2, <1>3, <1>6, <1>8, <1>9, <1>10

\* A library function that answers with one value is Local.
LEMMA AnswerLocal ==
  ASSUME TypeOK, Dispatch({EMBEDFUNC}), W(1) \in Library, NEW v \in Int, Answer(v), HeapGrows
  PROVE  Local
<1> DEFINE n == Len(LibSig(W(1)))
           a == Replace(n, v)
           b == [a EXCEPT !.gas = a.gas - LibGas(W(1))]
<1>1. Op = EMBEDFUNC /\ status = "running" /\ Fetching /\ OperandsFit /\ act \in ActivationType
  BY Dispatched
<1>2. Operands(Op) = LibSig(W(1))
  BY <1>1, OperandsOf, Zenon
<1>3. n \in 1..3 /\ LibGas(W(1)) \in Int
  BY LibraryOf
<1>4. n \in Nat /\ n <= act.top + 1 /\ n # 0
  <2>1. act.top >= n - 1 /\ act.top \in Int
    BY <1>1, <1>2 DEF OperandsFit, ActivationType, Depths
  <2> HIDE DEF n
  <2> QED BY <1>3, <2>1
<1> HIDE DEF n
<1>5. SameFrame(a, act)
  BY <1>1, <1>4, ReplaceFrame
<1>6. a \in ActivationType /\ a.gas - LibGas(W(1)) \in Int
  BY <1>3, <1>5 DEF SameFrame, ActivationType
<1>7. Proceed(b)
  BY DEF Answer, n
<1> HIDE DEF a
<1>8. SameFrame(b, a)
  BY <1>6, GasFrame
<1> HIDE DEF b
<1>9. SameFrame(b, act)
  BY <1>5, <1>8, FrameTransitive
<1> QED BY <1>1, <1>7, <1>9, ProceedFrame DEF Local

\* A text that parses has a number.
LEMMA NumberType ==
  ASSUME NEW t, Parsed(t)
  PROVE  Number(t) \in Int
BY SizesAssumption DEF Parsed

\* EmbedValue is a Local step.
LEMMA EmbedValueLocal ==
  ASSUME TypeOK, EmbedValue
  PROVE  Local
<1> DEFINE v == CASE W(1) = LenStr -> Len(String(Cell(0)))
                  [] W(1) = IntStr -> Number(String(Cell(0)))
                  [] W(1) = ContainsStr -> Truth(HasText(String(Cell(1)), String(Cell(0))))
                  [] W(1) = HasPrefix -> Truth(HasPrefixAt(String(Cell(1)), String(Cell(0)), 1))
                  [] W(1) = IsExists -> Truth(JsonFound)
                  [] W(1) = IsStr -> JsonForm("text")
                  [] W(1) = IsArray -> JsonForm("list")
                  [] W(1) = IsMap -> JsonForm("map")
                  [] OTHER -> ObjLen(Obj(Cell(0)))
<1>1. Dispatch({EMBEDFUNC}) /\ Op = EMBEDFUNC /\ W(1) \in LibValue /\ Answer(v) /\ HeapGrows
  BY Dispatched, HeapSame DEF EmbedValue
<1>2. Operands(Op) = LibSig(W(1)) /\ OperandsFit
  BY <1>1, OperandsOf, Dispatched, Zenon
<1> USE DEF LenArr, LenMap, LenStr, LenBytes, IntStr, ContainsStr, HasPrefix, IsExists, IsStr,
            IsArray, IsMap, LibObject
<1>3. v \in Int
  <2>1. CASE W(1) \in {LenStr, IntStr}
    <3>1. Operands(Op) = <<"str">>
      BY <1>2, <2>1, LibraryOf, Zenon
    <3>2. String(Cell(0)) \in Text
      BY <1>2, <3>1, Operand1, FitsOf, StringType
    <3>3. W(1) = IntStr => Number(String(Cell(0))) \in Int
      BY <1>1, <3>2, Dispatched, Unfailing, NumberType
    <3>4. Len(String(Cell(0))) \in Int
      BY <3>2 DEF Text
    <3> QED BY <2>1, <3>3, <3>4
  <2>2. CASE W(1) \in {LenArr, LenMap, LenBytes} /\ W(1) \notin {LenStr, IntStr}
    <3>1. PICK s \in {"arr", "map", "bytes"} : Operands(Op) = <<s>>
      BY <1>2, <2>2, LibraryOf, Zenon
    <3>2. Fits(Cell(0), s)
      BY <1>2, <3>1, Operand1
    <3>3. Obj(Cell(0)) \in Object
      BY <3>1, <3>2, FitsOf, ObjectType DEF IsKind
    <3>4. ObjLen(Obj(Cell(0))) \in Int
      <4> DEFINE o == Obj(Cell(0))
      <4>1. o.num \in Int /\ o.items \in Seq(Int)
        BY <3>3 DEF Object
      <4> HIDE DEF o
      <4>2. ObjLen(o) \in Int
        BY <4>1 DEF ObjLen
      <4> QED BY <4>2 DEF o
    <3> QED BY <2>2, <3>4
  <2>3. CASE W(1) \in {ContainsStr, HasPrefix} \cup LibObject
    <3>1. \A c : Truth(c) \in Int
      BY DEF Truth
    <3>2. \A form : JsonForm(form) \in Int
      BY <3>1, Zenon DEF JsonForm
    <3> QED BY <2>3, <3>1, <3>2
  <2> QED BY <1>1, <2>1, <2>2, <2>3 DEF LibValue
<1> HIDE DEF v
<1>4. W(1) \in Library
  BY <1>1 DEF Library
<1> QED BY <1>1, <1>3, <1>4, AnswerLocal

\* Numbers and truth values print as texts.
LEMMA SprintType ==
  ASSUME NEW n
  PROVE  Sprint(n) \in Text /\ SprintBool(n) \in Text
<1>1. \A t : AsText(t) \in Text
  BY DEF AsText, Text
<1>2. Sprint(n) \in Text
  BY <1>1, Zenon DEF Sprint
<1> QED BY <1>2 DEF SprintBool, Text

\* Amounts and joined texts print as texts.
LEMMA TextType ==
  /\ \A t : AsText(t) \in Text
  /\ \A o : SprintMoney(o) \in Text
  /\ \A ts, sep : Separated(ts, sep) \in Text
  /\ \A r, old, new : Replaced(r, old, new) \in Text
  /\ \A v : SprintTree(v) \in Text /\ MarshalTree(v) \in Text
  /\ \A ts : AsTexts(ts) \in Seq(Text)
<1>1. \A t : AsText(t) \in Text
  BY DEF AsText, Text
<1>2. \A o : SprintMoney(o) \in Text
  BY <1>1, Zenon DEF SprintMoney
<1>3. \A ts : Concat(ts) \in Text
  BY <1>1, Zenon DEF Concat
<1>4. \A ts, sep : Separated(ts, sep) \in Text
  BY <1>3, Zenon DEF Separated
<1>5. \A r, old, new : Replaced(r, old, new) \in Text
  BY <1>1, Zenon DEF Replaced
<1>6. \A v : SprintTree(v) \in Text /\ MarshalTree(v) \in Text
  BY <1>1, Zenon DEF SprintTree, MarshalTree
<1>7. \A ts : AsTexts(ts) \in Seq(Text)
  BY DEF AsTexts
<1> QED BY <1>1, <1>2, <1>4, <1>5, <1>6, <1>7

\* What Substr cuts out of a text is a text.
LEMMA SubstrType ==
  ASSUME TypeOK, Op = EMBEDFUNC, W(1) = Substr, OperandsFit, ItemsFit, Failure = "none"
  PROVE  SubstrCut \in Text
<1> DEFINE t == String(Cell(2))
<1>1. Operands(Op) = <<"str", "any", "any">>
  BY OperandsOf, LibraryOf, Zenon
<1>2. Cell(0) \in Int /\ Cell(1) \in Int /\ t \in Text
  BY <1>1, Operand3, FitsOf, StringType
<1>3. t \in Seq(Int) /\ Len(t) \in Nat
  BY <1>2 DEF Text
<1>4. ~SubstrRefused /\ SubstrFrom <= SubstrTo
  BY Unfailing DEF ItemsFit
<1>5. SubstrFrom \in 0..Len(t) - 1
  BY <1>4 DEF SubstrRefused
<1>6. SubstrTo \in Int /\ SubstrTo <= Len(t)
  <2>1. SubstrLen \in Int
    <3>1. -Cell(0) \in Int
      BY <1>2
    <3> QED BY <1>2, <3>1, WrapType DEF SubstrLen
  <2>2. SubstrFrom + SubstrLen \in Int
    BY <1>5, <2>1
  <2>3. Wrap(SubstrFrom + SubstrLen) \in Int /\ ~(Wrap(SubstrFrom + SubstrLen) > Len(t))
    BY <1>4, <2>2, WrapType DEF SubstrRefused
  <2> QED BY <1>3, <2>3 DEF SubstrTo
<1> HIDE DEF t
<1>7. SubSeq(t, SubstrFrom + 1, SubstrTo) \in Text
  BY <1>3, <1>5, <1>6 DEF Text
<1> QED BY <1>7 DEF t, SubstrCut

\* EmbedText is a Local step.
LEMMA EmbedTextLocal ==
  ASSUME TypeOK, EmbedText
  PROVE  Local
<1>1. /\ Dispatch({EMBEDFUNC}) /\ Op = EMBEDFUNC /\ W(1) \in LibText /\ NewString(LibAnswer)
      /\ Answer(Len(Strings)) /\ UNCHANGED <<Objects, Buffers>>
  BY Dispatched DEF EmbedText
<1>2. Operands(Op) = LibSig(W(1)) /\ OperandsFit
  BY <1>1, OperandsOf, Dispatched, Zenon
<1> USE DEF StrInt, StrBool, StrMoney, Join, ReplaceStr, Substr, JSONEncode
<1>3. LibAnswer \in Text
  <2>1. CASE W(1) \in {StrInt, StrBool}
    <3>1. Operands(Op) = <<"any">>
      BY <1>2, <2>1, LibraryOf, Zenon
    <3>2. Cell(0) \in Int
      BY <1>2, <3>1, Operand1
    <3>3. Sprint(Cell(0)) \in Text /\ SprintBool(Cell(0)) \in Text
      BY <3>2, SprintType
    <3> QED BY <2>1, <3>3 DEF LibAnswer
  <2>2. CASE W(1) = StrMoney
    <3>1. LibAnswer = SprintMoney(Obj(Cell(0)))
      BY <2>2 DEF LibAnswer
    <3> QED BY <3>1, TextType
  <2>3. CASE W(1) = Join
    <3> DEFINE items == Obj(Cell(1)).items
               ts == [k \in 1..Len(items) |-> String(items[k])]
    <3>1. LibAnswer = Separated(ts, String(Cell(0)))
      BY <2>3 DEF LibAnswer
    <3> HIDE DEF ts
    <3> QED BY <3>1, TextType
  <2>4. CASE W(1) \in {ReplaceStr, JSONEncode}
    <3>1. \/ LibAnswer = Replaced(String(Cell(2)), String(Cell(1)), String(Cell(0)))
          \/ LibAnswer = MarshalTree(TreeVal("map", Obj(Cell(0)).tree))
      BY <2>4 DEF LibAnswer
    <3> QED BY <3>1, TextType, Zenon
  <2>5. CASE W(1) = Substr
    <3>1. LibAnswer = SubstrCut
      BY <2>5 DEF LibAnswer
    <3> QED BY <1>1, <1>2, <2>5, <3>1, SubstrType, Dispatched
  <2> QED BY <1>1, <2>1, <2>2, <2>3, <2>4, <2>5 DEF LibText
<1>4. HeapGrows
  BY <1>1, <1>3, StringAdded
<1>5. W(1) \in Library /\ Len(Strings) \in Int
  BY <1>1 DEF Library, TypeOK
<1> QED BY <1>1, <1>4, <1>5, AnswerLocal

\* The texts an array is made of are texts.
LEMMA LibTextsType ==
  ASSUME W(1) \in LibList
  PROVE  LibTexts \in Seq(Text)
<1>1. \A v : <<SprintTree(v)>> \in Seq(Text)
  BY TextType
<1>2. JsonTexts \in Seq(Text)
  BY TextType, Zenon DEF JsonTexts
<1>3. SortedKeys(Obj(Cell(0))) \in Seq(Text)
  BY DEF SortedKeys
<1>4. \A r, sep : SplitBy(r, sep) \in Seq(Text)
  BY TextType, Zenon DEF SplitBy
<1>5. <<>> \in Seq(Text)
  OBVIOUS
<1> QED BY <1>1, <1>2, <1>3, <1>4, <1>5 DEF LibTexts, LibList, Keys, Split, GetArray

\* New texts, and one object with their indices.
LEMMA TextsAdded ==
  ASSUME TypeOK, NEW ts \in Seq(Text), Strings' = Strings \o ts, UNCHANGED Buffers,
         NEW o \in Object, NewObject(o), o.kind # "bytes"
  PROVE  HeapGrows
<1> DEFINE os == <<o>>
<1>1. /\ os \in Seq(Object) /\ Objects' = Objects \o os
      /\ \A k \in 1..Len(os) : os[k].kind = "bytes" => Backed(os[k])
  BY DEF NewObject, TypeOK
<1> HIDE DEF os
<1> QED BY <1>1, ObjectsGrow

\* The indices of new texts are numbers.
LEMMA IndicesType ==
  ASSUME TypeOK, NEW ts \in Seq(Text)
  PROVE  [k \in 1..Len(ts) |-> Len(Strings) + k - 1] \in Seq(Int)
<1> DEFINE is == [k \in 1..Len(ts) |-> Len(Strings) + k - 1]
<1>1. Len(Strings) \in Int /\ Len(ts) \in Nat
  BY DEF TypeOK
<1>2. is \in [1..Len(ts) -> Int]
  BY <1>1
<1> HIDE DEF is
<1>3. is \in Seq(Int)
  BY <1>1, <1>2, FunctionSeq
<1> QED BY <1>3 DEF is

\* EmbedList is a Local step.
LEMMA EmbedListLocal ==
  ASSUME TypeOK, EmbedList
  PROVE  Local
<1> DEFINE is == [k \in 1..Len(LibTexts) |-> Len(Strings) + k - 1]
<1>1. /\ Dispatch({EMBEDFUNC}) /\ W(1) \in LibList /\ Strings' = Strings \o LibTexts
      /\ NewObject(Arr(is)) /\ Answer(Len(Objects)) /\ UNCHANGED Buffers
  BY DEF EmbedList
<1>2. LibTexts \in Seq(Text)
  BY <1>1, LibTextsType
<1>3. is \in Seq(Int)
  BY <1>2, IndicesType
<1> HIDE DEF is
<1>4. Arr(is) \in Object /\ Arr(is).kind = "arr"
  BY <1>3, ArrObject
<1>5. HeapGrows
  BY <1>1, <1>2, <1>4, TextsAdded
<1>6. W(1) \in Library /\ Len(Objects) \in Int
  BY <1>1 DEF Library, TypeOK
<1> QED BY <1>1, <1>5, <1>6, AnswerLocal

\* EmbedGetMap is a Local step.
LEMMA EmbedGetMapLocal ==
  ASSUME TypeOK, EmbedGetMap
  PROVE  Local
<1> DEFINE ts == IF JsonFound /\ JsonHeld.form = "map" THEN JsonTexts ELSE <<>>
           ks == AsTexts([k \in 1..Len(ts) |-> JsonHeld.tree[Nth(JsonItems, k)].key])
           is == [k \in 1..Len(ts) |-> Len(Strings) + k - 1]
<1>1. /\ Dispatch({EMBEDFUNC}) /\ W(1) = GetMapOf /\ Strings' = Strings \o ts
      /\ NewObject(Map(ks, is)) /\ Answer(Len(Objects)) /\ UNCHANGED Buffers
  BY DEF EmbedGetMap
<1>2. ts \in Seq(Text)
  <2>1. JsonTexts \in Seq(Text)
    BY TextType, Zenon DEF JsonTexts
  <2> QED BY <2>1
<1>3. ks \in Seq(Text)
  BY TextType, Zenon
<1> HIDE DEF ts, ks
<1>4. is \in Seq(Int)
  BY <1>2, IndicesType
<1> HIDE DEF is
<1>5. Map(ks, is) \in Object /\ Map(ks, is).kind = "map"
  BY <1>3, <1>4, MapObject
<1>6. HeapGrows
  BY <1>1, <1>2, <1>5, TextsAdded
<1>7. W(1) \in Library /\ Len(Objects) \in Int
  BY <1>1 DEF Library, TypeOK
<1> QED BY <1>1, <1>6, <1>7, AnswerLocal

\* EmbedGetString is a Local step.
LEMMA EmbedGetStringLocal ==
  ASSUME TypeOK, EmbedGetString
  PROVE  Local
<1>1. Dispatch({EMBEDFUNC}) /\ W(1) = GetStr /\ UNCHANGED <<Objects, Buffers>>
  BY DEF EmbedGetString
<1>2. W(1) \in Library /\ Len(Strings) \in Int /\ 0 \in Int
  BY <1>1 DEF Library, TypeOK
<1>3. CASE JsonFound
  <2>1. NewString(SprintTree(JsonHeld)) /\ Answer(Len(Strings))
    BY <1>3 DEF EmbedGetString
  <2>2. HeapGrows
    BY <1>1, <2>1, TextType, StringAdded
  <2> QED BY <1>1, <1>2, <2>1, <2>2, AnswerLocal
<1>4. CASE ~JsonFound
  <2>1. Answer(0) /\ UNCHANGED heap
    BY <1>1, <1>4 DEF EmbedGetString, heap
  <2> QED BY <1>1, <1>2, <2>1, HeapSame, AnswerLocal
<1> QED BY <1>3, <1>4

\* EmbedDecode is a Local step.
LEMMA EmbedDecodeLocal ==
  ASSUME TypeOK, EmbedDecode
  PROVE  Local
<1>1. /\ Dispatch({EMBEDFUNC}) /\ W(1) = JSONDecode /\ UNCHANGED <<Strings, Buffers>>
      /\ Answer(Len(Objects))
  BY DEF EmbedDecode
<1>2. PICK t \in Documents : NewObject(JsonObject("obj", t))
  BY DEF EmbedDecode
<1>3. JsonObject("obj", t) \in Object /\ JsonObject("obj", t).kind # "bytes"
  BY SizesAssumption, JsonObjectType
<1>4. HeapGrows
  BY <1>1, <1>2, <1>3, ObjectAdded
<1>5. W(1) \in Library /\ Len(Objects) \in Int
  BY <1>1 DEF Library, TypeOK
<1> QED BY <1>1, <1>4, <1>5, AnswerLocal

\* A []byte with a backing array of its own.
LEMMA BytesAdded ==
  ASSUME TypeOK, NEW t \in Text, Buffers' = Append(Buffers, t),
         NewObject(Bytes(Len(Buffers) + 1, Len(t))), UNCHANGED Strings
  PROVE  HeapGrows
<1> DEFINE o == Bytes(Len(Buffers) + 1, Len(t))
<1>1. /\ Strings \in Seq(Text) /\ Objects \in Seq(Object) /\ Buffers \in Seq(Text)
      /\ BytesBacked /\ Len(t) \in Nat
  BY DEF TypeOK, Text
<1>2. o \in Object /\ o.num = Len(t) /\ o.buf = Len(Buffers) + 1
  BY <1>1, BytesObject
<1> HIDE DEF o
<1>3. Objects' = Append(Objects, o)
  BY DEF NewObject, o
<1>4. /\ Objects' \in Seq(Object) /\ Len(Objects') = Len(Objects) + 1
      /\ Objects'[Len(Objects) + 1] = o
      /\ \A k \in DOMAIN Objects : Objects'[k] = Objects[k]
  BY <1>1, <1>2, <1>3
<1>5. /\ Buffers' \in Seq(Text) /\ DOMAIN Buffers \subseteq DOMAIN Buffers'
      /\ Len(Buffers) + 1 \in DOMAIN Buffers' /\ Buffers'[Len(Buffers) + 1] = t
      /\ \A b \in DOMAIN Buffers : Buffers'[b] = Buffers[b]
  BY <1>1
<1>6. ASSUME NEW j \in DOMAIN Objects', Objects'[j].kind = "bytes" PROVE Backed(Objects[j])'
  <2>1. CASE j = Len(Objects) + 1
    BY <1>1, <1>2, <1>4, <1>5, <2>1 DEF Backed
  <2>2. CASE j \in DOMAIN Objects
    BY <1>1, <1>4, <1>5, <1>6, <2>2 DEF BytesBacked, Backed
  <2>3. j \in DOMAIN Objects \/ j = Len(Objects) + 1
    BY <1>1, <1>4
  <2> QED BY <2>1, <2>2, <2>3
<1> QED BY <1>1, <1>4, <1>5, <1>6 DEF HeapGrows, BytesBacked

\* EmbedObject is a Local step.
LEMMA EmbedObjectLocal ==
  ASSUME TypeOK, EmbedObject
  PROVE  Local
<1>1. /\ Dispatch({EMBEDFUNC}) /\ Op = EMBEDFUNC /\ W(1) \in {MoneyInt, BytesStr}
      /\ Answer(Len(Objects)) /\ UNCHANGED Strings
      /\ IF W(1) = MoneyInt
         THEN NewObject(Money(Cell(0), 1)) /\ UNCHANGED Buffers
         ELSE /\ Buffers' = Append(Buffers, String(Cell(0)))
              /\ NewObject(Bytes(Len(Buffers) + 1, Len(String(Cell(0)))))
  BY Dispatched DEF EmbedObject
<1>2. Operands(Op) = LibSig(W(1)) /\ OperandsFit
  BY <1>1, OperandsOf, Dispatched, Zenon
<1>3. HeapGrows
  <2>1. CASE W(1) = MoneyInt
    <3>1. Operands(Op) = <<"any">>
      BY <1>2, <2>1, LibraryOf, Zenon
    <3>2. Cell(0) \in Int /\ 1 \in Nat \ {0}
      BY <1>2, <3>1, Operand1
    <3>3. Money(Cell(0), 1) \in Object /\ Money(Cell(0), 1).kind = "money"
      BY <3>2, MoneyObject
    <3>4. NewObject(Money(Cell(0), 1)) /\ UNCHANGED <<Strings, Buffers>>
      BY <1>1, <2>1
    <3> QED BY <3>3, <3>4, ObjectAdded
  <2>2. CASE W(1) = BytesStr /\ W(1) # MoneyInt
    <3>1. Operands(Op) = <<"str">>
      BY <1>2, <2>2, LibraryOf, Zenon
    <3>2. String(Cell(0)) \in Text
      BY <1>2, <3>1, Operand1, FitsOf, StringType
    <3> QED BY <1>1, <2>2, <3>2, BytesAdded
  <2> QED BY <1>1, <2>1, <2>2
<1>4. W(1) \in Library /\ Len(Objects) \in Int
  BY <1>1 DEF Library, TypeOK
<1> QED BY <1>1, <1>3, <1>4, AnswerLocal

\* CustomFunc is a Local step.
LEMMA CustomFuncLocal ==
  ASSUME TypeOK, CustomFunc
  PROVE  Local
<1> DEFINE n == HostArgs
           ps == HostFunc.params
           sorts == [k \in 1..Len(ps) |-> HostSort(ps[k])]
           S == {HostSort(ps[k]) : k \in 1..Len(ps)}
<1>1. Dispatch({CUSTOMFUNC}) /\ Op = CUSTOMFUNC
  BY Dispatched DEF CustomFunc
<1>2. Known /\ OperandsFit /\ Fetching /\ act \in ActivationType /\ status = "running"
  BY <1>1, Dispatched
<1>3. W(1) \in Nat
  BY <1>1, WordsOf, OperandWord
<1>4. ps \in Seq(Nat) /\ HostFunc \in [params : Seq(Nat), result : Nat]
  <2>1. prog.funcs \in Seq([params : Seq(Nat), result : Nat]) /\ W(1) < Len(prog.funcs)
    BY <1>1, <1>2 DEF TypeOK, Linked, Program, Known
  <2>2. HostFunc \in [params : Seq(Nat), result : Nat]
    <3>1. W(1) + 1 \in 1..Len(prog.funcs)
      BY <1>3, <2>1
    <3> QED BY <2>1, <3>1, ElementOfSeq, Zenon DEF HostFunc
  <2> QED BY <2>2
<1>5. Len(ps) \in Nat /\ n = Len(ps)
  BY <1>4 DEF HostArgs
<1>6. sorts \in [1..Len(ps) -> S] /\ sorts = Operands(Op)
  <2>1. Operands(Op) = sorts
    BY <1>1, OperandsOf, Zenon
  <2> QED BY <2>1
<1> HIDE DEF sorts, S
<1>7. sorts \in Seq(S) /\ Len(sorts) = n
  BY <1>5, <1>6, FunctionSeq
<1>8. n <= act.top + 1
  BY <1>2, <1>5, <1>6, <1>7, OperandsN
<1>9. n = 0 /\ HostFunc.result # VVoid => Pushes(Op)
  <2>1. n = 0 => ps = <<>>
    <3> HIDE DEF n, ps
    <3>1. ps \in Seq(Nat) /\ n = Len(ps)
      BY <1>4, <1>5
    <3> QED BY <3>1, EmptySeq
  <2> QED BY <1>1, <2>1 DEF Pushes, HostFunc
<1> HIDE DEF n
\* The frame of each outcome.
<1>10. ASSUME NEW c \in Int, NEW a, SameFrame(a, act), Proceed([a EXCEPT !.gas = @ - c]), HeapGrows
       PROVE  Local
  <2> DEFINE b == [a EXCEPT !.gas = a.gas - c]
  <2>1. a \in ActivationType /\ a.gas - c \in Int
    BY <1>10 DEF SameFrame, ActivationType
  <2>2. SameFrame(b, a)
    BY <2>1, GasFrame
  <2>3. Proceed(b)
    BY <1>10
  <2> HIDE DEF b
  <2>4. SameFrame(b, act)
    BY <1>10, <2>2, FrameTransitive
  <2> QED BY <1>2, <1>10, <2>3, <2>4, ProceedFrame DEF Local
<1>11. ASSUME NEW c \in Int, NEW v \in Int, HostFunc.result # VVoid,
              Proceed([Replace(n, v) EXCEPT !.gas = @ - c]), HeapGrows
       PROVE  Local
  <2>1. n = 0 => act.top + 1 < StackSize
    BY <1>2, <1>9, <1>11 DEF OperandsFit
  <2>2. SameFrame(Replace(n, v), act)
    BY <1>2, <1>5, <1>8, <2>1, ReplaceFrame
  <2> QED BY <1>10, <1>11, <2>2
<1>12. PICK cost \in HostGas :
       \/ /\ HostFunc.result = VVoid
          /\ Proceed([Drop(n) EXCEPT !.gas = @ - cost])
          /\ UNCHANGED heap
       \/ \E v \in CASE HostFunc.result = VInt  -> HostInts
                     [] HostFunc.result = VBool -> {0, 1}
                     [] OTHER -> {} :
            /\ Proceed([Replace(n, v) EXCEPT !.gas = @ - cost])
            /\ UNCHANGED heap
       \/ /\ HostFunc.result = VStr
          /\ \E t \in HostTexts : NewString(t)
          /\ Proceed([Replace(n, Len(Strings)) EXCEPT !.gas = @ - cost])
          /\ UNCHANGED <<Objects, Buffers>>
  BY Zenon DEF CustomFunc, n
<1>13. cost \in Int
  BY SizesAssumption
<1>14. CASE HostFunc.result = VVoid /\ Proceed([Drop(n) EXCEPT !.gas = @ - cost]) /\ UNCHANGED heap
  <2>1. SameFrame(Drop(n), act)
    BY <1>2, <1>5, <1>8, DropFrame
  <2>2. HeapGrows
    BY <1>14, HeapSame
  <2> QED BY <1>10, <1>13, <1>14, <2>1, <2>2
<1>15. CASE \E v \in CASE HostFunc.result = VInt  -> HostInts
                       [] HostFunc.result = VBool -> {0, 1}
                       [] OTHER -> {} :
              Proceed([Replace(n, v) EXCEPT !.gas = @ - cost]) /\ UNCHANGED heap
  <2>1. PICK v \in CASE HostFunc.result = VInt  -> HostInts
                     [] HostFunc.result = VBool -> {0, 1}
                     [] OTHER -> {} :
          Proceed([Replace(n, v) EXCEPT !.gas = @ - cost]) /\ UNCHANGED heap
    BY <1>15
  <2>2. HostFunc.result \in {VInt, VBool}
    OBVIOUS
  <2>3. v \in Int /\ HostFunc.result # VVoid
    BY <2>2, SizesAssumption DEF VInt, VBool, VVoid
  <2>4. HeapGrows
    BY <2>1, HeapSame
  <2> QED BY <1>11, <1>13, <2>1, <2>3, <2>4
<1>16. CASE /\ HostFunc.result = VStr
            /\ \E t \in HostTexts : NewString(t)
            /\ Proceed([Replace(n, Len(Strings)) EXCEPT !.gas = @ - cost])
            /\ UNCHANGED <<Objects, Buffers>>
  <2>1. HeapGrows
    BY <1>16, SizesAssumption, StringAdded
  <2>2. HostFunc.result # VVoid /\ Len(Strings) \in Int
    BY <1>16 DEF VStr, VVoid, TypeOK
  <2> QED BY <1>11, <1>13, <1>16, <2>1, <2>2
<1> QED BY <1>12, <1>14, <1>15, <1>16

-----------------------------------------------------------------------------
(***************************************************************************)
(* Parameters of a contract.                                               *)
(***************************************************************************)

\* LoadPars is a Local step.
LEMMA LoadParsLocal ==
  ASSUME TypeOK, LoadPars
  PROVE  Local
<1> DEFINE n == Len(act.params) \div 2
           given(k) == {j \in 1..n : act.params[2 * j - 1] = k - 1}
           last(k)  == CHOOSE j \in given(k) : \A m \in given(k) : m <= j
           val(k) == IF given(k) = {} THEN act.Vars[k] ELSE act.params[2 * last(k)]
           vs == [k \in DOMAIN act.Vars |-> val(k)]
<1>1. Dispatch({LOADPARS}) /\ Proceed([act EXCEPT !.Vars = vs]) /\ HeapGrows
  BY HeapSame DEF LoadPars
<1>2. status = "running" /\ Fetching /\ act \in ActivationType
  BY <1>1, Dispatched
<1>3. act.Vars \in Seq(Int) /\ act.params \in Seq(Int)
  BY <1>2 DEF ActivationType
<1>4. n \in Nat /\ 2 * n <= Len(act.params)
  <2>1. \A m \in Nat : m \div 2 \in Nat /\ 2 * (m \div 2) <= m
    OBVIOUS
  <2>2. Len(act.params) \in Nat
    BY <1>3
  <2> QED BY <2>1, <2>2
<1> HIDE DEF n
<1>5. ASSUME NEW k \in DOMAIN act.Vars PROVE val(k) \in Int
  <2>1. CASE given(k) = {}
    BY <1>3, <2>1
  <2>2. CASE given(k) # {}
    <3>1. given(k) \subseteq 0..n /\ given(k) \subseteq 1..n
      BY <1>4
    <3> HIDE DEF given
    <3>2. \E j \in given(k) : \A m \in given(k) : m <= j
      BY <1>4, <2>2, <3>1, Largest
    <3>3. last(k) \in 1..n
      BY <3>1, <3>2
    <3> HIDE DEF last
    <3>4. 2 * last(k) \in 1..Len(act.params)
      BY <1>3, <1>4, <3>3
    <3>5. act.params[2 * last(k)] \in Int
      BY <1>3, <3>4
    <3> QED BY <2>2, <3>5
  <2> QED BY <2>1, <2>2
<1> HIDE DEF val, last, given
<1>6. vs \in [1..Len(act.Vars) -> Int] /\ Len(act.Vars) \in Nat
  BY <1>3, <1>5
<1> HIDE DEF vs
<1>7. vs \in Seq(Int)
  BY <1>6, FunctionSeq
<1>8. SameFrame([act EXCEPT !.Vars = vs], act)
  BY <1>2, <1>7, VarsFrame
<1> QED BY <1>1, <1>2, <1>8, ProceedFrame DEF Local

-----------------------------------------------------------------------------
\* All of them together.
LEMMA LocalStep ==
  ASSUME TypeOK,
         \/ Stacking \/ Numbers \/ Jumping \/ Texts \/ Structures \/ Amounts
         \/ Calling \/ LoadPars
  PROVE  Local
<1>1. CASE Stacking
  BY <1>1, Push16Local, Push32Local, Push64Local, PushStrLocal, DupLocal, GetVarLocal,
     SetVarLocal, EnvLocal, Zenon DEF Stacking
<1>2. CASE Numbers
  BY <1>2, ComputeLocal, NegateLocal, NotLocal, AssignIntLocal, AssignComputeLocal, Zenon
  DEF Numbers
<1>3. CASE Jumping
  BY <1>3, JmpLocal, JmpRelLocal, JumpIfLocal, CallFuncLocal, GetParamsLocal, RetFuncLocal, Zenon
  DEF Jumping
<1>4. CASE Texts
  BY <1>4, AddStrLocal, EqStrLocal, AssignStrLocal, AssignAddStrLocal, Zenon DEF Texts
<1>5. CASE Structures
  BY <1>5, InitArrLocal, InitMapLocal, InitObjLocal, InitObjListLocal, Obj2ListLocal, AppendArrLocal, GetIndexLocal, GetMapLocal,
     CheckIndexLocal, AssignSetArrLocal, AssignSetMapLocal, AssignSetBytesLocal,
     AssignAddBytesLocal, CopyLocal, Zenon DEF Structures
<1>6. CASE Amounts
  BY <1>6, ComputeMoneyLocal, SignMoneyLocal, AssignMoneyLocal, CompareMoneyLocal, Zenon
  DEF Amounts
<1>7. CASE Calling
  BY <1>7, EmbedValueLocal, EmbedTextLocal, EmbedListLocal, EmbedObjectLocal,
     EmbedGetStringLocal, EmbedGetMapLocal, EmbedDecodeLocal,
     CustomFuncLocal, Zenon DEF Calling
<1>8. CASE LoadPars
  BY <1>8, LoadParsLocal
<1> QED BY <1>1, <1>2, <1>3, <1>4, <1>5, <1>6, <1>7, <1>8, Zenon

-----------------------------------------------------------------------------
IInv == TypeOK /\ HeapMarks /\ HeapReleased

-----------------------------------------------------------------------------
(***************************************************************************)
(* Marks.                                                                  *)
(***************************************************************************)

\* What the marks of one activation are like.
OwnMarks(a) == /\ Len(a.counts) = IF a.isParContract THEN 2 ELSE 1
               /\ Below(a.counts[1], LastMark(a))

\* Below is reflexive and transitive.
LEMMA BelowOrder ==
  /\ \A m \in MarkType : Below(m, m)
  /\ \A m, n, o \in MarkType : Below(m, n) /\ Below(n, o) => Below(m, o)
BY DEF Below, MarkType

\* The first and the last mark of an activation are marks.
LEMMA MarksTyped ==
  ASSUME NEW a \in ActivationType, OwnMarks(a)
  PROVE  a.counts[1] \in MarkType /\ LastMark(a) \in MarkType /\ Len(a.counts) \in {1, 2}
<1>1. a.counts \in Seq(MarkType)
  BY DEF ActivationType
<1>2. Len(a.counts) \in {1, 2}
  BY DEF OwnMarks
<1> QED BY <1>1, <1>2 DEF LastMark

\* The marks of a stack of activations ascend if those below its last one do, up
\* to its first mark.
LEMMA AscendAppend ==
  ASSUME NEW acts \in Seq(ActivationType), NEW a \in ActivationType, NEW m
  PROVE  Ascending(Append(acts, a), m) <=>
           /\ Ascending(acts, a.counts[1]) /\ OwnMarks(a) /\ Below(LastMark(a), m)
<1> DEFINE bs == Append(acts, a)
           own(b, n) == OwnMarks(b) /\ Below(LastMark(b), n)
<1>1. /\ Len(bs) = Len(acts) + 1 /\ DOMAIN bs = 1..Len(bs) /\ Len(acts) \in Nat
      /\ DOMAIN acts = 1..Len(acts) /\ bs[Len(bs)] = a
      /\ \A k \in 1..Len(acts) : bs[k] = acts[k]
  OBVIOUS
<1>2. Ascending(bs, m) <=> \A k \in DOMAIN bs : own(bs[k], IF k < Len(bs) THEN bs[k + 1].counts[1] ELSE m)
  BY Zenon DEF Ascending, OwnMarks
<1>3. Ascending(acts, a.counts[1]) <=>
        \A k \in DOMAIN acts : own(acts[k], IF k < Len(acts) THEN acts[k + 1].counts[1] ELSE a.counts[1])
  BY Zenon DEF Ascending, OwnMarks
<1> HIDE DEF own, bs
<1>4. \A k \in DOMAIN acts :
        (IF k < Len(bs) THEN bs[k + 1].counts[1] ELSE m) =
        (IF k < Len(acts) THEN acts[k + 1].counts[1] ELSE a.counts[1])
  BY <1>1
<1>5. (IF Len(bs) < Len(bs) THEN bs[Len(bs) + 1].counts[1] ELSE m) = m
  BY <1>1
<1>6. Ascending(bs, m) <=> Ascending(acts, a.counts[1]) /\ own(a, m)
  <2>1. ASSUME Ascending(bs, m) PROVE Ascending(acts, a.counts[1]) /\ own(a, m)
    <3>1. own(a, m)
      BY <1>1, <1>2, <1>5, <2>1
    <3>2. ASSUME NEW k \in DOMAIN acts
          PROVE own(acts[k], IF k < Len(acts) THEN acts[k + 1].counts[1] ELSE a.counts[1])
      <4>1. k \in DOMAIN bs /\ bs[k] = acts[k]
        BY <1>1
      <4> QED BY <1>2, <1>4, <2>1, <4>1
    <3> QED BY <1>3, <3>1, <3>2
  <2>2. ASSUME Ascending(acts, a.counts[1]), own(a, m) PROVE Ascending(bs, m)
    <3>1. ASSUME NEW k \in DOMAIN bs
          PROVE own(bs[k], IF k < Len(bs) THEN bs[k + 1].counts[1] ELSE m)
      <4>1. CASE k = Len(bs)
        BY <1>1, <1>5, <2>2, <4>1
      <4>2. CASE k # Len(bs)
        <5>1. k \in DOMAIN acts /\ bs[k] = acts[k]
          BY <1>1, <4>2
        <5> QED BY <1>3, <1>4, <2>2, <5>1
      <4> QED BY <4>1, <4>2
    <3> QED BY <1>2, <3>1
  <2> QED BY <2>1, <2>2
<1> QED BY <1>6, Zenon DEF own, bs

\* Marks that ascend to m ascend to whatever m is below.
LEMMA AscendHigher ==
  ASSUME NEW acts \in Seq(ActivationType), NEW m \in MarkType, NEW n \in MarkType,
         Ascending(acts, m), Below(m, n)
  PROVE  Ascending(acts, n)
<1>1. ASSUME NEW k \in DOMAIN acts
      PROVE  Below(LastMark(acts[k]), IF k < Len(acts) THEN acts[k + 1].counts[1] ELSE n)
  <2>1. Below(LastMark(acts[k]), IF k < Len(acts) THEN acts[k + 1].counts[1] ELSE m)
    BY DEF Ascending
  <2>2. CASE k < Len(acts)
    BY <2>1, <2>2
  <2>3. CASE ~(k < Len(acts))
    <3>1. OwnMarks(acts[k]) /\ acts[k] \in ActivationType
      BY DEF Ascending, OwnMarks
    <3>2. LastMark(acts[k]) \in MarkType
      BY <3>1, MarksTyped
    <3>3. Below(LastMark(acts[k]), n)
      BY <2>1, <2>3, <3>2, BelowOrder
    <3> QED BY <2>3, <3>3
  <2> QED BY <2>2, <2>3
<1> QED BY <1>1, Zenon DEF Ascending

\* No marks ascend to anything.
LEMMA AscendEmpty ==
  ASSUME NEW m
  PROVE  Ascending(<<>>, m)
BY DEF Ascending

\* The suspended activations and the one that called last.
LEMMA CallersSplit ==
  ASSUME NEW S, NEW acts \in Seq(S), acts # <<>>
  PROVE  /\ acts[Len(acts)] \in S /\ SubSeq(acts, 1, Len(acts) - 1) \in Seq(S)
         /\ Len(acts) \in Nat \ {0} /\ Len(SubSeq(acts, 1, Len(acts) - 1)) = Len(acts) - 1
         /\ \A k \in 1..Len(acts) - 1 : SubSeq(acts, 1, Len(acts) - 1)[k] = acts[k]
         /\ acts = Append(SubSeq(acts, 1, Len(acts) - 1), acts[Len(acts)])
<1>1. Len(acts) \in Nat \ {0}
  BY EmptySeq
<1>2. acts[Len(acts)] \in S
  BY <1>1
<1>3. /\ SubSeq(acts, 1, Len(acts) - 1) \in Seq(S)
      /\ Len(SubSeq(acts, 1, Len(acts) - 1)) = Len(acts) - 1
      /\ \A k \in 1..Len(acts) - 1 : SubSeq(acts, 1, Len(acts) - 1)[k] = acts[k]
  <2>1. Len(acts) - 1 \in Nat /\ Len(acts) - 1 <= Len(acts)
    BY <1>1
  <2> QED BY <2>1, Prefix
<1> DEFINE bs == Append(SubSeq(acts, 1, Len(acts) - 1), acts[Len(acts)])
<1>4. bs \in Seq(S) /\ Len(bs) = Len(acts)
  BY <1>1, <1>2, <1>3
<1>5. \A k \in 1..Len(acts) : acts[k] = bs[k]
  BY <1>1, <1>2, <1>3
<1> HIDE DEF bs
<1>6. acts = bs
  BY <1>4, <1>5, SeqEqual
<1> QED BY <1>1, <1>2, <1>3, <1>6 DEF bs

\* The present size of the heap is a mark.
LEMMA MarkTyped ==
  ASSUME TypeOK
  PROVE  Mark \in MarkType
BY DEF TypeOK, Mark, MarkType

\* The marks while a contract is running, activation by activation.
LEMMA RunningMarks ==
  ASSUME TypeOK, status \in {"running", "panic"}
  PROVE  /\ MarksAscend <=> /\ Ascending(callers, act.counts[1])
                            /\ OwnMarks(act) /\ Below(LastMark(act), Mark)
         /\ BaseKept <=> (IF callers = <<>> THEN act ELSE callers[1]).counts[1] = Base
<1>1. callers \in Seq(ActivationType) /\ act \in ActivationType
  BY DEF TypeOK
<1>2. Live = Append(callers, act)
  BY DEF Live
<1>3. MarksAscend <=> Ascending(Append(callers, act), Mark)
  BY <1>2 DEF MarksAscend
<1>4. Live # <<>> /\ Live[1] = IF callers = <<>> THEN act ELSE callers[1]
  <2>1. CASE callers = <<>>
    BY <1>2, <2>1
  <2>2. CASE callers # <<>>
    <3>1. Len(callers) \in Nat \ {0}
      BY <1>1, <2>2, EmptySeq
    <3> QED BY <1>1, <1>2, <2>2, <3>1
  <2> QED BY <2>1, <2>2
<1> QED BY <1>1, <1>3, <1>4, AscendAppend DEF BaseKept

\* The marks of the activation that called last, and of those below it.
LEMMA CallerMarks ==
  ASSUME TypeOK, callers # <<>>, NEW m, Ascending(callers, m)
  PROVE  /\ Caller \in ActivationType /\ Suspended \in Seq(ActivationType)
         /\ OwnMarks(Caller) /\ Caller.counts[1] \in MarkType /\ LastMark(Caller) \in MarkType
         /\ Ascending(Suspended, Caller.counts[1])
         /\ Below(Caller.counts[1], LastMark(Caller)) /\ Below(LastMark(Caller), m)
<1>1. callers \in Seq(ActivationType)
  BY DEF TypeOK
<1>2. /\ Caller \in ActivationType /\ Suspended \in Seq(ActivationType)
      /\ callers = Append(Suspended, Caller)
  BY <1>1, CallersSplit DEF Caller, Suspended
<1>3. Ascending(Append(Suspended, Caller), m)
  BY <1>2
<1>4. Ascending(Suspended, Caller.counts[1]) /\ OwnMarks(Caller) /\ Below(LastMark(Caller), m)
  BY <1>2, <1>3, AscendAppend
<1> QED BY <1>2, <1>4, MarksTyped DEF OwnMarks

\* The same of the state after a step.
LEMMA RunningMarksNext ==
  ASSUME TypeOK', status' \in {"running", "panic"},
         Ascending(callers', act'.counts[1]), OwnMarks(act'), Below(LastMark(act'), Mark'),
         (IF callers' = <<>> THEN act' ELSE callers'[1]).counts[1] = Base'
  PROVE  MarksAscend' /\ BaseKept'
<1>1. callers' \in Seq(ActivationType) /\ act' \in ActivationType
  BY DEF TypeOK
<1>2. Live' = Append(callers', act')
  BY DEF Live
<1>3. Ascending(Append(callers', act'), Mark')
  BY <1>1, AscendAppend
<1>4. MarksAscend'
  BY <1>2, <1>3 DEF MarksAscend
<1>5. Live'[1] = IF callers' = <<>> THEN act' ELSE callers'[1]
  <2>1. CASE callers' = <<>>
    BY <1>2, <2>1
  <2>2. CASE callers' # <<>>
    <3>1. Len(callers') \in Nat \ {0}
      BY <1>1, <2>2, EmptySeq
    <3> QED BY <1>1, <1>2, <2>2, <3>1
  <2> QED BY <2>1, <2>2
<1> QED BY <1>4, <1>5 DEF BaseKept

-----------------------------------------------------------------------------
(***************************************************************************)
(* Local steps keep the invariant.                                         *)
(***************************************************************************)

\* A Local step keeps TypeOK.
LEMMA LocalType ==
  ASSUME TypeOK, Local
  PROVE  TypeOK'
<1>1. /\ act' \in ActivationType /\ act'.cnt = act.cnt
      /\ UNCHANGED <<prog, callers, status, result, error>>
  BY DEF Local, SameFrame
<1>2. Strings' \in Seq(Text) /\ Objects' \in Seq(Object) /\ Buffers' \in Seq(Text) /\ BytesBacked'
  BY DEF Local, HeapGrows
<1> QED BY <1>1, <1>2 DEF TypeOK, Linked

\* The mark of a heap that grew is not below the old one.
LEMMA GrownMark ==
  ASSUME TypeOK, HeapGrows
  PROVE  Mark' \in MarkType /\ Below(Mark, Mark')
BY DEF TypeOK, HeapGrows, Mark, MarkType, Below

\* A Local step keeps the invariant: frame and marks stay, the heap grows.
LEMMA LocalInv ==
  ASSUME IInv, Local
  PROVE  IInv'
<1>1. TypeOK /\ MarksAscend /\ BaseKept
  BY DEF IInv, HeapMarks
<1>2. TypeOK'
  BY <1>1, LocalType
<1>3. /\ status = "running" /\ UNCHANGED <<prog, callers, status>>
      /\ act'.limit = act.limit /\ act'.counts = act.counts /\ act' \in ActivationType
      /\ act'.isParContract = act.isParContract /\ HeapGrows
  BY DEF Local, SameFrame
<1>4. /\ Ascending(callers, act.counts[1]) /\ OwnMarks(act) /\ Below(LastMark(act), Mark)
      /\ (IF callers = <<>> THEN act ELSE callers[1]).counts[1] = Base
  BY <1>1, <1>3, RunningMarks
<1>5. LastMark(act) \in MarkType
  BY <1>1, <1>4, MarksTyped DEF TypeOK
<1>6. Mark \in MarkType /\ Mark' \in MarkType /\ Below(Mark, Mark')
  BY <1>1, <1>3, MarkTyped, GrownMark
<1>7. OwnMarks(act') /\ LastMark(act') = LastMark(act) /\ act'.counts[1] = act.counts[1]
  BY <1>3, <1>4 DEF OwnMarks, LastMark
<1>8. Below(LastMark(act'), Mark')
  BY <1>4, <1>5, <1>6, <1>7, BelowOrder
<1>9. status' \in {"running", "panic"} /\ Ascending(callers', act'.counts[1])
  BY <1>3, <1>4, <1>7
<1>10. (IF callers' = <<>> THEN act' ELSE callers'[1]).counts[1] = Base'
  BY <1>3, <1>4, <1>7 DEF Base
<1>11. MarksAscend' /\ BaseKept'
  BY <1>2, <1>7, <1>8, <1>9, <1>10, RunningMarksNext
<1>12. HeapReleased'
  BY <1>3 DEF HeapReleased
<1> QED BY <1>2, <1>11, <1>12 DEF IInv, HeapMarks

-----------------------------------------------------------------------------
(***************************************************************************)
(* Marking the heap for the parameters of a call.                          *)
(***************************************************************************)

\* The second mark lies between the first and the present size of the heap.
LEMMA MarksPushed ==
  ASSUME NEW a \in ActivationType, NEW b \in ActivationType, OwnMarks(a), NEW m \in MarkType,
         Below(LastMark(a), m), b.isParContract = TRUE,
         b.counts = IF a.isParContract THEN a.counts ELSE Append(a.counts, m)
  PROVE  OwnMarks(b) /\ Below(LastMark(b), m) /\ LastMark(b) \in MarkType /\ b.counts[1] = a.counts[1]
<1>1. a.counts \in Seq(MarkType) /\ a.counts[1] \in MarkType /\ LastMark(a) \in MarkType
  BY MarksTyped DEF ActivationType
<1>2. CASE a.isParContract
  BY <1>1, <1>2 DEF OwnMarks, LastMark
<1>3. CASE ~a.isParContract
  <2>1. Len(a.counts) = 1
    BY <1>3 DEF OwnMarks
  <2>2. /\ b.counts = Append(a.counts, m) /\ Len(b.counts) = 2
        /\ b.counts[1] = a.counts[1] /\ b.counts[2] = m
    BY <1>1, <1>3, <2>1
  <2>3. LastMark(b) = m /\ LastMark(a) = a.counts[1]
    BY <2>1, <2>2 DEF LastMark
  <2> QED BY <2>2, <2>3, BelowOrder DEF OwnMarks
<1> QED BY <1>2, <1>3

\* PARCONTRACT passes on one parameter and marks the heap before the first.
LEMMA ParContractStep ==
  ASSUME TypeOK, ParContract
  PROVE  /\ status = "running" /\ UNCHANGED <<prog, callers, status, result, error>>
         /\ act' \in ActivationType /\ act'.cnt = act.cnt /\ act'.limit = act.limit
         /\ act'.isParContract = TRUE
         /\ act'.counts = IF act.isParContract THEN act.counts ELSE Append(act.counts, Mark)
         /\ HeapGrows
<1> DEFINE v == CopyIndex(Cell(0), W(2))
           stack == [act.stack EXCEPT ![act.top] = v]
           pars == act.pars \o <<W(1), v>>
           counts == IF act.isParContract THEN act.counts ELSE Append(act.counts, Mark)
           i == act.i + Words(Op)
<1>1. /\ Dispatch({PARCONTRACT}) /\ Op = PARCONTRACT /\ CopyInHeap(Cell(0), W(2))
      /\ Proceed([act EXCEPT !.stack[act.top] = v, !.top = @ - 1, !.pars = @ \o <<W(1), v>>,
                    !.counts = IF act.isParContract THEN @ ELSE Append(@, Mark),
                    !.isParContract = TRUE])
  BY Dispatched DEF ParContract
<1>2. Words(Op) = 3
  BY <1>1, WordsOf
<1>3. W(1) \in Nat /\ W(2) \in Nat
  BY <1>1, <1>2, OperandWord
<1>4. Operands(Op) = <<CopySort(W(2))>>
  BY <1>1, OperandsOf, Zenon
<1>5. act.top \in Nat /\ Cell(0) \in Int /\ Fits(Cell(0), CopySort(W(2)))
  BY <1>1, <1>4, Dispatched, Operand1
<1>6. MainType(W(2)) \in {VArr, VMap} => ElementsFit(Cell(0), CopySort(ElementType(W(2))))
  <2>1. CopiedType = W(2) /\ Op \in {COPY, PARCONTRACT} /\ ItemsFit
    BY <1>1, Dispatched DEF CopiedType, COPY, PARCONTRACT
  <2> QED BY <2>1, Zenon DEF ItemsFit
<1>7. HeapGrows /\ v \in Int
  BY <1>1, <1>3, <1>5, <1>6, CopyGrows
<1> HIDE DEF v
<1>8. status = "running" /\ act \in ActivationType
  BY <1>1, Dispatched
<1>9. act' = [act EXCEPT !.i = i, !.gas = act.gas + 1, !.stack = stack, !.top = act.top - 1,
                !.pars = pars, !.counts = counts, !.isParContract = TRUE]
  BY <1>1 DEF Proceed, ActivationType
<1>10. /\ act.top \in Depths /\ act.stack \in Stacks /\ act.i \in Int /\ act.gas \in Int
       /\ act.pars \in Seq(Int) /\ act.counts \in Seq(MarkType)
  BY <1>8 DEF ActivationType
<1>11. stack \in Stacks
  <2>1. act.top \in 0..StackSize - 1
    BY <1>5, <1>10, SizesAssumption DEF Depths
  <2> QED BY <1>7, <1>10, <2>1 DEF Stacks
<1>12. act.top - 1 \in Depths /\ i \in Int /\ act.gas + 1 \in Int
  BY <1>2, <1>5, <1>10, SizesAssumption DEF Depths
<1>13. pars \in Seq(Int)
  <2>1. <<W(1), v>> \in Seq(Int)
    BY <1>3, <1>7
  <2> HIDE DEF v
  <2> QED BY <1>10, <2>1, ConcatProperties
<1>14. counts \in Seq(MarkType)
  BY <1>10, MarkTyped
<1> HIDE DEF stack, pars, counts, i
<1>15. act' \in ActivationType
  BY <1>8, <1>9, <1>11, <1>12, <1>13, <1>14 DEF ActivationType
<1>16. /\ act'.cnt = act.cnt /\ act'.limit = act.limit
       /\ act'.isParContract = TRUE /\ act'.counts = counts
  BY <1>8, <1>9 DEF ActivationType
<1>17. UNCHANGED <<prog, callers, status, result, error>>
  BY <1>1 DEF Proceed
<1> QED BY <1>7, <1>8, <1>15, <1>16, <1>17 DEF counts

\* PARCONTRACT keeps the invariant.
LEMMA ParContractInv ==
  ASSUME IInv, ParContract
  PROVE  IInv'
<1>1. TypeOK /\ MarksAscend /\ BaseKept
  BY DEF IInv, HeapMarks
<1>2. /\ status = "running" /\ UNCHANGED <<prog, callers, status, result, error>>
      /\ act' \in ActivationType /\ act'.cnt = act.cnt /\ act'.limit = act.limit
      /\ act'.isParContract = TRUE
      /\ act'.counts = IF act.isParContract THEN act.counts ELSE Append(act.counts, Mark)
      /\ HeapGrows
  BY <1>1, ParContractStep
<1>3. TypeOK'
  <2>1. Strings' \in Seq(Text) /\ Objects' \in Seq(Object) /\ Buffers' \in Seq(Text) /\ BytesBacked'
    BY <1>2 DEF HeapGrows
  <2> QED BY <1>1, <1>2, <2>1 DEF TypeOK, Linked
<1>4. /\ Ascending(callers, act.counts[1]) /\ OwnMarks(act) /\ Below(LastMark(act), Mark)
      /\ (IF callers = <<>> THEN act ELSE callers[1]).counts[1] = Base
  BY <1>1, <1>2, RunningMarks
<1>5. Mark \in MarkType /\ Mark' \in MarkType /\ Below(Mark, Mark')
  BY <1>1, <1>2, MarkTyped, GrownMark
<1>6. /\ OwnMarks(act') /\ Below(LastMark(act'), Mark) /\ LastMark(act') \in MarkType
      /\ act'.counts[1] = act.counts[1]
  <2>1. act \in ActivationType
    BY <1>1 DEF TypeOK
  <2> QED BY <1>2, <1>4, <1>5, <2>1, MarksPushed
<1>7. Below(LastMark(act'), Mark')
  BY <1>5, <1>6, BelowOrder
<1>8. Ascending(callers', act'.counts[1])
  BY <1>2, <1>4, <1>6
<1>9. status' \in {"running", "panic"}
  BY <1>2
<1>10. (IF callers' = <<>> THEN act' ELSE callers'[1]).counts[1] = Base'
  BY <1>2, <1>4, <1>6 DEF Base
<1>11. MarksAscend' /\ BaseKept'
  BY <1>3, <1>6, <1>7, <1>8, <1>9, <1>10, RunningMarksNext
<1>12. HeapReleased'
  BY <1>2 DEF HeapReleased
<1> QED BY <1>3, <1>11, <1>12 DEF IInv, HeapMarks

-----------------------------------------------------------------------------
(***************************************************************************)
(* Starting an activation.                                                 *)
(***************************************************************************)

\* The variables of given types are finitely many positions of VarsList.
LEMMA SlotsType ==
  ASSUME NEW c \in Contract, NEW types
  PROVE  /\ Slots(c, types) \subseteq 1..Len(c.vars) /\ Slots(c, types) \subseteq 0..Len(c.vars)
         /\ Len(c.vars) \in Nat /\ IsFiniteSet(Slots(c, types))
         /\ Cardinality(Slots(c, types)) \in Nat
<1>1. Len(c.vars) \in Nat
  BY DEF Contract
<1>2. Slots(c, types) \subseteq 1..Len(c.vars)
  BY DEF Slots
<1>3. IsFiniteSet(1..Len(c.vars))
  BY <1>1, FS_Interval
<1>4. IsFiniteSet(Slots(c, types)) /\ Cardinality(Slots(c, types)) \in Nat
  BY <1>2, <1>3, FS_Subset, FS_CardinalityType
<1>5. 1..Len(c.vars) \subseteq 0..Len(c.vars)
  BY <1>1
<1> QED BY <1>1, <1>2, <1>4, <1>5

\* The initial texts of the variables are texts.
LEMMA NewStringsType ==
  ASSUME NEW c \in Contract
  PROVE  NewStrings(c) \in Seq(Text)
<1> DEFINE n == Cardinality(Slots(c, InStrings))
           f == [k \in 1..n |-> <<>>]
<1>1. n \in Nat
  BY SlotsType
<1> HIDE DEF n
<1>2. f \in [1..n -> Text]
  BY DEF Text
<1> HIDE DEF f
<1>3. f \in Seq(Text)
  BY <1>1, <1>2, FunctionSeq
<1> QED BY <1>3 DEF NewStrings, f, n

\* The initial value of a variable is an object; if it is bytes, there are none.
LEMMA ZeroObject ==
  ASSUME NEW t
  PROVE  Zero(t) \in Object /\ Zero(t).num = 0
<1>1. <<>> \in Seq(Int) /\ <<>> \in Seq(Text) /\ 0 \in Nat /\ 0 \in Int /\ 1 \in Nat \ {0}
  OBVIOUS
<1>2. Blank \in Object /\ Blank.num = 0
  BY BlankObject DEF Blank
<1>3. Arr(<<>>) \in Object /\ Arr(<<>>).num = 0
  BY <1>1, ArrObject, <1>2 DEF Arr, Blank
<1>4. Map(<<>>, <<>>) \in Object /\ Map(<<>>, <<>>).num = 0
  BY <1>1, MapObject, <1>2 DEF Map, Blank
<1>5. Money(0, 1) \in Object /\ Money(0, 1).num = 0
  BY <1>1, MoneyObject DEF Money, Blank
<1>6. Bytes(0, 0) \in Object /\ Bytes(0, 0).num = 0
  BY <1>1, BytesObject
<1>7. \A kind \in Kinds : [Blank EXCEPT !.kind = kind] \in Object /\ [Blank EXCEPT !.kind = kind].num = 0
  BY <1>2 DEF Object
<1>8. [Blank EXCEPT !.kind = "file"] \in Object /\ [Blank EXCEPT !.kind = "file"].num = 0
  BY <1>7 DEF Kinds
<1>9. [Blank EXCEPT !.kind = "obj"] \in Object /\ [Blank EXCEPT !.kind = "obj"].num = 0
  BY <1>7 DEF Kinds
<1>10. Zero(t) \in {Arr(<<>>), Map(<<>>, <<>>), Money(0, 1), Bytes(0, 0), Blank,
                    [Blank EXCEPT !.kind = "file"], [Blank EXCEPT !.kind = "obj"]}
  BY Zenon DEF Zero
<1> QED BY <1>2, <1>3, <1>4, <1>5, <1>6, <1>8, <1>9, <1>10, Zenon

\* The initial objects of the variables are objects; bytes among them are empty.
LEMMA NewObjectsType ==
  ASSUME NEW c \in Contract
  PROVE  /\ NewObjects(c) \in Seq(Object)
         /\ \A k \in 1..Len(NewObjects(c)) : Backed(NewObjects(c)[k])
<1> DEFINE n == Cardinality(Slots(c, InObjects))
           e(m) == Zero(MainType(c.vars[Nth(Slots(c, InObjects), m)]))
           f == [m \in 1..n |-> e(m)]
<1>1. n \in Nat
  BY SlotsType
<1>2. \A m \in 1..n : e(m) \in Object /\ e(m).num = 0
  BY ZeroObject
<1>3. NewObjects(c) = f
  BY DEF NewObjects
<1> HIDE DEF n, e
<1>4. f \in [1..n -> Object] /\ \A m \in 1..n : f[m].num = 0
  BY <1>2
<1> HIDE DEF f
<1>5. f \in Seq(Object) /\ Len(f) = n
  BY <1>1, <1>4, FunctionSeq
<1>6. \A m \in 1..Len(f) : Backed(f[m])
  BY <1>4, <1>5 DEF Backed
<1> QED BY <1>3, <1>5, <1>6

\* The variables start as numbers.
LEMMA NewVarsType ==
  ASSUME NEW c \in Contract, NEW at \in MarkType
  PROVE  NewVars(c, at) \in Seq(Int)
<1> DEFINE S == Slots(c, InVars)
           n == Cardinality(S)
           below(types, k) == Cardinality({j \in Slots(c, types) : j < k})
           e(m) == LET k == Nth(S, m)
                       t == MainType(c.vars[k])
                   IN CASE t = VInt -> 0
                        [] t = VStr -> at.strings + below(InStrings, k)
                        [] OTHER    -> at.objects + below(InObjects, k)
           f == [m \in 1..n |-> e(m)]
<1>1. n \in Nat
  BY SlotsType
<1>2. \A types, k : below(types, k) \in Nat
  <2>1. ASSUME NEW types, NEW k PROVE below(types, k) \in Nat
    <3>1. {j \in Slots(c, types) : j < k} \subseteq Slots(c, types)
      OBVIOUS
    <3> QED BY <3>1, SlotsType, FS_Subset, FS_CardinalityType
  <2> QED BY <2>1
<1>3. at.strings \in Nat /\ at.objects \in Nat
  BY DEF MarkType
<1>4. NewVars(c, at) = f
  BY DEF NewVars
<1> HIDE DEF S, n, below
<1>5. \A m \in 1..n : e(m) \in Int
  BY <1>2, <1>3
<1> HIDE DEF e
<1>6. f \in [1..n -> Int]
  BY <1>5
<1> HIDE DEF f
<1> QED BY <1>1, <1>4, <1>6, FunctionSeq

\* The code starts behind the packed literals.
LEMMA CodeStartType ==
  ASSUME NEW c \in Contract, Packed(c)
  PROVE  CodeStart(c) \in Int
<1>1. CASE ~HasData(c)
  BY <1>1 DEF CodeStart
<1>2. CASE HasData(c)
  <2>1. c.code \in Seq(0..WordMax) /\ Len(c.code) >= 2
    BY <1>2 DEF Contract, Packed, HasData
  <2>2. 2 \in 1..Len(c.code)
    BY <2>1
  <2>3. c.code[2] \in 0..WordMax
    BY <2>1, <2>2, ElementOfSeq, Zenon
  <2>4. 0..WordMax \subseteq Int
    BY DEF WordMax
  <2>5. c.code[2] \in Int
    BY <2>3, <2>4, Zenon
  <2> QED BY <1>2, <2>5 DEF CodeStart
<1> QED BY <1>1, <1>2

\* A new activation has the limit it is given, and the present mark as its only one.
LEMMA ActivationOf ==
  ASSUME Linked(prog), NEW c \in DOMAIN prog.contracts, NEW params \in Seq(Int),
         NEW limit \in Int, NEW at \in MarkType
  PROVE  LET a == Activation(c, params, limit, at)
         IN /\ a \in ActivationType /\ a.cnt = c /\ a.limit = limit
            /\ OwnMarks(a) /\ a.counts[1] = at /\ LastMark(a) = at
<1> DEFINE con == prog.contracts[c]
           stack == [s \in 0..StackSize - 1 |-> 0]
           a == Activation(c, params, limit, at)
<1>1. con \in Contract /\ Packed(con)
  <2>1. prog.contracts \in Seq(Contract) /\ \A k \in DOMAIN prog.contracts : Packed(prog.contracts[k])
    BY DEF Linked, Program
  <2> QED BY <2>1
<1>2. NewVars(con, at) \in Seq(Int) /\ CodeStart(con) \in Int
  BY <1>1, NewVarsType, CodeStartType
<1>3. stack \in Stacks /\ 0 \in Depths
  BY SizesAssumption DEF Stacks, Depths
<1>4. /\ <<at>> \in Seq(MarkType) /\ <<>> \in Seq(Int) /\ <<>> \in Seq(Returns)
      /\ Len(<<at>>) = 1 /\ <<at>>[1] = at
  OBVIOUS
<1>5. c \in Nat
  BY DEF Linked, Program
<1>6. a = [cnt |-> c, i |-> CodeStart(con), top |-> 0, gas |-> 0, limit |-> limit,
           stack |-> stack, Vars |-> NewVars(con, at), params |-> params, pars |-> <<>>,
           calls |-> <<>>, counts |-> <<at>>, isParContract |-> FALSE]
  BY DEF Activation
<1> HIDE DEF con, stack, a
<1>7. a \in ActivationType
  BY <1>2, <1>3, <1>4, <1>5, <1>6 DEF ActivationType
<1>8. a.cnt = c /\ a.limit = limit /\ a.counts = <<at>> /\ a.isParContract = FALSE
  BY <1>6
<1>9. OwnMarks(a) /\ a.counts[1] = at /\ LastMark(a) = at
  BY <1>4, <1>8, BelowOrder DEF OwnMarks, LastMark
<1> QED BY <1>7, <1>8, <1>9 DEF a

\* A contract is called: the caller waits, and the callee begins at the present mark.
LEMMA CallContractStep ==
  ASSUME TypeOK, CallContract, NEW a,
         a = [act EXCEPT !.top = act.top + 1, !.gas = act.gas + 1, !.i = act.i + 2]
  PROVE  /\ act.gas < act.limit /\ HeapGrows /\ status = "running"
         /\ UNCHANGED <<prog, status, result, error>> /\ callers' = Append(callers, a)
         /\ a \in ActivationType /\ a.top >= 0 /\ a.cnt = act.cnt /\ a.counts = act.counts
         /\ a.isParContract = act.isParContract /\ a.limit = act.limit /\ a.gas = act.gas + 1
         /\ act' \in ActivationType /\ act'.cnt \in DOMAIN prog.contracts
         /\ act'.limit = act.limit - (act.gas + 1)
         /\ OwnMarks(act') /\ act'.counts[1] = Mark /\ LastMark(act') = Mark
<1> DEFINE c == W(1) + 1
           callee == prog.contracts[c]
<1>1. /\ Dispatch({CALLCONTRACT}) /\ Op = CALLCONTRACT
      /\ callers' = Append(callers, a)
      /\ act' = Activation(c, act.pars, Remaining, Mark)
      /\ Strings' = Strings \o NewStrings(callee) /\ Objects' = Objects \o NewObjects(callee)
      /\ UNCHANGED <<prog, Buffers, status, result, error>>
  BY Dispatched DEF CallContract
<1>2. /\ status = "running" /\ act \in ActivationType /\ act.gas < act.limit
      /\ OperandsFit /\ IndicesFit
  BY <1>1, Dispatched
<1>3. Words(Op) = 2
  BY <1>1, WordsOf
<1>4. W(1) \in Nat
  <2>1. Dispatch({CALLCONTRACT}) /\ 1 < Words(Op)
    BY <1>1, <1>3
  <2> HIDE DEF c, callee
  <2> QED BY <2>1, OperandWord
<1>5. Linked(prog) /\ prog.contracts \in Seq(Contract)
  BY DEF TypeOK, Linked, Program
<1>6. c \in DOMAIN prog.contracts /\ callee \in Contract
  <2>1. W(1) < Len(prog.contracts)
    BY <1>1, <1>2 DEF IndicesFit
  <2> QED BY <1>4, <1>5, <2>1
<1> HIDE DEF c, callee
<1>7. act.top \in Depths /\ act.gas \in Int /\ act.limit \in Int /\ act.pars \in Seq(Int) /\ act.i \in Int
  BY <1>2 DEF ActivationType
<1>8. act.top + 1 \in Depths /\ act.top + 1 >= 0
  <2>1. Pushes(Op)
    BY <1>1 DEF Pushes
  <2>2. act.top + 1 < StackSize
    BY <1>2, <2>1 DEF OperandsFit
  <2> QED BY <1>7, <2>2, SizesAssumption DEF Depths
<1>9. act.gas + 1 \in Int /\ act.i + 2 \in Int
  BY <1>7
<1>10. /\ a \in ActivationType /\ a.top >= 0 /\ a.cnt = act.cnt /\ a.counts = act.counts
       /\ a.isParContract = act.isParContract /\ a.limit = act.limit /\ a.gas = act.gas + 1
  BY <1>2, <1>8, <1>9 DEF ActivationType
<1>11. Remaining = act.limit - (act.gas + 1) /\ Remaining \in Int
  BY <1>7 DEF Remaining
<1>12. /\ act' \in ActivationType /\ act'.cnt = c /\ act'.limit = Remaining
       /\ OwnMarks(act') /\ act'.counts[1] = Mark /\ LastMark(act') = Mark
  <2> DEFINE b == Activation(c, act.pars, Remaining, Mark)
  <2>1. /\ b \in ActivationType /\ b.cnt = c /\ b.limit = Remaining
        /\ OwnMarks(b) /\ b.counts[1] = Mark /\ LastMark(b) = Mark
    BY <1>5, <1>6, <1>7, <1>11, MarkTyped, ActivationOf
  <2>2. act' = b
    BY <1>1
  <2> HIDE DEF b
  <2> QED BY <2>1, <2>2
<1>13. HeapGrows
  <2> DEFINE os == NewObjects(callee)
             ts == NewStrings(callee)
  <2>1. ts \in Seq(Text) /\ os \in Seq(Object) /\ \A k \in 1..Len(os) : Backed(os[k])
    BY <1>6, NewStringsType, NewObjectsType
  <2>2. Strings' = Strings \o ts /\ Objects' = Objects \o os /\ UNCHANGED Buffers
    BY <1>1
  <2> HIDE DEF os, ts
  <2> QED BY <2>1, <2>2, ObjectsGrow
<1> QED BY <1>1, <1>2, <1>6, <1>10, <1>11, <1>12, <1>13

\* CALLCONTRACT keeps the invariant.
LEMMA CallContractInv ==
  ASSUME IInv, CallContract
  PROVE  IInv'
<1> DEFINE a == [act EXCEPT !.top = act.top + 1, !.gas = act.gas + 1, !.i = act.i + 2]
<1>1. TypeOK /\ MarksAscend /\ BaseKept
  BY DEF IInv, HeapMarks
<1>2. /\ act.gas < act.limit /\ HeapGrows /\ status = "running"
      /\ UNCHANGED <<prog, status, result, error>> /\ callers' = Append(callers, a)
      /\ a \in ActivationType /\ a.top >= 0 /\ a.cnt = act.cnt /\ a.counts = act.counts
      /\ a.isParContract = act.isParContract /\ a.limit = act.limit /\ a.gas = act.gas + 1
      /\ act' \in ActivationType /\ act'.cnt \in DOMAIN prog.contracts
      /\ act'.limit = act.limit - (act.gas + 1)
      /\ OwnMarks(act') /\ act'.counts[1] = Mark /\ LastMark(act') = Mark
  BY <1>1, CallContractStep
<1> HIDE DEF a
<1>3. /\ Ascending(callers, act.counts[1]) /\ OwnMarks(act) /\ Below(LastMark(act), Mark)
      /\ (IF callers = <<>> THEN act ELSE callers[1]).counts[1] = Base
  BY <1>1, <1>2, RunningMarks
<1>4. callers \in Seq(ActivationType) /\ act.cnt \in DOMAIN prog.contracts /\ act \in ActivationType
  BY <1>1 DEF TypeOK
<1>5. /\ callers' \in Seq(ActivationType) /\ Len(callers') = Len(callers) + 1 /\ Len(callers) \in Nat
      /\ callers'[Len(callers) + 1] = a /\ \A k \in 1..Len(callers) : callers'[k] = callers[k]
      /\ DOMAIN callers = 1..Len(callers) /\ DOMAIN callers' = 1..Len(callers) + 1
  BY <1>2, <1>4
<1>6. \A k \in DOMAIN callers' : callers'[k].cnt \in DOMAIN prog.contracts /\ callers'[k].top >= 0
  <2>1. \A k \in 1..Len(callers) : callers[k].cnt \in DOMAIN prog.contracts /\ callers[k].top >= 0
    BY <1>1, <1>5 DEF TypeOK
  <2>2. a.cnt \in DOMAIN prog.contracts /\ a.top >= 0
    BY <1>2, <1>4
  <2> QED BY <1>5, <2>1, <2>2
<1>7. TypeOK'
  <2>1. Strings' \in Seq(Text) /\ Objects' \in Seq(Object) /\ Buffers' \in Seq(Text) /\ BytesBacked'
    BY <1>2 DEF HeapGrows
  <2>2. Linked(prog)' /\ status' = "running" /\ result' \in Text /\ error' \in Reported
    BY <1>1, <1>2 DEF TypeOK
  <2> QED BY <1>2, <1>5, <1>6, <2>1, <2>2 DEF TypeOK
<1>8. Ascending(callers', act'.counts[1])
  <2>1. OwnMarks(a) /\ a.counts[1] = act.counts[1] /\ LastMark(a) = LastMark(act)
    BY <1>2, <1>3 DEF OwnMarks, LastMark
  <2>2. Ascending(Append(callers, a), Mark)
    BY <1>2, <1>3, <1>4, <2>1, AscendAppend
  <2> QED BY <1>2, <2>2
<1>9. Below(LastMark(act'), Mark')
  BY <1>1, <1>2, GrownMark
<1>10. (IF callers' = <<>> THEN act' ELSE callers'[1]).counts[1] = Base'
  <2>1. Base' = Base
    BY <1>2 DEF Base
  <2>2. callers' # <<>>
    BY <1>5
  <2>3. CASE callers = <<>>
    <3>1. Len(callers) = 0
      BY <2>3
    <3>2. callers'[1] = a
      BY <1>5, <3>1
    <3> QED BY <1>2, <1>3, <2>1, <2>2, <2>3, <3>2
  <2>4. CASE callers # <<>>
    <3>1. Len(callers) \in Nat \ {0}
      BY <1>4, <2>4, EmptySeq
    <3>2. callers'[1] = callers[1]
      BY <1>5, <3>1
    <3> QED BY <1>3, <2>1, <2>2, <2>4, <3>2
  <2> QED BY <2>3, <2>4
<1>11. MarksAscend' /\ BaseKept'
  BY <1>2, <1>7, <1>8, <1>9, <1>10, RunningMarksNext
<1>12. HeapReleased'
  BY <1>2 DEF HeapReleased
<1> QED BY <1>7, <1>11, <1>12 DEF IInv, HeapMarks

-----------------------------------------------------------------------------
(***************************************************************************)
(* Giving back the heap.                                                   *)
(***************************************************************************)

\* A heap that is cut back to a mark is still well formed.
LEMMA HeapCut ==
  ASSUME TypeOK, NEW m \in MarkType, Below(m, Mark), UNCHANGED Buffers,
         Strings' = SubSeq(Strings, 1, m.strings), Objects' = SubSeq(Objects, 1, m.objects)
  PROVE  /\ Strings' \in Seq(Text) /\ Objects' \in Seq(Object) /\ Buffers' \in Seq(Text)
         /\ BytesBacked' /\ Mark' = m
<1>1. /\ Strings \in Seq(Text) /\ Objects \in Seq(Object) /\ Buffers \in Seq(Text) /\ BytesBacked
  BY DEF TypeOK
<1>2. m.strings \in Nat /\ m.objects \in Nat /\ m = [strings |-> m.strings, objects |-> m.objects]
  BY DEF MarkType
<1>3. m.strings <= Len(Strings) /\ m.objects <= Len(Objects)
  BY DEF Below, Mark
<1>4. Strings' \in Seq(Text) /\ Len(Strings') = m.strings
  BY <1>1, <1>2, <1>3, Prefix
<1>5. /\ Objects' \in Seq(Object) /\ Len(Objects') = m.objects
      /\ \A k \in 1..m.objects : Objects'[k] = Objects[k]
  BY <1>1, <1>2, <1>3, Prefix
<1>6. ASSUME NEW k \in DOMAIN Objects', Objects'[k].kind = "bytes"
      PROVE  Objects'[k] = Objects[k] /\ Backed(Objects[k])
  <2>1. k \in DOMAIN Objects /\ Objects'[k] = Objects[k]
    BY <1>1, <1>2, <1>3, <1>5
  <2> QED BY <1>1, <1>6, <2>1 DEF BytesBacked
<1>7. BytesBacked'
  BY <1>6 DEF BytesBacked, Backed
<1>8. Mark' = m
  BY <1>2, <1>4, <1>5 DEF Mark
<1> QED BY <1>1, <1>4, <1>5, <1>7, <1>8

\* Cutting back twice is cutting back to the lower mark.
LEMMA CutTwice ==
  ASSUME TypeOK, NEW m \in MarkType, NEW n \in MarkType, Below(n, m), Below(m, Mark)
  PROVE  /\ SubSeq(SubSeq(Strings, 1, m.strings), 1, n.strings) = SubSeq(Strings, 1, n.strings)
         /\ SubSeq(SubSeq(Objects, 1, m.objects), 1, n.objects) = SubSeq(Objects, 1, n.objects)
<1>1. Strings \in Seq(Text) /\ Objects \in Seq(Object)
  BY DEF TypeOK
<1>2. /\ m.strings \in Nat /\ m.objects \in Nat /\ n.strings \in Nat /\ n.objects \in Nat
      /\ n.strings <= m.strings /\ n.objects <= m.objects
      /\ m.strings <= Len(Strings) /\ m.objects <= Len(Objects)
  BY DEF MarkType, Below, Mark
<1>3. SubSeq(SubSeq(Strings, 1, m.strings), 1, n.strings) = SubSeq(Strings, 1, n.strings)
  BY <1>1, <1>2, PrefixOfPrefix
<1>4. SubSeq(SubSeq(Objects, 1, m.objects), 1, n.objects) = SubSeq(Objects, 1, n.objects)
  BY <1>1, <1>2, PrefixOfPrefix
<1> QED BY <1>3, <1>4

\* The caller as CALLCONTRACT leaves it.
LEMMA ResumedType ==
  ASSUME Caller \in ActivationType, OwnMarks(Caller), NEW gas \in Int
  PROVE  /\ Resumed(gas) \in ActivationType /\ OwnMarks(Resumed(gas))
         /\ Resumed(gas).counts[1] = Caller.counts[1] /\ LastMark(Resumed(gas)) = Caller.counts[1]
         /\ Resumed(gas).cnt = Caller.cnt /\ Resumed(gas).limit = Caller.limit
         /\ Resumed(gas).top = Caller.top /\ Resumed(gas).stack = Caller.stack
<1> DEFINE counts == IF Caller.isParContract THEN SubSeq(Caller.counts, 1, Len(Caller.counts) - 1)
                     ELSE Caller.counts
           r == [Caller EXCEPT !.gas = Caller.gas - gas, !.pars = <<>>,
                               !.isParContract = FALSE, !.counts = counts]
<1>1. Resumed(gas) = r
  BY DEF Resumed, ActivationType
<1>2. /\ Caller.counts \in Seq(MarkType) /\ Caller.gas \in Int /\ Caller.isParContract \in BOOLEAN
      /\ Len(Caller.counts) = IF Caller.isParContract THEN 2 ELSE 1
  BY DEF ActivationType, OwnMarks
<1>3. counts \in Seq(MarkType) /\ Len(counts) = 1 /\ counts[1] = Caller.counts[1]
  <2>1. CASE Caller.isParContract
    <3>1. Len(Caller.counts) = 2 /\ Len(Caller.counts) - 1 = 1
      BY <1>2, <2>1
    <3>2. /\ SubSeq(Caller.counts, 1, 1) \in Seq(MarkType) /\ Len(SubSeq(Caller.counts, 1, 1)) = 1
          /\ SubSeq(Caller.counts, 1, 1)[1] = Caller.counts[1]
      BY <1>2, <3>1, Prefix
    <3> QED BY <2>1, <3>1, <3>2
  <2>2. CASE ~Caller.isParContract
    BY <1>2, <2>2
  <2> QED BY <2>1, <2>2
<1> HIDE DEF counts
<1>4. Caller.gas - gas \in Int /\ <<>> \in Seq(Int) /\ FALSE \in BOOLEAN
  BY <1>2
<1>5. r \in ActivationType
  BY <1>3, <1>4 DEF ActivationType
<1>6. /\ r.counts = counts /\ r.isParContract = FALSE /\ r.cnt = Caller.cnt
      /\ r.limit = Caller.limit /\ r.top = Caller.top /\ r.stack = Caller.stack
  BY DEF ActivationType
<1> HIDE DEF r
<1>7. r.counts[1] = Caller.counts[1] /\ LastMark(r) = Caller.counts[1]
  BY <1>3, <1>6 DEF LastMark
<1>8. OwnMarks(r)
  <2>1. Caller.counts[1] \in MarkType
    BY <1>2
  <2> QED BY <1>3, <1>6, <1>7, <2>1, BelowOrder DEF OwnMarks
<1> QED BY <1>1, <1>5, <1>6, <1>7, <1>8

\* The callers without the last of them.
LEMMA SuspendedType ==
  ASSUME TypeOK, callers # <<>>
  PROVE  /\ Suspended \in Seq(ActivationType) /\ Caller \in ActivationType
         /\ Caller.cnt \in DOMAIN prog.contracts /\ Caller.top >= 0
         /\ \A k \in DOMAIN Suspended :
              Suspended[k].cnt \in DOMAIN prog.contracts /\ Suspended[k].top >= 0
         /\ callers[1] = IF Suspended = <<>> THEN Caller ELSE Suspended[1]
<1>1. callers \in Seq(ActivationType)
  BY DEF TypeOK
<1>2. \A k \in DOMAIN callers : callers[k].cnt \in DOMAIN prog.contracts /\ callers[k].top >= 0
  BY DEF TypeOK
<1>3. /\ Caller \in ActivationType /\ Suspended \in Seq(ActivationType)
      /\ Len(callers) \in Nat \ {0} /\ Len(Suspended) = Len(callers) - 1
      /\ \A k \in 1..Len(callers) - 1 : Suspended[k] = callers[k]
      /\ Caller = callers[Len(callers)]
  BY <1>1, CallersSplit DEF Caller, Suspended
<1>4. DOMAIN callers = 1..Len(callers) /\ DOMAIN Suspended = 1..Len(callers) - 1
  BY <1>1, <1>3
<1>5. \A k \in DOMAIN Suspended : Suspended[k] = callers[k] /\ k \in DOMAIN callers
  BY <1>3, <1>4
<1>6. callers[1] = IF Suspended = <<>> THEN Caller ELSE Suspended[1]
  <2>1. CASE Len(callers) = 1
    <3>1. Suspended = <<>>
      BY <1>3, <2>1, EmptySeq
    <3> QED BY <1>3, <2>1, <3>1
  <2>2. CASE Len(callers) # 1
    <3>1. Len(Suspended) # 0 /\ 1 \in 1..Len(callers) - 1
      BY <1>3, <2>2
    <3>2. Suspended # <<>>
      BY <3>1
    <3> QED BY <1>3, <3>1, <3>2
  <2> QED BY <2>1, <2>2
<1> QED BY <1>2, <1>3, <1>4, <1>5, <1>6

-----------------------------------------------------------------------------
(***************************************************************************)
(* Run returns.                                                            *)
(***************************************************************************)

\* The outermost activation returns: the heap is what vm.Run prepared.
LEMMA LeaveLast ==
  ASSUME IInv, status = "running", callers = <<>>, NEW text \in Text, NEW gas \in Int, Leave(text, gas)
  PROVE  IInv'
<1>1. TypeOK /\ MarksAscend /\ BaseKept /\ act \in ActivationType
  BY DEF IInv, HeapMarks, TypeOK
<1>2. /\ Cut(act.counts[1]) /\ status' = "done" /\ result' = text
      /\ act' = [act EXCEPT !.gas = gas] /\ UNCHANGED <<prog, callers, error>>
  BY DEF Leave
<1>3. OwnMarks(act) /\ Below(LastMark(act), Mark) /\ act.counts[1] = Base
  BY <1>1, RunningMarks
<1>4. act.counts[1] \in MarkType /\ Below(act.counts[1], Mark)
  <2>1. /\ act.counts[1] \in MarkType /\ LastMark(act) \in MarkType
        /\ Below(act.counts[1], LastMark(act)) /\ Mark \in MarkType
    BY <1>1, <1>3, MarksTyped, MarkTyped DEF OwnMarks
  <2> QED BY <1>3, <2>1, BelowOrder
<1>5. /\ Strings' \in Seq(Text) /\ Objects' \in Seq(Object) /\ Buffers' \in Seq(Text)
      /\ BytesBacked' /\ Mark' = act.counts[1]
  BY <1>1, <1>2, <1>4, HeapCut DEF Cut
<1>6. act' \in ActivationType /\ act'.cnt = act.cnt /\ act'.limit = act.limit
  BY <1>1, <1>2, GasFrame DEF SameFrame
<1>7. TypeOK'
  BY <1>1, <1>2, <1>5, <1>6 DEF TypeOK, Final
<1>8. Live' = <<>>
  BY <1>2 DEF Live
<1>9. MarksAscend' /\ BaseKept'
  BY <1>8, AscendEmpty DEF MarksAscend, BaseKept
<1>10. HeapReleased'
  BY <1>2, <1>3, <1>5 DEF HeapReleased, Base
<1> QED BY <1>7, <1>9, <1>10 DEF IInv, HeapMarks

\* A called contract returns: its caller goes on, with the text on top of its heap.
LEMMA LeaveInner ==
  ASSUME IInv, status = "running", callers # <<>>, NEW text \in Text, NEW gas \in Int, Leave(text, gas)
  PROVE  IInv'
<1> DEFINE m == IF Caller.isParContract THEN LastMark(Caller) ELSE act.counts[1]
           r == Resumed(gas)
<1>1. TypeOK /\ MarksAscend /\ BaseKept /\ act \in ActivationType
  BY DEF IInv, HeapMarks, TypeOK
<1>2. /\ Strings' = Append(SubSeq(SubSeq(Strings, 1, act.counts[1].strings), 1, m.strings), text)
      /\ Objects' = SubSeq(SubSeq(Objects, 1, act.counts[1].objects), 1, m.objects)
      /\ act' = [r EXCEPT !.stack[Caller.top] = m.strings]
      /\ callers' = Suspended
      /\ UNCHANGED <<prog, Buffers, status, result, error>>
  BY DEF Leave
<1>3. /\ Ascending(callers, act.counts[1]) /\ OwnMarks(act) /\ Below(LastMark(act), Mark)
      /\ callers[1].counts[1] = Base
  BY <1>1, RunningMarks
<1>4. /\ act.counts[1] \in MarkType /\ LastMark(act) \in MarkType /\ Mark \in MarkType
      /\ Below(act.counts[1], LastMark(act))
  BY <1>1, <1>3, MarksTyped, MarkTyped DEF OwnMarks
<1>5. Below(act.counts[1], Mark)
  BY <1>3, <1>4, BelowOrder
<1>6. /\ Caller \in ActivationType /\ OwnMarks(Caller) /\ Caller.counts[1] \in MarkType
      /\ LastMark(Caller) \in MarkType /\ Ascending(Suspended, Caller.counts[1])
      /\ Below(Caller.counts[1], LastMark(Caller)) /\ Below(LastMark(Caller), act.counts[1])
  BY <1>1, <1>3, CallerMarks
<1>7. m \in MarkType /\ Below(m, act.counts[1]) /\ Below(Caller.counts[1], m)
  BY <1>4, <1>6, BelowOrder
<1>8. /\ r \in ActivationType /\ OwnMarks(r) /\ r.counts[1] = Caller.counts[1]
      /\ LastMark(r) = Caller.counts[1] /\ r.cnt = Caller.cnt /\ r.limit = Caller.limit
      /\ r.top = Caller.top /\ r.stack = Caller.stack
  BY <1>6, ResumedType
<1>9. /\ Suspended \in Seq(ActivationType) /\ Caller.cnt \in DOMAIN prog.contracts /\ Caller.top >= 0
      /\ \A k \in DOMAIN Suspended : Suspended[k].cnt \in DOMAIN prog.contracts /\ Suspended[k].top >= 0
      /\ callers[1] = IF Suspended = <<>> THEN Caller ELSE Suspended[1]
  BY <1>1, SuspendedType
<1> HIDE DEF m, r
<1>10. /\ Strings' = Append(SubSeq(Strings, 1, m.strings), text)
       /\ Objects' = SubSeq(Objects, 1, m.objects)
  BY <1>1, <1>2, <1>4, <1>5, <1>7, CutTwice
<1>11. /\ Strings' \in Seq(Text) /\ Objects' \in Seq(Object) /\ Buffers' \in Seq(Text)
       /\ BytesBacked' /\ Below(m, Mark')
  <2>1. Below(m, Mark)
    BY <1>4, <1>5, <1>7, BelowOrder
  <2>2. m.strings \in Nat /\ m.objects \in Nat /\ m.strings <= Len(Strings) /\ m.objects <= Len(Objects)
    BY <1>7, <2>1 DEF MarkType, Below, Mark
  <2>3. Strings \in Seq(Text) /\ Objects \in Seq(Object) /\ Buffers \in Seq(Text) /\ BytesBacked
    BY <1>1 DEF TypeOK
  <2>4. SubSeq(Strings, 1, m.strings) \in Seq(Text) /\ Len(SubSeq(Strings, 1, m.strings)) = m.strings
    BY <2>2, <2>3, Prefix
  <2>5. Strings' \in Seq(Text) /\ Len(Strings') = m.strings + 1
    BY <1>10, <2>2, <2>4
  <2>6. /\ Objects' \in Seq(Object) /\ Len(Objects') = m.objects
        /\ \A k \in 1..m.objects : Objects'[k] = Objects[k]
    BY <1>10, <2>2, <2>3, Prefix
  <2>7. ASSUME NEW k \in DOMAIN Objects', Objects'[k].kind = "bytes"
        PROVE  Objects'[k] = Objects[k] /\ Backed(Objects[k])
    <3>1. k \in DOMAIN Objects /\ Objects'[k] = Objects[k]
      BY <2>2, <2>3, <2>6
    <3> QED BY <2>3, <2>7, <3>1 DEF BytesBacked
  <2>8. BytesBacked'
    BY <1>2, <2>7 DEF BytesBacked, Backed
  <2>9. Below(m, Mark')
    BY <2>2, <2>5, <2>6 DEF Below, Mark
  <2> QED BY <1>2, <2>3, <2>5, <2>6, <2>8, <2>9
<1>12. /\ act' \in ActivationType /\ act'.cnt = r.cnt /\ act'.limit = r.limit
       /\ act'.counts = r.counts /\ act'.isParContract = r.isParContract
  <2>1. r.top \in Depths /\ r.stack \in Stacks /\ m.strings \in Int
    BY <1>7, <1>8 DEF ActivationType, MarkType
  <2>2. r.top \in 0..StackSize - 1
    BY <1>8, <1>9, <2>1, SizesAssumption DEF Depths
  <2>3. [r.stack EXCEPT ![r.top] = m.strings] \in Stacks
    BY <2>1, <2>2 DEF Stacks
  <2>4. act' = [r EXCEPT !.stack = [r.stack EXCEPT ![r.top] = m.strings]]
    BY <1>2, <1>8 DEF ActivationType
  <2> QED BY <1>8, <2>3, <2>4 DEF ActivationType
<1>13. TypeOK'
  BY <1>1, <1>2, <1>8, <1>9, <1>11, <1>12 DEF TypeOK
<1>14. OwnMarks(act') /\ LastMark(act') = Caller.counts[1] /\ act'.counts[1] = Caller.counts[1]
  BY <1>8, <1>12 DEF OwnMarks, LastMark
<1>15. Below(LastMark(act'), Mark')
  <2>1. Mark' \in MarkType
    BY <1>11 DEF Mark, MarkType
  <2> QED BY <1>6, <1>7, <1>11, <1>14, <2>1, BelowOrder
<1>16. (IF callers' = <<>> THEN act' ELSE callers'[1]).counts[1] = Base'
  BY <1>2, <1>3, <1>9, <1>14 DEF Base
<1>17. MarksAscend' /\ BaseKept'
  <2>1. status' \in {"running", "panic"} /\ Ascending(callers', act'.counts[1])
    BY <1>2, <1>6, <1>14
  <2> QED BY <1>13, <1>14, <1>15, <1>16, <2>1, RunningMarksNext
<1>18. HeapReleased'
  BY <1>2 DEF HeapReleased
<1> QED BY <1>13, <1>17, <1>18 DEF IInv, HeapMarks

\* Leaving an activation keeps the invariant.
LEMMA LeaveInv ==
  ASSUME IInv, status = "running", NEW text \in Text, NEW gas \in Int, Leave(text, gas)
  PROVE  IInv'
BY LeaveLast, LeaveInner

\* What print() looks up where it looks.
LEMMA PrintType ==
  ASSUME TypeOK, NEW v \in Int, NEW t, Fits(v, PrintSort(t))
  PROVE  PrintValue(v, t) \in Text
<1> DEFINE m == MainType(t)
           o == Obj(v)
<1>1. m = VStr => String(v) \in Text
  <2>1. ASSUME m = VStr PROVE PrintSort(t) = "str"
    <3>1. PrintSort(t) = IF m \notin {VStr, VArr, VMap, VMoney, VObject} THEN "any"
                         ELSE CASE m = VStr -> "str"     [] m = VArr -> "arr"      [] m = VMap -> "map"
                                [] m = VMoney -> "money" [] m = VBytes -> "bytes"  [] m = VFile -> "file"
                                [] OTHER -> "obj"
      BY Zenon DEF PrintSort, Sort
    <3> HIDE DEF m
    <3> QED BY <2>1, <3>1 DEF VStr, VArr, VMap, VMoney, VObject, VBytes, VFile
  <2> QED BY <2>1, FitsOf, StringType
<1>2. PrintScalar(v, t) \in Text
  <2> DEFINE tree == SprintTree(TreeVal("map", o.tree))
  <2>1. /\ PrintScalar(v, t) \in {<<>>, String(v), SprintBool(v), SprintMoney(o), tree, Sprint(v)}
        /\ m # VStr => PrintScalar(v, t) \in {<<>>, SprintBool(v), SprintMoney(o), tree, Sprint(v)}
    <3>1. PrintScalar(v, t) = CASE m = VVoid -> <<>> [] m = VStr -> String(v)
            [] m = VBool -> SprintBool(v) [] m = VMoney -> SprintMoney(o)
            [] m = VObject -> tree [] OTHER -> Sprint(v)
      BY Zenon DEF PrintScalar
    <3> HIDE DEF m, o, tree
    <3> QED BY <3>1
  <2>2. <<>> \in Text
    BY DEF Text
  <2> HIDE DEF m, o
  <2>3. SprintBool(v) \in Text /\ Sprint(v) \in Text /\ SprintMoney(o) \in Text /\ tree \in Text
    BY SprintType, TextType
  <2> HIDE DEF tree
  <2> QED BY <1>1, <2>1, <2>2, <2>3, Zenon
<1>3. \A ts : <<91>> \o Separated(ts, <<32>>) \o <<93>> \in Text
  <2>1. \A ts : Separated(ts, <<32>>) \in Seq(Int)
    BY TextType DEF Text
  <2>2. <<91>> \in Seq(Int) /\ <<93>> \in Seq(Int)
    OBVIOUS
  <2> QED BY <2>1, <2>2 DEF Text
<1> DEFINE item(k) == o.keys[Ranked(o, k)] \o <<58, 32>> \o PrintItem(o, Ranked(o, k), t)
           items == [p \in 1..Len(o.items) |-> PrintItem(o, p, t)]
           pairs == [k \in 1..Len(o.keys) |-> item(k)]
<1>4. PrintValue(v, t) = CASE m = VArr -> <<91>> \o Separated(items, <<32>>) \o <<93>>
                           [] m = VMap -> <<91>> \o Separated(pairs, <<32>>) \o <<93>>
                           [] OTHER -> PrintScalar(v, t)
  BY Zenon DEF PrintValue
<1> HIDE DEF items, pairs, m
<1> QED BY <1>2, <1>3, <1>4

\* RETURN keeps the invariant.
LEMMA ReturnInv ==
  ASSUME IInv, Return
  PROVE  IInv'
<1>1. TypeOK
  BY DEF IInv
<1>2. Dispatch({RETURN}) /\ Op = RETURN /\ Leave(PrintValue(Cell(0), W(1)), act.gas + 1)
  BY <1>1, Dispatched DEF Return
<1>3. status = "running" /\ act \in ActivationType /\ OperandsFit
  BY <1>1, <1>2, Dispatched
<1>4. Operands(Op) = <<PrintSort(W(1))>>
  BY <1>2, OperandsOf, Zenon
<1>5. Cell(0) \in Int /\ Fits(Cell(0), PrintSort(W(1)))
  BY <1>1, <1>3, <1>4, Operand1
<1>6. PrintValue(Cell(0), W(1)) \in Text
  BY <1>1, <1>5, PrintType
<1>7. act.gas + 1 \in Int
  BY <1>3 DEF ActivationType
<1> QED BY <1>2, <1>3, <1>6, <1>7, LeaveInv

\* Running off the end of the code keeps the invariant.
LEMMA FallOffInv ==
  ASSUME IInv, FallOff
  PROVE  IInv'
<1>1. status = "running" /\ Leave(<<>>, act.gas)
  BY DEF FallOff
<1>2. act.gas \in Int /\ <<>> \in Text
  BY DEF IInv, TypeOK, ActivationType, Text
<1> QED BY <1>1, <1>2, LeaveInv

-----------------------------------------------------------------------------
(***************************************************************************)
(* Errors.                                                                 *)
(***************************************************************************)

\* Stopping with an error keeps the invariant.
LEMMA AbortInv ==
  ASSUME IInv, status = "running", NEW kind \in Reported, NEW gas \in Int, Abort(kind, gas)
  PROVE  IInv'
<1>1. TypeOK /\ MarksAscend /\ BaseKept /\ act \in ActivationType
  BY DEF IInv, HeapMarks, TypeOK
<1>2. /\ Cut(act.counts[1]) /\ status' = IF callers = <<>> THEN "error" ELSE "unwinding"
      /\ error' = kind /\ act' = [act EXCEPT !.gas = gas] /\ UNCHANGED <<prog, callers, result>>
  BY DEF Abort
<1>3. /\ Ascending(callers, act.counts[1]) /\ OwnMarks(act) /\ Below(LastMark(act), Mark)
      /\ (IF callers = <<>> THEN act ELSE callers[1]).counts[1] = Base
  BY <1>1, RunningMarks
<1>4. act.counts[1] \in MarkType /\ Below(act.counts[1], Mark)
  <2>1. /\ act.counts[1] \in MarkType /\ LastMark(act) \in MarkType
        /\ Below(act.counts[1], LastMark(act)) /\ Mark \in MarkType
    BY <1>1, <1>3, MarksTyped, MarkTyped DEF OwnMarks
  <2> QED BY <1>3, <2>1, BelowOrder
<1>5. /\ Strings' \in Seq(Text) /\ Objects' \in Seq(Object) /\ Buffers' \in Seq(Text)
      /\ BytesBacked' /\ Mark' = act.counts[1]
  BY <1>1, <1>2, <1>4, HeapCut DEF Cut
<1>6. act' \in ActivationType /\ act'.cnt = act.cnt /\ act'.limit = act.limit
  BY <1>1, <1>2, GasFrame DEF SameFrame
<1>7. TypeOK'
  BY <1>1, <1>2, <1>5, <1>6 DEF TypeOK, Final
<1>8. Live' = callers
  BY <1>2 DEF Live
<1>9. MarksAscend' /\ BaseKept'
  BY <1>2, <1>3, <1>5, <1>8 DEF MarksAscend, BaseKept, Base
<1>10. HeapReleased'
  BY <1>2, <1>3, <1>5 DEF HeapReleased, Base
<1> QED BY <1>7, <1>9, <1>10 DEF IInv, HeapMarks

\* Running out of gas keeps the invariant.
LEMMA OutOfGasInv ==
  ASSUME IInv, OutOfGas
  PROVE  IInv'
<1>1. status = "running" /\ Abort("errGasLimit", act.gas + 1)
  BY DEF OutOfGas
<1>2. act.gas + 1 \in Int
  BY DEF IInv, TypeOK, ActivationType
<1>3. "errGasLimit" \in Reported
  BY DEF Reported
<1> QED BY <1>1, <1>2, <1>3, AbortInv

\* An error the interpreter checks for keeps the invariant.
LEMMA FailInv ==
  ASSUME IInv, Fail
  PROVE  IInv'
<1> DEFINE gas == IF Op = EMBEDFUNC THEN act.gas + 1 - LibGas(W(1)) ELSE act.gas + 1
<1>1. Paid /\ Supported /\ Sound /\ Abort(Failure, gas)
  BY DEF Fail
<1>2. status = "running" /\ TypeOK
  BY <1>1 DEF Paid, Fetching, IInv
<1>3. Failure \in Reported
  BY SMT DEF Failure, Reported
<1>4. act.gas \in Int
  BY <1>2 DEF TypeOK, ActivationType
<1>5. gas \in Int
  <2>1. ASSUME Op = EMBEDFUNC PROVE LibGas(W(1)) \in Int
    <3>1. act.i \in 0..Len(cnt.code) - 1 /\ act.i + Words(Op) <= Len(cnt.code) /\ W(1) < StdLibSize
      BY <1>1, <2>1 DEF Sound, Known, Paid, Fetching
    <3>2. Words(Op) = 2
      BY <2>1, WordsOf
    <3>3. W(1) \in Nat
      <4>1. act.i + 1 + 1 \in 1..Len(cnt.code)
        <5>1. Len(cnt.code) \in Nat
          BY <1>2, CodeType
        <5> QED BY <3>1, <3>2, <5>1
      <4> QED BY <1>2, <4>1, WordType
    <3>4. W(1) \in Library
      <4>1. W(1) \in 0..StdLibSize - 1
        <5>1. W(1) < StdLibSize
          BY <3>1
        <5> QED BY <3>3, <5>1 DEF StdLibSize
      <4> QED BY <1>1, <2>1, <4>1, Zenon DEF Supported
    <3> QED BY <3>4, LibraryOf
  <2> QED BY <1>4, <2>1
<1> HIDE DEF gas
<1> QED BY <1>1, <1>2, <1>3, <1>5, AbortInv

\* An error of a host function keeps the invariant.
LEMMA HostErrorInv ==
  ASSUME IInv, HostError
  PROVE  IInv'
<1> DEFINE kind == IF HostFunc.result \in {VVoid, VInt, VBool, VStr} THEN "errHost" ELSE "errRetType"
<1>1. PICK cost \in HostGas : Abort(kind, act.gas + 1 - cost)
  BY DEF HostError
<1>2. status = "running"
  BY DEF HostError, Dispatch, Paid, Fetching
<1>3. kind \in {"errHost", "errRetType"}
  OBVIOUS
<1> HIDE DEF kind
<1>4. kind \in Reported
  BY <1>3 DEF Reported
<1>5. act.gas + 1 - cost \in Int
  <2>1. act.gas \in Int
    BY DEF IInv, TypeOK, ActivationType
  <2>2. cost \in Int
    BY SizesAssumption
  <2> QED BY <2>1, <2>2
<1> QED BY <1>1, <1>2, <1>4, <1>5, AbortInv

\* A text that is no JSON object keeps the invariant.
LEMMA DecodeErrorInv ==
  ASSUME IInv, DecodeError
  PROVE  IInv'
<1>1. status = "running" /\ Abort("errJSON", act.gas + 1 - LibGas(JSONDecode))
  BY DEF DecodeError, Dispatch, Paid, Fetching
<1>2. act.gas + 1 - LibGas(JSONDecode) \in Int
  <2>1. act.gas \in Int
    BY DEF IInv, TypeOK, ActivationType
  <2>2. LibGas(JSONDecode) \in Int
    BY LibraryOf DEF Library
  <2> QED BY <2>1, <2>2
<1>3. "errJSON" \in Reported
  BY DEF Reported
<1> QED BY <1>1, <1>2, <1>3, AbortInv

\* An error passes through a caller.
LEMMA UnwindInv ==
  ASSUME IInv, Unwind
  PROVE  IInv'
<1> DEFINE m == IF Caller.isParContract THEN LastMark(Caller) ELSE Caller.counts[1]
           low == Caller.counts[1]
<1>1. /\ TypeOK /\ MarksAscend /\ BaseKept /\ act \in ActivationType
      /\ status = "unwinding" /\ callers # <<>>
  BY DEF IInv, HeapMarks, TypeOK, Unwind
<1>2. /\ Strings' = SubSeq(SubSeq(Strings, 1, m.strings), 1, low.strings)
      /\ Objects' = SubSeq(SubSeq(Objects, 1, m.objects), 1, low.objects)
      /\ act' = Resumed(act.gas) /\ callers' = Suspended
      /\ status' = IF Suspended = <<>> THEN "error" ELSE "unwinding"
      /\ UNCHANGED <<prog, Buffers, result, error>>
  BY DEF Unwind
<1>3. Live = callers /\ Ascending(callers, Mark) /\ callers[1].counts[1] = Base
  BY <1>1 DEF Live, MarksAscend, BaseKept
<1>4. /\ Caller \in ActivationType /\ OwnMarks(Caller) /\ low \in MarkType
      /\ LastMark(Caller) \in MarkType /\ Ascending(Suspended, low)
      /\ Below(low, LastMark(Caller)) /\ Below(LastMark(Caller), Mark)
  BY <1>1, <1>3, CallerMarks
<1>5. m \in MarkType /\ Below(low, m) /\ Below(m, Mark) /\ Below(low, Mark)
  <2>1. Mark \in MarkType
    BY <1>1, MarkTyped
  <2> QED BY <1>4, <2>1, BelowOrder
<1>6. act.gas \in Int
  BY <1>1 DEF ActivationType
<1>7. /\ act' \in ActivationType /\ act'.cnt = Caller.cnt /\ act'.limit = Caller.limit
  BY <1>2, <1>4, <1>6, ResumedType
<1>8. /\ Suspended \in Seq(ActivationType) /\ Caller.cnt \in DOMAIN prog.contracts
      /\ \A k \in DOMAIN Suspended : Suspended[k].cnt \in DOMAIN prog.contracts /\ Suspended[k].top >= 0
      /\ callers[1] = IF Suspended = <<>> THEN Caller ELSE Suspended[1]
  BY <1>1, SuspendedType
<1> HIDE DEF m, low
<1>9. Strings' = SubSeq(Strings, 1, low.strings) /\ Objects' = SubSeq(Objects, 1, low.objects)
  BY <1>1, <1>2, <1>4, <1>5, CutTwice
<1>10. /\ Strings' \in Seq(Text) /\ Objects' \in Seq(Object) /\ Buffers' \in Seq(Text)
       /\ BytesBacked' /\ Mark' = low
  BY <1>1, <1>2, <1>4, <1>5, <1>9, HeapCut
<1>11. TypeOK'
  BY <1>1, <1>2, <1>7, <1>8, <1>10 DEF TypeOK, Final
<1>12. Live' = Suspended
  BY <1>2 DEF Live
<1>13. MarksAscend' /\ BaseKept'
  BY <1>2, <1>3, <1>4, <1>8, <1>10, <1>12 DEF MarksAscend, BaseKept, Base
<1>14. HeapReleased'
  BY <1>2, <1>3, <1>8, <1>10 DEF HeapReleased, Base, low
<1> QED BY <1>11, <1>13, <1>14 DEF IInv, HeapMarks

\* A panic keeps the invariant: nothing is cut back any more.
LEMMA GoPanicInv ==
  ASSUME IInv, GoPanic
  PROVE  IInv'
<1>1. TypeOK /\ MarksAscend /\ BaseKept
  BY DEF IInv, HeapMarks
<1>2. /\ status = "running" /\ status' = "panic"
      /\ UNCHANGED <<prog, act, callers, Strings, Objects, Buffers, result, error>>
  BY DEF GoPanic, heap
<1>3. TypeOK'
  BY <1>1, <1>2 DEF TypeOK, BytesBacked, Backed, Final
<1>4. Live' = Live /\ Mark' = Mark /\ Base' = Base
  BY <1>2 DEF Live, Mark, Base
<1>5. MarksAscend' /\ BaseKept'
  BY <1>1, <1>4 DEF MarksAscend, BaseKept
<1>6. HeapReleased'
  BY <1>1, <1>2 DEF HeapReleased
<1> QED BY <1>3, <1>5, <1>6 DEF IInv, HeapMarks

\* A step that changes nothing keeps the invariant.
LEMMA StutterInv ==
  ASSUME IInv, UNCHANGED vars
  PROVE  IInv'
<1>1. UNCHANGED <<prog, act, callers, Strings, Objects, Buffers, status, result, error>>
  BY DEF vars, heap
<1>2. TypeOK'
  BY <1>1 DEF IInv, TypeOK, BytesBacked, Backed
<1>3. Live' = Live /\ Mark' = Mark /\ Base' = Base
  BY <1>1 DEF Live, Mark, Base
<1>4. HeapMarks'
  BY <1>3 DEF IInv, HeapMarks, MarksAscend, BaseKept
<1>5. HeapReleased'
  BY <1>1, <1>3 DEF IInv, HeapReleased
<1> QED BY <1>2, <1>4, <1>5 DEF IInv

-----------------------------------------------------------------------------
(***************************************************************************)
(* The invariant, and what it gives.                                       *)
(***************************************************************************)

\* What vm.Run hands over satisfies the invariant.
LEMMA InitInv ==
  ASSUME Init
  PROVE  IInv
<1> DEFINE c == prog.contracts[prog.main]
           ts == NewStrings(c)
           os == NewObjects(c)
<1>1. Linked(prog)
  BY ProgramsAssumption DEF Init
<1>2. /\ Strings = prog.strings \o ts /\ Objects = prog.objects \o os /\ Buffers = prog.buffers
      /\ act = Activation(prog.main, prog.params, prog.gas, Base)
      /\ callers = <<>> /\ status = "running" /\ result = <<>> /\ error = "none"
  BY DEF Init, Begin
<1>3. /\ prog.contracts \in Seq(Contract) /\ prog.main \in DOMAIN prog.contracts
      /\ prog.strings \in Seq(Text) /\ prog.objects \in Seq(Object)
      /\ prog.buffers \in Seq(Text) /\ prog.params \in Seq(Int) /\ prog.gas \in Int
  BY <1>1 DEF Linked, Program, Text
<1>4. c \in Contract
  BY <1>3
<1>5. ts \in Seq(Text) /\ os \in Seq(Object) /\ \A k \in 1..Len(os) : Backed(os[k])
  BY <1>4, NewStringsType, NewObjectsType
<1>6. Base \in MarkType
  BY <1>3 DEF Base, MarkType
<1>7. /\ act \in ActivationType /\ act.cnt = prog.main /\ act.limit = prog.gas
      /\ OwnMarks(act) /\ act.counts[1] = Base /\ LastMark(act) = Base
  <2> DEFINE a == Activation(prog.main, prog.params, prog.gas, Base)
  <2>1. /\ a \in ActivationType /\ a.cnt = prog.main /\ a.limit = prog.gas
        /\ OwnMarks(a) /\ a.counts[1] = Base /\ LastMark(a) = Base
    BY <1>1, <1>3, <1>6, ActivationOf
  <2>2. act = a
    BY <1>2
  <2> HIDE DEF a
  <2> QED BY <2>1, <2>2
<1> HIDE DEF c, ts, os
<1>8. Strings \in Seq(Text) /\ Objects \in Seq(Object) /\ Buffers \in Seq(Text)
  BY <1>2, <1>3, <1>5
<1>9. BytesBacked
  <2>1. ASSUME NEW k \in DOMAIN Objects, Objects[k].kind = "bytes" PROVE Backed(Objects[k])
    <3>1. CASE k \in 1..Len(prog.objects)
      <4>1. Objects[k] = prog.objects[k] /\ k \in DOMAIN prog.objects /\ prog.objects[k] \in Object
        BY <1>2, <1>3, <1>5, <3>1
      <4> DEFINE o == prog.objects[k]
      <4>2. o.kind = "bytes" /\ o.num # 0 =>
              o.buf \in DOMAIN prog.buffers /\ o.num \in 1..Len(prog.buffers[o.buf])
        BY <1>1, <4>1 DEF Linked, Loaded
      <4>3. o.num \in Int /\ o = Objects[k]
        BY <4>1 DEF Object
      <4> HIDE DEF o
      <4>4. o.kind = "bytes"
        BY <2>1, <4>3
      <4> QED BY <1>2, <4>2, <4>3, <4>4 DEF Backed
    <3>2. CASE k \notin 1..Len(prog.objects)
      <4> DEFINE xs == prog.objects
      <4>1. xs \in Seq(Object) /\ os \in Seq(Object) /\ Objects = xs \o os
        BY <1>2, <1>3, <1>5
      <4> HIDE DEF xs
      <4>2. k \in 1..Len(xs) + Len(os) /\ k \notin 1..Len(xs)
        BY <3>2, <4>1 DEF xs
      <4>3. Objects[k] = os[k - Len(xs)] /\ k - Len(xs) \in 1..Len(os)
        BY <4>1, <4>2
      <4> QED BY <1>5, <4>3
    <3> QED BY <3>1, <3>2
  <2> QED BY <2>1 DEF BytesBacked
<1>10. TypeOK
  <2>1. callers \in Seq(ActivationType) /\ DOMAIN callers = {}
    BY <1>2
  <2>2. result \in Text
    BY <1>2 DEF Text
  <2>3. error \in Reported
    BY <1>2 DEF Reported
  <2> QED BY <1>1, <1>2, <1>3, <1>7, <1>8, <1>9, <2>1, <2>2, <2>3 DEF TypeOK
<1>11. Below(Base, Mark)
  BY <1>2, <1>3, <1>5, <1>8 DEF Below, Base, Mark
<1>12. MarksAscend /\ BaseKept
  <2>1. Ascending(callers, act.counts[1]) /\ status \in {"running", "panic"}
    BY <1>2, AscendEmpty
  <2> QED BY <1>2, <1>7, <1>10, <1>11, <2>1, RunningMarks
<1>13. HeapReleased
  <2>1. DOMAIN callers = {}
    BY <1>2
  <2> QED BY <1>2, <2>1 DEF HeapReleased
<1> QED BY <1>10, <1>12, <1>13 DEF IInv, HeapMarks

\* Every step keeps the invariant.
LEMMA NextInv ==
  ASSUME IInv, [Next]_vars
  PROVE  IInv'
<1>1. TypeOK
  BY DEF IInv
<1>2. CASE \/ Stacking \/ Numbers \/ Jumping \/ Texts \/ Structures \/ Amounts
           \/ Calling \/ LoadPars
  BY <1>1, <1>2, LocalStep, LocalInv
<1>3. CASE Contracts /\ ~LoadPars
  BY <1>3, ParContractInv, CallContractInv, ReturnInv, FallOffInv, Zenon DEF Contracts
<1>4. CASE Errors
  BY <1>4, OutOfGasInv, FailInv, HostErrorInv, DecodeErrorInv, UnwindInv, GoPanicInv, Zenon
  DEF Errors
<1>5. CASE Finished \/ UNCHANGED vars
  BY <1>5, StutterInv, Zenon DEF Finished
<1> QED BY <1>2, <1>3, <1>4, <1>5, Zenon DEF Next

\* The inductive invariant holds of every run of every linked program.
THEOREM Invariance == Spec => []IInv
<1>1. Init => IInv
  BY InitInv
<1>2. IInv /\ [Next]_vars => IInv'
  BY NextInv
<1> QED BY <1>1, <1>2, PTL DEF Spec

\* The tables, the operand stack and the frames keep the shape their Go types
\* give them, in every reachable state: an instruction that would break one of
\* them is refused as a panic before it has an effect.
THEOREM TypeCorrect == Spec => []TypeOK
<1>1. IInv => TypeOK
  BY DEF IInv
<1> QED BY <1>1, Invariance, PTL

\* The lengths that newCount and CALLCONTRACT take on the way into a contract
\* ascend from the outermost activation to the innermost and on to the present
\* size of the heap, and the first of all is what vm.Run had prepared.
THEOREM MarksHold == Spec => []HeapMarks
<1>1. IInv => HeapMarks
  BY DEF IInv
<1> QED BY <1>1, Invariance, PTL

\* Whichever way a run ends that does not panic, the tables of the Runtime are as
\* long as they were before it: nothing is left over for the next run.
THEOREM HeapGivenBack == Spec => []HeapReleased
<1>1. IInv => HeapReleased
  BY DEF IInv
<1> QED BY <1>1, Invariance, PTL

-----------------------------------------------------------------------------
(***************************************************************************)
(* Reading the code from its beginning.                                    *)
(***************************************************************************)

\* What lies inside the code is a number.
LEMMA WordOf ==
  ASSUME NEW code \in Seq(0..WordMax), NEW k \in 1..Len(code)
  PROVE  code[k] \in Nat
<1>1. code[k] \in 0..WordMax
  BY ElementOfSeq, Zenon
<1> QED BY <1>1

\* An instruction has at least one word.
LEMMA LengthType ==
  ASSUME NEW code \in Seq(0..WordMax), NEW p \in 0..Len(code) - 1
  PROVE  Length(code, p) \in Nat \ {0} /\ p + Length(code, p) \in Nat
<1>1. p + 1 < Len(code) => code[p + 2] \in Nat
  BY WordOf
<1>2. Length(code, p) \in Nat \ {0}
  BY <1>1 DEF Length
<1> QED BY <1>2

\* The set of the starts from p on exists, and is what the recursion says: the
\* smallest set that p is in and, with a start, the next one.
LEMMA StartsFromIs ==
  ASSUME NEW code \in Seq(0..WordMax), NEW p \in 0..Len(code) - 1
  PROVE  StartsFrom(code)[p] =
           {p} \cup IF p + Length(code, p) < Len(code)
                    THEN StartsFrom(code)[p + Length(code, p)] ELSE {}
<1> DEFINE D == 0..Len(code) - 1
           next(q) == q + Length(code, q)
           Closed(X) == \A q \in X : next(q) < Len(code) => next(q) \in X
           Reach(q) == {r \in D : \A X \in SUBSET D : q \in X /\ Closed(X) => r \in X}
           Then(g, q) == {q} \cup IF next(q) < Len(code) THEN g[next(q)] ELSE {}
           f == [q \in D |-> Reach(q)]
<1>1. \A q \in D : next(q) \in Nat /\ (next(q) < Len(code) => next(q) \in D)
  BY LengthType
<1> HIDE DEF next
<1>2. ASSUME NEW q \in D PROVE f[q] = Then(f, q)
  <2>1. CASE ~(next(q) < Len(code))
    <3>1. Closed({q}) /\ {q} \in SUBSET D
      BY <2>1
    <3> QED BY <2>1, <3>1
  <2>2. CASE next(q) < Len(code)
    <3>1. next(q) \in D
      BY <1>1, <2>2
    <3>2. q \in Reach(q)
      OBVIOUS
    <3>3. Reach(next(q)) \subseteq Reach(q)
      BY <2>2
    <3> DEFINE Y == {q} \cup Reach(next(q))
    <3>4. next(q) \in Reach(next(q))
      BY <3>1
    <3>5. ASSUME NEW r \in Reach(next(q)), next(r) < Len(code) PROVE next(r) \in Reach(next(q))
      BY <1>1, <3>5
    <3>6. Closed(Y)
      BY <3>4, <3>5
    <3>7. Reach(q) \subseteq Y
      <4>1. Y \in SUBSET D
        OBVIOUS
      <4> HIDE DEF Closed
      <4> QED BY <3>6, <4>1
    <3>8. Reach(q) = Y
      BY <3>2, <3>3, <3>7
    <3> QED BY <2>2, <3>1, <3>8
  <2> QED BY <2>1, <2>2
<1> HIDE DEF f
<1>3. f = [q \in D |-> Then(f, q)]
  BY <1>2 DEF f
<1>4. StartsFrom(code) = CHOOSE g : g = [q \in D |-> Then(g, q)]
  BY DEF StartsFrom, next
<1>5. StartsFrom(code) = [q \in D |-> Then(StartsFrom(code), q)]
  <2> DEFINE P(g) == g = [q \in D |-> Then(g, q)]
  <2>1. P(f)
    BY <1>3
  <2>2. StartsFrom(code) = CHOOSE g : P(g)
    BY <1>4
  <2> HIDE DEF P
  <2>3. P(StartsFrom(code))
    BY <2>1, <2>2
  <2> QED BY <2>3 DEF P
<1>6. StartsFrom(code)[p] = Then(StartsFrom(code), p)
  BY <1>5
<1> QED BY <1>6 DEF next

\* Behind a start comes the next one, if the code does not end there.
LEMMA StartsClosed ==
  ASSUME NEW code \in Seq(0..WordMax), NEW p \in 0..Len(code) - 1
  PROVE  /\ p \in StartsFrom(code)[p]
         /\ \A q \in StartsFrom(code)[p] :
              /\ q \in 0..Len(code) - 1
              /\ q + Length(code, q) < Len(code) => q + Length(code, q) \in StartsFrom(code)[p]
<1> DEFINE D == 0..Len(code) - 1
           next(q) == q + Length(code, q)
           Good(r) == \A q \in StartsFrom(code)[r] :
                         /\ q \in D
                         /\ next(q) < Len(code) => next(q) \in StartsFrom(code)[r]
           B == {r \in D : ~Good(r)}
<1>1. ASSUME NEW r \in D
      PROVE  /\ next(r) \in Nat /\ next(r) > r /\ (next(r) < Len(code) => next(r) \in D)
             /\ StartsFrom(code)[r] = {r} \cup IF next(r) < Len(code)
                                               THEN StartsFrom(code)[next(r)] ELSE {}
  BY LengthType, StartsFromIs
<1> HIDE DEF next
<1>2. ASSUME B # {} PROVE FALSE
  <2>1. PICK r \in B : \A q \in B : q <= r
    <3>1. Len(code) - 1 \in Nat /\ B \subseteq 0..Len(code) - 1
      OBVIOUS
    <3> QED BY <1>2, <3>1, Largest
  <2>2. r \in D /\ ~Good(r)
    BY <2>1
  <2>3. CASE next(r) < Len(code)
    <3>1. next(r) \in D /\ Good(next(r)) /\ next(r) \in StartsFrom(code)[next(r)]
      BY <1>1, <2>1, <2>2, <2>3
    <3> QED BY <1>1, <2>2, <2>3, <3>1
  <2>4. CASE ~(next(r) < Len(code))
    BY <1>1, <2>2, <2>4
  <2> QED BY <2>3, <2>4
<1>3. Good(p)
  BY <1>2
<1>4. p \in StartsFrom(code)[p]
  BY <1>1
<1> QED BY <1>3, <1>4 DEF next

\* The starts of a contract lie in its code, the first behind the literals.
LEMMA StartsType ==
  ASSUME NEW c \in Contract, Packed(c)
  PROVE  /\ Starts(c) \subseteq 0..Len(c.code) - 1
         /\ CodeStart(c) \in Ends(c)
         /\ \A p \in Starts(c) : p + Length(c.code, p) < Len(c.code) =>
                                   p + Length(c.code, p) \in Starts(c)
<1>1. c.code \in Seq(0..WordMax)
  BY DEF Contract
<1>2. CodeStart(c) \in 0..Len(c.code)
  <2>1. CASE ~HasData(c)
    BY <1>1, <2>1 DEF CodeStart
  <2>2. CASE HasData(c)
    <3>1. Len(c.code) >= 2 /\ Len(c.code) >= 2 + c.code[2]
      BY <2>2 DEF Packed, HasData
    <3>2. c.code[2] \in Nat
      <4>1. 2 \in 1..Len(c.code)
        BY <1>1, <3>1
      <4> QED BY <1>1, <4>1, WordOf
    <3> QED BY <1>1, <2>2, <3>1, <3>2 DEF CodeStart
  <2> QED BY <2>1, <2>2
<1>3. CASE CodeStart(c) < Len(c.code)
  <2>1. CodeStart(c) \in 0..Len(c.code) - 1 /\ Starts(c) = StartsFrom(c.code)[CodeStart(c)]
    BY <1>1, <1>2, <1>3 DEF Starts
  <2> QED BY <1>1, <2>1, StartsClosed DEF Ends
<1>4. CASE ~(CodeStart(c) < Len(c.code))
  <2>1. Starts(c) = {} /\ CodeStart(c) = Len(c.code)
    BY <1>1, <1>2, <1>4 DEF Starts
  <2> QED BY <2>1 DEF Ends
<1> QED BY <1>3, <1>4

-----------------------------------------------------------------------------
(***************************************************************************)
(* Where the activations stand in their code.                              *)
(***************************************************************************)

\* Activation a stands at an instruction of its contract or at the end of it, and
\* each of its return addresses is behind a call that entered a function.
AlignedIn(c, a) == a.i \in Ends(c) /\ \A k \in DOMAIN a.calls : Entered(c, a.calls[k].ret)

\* The cells below those that the levels of the k-th function count: what its caller
\* had on the stack, less the parameters.  Of a body that may empty the stack all
\* cells count.
Floor(c, l, calls, k) ==
  IF k = 0 \/ Opened(c, calls, k) \in l.lost THEN 0
  ELSE calls[k].top - l.at[Opened(c, calls, k)]

\* The k-th function stands at p, with h values on the stack: p is in its body, and
\* there are as many values as the levels l say.
FrameRight(c, l, calls, k, p, h) ==
  /\ Owner(c, p) = Opened(c, calls, k)
  /\ Floor(c, l, calls, k) \in Nat
  /\ p \in Starts(c) => l.at[p] \in Nat /\ h >= Floor(c, l, calls, k) + l.at[p]

\* So stands the one that runs, and each of those that called another: at its call.
LevelledIn(c, l, a) ==
  /\ Len(a.Vars) = Variables(c) /\ Len(a.calls) <= CallsSize
  /\ FrameRight(c, l, a.calls, Len(a.calls), a.i, a.top)
  /\ \A k \in DOMAIN a.calls :
       FrameRight(c, l, a.calls, k - 1, a.calls[k].ret - 2, a.calls[k].top)

Aligned(a) ==
  LET c == prog.contracts[a.cnt] IN AlignedIn(c, a) /\ LevelledIn(c, Levels(prog, c), a)
CodeInv == Aligned(act) /\ \A k \in DOMAIN callers : Aligned(callers[k])

\* The words of the current instruction are those that reading the code finds.
LEMMA WordsRead ==
  ASSUME TypeOK, Fetching
  PROVE  Words(Op) = Length(cnt.code, act.i)
<1>1. act.i \in Int /\ act.i + 1 + 1 = act.i + 2
  BY DEF Fetching
<1> QED BY <1>1 DEF Words, Length, Op, W

\* The contract that runs, and what is known of its starts.
LEMMA RunningContract ==
  ASSUME TypeOK
  PROVE  cnt \in Contract /\ Packed(cnt) /\ Len(cnt.code) \in Nat
<1>1. prog.contracts \in Seq(Contract) /\ act.cnt \in DOMAIN prog.contracts
  BY DEF TypeOK, Linked, Program
<1>2. cnt \in Contract
  BY <1>1 DEF cnt
<1>3. Packed(cnt)
  BY <1>1 DEF TypeOK, Linked, cnt
<1> QED BY <1>2, <1>3 DEF Contract

\* An activation that stands at an instruction finds the next one behind it.
LEMMA NextInstruction ==
  ASSUME NEW c \in Contract, Packed(c), Verified(c), NEW p \in Starts(c)
  PROVE  p + Length(c.code, p) \in Ends(c)
<1>1. p \in 0..Len(c.code) - 1 /\ c.code \in Seq(0..WordMax)
  BY StartsType DEF Contract
<1>2. p + Length(c.code, p) \in Nat /\ p + Length(c.code, p) <= Len(c.code)
  BY <1>1, LengthType DEF Verified
<1>3. CASE p + Length(c.code, p) < Len(c.code)
  BY <1>3, StartsType DEF Ends
<1>4. CASE p + Length(c.code, p) = Len(c.code)
  BY <1>4 DEF Ends
<1> QED BY <1>1, <1>2, <1>3, <1>4

\* Behind a call that entered a function, and where it entered, there is an
\* instruction or the end of the code.
LEMMA AroundFunction ==
  ASSUME NEW c \in Contract, Packed(c), Verified(c), NEW r \in Int
  PROVE  /\ Entered(c, r) => r \in Ends(c)
         /\ IsFunction(c, r) => r \in Ends(c)
<1>1. ASSUME r - 2 \in Starts(c), c.code[r - 1] \in {CALLFUNC, JMP} PROVE r \in Ends(c)
  <2>1. Length(c.code, r - 2) = 2
    <3>1. c.code[r - 2 + 1] = c.code[r - 1]
      <4>1. r - 2 + 1 = r - 1
        OBVIOUS
      <4> QED BY <4>1, Zenon
    <3> QED BY <1>1, <3>1
        DEF Length, CALLFUNC, JMP, PUSH32, PUSHSTR, PARCONTRACT, PUSH64, GETPARAMS
  <2>2. r - 2 + Length(c.code, r - 2) \in Ends(c)
    BY <1>1, NextInstruction
  <2>3. r - 2 + 2 = r
    OBVIOUS
  <2> QED BY <2>1, <2>2, <2>3
<1>2. Entered(c, r) => r \in Ends(c)
  BY <1>1 DEF Entered
<1>3. IsFunction(c, r) => r \in Ends(c)
  BY <1>1 DEF IsFunction
<1> QED BY <1>2, <1>3

-----------------------------------------------------------------------------
(***************************************************************************)
(* Instructions that go on to the next one.                                *)
(***************************************************************************)

\* What each opcode takes off the operand stack.
LEMMA TakesOf ==
  /\ Op \in IntBinary \cup IntDivide \cup IntAssign \cup IntAssignDivide \cup MoneyBinary
                   \cup MoneyCompare \cup MoneyAssign
                   \cup {ASSIGNINT, ASSIGNSTR, ADDSTR, EQSTR, ASSIGNADDSTR, ASSIGNADDBYTES,
                         APPENDARR, GETINDEX, SETINDEX, GETMAP} => Takes(prog, Op, W(1)) = 2
  /\ Op \in {DUP, JZE, JNZ, SIGNINT, NOT, SETMAP, RETURN, SIGNMONEY, COPYSTR, COPY,
                    PARCONTRACT, OBJ2LIST} => Takes(prog, Op, W(1)) = 1
  /\ Op \in {ASSIGNSETMAP, ASSIGNSETARR, ASSIGNSETBYTES} => Takes(prog, Op, W(1)) = 3
  /\ Op \in {GETPARAMS, INITARR} => Takes(prog, Op, W(1)) = W(1)
  /\ Op \in {INITMAP, INITOBJLIST} => Takes(prog, Op, W(1)) = 2 * W(1)
  /\ Op = INITOBJ => Takes(prog, Op, W(1)) = 3 * W(1)
  /\ Op = EMBEDFUNC => Takes(prog, Op, W(1)) = Len(LibSig(W(1)))
  /\ Op = CUSTOMFUNC => Takes(prog, Op, W(1)) = Len(HostFunc.params)
  /\ Op \in {PUSH16, PUSH32, PUSH64, PUSHSTR, GETVAR, SETVAR, ENV, LOADPARS, JMP, JMPREL,
                    CALLFUNC, RETFUNC, CALLCONTRACT} => Takes(prog, Op, W(1)) = 0
<1> USE DEF NOP, PUSH16, PUSH32, PUSHSTR, INITVARS, DELVARS, ADDINT, SUBINT, MULINT,
           DIVINT, MODINT, EQINT, LTINT, GTINT, AND, OR, DUP, GETVAR, SETVAR, JMP,
           JMPREL, JZE, JNZ, ASSIGNINT, ASSIGNSTR, ASSIGNADDINT, ASSIGNSUBINT,
           ASSIGNMULINT, ASSIGNDIVINT, ASSIGNMODINT, CALLFUNC, EMBEDFUNC,
           CUSTOMFUNC, CALLCONTRACT, LOADPARS, PARCONTRACT, GETPARAMS, RETURN,
           RETFUNC, SIGNINT, NOT, ADDSTR, EQSTR, ASSIGNADDSTR, APPENDARR, GETINDEX,
           SETINDEX, GETMAP, SETMAP, COPYSTR, COPY, ASSIGNSETMAP, ASSIGNSETARR,
           ASSIGNSETBYTES, INITARR, INITMAP, INITOBJ, INITOBJLIST, OBJ2LIST, ENV,
           PUSH64, SIGNFLOAT, ADDFLOAT, SUBFLOAT, MULFLOAT, DIVFLOAT,
           ASSIGNADDFLOAT, ASSIGNSUBFLOAT, ASSIGNMULFLOAT, ASSIGNDIVFLOAT, EQFLOAT,
           LTFLOAT, GTFLOAT, ADDMONEY, SUBMONEY, MULMONEY, DIVMONEY, SIGNMONEY,
           ASSIGNADDMONEY, ASSIGNSUBMONEY, ASSIGNMULMONEY, ASSIGNDIVMONEY, EQMONEY,
           LTMONEY, GTMONEY, ASSIGNADDBYTES, DATA
<1> USE DEF IntBinary, IntDivide, IntAssign, IntAssignDivide, MoneyBinary, MoneyCompare, MoneyAssign
<1>1. Op \in IntBinary \cup IntDivide \cup IntAssign \cup IntAssignDivide \cup MoneyBinary
                   \cup MoneyCompare \cup MoneyAssign
                   \cup {ASSIGNINT, ASSIGNSTR, ADDSTR, EQSTR, ASSIGNADDSTR, ASSIGNADDBYTES,
                         APPENDARR, GETINDEX, SETINDEX, GETMAP} => Takes(prog, Op, W(1)) = 2
  BY DEF Takes
<1>2. Op \in {DUP, JZE, JNZ, SIGNINT, NOT, SETMAP, RETURN, SIGNMONEY, COPYSTR, COPY,
                    PARCONTRACT, OBJ2LIST} => Takes(prog, Op, W(1)) = 1
  BY DEF Takes
<1>3. Op \in {ASSIGNSETMAP, ASSIGNSETARR, ASSIGNSETBYTES} => Takes(prog, Op, W(1)) = 3
  BY DEF Takes
<1>4. Op \in {GETPARAMS, INITARR} => Takes(prog, Op, W(1)) = W(1)
  BY DEF Takes
<1>5. Op \in {INITMAP, INITOBJLIST} => Takes(prog, Op, W(1)) = 2 * W(1)
  BY DEF Takes
<1>6. Op = INITOBJ => Takes(prog, Op, W(1)) = 3 * W(1)
  BY DEF Takes
<1>7. Op = EMBEDFUNC => Takes(prog, Op, W(1)) = Len(LibSig(W(1)))
  BY DEF Takes
<1>8. Op = CUSTOMFUNC => Takes(prog, Op, W(1)) = Len(HostFunc.params)
  BY DEF Takes, HostFunc
<1>9. /\ Takes(prog, PUSH16, W(1)) = 0
      /\ Takes(prog, PUSH32, W(1)) = 0
      /\ Takes(prog, PUSH64, W(1)) = 0
      /\ Takes(prog, PUSHSTR, W(1)) = 0
      /\ Takes(prog, GETVAR, W(1)) = 0
      /\ Takes(prog, SETVAR, W(1)) = 0
      /\ Takes(prog, ENV, W(1)) = 0
      /\ Takes(prog, LOADPARS, W(1)) = 0
      /\ Takes(prog, JMP, W(1)) = 0
      /\ Takes(prog, JMPREL, W(1)) = 0
      /\ Takes(prog, CALLFUNC, W(1)) = 0
      /\ Takes(prog, RETFUNC, W(1)) = 0
      /\ Takes(prog, CALLCONTRACT, W(1)) = 0
  BY DEF Takes
<1> HIDE DEF NOP, PUSH16, PUSH32, PUSHSTR, INITVARS, DELVARS, ADDINT, SUBINT, MULINT,
           DIVINT, MODINT, EQINT, LTINT, GTINT, AND, OR, DUP, GETVAR, SETVAR, JMP,
           JMPREL, JZE, JNZ, ASSIGNINT, ASSIGNSTR, ASSIGNADDINT, ASSIGNSUBINT,
           ASSIGNMULINT, ASSIGNDIVINT, ASSIGNMODINT, CALLFUNC, EMBEDFUNC,
           CUSTOMFUNC, CALLCONTRACT, LOADPARS, PARCONTRACT, GETPARAMS, RETURN,
           RETFUNC, SIGNINT, NOT, ADDSTR, EQSTR, ASSIGNADDSTR, APPENDARR, GETINDEX,
           SETINDEX, GETMAP, SETMAP, COPYSTR, COPY, ASSIGNSETMAP, ASSIGNSETARR,
           ASSIGNSETBYTES, INITARR, INITMAP, INITOBJ, INITOBJLIST, OBJ2LIST, ENV,
           PUSH64, SIGNFLOAT, ADDFLOAT, SUBFLOAT, MULFLOAT, DIVFLOAT,
           ASSIGNADDFLOAT, ASSIGNSUBFLOAT, ASSIGNMULFLOAT, ASSIGNDIVFLOAT, EQFLOAT,
           LTFLOAT, GTFLOAT, ADDMONEY, SUBMONEY, MULMONEY, DIVMONEY, SIGNMONEY,
           ASSIGNADDMONEY, ASSIGNSUBMONEY, ASSIGNMULMONEY, ASSIGNDIVMONEY, EQMONEY,
           LTMONEY, GTMONEY, ASSIGNADDBYTES, DATA
<1> HIDE DEF IntBinary, IntDivide, IntAssign, IntAssignDivide, MoneyBinary, MoneyCompare, MoneyAssign
<1> QED BY <1>1, <1>2, <1>3, <1>4, <1>5, <1>6, <1>7, <1>8, <1>9, Zenon

\* What it leaves there.
LEMMA LeavesOf ==
  /\ Op \in IntBinary \cup IntDivide \cup MoneyBinary \cup MoneyCompare => Leaves(prog, Op, W(1)) = 1
  /\ Op \in {PUSH16, PUSH32, PUSH64, PUSHSTR, GETVAR, SETVAR, ENV, ADDSTR, EQSTR, GETINDEX,
            GETMAP, SIGNINT, NOT, SETMAP, SIGNMONEY, COPYSTR, COPY, OBJ2LIST, INITARR,
            INITMAP, INITOBJ, INITOBJLIST, EMBEDFUNC, CALLCONTRACT} => Leaves(prog, Op, W(1)) = 1
  /\ Op \in {DUP, SETINDEX} => Leaves(prog, Op, W(1)) = 2
  /\ Op \in IntAssign \cup IntAssignDivide \cup MoneyAssign
                   \cup {ASSIGNINT, ASSIGNSTR, ASSIGNADDSTR, ASSIGNADDBYTES, APPENDARR,
                         ASSIGNSETMAP, ASSIGNSETARR, ASSIGNSETBYTES, PARCONTRACT, GETPARAMS,
                         LOADPARS} => Leaves(prog, Op, W(1)) = 0
  /\ Op = CUSTOMFUNC => Leaves(prog, Op, W(1)) = IF HostFunc.result = VVoid THEN 0 ELSE 1
<1> USE DEF NOP, PUSH16, PUSH32, PUSHSTR, INITVARS, DELVARS, ADDINT, SUBINT, MULINT,
           DIVINT, MODINT, EQINT, LTINT, GTINT, AND, OR, DUP, GETVAR, SETVAR, JMP,
           JMPREL, JZE, JNZ, ASSIGNINT, ASSIGNSTR, ASSIGNADDINT, ASSIGNSUBINT,
           ASSIGNMULINT, ASSIGNDIVINT, ASSIGNMODINT, CALLFUNC, EMBEDFUNC,
           CUSTOMFUNC, CALLCONTRACT, LOADPARS, PARCONTRACT, GETPARAMS, RETURN,
           RETFUNC, SIGNINT, NOT, ADDSTR, EQSTR, ASSIGNADDSTR, APPENDARR, GETINDEX,
           SETINDEX, GETMAP, SETMAP, COPYSTR, COPY, ASSIGNSETMAP, ASSIGNSETARR,
           ASSIGNSETBYTES, INITARR, INITMAP, INITOBJ, INITOBJLIST, OBJ2LIST, ENV,
           PUSH64, SIGNFLOAT, ADDFLOAT, SUBFLOAT, MULFLOAT, DIVFLOAT,
           ASSIGNADDFLOAT, ASSIGNSUBFLOAT, ASSIGNMULFLOAT, ASSIGNDIVFLOAT, EQFLOAT,
           LTFLOAT, GTFLOAT, ADDMONEY, SUBMONEY, MULMONEY, DIVMONEY, SIGNMONEY,
           ASSIGNADDMONEY, ASSIGNSUBMONEY, ASSIGNMULMONEY, ASSIGNDIVMONEY, EQMONEY,
           LTMONEY, GTMONEY, ASSIGNADDBYTES, DATA
<1> USE DEF IntBinary, IntDivide, IntAssign, IntAssignDivide, MoneyBinary, MoneyCompare, MoneyAssign
<1>1. Op \in IntBinary \cup IntDivide \cup MoneyBinary \cup MoneyCompare => Leaves(prog, Op, W(1)) = 1
  BY DEF Leaves
<1>2. /\ Leaves(prog, PUSH16, W(1)) = 1
      /\ Leaves(prog, PUSH32, W(1)) = 1
      /\ Leaves(prog, PUSH64, W(1)) = 1
      /\ Leaves(prog, PUSHSTR, W(1)) = 1
      /\ Leaves(prog, GETVAR, W(1)) = 1
      /\ Leaves(prog, SETVAR, W(1)) = 1
      /\ Leaves(prog, ENV, W(1)) = 1
      /\ Leaves(prog, ADDSTR, W(1)) = 1
      /\ Leaves(prog, EQSTR, W(1)) = 1
      /\ Leaves(prog, GETINDEX, W(1)) = 1
      /\ Leaves(prog, GETMAP, W(1)) = 1
      /\ Leaves(prog, SIGNINT, W(1)) = 1
      /\ Leaves(prog, NOT, W(1)) = 1
      /\ Leaves(prog, SETMAP, W(1)) = 1
      /\ Leaves(prog, SIGNMONEY, W(1)) = 1
      /\ Leaves(prog, COPYSTR, W(1)) = 1
      /\ Leaves(prog, COPY, W(1)) = 1
      /\ Leaves(prog, OBJ2LIST, W(1)) = 1
      /\ Leaves(prog, INITARR, W(1)) = 1
      /\ Leaves(prog, INITMAP, W(1)) = 1
      /\ Leaves(prog, INITOBJ, W(1)) = 1
      /\ Leaves(prog, INITOBJLIST, W(1)) = 1
      /\ Leaves(prog, EMBEDFUNC, W(1)) = 1
      /\ Leaves(prog, CALLCONTRACT, W(1)) = 1
  BY DEF Leaves
<1>3. Op \in {DUP, SETINDEX} => Leaves(prog, Op, W(1)) = 2
  BY DEF Leaves
<1>4. Op \in IntAssign \cup IntAssignDivide \cup MoneyAssign
                   \cup {ASSIGNINT, ASSIGNSTR, ASSIGNADDSTR, ASSIGNADDBYTES, APPENDARR,
                         ASSIGNSETMAP, ASSIGNSETARR, ASSIGNSETBYTES, PARCONTRACT, GETPARAMS,
                         LOADPARS} => Leaves(prog, Op, W(1)) = 0
  BY DEF Leaves
<1>5. Op = CUSTOMFUNC => Leaves(prog, Op, W(1)) = IF HostFunc.result = VVoid THEN 0 ELSE 1
  BY DEF Leaves, HostFunc
<1> HIDE DEF NOP, PUSH16, PUSH32, PUSHSTR, INITVARS, DELVARS, ADDINT, SUBINT, MULINT,
           DIVINT, MODINT, EQINT, LTINT, GTINT, AND, OR, DUP, GETVAR, SETVAR, JMP,
           JMPREL, JZE, JNZ, ASSIGNINT, ASSIGNSTR, ASSIGNADDINT, ASSIGNSUBINT,
           ASSIGNMULINT, ASSIGNDIVINT, ASSIGNMODINT, CALLFUNC, EMBEDFUNC,
           CUSTOMFUNC, CALLCONTRACT, LOADPARS, PARCONTRACT, GETPARAMS, RETURN,
           RETFUNC, SIGNINT, NOT, ADDSTR, EQSTR, ASSIGNADDSTR, APPENDARR, GETINDEX,
           SETINDEX, GETMAP, SETMAP, COPYSTR, COPY, ASSIGNSETMAP, ASSIGNSETARR,
           ASSIGNSETBYTES, INITARR, INITMAP, INITOBJ, INITOBJLIST, OBJ2LIST, ENV,
           PUSH64, SIGNFLOAT, ADDFLOAT, SUBFLOAT, MULFLOAT, DIVFLOAT,
           ASSIGNADDFLOAT, ASSIGNSUBFLOAT, ASSIGNMULFLOAT, ASSIGNDIVFLOAT, EQFLOAT,
           LTFLOAT, GTFLOAT, ADDMONEY, SUBMONEY, MULMONEY, DIVMONEY, SIGNMONEY,
           ASSIGNADDMONEY, ASSIGNSUBMONEY, ASSIGNMULMONEY, ASSIGNDIVMONEY, EQMONEY,
           LTMONEY, GTMONEY, ASSIGNADDBYTES, DATA
<1> HIDE DEF IntBinary, IntDivide, IntAssign, IntAssignDivide, MoneyBinary, MoneyCompare, MoneyAssign
<1> QED BY <1>1, <1>2, <1>3, <1>4, <1>5, Zenon

\* Activation a stands where act stands, with the same variables in it and n more
\* values on the operand stack.
SamePlace(a) == /\ DOMAIN a = DOMAIN act /\ a.cnt = act.cnt
                /\ a.i = act.i /\ a.calls = act.calls
Yields(a, n) == SamePlace(a) /\ a.top = act.top + n /\ Len(a.Vars) = Len(act.Vars)
\* What the current instruction adds to the stack.
Gain == Leaves(prog, Op, W(1)) - Takes(prog, Op, W(1))
\* The activation has gone on behind its instruction, and called nothing; there are n
\* more values on the stack: in general as many as the instruction adds.
Ahead(n) == /\ Fetching /\ act.i + Words(Op) <= Len(cnt.code)
            /\ act'.cnt = act.cnt /\ act'.calls = act.calls /\ act'.i = act.i + Words(Op)
            /\ act'.top = act.top + n /\ Len(act'.Vars) = Len(act.Vars)
            /\ UNCHANGED <<prog, callers>>
Onward == Ahead(Gain)

\* What each instruction adds, sorted by the helpers they use.
LEMMA GainOf ==
  /\ Op \in {PUSH16, PUSH32, PUSH64, PUSHSTR, GETVAR, SETVAR, ENV, DUP} => Gain = 1
  /\ Op \in IntBinary \cup IntDivide \cup MoneyBinary \cup MoneyCompare => Gain = 1 - 2
  /\ Op \in {ADDSTR, EQSTR, GETINDEX, GETMAP} => Gain = 1 - 2
  /\ Op \in {SIGNINT, NOT, SIGNMONEY, COPYSTR, COPY, OBJ2LIST} => Gain = 1 - 1
  /\ Op \in {SETINDEX, SETMAP, LOADPARS} => Gain = 0
  /\ Op \in IntAssign \cup IntAssignDivide \cup MoneyAssign => Gain = 0 - 2
  /\ Op \in {ASSIGNINT, ASSIGNSTR, ASSIGNADDSTR, ASSIGNADDBYTES, APPENDARR} => Gain = 0 - 2
  /\ Op \in {ASSIGNSETMAP, ASSIGNSETARR, ASSIGNSETBYTES} => Gain = 0 - 3
  /\ Op = PARCONTRACT => Gain = 0 - 1
  /\ Op = GETPARAMS => Gain = 0 - W(1)
  /\ Op = INITARR => Gain = 1 - W(1)
  /\ Op \in {INITMAP, INITOBJLIST} => Gain = 1 - 2 * W(1)
  /\ Op = INITOBJ => Gain = 1 - 3 * W(1)
  /\ Op = EMBEDFUNC => Gain = 1 - Len(LibSig(W(1)))
  /\ Op = CUSTOMFUNC => Gain = (IF HostFunc.result = VVoid THEN 0 ELSE 1) - HostArgs
<1> DEFINE l == Leaves(prog, Op, W(1))
           t == Takes(prog, Op, W(1))
<1>1. /\ Op \in {PUSH16, PUSH32, PUSH64, PUSHSTR, GETVAR, SETVAR, ENV} => l = 1 /\ t = 0
      /\ Op = DUP => l = 2 /\ t = 1
      /\ Op \in IntBinary \cup IntDivide \cup MoneyBinary \cup MoneyCompare => l = 1 /\ t = 2
      /\ Op \in {ADDSTR, EQSTR, GETINDEX, GETMAP} => l = 1 /\ t = 2
      /\ Op \in {SIGNINT, NOT, SIGNMONEY, COPYSTR, COPY, OBJ2LIST, SETMAP} => l = 1 /\ t = 1
      /\ Op = SETINDEX => l = 2 /\ t = 2
      /\ Op = LOADPARS => l = 0 /\ t = 0
      /\ Op \in IntAssign \cup IntAssignDivide \cup MoneyAssign => l = 0 /\ t = 2
      /\ Op \in {ASSIGNINT, ASSIGNSTR, ASSIGNADDSTR, ASSIGNADDBYTES, APPENDARR} => l = 0 /\ t = 2
      /\ Op \in {ASSIGNSETMAP, ASSIGNSETARR, ASSIGNSETBYTES} => l = 0 /\ t = 3
      /\ Op = PARCONTRACT => l = 0 /\ t = 1
      /\ Op = GETPARAMS => l = 0 /\ t = W(1)
      /\ Op = INITARR => l = 1 /\ t = W(1)
      /\ Op \in {INITMAP, INITOBJLIST} => l = 1 /\ t = 2 * W(1)
      /\ Op = INITOBJ => l = 1 /\ t = 3 * W(1)
      /\ Op = EMBEDFUNC => l = 1 /\ t = Len(LibSig(W(1)))
  BY TakesOf, LeavesOf, Zenon
<1>2. Op = CUSTOMFUNC => l = (IF HostFunc.result = VVoid THEN 0 ELSE 1) /\ t = HostArgs
  BY TakesOf, LeavesOf, Zenon DEF HostArgs
<1>3. Gain = l - t
  BY DEF Gain
<1> HIDE DEF l, t
<1> QED BY <1>1, <1>2, <1>3

\* What the helpers do to the operand stack; the place they leave alone.
LEMMA YieldOf ==
  ASSUME act \in ActivationType
  PROVE  /\ Yields(act, 0)
         /\ \A v : Yields(Push(v), 1)
         /\ \A n \in Int : Yields(Drop(n), 0 - n)
         /\ \A n \in Int : \A v : Yields(Replace(n, v), 1 - n)
         /\ \A n \in Int : \A addr, v : Yields(Store(addr, v, n), 0 - n)
<1>1. act.top \in Int /\ act.Vars \in Seq(Int)
  BY DEF ActivationType, Depths
<1>2. \A v : Yields(Push(v), 1)
  BY DEF Yields, SamePlace, Push, ActivationType
<1>3. \A n \in Int : Yields(Drop(n), 0 - n)
  BY <1>1 DEF Yields, SamePlace, Drop, ActivationType
<1>4. \A n \in Int : \A v : Yields(Replace(n, v), 1 - n)
  BY <1>1 DEF Yields, SamePlace, Replace, ActivationType
<1>5. \A n \in Int : \A addr, v : Yields(Store(addr, v, n), 0 - n)
  <2> SUFFICES ASSUME NEW n \in Int, NEW addr, NEW v PROVE Yields(Store(addr, v, n), 0 - n)
    OBVIOUS
  <2>1. Len([act.Vars EXCEPT ![addr - HalfRange + 1] = v]) = Len(act.Vars)
    BY <1>1
  <2> QED BY <1>1, <2>1 DEF Yields, SamePlace, Store, ActivationType
<1>6. Yields(act, 0)
  BY <1>1 DEF Yields, SamePlace
<1> QED BY <1>2, <1>3, <1>4, <1>5, <1>6

\* Another count of gas, other values of the variables change nothing of that.
LEMMA YieldKept ==
  ASSUME act \in ActivationType, NEW a, NEW n, Yields(a, n)
  PROVE  /\ \A g : Yields([a EXCEPT !.gas = g], n)
         /\ \A vs : Len(vs) = Len(act.Vars) => Yields([a EXCEPT !.Vars = vs], n)
<1>1. DOMAIN a = DOMAIN act /\ {"i", "gas", "cnt", "calls", "top", "Vars"} \subseteq DOMAIN a
  BY DEF Yields, SamePlace, ActivationType
<1> QED BY <1>1 DEF Yields, SamePlace

\* An instruction that proceeds from there goes on to the next one.
LEMMA ProceedAhead ==
  ASSUME TypeOK, NEW ops, Dispatch(ops), NEW a, NEW n, Yields(a, n), Proceed(a)
  PROVE  Ahead(n)
<1>1. act \in ActivationType /\ Fetching /\ act.i + Words(Op) <= Len(cnt.code)
  BY Dispatched
<1>2. /\ DOMAIN a = DOMAIN act /\ {"i", "gas", "cnt", "calls", "top", "Vars"} \subseteq DOMAIN act
      /\ a.cnt = act.cnt /\ a.i = act.i /\ a.calls = act.calls
      /\ a.top = act.top + n /\ Len(a.Vars) = Len(act.Vars)
  BY <1>1 DEF Yields, SamePlace, ActivationType
<1>3. act' = [a EXCEPT !.i = a.i + Words(Op), !.gas = a.gas + 1] /\ UNCHANGED <<prog, callers>>
  BY <1>2 DEF Proceed
<1> HIDE DEF Words, Op
<1>4. /\ act'.cnt = a.cnt /\ act'.calls = a.calls /\ act'.i = a.i + Words(Op)
      /\ act'.top = a.top /\ act'.Vars = a.Vars
  BY <1>2, <1>3
<1> QED BY <1>1, <1>2, <1>3, <1>4 DEF Ahead

\* A host function that is there.
LEMMA HostFuncType ==
  ASSUME TypeOK, W(1) \in Nat, W(1) < Len(prog.funcs)
  PROVE  HostFunc \in [params : Seq(Nat), result : Nat] /\ HostArgs \in Nat
<1>1. prog.funcs \in Seq([params : Seq(Nat), result : Nat])
  BY DEF TypeOK, Linked, Program
<1>2. W(1) + 1 \in 1..Len(prog.funcs)
  BY <1>1
<1>3. HostFunc \in [params : Seq(Nat), result : Nat]
  BY <1>1, <1>2, ElementOfSeq, Zenon DEF HostFunc
<1> QED BY <1>3 DEF HostArgs

\* The actions after which the activation goes on to the next instruction.
Straight == Stacking \/ Numbers \/ GetParams \/ Texts \/ Structures \/ Amounts
              \/ Calling \/ LoadPars \/ ParContract

Turns == {RETURN, JMP, JMPREL, JZE, JNZ, CALLFUNC, RETFUNC}

\* None of them is an instruction that goes elsewhere.
LEMMA StraightOps ==
  ASSUME Straight
  PROVE  Op \notin Turns
<1> DEFINE Groups == IntBinary \cup IntDivide \cup IntAssign \cup IntAssignDivide
                       \cup MoneyBinary \cup MoneyCompare \cup MoneyAssign
           Others == {PUSH16, PUSH32, PUSH64, PUSHSTR, DUP, GETVAR, SETVAR, ENV, SIGNINT, NOT,
                      ASSIGNINT, GETPARAMS, ADDSTR, EQSTR, ASSIGNSTR, ASSIGNADDSTR, INITARR,
                      INITMAP, INITOBJ, INITOBJLIST, OBJ2LIST, APPENDARR, GETINDEX, GETMAP,
                      SETINDEX, SETMAP, ASSIGNSETARR, ASSIGNSETMAP, ASSIGNSETBYTES,
                      ASSIGNADDBYTES, COPYSTR, COPY, SIGNMONEY, EMBEDFUNC, CUSTOMFUNC,
                      LOADPARS, PARCONTRACT}
<1>1. Op \in Groups \cup Others
  <2> HIDE DEF Groups, Others
  <2>1. Groups \subseteq Groups \cup Others /\ Others \subseteq Groups \cup Others
    OBVIOUS
  <2>2. ASSUME NEW ops, Dispatch(ops), ops \subseteq Groups \cup Others
        PROVE  Op \in Groups \cup Others
    BY <2>2 DEF Dispatch
  <2>3. /\ IntBinary \cup IntDivide \subseteq Groups \cup Others
        /\ IntAssign \cup IntAssignDivide \subseteq Groups \cup Others
        /\ MoneyBinary \subseteq Groups \cup Others
        /\ MoneyCompare \subseteq Groups \cup Others
        /\ MoneyAssign \subseteq Groups \cup Others
    BY DEF Groups
  <2>4. /\ \A op \in Others : {op} \subseteq Groups \cup Others
        /\ \A op1, op2 \in Others : {op1, op2} \subseteq Groups \cup Others
    OBVIOUS
  <2>5. /\ {PUSH16, PUSH32, PUSH64, PUSHSTR, DUP, GETVAR, SETVAR, ENV} \subseteq Others
        /\ {SIGNINT, NOT, ASSIGNINT, GETPARAMS, LOADPARS, PARCONTRACT} \subseteq Others
        /\ {ADDSTR, EQSTR, ASSIGNSTR, ASSIGNADDSTR, SIGNMONEY} \subseteq Others
        /\ {INITARR, INITMAP, INITOBJ, INITOBJLIST, OBJ2LIST, APPENDARR} \subseteq Others
        /\ {GETINDEX, GETMAP, SETINDEX, SETMAP, ASSIGNSETARR, ASSIGNSETMAP} \subseteq Others
        /\ {ASSIGNSETBYTES, ASSIGNADDBYTES, COPYSTR, COPY, EMBEDFUNC, CUSTOMFUNC} \subseteq Others
    BY DEF Others
  <2> HIDE DEF Dispatch
  <2>6. CASE Stacking \/ Numbers \/ GetParams \/ Texts
    <3>1. CASE Push32 \/ Push64
      <4>1. Dispatch({PUSH32}) \/ Dispatch({PUSH64})
        BY <3>1 DEF Push32, Push64
      <4> QED BY <2>2, <2>4, <2>5, <4>1, Zenon
    <3>2. CASE Numbers \/ GetParams \/ Texts
      BY <2>2, <2>3, <2>4, <2>5, <3>2, Zenon
      DEF Numbers, Compute, Negate, Not, AssignInt, AssignCompute, GetParams, Texts, AddStr,
          EqStr, AssignStr, AssignAddStr
    <3>3. CASE Stacking /\ ~Push32 /\ ~Push64
      BY <2>2, <2>4, <2>5, <3>3, Zenon
      DEF Stacking, Push16, PushStr, Dup, GetVar, SetVar, Env
    <3> QED BY <2>6, <3>1, <3>2, <3>3
  <2>7. CASE Structures \/ Amounts
    BY <2>2, <2>3, <2>4, <2>5, <2>7, Zenon
    DEF Structures, InitArr, InitMap, InitObj, InitObjList, Obj2List, AppendArr, GetIndex,
        GetMap, CheckIndex, AssignSetArr, AssignSetMap, AssignSetBytes, AssignAddBytes, Copy,
        Amounts, ComputeMoney, SignMoney, AssignMoney, CompareMoney
  <2>8. CASE Calling \/ LoadPars \/ ParContract
    BY <2>2, <2>4, <2>5, <2>8, Zenon
    DEF Calling, EmbedValue, EmbedText, EmbedList, EmbedObject, EmbedGetString, EmbedGetMap,
        EmbedDecode, CustomFunc, LoadPars, ParContract
  <2> QED BY <2>6, <2>7, <2>8, Zenon DEF Straight
<1>2. (Groups \cup Others) \cap Turns = {}
  BY DEF Turns, NOP, PUSH16, PUSH32, PUSHSTR, INITVARS, DELVARS, ADDINT, SUBINT, MULINT,
           DIVINT, MODINT, EQINT, LTINT, GTINT, AND, OR, DUP, GETVAR, SETVAR, JMP,
           JMPREL, JZE, JNZ, ASSIGNINT, ASSIGNSTR, ASSIGNADDINT, ASSIGNSUBINT,
           ASSIGNMULINT, ASSIGNDIVINT, ASSIGNMODINT, CALLFUNC, EMBEDFUNC,
           CUSTOMFUNC, CALLCONTRACT, LOADPARS, PARCONTRACT, GETPARAMS, RETURN,
           RETFUNC, SIGNINT, NOT, ADDSTR, EQSTR, ASSIGNADDSTR, APPENDARR, GETINDEX,
           SETINDEX, GETMAP, SETMAP, COPYSTR, COPY, ASSIGNSETMAP, ASSIGNSETARR,
           ASSIGNSETBYTES, INITARR, INITMAP, INITOBJ, INITOBJLIST, OBJ2LIST, ENV,
           PUSH64, SIGNFLOAT, ADDFLOAT, SUBFLOAT, MULFLOAT, DIVFLOAT,
           ASSIGNADDFLOAT, ASSIGNSUBFLOAT, ASSIGNMULFLOAT, ASSIGNDIVFLOAT, EQFLOAT,
           LTFLOAT, GTFLOAT, ADDMONEY, SUBMONEY, MULMONEY, DIVMONEY, SIGNMONEY,
           ASSIGNADDMONEY, ASSIGNSUBMONEY, ASSIGNMULMONEY, ASSIGNDIVMONEY, EQMONEY,
           LTMONEY, GTMONEY, ASSIGNADDBYTES, DATA,
           IntBinary, IntDivide, IntAssign, IntAssignDivide, MoneyBinary, MoneyCompare,
           MoneyAssign
<1> QED BY <1>1, <1>2
\* Each of them does with the stack what Takes and Leaves say of its opcode.
LEMMA StraightOnward ==
  ASSUME TypeOK, Straight
  PROVE  Onward
<1>1. act \in ActivationType
  BY DEF TypeOK
<1>2. /\ Yields(act, 0)
      /\ \A v : Yields(Push(v), 1)
      /\ \A n \in Int : Yields(Drop(n), 0 - n)
      /\ \A n \in Int : \A v : Yields(Replace(n, v), 1 - n)
      /\ \A n \in Int : \A addr, v : Yields(Store(addr, v, n), 0 - n)
  BY <1>1, YieldOf
<1>3. /\ \A v : Yields(Replace(1, v), 1 - 1) /\ Yields(Replace(2, v), 1 - 2)
      /\ \A addr, v : Yields(Store(addr, v, 2), 0 - 2)
      /\ Yields(Drop(2), 0 - 2) /\ Yields(Drop(3), 0 - 3)
  <2>1. 1 \in Int /\ 2 \in Int /\ 3 \in Int
    OBVIOUS
  <2> QED BY <1>2, <2>1, Zenon
<1>4. ASSUME NEW ops, Dispatch(ops), NEW a, NEW n, Yields(a, n), Op \in ops => Gain = n, Proceed(a)
      PROVE  Onward
  <2>1. Op \in ops
    BY <1>4, Dispatched
  <2>2. Gain = n /\ Ahead(n)
    BY <1>4, <2>1, ProceedAhead
  <2> QED BY <2>2, Zenon DEF Onward
<1>5. ASSUME NEW ops, Dispatch(ops)
      PROVE  1 < Words(Op) => W(1) \in Int /\ 2 * W(1) \in Int /\ 3 * W(1) \in Int
  <2> SUFFICES ASSUME 1 < Words(Op) PROVE W(1) \in Nat
    OBVIOUS
  <2> QED BY <1>5, OperandWord
<1> HIDE DEF Proceed, Dispatch, Onward, Yields, Gain
<1>6. CASE Stacking
  <2>1. CASE Push16 \/ Dup \/ GetVar \/ SetVar \/ Env
    BY <1>2, <1>4, <2>1, GainOf, Zenon DEF Push16, Dup, GetVar, SetVar, Env
  <2>2. CASE Push32
    <3> DEFINE v == W(1) * 65536 + W(2)
    <3>1. Dispatch({PUSH32}) /\ Proceed(Push(v))
      BY <2>2 DEF Push32
    <3> HIDE DEF v
    <3> QED BY <1>2, <1>4, <3>1, GainOf, Zenon
  <2>3. CASE PushStr
    BY <1>2, <1>4, <2>3, GainOf, Zenon DEF PushStr
  <2>4. CASE Push64
    BY <1>2, <1>4, <2>4, GainOf, Zenon DEF Push64
  <2> QED BY <1>6, <2>1, <2>2, <2>3, <2>4, Zenon DEF Stacking
<1>7. CASE Numbers
  <2>1. CASE Compute
    <3>1. Op \in IntBinary \cup IntDivide => Gain = 1 - 2
      BY GainOf, Zenon
    <3> QED BY <1>3, <1>4, <2>1, <3>1, Zenon DEF Compute
  <2>2. CASE AssignCompute
    <3>1. Op \in IntAssign \cup IntAssignDivide => Gain = 0 - 2
      BY GainOf, Zenon
    <3> QED BY <1>3, <1>4, <2>2, <3>1, Zenon DEF AssignCompute
  <2>3. CASE Negate \/ Not \/ AssignInt
    BY <1>3, <1>4, <2>3, GainOf, Zenon DEF Negate, Not, AssignInt
  <2> QED BY <1>7, <2>1, <2>2, <2>3, Zenon DEF Numbers
<1>8. CASE Texts
  BY <1>3, <1>4, <1>8, GainOf, Zenon DEF Texts, AddStr, EqStr, AssignStr, AssignAddStr
<1>9. CASE Amounts
  BY <1>3, <1>4, <1>9, GainOf, Zenon DEF Amounts, ComputeMoney, SignMoney, AssignMoney, CompareMoney
<1>10. CASE Structures
  <2>1. ASSUME NEW op \in {INITARR, INITMAP, INITOBJ, INITOBJLIST}, Dispatch({op}), NEW v,
               CASE op = INITARR -> Proceed(Replace(W(1), v))
                 [] op = INITOBJ -> Proceed(Replace(3 * W(1), v))
                 [] OTHER -> Proceed(Replace(2 * W(1), v))
        PROVE  Onward
    <3>1. Op = op
      BY <2>1, Dispatched
    <3>2. 1 < Words(Op)
      BY <3>1, WordsOf
    <3> DEFINE w == W(1)
               w2 == 2 * w
               w3 == 3 * w
    <3>3. w \in Int /\ w2 \in Int /\ w3 \in Int
      BY <1>5, <2>1, <3>2
    <3>4. Yields(Replace(w, v), 1 - w) /\ Yields(Replace(w2, v), 1 - w2) /\ Yields(Replace(w3, v), 1 - w3)
      <4> HIDE DEF w, w2, w3
      <4> QED BY <1>2, <3>3
    <3> QED BY <1>4, <2>1, <3>1, <3>4, GainOf DEF INITARR, INITMAP, INITOBJ, INITOBJLIST
  <2>2. CASE InitArr \/ InitMap \/ InitObj \/ InitObjList
    BY <2>1, <2>2 DEF InitArr, InitMap, InitObj, InitObjList, INITARR, INITMAP, INITOBJ, INITOBJLIST
  <2>3. CASE Obj2List \/ Copy \/ GetIndex \/ GetMap \/ CheckIndex
    BY <1>2, <1>3, <1>4, <2>3, GainOf, Zenon DEF Obj2List, Copy, GetIndex, GetMap, CheckIndex
  <2>4. CASE AppendArr \/ AssignSetArr \/ AssignSetMap \/ AssignSetBytes \/ AssignAddBytes
    BY <1>3, <1>4, <2>4, GainOf, Zenon
    DEF AppendArr, AssignSetArr, AssignSetMap, AssignSetBytes, AssignAddBytes
  <2> QED BY <1>10, <2>2, <2>3, <2>4, Zenon DEF Structures
<1>11. CASE GetParams \/ LoadPars \/ ParContract
  <2>1. \A f : Len([k \in DOMAIN act.Vars |-> f[k]]) = Len(act.Vars)
    <3>1. act.Vars \in Seq(Int)
      BY <1>1 DEF ActivationType
    <3> QED BY <3>1
  <2>2. CASE GetParams
    <3> DEFINE f == [k \in DOMAIN act.Vars |->
                       IF \E j \in 1..W(1) : W(1 + j) = k - 1
                       THEN Cell((CHOOSE j \in 1..W(1) : W(1 + j) = k - 1) - 1)
                       ELSE act.Vars[k]]
               b == Drop(W(1))
    <3>1. Dispatch({GETPARAMS}) /\ Proceed([b EXCEPT !.Vars = f])
      BY <2>2 DEF GetParams
    <3>2. Len(f) = Len(act.Vars)
      <4>1. Len([k \in DOMAIN act.Vars |-> f[k]]) = Len(act.Vars)
        BY <2>1
      <4>2. f = [k \in DOMAIN act.Vars |-> f[k]]
        OBVIOUS
      <4> QED BY <4>1, <4>2, Zenon
    <3>3. Yields(b, 0 - W(1))
      <4>1. Op = GETPARAMS
        BY <3>1, Dispatched
      <4>2. act.i + 1 < Len(cnt.code) => W(1) \in Nat
        BY WordType, Dispatched, <3>1, CodeType
      <4>3. 1 < Words(Op)
        BY <4>1, <4>2, WordsOf
      <4>4. W(1) \in Int
        BY <1>5, <3>1, <4>3
      <4> QED BY <1>2, <4>4
    <3> HIDE DEF f, b
    <3>4. Yields([b EXCEPT !.Vars = f], 0 - W(1))
      BY <1>1, <3>2, <3>3, YieldKept
    <3> QED BY <1>4, <3>1, <3>4, GainOf, Zenon
  <2>3. CASE LoadPars
    <3>1. PICK f : Dispatch({LOADPARS}) /\ Proceed([act EXCEPT !.Vars = [k \in DOMAIN act.Vars |-> f[k]]])
      <4> DEFINE n == Len(act.params) \div 2
                 given(k) == {j \in 1..n : act.params[2 * j - 1] = k - 1}
                 last(k)  == CHOOSE j \in given(k) : \A m \in given(k) : m <= j
                 e(k) == IF given(k) = {} THEN act.Vars[k] ELSE act.params[2 * last(k)]
                 f == [k \in DOMAIN act.Vars |-> e(k)]
      <4>1. Dispatch({LOADPARS}) /\ Proceed([act EXCEPT !.Vars = f])
        BY <2>3 DEF LoadPars
      <4> HIDE DEF e
      <4>2. f = [k \in DOMAIN act.Vars |-> f[k]]
        OBVIOUS
      <4> HIDE DEF f
      <4> QED BY <4>1, <4>2
    <3> DEFINE vs == [k \in DOMAIN act.Vars |-> f[k]]
    <3>2. Len(vs) = Len(act.Vars)
      BY <2>1
    <3> HIDE DEF vs
    <3>3. Yields([act EXCEPT !.Vars = vs], 0)
      BY <1>1, <1>2, <3>2, YieldKept
    <3> QED BY <1>4, <3>1, <3>3, GainOf, Zenon DEF vs
  <2>4. CASE ParContract
    <3> DEFINE v == CopyIndex(Cell(0), W(2))
               a == [act EXCEPT !.stack = [act.stack EXCEPT ![act.top] = v],
                       !.top = act.top - 1, !.pars = act.pars \o <<W(1), v>>,
                       !.counts = IF act.isParContract THEN act.counts
                                  ELSE Append(act.counts, Mark),
                       !.isParContract = TRUE]
    <3>1. Dispatch({PARCONTRACT}) /\ Proceed(a)
      BY <1>1, <2>4 DEF ParContract, ActivationType
    <3>2. Yields(a, 0 - 1)
      BY <1>1 DEF Yields, SamePlace, ActivationType, Depths
    <3> HIDE DEF a
    <3> QED BY <1>4, <3>1, <3>2, GainOf, Zenon
  <2> QED BY <1>11, <2>2, <2>3, <2>4
<1>12. CASE Calling
  <2>1. ASSUME Dispatch({EMBEDFUNC}), W(1) \in Library, NEW v, Answer(v) PROVE Onward
    <3> DEFINE n == Len(LibSig(W(1)))
               b == Replace(n, v)
               a == [b EXCEPT !.gas = b.gas - LibGas(W(1))]
    <3>1. Proceed(a)
      BY <1>1, <2>1 DEF Answer, Replace, ActivationType
    <3>2. n \in Int
      <4>1. n \in 1..3
        BY <2>1, LibraryOf
      <4> QED BY <4>1
    <3> HIDE DEF n
    <3>3. Yields(b, 1 - n)
      BY <1>2, <3>2
    <3>4. Yields(a, 1 - n)
      <4> HIDE DEF b
      <4> QED BY <1>1, <3>3, YieldKept, Zenon
    <3>5. Op \in {EMBEDFUNC} => Gain = 1 - n
      BY GainOf DEF n
    <3> HIDE DEF a
    <3> QED BY <1>4, <2>1, <3>1, <3>4, <3>5, Zenon
  <2>2. CASE CustomFunc
    <3>1. PICK b, cost : /\ Dispatch({CUSTOMFUNC}) /\ Proceed([b EXCEPT !.gas = @ - cost])
                         /\ \/ HostFunc.result = VVoid /\ b = Drop(HostArgs)
                            \/ HostFunc.result # VVoid /\ \E v : b = Replace(HostArgs, v)
      <4>1. VInt # VVoid /\ VBool # VVoid /\ VStr # VVoid
        BY DEF VInt, VBool, VStr, VVoid
      <4> QED BY <2>2, <4>1 DEF CustomFunc
    <3>2. Yields(b, Gain)
      <4>1. Op = CUSTOMFUNC
        BY <3>1, Dispatched
      <4>2. HostArgs \in Int
        BY <3>1, <4>1, Dispatched, WordsOf, OperandWord, HostFuncType DEF Known
      <4> QED BY <1>2, <3>1, <4>1, <4>2, GainOf
    <3> DEFINE a == [b EXCEPT !.gas = b.gas - cost]
    <3>3. Proceed(a)
      <4>1. DOMAIN b = DOMAIN act /\ "gas" \in DOMAIN act
        BY <1>1, <3>2 DEF Yields, SamePlace, ActivationType
      <4> QED BY <3>1, <4>1
    <3>4. Yields(a, Gain)
      BY <1>1, <3>2, YieldKept, Zenon
    <3> HIDE DEF a
    <3> QED BY <1>4, <3>1, <3>3, <3>4
  <2> HIDE DEF Answer
  <2>3. /\ LibValue \subseteq Library /\ LibText \subseteq Library /\ LibList \subseteq Library
        /\ {MoneyInt, BytesStr, JSONDecode, GetStr, GetMapOf} \subseteq Library
    BY DEF Library
  <2>4. CASE EmbedValue \/ EmbedText \/ EmbedList \/ EmbedObject
    BY <2>1, <2>3, <2>4, Zenon DEF EmbedValue, EmbedText, EmbedList, EmbedObject
  <2>5. CASE EmbedGetString \/ EmbedGetMap \/ EmbedDecode
    BY <2>1, <2>3, <2>5, Zenon DEF EmbedGetString, EmbedGetMap, EmbedDecode
  <2> QED BY <1>12, <2>2, <2>4, <2>5 DEF Calling
<1> QED BY <1>6, <1>7, <1>8, <1>9, <1>10, <1>11, <1>12, Zenon DEF Straight

-----------------------------------------------------------------------------
(***************************************************************************)
(* Every step keeps the activations aligned.  The invariant is about the   *)
(* contracts of a run that are verified, all of them: a contract may call  *)
(* any other.                                                              *)
(***************************************************************************)

\* The contract of any activation is one of those verified.
LEMMA VerifiedContract ==
  ASSUME TypeOK, CodeVerified, NEW k \in DOMAIN prog.contracts
  PROVE  LET c == prog.contracts[k]
         IN /\ c \in Contract /\ Packed(c) /\ Verified(c)
            /\ \A p \in Starts(c) : InTables(prog, c, p)
            /\ Balanced(prog, c, Levels(prog, c))
<1>1. prog.contracts \in Seq(Contract) /\ \A c \in DOMAIN prog.contracts : Packed(prog.contracts[c])
  BY DEF TypeOK, Linked, Program
<1>2. prog.contracts[k] \in Contract /\ Packed(prog.contracts[k])
  BY <1>1
<1> QED BY <1>2, Zenon DEF CodeVerified

\* The levels of the contract that runs, and where its jump leads.
Here == Levels(prog, cnt)
Aim == Target(cnt, act.i)

\* What the running activation finds when it fetches an instruction.
LEMMA FetchedAt ==
  ASSUME TypeOK, CodeVerified, CodeInv, Fetching
  PROVE  /\ cnt \in Contract /\ Packed(cnt) /\ Verified(cnt) /\ act.i \in Starts(cnt)
         /\ act.i \in Int /\ act.i + Words(Op) <= Len(cnt.code)
         /\ act.i + Words(Op) \in Ends(cnt)
<1>1. cnt \in Contract /\ Packed(cnt) /\ Verified(cnt) /\ Len(cnt.code) \in Nat
  <2>1. act.cnt \in DOMAIN prog.contracts
    BY DEF TypeOK
  <2> QED BY <2>1, VerifiedContract, RunningContract DEF cnt
<1>2. act.i \in Starts(cnt)
  <2>1. act.i \in Ends(cnt)
    BY DEF CodeInv, Aligned, AlignedIn, cnt
  <2>2. act.i # Len(cnt.code)
    BY <1>1 DEF Fetching
  <2> QED BY <2>1, <2>2 DEF Ends
<1>3. Words(Op) = Length(cnt.code, act.i)
  BY WordsRead
<1>4. act.i + Length(cnt.code, act.i) <= Len(cnt.code)
  BY <1>1, <1>2 DEF Verified
<1>5. act.i + Length(cnt.code, act.i) \in Ends(cnt)
  BY <1>1, <1>2, NextInstruction
<1> QED BY <1>1, <1>2, <1>3, <1>4, <1>5 DEF Fetching

\* The running function finds as many values as the levels say.
LEMMA RunningFrame ==
  ASSUME TypeOK, CodeVerified, CodeInv
  PROVE  /\ Len(act.Vars) = Variables(cnt) /\ Len(act.calls) <= CallsSize
         /\ FrameRight(cnt, Here, act.calls, Len(act.calls), act.i, act.top)
         /\ \A k \in DOMAIN act.calls :
              FrameRight(cnt, Here, act.calls, k - 1, act.calls[k].ret - 2, act.calls[k].top)
BY DEF CodeInv, Aligned, LevelledIn, Here, cnt

\* The levels of the contract that runs are right.
LEMMA RunningBalanced ==
  ASSUME TypeOK, CodeVerified
  PROVE  Balanced(prog, cnt, Here)
<1>1. act.cnt \in DOMAIN prog.contracts
  BY DEF TypeOK
<1> QED BY <1>1, VerifiedContract DEF cnt, Here

\* What Balanced says of the place p of a contract, by the opcode there.
LEMMA StepOf ==
  ASSUME NEW g, NEW c, NEW l, Balanced(g, c, l), NEW p \in Starts(c), l.at[p] \in Nat
  PROVE  LET op == c.code[p + 1]
             d  == l.at[p] - Takes(g, op, c.code[p + 2])
             o  == Owner(c, p)
             next == p + Length(c.code, p)
         IN /\ d >= 0
            /\ op = JMP => Leads(c, l, Target(c, p), o, 0) /\ o \in l.lost
            /\ op \in {JMPREL, JZE, JNZ} => Leads(c, l, Target(c, p), o, d)
            /\ op \in {JZE, JNZ} => Leads(c, l, next, o, d)
            /\ op = CALLFUNC => CallsRight(c, l, p, Target(c, p))
            /\ op = RETFUNC => o # Main /\ l.at[p] >= l.gives[o]
            /\ op \notin Turns => Leads(c, l, next, o, d + Leaves(g, op, c.code[p + 2]))
<1>1. StepsRight(g, c, l, p)
  BY DEF Balanced, Unreached
<1> DEFINE op == c.code[p + 1]
           d  == l.at[p] - Takes(g, op, c.code[p + 2])
           o  == Owner(c, p)
           next == p + Length(c.code, p)
<1>2. /\ d >= 0
      /\ CASE op = RETURN -> TRUE
           [] op = JMP -> Leads(c, l, Target(c, p), o, 0) /\ o \in l.lost
           [] op = JMPREL -> Leads(c, l, Target(c, p), o, d)
           [] op \in {JZE, JNZ} -> Leads(c, l, next, o, d) /\ Leads(c, l, Target(c, p), o, d)
           [] op = CALLFUNC -> CallsRight(c, l, p, Target(c, p))
           [] op = RETFUNC -> o # Main /\ l.at[p] >= l.gives[o]
           [] OTHER -> Leads(c, l, next, o, d + Leaves(g, op, c.code[p + 2]))
  BY <1>1 DEF StepsRight
<1> HIDE DEF op, d, o, next
<1>3. /\ op = JMP => Leads(c, l, Target(c, p), o, 0) /\ o \in l.lost
      /\ op \in {JMPREL, JZE, JNZ} => Leads(c, l, Target(c, p), o, d)
      /\ op \in {JZE, JNZ} => Leads(c, l, next, o, d)
      /\ op = CALLFUNC => CallsRight(c, l, p, Target(c, p))
      /\ op = RETFUNC => o # Main /\ l.at[p] >= l.gives[o]
      /\ op \notin Turns => Leads(c, l, next, o, d + Leaves(g, op, c.code[p + 2]))
  BY <1>2 DEF Turns, RETURN, JMP, JMPREL, JZE, JNZ, CALLFUNC, RETFUNC
<1> QED BY <1>2, <1>3 DEF op, d, o, next

\* The same of the current instruction.
LEMMA StepHere ==
  ASSUME TypeOK, CodeVerified, CodeInv, Fetching
  PROVE  LET d == Here.at[act.i] - Takes(prog, Op, W(1))
             o == Owner(cnt, act.i)
             next == act.i + Words(Op)
         IN /\ Here.at[act.i] \in Nat /\ d >= 0
            /\ Op = JMP => Leads(cnt, Here, Aim, o, 0) /\ o \in Here.lost
            /\ Op \in {JMPREL, JZE, JNZ} => Leads(cnt, Here, Aim, o, d)
            /\ Op \in {JZE, JNZ} => Leads(cnt, Here, next, o, d)
            /\ Op = CALLFUNC => CallsRight(cnt, Here, act.i, Aim)
            /\ Op = RETFUNC => o # Main /\ Here.at[act.i] >= Here.gives[o]
            /\ Op \notin Turns => Leads(cnt, Here, next, o, d + Leaves(prog, Op, W(1)))
<1>1. act.i \in Starts(cnt) /\ act.i \in Int
  BY FetchedAt
<1>2. Balanced(prog, cnt, Here)
  BY RunningBalanced
<1>3. Here.at[act.i] \in Nat
  BY <1>1, RunningFrame DEF FrameRight
<1>4. /\ Op = cnt.code[act.i + 1] /\ W(1) = cnt.code[act.i + 2]
      /\ Words(Op) = Length(cnt.code, act.i)
  <2>1. act.i + 1 + 1 = act.i + 2
    BY <1>1
  <2>2. W(1) = cnt.code[act.i + 2]
    BY <2>1 DEF W
  <2> QED BY <2>2, WordsRead DEF Op
<1> QED BY <1>1, <1>2, <1>3, <1>4, StepOf, Zenon DEF Aim

\* What the words of the current instruction name is there.
LEMMA FetchedTables ==
  ASSUME TypeOK, CodeVerified, CodeInv, Fetching
  PROVE  Known /\ (Op \notin {CALLFUNC, RETFUNC} => IndicesFit)
<1>1. act.i \in Starts(cnt) /\ act.i \in Int /\ act.i + Words(Op) <= Len(cnt.code)
  BY FetchedAt
<1>2. InTables(prog, cnt, act.i)
  <2>1. act.cnt \in DOMAIN prog.contracts
    BY DEF TypeOK
  <2> QED BY <1>1, <2>1, VerifiedContract DEF cnt
<1>3. /\ Op = cnt.code[act.i + 1] /\ W(1) = cnt.code[act.i + 2] /\ W(2) = cnt.code[act.i + 3]
      /\ \A k \in Int : W(1 + k) = cnt.code[act.i + 2 + k]
  <2>1. /\ act.i + 1 + 1 = act.i + 2 /\ act.i + 1 + 2 = act.i + 3
        /\ \A k \in Int : act.i + 1 + (1 + k) = act.i + 2 + k
    BY <1>1
  <2> QED BY <2>1 DEF W, Op
<1>4. /\ Op \in {GETVAR, SETVAR} => W(1) < Variables(cnt)
      /\ Op = GETPARAMS => \A k \in 1..W(1) : W(1 + k) < Variables(cnt)
      /\ Op = PUSHSTR => Word(W(1) + W(2)) \in W(1)..Len(Literals(cnt))
      /\ Op = ENV => W(1) < Len(prog.env)
      /\ Op = CALLCONTRACT => W(1) < Len(prog.contracts)
      /\ Op = CUSTOMFUNC => W(1) < Len(prog.funcs)
      /\ Op = EMBEDFUNC => W(1) < StdLibSize
  <2> DEFINE c == cnt.code
             i == act.i
  <2>1. /\ c[i + 1] \in {GETVAR, SETVAR} => c[i + 2] < Variables(cnt)
        /\ c[i + 1] = GETPARAMS => \A k \in 1..c[i + 2] : c[i + 2 + k] < Variables(cnt)
        /\ c[i + 1] = PUSHSTR => Word(c[i + 2] + c[i + 3]) \in c[i + 2]..Len(Literals(cnt))
        /\ c[i + 1] = ENV => c[i + 2] < Len(prog.env)
        /\ c[i + 1] = CALLCONTRACT => c[i + 2] < Len(prog.contracts)
        /\ c[i + 1] = CUSTOMFUNC => c[i + 2] < Len(prog.funcs)
        /\ c[i + 1] = EMBEDFUNC => c[i + 2] < StdLibSize
    BY <1>2, Zenon DEF InTables
  <2> HIDE DEF Op, W
  <2>2. Op = GETPARAMS => \A k \in 1..W(1) : W(1 + k) < Variables(cnt)
    <3> SUFFICES ASSUME Op = GETPARAMS, NEW k \in 1..W(1) PROVE W(1 + k) < Variables(cnt)
      OBVIOUS
    <3>1. k \in Int
      OBVIOUS
    <3>2. W(1 + k) = c[i + 2 + k]
      BY <1>3, <3>1
    <3>3. c[i + 2 + k] < Variables(cnt)
      BY <1>3, <2>1
    <3> QED BY <3>2, <3>3, Zenon
  <2> QED BY <1>3, <2>1, <2>2, Zenon
<1>5. Len(act.Vars) = Variables(cnt)
  BY RunningFrame
<1>6. Known
  BY <1>1, <1>4 DEF Known
<1> QED BY <1>4, <1>5, <1>6 DEF IndicesFit

\* The word behind an opcode that counts is there.
LEMMA CountType ==
  ASSUME TypeOK, CodeVerified, CodeInv, Fetching,
         Op \in {GETPARAMS, INITARR, INITMAP, INITOBJ, INITOBJLIST, CUSTOMFUNC}
  PROVE  W(1) \in Nat
<1>1. act.i + Words(Op) <= Len(cnt.code) /\ act.i \in 0..Len(cnt.code) - 1
  BY FetchedAt DEF Fetching
<1>2. Len(cnt.code) \in Nat
  BY RunningContract
<1>3. act.i + 1 < Len(cnt.code)
  <2>1. Op = GETPARAMS \/ Words(Op) = 2
    BY WordsOf
  <2>2. act.i + 1 < Len(cnt.code) \/ Words(GETPARAMS) = 2
    BY WordsOf
  <2> QED BY <1>1, <1>2, <2>1, <2>2
<1>4. act.i + 1 + 1 \in 1..Len(cnt.code)
  BY <1>1, <1>2, <1>3
<1> QED BY <1>4, WordType

\* How many values an instruction takes and leaves are numbers.
LEMMA GainType ==
  ASSUME TypeOK, CodeVerified, CodeInv, Fetching
  PROVE  Takes(prog, Op, W(1)) \in Nat /\ Leaves(prog, Op, W(1)) \in Nat
<1>1. Leaves(prog, Op, W(1)) \in Nat
  BY DEF Leaves
<1>2. Op \in {GETPARAMS, INITARR, INITMAP, INITOBJ, INITOBJLIST, CUSTOMFUNC} => W(1) \in Nat
  BY CountType
<1>3. \A f : Len(LibSig(f)) \in Nat
  BY DEF LibSig
<1>4. Op = CUSTOMFUNC => HostArgs \in Nat
  <2>1. Op = CUSTOMFUNC => W(1) < Len(prog.funcs)
    BY FetchedTables DEF Known
  <2> QED BY <1>2, <2>1, HostFuncType
<1>5. Takes(prog, Op, W(1)) \in Nat
  <2>1. Op = CUSTOMFUNC => Takes(prog, Op, W(1)) \in Nat
    BY <1>4, TakesOf DEF HostArgs
  <2>2. Op # CUSTOMFUNC => Takes(prog, Op, W(1)) \in Nat
    BY <1>2, <1>3 DEF Takes
  <2> QED BY <2>1, <2>2
<1> QED BY <1>1, <1>5

\* If the callers stay and the running activation keeps its contract, only the place,
\* the calls and the stack of this one are to be shown.
LEMMA PlaceSuffices ==
  ASSUME CodeInv, UNCHANGED <<prog, callers>>, act'.cnt = act.cnt,
         AlignedIn(cnt, act'), LevelledIn(cnt, Here, act')
  PROVE  CodeInv'
BY DEF CodeInv, Aligned, Here, cnt

\* And if it calls nothing, only the place and the stack of the running function.
LEMMA FrameSuffices ==
  ASSUME TypeOK, CodeVerified, CodeInv, UNCHANGED <<prog, callers>>, act'.cnt = act.cnt,
         act'.calls = act.calls, Len(act'.Vars) = Len(act.Vars), act'.i \in Ends(cnt),
         FrameRight(cnt, Here, act.calls, Len(act.calls), act'.i, act'.top)
  PROVE  CodeInv'
<1>1. AlignedIn(cnt, act')
  BY DEF CodeInv, Aligned, AlignedIn, cnt
<1>2. LevelledIn(cnt, Here, act')
  BY RunningFrame DEF LevelledIn
<1> QED BY <1>1, <1>2, PlaceSuffices

\* A function knows of the calls only the one that opened it.
LEMMA FrameKept ==
  ASSUME NEW c, NEW l, NEW calls, NEW others, NEW k \in Int, k # 0 => others[k] = calls[k],
         NEW p, NEW h, FrameRight(c, l, calls, k, p, h)
  PROVE  FrameRight(c, l, others, k, p, h)
<1>1. Opened(c, others, k) = Opened(c, calls, k)
  BY DEF Opened
<1>2. Floor(c, l, others, k) = Floor(c, l, calls, k)
  BY <1>1 DEF Floor
<1> QED BY <1>1, <1>2 DEF FrameRight

\* Where the levels lead from p, with n values more, they hold.
LEMMA FrameLed ==
  ASSUME NEW c, NEW l, NEW calls, NEW k, NEW p \in Starts(c), NEW h \in Int, NEW n \in Int,
         FrameRight(c, l, calls, k, p, h), NEW q, Leads(c, l, q, Owner(c, p), l.at[p] + n)
  PROVE  FrameRight(c, l, calls, k, q, h + n)
<1> DEFINE f == Floor(c, l, calls, k)
<1>1. Owner(c, p) = Opened(c, calls, k) /\ f \in Nat /\ l.at[p] \in Nat /\ h >= f + l.at[p]
  BY DEF FrameRight
<1>2. Owner(c, q) = Opened(c, calls, k) /\ (q \in Starts(c) => l.at[q] \in 0..l.at[p] + n)
  BY <1>1 DEF Leads
<1> HIDE DEF f
<1>3. q \in Starts(c) => l.at[q] \in Nat /\ h + n >= f + l.at[q]
  BY <1>1, <1>2
<1> QED BY <1>1, <1>2, <1>3 DEF FrameRight, f

\* The next instruction.
LEMMA AheadAligned ==
  ASSUME TypeOK, CodeVerified, CodeInv, NEW n \in Int, Ahead(n),
         Leads(cnt, Here, act.i + Words(Op), Owner(cnt, act.i), Here.at[act.i] + n)
  PROVE  CodeInv'
<1>1. /\ act'.i \in Ends(cnt) /\ act'.calls = act.calls /\ act'.cnt = act.cnt
      /\ act.i \in Starts(cnt)
  BY FetchedAt DEF Ahead
<1>2. act.top \in Int
  BY DEF TypeOK, ActivationType, Depths
<1>3. FrameRight(cnt, Here, act.calls, Len(act.calls), act'.i, act'.top)
  <2>1. FrameRight(cnt, Here, act.calls, Len(act.calls), act.i + Words(Op), act.top + n)
    BY <1>1, <1>2, RunningFrame, FrameLed
  <2> QED BY <2>1 DEF Ahead
<1> QED BY <1>1, <1>3, FrameSuffices DEF Ahead

\* An instruction that adds what the levels count with.
LEMMA OnwardAligned ==
  ASSUME TypeOK, CodeVerified, CodeInv, Onward, Op \notin Turns
  PROVE  CodeInv'
<1> DEFINE t == Takes(prog, Op, W(1))
           v == Leaves(prog, Op, W(1))
<1>1. Fetching /\ Ahead(Gain)
  BY DEF Onward, Ahead
<1>2. t \in Nat /\ v \in Nat /\ Gain = v - t
  BY <1>1, GainType DEF Gain
<1>3. /\ Here.at[act.i] \in Nat
      /\ Leads(cnt, Here, act.i + Words(Op), Owner(cnt, act.i), Here.at[act.i] - t + v)
  BY <1>1, StepHere, Zenon
<1> HIDE DEF t, v
<1>4. Here.at[act.i] - t + v = Here.at[act.i] + Gain /\ Gain \in Int
  BY <1>2, <1>3
<1> QED BY <1>1, <1>3, <1>4, AheadAligned

\* A jump leads where Verified looks, and finds there what is to be shown.
LEMMA JumpAligned ==
  ASSUME TypeOK, CodeVerified, CodeInv, NEW ops, Dispatch(ops), ops \subseteq Jumps,
         NEW a, SamePlace(a), Len(a.Vars) = Len(act.Vars), Jump(a),
         FrameRight(cnt, Here, act.calls, Len(act.calls), Aim, a.top)
  PROVE  CodeInv'
<1>1. act \in ActivationType /\ Fetching /\ Op \in Jumps
  BY Dispatched
<1>2. /\ cnt \in Contract /\ Verified(cnt) /\ act.i \in Starts(cnt) /\ act.i \in Int
  BY <1>1, FetchedAt
<1>3. /\ DOMAIN a = DOMAIN act
      /\ {"i", "gas", "cnt", "calls", "top", "Vars"} \subseteq DOMAIN act
  BY <1>1 DEF SamePlace, ActivationType
<1>4. /\ act'.cnt = act.cnt /\ act'.calls = act.calls /\ act'.i = act.i + Signed(W(1))
      /\ act'.top = a.top /\ Len(act'.Vars) = Len(act.Vars)
      /\ UNCHANGED <<prog, callers>>
  <2>1. act' = [a EXCEPT !.i = a.i + Signed(W(1)), !.gas = a.gas + 1] /\ UNCHANGED <<prog, callers>>
    BY <1>3 DEF Jump
  <2> HIDE DEF W, Signed
  <2> QED BY <1>3, <2>1 DEF SamePlace
<1>5. act'.i = Aim
  <2>1. act.i + 1 + 1 = act.i + 2
    BY <1>2
  <2> QED BY <1>4, <2>1, Zenon DEF Target, W, Aim
<1>6. Op = cnt.code[act.i + 1]
  BY DEF Op
<1>7. act'.i \in Ends(cnt)
  BY <1>1, <1>2, <1>5, <1>6 DEF Verified, Ends, Aim
<1>8. FrameRight(cnt, Here, act.calls, Len(act.calls), act'.i, act'.top)
  BY <1>4, <1>5, Zenon
<1> QED BY <1>4, <1>7, <1>8, FrameSuffices

\* A jump that adds what the levels count with.
LEMMA JumpLed ==
  ASSUME TypeOK, CodeVerified, CodeInv, NEW ops, Dispatch(ops), ops \subseteq Jumps,
         NEW a, NEW n \in Int, Yields(a, n), Jump(a),
         Leads(cnt, Here, Aim, Owner(cnt, act.i), Here.at[act.i] + n)
  PROVE  CodeInv'
<1>1. act.i \in Starts(cnt)
  BY Dispatched, FetchedAt
<1>2. act.top \in Int
  BY DEF TypeOK, ActivationType, Depths
<1>3. FrameRight(cnt, Here, act.calls, Len(act.calls), Aim, act.top + n)
  BY <1>1, <1>2, RunningFrame, FrameLed
<1>4. SamePlace(a) /\ Len(a.Vars) = Len(act.Vars) /\ a.top = act.top + n
  BY DEF Yields
<1> HIDE DEF Jump, SamePlace
<1> QED BY <1>3, <1>4, JumpAligned

\* JMP, JMPREL, JZE and JNZ, taken or not.
LEMMA JumpingAligned ==
  ASSUME TypeOK, CodeVerified, CodeInv, Jmp \/ JmpRel \/ JumpIf
  PROVE  CodeInv'
<1>1. act \in ActivationType
  BY DEF TypeOK
<1>2. Yields(act, 0) /\ Yields(Drop(1), -1)
  BY <1>1, YieldOf
<1>3. CASE Jmp
  <2> DEFINE a == [act EXCEPT !.top = 0]
  <2>1. Dispatch({JMP}) /\ Jump(a) /\ {JMP} \subseteq Jumps
    BY <1>3 DEF Jmp, Jumps
  <2>2. SamePlace(a) /\ Len(a.Vars) = Len(act.Vars) /\ a.top = 0
    BY <1>1 DEF SamePlace, ActivationType
  <2> HIDE DEF a
  <2>3. Op = JMP /\ Fetching
    BY <2>1, Dispatched
  <2>4. Leads(cnt, Here, Aim, Owner(cnt, act.i), 0) /\ Owner(cnt, act.i) \in Here.lost
    BY <2>3, StepHere
  <2>5. /\ Owner(cnt, act.i) = Opened(cnt, act.calls, Len(act.calls))
        /\ Owner(cnt, Aim) = Owner(cnt, act.i)
        /\ Aim \in Starts(cnt) => Here.at[Aim] = 0
    BY <2>4, RunningFrame DEF FrameRight, Leads
  <2>6. Floor(cnt, Here, act.calls, Len(act.calls)) = 0
    BY <2>4, <2>5 DEF Floor
  <2>7. FrameRight(cnt, Here, act.calls, Len(act.calls), Aim, a.top)
    BY <2>2, <2>5, <2>6 DEF FrameRight
  <2> QED BY <2>1, <2>2, <2>7, JumpAligned
<1>4. CASE JmpRel \/ JumpIf
  <2>1. PICK a, n : /\ Dispatch({JMPREL, JZE, JNZ}) /\ {JMPREL, JZE, JNZ} \subseteq Jumps
                    /\ Jump(a) \/ (Op \in {JZE, JNZ} /\ Proceed(a))
                    /\ Yields(a, n) /\ n = IF Op = JMPREL THEN 0 ELSE -1
    <3>1. CASE JmpRel
      BY <1>2, <3>1 DEF JmpRel, Jumps, Dispatch
    <3>2. CASE JumpIf
      BY <1>2, <3>2 DEF JumpIf, Jumps, Dispatch, JMPREL, JZE, JNZ
    <3> QED BY <1>4, <3>1, <3>2
  <2>2. Op \in {JMPREL, JZE, JNZ} /\ Fetching
    BY <2>1, Dispatched
  <2>3. Takes(prog, Op, W(1)) = -n /\ n \in Int
    BY <2>1, <2>2, TakesOf DEF JMPREL, JZE, JNZ
  <2>4. /\ Here.at[act.i] \in Nat
        /\ Leads(cnt, Here, Aim, Owner(cnt, act.i), Here.at[act.i] - Takes(prog, Op, W(1)))
        /\ Op \in {JZE, JNZ} => Leads(cnt, Here, act.i + Words(Op), Owner(cnt, act.i),
                                      Here.at[act.i] - Takes(prog, Op, W(1)))
    BY <2>2, StepHere, Zenon
  <2>5. Here.at[act.i] - Takes(prog, Op, W(1)) = Here.at[act.i] + n
    BY <2>3, <2>4
  <2>6. CASE Jump(a)
    BY <2>1, <2>3, <2>4, <2>5, <2>6, JumpLed
  <2>7. CASE Op \in {JZE, JNZ} /\ Proceed(a)
    <3>1. Ahead(n)
      BY <2>1, <2>7, ProceedAhead
    <3> QED BY <2>3, <2>4, <2>5, <2>7, <3>1, AheadAligned
  <2> QED BY <2>1, <2>6, <2>7
<1> QED BY <1>3, <1>4

\* What a call from p notes.
LEMMA BehindCall ==
  ASSUME NEW c, NEW p \in Int, p \in Starts(c), c.code[p + 1] = CALLFUNC,
         IsFunction(c, Target(c, p))
  PROVE  Entered(c, p + 2)
<1> DEFINE q == p + 2
<1>1. q - 2 = p /\ q - 1 = p + 1
  OBVIOUS
<1> HIDE DEF q
<1>2. Entered(c, q)
  <2> HIDE DEF IsFunction, Target, Starts
  <2> QED BY <1>1 DEF Entered
<1> QED BY <1>2 DEF q

\* The function that is called finds its parameters.
LEMMA FunctionOpened ==
  ASSUME TypeOK, CodeVerified, CodeInv, Fetching, Op = CALLFUNC, NEW calls \in Seq(Returns),
         Len(calls) = Len(act.calls) + 1, calls[Len(calls)].ret - 2 = act.i,
         calls[Len(calls)].top = act.top
  PROVE  FrameRight(cnt, Here, calls, Len(calls), Aim, act.top)
<1> DEFINE n == Len(calls)
           f == Floor(cnt, Here, act.calls, Len(act.calls))
<1>1. n # 0 /\ act.top \in Int
  BY DEF TypeOK, ActivationType, Depths
<1>2. /\ Owner(cnt, Aim) = Aim
      /\ Aim \in Starts(cnt) /\ Here.at[Aim] \in 0..Here.at[act.i]
  BY StepHere DEF CallsRight, Leads
<1>3. f \in Nat /\ Here.at[act.i] \in Nat /\ act.top >= f + Here.at[act.i]
  BY RunningFrame, FetchedAt DEF FrameRight
<1>4. Opened(cnt, calls, n) = Aim
  BY <1>1 DEF Opened, Aim
<1> HIDE DEF f, n
<1>5. Floor(cnt, Here, calls, n) = IF Aim \in Here.lost THEN 0 ELSE act.top - Here.at[Aim]
  BY <1>1, <1>4 DEF Floor, n
<1>6. /\ Floor(cnt, Here, calls, n) \in Nat
      /\ Here.at[Aim] \in Nat /\ act.top >= Floor(cnt, Here, calls, n) + Here.at[Aim]
  <2> DEFINE b == Here.at[Aim]
             d == Here.at[act.i]
             t == act.top
             g == Floor(cnt, Here, calls, n)
  <2>1. /\ b \in 0..d /\ f \in Nat /\ d \in Nat /\ t \in Int /\ t >= f + d
        /\ g = 0 \/ g = t - b
    BY <1>1, <1>2, <1>3, <1>5
  <2> HIDE DEF b, d, t, g
  <2>2. g \in Nat /\ b \in Nat /\ t >= g + b
    BY <2>1
  <2> QED BY <2>2 DEF b, t, g
<1> QED BY <1>2, <1>4, <1>6 DEF FrameRight, n

\* A call leads into a function, and notes the place behind itself.
LEMMA CallFuncAligned ==
  ASSUME TypeOK, CodeVerified, CodeInv, CallFunc
  PROVE  CodeInv'
<1> DEFINE r == [ret |-> act.i + 2, top |-> act.top]
           calls == Append(act.calls, r)
<1>1. /\ Dispatch({CALLFUNC}) /\ Op = CALLFUNC /\ Fetching /\ act \in ActivationType
      /\ Jump([act EXCEPT !.calls = calls])
  BY Dispatched DEF CallFunc
<1>2. /\ cnt \in Contract /\ Packed(cnt) /\ Verified(cnt)
      /\ act.i \in Starts(cnt) /\ act.i \in Int
  BY <1>1, FetchedAt
<1>3. act.calls \in Seq(Returns) /\ r \in Returns
  BY <1>1, <1>2 DEF ActivationType, Depths, Returns
<1>4. /\ r.ret = act.i + 2 /\ r.top = act.top /\ act.i + 2 - 2 = act.i
      /\ act.i + 2 - 1 = act.i + 1 /\ act.i + 1 + 1 = act.i + 2
  BY <1>2
<1>5. /\ calls \in Seq(Returns) /\ Len(calls) = Len(act.calls) + 1
      /\ DOMAIN calls = 1..Len(act.calls) + 1 /\ DOMAIN act.calls = 1..Len(act.calls)
      /\ Len(act.calls) \in Nat /\ calls[Len(act.calls) + 1] = r
      /\ \A k \in DOMAIN act.calls : calls[k] = act.calls[k]
  BY <1>3
<1> HIDE DEF r, calls
<1>6. /\ act'.cnt = act.cnt /\ act'.calls = calls /\ act'.i = act.i + Signed(W(1))
      /\ UNCHANGED <<prog, callers>>
  BY <1>1 DEF Jump, ActivationType
<1>7. act'.i = Target(cnt, act.i)
  BY <1>4, <1>6, Zenon DEF Target, W
<1>8. cnt.code[act.i + 1] = CALLFUNC
  BY <1>1 DEF Op
<1>9. IsFunction(cnt, Target(cnt, act.i))
  BY <1>2, <1>8 DEF Verified
<1>10. act'.i \in Ends(cnt)
  <2>1. Target(cnt, act.i) \in Int
    <3>1. act'.i \in Int
      <4>1. 1 < Words(Op)
        BY <1>1, WordsOf
      <4>2. W(1) \in Nat
        BY <1>1, <4>1, OperandWord
      <4> QED BY <1>2, <1>6, <4>2 DEF Signed
    <3> QED BY <1>7, <3>1
  <2> QED BY <1>2, <1>7, <1>9, <2>1, AroundFunction
<1>11. Entered(cnt, r.ret)
  <2>1. Entered(cnt, act.i + 2)
    BY <1>2, <1>8, <1>9, BehindCall
  <2> QED BY <1>4, <2>1, Zenon
<1>12. ASSUME NEW k \in DOMAIN calls PROVE Entered(cnt, calls[k].ret)
  <2>1. CASE k \in DOMAIN act.calls
    BY <1>5, <2>1 DEF CodeInv, Aligned, AlignedIn, cnt
  <2>2. CASE k = Len(act.calls) + 1
    BY <1>5, <1>11, <2>2
  <2> QED BY <1>5, <2>1, <2>2
<1>13. AlignedIn(cnt, act')
  BY <1>6, <1>10, <1>12 DEF AlignedIn
<1>14. act'.top = act.top /\ act'.Vars = act.Vars /\ act.top \in Int
  BY <1>1 DEF Jump, ActivationType, Depths
<1>15. FrameRight(cnt, Here, calls, Len(calls), act'.i, act'.top)
  <2>1. calls[Len(calls)] = r
    BY <1>5
  <2>2. calls[Len(calls)].ret - 2 = act.i /\ calls[Len(calls)].top = act.top
    BY <1>2, <1>4, <2>1
  <2>3. FrameRight(cnt, Here, calls, Len(calls), Aim, act.top)
    BY <1>1, <1>5, <2>2, FunctionOpened
  <2> QED BY <1>7, <1>14, <2>3 DEF Aim
<1>16. ASSUME NEW k \in DOMAIN calls
       PROVE  FrameRight(cnt, Here, calls, k - 1, calls[k].ret - 2, calls[k].top)
  <2>1. PICK p, h : /\ p = calls[k].ret - 2 /\ h = calls[k].top
                    /\ FrameRight(cnt, Here, act.calls, k - 1, p, h)
    <3>1. CASE k \in DOMAIN act.calls
      BY <1>5, <3>1, RunningFrame
    <3>2. CASE k = Len(act.calls) + 1
      <4>1. k - 1 = Len(act.calls) /\ calls[k].ret - 2 = act.i /\ calls[k].top = act.top
        <5>1. calls[k] = r /\ k - 1 = Len(act.calls)
          BY <1>5, <3>2
        <5> QED BY <1>2, <1>4, <5>1
      <4> QED BY <4>1, RunningFrame
    <3> QED BY <1>5, <3>1, <3>2
  <2>2. k - 1 \in Int /\ (k - 1 # 0 => calls[k - 1] = act.calls[k - 1])
    <3>1. k - 1 \in Int /\ (k - 1 # 0 => k - 1 \in DOMAIN act.calls)
      BY <1>5
    <3> QED BY <1>5, <3>1
  <2> QED BY <2>1, <2>2, FrameKept
<1>17. LevelledIn(cnt, Here, act')
  <2>1. Len(calls) <= CallsSize
    <3>1. Len(act.calls) < CallsSize
      BY <1>1, Dispatched DEF IndicesFit
    <3> QED BY <1>5, <3>1, SizesAssumption
  <2> QED BY <1>6, <1>14, <1>15, <1>16, <2>1, RunningFrame DEF LevelledIn
<1> QED BY <1>6, <1>13, <1>17, PlaceSuffices

\* The function that called finds its values again, and the result.
LEMMA FunctionReturned ==
  ASSUME TypeOK, CodeVerified, CodeInv, Fetching, Op = RETFUNC, act.calls # <<>>
  PROVE  LET n == Len(act.calls)
         IN FrameRight(cnt, Here, act.calls, n - 1, act.calls[n].ret, act.top)
<1> DEFINE n == Len(act.calls)
           q == act.calls[n].ret
           p == q - 2
           h == act.calls[n].top
           e == Target(cnt, p)
           f == Floor(cnt, Here, act.calls, n)
           g == Floor(cnt, Here, act.calls, n - 1)
           l == Here
<1>1. act.calls \in Seq(Returns) /\ act.top \in Int
  BY DEF TypeOK, ActivationType, Depths
<1>2. n \in Nat \ {0} /\ n \in DOMAIN act.calls /\ act.calls[n] \in Returns
  BY <1>1
<1>3. q \in Int /\ h \in Int /\ p \in Int /\ q = p + 2 /\ q - 1 = p + 1
  BY <1>2 DEF Returns
<1>4. p \in Starts(cnt) /\ cnt.code[p + 1] = CALLFUNC
  <2>1. Entered(cnt, q)
    BY <1>2 DEF CodeInv, Aligned, AlignedIn, cnt
  <2> HIDE DEF q
  <2> QED BY <1>3, <2>1 DEF Entered
<1>5. /\ Owner(cnt, p) = Opened(cnt, act.calls, n - 1) /\ g \in Nat
      /\ l.at[p] \in Nat /\ h >= g + l.at[p]
  <2>1. FrameRight(cnt, l, act.calls, n - 1, p, h)
    BY <1>2, RunningFrame
  <2> QED BY <1>4, <2>1 DEF FrameRight
<1>6. CallsRight(cnt, l, p, e)
  <2> HIDE DEF p
  <2> QED BY <1>4, <1>5, RunningBalanced, StepOf
<1>7. Opened(cnt, act.calls, n) = e
  BY <1>2 DEF Opened
<1>8. /\ Owner(cnt, act.i) = e /\ l.at[act.i] \in Nat /\ f \in Nat
      /\ act.top >= f + l.at[act.i]
  BY <1>7, RunningFrame, FetchedAt DEF FrameRight
<1>9. l.at[act.i] >= l.gives[e]
  BY <1>8, StepHere
<1>10. f = IF e \in l.lost THEN 0 ELSE h - l.at[e]
  BY <1>2, <1>7 DEF Floor
<1>11. e \in l.lost => g = 0
  BY <1>5, <1>6 DEF CallsRight, Floor
<1>12. /\ l.gives[e] \in Nat /\ l.at[e] \in 0..l.at[p]
       /\ Owner(cnt, p + 2) = Owner(cnt, p)
       /\ p + 2 \in Starts(cnt) =>
            l.at[p + 2] \in 0..l.gives[e] + IF e \in l.lost THEN 0 ELSE l.at[p] - l.at[e]
  BY <1>6 DEF CallsRight, Leads
<1> HIDE DEF n, q, p, h, e, f, g, l
<1>13. p + 2 \in Starts(cnt) => l.at[p + 2] \in Nat /\ act.top >= g + l.at[p + 2]
  <2> SUFFICES ASSUME p + 2 \in Starts(cnt)
               PROVE  l.at[p + 2] \in Nat /\ act.top >= g + l.at[p + 2]
    OBVIOUS
  <2> DEFINE x == l.at[p + 2]
             v == l.gives[e]
             d == l.at[act.i]
             b == l.at[p]
             m == l.at[e]
             t == act.top
  <2>1. /\ t \in Int /\ h \in Int /\ f \in Nat /\ g \in Nat /\ v \in Nat /\ d \in Nat
        /\ b \in Nat /\ m \in 0..b /\ t >= f + d /\ d >= v /\ h >= g + b
    BY <1>1, <1>3, <1>5, <1>8, <1>9, <1>12
  <2>2. \/ x \in 0..v + 0 /\ g = 0
        \/ x \in 0..v + (b - m) /\ f = h - m
    BY <1>10, <1>11, <1>12
  <2> HIDE DEF x, v, d, b, m, t
  <2>3. x \in Nat /\ t >= g + x
    BY <2>1, <2>2
  <2> QED BY <2>3 DEF x, t
<1>14. FrameRight(cnt, l, act.calls, n - 1, q, act.top)
  <2>1. Owner(cnt, q) = Opened(cnt, act.calls, n - 1) /\ g \in Nat
    BY <1>3, <1>5, <1>12
  <2>2. q \in Starts(cnt) => l.at[q] \in Nat /\ act.top >= g + l.at[q]
    BY <1>3, <1>13, Zenon
  <2> QED BY <2>1, <2>2, Zenon DEF FrameRight, g, l
<1> QED BY <1>14 DEF n, q, l

\* A return leads behind the call.
LEMMA RetFuncAligned ==
  ASSUME TypeOK, CodeVerified, CodeInv, RetFunc
  PROVE  CodeInv'
<1> DEFINE n == Len(act.calls)
           calls == SubSeq(act.calls, 1, n - 1)
<1>1. /\ Dispatch({RETFUNC}) /\ Fetching /\ act \in ActivationType /\ act.calls # <<>>
      /\ act' = [act EXCEPT !.i = act.calls[n].ret, !.gas = act.gas + 1, !.calls = calls]
      /\ UNCHANGED <<prog, callers>>
  <2>1. Dispatch({RETFUNC}) /\ Op = RETFUNC
    BY Dispatched DEF RetFunc
  <2>2. act \in ActivationType /\ act.calls # <<>> /\ Fetching
    BY <2>1, Dispatched DEF IndicesFit
  <2> QED BY <2>1, <2>2 DEF RetFunc, ActivationType
<1>2. act.calls \in Seq(Returns)
  BY <1>1 DEF ActivationType
<1>3. /\ act.calls[n] \in Returns /\ n \in Nat \ {0} /\ calls \in Seq(Returns)
      /\ Len(calls) = n - 1 /\ \A k \in 1..n - 1 : calls[k] = act.calls[k]
  BY <1>1, <1>2, CallersSplit
<1>4. /\ n \in DOMAIN act.calls
      /\ \A k \in DOMAIN calls : k \in DOMAIN act.calls /\ calls[k] = act.calls[k]
  BY <1>2, <1>3
<1> HIDE DEF n, calls
<1>5. \A k \in DOMAIN act.calls : Entered(cnt, act.calls[k].ret)
  BY DEF CodeInv, Aligned, AlignedIn, cnt
<1>6. act'.cnt = act.cnt /\ act'.calls = calls /\ act'.i = act.calls[n].ret
  BY <1>1 DEF ActivationType
<1>7. act'.i \in Ends(cnt)
  <2>1. cnt \in Contract /\ Packed(cnt) /\ Verified(cnt)
    BY <1>1, FetchedAt
  <2>2. act.calls[n].ret \in Int
    BY <1>3 DEF Returns
  <2> QED BY <1>4, <1>5, <1>6, <2>1, <2>2, AroundFunction
<1>8. AlignedIn(cnt, act')
  BY <1>4, <1>5, <1>6, <1>7 DEF AlignedIn
<1>9. act'.top = act.top /\ act'.Vars = act.Vars /\ n = Len(act.calls)
  BY <1>1 DEF ActivationType, n
<1>10. Op = RETFUNC
  BY <1>1, Dispatched
<1>11. FrameRight(cnt, Here, calls, Len(calls), act'.i, act'.top)
  <2>1. FrameRight(cnt, Here, act.calls, n - 1, act'.i, act'.top)
    BY <1>1, <1>3, <1>6, <1>9, <1>10, FunctionReturned
  <2>2. n - 1 \in Int /\ (n - 1 # 0 => calls[n - 1] = act.calls[n - 1])
    BY <1>3
  <2> QED BY <1>3, <2>1, <2>2, FrameKept
<1>12. ASSUME NEW k \in DOMAIN calls
       PROVE  FrameRight(cnt, Here, calls, k - 1, calls[k].ret - 2, calls[k].top)
  <2>1. FrameRight(cnt, Here, act.calls, k - 1, calls[k].ret - 2, calls[k].top)
    BY <1>4, RunningFrame
  <2>2. k - 1 \in Int /\ (k - 1 # 0 => calls[k - 1] = act.calls[k - 1])
    BY <1>3
  <2> QED BY <2>1, <2>2, FrameKept
<1>13. LevelledIn(cnt, Here, act')
  <2>1. Len(calls) <= CallsSize
    <3>1. n <= CallsSize
      BY <1>9, RunningFrame
    <3> QED BY <1>3, <3>1, SizesAssumption
  <2> QED BY <1>6, <1>9, <1>11, <1>12, <2>1, RunningFrame DEF LevelledIn
<1> QED BY <1>1, <1>6, <1>8, <1>13, PlaceSuffices

\* A contract begins with as many variables as it has, at its first instruction, with
\* an empty stack.
LEMMA BeginLevelled ==
  ASSUME NEW c \in Contract, NEW g, NEW l, Balanced(g, c, l), NEW at, NEW a,
         a.Vars = NewVars(c, at), a.calls = <<>>, a.i = CodeStart(c), a.top = 0
  PROVE  LevelledIn(c, l, a)
<1>1. Len(a.Vars) = Variables(c)
  <2>1. Variables(c) \in Nat
    BY SlotsType DEF Variables
  <2> QED BY <2>1 DEF NewVars, Variables
<1>2. Opened(c, <<>>, 0) = Main /\ Floor(c, l, <<>>, 0) = 0
  BY DEF Opened, Floor
<1>3. FrameRight(c, l, <<>>, 0, CodeStart(c), 0)
  BY <1>2 DEF Balanced, Leads, FrameRight
<1>4. Len(a.calls) = 0 /\ DOMAIN a.calls = {}
  OBVIOUS
<1>5. FrameRight(c, l, a.calls, Len(a.calls), a.i, a.top)
  BY <1>3, <1>4
<1>6. Len(a.calls) <= CallsSize
  BY <1>4, SizesAssumption
<1> QED BY <1>1, <1>4, <1>5, <1>6 DEF LevelledIn

\* A called contract begins at its first instruction; its caller waits behind the call.
LEMMA CallContractAligned ==
  ASSUME TypeOK, CodeVerified, CodeInv, CallContract
  PROVE  CodeInv'
<1> DEFINE a == [act EXCEPT !.top = act.top + 1, !.gas = act.gas + 1, !.i = act.i + 2]
           c == W(1) + 1
<1>1. /\ Dispatch({CALLCONTRACT}) /\ Op = CALLCONTRACT /\ Fetching /\ act \in ActivationType
      /\ callers' = Append(callers, a) /\ act' = Activation(c, act.pars, Remaining, Mark)
      /\ UNCHANGED prog
  <2>1. Dispatch({CALLCONTRACT}) /\ Op = CALLCONTRACT
    BY Dispatched DEF CallContract
  <2>2. act \in ActivationType /\ Fetching
    BY <2>1, Dispatched
  <2> QED BY <2>1, <2>2 DEF CallContract, ActivationType
<1>2. /\ act'.cnt = c /\ act'.i = CodeStart(prog.contracts[c]) /\ act'.calls = <<>>
      /\ act'.top = 0 /\ act'.Vars = NewVars(prog.contracts[c], Mark)
  BY <1>1 DEF Activation
<1>3. /\ a.cnt = act.cnt /\ a.i = act.i + 2 /\ a.calls = act.calls
      /\ a.top = act.top + 1 /\ a.Vars = act.Vars
  BY <1>1 DEF ActivationType
<1> HIDE DEF c
<1>4. act'.cnt \in DOMAIN prog.contracts
  <2>1. PICK b : b = [act EXCEPT !.top = act.top + 1, !.gas = act.gas + 1, !.i = act.i + 2]
    OBVIOUS
  <2> QED BY <2>1, CallContractStep, Zenon
<1> HIDE DEF a
<1>5. Aligned(act)'
  <2> DEFINE d == prog.contracts[c]
  <2>1. d \in Contract /\ Packed(d) /\ Balanced(prog, d, Levels(prog, d))
    BY <1>2, <1>4, VerifiedContract
  <2>2. AlignedIn(d, act')
    BY <1>2, <2>1, StartsType DEF AlignedIn
  <2>3. LevelledIn(d, Levels(prog, d), act')
    BY <1>2, <2>1, BeginLevelled
  <2> QED BY <1>1, <1>2, <2>2, <2>3 DEF Aligned
<1>6. Aligned(a)
  <2>1. Words(Op) = 2
    BY <1>1, WordsOf
  <2>2. a.i \in Ends(cnt)
    BY <1>1, <1>3, <2>1, FetchedAt
  <2>3. AlignedIn(cnt, a)
    BY <1>3, <2>2 DEF CodeInv, Aligned, AlignedIn, cnt
  <2>4. Takes(prog, Op, W(1)) = 0 /\ Leaves(prog, Op, W(1)) = 1 /\ Op \notin Turns
    BY <1>1, TakesOf, LeavesOf
    DEF Turns, CALLCONTRACT, RETURN, JMP, JMPREL, JZE, JNZ, CALLFUNC, RETFUNC
  <2>5. Leads(cnt, Here, act.i + 2, Owner(cnt, act.i), Here.at[act.i] + 1)
    <3>1. /\ Here.at[act.i] \in Nat
          /\ Leads(cnt, Here, act.i + Words(Op), Owner(cnt, act.i),
                   Here.at[act.i] - Takes(prog, Op, W(1)) + Leaves(prog, Op, W(1)))
      BY <1>1, <2>4, StepHere, Zenon
    <3>2. Here.at[act.i] - 0 + 1 = Here.at[act.i] + 1
      BY <3>1
    <3> QED BY <2>1, <2>4, <3>1, <3>2
  <2>6. act.i \in Starts(cnt) /\ act.top \in Int
    BY <1>1, FetchedAt DEF ActivationType, Depths
  <2>7. FrameRight(cnt, Here, act.calls, Len(act.calls), act.i + 2, act.top + 1)
    BY <2>5, <2>6, RunningFrame, FrameLed
  <2>8. LevelledIn(cnt, Here, a)
    BY <1>3, <2>7, RunningFrame DEF LevelledIn
  <2> QED BY <1>3, <2>3, <2>8 DEF Aligned, Here, cnt
<1>7. callers \in Seq(ActivationType)
  BY DEF TypeOK
<1>8. ASSUME NEW k \in DOMAIN callers' PROVE Aligned(callers'[k])
  <2>1. CASE k \in DOMAIN callers
    <3>1. callers'[k] = callers[k]
      BY <1>1, <1>7, <2>1
    <3> QED BY <2>1, <3>1 DEF CodeInv
  <2>2. CASE k \notin DOMAIN callers
    <3>1. callers'[k] = a
      BY <1>1, <1>7, <1>8, <2>2
    <3> QED BY <1>6, <3>1
  <2> QED BY <2>1, <2>2
<1> QED BY <1>1, <1>5, <1>8 DEF CodeInv, Aligned

\* The caller as it goes on stands where it waited.
LEMMA ResumedPlace ==
  ASSUME TypeOK, callers # <<>>, NEW gas
  PROVE  /\ Caller \in ActivationType /\ "stack" \in DOMAIN Resumed(gas)
         /\ Resumed(gas).cnt = Caller.cnt /\ Resumed(gas).i = Caller.i
         /\ Resumed(gas).calls = Caller.calls /\ Resumed(gas).top = Caller.top
         /\ Resumed(gas).Vars = Caller.Vars
<1>1. Caller \in ActivationType
  BY SuspendedType
<1> QED BY <1>1 DEF Resumed, ActivationType

\* A contract is left, whichever way: its caller goes on behind the call.
LEMMA ReturnAligned ==
  ASSUME TypeOK, CodeInv, callers # <<>>, callers' = Suspended, UNCHANGED prog,
         act'.cnt = Caller.cnt, act'.i = Caller.i, act'.calls = Caller.calls,
         act'.top = Caller.top, act'.Vars = Caller.Vars
  PROVE  CodeInv'
<1>1. callers \in Seq(ActivationType)
  BY DEF TypeOK
<1>2. /\ Len(callers) \in Nat \ {0} /\ Len(Suspended) = Len(callers) - 1
      /\ Suspended \in Seq(ActivationType)
      /\ \A k \in 1..Len(callers) - 1 : Suspended[k] = callers[k]
  BY <1>1, CallersSplit DEF Suspended
<1>3. /\ Caller = callers[Len(callers)] /\ Len(callers) \in DOMAIN callers
      /\ \A k \in DOMAIN Suspended : k \in DOMAIN callers /\ Suspended[k] = callers[k]
  BY <1>1, <1>2 DEF Caller
<1>4. Aligned(Caller) /\ \A k \in DOMAIN Suspended : Aligned(Suspended[k])
  BY <1>3 DEF CodeInv
<1>5. Aligned(act)'
  <2>1. AlignedIn(prog.contracts[Caller.cnt], act')
    BY <1>4 DEF Aligned, AlignedIn
  <2>2. LevelledIn(prog.contracts[Caller.cnt], Levels(prog, prog.contracts[Caller.cnt]), act')
    BY <1>4 DEF Aligned, LevelledIn
  <2> QED BY <2>1, <2>2 DEF Aligned
<1> QED BY <1>4, <1>5 DEF CodeInv, Aligned

\* A step that leaves the activations where they are.
LEMMA SamePlaceAligned ==
  ASSUME CodeInv, UNCHANGED <<prog, callers>>,
         act'.cnt = act.cnt, act'.i = act.i, act'.calls = act.calls, act'.top = act.top,
         act'.Vars = act.Vars
  PROVE  CodeInv'
<1>1. AlignedIn(cnt, act')
  BY DEF CodeInv, Aligned, AlignedIn, cnt
<1>2. LevelledIn(cnt, Here, act')
  BY DEF CodeInv, Aligned, LevelledIn, Here, cnt
<1> QED BY <1>1, <1>2, PlaceSuffices

\* RETURN, and the end of the code.
LEMMA LeaveAligned ==
  ASSUME TypeOK, CodeInv, NEW text, NEW gas, Leave(text, gas)
  PROVE  CodeInv'
<1>1. CASE callers = <<>>
  <2>1. act' = [act EXCEPT !.gas = gas] /\ UNCHANGED <<prog, callers>> /\ act \in ActivationType
    BY <1>1 DEF Leave, TypeOK
  <2>2. /\ act'.cnt = act.cnt /\ act'.i = act.i /\ act'.calls = act.calls
        /\ act'.top = act.top /\ act'.Vars = act.Vars
    BY <2>1 DEF ActivationType
  <2> QED BY <2>1, <2>2, SamePlaceAligned
<1>2. CASE callers # <<>>
  <2>1. PICK v : /\ act' = [Resumed(gas) EXCEPT !.stack[Caller.top] = v]
                 /\ callers' = Suspended /\ UNCHANGED prog
    BY <1>2 DEF Leave
  <2> DEFINE r == Resumed(gas)
  <2>2. /\ r.cnt = Caller.cnt /\ r.i = Caller.i /\ r.calls = Caller.calls
        /\ r.top = Caller.top /\ r.Vars = Caller.Vars
    BY <1>2, ResumedPlace
  <2>3. act' = [r EXCEPT !.stack[Caller.top] = v]
    BY <2>1
  <2> HIDE DEF r
  <2>4. /\ act'.cnt = Caller.cnt /\ act'.i = Caller.i /\ act'.calls = Caller.calls
        /\ act'.top = Caller.top /\ act'.Vars = Caller.Vars
    BY <2>2, <2>3
  <2> QED BY <1>2, <2>1, <2>4, ReturnAligned
<1> QED BY <1>1, <1>2

\* Errors, on their way through the callers.
LEMMA ErrorsAligned ==
  ASSUME TypeOK, CodeInv, Errors
  PROVE  CodeInv'
<1>1. act \in ActivationType
  BY DEF TypeOK
<1>2. ASSUME NEW kind, NEW gas, Abort(kind, gas) PROVE CodeInv'
  <2>1. /\ act'.cnt = act.cnt /\ act'.i = act.i /\ act'.calls = act.calls
        /\ act'.top = act.top /\ act'.Vars = act.Vars /\ UNCHANGED <<prog, callers>>
    BY <1>1, <1>2 DEF Abort, ActivationType
  <2> QED BY <2>1, SamePlaceAligned
<1>3. CASE OutOfGas \/ Fail \/ HostError \/ DecodeError
  BY <1>2, <1>3, Zenon DEF OutOfGas, Fail, HostError, DecodeError
<1>4. CASE Unwind
  <2>1. callers # <<>> /\ act' = Resumed(act.gas) /\ callers' = Suspended /\ UNCHANGED prog
    BY <1>4 DEF Unwind, TypeOK
  <2>2. /\ act'.cnt = Caller.cnt /\ act'.i = Caller.i /\ act'.calls = Caller.calls
        /\ act'.top = Caller.top /\ act'.Vars = Caller.Vars
    BY <2>1, ResumedPlace
  <2> QED BY <2>1, <2>2, ReturnAligned
<1>5. CASE GoPanic
  <2>1. UNCHANGED <<prog, callers, act>>
    BY <1>5 DEF GoPanic
  <2> QED BY <2>1, SamePlaceAligned
<1> QED BY <1>3, <1>4, <1>5, Zenon DEF Errors

\* Every step.
LEMMA NextAligned ==
  ASSUME TypeOK, CodeVerified, CodeInv, [Next]_vars
  PROVE  CodeInv'
<1>1. CASE Straight
  BY <1>1, StraightOnward, StraightOps, OnwardAligned
<1>2. CASE Jumping /\ ~GetParams
  BY <1>2, JumpingAligned, CallFuncAligned, RetFuncAligned, Zenon DEF Jumping
<1>3. CASE CallContract
  BY <1>3, CallContractAligned
<1>4. CASE Return \/ FallOff
  BY <1>4, LeaveAligned, Zenon DEF Return, FallOff
<1>5. CASE Errors
  BY <1>5, ErrorsAligned
<1>6. CASE Finished \/ UNCHANGED vars
  <2>1. UNCHANGED <<prog, callers, act>>
    BY <1>6 DEF Finished, vars
  <2> QED BY <2>1, SamePlaceAligned
<1> QED BY <1>1, <1>2, <1>3, <1>4, <1>5, <1>6, Zenon DEF Next, Straight, Jumping, Contracts

\* No step changes the contracts.
LEMMA SameContracts ==
  ASSUME TypeOK, [Next]_vars
  PROVE  prog' = prog
<1>1. CASE Straight
  BY <1>1, StraightOnward DEF Onward, Ahead
<1>2. CASE Jumping
  BY <1>2, LocalStep DEF Local
<1>3. CASE CallContract
  BY <1>3 DEF CallContract
<1>4. CASE Return \/ FallOff
  BY <1>4, Zenon DEF Return, FallOff, Leave
<1>5. CASE Errors
  BY <1>5, Zenon DEF Errors, OutOfGas, Fail, HostError, DecodeError, Unwind, GoPanic, Abort
<1>6. CASE Finished \/ UNCHANGED vars
  BY <1>6 DEF Finished, vars
<1> QED BY <1>1, <1>2, <1>3, <1>4, <1>5, <1>6, Zenon DEF Next, Straight, Jumping, Contracts

-----------------------------------------------------------------------------
(***************************************************************************)
(* What that gives.                                                        *)
(***************************************************************************)

\* The invariant: of verified contracts the activations stay aligned.
CodeIInv == IInv /\ (CodeVerified => CodeInv)

\* A run begins at the first instruction of its main contract.
LEMMA InitAligned ==
  ASSUME Init, CodeVerified
  PROVE  CodeInv
<1>1. Linked(prog)
  BY ProgramsAssumption DEF Init
<1>2. /\ act = Activation(prog.main, prog.params, prog.gas, Base) /\ callers = <<>>
  BY DEF Init, Begin
<1>3. /\ act.cnt = prog.main /\ act.i = CodeStart(prog.contracts[prog.main])
      /\ act.calls = <<>> /\ act.top = 0 /\ act.Vars = NewVars(prog.contracts[prog.main], Base)
  BY <1>2 DEF Activation
<1>4. prog.contracts[prog.main] \in Contract /\ Packed(prog.contracts[prog.main])
  BY <1>1 DEF Linked, Program
<1> DEFINE c == prog.contracts[prog.main]
<1>5. Balanced(prog, c, Levels(prog, c))
  <2>1. prog.main \in DOMAIN prog.contracts
    BY <1>1 DEF Linked
  <2> QED BY <2>1 DEF CodeVerified
<1>6. AlignedIn(c, act)
  BY <1>3, <1>4, StartsType DEF AlignedIn
<1>7. LevelledIn(c, Levels(prog, c), act)
  BY <1>3, <1>4, <1>5, BeginLevelled
<1> QED BY <1>2, <1>3, <1>6, <1>7 DEF CodeInv, Aligned

\* Every step keeps it.
LEMMA CodeNext ==
  ASSUME CodeIInv, [Next]_vars
  PROVE  CodeIInv'
<1>1. IInv' /\ TypeOK
  BY NextInv DEF CodeIInv, IInv
<1>2. CodeVerified' => CodeVerified
  BY <1>1, SameContracts DEF CodeVerified
<1> QED BY <1>1, <1>2, NextAligned DEF CodeIInv

\* It holds in every run of every linked contract.
THEOREM AlignedAlways == Spec => []CodeIInv
<1>1. Init => CodeIInv
  BY InitInv, InitAligned DEF CodeIInv
<1>2. CodeIInv /\ [Next]_vars => CodeIInv'
  BY CodeNext
<1> QED BY <1>1, <1>2, PTL DEF Spec

\* The interpreter never takes an operand for an opcode: in every run of contracts
\* whose code is verified it stands at an instruction or at the end of the code.
THEOREM InstructionsAligned == Spec => [](CodeVerified => InstructionAligned)
<1>1. CodeIInv => (CodeVerified => InstructionAligned)
  BY DEF CodeIInv, CodeInv, Aligned, AlignedIn, InstructionAligned, cnt
<1> QED BY <1>1, AlignedAlways, PTL

\* A function of such a contract is entered at its beginning only, and returns behind
\* the call that entered it.
THEOREM CallsEnter == Spec => [](CodeVerified => CallsEnterFunctions)
<1>1. CodeIInv => (CodeVerified => CallsEnterFunctions)
  BY DEF CodeIInv, CodeInv, Aligned, AlignedIn, CallsEnterFunctions, cnt
<1> QED BY <1>1, AlignedAlways, PTL

InsideCode == status = "running" =>
  act.i >= 0 /\ (act.i < Len(cnt.code) => act.i + Words(Op) <= Len(cnt.code))

\* The interpreter never leaves such code: it does not run off in front of it, and
\* the operands of each instruction it fetches lie inside.
THEOREM CodeNeverLeft == Spec => [](CodeVerified => InsideCode)
<1>1. CodeIInv => (CodeVerified => InsideCode)
  <2> SUFFICES ASSUME CodeIInv, CodeVerified, status = "running"
               PROVE  act.i >= 0 /\ (act.i < Len(cnt.code) => act.i + Words(Op) <= Len(cnt.code))
    BY DEF InsideCode
  <2>1. TypeOK /\ CodeInv
    BY DEF CodeIInv, IInv
  <2>2. cnt \in Contract /\ Packed(cnt) /\ Len(cnt.code) \in Nat
    BY <2>1, RunningContract
  <2>3. act.i \in Ends(cnt)
    BY <2>1 DEF CodeInv, Aligned, AlignedIn, cnt
  <2>4. act.i \in 0..Len(cnt.code)
    BY <2>2, <2>3, StartsType DEF Ends
  <2>5. ASSUME act.i < Len(cnt.code) PROVE act.i + Words(Op) <= Len(cnt.code)
    <3>1. Fetching
      BY <2>2, <2>4, <2>5 DEF Fetching
    <3> QED BY <2>1, <3>1, FetchedAt
  <2> QED BY <2>4, <2>5
<1> QED BY <1>1, AlignedAlways, PTL

\* What Takes says of an opcode is what the code of the interpreter reads.
LEMMA TakesOperands ==
  ASSUME TypeOK, CodeVerified, CodeInv, Fetching
  PROVE  Takes(prog, Op, W(1)) = Len(Operands(Op))
<1>1. Op \in {GETPARAMS, INITARR, INITMAP, INITOBJ, INITOBJLIST} => W(1) \in Nat
  BY CountType
<1>2. Op \in {GETPARAMS, INITARR, INITMAP, INITOBJ, INITOBJLIST}
      => Takes(prog, Op, W(1)) = Len(Operands(Op))
  <2> DEFINE w == W(1)
  <2>1. w \in Nat =>
          /\ Len([k \in 1..w |-> "any"]) = w
          /\ Len([k \in 1..2 * w |-> "any"]) = 2 * w
          /\ Len([k \in 1..2 * w |-> IF k % 2 = 1 THEN "str" ELSE "any"]) = 2 * w
          /\ Len([k \in 1..3 * w |-> IF k % 3 = 1 THEN "str" ELSE "any"]) = 3 * w
    <3> SUFFICES ASSUME w \in Nat
                 PROVE  /\ Len([k \in 1..w |-> "any"]) = w
                        /\ Len([k \in 1..2 * w |-> "any"]) = 2 * w
                        /\ Len([k \in 1..2 * w |-> IF k % 2 = 1 THEN "str" ELSE "any"]) = 2 * w
                        /\ Len([k \in 1..3 * w |-> IF k % 3 = 1 THEN "str" ELSE "any"]) = 3 * w
      OBVIOUS
    <3> DEFINE w2 == 2 * w
               w3 == 3 * w
    <3> HIDE DEF w
    <3>1. w2 \in Nat /\ w3 \in Nat
      OBVIOUS
    <3> HIDE DEF w2, w3
    <3>2. /\ Len([k \in 1..w |-> "any"]) = w
          /\ Len([k \in 1..w2 |-> "any"]) = w2
          /\ Len([k \in 1..w2 |-> IF k % 2 = 1 THEN "str" ELSE "any"]) = w2
          /\ Len([k \in 1..w3 |-> IF k % 3 = 1 THEN "str" ELSE "any"]) = w3
      BY <3>1
    <3> QED BY <3>2 DEF w2, w3
  <2>2. CASE Op \in {GETPARAMS, INITARR}
    BY <1>1, <2>1, <2>2, TakesOf, OperandsOf
  <2>3. CASE Op = INITMAP
    BY <1>1, <2>1, <2>3, TakesOf, OperandsOf
  <2>4. CASE Op = INITOBJ
    BY <1>1, <2>1, <2>4, TakesOf, OperandsOf
  <2>5. CASE Op = INITOBJLIST
    BY <1>1, <2>1, <2>5, TakesOf, OperandsOf
  <2> QED BY <2>2, <2>3, <2>4, <2>5
<1>3. Op = CUSTOMFUNC => Takes(prog, Op, W(1)) = Len(Operands(Op))
  <2> SUFFICES ASSUME Op = CUSTOMFUNC PROVE Takes(prog, Op, W(1)) = Len(Operands(Op))
    OBVIOUS
  <2>1. Operands(Op) = [k \in 1..HostArgs |-> HostSort(HostFunc.params[k])]
    BY OperandsOf DEF HostArgs
  <2>2. HostArgs \in Nat /\ Takes(prog, Op, W(1)) = HostArgs
    <3>1. W(1) \in Nat /\ W(1) < Len(prog.funcs)
      BY CountType, FetchedTables DEF Known
    <3> QED BY <3>1, HostFuncType, TakesOf DEF HostArgs
  <2> HIDE DEF HostArgs, HostFunc
  <2> QED BY <2>1, <2>2
<1>4. Op = EMBEDFUNC => Takes(prog, Op, W(1)) = Len(Operands(Op))
  BY TakesOf, OperandsOf
<1> DEFINE Two == IntBinary \cup IntDivide \cup IntAssign \cup IntAssignDivide \cup MoneyBinary
                    \cup MoneyCompare \cup MoneyAssign
                    \cup {ASSIGNINT, ASSIGNSTR, ADDSTR, EQSTR, ASSIGNADDSTR, ASSIGNADDBYTES,
                          APPENDARR, GETINDEX, SETINDEX, GETMAP}
           One == {DUP, JZE, JNZ, SIGNINT, NOT, SETMAP, RETURN, SIGNMONEY, COPYSTR, COPY,
                   PARCONTRACT, OBJ2LIST}
           Three == {ASSIGNSETMAP, ASSIGNSETARR, ASSIGNSETBYTES}
<1>5. Op \in Two => Takes(prog, Op, W(1)) = Len(Operands(Op))
  <2>1. Op \in Two => Len(Operands(Op)) = 2
    BY OperandsOf
  <2> QED BY <2>1, TakesOf
<1>6. Op \in One => Takes(prog, Op, W(1)) = Len(Operands(Op))
  <2>1. Op \in One => Len(Operands(Op)) = 1
    BY OperandsOf
  <2> QED BY <2>1, TakesOf
<1>7. Op \in Three => Takes(prog, Op, W(1)) = Len(Operands(Op))
  <2>1. Op \in Three => Len(Operands(Op)) = 3
    BY OperandsOf
  <2> QED BY <2>1, TakesOf
<1>8. CASE /\ Op \notin {GETPARAMS, INITARR, INITMAP, INITOBJ, INITOBJLIST}
           /\ Op \notin {CUSTOMFUNC, EMBEDFUNC}
           /\ Op \notin Two /\ Op \notin One /\ Op \notin Three
  <2>1. Takes(prog, Op, W(1)) = 0
    BY <1>8 DEF Takes
  <2>2. Operands(Op) = <<>>
    BY <1>8 DEF Operands, Demands
  <2> QED BY <2>1, <2>2
<1> HIDE DEF Two, One, Three
<1> QED BY <1>2, <1>3, <1>4, <1>5, <1>6, <1>7, <1>8

\* In every run of verified code a function runs in its own body, called from the body
\* of the one that called it.
THEOREM NestedCalls == Spec => [](CodeVerified => CallsNested)
<1>1. CodeIInv => (CodeVerified => CallsNested)
  <2> SUFFICES ASSUME CodeIInv, CodeVerified PROVE CallsNested
    OBVIOUS
  <2>1. TypeOK /\ CodeInv
    BY DEF CodeIInv, IInv
  <2> QED BY <2>1, RunningFrame DEF CallsNested, FrameRight
<1> QED BY <1>1, AlignedAlways, PTL

\* The current instruction finds its operands.
LEMMA OperandsHere ==
  ASSUME TypeOK, CodeVerified, CodeInv, Fetching
  PROVE  act.top \in Int /\ Len(Operands(Op)) \in Nat /\ act.top >= Len(Operands(Op))
<1> DEFINE t == Takes(prog, Op, W(1))
           f == Floor(cnt, Here, act.calls, Len(act.calls))
<1>1. Here.at[act.i] \in Nat /\ Here.at[act.i] - t >= 0
  BY StepHere
<1>2. f \in Nat /\ act.top >= f + Here.at[act.i]
  BY RunningFrame, FetchedAt DEF FrameRight
<1>3. t \in Nat /\ t = Len(Operands(Op))
  BY GainType, TakesOperands
<1>4. act.top \in Int
  BY DEF TypeOK, ActivationType, Depths
<1> HIDE DEF t, f
<1>5. act.top >= t
  BY <1>1, <1>2, <1>3, <1>4
<1> QED BY <1>3, <1>4, <1>5

\* The tables it looks into are long enough; the stack of calls may be full.
LEMMA TablesHere ==
  ASSUME TypeOK, CodeVerified, CodeInv, Fetching
  PROVE  Known /\ (Op = CALLFUNC \/ IndicesFit)
<1>1. Known /\ (Op \notin {CALLFUNC, RETFUNC} => IndicesFit)
  BY FetchedTables
<1>2. ASSUME Op = RETFUNC PROVE IndicesFit
  <2>1. Owner(cnt, act.i) # Main /\ Owner(cnt, act.i) = Opened(cnt, act.calls, Len(act.calls))
    BY <1>2, StepHere, RunningFrame DEF FrameRight
  <2>2. Len(act.calls) # 0
    BY <2>1 DEF Opened
  <2>3. act.calls # <<>>
    BY <2>2
  <2> QED BY <1>2, <2>3
      DEF IndicesFit, RETFUNC, GETVAR, SETVAR, GETPARAMS, PUSHSTR, CALLFUNC, ENV, CALLCONTRACT
<1> QED BY <1>1, <1>2

\* Each of its instructions finds the operands it takes.
THEOREM OperandsFound == Spec => [](CodeVerified => OperandsPresent)
<1>1. CodeIInv => (CodeVerified => OperandsPresent)
  <2> SUFFICES ASSUME CodeIInv, CodeVerified, Fetching PROVE act.top >= Len(Operands(Op))
    BY DEF OperandsPresent
  <2>1. TypeOK /\ CodeInv
    BY DEF CodeIInv, IInv
  <2> QED BY <2>1, OperandsHere
<1> QED BY <1>1, AlignedAlways, PTL

\* The variables, literals, functions, contracts and entries of the environment its
\* words name are there, and a function returns only when one was called.
THEOREM TablesFound == Spec => [](CodeVerified => TablesReached)
<1>1. CodeIInv => (CodeVerified => TablesReached)
  <2> SUFFICES ASSUME CodeIInv, CodeVerified, Fetching
               PROVE  Known /\ (Op = CALLFUNC \/ IndicesFit)
    BY DEF TablesReached
  <2>1. TypeOK /\ CodeInv
    BY DEF CodeIInv, IInv
  <2> QED BY <2>1, TablesHere
<1> QED BY <1>1, AlignedAlways, PTL

\* Whether the values fit is a question of the contract, the activation and the heap.
LEMMA ValuesKept ==
  ASSUME UNCHANGED <<prog, act, Strings, Objects>>
  PROVE  ValuesFit' = ValuesFit
<1>1. /\ Op' = Op /\ CopiedType' = CopiedType
      /\ \A k : W(k)' = W(k) /\ Cell(k)' = Cell(k)
  BY DEF Op, W, Cell, CopiedType, cnt
<1>2. \A v : String(v)' = String(v) /\ Obj(v)' = Obj(v)
  BY DEF String, Obj
<1>3. \A v, sort : Fits(v, sort)' = Fits(v, sort)
  BY DEF Fits, IsString, IsObject, IsAddress, IsKind, Pointed, Obj
<1>4. \A op : Operands(op)' = Operands(op)
  BY <1>1 DEF Operands, Demands
<1>5. \A v, sort : ElementsFit(v, sort)' = ElementsFit(v, sort)
  BY <1>2, <1>3 DEF ElementsFit
<1>6. \A k, w : TakenFits(k, w)' = TakenFits(k, w)
  BY <1>1, <1>3, <1>5 DEF TakenFits, Taken, TakenType
<1>7. SubstrRefused' = SubstrRefused /\ SubstrFrom' = SubstrFrom /\ SubstrTo' = SubstrTo
  BY <1>1, <1>2 DEF SubstrRefused, SubstrFrom, SubstrTo, SubstrLen
<1>8. ItemsFit' = ItemsFit
  BY <1>1, <1>2, <1>3, <1>5, <1>6, <1>7 DEF ItemsFit
<1> QED BY <1>1, <1>3, <1>4, <1>8 DEF ValuesFit

\* Where the code panics, if its values are what it takes them for: at an instruction
\* that finds the stack of operands or the stack of calls full.
Full == /\ act.i \in 0..Len(cnt.code) - 1
        /\ \/ Pushes(Op) /\ act.top + 1 = StackSize
           \/ Op = CALLFUNC /\ Len(act.calls) = CallsSize
PanicInv == status = "panic" => ~ValuesFit \/ Full

\* A panic is the work of GoPanic.
LEMMA PanicStep ==
  ASSUME TypeOK, [Next]_vars, status' = "panic"
  PROVE  GoPanic \/ UNCHANGED vars
<1>1. CASE Straight \/ Jumping
  <2>1. CASE ParContract
    BY <2>1 DEF ParContract, Proceed, Dispatch, Paid, Fetching
  <2>2. CASE ~ParContract
    <3>1. Local
      BY <1>1, <2>2, LocalStep, Zenon DEF Straight, Jumping
    <3>2. status = "running" /\ status' = status
      BY <3>1 DEF Local
    <3> QED BY <3>2
  <2> QED BY <2>1, <2>2
<1>2. CASE CallContract
  BY <1>2 DEF CallContract, Dispatch, Paid, Fetching
<1>3. CASE Return \/ FallOff
  <2>1. ASSUME NEW text, NEW gas, Leave(text, gas), status = "running" PROVE FALSE
    BY <2>1 DEF Leave
  <2> QED BY <1>3, <2>1 DEF Return, FallOff, Dispatch, Paid, Fetching
<1>4. CASE Errors /\ ~GoPanic
  <2>1. ASSUME NEW kind, NEW gas, Abort(kind, gas) PROVE FALSE
    BY <2>1 DEF Abort
  <2>2. ~Unwind
    BY DEF Unwind
  <2> QED BY <1>4, <2>1, <2>2, Zenon DEF Errors, OutOfGas, Fail, HostError, DecodeError
<1>5. CASE Finished \/ UNCHANGED vars
  BY <1>5 DEF Finished
<1> QED BY <1>1, <1>2, <1>3, <1>4, <1>5, Zenon DEF Next, Straight, Contracts, Errors

\* GoPanic finds a stack full, or a value that does not fit.
LEMMA PanicCause ==
  ASSUME TypeOK, CodeVerified, CodeInv, GoPanic
  PROVE  ~ValuesFit \/ Full
<1>1. Fetching /\ ~Sound
  <2>1. ~(act.i < 0)
    <3>1. act.i \in Ends(cnt)
      BY DEF CodeInv, Aligned, AlignedIn, cnt
    <3>2. cnt \in Contract /\ Packed(cnt) /\ Len(cnt.code) \in Nat
      BY RunningContract
    <3>3. act.i \in 0..Len(cnt.code)
      BY <3>1, <3>2, StartsType DEF Ends
    <3> QED BY <3>3
  <2>2. act.i < 0 \/ (Fetching /\ ~Sound)
    BY DEF GoPanic
  <2> QED BY <2>1, <2>2
<1>2. /\ act.top \in Int /\ Len(Operands(Op)) \in Nat /\ act.top >= Len(Operands(Op))
      /\ Known /\ (Op = CALLFUNC \/ IndicesFit)
  BY <1>1, OperandsHere, TablesHere
<1>3. SUFFICES ASSUME ValuesFit PROVE Full
  OBVIOUS
<1>4. ItemsFit
  BY <1>3 DEF ValuesFit
<1>5. CASE ~IndicesFit
  <2>1. Op = CALLFUNC /\ ~(Len(act.calls) < CallsSize)
    BY <1>2, <1>5
    DEF IndicesFit, RETFUNC, GETVAR, SETVAR, GETPARAMS, PUSHSTR, CALLFUNC, ENV, CALLCONTRACT
  <2>2. Len(act.calls) <= CallsSize /\ Len(act.calls) \in Nat
    BY RunningFrame DEF TypeOK, ActivationType
  <2> QED BY <1>1, <2>1, <2>2, SizesAssumption DEF Full, Fetching
<1>6. CASE ~OperandsFit
  <2>1. act.top >= Len(Operands(Op)) - 1
    BY <1>2
  <2>2. Pushes(Op) /\ ~(act.top + 1 < StackSize)
    BY <1>3, <1>6, <2>1 DEF OperandsFit, ValuesFit
  <2>3. act.top \in Depths
    BY Zenon DEF TypeOK, ActivationType
  <2>4. act.top + 1 <= StackSize
    BY <2>3, SizesAssumption DEF Depths
  <2> QED BY <1>1, <1>2, <2>2, <2>4, SizesAssumption DEF Full, Fetching
<1> QED BY <1>1, <1>2, <1>4, <1>5, <1>6 DEF Sound

\* Verified code, if its values are what its instructions take them for, panics only
\* where one of the two stacks is full: what OnlyOverflow says of it.
THEOREM PanicConfined == Spec => []((CodeVerified /\ ValuesFit) => OnlyOverflow)
<1> DEFINE Inv == CodeIInv /\ (CodeVerified => PanicInv)
<1>1. Init => Inv
  <2>1. Init => status = "running"
    BY DEF Init, Begin
  <2> QED BY <2>1, InitInv, InitAligned DEF CodeIInv, PanicInv
<1>2. Inv /\ [Next]_vars => Inv'
  <2> SUFFICES ASSUME Inv, [Next]_vars PROVE Inv'
    OBVIOUS
  <2>1. TypeOK /\ CodeIInv'
    BY CodeNext DEF CodeIInv, IInv
  <2>2. ASSUME CodeVerified', status' = "panic" PROVE (~ValuesFit \/ Full)'
    <3>1. CodeVerified
      BY <2>1, <2>2, SameContracts DEF CodeVerified
    <3>2. UNCHANGED <<prog, act, Strings, Objects, status>> \/ GoPanic
      BY <2>1, <2>2, PanicStep DEF vars, heap
    <3>3. UNCHANGED <<prog, act, Strings, Objects>>
      BY <3>2 DEF GoPanic, heap
    <3>4. ~ValuesFit \/ Full
      BY <2>1, <2>2, <3>1, <3>2, PanicCause DEF PanicInv, CodeIInv
    <3>5. Full' = Full
      BY <3>3 DEF Full, Pushes, Op, W, cnt
    <3> QED BY <3>3, <3>4, <3>5, ValuesKept
  <2> QED BY <2>1, <2>2 DEF PanicInv
<1>3. Inv => ((CodeVerified /\ ValuesFit) => OnlyOverflow)
  BY DEF PanicInv, Full, OnlyOverflow
<1> HIDE DEF Inv
<1> QED BY <1>1, <1>2, <1>3, PTL DEF Spec
=============================================================================
