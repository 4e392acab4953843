---------------------------- MODULE RegistryProofs ----------------------------
(***************************************************************************)
(* The invariants of module Registry hold for any names, functions and     *)
(* parameters, however many contracts are compiled, linked and replaced.   *)
(***************************************************************************)
EXTENDS Registry, Ordering, SequenceTheorems

-----------------------------------------------------------------------------
(***************************************************************************)
(* The operators of the module.                                            *)
(***************************************************************************)

\* Last(s, k) is a place of k in s.
LEMMA LastPlace ==
  ASSUME NEW S, NEW s \in Seq(S), NEW k \in Keys(s)
  PROVE  Last(s, k) \in 1..Len(s) /\ s[Last(s, k)] = k
<1>1. PICK i \in DOMAIN s : s[i] = k
  BY DEF Keys
<1>2. Positions(s, k) # {} /\ Positions(s, k) \subseteq 0..Len(s) /\ Len(s) \in Nat
  BY <1>1, LenProperties DEF Positions
<1>3. \E n \in Positions(s, k) : \A m \in Positions(s, k) : m <= n
  <2> DEFINE T == Positions(s, k)
             b == Len(s)
  <2>1. T \subseteq 0..b /\ T # {} /\ b \in Nat
    BY <1>2
  <2> HIDE DEF T, b
  <2>2. \E n \in T : \A m \in T : m <= n
    BY <2>1, Largest
  <2> QED BY <2>2 DEF T
<1>4. Last(s, k) \in Positions(s, k)
  BY <1>3 DEF Last
<1> QED BY <1>4 DEF Positions

\* The code of a library or host function leads back to it.
LEMMA CodeLeads ==
  ASSUME NEW k \in Builtins
  PROVE  /\ CodeOf(k) \in Nat /\ CodeOf(k) >= Embedded
         /\ FuncOf(CodeOf(k)) = k
         /\ k \in Keys(HostFuncs) <=> CodeOf(k) >= Custom
         /\ k \in Keys(HostFuncs) => CodeOf(k) - Custom + 1 = Last(HostFuncs, k)
<1>0. /\ Library \in Seq(FuncKeys) /\ HostFuncs \in Seq(FuncKeys)
      /\ Embedded \in Nat /\ Custom \in Nat /\ Embedded + Len(Library) <= Custom
  BY KeysAssumption, CodesAssumption
<1>1. CASE k \in Keys(HostFuncs)
  <2> DEFINE l == Last(HostFuncs, k)
  <2>1. l \in 1..Len(HostFuncs) /\ HostFuncs[l] = k
    BY <1>0, <1>1, LastPlace
  <2>2. CodeOf(k) = Custom + l - 1
    BY <1>1 DEF CodeOf
  <2>3. Len(Library) \in Nat /\ l \in Nat /\ l >= 1
    BY <1>0, <2>1
  <2> HIDE DEF l
  <2>4. CodeOf(k) >= Custom /\ CodeOf(k) - Custom + 1 = l /\ CodeOf(k) \in Nat /\ CodeOf(k) >= Embedded
    BY <1>0, <2>2, <2>3
  <2>5. FuncOf(CodeOf(k)) = k
    BY <2>1, <2>4 DEF FuncOf
  <2> QED BY <1>1, <2>4, <2>5 DEF l
<1>2. CASE k \notin Keys(HostFuncs)
  <2> DEFINE l == Last(Library, k)
  <2>0. k \in Keys(Library)
    BY <1>2 DEF Builtins
  <2>1. l \in 1..Len(Library) /\ Library[l] = k
    BY <1>0, <2>0, LastPlace
  <2>2. CodeOf(k) = Embedded + l - 1
    BY <1>2 DEF CodeOf
  <2>3. Len(Library) \in Nat /\ l \in Nat /\ l >= 1 /\ l <= Len(Library)
    BY <1>0, <2>1
  <2> HIDE DEF l
  <2>4. ~(CodeOf(k) >= Custom) /\ CodeOf(k) - Embedded + 1 = l /\ CodeOf(k) \in Nat /\ CodeOf(k) >= Embedded
    BY <1>0, <2>2, <2>3
  <2>5. FuncOf(CodeOf(k)) = k
    BY <2>1, <2>4 DEF FuncOf
  <2> QED BY <1>2, <2>4, <2>5
<1> QED BY <1>1, <1>2

\* What is given to a contract, with the places of its parameters.
LEMMA GivenFits ==
  ASSUME NEW ps \in ParamLists, NEW args \in ArgSets, \A a \in args : Known(ps, a)
  PROVE  /\ GivenOf(ps, args) \in SUBSET Given
         /\ \A g \in GivenOf(ps, args) :
              g.index + 1 \in DOMAIN ps /\ ps[g.index + 1] = [name |-> g.name, type |-> g.type]
<1>0. /\ ps \in Seq([name : STRING, type : Nat])
      /\ \A i, j \in DOMAIN ps : ps[i].name = ps[j].name => i = j
  BY ParamsAssumption
<1>1. ASSUME NEW a \in args
      PROVE  IndexIn(ps, a.name) \in 1..Len(ps) /\ ps[IndexIn(ps, a.name)] = a
  <2>1. PICK i \in DOMAIN ps : ps[i] = a
    BY DEF Known
  <2>2. IndexIn(ps, a.name) \in DOMAIN ps /\ ps[IndexIn(ps, a.name)].name = a.name
    BY <2>1 DEF IndexIn
  <2>3. IndexIn(ps, a.name) = i
    BY <1>0, <2>1, <2>2
  <2> QED BY <1>0, <2>1, <2>3
<1>2. ASSUME NEW a \in args
      PROVE  a \in [name : STRING, type : Nat] /\ IndexIn(ps, a.name) - 1 \in Nat
  BY <1>1, ArgsAssumption
<1>3. ASSUME NEW g \in GivenOf(ps, args)
      PROVE  g \in Given /\ g.index + 1 \in DOMAIN ps
             /\ ps[g.index + 1] = [name |-> g.name, type |-> g.type]
  <2>1. PICK a \in args : g = [name |-> a.name, type |-> a.type, index |-> IndexIn(ps, a.name) - 1]
    BY DEF GivenOf
  <2>2. a = [name |-> a.name, type |-> a.type] /\ a.name \in STRING /\ a.type \in Nat
    BY <1>2
  <2>3. g.index + 1 = IndexIn(ps, a.name)
    BY <1>1, <2>1
  <2> QED BY <1>0, <1>1, <1>2, <2>1, <2>2, <2>3 DEF Given
<1> QED BY <1>3

\* The members of a longer and of a shorter sequence.
LEMMA KeysAppend ==
  ASSUME NEW S, NEW s \in Seq(S), NEW e \in S
  PROVE  Keys(Append(s, e)) = Keys(s) \cup {e}
<1> DEFINE t == Append(s, e)
<1>1. /\ t \in Seq(S) /\ Len(s) \in Nat /\ Len(t) = Len(s) + 1
      /\ \A i \in 1..Len(s) : t[i] = s[i]
      /\ t[Len(s) + 1] = e
  BY AppendProperties, LenProperties
<1>2. DOMAIN s = 1..Len(s) /\ DOMAIN t = 1..Len(s) + 1
  BY <1>1, LenProperties
<1> HIDE DEF t
<1>3. \A i \in DOMAIN t : i \in DOMAIN s \/ i = Len(s) + 1
  BY <1>1, <1>2
<1>4. Len(s) + 1 \in DOMAIN t /\ \A i \in DOMAIN s : i \in DOMAIN t
  BY <1>1, <1>2
<1>5. Keys(t) = Keys(s) \cup {e}
  BY <1>1, <1>2, <1>3, <1>4 DEF Keys
<1> QED BY <1>5 DEF t

LEMMA Beginning ==
  ASSUME NEW S, NEW s \in Seq(S), NEW n \in 0..Len(s)
  PROVE  /\ SubSeq(s, 1, n) \in Seq(S) /\ Len(SubSeq(s, 1, n)) = n
         /\ \A i \in 1..n : SubSeq(s, 1, n)[i] = s[i]
         /\ Keys(SubSeq(s, 1, n)) = {s[i] : i \in 1..n}
<1>0. Len(s) \in Nat /\ \A i \in 1..n : s[i] \in S
  BY LenProperties, ElementOfSeq
<1> DEFINE t == SubSeq(s, 1, n)
<1>1. t \in Seq(S) /\ Len(t) = (IF 1 <= n THEN n - 1 + 1 ELSE 0) /\ \A i \in 1..n - 1 + 1 : t[i] = s[1 + i - 1]
  BY <1>0, SubSeqProperties
<1> HIDE DEF t
<1>2. Len(t) = n
  BY <1>0, <1>1
<1>3. \A i \in 1..n : t[i] = s[i]
  BY <1>0, <1>1
<1>4. DOMAIN t = 1..n
  BY <1>1, <1>2, LenProperties
<1>5. Keys(t) = {s[i] : i \in 1..n}
  BY <1>3, <1>4 DEF Keys
<1> QED BY <1>1, <1>2, <1>3, <1>5 DEF t

-----------------------------------------------------------------------------
(***************************************************************************)
(* The inductive invariant.  What makes FuncsLead inductive: the blocks    *)
(* nest, so that the functions of a block are those behind its count; one  *)
(* of them at most is the body of a function, which is not known yet; and  *)
(* the functions of the machine are in the name space from the first       *)
(* compilation on.                                                         *)
(***************************************************************************)
BlocksNest ==
  /\ Len(cmpl.funcs) <= MaxFuncs
  /\ ~Idle => cmpl.blocks[1] = Entry(0, NoFunc)
  /\ \A b \in DOMAIN cmpl.blocks : cmpl.blocks[b].count <= Len(cmpl.funcs)
  /\ \A b, c \in DOMAIN cmpl.blocks : b <= c => cmpl.blocks[b].count <= cmpl.blocks[c].count
BodyUnknown ==
  \A b \in DOMAIN cmpl.blocks : cmpl.blocks[b].func # NoFunc =>
    /\ cmpl.blocks[b].func \notin DOMAIN nameSpace /\ Len(cmpl.funcs) < MaxFuncs
    /\ \A c \in DOMAIN cmpl.blocks : cmpl.blocks[c].func # NoFunc => c = b
BuiltinsLead == \A k \in Builtins : k \in DOMAIN nameSpace /\ nameSpace[k] = CodeOf(k)
Begun == (nameSpace = [k \in {} |-> 0] /\ Idle /\ made = <<>>) \/ BuiltinsLead

IInv == /\ TypeOK /\ BlocksNest /\ BodyUnknown /\ Begun
        /\ NamesLead /\ FuncsLead /\ UsesFound /\ CallsLead

\* The compiler between two compilations, and at work.
LEMMA IdleCompiler ==
  ASSUME TypeOK, Idle
  PROVE  cmpl = Nothing /\ cmpl.funcs = <<>> /\ cmpl.blocks = <<>>
BY DEF TypeOK, Idle, Nothing

LEMMA Working ==
  ASSUME TypeOK, ~Idle
  PROVE  /\ cmpl = [cnt |-> cmpl.cnt, funcs |-> cmpl.funcs, blocks |-> cmpl.blocks]
         /\ cmpl.cnt \in ContractType
         /\ Len(cmpl.blocks) \in Nat /\ Len(cmpl.blocks) >= 1
         /\ DOMAIN cmpl.blocks = 1..Len(cmpl.blocks)
         /\ Len(cmpl.blocks) \in DOMAIN cmpl.blocks /\ Inner \in Block
         /\ Outer \in Seq(Block) /\ Len(Outer) = Len(cmpl.blocks) - 1
         /\ DOMAIN Outer = 1..Len(cmpl.blocks) - 1
         /\ \A b \in DOMAIN Outer : b \in DOMAIN cmpl.blocks /\ Outer[b] = cmpl.blocks[b]
         /\ Outer = <<>> <=> Len(cmpl.blocks) = 1
<1>1. cmpl.blocks \in Seq(Block) /\ cmpl.blocks # <<>>
  BY DEF TypeOK, Idle
<1> DEFINE bs == cmpl.blocks
           n == Len(bs) - 1
<1>2. Len(bs) \in Nat /\ Len(bs) # 0 /\ DOMAIN bs = 1..Len(bs)
  BY <1>1, EmptySeq, LenProperties
<1> HIDE DEF bs
<1>3. n \in 0..Len(bs) /\ n \in Nat
  BY <1>2
<1>4. bs \in Seq(Block)
  BY <1>1 DEF bs
<1>5. SubSeq(bs, 1, n) \in Seq(Block) /\ Len(SubSeq(bs, 1, n)) = n /\ \A i \in 1..n : SubSeq(bs, 1, n)[i] = bs[i]
  <2> HIDE DEF n
  <2> QED BY <1>3, <1>4, Beginning
<1>6. Outer = SubSeq(bs, 1, n) /\ Inner = bs[Len(bs)]
  BY DEF Outer, Inner, bs
<1>7. DOMAIN Outer = 1..n
  BY <1>5, <1>6, LenProperties
<1>8. Outer = <<>> <=> n = 0
  <2> HIDE DEF n
  <2>1. ASSUME n = 0 PROVE Outer = <<>>
    BY <1>5, <1>6, <2>1, EmptySeq
  <2> QED BY <2>1, <1>5, <1>6
<1>9. bs[Len(bs)] \in Block
  BY <1>2, <1>4, ElementOfSeq
<1>10. \A b \in DOMAIN Outer : b \in DOMAIN bs /\ Outer[b] = bs[b]
  BY <1>2, <1>5, <1>6, <1>7
<1>11. cmpl = [cnt |-> cmpl.cnt, funcs |-> cmpl.funcs, blocks |-> cmpl.blocks] /\ cmpl.cnt \in ContractType
  BY DEF TypeOK
<1> QED BY <1>2, <1>3, <1>5, <1>6, <1>7, <1>8, <1>9, <1>10, <1>11 DEF bs

-----------------------------------------------------------------------------
(***************************************************************************)
(* What an action leaves alone.                                            *)
(***************************************************************************)
LEMMA ContractFields ==
  ASSUME NEW c \in ContractType
  PROVE  /\ c.name \in Names /\ c.read \in BOOLEAN /\ c.params \in ParamLists
         /\ c.calls \in SUBSET Call /\ c.uses \in SUBSET Use
BY DEF ContractType

LEMMA MadeTyped ==
  ASSUME TypeOK
  PROVE  /\ DOMAIN made = 1..Len(made) /\ DOMAIN contracts = 1..Len(contracts)
         /\ Len(made) \in Nat /\ Len(contracts) \in Nat
         /\ \A o \in DOMAIN made : made[o] \in ContractType
         /\ \A i \in DOMAIN contracts : contracts[i] \in DOMAIN made
BY LenProperties, ElementOfSeq DEF TypeOK

\* Names and contracts are as before, whatever becomes of the functions.
NamesSame ==
  /\ contracts' = contracts
  /\ \A n \in Names : /\ n \in DOMAIN nameSpace' <=> n \in DOMAIN nameSpace
                      /\ n \in DOMAIN nameSpace => nameSpace'[n] = nameSpace[n]
\* What has been made stays, at its place.
MadeStays == DOMAIN made \subseteq DOMAIN made' /\ \A o \in DOMAIN made : made'[o] = made[o]

LEMMA NamesKept ==
  ASSUME TypeOK, NamesLead, NamesSame, MadeStays
  PROVE  NamesLead'
<1>1. \A i \in DOMAIN contracts : contracts[i] \in DOMAIN made /\ made[contracts[i]].name \in Names
  BY MadeTyped, ContractFields
<1>2. \A i \in DOMAIN contracts : made'[contracts'[i]] = made[contracts[i]]
  BY <1>1 DEF NamesSame, MadeStays
<1>3. ASSUME NEW n \in Names, n \in DOMAIN nameSpace'
      PROVE  nameSpace'[n] < Len(contracts') /\ made'[contracts'[nameSpace'[n] + 1]].name = n
  <2>1. n \in DOMAIN nameSpace /\ nameSpace'[n] = nameSpace[n]
    BY <1>3 DEF NamesSame
  <2>2. nameSpace[n] < Len(contracts) /\ made[contracts[nameSpace[n] + 1]].name = n
    BY <2>1 DEF NamesLead, Linked, Of
  <2>3. nameSpace[n] \in Nat
    BY <2>1 DEF TypeOK
  <2>4. nameSpace[n] + 1 \in DOMAIN contracts
    BY <2>2, <2>3, MadeTyped
  <2> QED BY <1>2, <2>1, <2>2, <2>4 DEF NamesSame
<1>4. ASSUME NEW i \in DOMAIN contracts'
      PROVE  /\ made'[contracts'[i]].name \in DOMAIN nameSpace'
             /\ nameSpace'[made'[contracts'[i]].name] = i - 1
  <2>1. i \in DOMAIN contracts /\ made'[contracts'[i]] = made[contracts[i]]
    BY <1>2, <1>4 DEF NamesSame
  <2>2. made[contracts[i]].name \in DOMAIN nameSpace /\ nameSpace[made[contracts[i]].name] = i - 1
    BY <2>1 DEF NamesLead, Linked
  <2> QED BY <1>1, <2>1, <2>2 DEF NamesSame
<1> QED BY <1>3, <1>4 DEF NamesLead, Linked, Of

\* A call that led to the contract of its name still does.
CallsStay ==
  \A i \in DOMAIN contracts : /\ i \in DOMAIN contracts'
                              /\ made'[contracts'[i]].name = made[contracts[i]].name

LEMMA CallsKept ==
  ASSUME TypeOK, TypeOK', CallsLead, CallsStay, Written' \subseteq Written,
         \A c \in Written : c \in ContractType
  PROVE  CallsLead'
<1>1. ASSUME NEW c \in Written, NEW call \in c.calls
      PROVE  call.ind < Len(contracts') /\ made'[contracts'[call.ind + 1]].name = call.to
  <2>1. call \in Call /\ call.ind \in Nat
    BY ContractFields, <1>1 DEF Call
  <2>2. call.ind < Len(contracts) /\ made[contracts[call.ind + 1]].name = call.to
    BY <1>1 DEF CallsLead, Of
  <2>3. call.ind + 1 \in DOMAIN contracts
    BY <2>1, <2>2, MadeTyped
  <2>4. call.ind + 1 \in DOMAIN contracts'
    BY <2>3 DEF CallsStay
  <2>5. DOMAIN contracts' = 1..Len(contracts') /\ Len(contracts') \in Nat
    BY LenProperties DEF TypeOK
  <2>6. call.ind < Len(contracts')
    BY <2>1, <2>4, <2>5
  <2> QED BY <2>2, <2>3, <2>6 DEF CallsStay
<1> QED BY <1>1 DEF CallsLead, Of

LEMMA WrittenTyped ==
  ASSUME TypeOK
  PROVE  \A c \in Written : c \in ContractType
BY MadeTyped, Working DEF Written, Keys

\* The machine's functions come into the name space with the first compilation.
LEMMA SpaceBegins ==
  ASSUME IInv, Idle, nameSpace' = InitNameSpace
  PROVE  /\ DOMAIN nameSpace' \subseteq Names \cup FuncKeys
         /\ nameSpace' \in [DOMAIN nameSpace' -> Nat]
         /\ BuiltinsLead'
         /\ \A n \in Names : /\ n \in DOMAIN nameSpace' <=> n \in DOMAIN nameSpace
                             /\ n \in DOMAIN nameSpace => nameSpace'[n] = nameSpace[n]
         /\ DOMAIN nameSpace' \cap FuncKeys \subseteq Builtins
<1>0. /\ Builtins \subseteq FuncKeys /\ Names \cap FuncKeys = {}
      /\ \A k \in Builtins : CodeOf(k) \in Nat
  <2>1. Library \in Seq(FuncKeys) /\ HostFuncs \in Seq(FuncKeys) /\ Names \cap FuncKeys = {}
    BY KeysAssumption
  <2>2. Builtins \subseteq FuncKeys
    BY <2>1, LenProperties, ElementOfSeq DEF Builtins, Keys
  <2> QED BY <2>1, <2>2, CodeLeads
<1>1. CASE nameSpace = [k \in {} |-> 0]
  <2>1. nameSpace' = [k \in Builtins |-> CodeOf(k)]
    BY <1>1 DEF InitNameSpace
  <2>2. DOMAIN nameSpace = {} /\ DOMAIN nameSpace' = Builtins
    BY <1>1, <2>1
  <2> QED BY <1>0, <2>1, <2>2 DEF BuiltinsLead
<1>2. CASE nameSpace # [k \in {} |-> 0]
  <2>1. nameSpace' = nameSpace
    BY <1>2 DEF InitNameSpace
  <2>2. BuiltinsLead
    BY <1>2 DEF IInv, Begun
  <2>3. Keys(cmpl.funcs) = {}
    <3>1. cmpl.funcs = <<>>
      BY IdleCompiler DEF IInv
    <3> QED BY <3>1 DEF Keys
  <2>4. (DOMAIN nameSpace \cap FuncKeys) \ Builtins = {}
    BY <2>3 DEF IInv, FuncsLead
  <2> QED BY <2>1, <2>2, <2>4 DEF IInv, TypeOK, BuiltinsLead
<1> QED BY <1>1, <1>2

-----------------------------------------------------------------------------
(***************************************************************************)
(* The compiler's actions.  Each leaves the contracts alone, so that of    *)
(* the invariant only what is about the compiler and the functions is in   *)
(* question.                                                               *)
(***************************************************************************)
Space == BlocksNest /\ BodyUnknown /\ Begun /\ FuncsLead

LEMMA RestKept ==
  ASSUME IInv, TypeOK', NamesSame, made' = made, Written' \subseteq Written
  PROVE  NamesLead' /\ UsesFound' /\ CallsLead'
<1>1. MadeStays /\ CallsStay
  BY DEF MadeStays, CallsStay, NamesSame
<1>2. \A c \in Written : c \in ContractType
  BY WrittenTyped DEF IInv
<1> QED BY <1>1, <1>2, NamesKept, CallsKept DEF IInv, UsesFound

LEMMA ParseFailsStep ==
  ASSUME IInv, ParseFails
  PROVE  IInv'
<1>1. /\ Idle /\ nameSpace' = InitNameSpace
      /\ contracts' = contracts /\ made' = made /\ cmpl' = cmpl
  BY DEF ParseFails
<1>2. NamesSame /\ DOMAIN nameSpace' \cap FuncKeys \subseteq Builtins /\ BuiltinsLead'
  BY <1>1, SpaceBegins DEF NamesSame
<1>3. TypeOK'
  BY <1>1, SpaceBegins DEF IInv, TypeOK, Idle
<1>4. cmpl.funcs = <<>> /\ cmpl.blocks = <<>> /\ DOMAIN cmpl.blocks = {} /\ Keys(cmpl.funcs) = {}
  BY <1>1, IdleCompiler DEF IInv, Keys
<1>5. Space'
  <2>1. BlocksNest' /\ BodyUnknown'
    BY <1>1, <1>4 DEF IInv, BlocksNest, BodyUnknown, Idle
  <2>2. FuncsLead'
    <3>1. DOMAIN cmpl.funcs = {}
      BY <1>4
    <3> QED BY <1>1, <1>2, <1>4, <3>1 DEF FuncsLead, BuiltinsLead
  <2> QED BY <1>2, <2>1, <2>2 DEF Space, Begun
<1>6. Written' \subseteq Written
  BY <1>1 DEF Written, Idle
<1> QED BY <1>1, <1>2, <1>3, <1>5, <1>6, RestKept DEF IInv, Space

LEMMA CompileStep ==
  ASSUME IInv, NEW n \in Names, NEW read \in BOOLEAN, NEW params \in ParamLists,
         Compile(n, read, params)
  PROVE  IInv'
<1> DEFINE cnt == [name |-> n, read |-> read, params |-> params, calls |-> {}, uses |-> {}]
           first == <<Entry(0, NoFunc)>>
<1>1. /\ Idle /\ nameSpace' = InitNameSpace /\ contracts' = contracts /\ made' = made
      /\ cmpl' = [cnt |-> cnt, funcs |-> <<>>, blocks |-> first]
  BY DEF Compile
<1>2. NamesSame /\ DOMAIN nameSpace' \cap FuncKeys \subseteq Builtins /\ BuiltinsLead'
  BY <1>1, SpaceBegins DEF NamesSame
<1>3. cmpl'.cnt = cnt /\ cmpl'.funcs = <<>> /\ cmpl'.blocks = first
  BY <1>1
<1>4. first \in Seq(Block) /\ first # <<>> /\ DOMAIN first = {1} /\ first[1] = Entry(0, NoFunc)
  BY DEF Block, Entry
<1>5. cnt \in ContractType
  BY DEF ContractType
<1> HIDE DEF cnt, first
<1>6. TypeOK' /\ ~Idle'
  <2>1. <<>> \in Seq(FuncKeys)
    OBVIOUS
  <2> QED BY <1>1, <1>3, <1>4, <1>5, <2>1, SpaceBegins DEF IInv, TypeOK, Idle
<1>7. Space'
  <2>1. Len(<<>>) = 0 /\ MaxFuncs \in Nat /\ Keys(<<>>) = {} /\ DOMAIN <<>> = {}
    BY CodesAssumption DEF Keys
  <2>2. BlocksNest' /\ BodyUnknown'
    BY <1>3, <1>4, <2>1 DEF BlocksNest, BodyUnknown, Entry
  <2>3. FuncsLead'
    BY <1>2, <1>3, <2>1 DEF FuncsLead, BuiltinsLead
  <2> QED BY <1>2, <2>2, <2>3 DEF Space, Begun
<1>8. NamesLead'
  BY <1>1, <1>2, NamesKept DEF IInv, MadeStays
<1>9. Written' = Written \cup {cnt} /\ cnt.uses = {} /\ cnt.calls = {}
  BY <1>1, <1>3, <1>6 DEF Written, cnt
<1>10. UsesFound' /\ CallsLead'
  BY <1>1, <1>9 DEF IInv, UsesFound, CallsLead, Of
<1> QED BY <1>6, <1>7, <1>8, <1>10 DEF IInv, Space

\* A block is opened; when it is the body of a function, then of a new one.
LEMMA Opening ==
  ASSUME IInv, ~Idle, NEW f \in FuncKeys \cup {NoFunc},
         f # NoFunc => ~InFunc /\ f \notin DOMAIN nameSpace /\ Len(cmpl.funcs) < MaxFuncs,
         cmpl' = [cmpl EXCEPT !.blocks = Append(@, Entry(Len(cmpl.funcs), f))],
         UNCHANGED <<nameSpace, contracts, made>>
  PROVE  IInv'
<1> DEFINE new == Entry(Len(cmpl.funcs), f)
           bs == Append(cmpl.blocks, new)
           n == Len(cmpl.blocks)
<1>0. TypeOK /\ ~Idle
  BY DEF IInv
<1>1. /\ nameSpace' = nameSpace /\ contracts' = contracts /\ made' = made
      /\ cmpl' = [cnt |-> cmpl.cnt, funcs |-> cmpl.funcs, blocks |-> bs]
  BY <1>0, Working
<1>2. Len(cmpl.funcs) \in Nat /\ new \in Block /\ cmpl.blocks \in Seq(Block)
  BY <1>0, LenProperties DEF TypeOK, Block, Entry
<1>3. /\ bs \in Seq(Block) /\ bs # <<>> /\ DOMAIN bs = 1..n + 1
      /\ \A b \in 1..n : bs[b] = cmpl.blocks[b]
      /\ bs[n + 1] = new /\ n \in Nat /\ n >= 1 /\ DOMAIN cmpl.blocks = 1..n
  <2>1. bs \in Seq(Block) /\ bs # <<>> /\ Len(bs) = n + 1
        /\ (\A b \in 1..n : bs[b] = cmpl.blocks[b]) /\ bs[n + 1] = new
    BY <1>2, AppendProperties
  <2> QED BY <2>1, <1>0, Working, LenProperties
<1>4. cmpl'.cnt = cmpl.cnt /\ cmpl'.funcs = cmpl.funcs /\ cmpl'.blocks = bs
  BY <1>1
<1>5. new.count = Len(cmpl.funcs) /\ new.func = f
  BY DEF Entry
<1> HIDE DEF bs, new
<1>6. TypeOK' /\ ~Idle'
  BY <1>0, <1>1, <1>3, <1>4, Working DEF TypeOK, Idle
<1>7. Space'
  <2>1. \A b \in 1..n + 1 : b \in 1..n \/ b = n + 1
    BY <1>3
  <2>2. BlocksNest'
    <3>1. bs[1] = Entry(0, NoFunc)
      BY <1>0, <1>3 DEF IInv, BlocksNest
    <3>2. \A b \in 1..n + 1 : bs[b].count <= Len(cmpl.funcs)
      BY <1>2, <1>3, <1>5, <2>1 DEF IInv, BlocksNest
    <3>3. \A b, c \in 1..n + 1 : b <= c => bs[b].count <= bs[c].count
      <4> SUFFICES ASSUME NEW b \in 1..n + 1, NEW c \in 1..n + 1, b <= c
                   PROVE  bs[b].count <= bs[c].count
        OBVIOUS
      <4>1. CASE c = n + 1
        BY <4>1, <1>3, <1>5, <3>2
      <4>2. CASE c \in 1..n
        BY <4>2, <1>3 DEF IInv, BlocksNest
      <4> QED BY <4>1, <4>2, <2>1
    <3> QED BY <1>3, <1>4, <1>6, <3>1, <3>2, <3>3 DEF IInv, BlocksNest
  <2>3. BodyUnknown'
    <3>1. \A b \in 1..n : bs[b].func # NoFunc => f = NoFunc
      BY <1>3 DEF InFunc
    <3> QED BY <1>1, <1>3, <1>4, <1>5, <2>1, <3>1 DEF IInv, BodyUnknown
  <2>4. Begun' /\ FuncsLead'
    <3>1. BuiltinsLead'
      BY <1>0, <1>1 DEF IInv, Begun, BuiltinsLead
    <3> QED BY <1>1, <1>4, <3>1 DEF IInv, Begun, FuncsLead
  <2> QED BY <2>2, <2>3, <2>4 DEF Space
<1>8. NamesSame /\ Written' = Written
  BY <1>0, <1>1, <1>4, <1>6 DEF NamesSame, Written
<1> QED BY <1>1, <1>6, <1>7, <1>8, RestKept DEF IInv, Space

LEMMA OpenBlockStep ==
  ASSUME IInv, OpenBlock
  PROVE  IInv'
BY Opening DEF OpenBlock

LEMMA OpenFuncStep ==
  ASSUME IInv, NEW k \in FuncKeys, OpenFunc(k)
  PROVE  IInv'
BY Opening DEF OpenFunc

\* The functions behind the first m leave the name space.
LEMMA Dropping ==
  ASSUME IInv, NEW m \in 0..Len(cmpl.funcs),
         nameSpace' = Without({cmpl.funcs[i] : i \in m + 1..Len(cmpl.funcs)}),
         cmpl'.funcs = SubSeq(cmpl.funcs, 1, m), contracts' = contracts
  PROVE  /\ DOMAIN nameSpace' \subseteq Names \cup FuncKeys
         /\ DOMAIN nameSpace' \subseteq DOMAIN nameSpace
         /\ nameSpace' \in [DOMAIN nameSpace' -> Nat]
         /\ NamesSame /\ (BuiltinsLead => BuiltinsLead')
         /\ cmpl'.funcs \in Seq(FuncKeys) /\ Len(cmpl'.funcs) = m
         /\ BuiltinsLead => FuncsLead'
<1> DEFINE fs == cmpl.funcs
           gone == {fs[i] : i \in m + 1..Len(fs)}
<1>1. fs \in Seq(FuncKeys) /\ DOMAIN fs = 1..Len(fs) /\ Len(fs) \in Nat /\ m \in Nat /\ m <= Len(fs)
  BY LenProperties DEF IInv, TypeOK
<1>2. /\ SubSeq(fs, 1, m) \in Seq(FuncKeys) /\ Len(SubSeq(fs, 1, m)) = m
      /\ \A i \in 1..m : SubSeq(fs, 1, m)[i] = fs[i]
      /\ Keys(SubSeq(fs, 1, m)) = {fs[i] : i \in 1..m}
  <2> HIDE DEF fs
  <2> QED BY <1>1, Beginning
<1>3. /\ (DOMAIN nameSpace \cap FuncKeys) \ Builtins = Keys(fs)
      /\ \A i \in 1..Len(fs) : nameSpace[fs[i]] = i
  BY <1>1 DEF IInv, FuncsLead
<1>4. gone \cap Builtins = {} /\ gone \subseteq FuncKeys /\ gone \cap Names = {}
  <2>1. gone \subseteq Keys(fs)
    BY <1>1 DEF Keys
  <2> QED BY <1>3, <2>1, KeysAssumption
<1>5. Keys(fs) \ gone = {fs[i] : i \in 1..m}
  <2> HIDE DEF fs
  <2>1. \A i \in 1..Len(fs) : i \in 1..m \/ i \in m + 1..Len(fs)
    BY <1>1
  <2>2. \A i \in 1..m, j \in m + 1..Len(fs) : i \in 1..Len(fs) /\ j \in 1..Len(fs) /\ i # j
    BY <1>1
  <2>3. ASSUME NEW i \in 1..m PROVE fs[i] \in Keys(fs) /\ fs[i] \notin gone
    <3>1. i \in DOMAIN fs
      BY <1>1
    <3>2. \A j \in m + 1..Len(fs) : fs[j] # fs[i]
      BY <1>3, <2>2
    <3> QED BY <3>1, <3>2 DEF Keys
  <2>4. ASSUME NEW k \in Keys(fs), k \notin gone PROVE k \in {fs[i] : i \in 1..m}
    <3>1. PICK i \in 1..Len(fs) : fs[i] = k
      BY <1>1 DEF Keys
    <3>2. i \in 1..m
      BY <2>1, <2>4, <3>1
    <3> QED BY <3>1, <3>2
  <2> QED BY <2>3, <2>4
<1>6. /\ nameSpace' = Without(gone)
      /\ cmpl'.funcs = SubSeq(fs, 1, m)
  OBVIOUS
<1>7. fs = cmpl.funcs
  OBVIOUS
<1> HIDE DEF fs, gone
<1>8. /\ DOMAIN nameSpace' = DOMAIN nameSpace \ gone
      /\ \A k \in DOMAIN nameSpace' : nameSpace'[k] = nameSpace[k]
  BY <1>6 DEF Without
<1>9. /\ DOMAIN nameSpace \subseteq Names \cup FuncKeys
      /\ \A k \in DOMAIN nameSpace : nameSpace[k] \in Nat
  BY DEF IInv, TypeOK
<1>10. nameSpace' \in [DOMAIN nameSpace' -> Nat]
  <2>1. nameSpace' = [k \in DOMAIN nameSpace' |-> nameSpace'[k]]
    BY <1>6, <1>8 DEF Without
  <2> QED BY <1>8, <1>9, <2>1
<1>11. NamesSame /\ (BuiltinsLead => BuiltinsLead')
  BY <1>4, <1>8 DEF NamesSame, BuiltinsLead
<1>12. ASSUME BuiltinsLead PROVE FuncsLead'
  <2>1. (DOMAIN nameSpace' \cap FuncKeys) \ Builtins = Keys(cmpl'.funcs)
    BY <1>2, <1>3, <1>5, <1>6, <1>8
  <2>2. DOMAIN cmpl'.funcs = 1..m
    BY <1>2, <1>6, LenProperties
  <2>3. ASSUME NEW i \in 1..m PROVE nameSpace'[cmpl'.funcs[i]] = i
    <3>1. i \in 1..Len(fs) /\ cmpl'.funcs[i] = fs[i]
      BY <1>1, <1>2, <1>6
    <3>2. cmpl'.funcs[i] \in Keys(cmpl'.funcs)
      BY <2>2 DEF Keys
    <3> QED BY <1>3, <1>8, <2>1, <3>1, <3>2
  <2>4. BuiltinsLead'
    BY <1>11, <1>12
  <2> QED BY <2>1, <2>2, <2>3, <2>4 DEF FuncsLead, BuiltinsLead
<1> QED BY <1>2, <1>6, <1>8, <1>9, <1>10, <1>11, <1>12

LEMMA CloseBlockStep ==
  ASSUME IInv, CloseBlock
  PROVE  IInv'
<1> DEFINE m == Inner.count
           n == Len(cmpl.blocks)
<1>0. TypeOK /\ ~Idle
  BY DEF IInv, CloseBlock
<1>1. /\ nameSpace' = Without(Dropped) /\ contracts' = contracts /\ made' = made
      /\ cmpl' = [cnt |-> cmpl.cnt, funcs |-> SubSeq(cmpl.funcs, 1, m), blocks |-> Outer]
      /\ Outer # <<>>
  BY <1>0, Working DEF CloseBlock
<1>2. cmpl'.cnt = cmpl.cnt /\ cmpl'.funcs = SubSeq(cmpl.funcs, 1, m) /\ cmpl'.blocks = Outer
  BY <1>1
<1>3. m \in 0..Len(cmpl.funcs) /\ n \in DOMAIN cmpl.blocks /\ m = cmpl.blocks[n].count
  <2>1. n \in DOMAIN cmpl.blocks /\ Inner \in Block /\ m = cmpl.blocks[n].count
    BY <1>0, Working DEF Inner
  <2>2. Len(cmpl.funcs) \in Nat /\ m \in Nat
    BY <1>0, <2>1, LenProperties DEF TypeOK, Block
  <2> QED BY <2>1, <2>2 DEF IInv, BlocksNest
<1>4. BuiltinsLead
  BY <1>0 DEF IInv, Begun
<1>5. /\ DOMAIN nameSpace' \subseteq Names \cup FuncKeys
      /\ DOMAIN nameSpace' \subseteq DOMAIN nameSpace
      /\ nameSpace' \in [DOMAIN nameSpace' -> Nat] /\ NamesSame
      /\ cmpl'.funcs \in Seq(FuncKeys) /\ Len(cmpl'.funcs) = m /\ BuiltinsLead' /\ FuncsLead'
  <2>1. Dropped = {cmpl.funcs[i] : i \in m + 1..Len(cmpl.funcs)}
    BY DEF Dropped
  <2> HIDE DEF m
  <2> QED BY <1>1, <1>2, <1>3, <1>4, <2>1, Dropping
<1>6. /\ Outer \in Seq(Block) /\ DOMAIN Outer = 1..n - 1 /\ n \in Nat /\ n >= 1
      /\ DOMAIN cmpl.blocks = 1..n
      /\ \A b \in DOMAIN Outer : b \in DOMAIN cmpl.blocks /\ Outer[b] = cmpl.blocks[b]
  BY <1>0, Working
<1> HIDE DEF m, n
<1>7. TypeOK' /\ ~Idle'
  BY <1>0, <1>1, <1>2, <1>5, <1>6, Working DEF TypeOK, Idle
<1>8. BlocksNest'
  <2>1. m <= Len(cmpl.funcs) /\ m <= MaxFuncs
    <3>1. Len(cmpl.funcs) \in Nat /\ Len(cmpl.funcs) <= MaxFuncs /\ MaxFuncs \in Nat
      BY <1>0, LenProperties, CodesAssumption DEF TypeOK, IInv, BlocksNest
    <3> QED BY <1>3, <3>1
  <2>2. \A b \in DOMAIN Outer : b \in DOMAIN cmpl.blocks /\ b <= n
    BY <1>6
  <2>3. \A b \in DOMAIN Outer : Outer[b].count <= m
    BY <1>3, <1>6, <2>2 DEF IInv, BlocksNest
  <2>4. Outer[1] = Entry(0, NoFunc)
    <3>1. 1 \in DOMAIN Outer
      BY <1>1, <1>6, EmptySeq, LenProperties
    <3> QED BY <1>0, <1>6, <3>1 DEF IInv, BlocksNest
  <2>5. \A b, c \in DOMAIN Outer : b <= c => Outer[b].count <= Outer[c].count
    BY <1>6 DEF IInv, BlocksNest
  <2> QED BY <1>2, <1>5, <2>1, <2>3, <2>4, <2>5 DEF BlocksNest
<1>9. BodyUnknown'
  <2>1. Len(cmpl.funcs) \in Nat /\ m <= Len(cmpl.funcs) /\ m \in Nat /\ MaxFuncs \in Nat
    BY <1>0, <1>3, LenProperties, CodesAssumption DEF TypeOK
  <2> SUFFICES ASSUME NEW b \in DOMAIN Outer, Outer[b].func # NoFunc
               PROVE  /\ Outer[b].func \notin DOMAIN nameSpace' /\ m < MaxFuncs
                      /\ \A c \in DOMAIN Outer : Outer[c].func # NoFunc => c = b
    BY <1>2, <1>5 DEF BodyUnknown
  <2>2. b \in DOMAIN cmpl.blocks /\ Outer[b] = cmpl.blocks[b] /\ cmpl.blocks[b].func # NoFunc
    BY <1>6
  <2>3. /\ cmpl.blocks[b].func \notin DOMAIN nameSpace /\ Len(cmpl.funcs) < MaxFuncs
        /\ \A c \in DOMAIN cmpl.blocks : cmpl.blocks[c].func # NoFunc => c = b
    BY <2>2 DEF IInv, BodyUnknown
  <2>4. Outer[b].func \notin DOMAIN nameSpace'
    BY <1>5, <2>2, <2>3
  <2>5. m < MaxFuncs
    BY <2>1, <2>3
  <2>6. \A c \in DOMAIN Outer : Outer[c].func # NoFunc => c = b
    BY <1>6, <2>3
  <2> QED BY <2>4, <2>5, <2>6
<1>10. Written' = Written
  BY <1>0, <1>1, <1>2, <1>7 DEF Written
<1> QED BY <1>1, <1>5, <1>7, <1>8, <1>9, <1>10, RestKept DEF IInv, Begun

LEMMA CloseFuncStep ==
  ASSUME IInv, CloseFunc
  PROVE  IInv'
<1> DEFINE f == Inner.func
           n == Len(cmpl.blocks)
           l == Len(cmpl.funcs)
           fs == Append(cmpl.funcs, f)
<1>0. TypeOK /\ ~Idle
  BY DEF IInv, CloseFunc
<1>1. /\ nameSpace' = With(f, l + 1) /\ contracts' = contracts /\ made' = made
      /\ cmpl' = [cnt |-> cmpl.cnt, funcs |-> fs, blocks |-> Outer]
      /\ f # NoFunc
  BY <1>0, Working DEF CloseFunc
<1>2. cmpl'.cnt = cmpl.cnt /\ cmpl'.funcs = fs /\ cmpl'.blocks = Outer
  BY <1>1
<1>3. /\ Outer \in Seq(Block) /\ DOMAIN Outer = 1..n - 1 /\ n \in Nat /\ n >= 1
      /\ DOMAIN cmpl.blocks = 1..n /\ n \in DOMAIN cmpl.blocks /\ cmpl.blocks[n].func = f
      /\ \A b \in DOMAIN Outer : b \in DOMAIN cmpl.blocks /\ Outer[b] = cmpl.blocks[b]
      /\ (Outer = <<>> <=> n = 1) /\ Inner \in Block
  BY <1>0, Working DEF Inner
<1>4. f \in FuncKeys /\ cmpl.funcs \in Seq(FuncKeys) /\ l \in Nat /\ DOMAIN cmpl.funcs = 1..l
  BY <1>0, <1>1, <1>3, LenProperties DEF TypeOK, Block
<1>5. /\ fs \in Seq(FuncKeys) /\ Len(fs) = l + 1 /\ DOMAIN fs = 1..l + 1
      /\ \A i \in 1..l : fs[i] = cmpl.funcs[i]
      /\ fs[l + 1] = f /\ Keys(fs) = Keys(cmpl.funcs) \cup {f}
  <2>1. fs \in Seq(FuncKeys) /\ Len(fs) = l + 1 /\ (\A i \in 1..l : fs[i] = cmpl.funcs[i]) /\ fs[l + 1] = f
    BY <1>4, AppendProperties
  <2>2. DOMAIN fs = 1..l + 1
    BY <2>1, LenProperties
  <2>3. Keys(fs) = Keys(cmpl.funcs) \cup {f}
    BY <1>4, KeysAppend
  <2> QED BY <2>1, <2>2, <2>3
<1>6. /\ f \notin DOMAIN nameSpace /\ l < MaxFuncs /\ MaxFuncs \in Nat
      /\ \A c \in DOMAIN cmpl.blocks : cmpl.blocks[c].func # NoFunc => c = n
  <2>1. f \notin DOMAIN nameSpace /\ l < MaxFuncs
    BY <1>1, <1>3 DEF IInv, BodyUnknown
  <2> QED BY <1>1, <1>3, <2>1, CodesAssumption DEF IInv, BodyUnknown
<1>7. BuiltinsLead
  BY <1>0 DEF IInv, Begun
<1> HIDE DEF f, n, l, fs
<1>8. DOMAIN nameSpace' = DOMAIN nameSpace \cup {f} /\ nameSpace'[f] = l + 1
      /\ \A k \in DOMAIN nameSpace : nameSpace'[k] = nameSpace[k]
  BY <1>1, <1>6 DEF With
<1>9. nameSpace' \in [DOMAIN nameSpace' -> Nat]
  <2>1. nameSpace' = [k \in DOMAIN nameSpace' |-> nameSpace'[k]]
    BY <1>1, <1>8 DEF With
  <2>2. \A k \in DOMAIN nameSpace' : nameSpace'[k] \in Nat
    BY <1>0, <1>4, <1>8 DEF TypeOK
  <2> QED BY <2>1, <2>2
<1>10. n # 1
  <2>1. n = 1 => cmpl.blocks[n].func = NoFunc
    BY <1>0 DEF IInv, BlocksNest, Entry
  <2> QED BY <1>1, <1>3, <2>1
<1>11. TypeOK' /\ ~Idle'
  BY <1>0, <1>1, <1>2, <1>3, <1>4, <1>5, <1>8, <1>9, <1>10, Working DEF TypeOK, Idle
<1>12. BlocksNest'
  <2>1. \A b \in DOMAIN cmpl.blocks : cmpl.blocks[b].count \in Nat
    <3>1. cmpl.blocks \in Seq(Block) /\ DOMAIN cmpl.blocks = 1..Len(cmpl.blocks)
      BY <1>0, LenProperties DEF TypeOK
    <3>2. \A b \in DOMAIN cmpl.blocks : cmpl.blocks[b] \in Block
      BY <3>1, ElementOfSeq
    <3> QED BY <3>2 DEF Block
  <2>2. \A b \in DOMAIN Outer : Outer[b].count <= l + 1
    <3>1. \A b \in DOMAIN Outer : Outer[b].count \in Nat /\ Outer[b].count <= l
      BY <1>3, <2>1 DEF IInv, BlocksNest, l
    <3> QED BY <1>4, <3>1
  <2>3. Outer[1] = Entry(0, NoFunc)
    <3>1. 1 \in DOMAIN Outer
      BY <1>3, <1>10
    <3> QED BY <1>0, <1>3, <3>1 DEF IInv, BlocksNest
  <2>4. \A b, c \in DOMAIN Outer : b <= c => Outer[b].count <= Outer[c].count
    BY <1>3 DEF IInv, BlocksNest
  <2>5. l + 1 <= MaxFuncs
    BY <1>4, <1>6
  <2> QED BY <1>2, <1>5, <2>2, <2>3, <2>4, <2>5 DEF BlocksNest
<1>13. BodyUnknown'
  <2>1. \A b \in DOMAIN Outer : Outer[b].func = NoFunc
    BY <1>3, <1>6
  <2> QED BY <1>2, <2>1 DEF BodyUnknown
<1>14. NamesSame /\ BuiltinsLead'
  <2>1. f \notin Names /\ Names \cap FuncKeys = {}
    BY <1>4, KeysAssumption
  <2> QED BY <1>1, <1>7, <1>8, <2>1 DEF NamesSame, BuiltinsLead
<1>15. FuncsLead'
  <2>1. f \notin Builtins
    BY <1>6, <1>7 DEF BuiltinsLead
  <2>2. (DOMAIN nameSpace' \cap FuncKeys) \ Builtins = Keys(fs)
    BY <1>4, <1>5, <1>8, <2>1 DEF IInv, FuncsLead
  <2>3. ASSUME NEW i \in 1..l + 1 PROVE nameSpace'[fs[i]] = i
    <3>1. CASE i = l + 1
      BY <3>1, <1>5, <1>8
    <3>2. CASE i \in 1..l
      <4>1. cmpl.funcs[i] \in DOMAIN nameSpace /\ nameSpace[cmpl.funcs[i]] = i
        <5>1. cmpl.funcs[i] \in Keys(cmpl.funcs)
          BY <1>4, <3>2 DEF Keys
        <5> QED BY <1>4, <3>2, <5>1 DEF IInv, FuncsLead
      <4> QED BY <1>5, <1>8, <3>2, <4>1
    <3> QED BY <1>4, <3>1, <3>2
  <2> QED BY <1>2, <1>5, <1>14, <2>2, <2>3 DEF FuncsLead, BuiltinsLead
<1>16. Written' = Written
  BY <1>0, <1>1, <1>2, <1>11 DEF Written
<1> QED BY <1>1, <1>11, <1>12, <1>13, <1>14, <1>15, <1>16, RestKept DEF IInv, Begun

\* The code in the name space leads to the function it stands for.
LEMMA FoundFunc ==
  ASSUME IInv, ~Idle, NEW k \in FuncKeys, k \in DOMAIN nameSpace
  PROVE  /\ FuncOf(nameSpace[k]) = k
         /\ k \in Keys(HostFuncs) =>
              nameSpace[k] >= Custom /\ nameSpace[k] - Custom + 1 = Last(HostFuncs, k)
<1>1. CASE k \in Builtins
  <2>1. nameSpace[k] = CodeOf(k)
    BY <1>1 DEF IInv, Begun, BuiltinsLead
  <2> QED BY <1>1, <2>1, CodeLeads
<1>2. CASE k \notin Builtins
  <2>1. k \in Keys(cmpl.funcs)
    BY <1>2 DEF IInv, FuncsLead
  <2>2. PICK i \in DOMAIN cmpl.funcs : cmpl.funcs[i] = k
    BY <2>1 DEF Keys
  <2>3. nameSpace[k] = i
    BY <2>2 DEF IInv, FuncsLead
  <2>4. i \in Nat /\ i <= MaxFuncs
    <3>1. DOMAIN cmpl.funcs = 1..Len(cmpl.funcs) /\ Len(cmpl.funcs) \in Nat
      BY LenProperties DEF IInv, TypeOK
    <3> QED BY <2>2, <3>1, CodesAssumption DEF IInv, BlocksNest
  <2>5. ~(i >= Embedded) /\ ~(i >= Custom)
    <3>1. Embedded <= Custom
      <4>1. Len(Library) \in Nat
        BY KeysAssumption, LenProperties
      <4> QED BY <4>1, CodesAssumption
    <3> QED BY <2>4, <3>1, CodesAssumption
  <2>6. k \notin Keys(HostFuncs)
    BY <1>2 DEF Builtins
  <2> QED BY <2>2, <2>3, <2>5, <2>6 DEF FuncOf
<1> QED BY <1>1, <1>2

\* The contract at work is written on.
LEMMA Writing ==
  ASSUME IInv, ~Idle, NEW cnt \in ContractType,
         cmpl' = [cnt |-> cnt, funcs |-> cmpl.funcs, blocks |-> cmpl.blocks],
         UNCHANGED <<nameSpace, contracts, made>>,
         \A u \in cnt.uses : u \in cmpl.cnt.uses \/ u.found \in {u.sought, Soft[u.sought]},
         \A call \in cnt.calls : call \in cmpl.cnt.calls
           \/ (call.ind < Len(contracts) /\ Of(call.ind).name = call.to)
  PROVE  IInv'
<1>1. cmpl'.cnt = cnt /\ cmpl'.funcs = cmpl.funcs /\ cmpl'.blocks = cmpl.blocks
  OBVIOUS
<1>2. TypeOK' /\ ~Idle'
  BY <1>1 DEF IInv, TypeOK, Idle
<1>3. BlocksNest' /\ BodyUnknown' /\ FuncsLead' /\ Begun'
  BY <1>1, <1>2 DEF IInv, BlocksNest, BodyUnknown, FuncsLead, Begun, BuiltinsLead
<1>4. NamesLead'
  BY DEF IInv, NamesLead, Linked, Of
<1>5. Written' = Keys(made) \cup {cnt} /\ Written = Keys(made) \cup {cmpl.cnt}
  BY <1>1, <1>2 DEF Written
<1>6. UsesFound' /\ CallsLead'
  BY <1>5 DEF IInv, UsesFound, CallsLead, Of
<1> QED BY <1>2, <1>3, <1>4, <1>6 DEF IInv

LEMMA CallFuncStep ==
  ASSUME IInv, NEW k \in FuncKeys, CallFunc(k)
  PROVE  IInv'
<1> DEFINE s == Sought(k)
           use == [sought |-> k, found |-> s]
           cnt == [name |-> cmpl.cnt.name, read |-> cmpl.cnt.read, params |-> cmpl.cnt.params,
                   calls |-> cmpl.cnt.calls, uses |-> cmpl.cnt.uses \cup {use}]
<1>0. TypeOK /\ ~Idle /\ s \in DOMAIN nameSpace
  BY DEF IInv, CallFunc
<1>1. s \in FuncKeys /\ s \in {k, Soft[k]}
  BY KeysAssumption DEF Sought
<1>2. FuncOf(nameSpace[s]) = s
  BY <1>0, <1>1, FoundFunc
<1>3. cmpl.cnt \in ContractType /\ cmpl = [cnt |-> cmpl.cnt, funcs |-> cmpl.funcs, blocks |-> cmpl.blocks]
  BY <1>0, Working
<1>4. [cmpl.cnt EXCEPT !.uses = @ \cup {use}] = cnt
  BY <1>3 DEF ContractType
<1>5. use \in Use
  BY <1>1 DEF Use
<1>6. cnt \in ContractType
  BY <1>3, <1>5 DEF ContractType
<1>7. cmpl' = [cmpl EXCEPT !.cnt.uses = @ \cup {use}] /\ UNCHANGED <<nameSpace, contracts, made>>
  BY <1>2 DEF CallFunc
<1>8. cmpl' = [cnt |-> cnt, funcs |-> cmpl.funcs, blocks |-> cmpl.blocks]
  BY <1>3, <1>4, <1>7
<1>9. \A u \in cnt.uses : u \in cmpl.cnt.uses \/ u.found \in {u.sought, Soft[u.sought]}
  BY <1>1
<1>10. \A call \in cnt.calls : call \in cmpl.cnt.calls
           \/ (call.ind < Len(contracts) /\ Of(call.ind).name = call.to)
  OBVIOUS
<1>11. UNCHANGED <<nameSpace, contracts, made>>
  BY <1>7
<1> HIDE DEF cnt
<1> QED BY <1>0, <1>6, <1>8, <1>9, <1>10, <1>11, Writing, Zenon

\* A name that is linked leads to a contract of it.
LEMMA FoundContract ==
  ASSUME TypeOK, NamesLead, NEW n \in Names, Linked(n)
  PROVE  /\ nameSpace[n] \in Nat /\ nameSpace[n] < Len(contracts)
         /\ Of(nameSpace[n]) \in ContractType /\ Of(nameSpace[n]) \in Keys(made)
         /\ Of(nameSpace[n]).name = n
<1>1. nameSpace[n] \in Nat
  BY DEF TypeOK, Linked
<1>2. nameSpace[n] < Len(contracts) /\ Of(nameSpace[n]).name = n
  BY DEF NamesLead
<1>3. nameSpace[n] + 1 \in DOMAIN contracts
  BY <1>1, <1>2, MadeTyped
<1> QED BY <1>1, <1>2, <1>3, MadeTyped DEF Of, Keys

LEMMA CallContractStep ==
  ASSUME IInv, NEW n \in Names, NEW args \in ArgSets, CallContract(n, args)
  PROVE  IInv'
<1> DEFINE given == GivenOf(Of(nameSpace[n]).params, args)
           call == [to |-> n, ind |-> nameSpace[n], given |-> given]
           cnt == [name |-> cmpl.cnt.name, read |-> cmpl.cnt.read, params |-> cmpl.cnt.params,
                   calls |-> cmpl.cnt.calls \cup {call}, uses |-> cmpl.cnt.uses]
<1>0. TypeOK /\ NamesLead /\ ~Idle /\ Linked(n)
  BY DEF IInv, CallContract
<1>1. /\ nameSpace[n] \in Nat /\ nameSpace[n] < Len(contracts)
      /\ Of(nameSpace[n]) \in ContractType /\ Of(nameSpace[n]).name = n
  BY <1>0, FoundContract
<1>2. given \in SUBSET Given
  <2>1. Of(nameSpace[n]).params \in ParamLists
    BY <1>1, ContractFields
  <2>2. \A a \in args : Known(Of(nameSpace[n]).params, a)
    BY DEF CallContract
  <2> QED BY <2>1, <2>2, GivenFits
<1> HIDE DEF given
<1>3. cmpl.cnt \in ContractType /\ cmpl = [cnt |-> cmpl.cnt, funcs |-> cmpl.funcs, blocks |-> cmpl.blocks]
  BY <1>0, Working
<1>4. call \in Call
  BY <1>1, <1>2 DEF Call
<1>5. cnt \in ContractType /\ [cmpl.cnt EXCEPT !.calls = @ \cup {call}] = cnt
  BY <1>3, <1>4 DEF ContractType
<1>6. cmpl' = [cmpl EXCEPT !.cnt.calls = @ \cup {call}] /\ UNCHANGED <<nameSpace, contracts, made>>
  BY DEF CallContract, given
<1>7. cmpl' = [cnt |-> cnt, funcs |-> cmpl.funcs, blocks |-> cmpl.blocks]
  BY <1>3, <1>5, <1>6
<1>8. \A u \in cnt.uses : u \in cmpl.cnt.uses \/ u.found \in {u.sought, Soft[u.sought]}
  OBVIOUS
<1>9. \A c \in cnt.calls : c \in cmpl.cnt.calls
        \/ (c.ind < Len(contracts) /\ Of(c.ind).name = c.to)
  BY <1>1
<1>10. UNCHANGED <<nameSpace, contracts, made>>
  BY <1>6
<1> HIDE DEF cnt
<1> QED BY <1>0, <1>5, <1>7, <1>8, <1>9, <1>10, Writing, Zenon

\* A compilation ends: the compiler is idle and its functions are gone.
LEMMA Ending ==
  ASSUME IInv, ~Idle, nameSpace' = Without(Keys(cmpl.funcs)), cmpl' = Nothing,
         contracts' = contracts
  PROVE  /\ DOMAIN nameSpace' \subseteq Names \cup FuncKeys
         /\ nameSpace' \in [DOMAIN nameSpace' -> Nat]
         /\ NamesSame /\ Space' /\ Idle'
<1>0. cmpl.funcs \in Seq(FuncKeys) /\ DOMAIN cmpl.funcs = 1..Len(cmpl.funcs) /\ Len(cmpl.funcs) \in Nat
  BY LenProperties DEF IInv, TypeOK
<1>1. cmpl'.funcs = <<>> /\ cmpl'.blocks = <<>> /\ DOMAIN <<>> = {} /\ Len(<<>>) = 0
  BY DEF Nothing
<1>2. cmpl'.funcs = SubSeq(cmpl.funcs, 1, 0)
  BY <1>1, SubSeqEmpty
<1>3. Keys(cmpl.funcs) = {cmpl.funcs[i] : i \in 0 + 1..Len(cmpl.funcs)}
  BY <1>0 DEF Keys
<1>4. BuiltinsLead /\ 0 \in 0..Len(cmpl.funcs)
  BY <1>0 DEF IInv, Begun
<1>5. /\ DOMAIN nameSpace' \subseteq Names \cup FuncKeys
      /\ nameSpace' \in [DOMAIN nameSpace' -> Nat]
      /\ NamesSame /\ BuiltinsLead' /\ FuncsLead'
  BY <1>2, <1>3, <1>4, Dropping
<1>6. Idle' /\ BlocksNest' /\ BodyUnknown'
  BY <1>1, CodesAssumption DEF Idle, BlocksNest, BodyUnknown
<1> QED BY <1>5, <1>6 DEF Space, Begun

LEMMA RejectStep ==
  ASSUME IInv, Reject
  PROVE  IInv'
<1>1. /\ ~Idle /\ nameSpace' = Without(Keys(cmpl.funcs)) /\ cmpl' = Nothing
      /\ contracts' = contracts /\ made' = made
  BY DEF Reject
<1>2. NamesSame /\ Space' /\ Idle'
  BY <1>1, Ending
<1>3. TypeOK'
  <2>1. cmpl'.funcs = <<>> /\ cmpl'.blocks = <<>>
    BY <1>1 DEF Nothing
  <2>2. <<>> \in Seq(FuncKeys) /\ <<>> \in Seq(Block)
    OBVIOUS
  <2> QED BY <1>1, <1>2, <2>1, <2>2, Ending DEF IInv, TypeOK
<1>4. Written' \subseteq Written
  BY <1>1, <1>2 DEF Written
<1> QED BY <1>1, <1>2, <1>3, <1>4, RestKept DEF IInv, Space

LEMMA CloseContractStep ==
  ASSUME IInv, CloseContract
  PROVE  IInv'
<1> DEFINE cnt == cmpl.cnt
           n == Len(made)
<1>0. TypeOK /\ ~Idle
  BY DEF IInv, CloseContract
<1>1. /\ nameSpace' = Without(Dropped) /\ cmpl' = Nothing /\ contracts' = contracts
      /\ made' = Append(made, cnt) /\ Outer = <<>>
  BY DEF CloseContract
<1>2. Dropped = Keys(cmpl.funcs)
  <2>1. Inner.count = 0
    BY <1>0, <1>1, Working DEF Inner, IInv, BlocksNest, Entry
  <2>2. DOMAIN cmpl.funcs = 1..Len(cmpl.funcs)
    BY <1>0, LenProperties DEF TypeOK
  <2> QED BY <2>1, <2>2 DEF Dropped, Keys
<1>3. NamesSame /\ Space' /\ Idle'
  BY <1>0, <1>1, <1>2, Ending
<1>4. cnt \in ContractType /\ made \in Seq(ContractType)
  BY <1>0, Working DEF TypeOK
<1>5. /\ made' \in Seq(ContractType) /\ DOMAIN made = 1..n /\ DOMAIN made' = 1..n + 1 /\ n \in Nat
      /\ \A o \in 1..n : made'[o] = made[o]
      /\ Keys(made') = Keys(made) \cup {cnt}
  <2>1. made' \in Seq(ContractType) /\ Len(made') = n + 1 /\ \A o \in 1..n : made'[o] = made[o]
    BY <1>1, <1>4, AppendProperties
  <2>2. Keys(made') = Keys(made) \cup {cnt}
    BY <1>1, <1>4, KeysAppend
  <2> QED BY <1>4, <2>1, <2>2, LenProperties
<1>6. MadeStays
  BY <1>5 DEF MadeStays
<1>7. contracts' \in Seq(DOMAIN made')
  <2>1. contracts \in Seq(DOMAIN made) /\ DOMAIN made \subseteq DOMAIN made'
    BY <1>0, <1>6 DEF TypeOK, MadeStays
  <2> QED BY <1>1, <2>1, SeqMonotonic
<1>8. TypeOK'
  <2>1. cmpl'.funcs = <<>> /\ cmpl'.blocks = <<>>
    BY <1>1 DEF Nothing
  <2>2. <<>> \in Seq(FuncKeys) /\ <<>> \in Seq(Block)
    OBVIOUS
  <2> QED BY <1>0, <1>1, <1>2, <1>3, <1>5, <1>7, <2>1, <2>2, Ending DEF TypeOK
<1>9. Written' = Written
  BY <1>0, <1>3, <1>5 DEF Written
<1>10. CallsStay
  BY <1>0, <1>1, <1>6, MadeTyped DEF CallsStay, MadeStays
<1>11. NamesLead' /\ CallsLead'
  BY <1>0, <1>3, <1>6, <1>8, <1>9, <1>10, NamesKept, CallsKept, WrittenTyped DEF IInv
<1>12. UsesFound'
  BY <1>9 DEF IInv, UsesFound
<1> QED BY <1>3, <1>8, <1>11, <1>12 DEF IInv, Space

-----------------------------------------------------------------------------
(***************************************************************************)
(* Link.  The compiler is idle and no function comes or goes.              *)
(***************************************************************************)
LEMMA LinkNewStep ==
  ASSUME IInv, NEW o \in DOMAIN made, LinkNew(o)
  PROVE  IInv'
<1> DEFINE name == made[o].name
           n == Len(contracts)
<1>0. TypeOK /\ NamesLead /\ Idle /\ name \notin DOMAIN nameSpace
  BY DEF IInv, LinkNew, Linked
<1>1. /\ contracts' = Append(contracts, o) /\ nameSpace' = With(name, n)
      /\ made' = made /\ cmpl' = cmpl
  BY DEF LinkNew
<1>2. name \in Names /\ name \notin FuncKeys /\ contracts \in Seq(DOMAIN made)
  BY <1>0, MadeTyped, ContractFields, KeysAssumption DEF TypeOK
<1>3. /\ contracts' \in Seq(DOMAIN made) /\ Len(contracts') = n + 1 /\ n \in Nat
      /\ DOMAIN contracts = 1..n /\ DOMAIN contracts' = 1..n + 1
      /\ \A i \in 1..n : contracts'[i] = contracts[i]
      /\ contracts'[n + 1] = o
  <2>1. /\ contracts' \in Seq(DOMAIN made) /\ Len(contracts') = n + 1
        /\ (\A i \in 1..n : contracts'[i] = contracts[i]) /\ contracts'[n + 1] = o
    BY <1>1, <1>2, AppendProperties
  <2> QED BY <1>2, <2>1, LenProperties
<1> HIDE DEF name, n
<1>4. /\ DOMAIN nameSpace' = DOMAIN nameSpace \cup {name} /\ nameSpace'[name] = n
      /\ \A k \in DOMAIN nameSpace : nameSpace'[k] = nameSpace[k]
  BY <1>0, <1>1 DEF With
<1>5. TypeOK'
  <2>1. nameSpace' = [k \in DOMAIN nameSpace' |-> nameSpace'[k]]
    BY <1>1, <1>4 DEF With
  <2>2. \A k \in DOMAIN nameSpace' : nameSpace'[k] \in Nat
    BY <1>0, <1>3, <1>4 DEF TypeOK
  <2>3. nameSpace' \in [DOMAIN nameSpace' -> Nat]
    BY <2>1, <2>2
  <2> QED BY <1>0, <1>1, <1>2, <1>3, <1>4, <2>3 DEF TypeOK, Idle
<1>6. BuiltinsLead
  <2>1. made # <<>>
    OBVIOUS
  <2> QED BY <2>1 DEF IInv, Begun
<1>7. Space'
  <2>1. cmpl.funcs = <<>> /\ cmpl.blocks = <<>> /\ DOMAIN cmpl.blocks = {}
    BY <1>0, IdleCompiler
  <2>2. BlocksNest' /\ BodyUnknown'
    BY <1>0, <1>1, <2>1 DEF IInv, BlocksNest, BodyUnknown, Idle
  <2>3. BuiltinsLead'
    BY <1>4, <1>6 DEF BuiltinsLead
  <2>4. DOMAIN nameSpace' \cap FuncKeys = DOMAIN nameSpace \cap FuncKeys
    BY <1>2, <1>4
  <2>5. FuncsLead'
    <3>1. DOMAIN cmpl.funcs = {}
      BY <2>1
    <3> QED BY <1>1, <2>3, <2>4, <3>1 DEF IInv, FuncsLead, BuiltinsLead
  <2> QED BY <2>2, <2>3, <2>5 DEF Space, Begun
<1>8. NamesLead'
  <2>1. ASSUME NEW m \in Names, m \in DOMAIN nameSpace'
        PROVE  nameSpace'[m] < n + 1 /\ made[contracts'[nameSpace'[m] + 1]].name = m
    <3>1. CASE m = name
      BY <3>1, <1>3, <1>4 DEF name
    <3>2. CASE m # name
      <4>1. m \in DOMAIN nameSpace /\ nameSpace'[m] = nameSpace[m]
        BY <1>4, <2>1, <3>2
      <4>2. nameSpace[m] \in Nat /\ nameSpace[m] < n /\ made[contracts[nameSpace[m] + 1]].name = m
        BY <1>0, <4>1, FoundContract DEF Linked, Of, n
      <4>3. nameSpace[m] + 1 \in 1..n
        BY <1>3, <4>2
      <4> QED BY <1>3, <4>1, <4>2, <4>3
    <3> QED BY <3>1, <3>2
  <2>2. ASSUME NEW i \in 1..n + 1
        PROVE  /\ made[contracts'[i]].name \in DOMAIN nameSpace'
               /\ nameSpace'[made[contracts'[i]].name] = i - 1
    <3>1. CASE i = n + 1
      BY <3>1, <1>3, <1>4 DEF name
    <3>2. CASE i \in 1..n
      BY <3>2, <1>0, <1>3, <1>4 DEF NamesLead, Linked
    <3> QED BY <1>3, <3>1, <3>2
  <2> QED BY <1>1, <1>3, <2>1, <2>2 DEF NamesLead, Linked, Of
<1>9. Written' = Written
  BY <1>1 DEF Written, Idle
<1>10. CallsStay
  BY <1>1, <1>3 DEF CallsStay
<1>11. CallsLead' /\ UsesFound'
  BY <1>0, <1>5, <1>9, <1>10, CallsKept, WrittenTyped DEF IInv, UsesFound
<1> QED BY <1>5, <1>7, <1>8, <1>11 DEF IInv, Space

LEMMA ReloadStep ==
  ASSUME IInv, NEW o \in DOMAIN made, Reload(o)
  PROVE  IInv'
<1> DEFINE name == made[o].name
           i0 == nameSpace[name] + 1
           n == Len(contracts)
<1>0. TypeOK /\ NamesLead /\ Idle /\ Linked(name)
  BY DEF IInv, Reload
<1>1. /\ contracts' = [contracts EXCEPT ![i0] = o]
      /\ nameSpace' = nameSpace /\ made' = made /\ cmpl' = cmpl
  BY DEF Reload
<1>2. name \in Names /\ contracts \in Seq(DOMAIN made) /\ n \in Nat
  BY <1>0, MadeTyped, ContractFields, LenProperties DEF TypeOK
<1>3. i0 \in 1..n /\ made[contracts[i0]].name = name
  BY <1>0, <1>2, FoundContract DEF Of
<1>4. /\ contracts' \in Seq(DOMAIN made) /\ Len(contracts') = n
      /\ DOMAIN contracts = 1..n /\ DOMAIN contracts' = 1..n
      /\ \A i \in 1..n : contracts'[i] = (IF i = i0 THEN o ELSE contracts[i])
  <2>1. contracts' \in Seq(DOMAIN made) /\ Len(contracts') = n
        /\ \A i \in 1..n : contracts'[i] = (IF i = i0 THEN o ELSE contracts[i])
    <3> HIDE DEF i0
    <3> QED BY <1>1, <1>2, <1>3, ExceptSeq
  <2> QED BY <1>2, <2>1, LenProperties
<1> HIDE DEF i0, n
<1>5. \A i \in 1..n : made[contracts'[i]].name = made[contracts[i]].name
  BY <1>3, <1>4
<1>6. TypeOK'
  BY <1>0, <1>1, <1>4 DEF TypeOK, Idle
<1>7. Space'
  BY <1>1 DEF IInv, Space, BlocksNest, BodyUnknown, Begun, BuiltinsLead, FuncsLead, Idle
<1>8. NamesLead'
  <2>1. ASSUME NEW m \in Names, m \in DOMAIN nameSpace
        PROVE  nameSpace[m] < n /\ made[contracts'[nameSpace[m] + 1]].name = m
    <3>1. nameSpace[m] \in Nat /\ nameSpace[m] < n /\ made[contracts[nameSpace[m] + 1]].name = m
      BY <1>0, <2>1, FoundContract DEF Linked, Of, n
    <3>2. nameSpace[m] + 1 \in 1..n
      BY <1>2, <3>1 DEF n
    <3> QED BY <1>5, <3>1, <3>2
  <2> QED BY <1>0, <1>1, <1>4, <1>5, <2>1 DEF NamesLead, Linked, Of
<1>9. Written' = Written /\ CallsStay
  BY <1>1, <1>4, <1>5 DEF Written, Idle, CallsStay
<1>10. CallsLead' /\ UsesFound'
  BY <1>0, <1>6, <1>9, CallsKept, WrittenTyped DEF IInv, UsesFound
<1> QED BY <1>6, <1>7, <1>8, <1>10 DEF IInv, Space

-----------------------------------------------------------------------------
(***************************************************************************)
(* The theorems.                                                           *)
(***************************************************************************)
LEMMA InitIInv == Init => IInv
<1> SUFFICES ASSUME Init PROVE IInv
  OBVIOUS
<1>1. /\ nameSpace = [k \in {} |-> 0] /\ contracts = <<>> /\ made = <<>> /\ cmpl = Nothing
      /\ cmpl.funcs = <<>> /\ cmpl.blocks = <<>>
  BY DEF Init, Nothing
<1>2. /\ \A S : <<>> \in Seq(S)
      /\ DOMAIN nameSpace = {} /\ DOMAIN <<>> = {} /\ Len(<<>>) = 0 /\ MaxFuncs \in Nat
  BY <1>1, CodesAssumption
<1>3. Idle /\ Written = {} /\ Keys(<<>>) = {}
  BY <1>1, <1>2 DEF Idle, Written, Keys
<1>4. TypeOK
  <2>1. nameSpace \in [DOMAIN nameSpace -> Nat]
    BY <1>1, <1>2
  <2> QED BY <1>1, <1>2, <1>3, <2>1 DEF TypeOK
<1>5. BlocksNest /\ BodyUnknown /\ Begun /\ FuncsLead
  BY <1>1, <1>2, <1>3 DEF BlocksNest, BodyUnknown, Begun, FuncsLead
<1>6. NamesLead /\ UsesFound /\ CallsLead
  BY <1>1, <1>2, <1>3 DEF NamesLead, Linked, UsesFound, CallsLead
<1> QED BY <1>4, <1>5, <1>6 DEF IInv

LEMMA NextIInv ==
  ASSUME IInv, [Next]_vars
  PROVE  IInv'
<1>1. CASE UNCHANGED vars
  BY <1>1 DEF vars, IInv, TypeOK, BlocksNest, BodyUnknown, Begun, BuiltinsLead, NamesLead,
     FuncsLead, UsesFound, CallsLead, Idle, Linked, Of, Written
<1>2. CASE ParseFails BY <1>2, ParseFailsStep
<1>3. CASE OpenBlock BY <1>3, OpenBlockStep
<1>4. CASE CloseBlock BY <1>4, CloseBlockStep
<1>5. CASE CloseFunc BY <1>5, CloseFuncStep
<1>6. CASE CloseContract BY <1>6, CloseContractStep
<1>7. CASE Reject BY <1>7, RejectStep
<1>8. CASE \E n \in Names, read \in BOOLEAN, ps \in ParamLists : Compile(n, read, ps)
  BY <1>8, CompileStep
<1>9. CASE \E k \in FuncKeys : OpenFunc(k) \/ CallFunc(k)
  BY <1>9, OpenFuncStep, CallFuncStep
<1>10. CASE \E n \in Names, args \in ArgSets : CallContract(n, args)
  BY <1>10, CallContractStep
<1>11. CASE \E o \in DOMAIN made : LinkNew(o) \/ Reload(o)
  BY <1>11, LinkNewStep, ReloadStep
<1> QED BY <1>1, <1>2, <1>3, <1>4, <1>5, <1>6, <1>7, <1>8, <1>9, <1>10, <1>11 DEF Next

THEOREM Invariance == Spec => []IInv
<1>1. Init => IInv BY InitIInv
<1>2. IInv /\ [Next]_vars => IInv' BY NextIInv
<1> QED BY <1>1, <1>2, PTL DEF Spec

\* Names lead to contracts and functions, and not elsewhere.
THEOREM TypeCorrect == Spec => []TypeOK
BY Invariance, PTL DEF IInv

\* A name leads to the contract of that name, also after contracts were replaced.
THEOREM NamesAlwaysLead == Spec => []NamesLead
BY Invariance, PTL DEF IInv

\* No function outlives the compilation of its contract in the name space, and no
\* library or host function is lost.
THEOREM FuncsAlwaysLead == Spec => []FuncsLead
BY Invariance, PTL DEF IInv

\* Every call of a function is compiled to one of its name and types.
THEOREM UsesAlwaysFound == Spec => []UsesFound
BY Invariance, PTL DEF IInv

\* The index in a call of a contract leads to a contract of the name at any later time.
THEOREM CallsAlwaysLead == Spec => []CallsLead
BY Invariance, PTL DEF IInv

-----------------------------------------------------------------------------
(***************************************************************************)
(* On a machine where no contract is replaced, what the compiler has       *)
(* checked of a called contract stays true.                                *)
(***************************************************************************)
Checked == CallsFit /\ ReadClosed /\ CallsDescend

\* The contract at an index is never another one.
OfStays == \A i \in DOMAIN contracts :
             i \in DOMAIN contracts' /\ made'[contracts'[i]] = made[contracts[i]]

\* The calls of a contract are right, as they are in CallsFit and ReadClosed.
RightCall(c, call) ==
  /\ \A g \in call.given :
       /\ g.index + 1 \in DOMAIN Of(call.ind).params
       /\ Of(call.ind).params[g.index + 1] = [name |-> g.name, type |-> g.type]
  /\ c.read => Of(call.ind).read
RightUse(c, u) ==
  c.read /\ u.found \in Keys(HostFuncs) => Last(HostFuncs, u.found) \in Reading
Right(c) == (\A call \in c.calls : RightCall(c, call)) /\ (\A u \in c.uses : RightUse(c, u))

LEMMA RightMeans == (\A c \in Written : Right(c)) <=> CallsFit /\ ReadClosed
BY DEF Right, RightCall, RightUse, CallsFit, ReadClosed

LEMMA RightKept ==
  ASSUME IInv, OfStays, NEW c \in Written, Right(c)
  PROVE  Right(c)'
<1>1. ASSUME NEW call \in c.calls PROVE Of(call.ind)' = Of(call.ind)
  <2>1. call.ind \in Nat /\ call.ind < Len(contracts)
    BY WrittenTyped, ContractFields DEF IInv, CallsLead, Call
  <2>2. call.ind + 1 \in DOMAIN contracts
    BY <2>1, MadeTyped DEF IInv
  <2> QED BY <2>2 DEF OfStays, Of
<1>2. \A call \in c.calls : RightCall(c, call)'
  BY <1>1 DEF Right, RightCall
<1> QED BY <1>2 DEF Right, RightUse

LEMMA ContractsStay ==
  ASSUME IInv, ~Reloads, [Next]_vars
  PROVE  OfStays
<1>0. \A i \in DOMAIN contracts : contracts[i] \in DOMAIN made
  BY MadeTyped DEF IInv
<1>1. CASE contracts' = contracts /\ made' = made
  BY <1>1 DEF OfStays
<1>2. CASE CloseContract
  <2>1. made' = Append(made, cmpl.cnt) /\ contracts' = contracts /\ cmpl.cnt \in ContractType
        /\ made \in Seq(ContractType)
    BY <1>2, Working DEF CloseContract, IInv, TypeOK
  <2>2. \A o \in DOMAIN made : made'[o] = made[o]
    BY <2>1, AppendProperties, LenProperties
  <2> QED BY <1>0, <2>1, <2>2 DEF OfStays
<1>3. CASE \E o \in DOMAIN made : LinkNew(o)
  <2>1. PICK o \in DOMAIN made : contracts' = Append(contracts, o) /\ made' = made
    BY <1>3 DEF LinkNew
  <2>2. contracts \in Seq(DOMAIN made)
    BY DEF IInv, TypeOK
  <2>3. \A i \in DOMAIN contracts : i \in DOMAIN contracts' /\ contracts'[i] = contracts[i]
    <3>1. /\ contracts' \in Seq(DOMAIN made) /\ Len(contracts') = Len(contracts) + 1
          /\ \A i \in 1..Len(contracts) : contracts'[i] = contracts[i]
      BY <2>1, <2>2, AppendProperties
    <3> QED BY <2>2, <3>1, LenProperties
  <2> QED BY <2>1, <2>3 DEF OfStays
<1> QED BY <1>1, <1>2, <1>3 DEF Next, vars, ParseFails, OpenBlock, CloseBlock, CloseFunc, Reject,
           Compile, OpenFunc, CallFunc, CallContract, Reload

\* What is written into a contract is right.
LEMMA CompileRight ==
  ASSUME NEW n \in Names, NEW read \in BOOLEAN, NEW params \in ParamLists,
         Compile(n, read, params), NEW c \in Written', c \notin Written
  PROVE  Right(c)'
<1>1. cmpl'.cnt.calls = {} /\ cmpl'.cnt.uses = {} /\ made' = made
  BY DEF Compile
<1>2. c = cmpl'.cnt
  BY <1>1 DEF Written
<1> QED BY <1>1, <1>2 DEF Right

LEMMA CallFuncRight ==
  ASSUME IInv, CallsFit, ReadClosed, NEW k \in FuncKeys, CallFunc(k),
         NEW c \in Written', c \notin Written
  PROVE  Right(c)'
<1> DEFINE s == Sought(k)
           use == [sought |-> k, found |-> s]
           d == cmpl.cnt
<1>0. ~Idle /\ s \in DOMAIN nameSpace /\ s \in FuncKeys
  BY KeysAssumption DEF CallFunc, Sought
<1>1. FuncOf(nameSpace[s]) = s
      /\ (s \in Keys(HostFuncs) =>
            nameSpace[s] >= Custom /\ nameSpace[s] - Custom + 1 = Last(HostFuncs, s))
  BY <1>0, FoundFunc
<1>2. d \in ContractType /\ cmpl = [cnt |-> d, funcs |-> cmpl.funcs, blocks |-> cmpl.blocks]
  BY <1>0, Working DEF IInv
<1>3. /\ cmpl' = [cmpl EXCEPT !.cnt.uses = @ \cup {use}] /\ contracts' = contracts /\ made' = made
      /\ (d.read /\ nameSpace[s] >= Custom => nameSpace[s] - Custom + 1 \in Reading)
  BY <1>1 DEF CallFunc
<1>4. cmpl'.cnt = [d EXCEPT !.uses = @ \cup {use}]
  BY <1>2, <1>3
<1>5. /\ cmpl'.cnt.calls = d.calls /\ cmpl'.cnt.uses = d.uses \cup {use}
      /\ cmpl'.cnt.read = d.read
  BY <1>2, <1>4 DEF ContractType
<1>6. c = cmpl'.cnt
  BY <1>3 DEF Written
<1>7. Right(d)
  <2>1. d \in Written
    BY <1>0 DEF Written
  <2> QED BY <2>1, RightMeans
<1>8. RightUse(c, use)
  BY <1>1, <1>3, <1>5, <1>6 DEF RightUse
<1> HIDE DEF use, d
<1>9. \A u \in c.uses : RightUse(c, u)
  BY <1>5, <1>6, <1>7, <1>8 DEF Right, RightUse
<1>10. \A call \in c.calls : RightCall(c, call)'
  BY <1>3, <1>5, <1>6, <1>7 DEF Right, RightCall, Of
<1> QED BY <1>9, <1>10 DEF Right, RightUse

LEMMA CallContractRight ==
  ASSUME IInv, CallsFit, ReadClosed, NEW n \in Names, NEW args \in ArgSets,
         CallContract(n, args), NEW c \in Written', c \notin Written
  PROVE  Right(c)'
<1> DEFINE callee == Of(nameSpace[n])
           new == [to |-> n, ind |-> nameSpace[n], given |-> GivenOf(callee.params, args)]
           d == cmpl.cnt
<1>0. ~Idle /\ Linked(n) /\ (d.read => callee.read) /\ \A a \in args : Known(callee.params, a)
  BY DEF CallContract, MayCall
<1>1. d \in ContractType /\ cmpl = [cnt |-> d, funcs |-> cmpl.funcs, blocks |-> cmpl.blocks]
  BY <1>0, Working DEF IInv
<1>2. cmpl' = [cmpl EXCEPT !.cnt.calls = @ \cup {new}] /\ contracts' = contracts /\ made' = made
  BY DEF CallContract
<1>3. cmpl'.cnt = [d EXCEPT !.calls = @ \cup {new}]
  BY <1>1, <1>2
<1>4. /\ cmpl'.cnt.calls = d.calls \cup {new} /\ cmpl'.cnt.uses = d.uses
      /\ cmpl'.cnt.read = d.read
  BY <1>1, <1>3 DEF ContractType
<1>5. c = cmpl'.cnt
  BY <1>2 DEF Written
<1>6. Right(d)
  <2>1. d \in Written
    BY <1>0 DEF Written
  <2> QED BY <2>1, RightMeans
<1>7. RightCall(c, new)
  <2>1. callee \in ContractType
    BY <1>0, FoundContract DEF IInv
  <2>2. \A g \in GivenOf(callee.params, args) :
          /\ g.index + 1 \in DOMAIN callee.params
          /\ callee.params[g.index + 1] = [name |-> g.name, type |-> g.type]
    BY <1>0, <2>1, ContractFields, GivenFits
  <2>3. new.ind = nameSpace[n] /\ new.given = GivenOf(callee.params, args)
    OBVIOUS
  <2> HIDE DEF new
  <2> QED BY <1>0, <1>4, <1>5, <2>2, <2>3 DEF RightCall
<1> HIDE DEF new, d
<1>8. \A call \in c.calls : RightCall(c, call)
  BY <1>4, <1>5, <1>6, <1>7 DEF Right, RightCall
<1>9. \A call \in c.calls : RightCall(c, call)'
  BY <1>2, <1>8 DEF RightCall, Of
<1>10. \A u \in c.uses : RightUse(c, u)
  BY <1>4, <1>5, <1>6 DEF Right, RightUse
<1> QED BY <1>9, <1>10 DEF Right, RightUse

LEMMA WrittenRight ==
  ASSUME IInv, IInv', CallsFit, ReadClosed, [Next]_vars, NEW c \in Written', c \notin Written
  PROVE  Right(c)'
<1>0. TypeOK /\ Written' = Keys(made') \cup (IF Idle' THEN {} ELSE {cmpl'.cnt})
      /\ Written = Keys(made) \cup (IF Idle THEN {} ELSE {cmpl.cnt})
  BY DEF IInv, Written
<1>1. CASE \E n \in Names, read \in BOOLEAN, ps \in ParamLists : Compile(n, read, ps)
  BY <1>1, CompileRight
<1>2. CASE \E k \in FuncKeys : CallFunc(k)
  BY <1>2, CallFuncRight
<1>3. CASE \E n \in Names, args \in ArgSets : CallContract(n, args)
  BY <1>3, CallContractRight
<1>4. CASE made' = made /\ cmpl' = cmpl
  BY <1>4 DEF Written, Idle
<1>5. CASE made' = made /\ cmpl'.cnt = cmpl.cnt /\ ~Idle
  BY <1>0, <1>5
<1>6. CASE made' = made /\ Idle'
  BY <1>0, <1>6
<1>7. CASE CloseContract
  <2>1. /\ ~Idle /\ made' = Append(made, cmpl.cnt) /\ cmpl' = Nothing
        /\ cmpl.cnt \in ContractType /\ made \in Seq(ContractType)
    BY <1>0, <1>7, Working DEF CloseContract, TypeOK
  <2>2. Idle'
    BY <2>1 DEF Idle, Nothing
  <2>3. Keys(made') = Keys(made) \cup {cmpl.cnt}
    BY <2>1, KeysAppend
  <2> QED BY <1>0, <2>1, <2>2, <2>3
<1>8. CASE OpenBlock \/ CloseBlock \/ CloseFunc \/ \E k \in FuncKeys : OpenFunc(k)
  <2>1. ~Idle /\ made' = made
    BY <1>8 DEF OpenBlock, CloseBlock, CloseFunc, OpenFunc
  <2>2. cmpl = [cnt |-> cmpl.cnt, funcs |-> cmpl.funcs, blocks |-> cmpl.blocks]
    BY <1>0, <2>1, Working
  <2>3. cmpl'.cnt = cmpl.cnt
    BY <1>8, <2>2 DEF OpenBlock, CloseBlock, CloseFunc, OpenFunc
  <2> QED BY <1>5, <2>1, <2>3
<1>9. CASE Reject
  BY <1>6, <1>9 DEF Reject, Nothing, Idle
<1> QED BY <1>1, <1>2, <1>3, <1>4, <1>7, <1>8, <1>9
        DEF Next, vars, ParseFails, LinkNew, Reload

LEMMA NextChecked ==
  ASSUME IInv, IInv', Checked, ~Reloads, [Next]_vars
  PROVE  Checked'
<1>1. OfStays
  BY ContractsStay
<1>2. CallsFit' /\ ReadClosed'
  <2>1. \A c \in Written' : Right(c)'
    BY <1>1, RightKept, RightMeans, WrittenRight DEF Checked
  <2> QED BY <2>1 DEF Right, RightCall, RightUse, CallsFit, ReadClosed
<1>3. CallsDescend'
  <2>1. CASE contracts' = contracts
    BY <1>1, <2>1 DEF Checked, CallsDescend, OfStays
  <2>2. CASE \E o \in DOMAIN made : LinkNew(o)
    <3>1. PICK o \in DOMAIN made : contracts' = Append(contracts, o) /\ made' = made
      BY <2>2 DEF LinkNew
    <3> DEFINE n == Len(contracts)
    <3>2. /\ n \in Nat /\ DOMAIN contracts = 1..n /\ DOMAIN contracts' = 1..n + 1
          /\ (\A i \in 1..n : contracts'[i] = contracts[i]) /\ contracts'[n + 1] = o
      <4>1. contracts \in Seq(DOMAIN made)
        BY DEF IInv, TypeOK
      <4>2. /\ contracts' \in Seq(DOMAIN made) /\ Len(contracts') = n + 1
            /\ (\A i \in 1..n : contracts'[i] = contracts[i]) /\ contracts'[n + 1] = o
        BY <3>1, <4>1, AppendProperties
      <4> QED BY <4>1, <4>2, LenProperties
    <3>3. ASSUME NEW call \in made[o].calls PROVE call.ind + 1 < n + 1
      <4>1. made[o] \in Written
        BY DEF Written, Keys
      <4>2. call.ind < n
        BY <4>1 DEF IInv, CallsLead
      <4>3. call.ind \in Nat
        BY <4>1, WrittenTyped, ContractFields DEF IInv, Call
      <4> QED BY <3>2, <4>2, <4>3
    <3> HIDE DEF n
    <3>4. \A i \in 1..n + 1 : i \in 1..n \/ i = n + 1
      BY <3>2
    <3> QED BY <3>1, <3>2, <3>3, <3>4 DEF Checked, CallsDescend
  <2> QED BY <2>1, <2>2 DEF Next, vars, ParseFails, OpenBlock, CloseBlock, CloseFunc, CloseContract,
             Reject, Compile, OpenFunc, CallFunc, CallContract, Reload
<1> QED BY <1>2, <1>3 DEF Checked

LEMMA Trusting ==
  ASSUME ~Reloads
  PROVE  Spec => [](IInv /\ Checked)
<1>1. Init => Checked
  <2>1. Init => Written = {} /\ contracts = <<>>
    BY DEF Init, Written, Idle, Nothing, Keys
  <2> QED BY <2>1 DEF Checked, CallsFit, ReadClosed, CallsDescend
<1>2. IInv /\ IInv' /\ Checked /\ [Next]_vars => Checked'
  BY NextChecked
<1> QED BY <1>1, <1>2, Invariance, PTL DEF Spec

\* Unless contracts are replaced, what is passed to a contract arrives in the
\* parameter of the name and has its type.
THEOREM CallsAlwaysFit ==
  ASSUME ~Reloads
  PROVE  Spec => []CallsFit
BY Trusting, PTL DEF Checked

\* Unless contracts are replaced, a contract that only reads can reach, through
\* whatever it calls, nothing that does more.
THEOREM ReadAlwaysClosed ==
  ASSUME ~Reloads
  PROVE  Spec => []ReadClosed
BY Trusting, PTL DEF Checked

\* Unless contracts are replaced, no contract calls itself, directly or through
\* others.
THEOREM CallsAlwaysDescend ==
  ASSUME ~Reloads
  PROVE  Spec => []CallsDescend
BY Trusting, PTL DEF Checked

=============================================================================
