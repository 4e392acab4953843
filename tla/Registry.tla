------------------------------- MODULE Registry -------------------------------
(***************************************************************************)
(* One virtual machine (vm.go) over its life: contracts are compiled,      *)
(* linked under their names and replaced.  All compilations share the name *)
(* space of the machine: contracts stand in it by name, library and host   *)
(* functions by name and parameter types, and the functions of a contract  *)
(* too, as long as the block that defines them is being compiled.          *)
(***************************************************************************)
EXTENDS Integers, Sequences, FiniteSets

CONSTANTS
  Names,              \* of contracts
  FuncKeys,           \* of functions: the name with the types of the parameters
  Soft,               \* the key with only the outer type of each parameter
  Library, HostFuncs, \* the keys of StdLib and of VMSettings.Funcs, in their order
  Reading,            \* the positions of the host functions that only read
  Embedded, Custom,   \* where the codes of library and host functions begin
  ParamLists,         \* the data sections: sequences of [name, type]
  ArgSets,            \* what is given to a called contract: sets of [name, type]
  NoFunc,             \* of a block that is not the body of a function
  Reloads,            \* whether the host replaces contracts
  MaxMade, MaxCalls, MaxFuncs, MaxDepth  \* bounds

VARIABLES
  nameSpace,  \* VM.NameSpace
  contracts,  \* VM.Contracts, as places in made
  made,       \* every contract Compile has returned
  cmpl        \* the compiler at work; between two compilations it has no block

vars == <<nameSpace, contracts, made, cmpl>>

Positions(s, k) == {i \in DOMAIN s : s[i] = k}
Last(s, k)  == CHOOSE i \in Positions(s, k) : \A j \in Positions(s, k) : j <= i
Keys(s)     == {s[i] : i \in DOMAIN s}
Builtins    == Keys(Library) \cup Keys(HostFuncs)

ASSUME KeysAssumption ==
  /\ Names \cap FuncKeys = {} /\ NoFunc \notin FuncKeys
  /\ Soft \in [FuncKeys -> FuncKeys]
  /\ Library \in Seq(FuncKeys) /\ HostFuncs \in Seq(FuncKeys)
  /\ Reading \subseteq DOMAIN HostFuncs /\ Reloads \in BOOLEAN

\* StdLib ends before the codes of the host begin, and a contract has not as many
\* functions as there are codes before StdLib.
ASSUME CodesAssumption ==
  /\ Embedded \in Nat /\ Custom \in Nat /\ MaxFuncs \in Nat
  /\ MaxFuncs < Embedded /\ Embedded + Len(Library) <= Custom

ASSUME ParamsAssumption ==
  \A ps \in ParamLists :
    /\ ps \in Seq([name : STRING, type : Nat])
    /\ \A i, j \in DOMAIN ps : ps[i].name = ps[j].name => i = j
ASSUME ArgsAssumption == \A args \in ArgSets : args \subseteq [name : STRING, type : Nat]

(***************************************************************************)
(* A contract, as far as others depend on it.  A call of a contract has    *)
(* the index of the callee and those of its parameters in the code; a call *)
(* of a function leads to the one found.                                   *)
(***************************************************************************)
Given == [name : STRING, type : Nat, index : Nat]
Call  == [to : Names, ind : Nat, given : SUBSET Given]
Use   == [sought : FuncKeys, found : FuncKeys]
ContractType == [name : Names, read : BOOLEAN, params : ParamLists, calls : SUBSET Call,
                 uses : SUBSET Use]

\* A block remembers how many functions there were before it.
Block == [count : Nat, func : FuncKeys \cup {NoFunc}]
\* The contract being compiled, its functions and the blocks it is in.
Nothing == [cnt |-> <<>>, funcs |-> <<>>, blocks |-> <<>>]
Idle    == cmpl.blocks = <<>>
InFunc  == \E b \in DOMAIN cmpl.blocks : cmpl.blocks[b].func # NoFunc
Inner   == cmpl.blocks[Len(cmpl.blocks)]
Outer   == SubSeq(cmpl.blocks, 1, Len(cmpl.blocks) - 1)
Entry(count, func) == [count |-> count, func |-> func]

\* nameSpace without some keys, and with a key more.
Without(ks) == [k \in DOMAIN nameSpace \ ks |-> nameSpace[k]]
With(k, v)  == [j \in DOMAIN nameSpace \cup {k} |-> IF j = k THEN v ELSE nameSpace[j]]

Linked(n)   == n \in DOMAIN nameSpace
Of(ind)     == made[contracts[ind + 1]]

Init == /\ nameSpace = [k \in {} |-> 0] /\ contracts = <<>> /\ made = <<>>
        /\ cmpl = Nothing

-----------------------------------------------------------------------------
(***************************************************************************)
(* Compile.                                                                *)
(***************************************************************************)

\* A host function replaces the library function of its key.
CodeOf(k) == IF k \in Keys(HostFuncs) THEN Custom + Last(HostFuncs, k) - 1
             ELSE Embedded + Last(Library, k) - 1
InitNameSpace == IF nameSpace = [k \in {} |-> 0] THEN [k \in Builtins |-> CodeOf(k)]
                 ELSE nameSpace

\* The text is not a contract.
ParseFails == Idle /\ nameSpace' = InitNameSpace /\ UNCHANGED <<contracts, made, cmpl>>

Compile(n, read, params) ==
  /\ Idle /\ Len(made) < MaxMade
  /\ nameSpace' = InitNameSpace
  /\ cmpl' = [cnt |-> [name |-> n, read |-> read, params |-> params, calls |-> {}, uses |-> {}],
              funcs |-> <<>>, blocks |-> <<Entry(0, NoFunc)>>]
  /\ UNCHANGED <<contracts, made>>

\* The body of an if or a loop.
OpenBlock ==
  /\ ~Idle /\ Len(cmpl.blocks) < MaxDepth
  /\ cmpl' = [cmpl EXCEPT !.blocks = Append(@, Entry(Len(cmpl.funcs), NoFunc))]
  /\ UNCHANGED <<nameSpace, contracts, made>>

\* A function that is there already, a built-in one too, is not defined again.
OpenFunc(k) ==
  /\ ~Idle /\ ~InFunc /\ k \notin DOMAIN nameSpace
  /\ Len(cmpl.blocks) < MaxDepth /\ Len(cmpl.funcs) < MaxFuncs
  /\ cmpl' = [cmpl EXCEPT !.blocks = Append(@, Entry(Len(cmpl.funcs), k))]
  /\ UNCHANGED <<nameSpace, contracts, made>>

\* The functions a block has defined.
Dropped == {cmpl.funcs[i] : i \in Inner.count + 1..Len(cmpl.funcs)}

\* The end of a block within the contract.
CloseBlock ==
  /\ ~Idle /\ Outer # <<>> /\ Inner.func = NoFunc
  /\ nameSpace' = Without(Dropped)
  /\ cmpl' = [cmpl EXCEPT !.blocks = Outer, !.funcs = SubSeq(@, 1, Inner.count)]
  /\ UNCHANGED <<contracts, made>>

\* Mutant: counts the functions of the block around it only.
CloseFuncOuter ==
  /\ ~Idle /\ Inner.func # NoFunc
  /\ nameSpace' = With(Inner.func, Outer[Len(Outer)].count + 1)
  /\ cmpl' = [cmpl EXCEPT !.blocks = Outer, !.funcs = Append(@, Inner.func)]
  /\ UNCHANGED <<contracts, made>>
\* A function is known after its body: from there on it can be called.
CloseFunc ==
  /\ ~Idle /\ Inner.func # NoFunc
  /\ nameSpace' = With(Inner.func, Len(cmpl.funcs) + 1)
  /\ cmpl' = [cmpl EXCEPT !.blocks = Outer, !.funcs = Append(@, Inner.func)]
  /\ UNCHANGED <<contracts, made>>

\* The key itself, or that of a function that takes any items.
Sought(k) == IF k \in DOMAIN nameSpace THEN k ELSE Soft[k]
\* The function of a code; those of the contract come from 1.
FuncOf(code) == IF code >= Custom THEN HostFuncs[code - Custom + 1]
                ELSE IF code >= Embedded THEN Library[code - Embedded + 1]
                ELSE cmpl.funcs[code]
CallFunc(k) ==
  /\ ~Idle /\ Sought(k) \in DOMAIN nameSpace
  /\ LET code == nameSpace[Sought(k)] IN
     /\ cmpl.cnt.read /\ code >= Custom => code - Custom + 1 \in Reading
     /\ cmpl' = [cmpl EXCEPT !.cnt.uses = @ \cup {[sought |-> k, found |-> FuncOf(code)]}]
  /\ Cardinality(cmpl'.cnt.uses) + Cardinality(cmpl.cnt.calls) <= MaxCalls
  /\ UNCHANGED <<nameSpace, contracts, made>>

\* The parameter of the name, with its place.
IndexIn(ps, name) == CHOOSE i \in DOMAIN ps : ps[i].name = name
Known(ps, a) == \E i \in DOMAIN ps : ps[i] = a
\* Mutant: parameters are numbered as they are given, not as they are declared.
GivenAnyhow(ps, args) == {[name |-> a.name, type |-> a.type, index |-> 0] : a \in args}
GivenOf(ps, args) ==
  {[name |-> a.name, type |-> a.type, index |-> IndexIn(ps, a.name) - 1] : a \in args}

\* Mutant: a contract may be called from anywhere.
MayCallAny(callee) == TRUE
MayCall(callee) == cmpl.cnt.read => callee.read

CallContract(n, args) ==
  /\ ~Idle /\ Linked(n) /\ MayCall(Of(nameSpace[n]))
  /\ \A a \in args : Known(Of(nameSpace[n]).params, a)
  /\ cmpl' = [cmpl EXCEPT !.cnt.calls = @ \cup
                {[to |-> n, ind |-> nameSpace[n],
                  given |-> GivenOf(Of(nameSpace[n]).params, args)]}]
  /\ Cardinality(cmpl'.cnt.calls) + Cardinality(cmpl.cnt.uses) <= MaxCalls
  /\ UNCHANGED <<nameSpace, contracts, made>>

\* Mutant: the next compilation goes on with this compiler.
CloseContractKept ==
  /\ ~Idle /\ Outer = <<>>
  /\ nameSpace' = Without(Dropped)
  /\ made' = Append(made, cmpl.cnt)
  /\ cmpl' = [cmpl EXCEPT !.blocks = <<>>]
  /\ UNCHANGED contracts
\* The end of the contract: its last functions go, and Compile returns it.
CloseContract ==
  /\ ~Idle /\ Outer = <<>>
  /\ nameSpace' = Without(Dropped)
  /\ made' = Append(made, cmpl.cnt)
  /\ cmpl' = Nothing
  /\ UNCHANGED contracts

\* Mutant: the deferred deletion knows the functions of closed blocks only.
RejectOuter ==
  /\ ~Idle
  /\ nameSpace' = Without({cmpl.funcs[i] : i \in 1..Inner.count})
  /\ cmpl' = Nothing
  /\ UNCHANGED <<contracts, made>>
\* Any error of the compiler: the deferred deletion of Compile.
Reject ==
  /\ ~Idle
  /\ nameSpace' = Without(Keys(cmpl.funcs))
  /\ cmpl' = Nothing
  /\ UNCHANGED <<contracts, made>>

-----------------------------------------------------------------------------
(***************************************************************************)
(* Link.  LoadContract is Compile and then Link without reload.            *)
(***************************************************************************)
\* Mutant: a contract that is there is replaced without being asked to.
LinkOver(o) ==
  /\ Idle
  /\ IF Linked(made[o].name)
     THEN contracts' = [contracts EXCEPT ![nameSpace[made[o].name] + 1] = o] /\ UNCHANGED nameSpace
     ELSE contracts' = Append(contracts, o) /\ nameSpace' = With(made[o].name, Len(contracts))
  /\ UNCHANGED <<made, cmpl>>
LinkNew(o) ==
  /\ Idle /\ ~Linked(made[o].name)
  /\ contracts' = Append(contracts, o)
  /\ nameSpace' = With(made[o].name, Len(contracts))
  /\ UNCHANGED <<made, cmpl>>
\* Mutant: the contract gets a new place.
ReloadBehind(o) ==
  /\ Reloads /\ Idle /\ Linked(made[o].name)
  /\ contracts' = Append(contracts, o)
  /\ nameSpace' = With(made[o].name, Len(contracts))
  /\ UNCHANGED <<made, cmpl>>
\* Mutant: the first contract is replaced.
ReloadFirst(o) ==
  /\ Reloads /\ Idle /\ Linked(made[o].name)
  /\ contracts' = [contracts EXCEPT ![1] = o]
  /\ UNCHANGED <<nameSpace, made, cmpl>>
Reload(o) ==
  /\ Reloads /\ Idle /\ Linked(made[o].name)
  /\ contracts' = [contracts EXCEPT ![nameSpace[made[o].name] + 1] = o]
  /\ UNCHANGED <<nameSpace, made, cmpl>>

Next ==
  \/ ParseFails \/ OpenBlock \/ CloseBlock \/ CloseFunc \/ CloseContract \/ Reject
  \/ \E n \in Names, read \in BOOLEAN, ps \in ParamLists : Compile(n, read, ps)
  \/ \E k \in FuncKeys : OpenFunc(k) \/ CallFunc(k)
  \/ \E n \in Names, args \in ArgSets : CallContract(n, args)
  \/ \E o \in DOMAIN made : LinkNew(o) \/ Reload(o)
Spec == Init /\ [][Next]_vars

-----------------------------------------------------------------------------
\* The contract being compiled and all that have been.
Written == Keys(made) \cup (IF Idle THEN {} ELSE {cmpl.cnt})

TypeOK ==
  /\ DOMAIN nameSpace \subseteq Names \cup FuncKeys /\ nameSpace \in [DOMAIN nameSpace -> Nat]
  /\ made \in Seq(ContractType) /\ contracts \in Seq(DOMAIN made)
  /\ cmpl.funcs \in Seq(FuncKeys) /\ cmpl.blocks \in Seq(Block)
  /\ IF Idle THEN cmpl = Nothing
     ELSE cmpl = [cnt |-> cmpl.cnt, funcs |-> cmpl.funcs, blocks |-> cmpl.blocks]
          /\ cmpl.cnt \in ContractType

\* GetContract and RunByName: a name leads to the contract of that name, and every
\* contract of the machine is found under its name, also after it was replaced.
NamesLead ==
  /\ \A n \in Names : Linked(n) => nameSpace[n] < Len(contracts) /\ Of(nameSpace[n]).name = n
  /\ \A i \in DOMAIN contracts :
       Linked(made[contracts[i]].name) /\ nameSpace[made[contracts[i]].name] = i - 1

\* Compile, however it ends, in whichever block and function, takes its functions
\* out of the name space, and nothing else: the next contract finds the functions
\* of the machine and none of another contract.  While it works, the functions of
\* the blocks it is in have the codes of their places in Contract.Funcs.
FuncsLead ==
  /\ nameSpace # [k \in {} |-> 0] => \A k \in Builtins : k \in DOMAIN nameSpace /\ nameSpace[k] = CodeOf(k)
  /\ (DOMAIN nameSpace \cap FuncKeys) \ Builtins = Keys(cmpl.funcs)
  /\ \A i \in DOMAIN cmpl.funcs : nameSpace[cmpl.funcs[i]] = i

\* A call of a function, which is compiled to a code, leads to a function of the
\* name and the types it was called with.
UsesFound == \A c \in Written : \A u \in c.uses : u.found \in {u.sought, Soft[u.sought]}

\* A call of a contract, which is compiled to an index, leads to a contract of the
\* name at any later time.
CallsLead == \A c \in Written : \A call \in c.calls :
               call.ind < Len(contracts) /\ Of(call.ind).name = call.to

\* What is passed to a contract arrives in the parameter it was meant for, and is of
\* its type.
CallsFit == \A c \in Written : \A call \in c.calls : \A g \in call.given :
              LET ps == Of(call.ind).params
              IN g.index + 1 \in DOMAIN ps /\ ps[g.index + 1] = [name |-> g.name, type |-> g.type]

\* A contract that only reads calls only host functions and contracts that do, and
\* so on through the contracts it calls.
ReadClosed == \A c \in Written : c.read =>
  /\ \A call \in c.calls : Of(call.ind).read
  /\ \A u \in c.uses : u.found \in Keys(HostFuncs) => Last(HostFuncs, u.found) \in Reading

\* No contract calls itself, directly or through others.
CallsDescend == \A i \in DOMAIN contracts : \A call \in made[contracts[i]].calls : call.ind + 1 < i
=============================================================================
