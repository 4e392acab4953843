------------------------------ MODULE CodeSafety ------------------------------
(***************************************************************************)
(* What the interpreter relies on in the code the compiler emits: words    *)
(* and operand stack are not tagged, so that a wrong offset or a value too *)
(* few goes unnoticed until something else breaks.                         *)
(***************************************************************************)
EXTENDS RuntimeSafety

\* The places of a contract's code where an instruction starts, found by reading
\* the code from its beginning.
Length(code, p) ==
  CASE code[p + 1] \in {PUSH16, GETVAR, SETVAR, JMP, JMPREL, JZE, JNZ, CALLFUNC,
                        EMBEDFUNC, CUSTOMFUNC, CALLCONTRACT, RETURN, COPY, INITARR,
                        INITMAP, INITOBJ, INITOBJLIST, ENV} -> 2
    [] code[p + 1] \in {PUSH32, PUSHSTR, PARCONTRACT} -> 3
    [] code[p + 1] = PUSH64 -> 5
    [] code[p + 1] = GETPARAMS -> IF p + 1 < Len(code) THEN 2 + code[p + 2] ELSE 2
    [] OTHER -> 1
StartsFrom(code) ==
  LET from[p \in 0..Len(code) - 1] ==
        LET next == p + Length(code, p)
        IN {p} \cup IF next < Len(code) THEN from[next] ELSE {}
  IN from
Starts(c) == IF CodeStart(c) < Len(c.code) THEN StartsFrom(c.code)[CodeStart(c)] ELSE {}

\* The code is whole instructions, each jump leads to one or to the end, and each
\* call of a function to the one behind the jump around that function.
Jumps == {JMP, JMPREL, JZE, JNZ}
Target(c, p) == p + Signed(c.code[p + 2])
Ends(c) == Starts(c) \cup {Len(c.code)}
IsFunction(c, p) == p - 2 \in Starts(c) /\ c.code[p - 1] = JMP
Verified(c) ==
  LET starts == Starts(c) IN
  \A p \in starts :
    /\ p + Length(c.code, p) <= Len(c.code)
    /\ c.code[p + 1] \in Jumps => Target(c, p) \in starts \cup {Len(c.code)}
    /\ c.code[p + 1] = CALLFUNC => IsFunction(c, Target(c, p))

(***************************************************************************)
(* What an instruction takes off the operand stack and what it puts there, *)
(* with w the word behind its opcode.                                      *)
(***************************************************************************)
Takes(g, op, w) ==
  CASE op \in IntBinary \cup IntDivide \cup IntAssign \cup IntAssignDivide \cup MoneyBinary
              \cup MoneyCompare \cup MoneyAssign
              \cup {ASSIGNINT, ASSIGNSTR, ADDSTR, EQSTR, ASSIGNADDSTR, ASSIGNADDBYTES,
                    APPENDARR, GETINDEX, SETINDEX, GETMAP} -> 2
    [] op \in {DUP, JZE, JNZ, SIGNINT, NOT, SETMAP, RETURN, SIGNMONEY, COPYSTR, COPY,
               PARCONTRACT, OBJ2LIST} -> 1
    [] op \in {ASSIGNSETMAP, ASSIGNSETARR, ASSIGNSETBYTES} -> 3
    [] op \in {GETPARAMS, INITARR} -> w
    [] op \in {INITMAP, INITOBJLIST} -> 2 * w
    [] op = INITOBJ -> 3 * w
    [] op = EMBEDFUNC -> Len(LibSig(w))
    [] op = CUSTOMFUNC -> Len(g.funcs[w + 1].params)
    [] OTHER -> 0
Leaves(g, op, w) ==
  CASE op \in {DUP, SETINDEX} -> 2
    [] op \in IntAssign \cup IntAssignDivide \cup MoneyAssign
              \cup {ASSIGNINT, ASSIGNSTR, ASSIGNADDSTR, ASSIGNADDBYTES, APPENDARR,
                    ASSIGNSETMAP, ASSIGNSETARR, ASSIGNSETBYTES, PARCONTRACT, GETPARAMS,
                    LOADPARS} -> 0
    [] op = CUSTOMFUNC -> IF g.funcs[w + 1].result = VVoid THEN 0 ELSE 1
    [] OTHER -> 1

\* The places of the tables the words of an instruction name.
Variables(c) == Cardinality(Slots(c, InVars))
InTables(g, c, p) ==
  LET op == c.code[p + 1]
      w  == c.code[p + 2]
  IN /\ op \in {GETVAR, SETVAR} => w < Variables(c)
     /\ op = GETPARAMS => \A k \in 1..w : c.code[p + 2 + k] < Variables(c)
     /\ op = PUSHSTR => Word(w + c.code[p + 3]) \in w..Len(Literals(c))
     /\ op = ENV => w < Len(g.env)
     /\ op = CALLCONTRACT => w < Len(g.contracts)
     /\ op = CUSTOMFUNC => w < Len(g.funcs)
     /\ op = EMBEDFUNC => w < StdLibSize

(***************************************************************************)
(* The body of a function is what the jump in front of it leaps over; the  *)
(* rest is the body of the contract.                                       *)
(***************************************************************************)
Main == 0
Entries(c) == {Target(c, p) : p \in {q \in Starts(c) : c.code[q + 1] = CALLFUNC}}
Extent(c, e) == e..Target(c, e - 2) - 1
Owner(c, p) == IF \E e \in Entries(c) : p \in Extent(c, e)
               THEN CHOOSE e \in Entries(c) : p \in Extent(c, e) ELSE Main

(***************************************************************************)
(* One pass along the code finds for every instruction how many values are *)
(* at least on the operand stack when it is reached (at), above those its  *)
(* body found there and does not take, and how many a function leaves at   *)
(* least (gives).  JMP empties the stack: nothing is left behind one, nor  *)
(* behind the call of a function that may come to one (lost) but what that *)
(* function leaves.                                                        *)
(***************************************************************************)
Unreached == -1
Levels(g, c) ==
  LET starts  == Starts(c)
      entries == Entries(c)
      op(p)   == c.code[p + 1]
      cleared == {Target(c, p) : p \in {q \in starts : op(q) = JMP}}
      owner   == [p \in starts |-> Owner(c, p)]
      first(p) == CASE p \in entries -> IF op(p) = GETPARAMS THEN c.code[p + 2] ELSE 0
                    [] p = CodeStart(c) -> 0
                    [] OTHER -> Unreached
      none == [at |-> [p \in starts |-> first(p)], lost |-> {Main},
               gives |-> [e \in entries \cup {Main} |-> StackSize]]
      reach(s, q, d) ==
        IF q \notin starts THEN s
        ELSE [s EXCEPT !.at[q] = IF q \in cleared THEN 0
                                 ELSE IF @ = Unreached \/ d < @ THEN d ELSE @]
      call(s, p, e) ==
        reach([s EXCEPT !.lost = IF e \in @ THEN @ \cup {owner[p]} ELSE @], p + 2,
              s.gives[e] + IF e \in s.lost THEN 0 ELSE s.at[p] - s.at[e])
      after(s, p) ==
        LET d == s.at[p] - Takes(g, op(p), c.code[p + 2])
            next == p + Length(c.code, p)
        IN CASE s.at[p] = Unreached \/ op(p) = RETURN -> s
             [] op(p) = JMP -> reach([s EXCEPT !.lost = @ \cup {owner[p]}], Target(c, p), 0)
             [] op(p) = JMPREL -> reach(s, Target(c, p), d)
             [] op(p) \in {JZE, JNZ} -> reach(reach(s, next, d), Target(c, p), d)
             [] op(p) = CALLFUNC -> call(s, p, Target(c, p))
             [] op(p) = RETFUNC ->
                  [s EXCEPT !.gives[owner[p]] = IF s.at[p] < @ THEN s.at[p] ELSE @]
             [] OTHER -> reach(s, next, d + Leaves(g, op(p), c.code[p + 2]))
      passes == [at : [starts -> Int], lost : SUBSET DOMAIN none.gives, gives : [DOMAIN none.gives -> Int]]
      pass[s \in passes, p \in Nat, n \in Nat] ==
        IF n > 1 THEN pass[pass[s, p, n \div 2], p + n \div 2, n - n \div 2]
        ELSE IF p \in starts THEN after(s, p) ELSE s
  IN pass[none, 0, Len(c.code)]

\* The levels l are right: each instruction that is reached finds what it takes, and
\* wherever it leads is in the same body and expects no more than there is.
Leads(c, l, q, o, d) == Owner(c, q) = o /\ (q \in Starts(c) => l.at[q] \in 0..d)
CallsRight(c, l, p, e) ==
  /\ e \in Starts(c) /\ l.gives[e] \in Nat
  /\ Leads(c, l, e, e, l.at[p])
  /\ Leads(c, l, p + 2, Owner(c, p), l.gives[e] + IF e \in l.lost THEN 0 ELSE l.at[p] - l.at[e])
  /\ e \in l.lost => Owner(c, p) \in l.lost
StepsRight(g, c, l, p) ==
  LET op == c.code[p + 1]
      o  == Owner(c, p)
      d  == l.at[p] - Takes(g, op, c.code[p + 2])
      next == p + Length(c.code, p)
  IN /\ d >= 0
     /\ CASE op = RETURN -> TRUE
          [] op = JMP -> Leads(c, l, Target(c, p), o, 0) /\ o \in l.lost
          [] op = JMPREL -> Leads(c, l, Target(c, p), o, d)
          [] op \in {JZE, JNZ} -> Leads(c, l, next, o, d) /\ Leads(c, l, Target(c, p), o, d)
          [] op = CALLFUNC -> CallsRight(c, l, p, Target(c, p))
          [] op = RETFUNC -> o # Main /\ l.at[p] >= l.gives[o]
          [] OTHER -> Leads(c, l, next, o, d + Leaves(g, op, c.code[p + 2]))
Balanced(g, c, l) ==
  /\ Leads(c, l, CodeStart(c), Main, 0)
  /\ \A p \in Starts(c) : l.at[p] # Unreached => StepsRight(g, c, l, p)

\* What the compiler emits leads the interpreter from instruction to instruction, and
\* leaves each what it takes: the offsets nodeToCode patches, and those of code it
\* moves, are right, and each node's code leaves the one value its parent counts on.
CodeVerified ==
  \A k \in DOMAIN prog.contracts :
    LET c == prog.contracts[k]
    IN /\ Verified(c)
       /\ \A p \in Starts(c) : InTables(prog, c, p)
       /\ Balanced(prog, c, Levels(prog, c))

\* The interpreter is started on such code.  It does not change the code, so that
\* this is looked at where the gas is not yet touched.
StartsVerified == (callers = <<>> /\ act.gas = 0) => CodeVerified

\* No jump lands inside an instruction: the interpreter never takes an operand
\* for an opcode, although nothing in the words tells them apart.
InstructionAligned == status = "running" => act.i \in Ends(cnt)

\* A call of a function of the contract leads to the code right behind the jump
\* around that function, and its return address is right behind the call.
EntryOf(call) == Target(cnt, call.ret - 2)
Entered(c, ret) == /\ ret - 2 \in Starts(c) /\ c.code[ret - 1] = CALLFUNC
                   /\ IsFunction(c, Target(c, ret - 2))
CallsEnterFunctions == \A k \in DOMAIN act.calls : Entered(cnt, act.calls[k].ret)

\* What runs is the body of the function that was called last and has not returned,
\* each function that was called called it from its own body, and the body of the
\* contract runs when all have returned.
Opened(c, calls, k) == IF k = 0 THEN Main ELSE Target(c, calls[k].ret - 2)
CallsNested ==
  /\ Owner(cnt, act.i) = Opened(cnt, act.calls, Len(act.calls))
  /\ \A k \in DOMAIN act.calls :
       Owner(cnt, act.calls[k].ret - 2) = Opened(cnt, act.calls, k - 1)

\* An instruction finds its operands: there are as many values on the stack as it
\* takes.  The interpreter would not notice one too few: below the first there is a
\* cell that holds none.
OperandsPresent == Fetching => act.top >= Len(Operands(Op))

\* The words of an instruction name what there is: variables, literals, functions,
\* contracts, entries of the environment; and a function returns to a call.
TablesReached == Fetching => Known /\ (Op = CALLFUNC \/ IndicesFit)

\* What an instruction finds there, and what that leads to, is what it takes it for: a
\* cell does not say whether it is a number, the address of a variable or the index of
\* a text or an object, and of which kind.
ValuesFit ==
  LET sorts == Operands(Op) IN
  /\ \A k \in 1..Len(sorts) : Fits(act.stack[act.top - Len(sorts) + k], sorts[k])
  /\ ItemsFit
ValuesFound == Fetching => ValuesFit

\* A function takes its parameters off the operand stack and adds at most its
\* result: when it returns the stack is as high as its caller counts on.  This is
\* about heights, not about the values below them.
Params(call) ==
  IF cnt.code[EntryOf(call) + 1] = GETPARAMS THEN cnt.code[EntryOf(call) + 2] ELSE 0
FunctionKeepsStack ==
  [][(Fetching /\ Op = RETFUNC /\ status' = "running" /\ callers' = callers) =>
       LET call == act.calls[Len(act.calls)]
       IN act'.top - (call.top - Params(call)) \in {0, 1}]_vars
=============================================================================
