---------------------------- MODULE RuntimeSafety ----------------------------
(***************************************************************************)
(* What the interpreter promises of every run of every linked contract:    *)
(* the heap is a stack of regions that are given back on every way out,    *)
(* contracts cannot disturb one another, gas bounds the run, and the code  *)
(* the compiler emits never drives the interpreter out of its tables.      *)
(***************************************************************************)
EXTENDS Runtime

\* The activations that still use the heap, outermost first.
Live == IF status \in {"running", "panic"} THEN Append(callers, act) ELSE callers

(***************************************************************************)
(* Every variable has the shape its Go type gives it: the interpreter's    *)
(* slices hold int64 cells, texts and objects, and top stays inside the    *)
(* operand stack.  A []byte never reaches behind its backing array.        *)
(***************************************************************************)
Backed(o) == /\ o.num >= 0
             /\ o.num > 0 => o.buf \in DOMAIN Buffers /\ o.num <= Len(Buffers[o.buf])
BytesBacked == \A k \in DOMAIN Objects : Objects[k].kind = "bytes" => Backed(Objects[k])
\* The errors a run can stop with.
Reported == {"none", "errDivZero", "errIndexOut", "errIndexMap", "errBytesVal", "errStr2Int",
             "errCommand", "errGasLimit", "errHost", "errRetType", "errInvalidParam", "errJSON"}
TypeOK ==
  /\ Linked(prog)
  /\ act \in ActivationType /\ act.cnt \in DOMAIN prog.contracts
  /\ callers \in Seq(ActivationType)
  /\ \A k \in DOMAIN callers : callers[k].cnt \in DOMAIN prog.contracts /\ callers[k].top >= 0
  /\ Strings \in Seq(Text) /\ Objects \in Seq(Object) /\ Buffers \in Seq(Text)
  /\ BytesBacked
  /\ status \in Final \cup {"running", "unwinding"}
  /\ status = "unwinding" => callers # <<>>
  /\ result \in Text /\ error \in Reported

-----------------------------------------------------------------------------
(***************************************************************************)
(* The heap (newCount, delCount).                                          *)
(***************************************************************************)
Below(m, n) == m.strings <= n.strings /\ m.objects <= n.objects

(***************************************************************************)
(* The marks of all activations together, read from the outermost to the   *)
(* innermost, ascend to the present size of the heap; an activation holds  *)
(* a second mark exactly while it has passed parameters to a contract it   *)
(* has not returned from.                                                  *)
(***************************************************************************)
\* The marks of the activations acts ascend, up to the mark end.
Ascending(acts, end) ==
  \A k \in DOMAIN acts :
    /\ Len(acts[k].counts) = IF acts[k].isParContract THEN 2 ELSE 1
    /\ Below(acts[k].counts[1], LastMark(acts[k]))
    /\ Below(LastMark(acts[k]), IF k < Len(acts) THEN acts[k + 1].counts[1] ELSE end)
MarksAscend == Ascending(Live, Mark)

\* The outermost activation began with the heap vm.Run prepared.
BaseKept == Live # <<>> => Live[1].counts[1] = Base

HeapMarks == MarksAscend /\ BaseKept

\* Whichever way Run ends, by RETURN, at the end of the code, with an error of
\* its own or of a contract it called, it gives back all it took (the deferred
\* delCount(true) and the delCount(false) of CALLCONTRACT).
HeapReleased == status \in {"done", "error"} => Mark = Base

\* A contract that was called changes neither a text nor an object of its
\* callers: what they passed to it were copies (PARCONTRACT).  The bytes of a
\* []byte are not covered: copy() shares them.
Limit == IF Caller.isParContract THEN LastMark(Caller) ELSE act.counts[1]
CallerIsolated ==
  [][(callers # <<>> /\ status = "running") =>
       LET m == Limit IN
       /\ SubSeq(Strings', 1, m.strings) = SubSeq(Strings, 1, m.strings)
       /\ SubSeq(Objects', 1, m.objects) = SubSeq(Objects, 1, m.objects)]_<<Strings, Objects, callers>>

-----------------------------------------------------------------------------
(***************************************************************************)
(* Gas.                                                                    *)
(***************************************************************************)

\* A run ends although the contract loops for ever, by while, by for, through its
\* functions: each instruction counts.  A loop that calls a library function, a
\* function of the host or a contract is not meant: their gas is taken off what
\* has been counted (run.go 482, 523, 546), and such a loop need not end.
Terminates == <>(status \in Final)

-----------------------------------------------------------------------------
(***************************************************************************)
(* Types.                                                                  *)
(***************************************************************************)

\* The value of a variable or an item of type t is what the interpreter will take
\* it for: a number, or the index of a live heap entry of that type.
HoldsScalar(v, t) ==
  CASE MainType(t) = VStr   -> IsString(v)
    [] MainType(t) = VBool  -> v \in {0, 1}
    [] MainType(t) = VMoney -> IsKind(v, "money")
    [] MainType(t) = VBytes -> IsKind(v, "bytes")
    [] MainType(t) = VObject -> IsKind(v, "obj")
    [] OTHER -> TRUE
HoldsList(v, t) ==
  CASE MainType(t) = VArr -> IsKind(v, "arr") /\ \A k \in DOMAIN Obj(v).items :
                               HoldsScalar(Obj(v).items[k], SubType(t))
    [] MainType(t) = VMap -> IsKind(v, "map") /\ \A k \in DOMAIN Obj(v).items :
                               HoldsScalar(Obj(v).items[k], SubType(t))
    [] OTHER -> HoldsScalar(v, t)
Holds(v, t) ==
  CASE MainType(t) = VArr -> IsKind(v, "arr") /\ \A k \in DOMAIN Obj(v).items :
                               HoldsList(Obj(v).items[k], SubType(t))
    [] MainType(t) = VMap -> IsKind(v, "map") /\ \A k \in DOMAIN Obj(v).items :
                               HoldsList(Obj(v).items[k], SubType(t))
    [] OTHER -> HoldsScalar(v, t)

\* Every variable of every live activation holds a value of its declared type, so
\* that nothing refers to heap entries that were cut off or belong to another type.
VarsWellTyped ==
  \A k \in DOMAIN Live :
    LET c == prog.contracts[Live[k].cnt]
    IN \A m \in DOMAIN Live[k].Vars : Holds(Live[k].Vars[m], c.vars[Nth(Slots(c, InVars), m)])

\* A contract the compiler accepted never makes the interpreter index a table out
\* of range or assert a wrong type: what can go wrong is reported as an error.  Only
\* the stacks of operands and of calls, which nothing checks, can be too short.
OnlyOverflow ==
  status = "panic" => /\ act.i \in 0..Len(cnt.code) - 1
                      /\ \/ Pushes(Op) /\ act.top + 1 = StackSize
                         \/ Op = CALLFUNC /\ Len(act.calls) = CallsSize
=============================================================================
