# bvm in TLA+

A TLA+ development beside bvm (package `simvolio`), a compiler and bytecode
interpreter for a contract language. Everything is translated from the code in
`src/`; where a test, a comment or a note says something else, a run shows the
difference (see [Where the code differs](#where-the-code-differs)).

## The system

A host makes a `VM`, loads contracts and runs one of them with parameters and a
gas limit. Loading parses the source, compiles the tree to 16-bit words and links
the contract into a table. Running one is a loop over its words, on an operand
stack of untagged `int64` cells and a heap (`Strings`, `Objects`) that all
contracts of the run share. One goroutine does all of it: the hard part is not
concurrency but what calls leave behind. Nothing is persisted.

| component | state | operations | works with |
|---|---|---|---|
| interpreter `runtime/run.go`, `runtime.go` | per activation: `i`, `top`, `stack`, `Vars`, `calls`, `pars`, `isParContract`, `counts`, `gas`; per run: `Strings`, `Objects` | one case per instruction, `newCount`, `delCount`, `copy` | itself (CALLCONTRACT), library, host functions |
| compiler `compiler/*` | `Contract` being built (code, variables, literals, functions), `Jumps`, `InFunc`, `NameSpace` | `nodeToCode` per node, `forCode`, `forInt`, `ConditionCode`, `findFunc`, `findBinary`, `copyCode` | parser's trees, the VM's name space |
| virtual machine `vm.go` | `Contracts`, `NameSpace`, `Settings` | `NewVM`, `Compile`, `Link`, `LoadContract`, `Run`, `RunByName` | compiler, interpreter, the host's `IData` |
| library `runtime/stdlib.go`, `str.go`, `math.go`, `bytes.go`, `obj.go` | none of its own, appends to the heap | about seventy functions | called by EMBEDFUNC |
| ordered map `types/map.go` | `m`, `head`, `tail`, links | `Set`, `Get`, `Remove`, `Clear`, `Keys`, `Values` | values of type obj |
| file `types/file.go` | a record | constructor | values of type file |
| parser `parser/*` | generated tables; `node.go` builds trees | `Parser` | compiler |
| host `cmd/main.go`, tests | | | VM |

What makes each correct, and what is hard about it:

- *Interpreter.* The heap is a stack of regions, one per activation and one more
  while parameters are under way; every way out has to cut it to the right mark.
  A called contract works on copies in the same heap. Gas is the only thing that
  stops a loop and is handed down by subtraction. Cells have no tags, so that a
  value of the wrong type goes unnoticed.
- *Compiler.* Relative offsets, inserted words, places of variables that two
  different loops (at compile time and at run time) have to count alike, and an
  operand stack that calls, jumps and statements have to balance.
- *VM.* One name space that all compilations write to, each of which may fail in
  any block, and a table of contracts that reload replaces under the feet of those
  compiled against it. `Run` converts what the host gives, parameter by parameter
  in the random order of a Go map, into tables all of them share.
- *Ordered map.* Four pointers that only a sequence of calls shows to be wrong.

`PROJECT.json` lists the hazards line by line with the properties about them.

## Modules

| module | models |
|---|---|
| `Bytecode` | the instruction set and the type codes (`runtime.go`, constants of `node.go`), words of 16 bits |
| `Texts` | texts as sequences of character codes: printing and parsing of integers, the functions of package strings the library uses |
| `Trees` | the values of type obj: maps and lists of texts, maps and lists, how they are printed, encoded and converted (`map.go`, `obj.go`) |
| `Heap` | a linked contract, the elements of the heap, and what `vm.Run` hands to the interpreter |
| `Runtime` | the interpreter; a step is one instruction, as in the loop of `Run` |
| `Compiler` | from the tree of a contract to its code, variables and literals |
| `Syntax` | the builders of `node.go`: how the contracts of the runs are written |
| `VM` | `NewVM`, loading and linking a list of contracts, preparing a run: the linked programs of the runs |
| `Registry` | the machine over its life: compilations that open and close blocks and functions, call functions and contracts, succeed or fail anywhere; `Link` with and without reload |
| `Entry` | `RunByName` and `VM.Run` up to the interpreter: the host's environment and parameters become cells and a heap |
| `RuntimeSafety` | what the interpreter promises (type invariant, heap, gas, isolation, types) |
| `CodeSafety` | what the interpreter relies on in the compiled code: a verifier that reads the words of a contract (see below), and what runs of verified code keep |
| `CodeTypes` | the types the compiler had in mind, found again in the words: a verifier of types (see below) |
| `Semantics` | the language by its source: a reference evaluator that knows no stack, no words and no gas |
| `LinkedMap`, `Dictionary` | `types.Map`, and what it promises: a dictionary in the order of insertion |
| `MCRuntime` (with the contracts of `MCCalls`, `MCGas`), `MCSemantics`, `MCFindings`, `MCLinkedMap`, `MCRegistry`, `MCEntry` | the instances TLC checks |
| `RuntimeProofs`, `TypeFrames`, `TypeSteps`, `TypeProofs`, `LinkedMapProofs`, `Ordering`, `RegistryProofs`, `EntryProofs` | theorems and proofs |

`MC*` modules write contracts with `Syntax`, compile them with `Compiler`, link
them with `VM` and hand the linked programs to `Runtime` as the constant
`Programs`. So the runs check compiler and interpreter together, while the
proofs about `Runtime` hold for every linked program, compiled or not.

`Registry` and `Entry` are the two ends of the machine that the runs of whole
contracts leave constant: how the table and the name space came about, and how a
call starts. `Heap` is what they share with `Runtime`. `Entry`'s property
`HandedOver` is the assumption `Runtime` makes of its programs
(`ProgramsAssumption`), so that the proofs about the one start where those about
the other end.

### How the model corresponds to the code

`Runtime` has the locals of `Run` in the record `act`, those of the activations
that wait in a CALLCONTRACT in the sequence `callers`, and the heap in `Strings`,
`Objects` and, for the backing arrays of `[]byte`, `Buffers`. `status` is where
the Go call stack is: `running`, `unwinding` while an error goes up through the
callers, `done`, `error`, or `panic` where Go would panic. Each instruction is an
action of the name of its opcode. `Dispatch` is the head of the loop (`gas++` and
its check, the switch), part of every instruction; the deferred `delCount(true)`
is part of every action that leaves an activation.

What is abstracted: money is a fraction, rounded to `MoneyUnit`ths where a decimal
is rounded; integers wrap at `HalfRange` instead of 2^63, and a literal beyond 32
bits is written as the four words it is compiled to; an address that SETVAR puts
on the stack is the number of its variable; the result of a host function is any
value of its type, and it may fail. Objects keep what a slice is: a `[]byte` is a
length and a backing array, so that sharing shows. A value of type obj is the list of
all entries of the `types.Map` or list, from first to last with their depths: nothing
changes a `types.Map` once an instruction or `JSONDecode` has built it, so that the
value stands for the pointer. What `json.Unmarshal` makes of a text is an error or any
object of the constant `Documents`.

`Registry` keeps of a contract what others see of it (name, parameters by index,
read flag) and what it was compiled into (the functions and contracts it calls,
with the code and the index the call holds). A step is one node that touches the
name space, or one call of `Compile` or `Link`; `Reject` is a compile error, which
may come at any of them. In `Entry` a value of the host is its Go type with a text,
a number or one of the host's arrays of bytes; a step is one variable of the
environment or one parameter. `strconv.ParseFloat` is a constant function;
`decimal.NewFromString` is there without exponents.

`CodeSafety` has a verifier, `CodeVerified`, of the linked contracts. The
code has none: the interpreter believes every word. The verifier reads the words of one
contract and knows nothing of the source. `Verified`: read from the start they are whole
instructions, jumps lead to instructions, calls of functions behind the jump around a
function. `InTables`: the operands name a variable, literal, function, contract or entry
of the environment that is there. `Balanced`: there are levels, a number of values that
are at least on the stack at each instruction above those its body (of the contract, or
of one function) found there, and no instruction takes more, no path arrives with fewer
or crosses into another body. `Takes` and `Leaves` are what each opcode does to the
stack; `Levels` finds the numbers in one pass along the code. JMP empties the stack, so
nothing is counted on behind one, nor behind the call of a function that may come to one.

`CodeTypes` has a second verifier, `CodeTyped`. No word and no cell of the interpreter
says what it is: one int64 is a number, the address of a variable, an index into
`Strings` or into `Objects`. The compiler keeps the types of its source to itself, and
the verifier finds them again from the words, the declared types of the variables and
the kinds of the items of the environment. A cell has a sort: a value of a type, a text
others may share, the address of a certain variable, a literal, or an index that
SETINDEX has checked. `Made` and `After` are what an instruction leaves, `Asks` and
`Meets1` what it demands of the cells it takes. A text, a container or
an object can be stored only where one of its type is declared (`Stores`; anything
serves as a number); a text that may be shared becomes a variable's only by a copy,
and an item without one. While the parameters of a call are being passed, nothing is stored that
outlives the call (`Keeps`), and cells made since the first one are `late`: they refer
to a part of the heap that is gone when the call returns. `Sorts` finds the sorts in one
pass along the code, and `WellTyped` accepts any that are right. `CodeTyped` says that
the code of each contract is typed, for some kind each item of the environment is of,
and `CodeFrugal` in addition that no function comes to a JMP and each leaves one value
at most. The demands are those `Runtime` itself makes of its operands (`Demands`).

`Levels` and `Sorts` halve the code and go on with what the first half leaves: TLC then
goes no deeper than the logarithm of its length.

`Compiler` gives every node its operator; code is a sequence of words, patched
and shifted as the code does it, with the two passes of `for`.

## Runs

| run | checks | shows |
|---|---|---|
| `interpreter` | `TypeOK`, `VarsWellTyped`, `OnlyOverflow`, `HeapMarks`, `HeapReleased`, `StartsTyped`, `EnvironmentKept`, `CallerIsolated`, `Terminates` | contracts that use every modelled instruction and library function with any host results and decoded objects, calls three deep in loops, parameters and functions, and endless loops, each under gas limits that end it almost anywhere: tables and types hold, the one way to panic is a full stack, regions nest and are given back, the code of every one of them is typed, no `+=` reaches a text of the environment or the empty text that `GetString` answers, callers see no write, everything ends |
| `semantics` | `Meets`, `StartsVerified`, `StartsFrugal`, `InstructionAligned`, `CallsEnterFunctions`, `CallsNested`, `OperandsPresent`, `TablesReached`, `ValuesFound`, `FunctionKeepsStack` | a family of contracts that combines all control structures with functions (some called by functions), arrays, texts, calls and objects (literals with values, maps and lists inside one another, turned to lists, looked into, encoded; `Substr` of a text of three at offsets and lengths within and beyond it): compiled and run they do what `Semantics` says, with the same error where there is one; the code of each passes the verifiers, of words, types and what functions leave; functions nest, and every instruction finds as many operands as it takes, of the kind it takes them for |
| `linkedmap` | `TypeOK`, `Doubly`, `GetAgrees`, `IsDictionary` | all sequences of calls on three keys: the list refines `Dictionary` |
| `functions` | `TypeOK`, `FuncsLead`, `UsesFound`, `NamesLead`, `CallsLead` | compilations, links and replacements, with a library function the host replaces and a contract's function of a more exact type: after every compilation, failed or not, the name space is the machine's again, and calls lead to what they name |
| `registry` | `CallsFit`, `ReadClosed`, `CallsDescend` | with several contracts and nothing replaced, parameters arrive where they were meant to, contracts that only read call only such, and none calls itself |
| `entry` | `TypeOK`, `HandedOver`, `Delivered`, `Judged`, `TextsApart` | every pair of parameter types with every pair of host values, in every order: each value arrives once as itself, under its own index, and the verdict does not depend on the order |

Bounds. A run of one contract is nearly deterministic, so what is bounded in
`interpreter` and `semantics` is the set of contracts. `StackSize` 16 (24 in
`semantics`, whose object literals take three cells an entry) and `CallsSize` 3 (100
and 1000 in the code) are above what the contracts need, and
contract `pile` goes over the edge: `OnlyOverflow` says that a panic is always such
an overflow, never an index or a type. Contract `Shared0` takes the text it is given,
one of the environment and the one `GetString` answers for a missing key into
variables and adds to each, and passes one on to a contract that adds to it. `HalfRange` 2^20 is above every number they
compute with, except where they mean to overflow a word; gas limits in steps end
the run in each of the contracts, within parameters, after calls and during
unwinding. Three keys and four links are the fewest for which a link has two
neighbours, is taken out and comes back, and each case of `Remove` happens with
others around it. `functions` has two names, two contracts, two
calls to a contract, three functions and blocks three deep: a function under way
while its outer block ends, a name replaced twice. `registry` has three contracts
of one call each, so that a chain of calls and its refusal happen; three parameter
lists and three sets of arguments cover none, fewer, all and the other order.
`entry` has eight types
and nine values for two parameters, and three parameters that all take a text or
bytes, given as text, as one of two host arrays, or not at all.

Fairness. `FairSpec` is weak fairness of `Next`: `Run` is a loop on its caller's
goroutine, which goes on while it is scheduled. Only `Terminates` and `GasIsOver`
use it. The endless contracts of `interpreter` call no library function, because of
the refund described below: with one, termination is refuted (`findEndless`).
The same refund keeps the limits of a chain of calls from nesting. What a callee or a
library function used is taken off the caller's counter (`run.go` 482, 523, 546), which
may go below zero, and the limit of the next callee is what is left by that counter: it
can be more than the caller's own. No property claims that a chain spends no more than
the outermost limit.

`FunctionKeepsStack` holds in `semantics`, where the contracts call a function
that loops only with nothing else on the stack, and fails in `findStack`, where
one is called in the middle of an expression. The verifier refuses the contracts of
`findStack`, `findCall` and `findBool`: a value the caller counts on is lost, a call
leads behind the function's entry, a variable has no place. Deadlock is checked in every run; a
run that has ended repeats its last state (`Finished`).

### Where the code differs

| run | what is said | what the code does |
|---|---|---|
| `findParams` | `default_test` 1398-1406: 10 | GETPARAMS gives the last argument to the first parameter |
| `findCall` | comment at `run.go` 579: GETPARAMS is behind CALLFUNC | a call on the right of `&&` or `\|\|` leads three words behind the function's entry |
| `findBool` | `default_test` 1509-1518: true; comment at `run.go` 87 | bool variables get no place in `Vars` |
| `findStack` | `cmd/分析.txt` 785: top is saved and restored | JMP in a function clears its caller's operands |
| `findEndless` | `hard_test` 14-22: gas is over; `stdlib.go` 17: gas consumed | a library call lowers the gas counted, and an endless loop with one runs for ever |
| `findRead` | `errors.go` 40: no mutable call from a read contract | after a reload a read contract calls a mutable one |

More differences follow from the model and have no run of their own:

- a `[]byte` that is passed shares its bytes, though the comment at `run.go` 570 says
  it is copied;
- after a reload the indexes of parameters compiled into a call are those of the
  contract that was replaced;
- a function can change a text of the environment: `f($owner)`, where `f` adds to its
  parameter, changes the element of `Strings` itself, since CALLFUNC and GETPARAMS
  hand on the index. So can `+=` on an item or a loop variable that holds such a text,
  or the empty text at index 0, after which every default text is no longer empty. The
  verifier of types refuses these contracts (a text others may share is not added to),
  so that `EnvironmentKept` is a property of the rest;
- a declaration in a loop does not reset its variable (`InitVars`, `compiler.go` 116,
  emits nothing): `default_test` 663-683 expects 16, which needs that it does;
- a function gets no RETFUNC of its own when its last word is that number
  (`compiler.go` 517), be it an operand or the return of one branch: after
  `if c { .. } else { return x }` the first branch jumps out of the function into the
  code of the contract, with the call still open.

The contracts of the passing runs stay clear of these, each in its own way:
functions with several parameters, functions with an end that does not return, calls
of functions on the right of `&&` and `||`, bool variables, declarations without a
value inside loops, written-to `[]byte` parameters, `+=` on texts that are shared and
calls in later parameters of a call are not in them.

## Proofs

TLAPS proves, for all values of the constants under `SizesAssumption` (sizes are
natural numbers, and an integer has room for a word), `ProgramsAssumption`
(`Programs` are linked programs: words in range, known contracts, typed tables)
and the assumptions on host results:

- `RuntimeProofs`: `TypeCorrect` (`TypeOK`), `MarksHold` (`HeapMarks`),
  `HeapGivenBack` (`HeapReleased`), from `Invariance`, which proves their conjunction
  inductive. None of them is so alone: cutting the heap at a mark keeps the types only if marks ascend, the
  mark a returning contract leaves is the caller's only if each activation holds
  one or two as `isParContract` says, and the heap is back at its base at the end
  only if the outermost mark is the base. First come the facts about the
  helpers (cells, slices, marks, copies), then one lemma for each
  instruction, then the steps that change the chain of activations
  (calls, returns, errors) and the theorems.
- `RuntimeProofs`, second half: what the verifier finds in the words is enough for every run of the
  interpreter, for every linked program (`CodeVerified` is a hypothesis of each theorem,
  what the compiler has to give; the run `semantics` checks it for each of its
  contracts, as `StartsVerified`, where the interpreter starts, since the code never
  changes after that):
  - `InstructionsAligned` (`InstructionAligned`), `CallsEnter` (`CallsEnterFunctions`)
    and `CodeNeverLeft`: the interpreter goes from instruction to instruction, and the
    operands of what is fetched lie inside the code;
  - `NestedCalls` (`CallsNested`): functions are left in the order they were entered,
    and what runs is the body of the last;
  - `OperandsFound` (`OperandsPresent`): no instruction takes more than there is, though
    the stack is shared by all functions under way and JMP empties it;
  - `TablesFound` (`TablesReached`): no index in the words is out of range, and RETFUNC
    finds a call;
  - `PanicConfined` (`OnlyOverflow`): so the only ways to a panic that are left are a full
    stack, and a value that is not of the kind its instruction takes it for
    (`ValuesFit`, with the contents of the arrays and maps it leads to).
    `TypedPanics` below closes the second.

  The invariant `CodeIInv` says of every activation, running or waiting: its place is a
  start or the end, the return address of each open call is behind a CALLFUNC that
  entered a function, and caller and callee own these places (`AlignedIn`); the stack is
  at least the level of the present place above the floor of the running function
  (`LevelledIn`). The floors are what makes it inductive: a call of a function found so
  many values, its parameters are among them, and what it is entitled to below is the
  floor of its caller plus the level there (`FrameRight`) unless a JMP may have run
  since, in which case the floor is 0 and whoever called it is marked as `lost` as well.
  RETFUNC is the hard step: the frame that is uncovered has to be entitled to exactly
  what the callee leaves. A contract that returns puts its caller back behind the
  CALLCONTRACT it waited at, and an error may end several at once. `Straight`
  instructions are proved together: each changes the height by `Leaves - Takes` and
  nothing else the invariant looks at (`StraightOnward`). `StartsFromIs` shows that the
  recursive function `StartsFrom` exists, as the smallest set closed under going on to
  the next instruction; `Levels` needs no such fact, since `Balanced` accepts any numbers
  that are right.
- `TypeFrames`, `TypeSteps`, `TypeProofs`: what the second verifier finds is enough for
  every run as well. The theorems have `CodeTyped` as a hypothesis (`FunctionsKeep` has
  `CodeFrugal`), the runs check it of every contract where the interpreter starts
  (`StartsTyped` in `interpreter`, with an environment, host functions, parameters and
  all instructions; `StartsFrugal`, which is stronger, in `semantics`).
  - `VariablesTyped` (`VarsWellTyped`): every variable of every activation holds a value
    of its declared type;
  - `CallersUntouched` (`CallerIsolated`): no step of a called contract changes a text or
    an object of its callers;
  - `EnvironmentStays` (`EnvironmentKept`): the texts of the environment, and the empty
    text in front of them, are the same after every step, of whichever contract. The
    heap that main may change begins behind them (`Bottom`), and every cut of it is at
    a mark above (`CutSpares`);
  - `ValuesAlwaysFound` (`ValuesFound`): every cell is of the kind the instruction takes
    it for, every object has the type it is asserted to have, and every index into an
    array or bytes is inside. `SliceOverflow` is the one exception: `Substr` checks
    `start+length` against the length of the text after the sum may have left the int64
    (`str.go` 36), and then slices out of range. It is in the theorem because it is in
    the code;
  - `TypedPanics` (`OnlyOverflow`): so the only ways to a panic that are left are a full
    stack and that slice;
  - `FunctionsKeep` (`FunctionKeepsStack`): a function that comes to no loop takes its
    parameters off the stack and leaves what its caller has computed.

  The invariant `TypeIInv` says that, for whatever kinds of the environment the code is
  typed for, there is a sequence of types, one for each object of the heap, with which
  all activations agree (`FramesTyped`). Nothing in the state holds these types: they
  exist, and each step shows the next ones. The heap is divided among the activations
  in turn, from the one that waits longest to the one that runs (`Lower`, `Edge`), and
  while parameters are passed the part that runs is divided once more, into what was there
  before the first of them (`Ground` to `Middle`) and the copies made since (`Middle` to
  `Mark`). A variable refers to texts and containers of the part of its activation, and
  a container to containers of its own part; objects that never change (money, obj,
  files), and the texts in a container, may lie below. This is what isolation rests on: an instruction changes only what a cell of the running
  activation refers to, that lies above `Ground`, and `COPY` and PARCONTRACT copy
  down to where nothing can be changed any more. The types alone would not be inductive:
  when a call returns, the heap is cut back to the mark, and the caller's cells keep
  their types only because none of them refers above it, which is why `late` cells may
  not survive the call. Nor would the sorts of the running function alone: a RETFUNC
  uncovers the cells its caller had, so that the invariant has the sorts of each open
  call (`CallsTyped`) between the floors of the level proof; a function that may have
  come to a JMP (`lost`) promises nothing but what it leaves itself.

  `TypeFrames` has these definitions, that they are kept while the heap grows or others
  step (`HeapCarried`, `OthersWait`, `SteadyMoved`), and the instructions that put
  together and take apart; `TypeSteps` those that read and write items, copy, jump, call,
  return and pass parameters; `TypeProofs` calls and returns of contracts, the errors,
  the invariant (`TypesAlways`) and the theorems.
- `LinkedMapProofs`: `TypeCorrect` (`TypeOK`), `ListIsDoubly` (`Doubly`),
  `ReadingsAgree` (`GetAgrees`) and `ListIsDictionary`, that every step of the list is
  the step of the same name of `Dictionary`, under `LinksAssumption` (more addresses
  than keys). `Doubly` is not inductive, since a second list beside the first, a ring
  of links that only refer to one another, satisfies it, and taking out the only link
  of the first then leaves keys and no head. `Listed` excludes it: one sequence
  holds every link in use, once, and each refers to its neighbours. Set appends to
  the sequence, Remove takes one out, and walking along it gives the entries of the
  dictionary.
- `RegistryProofs`: the eight properties of `Registry`, for any names, functions,
  library, host and parameters. `IInv` strengthens the type invariant with how the
  blocks under way nest in the order they were opened (`BlocksNest`), that at most one
  of them is the body of a function, whose name is not yet known (`BodyUnknown`), and
  that the name space leads with the machine's functions once there was a compilation
  (`Begun`): only so does a compile error in an inner function take away exactly what
  was added. `CodesAssumption` is the room between the
  codes of contracts, library and host, which the code leaves without a check.
  `CallsAlwaysFit`, `ReadAlwaysClosed` and `CallsAlwaysDescend` are proved under
  `~Reloads`: with reload they need not hold.
  `Ordering` has the facts about the largest element of a set of numbers.
- `EntryProofs`: the five properties of `Entry`, for any contracts, environments and
  parameters that satisfy `RunsAssumption` (parameters of a contract have distinct
  indexes, as `compiler.go` 161-164 deals them out). `IInv` says of the parameters
  visited so far what `Delivered` says of all, which a step keeps because the heap
  only grows at its end (`LeadsStay`) and because indexes do not repeat; `Judged`
  needs that every parameter visited was found to suit.

Only model-checked:

- `CodeVerified`, `CodeTyped` and `CodeFrugal` of what the compiler emits, and `Meets`:
  the compiler and the reference evaluator are recursive over trees of any depth
  (RECURSIVE operators, induction over data). The proofs about the interpreter need
  nothing of the compiler but these;
- `OnlyOverflow`, `ValuesFound`, `VarsWellTyped`, `CallerIsolated`, `EnvironmentKept` and
  `FunctionKeepsStack` without the hypotheses named above: they do not hold of any code
  whatever. With loops in functions `FunctionKeepsStack` is refuted (`findStack`);
- `Terminates` (liveness).

## Not modelled

Floats with their instructions and functions; file values beyond being handed over;
`JSONEncodeIndent` and the library functions that only pass their operand to one Go
function (`TrimSpace`, `ToLower`, `ToUpper`, `Hex`, `UnHex`, `Sha256`); how
`json.Unmarshal` reads a text and the characters `json.Marshal` escapes; the text level of the parser; compile errors
one by one; the sample host. Their rows in `PROJECT.json` say why. Three details are simpler than
in the code, and no property depends on them. `print` (`runtime.go` 205-228) goes down
to items of any depth; `PrintItem` stops at one level and prints the index of an array
or map that is itself an item. `Substr` (`str.go` 30-31) counts runes and `Len` bytes; a
text of the model has one length, as one of ASCII characters has. At a contract call
with a full operand stack the code runs the callee and panics where it stores the
result (`run.go` 551); the model panics before the call, which is the same verdict for
`OnlyOverflow`, while what the callee would have done before it is left out. INITVARS,
DELVARS and their like are in the instruction set and the compiler never emits them.

## Plan

1. (done) interpreter, compiler, semantics, ordered map; their first theorems.
2. (done) The VM as a state machine: loading, failed compilations, functions in the
   shared `NameSpace`, `Link` with reload, the conversions and errors of `Run`; its
   theorems.
3. (done) Objects, their instructions and their part of the library.
4. (done) The stack discipline of the compiled code: depths per instruction in the
   verifier, proved to be enough. To do: the parameters of nested calls with calls in
   later parameters.
5. (done) Proofs: verified code is followed and panics only for a full stack or a value
   of a wrong kind, the linked list is a dictionary.
6. (done) Types in the verifier, proved to be enough: variables, cells and objects are
   of the types the compiler had in mind, and callers are left alone.
7. Floats and files; a run in which a `[]byte` that was passed is written to.
