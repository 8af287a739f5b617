# A formal model of druk

druk is a compiler for a small dynamic language written in Tibetan script. This
directory holds TLA+ modules that model the parts of it where ordering, shared
state and resource limits decide whether a program runs correctly, TLC
configurations that check them on small instances, and proofs, checked by TLAPS,
that the most important properties hold for every instance.

Paths below are relative to the repository root. `PROJECT.json` maps each
definition to the lines it models and lists runs, mutants, hazards and theorems.

## Contents

1. The system and its components
2. The modules
3. What the runs check
4. What is proved
5. Findings
6. What is not modelled, and the plan

## 1. The system and its components

`src/main.cpp` runs one compilation on one thread:

    source --Lexer/Parser--> AST --Analyzer--> checked AST --CodeGenerator--> IR
        --LLVMCodeGen--> object file --linker--> executable       (ahead of time)
        --LLVMBackend/LLVMJit--> machine code, run in the process  (JIT)

Each phase starts only if the phases before reported no error. Both kinds of
compiled program call the same C runtime (`src/codegen/jit/runtime`), which
allocates on the garbage-collected heap (`src/gc`). The bytecode machine
(`src/vm`) is the older back end; no compiler to bytecode is left in the
repository, and chunks reach it through the C interface (`src/druk_c_api.cpp`,
`src/druk_stub.cpp`).

| Component | State | Operations | Interacts with | What makes it correct |
|---|---|---|---|---|
| Heap, `src/gc` | intrusive list `head_`, `count_`, `threshold_`, a mark bit per object, root sources | `alloc` (may `collect`), `markPhase`, `sweepPhase` | parser, runtime, C interface, VM allocate; root sources call back into the runtime | nothing in use is freed; garbage is; marks are clear between collections; a collection makes room and ends |
| Lexer, `src/lexer` | offset, line, interpolation depth | `next`, `scanString`, `scanNumber`, `scanIdentifier` | parser pulls tokens, errors to the handler | tokens cover the source; braces of interpolated strings are matched |
| Parser, `src/parser` | three tokens, `panicMode_`, arena | one function per rule, `error`, `synchronize` | lexer, arena, heap (text of literals) | terminates; reports what is wrong; the AST stays valid |
| Semantic analysis, `src/semantic` | scope stack, types | `NameResolver`, `TypeChecker` visitors | AST, error handler | an accepted program has no unresolved name |
| Code generator, `src/codegen/core` | insertion block, scope stack, function table | one visitor per node | IR builder, AST values on the heap | each block ends in one terminator; each variable is the right slot |
| IR, `src/ir` | module, functions, blocks | builder | code generator, LLVM back end | instructions are in the block meant |
| LLVM back end, `src/codegen/llvm` | maps from IR to LLVM values | `compileFunction`, `emitObject`, link | LLVM, linker | what it is given is verified; symbols resolve |
| JIT runtime, `src/codegen/jit/runtime` | `g_globals`, `g_call_frames`, compiled functions | `druk_jit_*` | compiled code, heap | operators agree on all value kinds; a call sees its own arguments |
| Bytecode VM, `src/vm` | value stack, 64 frames, `globals_`, one-entry cache | one case per opcode, `interpret`, `set_args` | C interface, heap | calls stay within their window; the cache is invisible; traces are true |
| C interface, `src/druk_c_api.cpp` | chunks, functions | serialize, deserialize, build | VM, heap | what is read back is what was written |
| Utilities, `src/util` | arena, interner, diagnostics, a file of the latest version | allocate, intern, report, check for updates | everything | no two live allocations overlap; a notice shows a real version |
| Driver, `src/main.cpp` | error state | phases | everything | no phase runs on the output of a failed one |
| Installer, `tools/installer` | files, registry, wizard step | install, repair, uninstall | a worker thread and the window thread | a failed step leaves a state uninstall can remove |
| Web playground, `web/backend/server.js`, `web/src` | the page's status; two temporary files per request | run button; write, compile, run, unlink | child processes with timeouts | one response per request; no file left over; the page tells what happened |

Hard behaviours. The program is single-threaded except for the installer's worker
thread, the server's asynchronous handler and the background shell of the update
checker. What is hard elsewhere is *sharing and limits*: one heap for the compiler
and the program it compiles, whose collections run inside any allocation; one value
stack for all calls of the VM, without bounds checks; caches and saved positions
that must agree with what they cache; scopes and blocks as side state of a
recursive walk. The hazards are listed, each at its line, in `PROJECT.json`.

## 2. The modules

| Module | Models | Composes |
|---|---|---|
| `Reachability` | `Value::markGcRefs` and the `trace` methods as a relation: what can be reached from a set of roots | |
| `Memory` | abstract: a memory whose collector may free any unreachable object, one at a time | `Reachability` |
| `GcConfig` | `kInitialThreshold`, `kGrowthFactor`, the rule for the next threshold | |
| `GcHeap` | `GcHeap`: the list, marks, sweep cursor, counts, with a client that roots what it uses | `GcConfig`, `Reachability`; implements `Memory` |
| `RuntimeHeap` | the users the heap really has: parser, code generator, compiled program | `GcConfig`, `Reachability`; collections in one step |
| `Lexer` | one call of `next()` per step, byte by byte | |
| `Parser` | the recursive descent, function by function | |
| `FrontEnd` | the two at work: three tokens of lookahead, diagnostics of both | `Lexer`, `Parser` |
| `Scopes` | `NameResolver`, `TypeChecker` and the variables of `CodeGenerator`, one after the other on one program | |
| `Statements` | abstract: programs as the parser builds them, and what a reader expects them to do | |
| `CodegenCfg` | `CodeGenerator`'s statements, `IRBuilder` and `BasicBlock`, LLVM's verification, and the compiled control flow run next to its source | `Statements` |
| `JitRuntime` | the runtime's values and the functions on them | |
| `JitCode` | the instructions `CodeGenerator` makes of expressions, functions and wrappers | `JitRuntime` |
| `Meaning` | abstract: the value of an expression, by evaluation | `JitRuntime` |
| `Jit` | a compiled program at work: native stack, slots, `g_call_frames` | `JitCode`, `Meaning` |
| `DrukVM` | `VM`: stack, frames, globals and cache, errors | |
| `Driver` | the `druk` command: phases, exit status, files, the linker's process | |
| `Playground` | the page, the server, its timeouts, and the compiler and program it starts | `Driver` |
| `Installer` | the worker and the window, the shell, PATH and the registry, over several sessions | |
| `GcHeapProofs`, `RuntimeHeapProofs`, `DrukVMProofs`, `FrontEndProofs`, `ScopesProofs`, `CodegenCfgProofs`, `PlaygroundProofs`, `InstallerProofs` | proofs | the module they are named after |
| `MC*` | programs, sizes and bounds for TLC | the module they are named after |

### GcHeap

`unswept` and `swept` are the two parts of the intrusive list on either side of the
sweep cursor; outside a sweep `swept` is empty. `marked` is the set of objects whose
bit is set, `grey` what the recursion of `markObject` has still to follow (the C
stack, as a set: the order of a depth-first walk does not change what is marked).
`alloc` is three actions, because a collection lies between its test and its link:
`AllocCollects` / `AllocGoesOn`, the collector's steps (`MarkObject`, `MarkAgain`,
`MarkPhaseEnds`, `SweepKeeps`, `SweepFrees`, `CollectEnds`), `Link`. The client acts
only between allocations, as the one thread does. `refs` and `roots` change by the
client's stores (`Store`, `Remove`, `Root`, `Unroot`): the array and struct
operations of the runtime and assignments to `g_globals`. Addresses are reused as
soon as an object is deleted, which is what makes a wrongly freed object dangerous.

`Memory` promises that no reachable object disappears and that only unreachable ones
may. `GcHeap` implements it with `live` read as the linked objects; a collector step
that unlinks an object is one `Free` of `Memory`, all others stutter.

### RuntimeHeap

`GcHeap` assumes a client that roots what it uses. `RuntimeHeap` has the real ones.
The only root source (`rt_core.cpp:20`) reports `g_globals`; no IR instruction
defines a global and the driver passes no arguments, so `Roots` is empty.
`ParseString`, `EmitString` follow a literal's text from `parsePrimary` through the
AST to `visitLiteral`; `NewString`, `Concat`, `BuildArray`, `Index`, `IndexSet`,
`Forget` are the compiled program's operations on its slots. A collection, which
`GcHeap` shows to keep exactly what is reachable, is one step here.

### Lexer, Parser, FrontEnd

The source is a sequence of bytes, reduced to those the lexer tells apart; a Tibetan
digit and a tsheg keep their three bytes, so that a truncated character is a case of
its own. Each action of `Next_token` is one return of `next()`; `cursor` is
`currentOffset_`, `line_` and `column_`, `depth` is `interpolationDepth_`. `open` and
`nested` are history variables: the braces a reader would count.

`stack` is the parser's C++ stack: a parsing function is the list of its steps
(`Body`), written with the tests the code is made of, and each action does one step of
the innermost list. `val` is what the last function returned, `"null"` for a null
pointer; `out` collects the nodes in the order they are made, which is the tree in
postfix form; `hole` records that a null pointer was returned where an expression or
a type should be, `crashed` that one was followed. `FrontEnd` has the parser pull a
token exactly when its lookahead needs one.

### Scopes

The three visitors walk the same tree in the same order, so a program is the sequence
of marks they pass. `scopes` is the analyzer's table in the first two passes and
`variables_stack_` in the third, `results` the types or values the operands have
returned, `functions` the generator's table. `bound` collects what each use was bound
to, which `BindsAsWritten` compares with the declaration a reader would find.

`WellFormed` says which sequences of marks are walks over trees the parser makes: what
is opened is closed; a statement in a string, in an unwrapped operand or in a
declaration's initializer lies in a lambda there, since only a lambda holds statements;
an assignment follows its target. `ProgramsAssumption` requires it of every program, and
the run evaluates it for its own.

### CodegenCfg

`blocks` holds the instructions of each basic block, `at` is the builder's insertion
point, `owner` the function a block belongs to. The visitors are recursive; `todo` is
their C++ stack, so that each visitor is one action per stretch between two visits
(`VisitIf`, `EndThen`, `EndIf`) with the block pointers it holds in locals as
arguments of what is left to do. Of the instructions only branches, returns and one
effect per statement are kept. A program is a table of statements
(`Statements!ProgramTable`); a statement is not `valued` if its expression leaves
`lastValue_` null, as a struct does. The back end translates a function with the values
of that function alone, so a use of a variable of a function around it has no LLVM value.
The table says at which points of a statement that is so: `lost`, where the instructions
that depend on the value are left out (`IsDropped`: a load, an operator, a print, and the
branch of a test), and `fatal`, where they cannot be (`IsFatal`: a call of fewer arguments
than its function has, a copy from a null pointer, to which a `return` comes down too).
`Verify` is LLVM's verifier (external) and looks at what is left: a block ends in its one
terminator and branches stay in their function. A compiler that crashes counts as a
rejection. Where something is left out behind a terminator, a part of its expression may
remain or not, and `Verify` allows both. Then any function of the accepted code runs, one
instruction at a time, against the meaning of its source, which `Statements` gives as the
list of what is still to be done; a call is one effect. The patterns of a match always
have a value.

### Jit, JitCode, JitRuntime, Meaning

`JitCode` turns expressions, declarations, assignments, `if` and `return` into the
instructions of the IR, each with its operands and with whether its type is a
pointer, which is how the generator and the back end tell strings. `Compiled` gives
each function the implementation and the wrapper that the back end makes of it. `Jit`
runs them: an instruction's value lies in a slot of its activation, operands are
passed as addresses of slots (`Pointer`), also to the functions called by name, and a
call through a value copies its arguments to `callFrames`, from which the callee's
wrapper fetches them. Numbers are far from the limits of 64 bits. LLVM's optimizer is
taken to keep the meaning of what it gets.

`Meaning` has no slots, addresses or frames. It marks a program `odd` when it meets one
of the cases in which the generated code is known to differ (`Odd`, section 5); what
they are is part of the claim, since every other program must agree.

### DrukVM

`stack` is the values up to `stackTop_`, `frames` is `frames_`, `ip` the local of
`run` (saved to the frame only by `Call` and before an error), `globals`, `version`
and `cache` the table and its one-entry cache. `pending` is a history variable: what
each call's caller is owed. An instruction finds its operands above the running
call's parameters (`Operands`) and a call keeps within the 256 slots its one-byte
operands can name (`Room`): the machine checks neither, a compiler must ensure them,
and the model states them as guards. Which number an arithmetic instruction yields,
what is inside containers and what is printed is left open.

### Driver, Playground, Installer

`Driver` is a set of `druk` processes, each with its files: a phase may report an error
and end the process, and the linker is a process of its own, which goes on if `druk` is
killed. `Playground` adds the page (`OnRun`, `Answered`, `AnswerLost`, `OnReset`), the
callbacks of the server's one event loop (`Callback`), its two timeouts, and a user who
starts the same compiler from a shell, on files left from before. `execFile` kills a
program that writes too much as it kills one that takes too long, but says `killed` of
the second only; `RunTooMuch` and `RunTimeout` are therefore two actions, answered
differently. For the compiler, whose every error is answered alike, `CompileTimeout`
stands for both.

`Installer` has the worker's calls in order in `todo` (`Run`, `Uninstall`); each action
is one call with its outcomes: done, failed and given up, or failed and passed over.
The window's actions are the clicks the pages offer. `Quit` ends the process at any
moment; a shell that is expanding the archive then becomes an `orphan` that may write
later. The disk and the registry survive to the next session. PATH is a sequence of
characters, since the code edits it by searching in it. It is read and written through
the ANSI functions of the registry: `Converted` is what they make of it, and `Ansi`, a
constant, the code page, which has Druk's directory (it comes from an ANSI function
itself) and makes any other character, a semicolon even, of one it lacks. Every character
counts as one byte of the buffer.

## 3. What the runs check

| Run | Size | States | Shows |
|---|---|---|---|
| `gc_heap` | 3 addresses, threshold 2, growth factor 2 | 53,991 | every graph a client can build and every collection: nothing in use freed (`RootedIsLive`), all garbage freed (`CollectionIsExact`), marks clear between collections, list and `count_` agree, a collection makes room, and ends (`CollectionEnds`); the heap implements `Memory` |
| `runtime_heap` | 3 addresses, threshold 2, 2 slots | 569,195 | nothing is lost before allocation number threshold + 1, and the heap never outgrows the initial threshold |
| `runtime_held` | as above | counterexample | an object a variable holds is freed |
| `front_end` | 6,414 sources: sentences with their meaning, texts one token away from a program, every source of up to 4 bytes | 437,848 | tokens cover the source and their lines are true; the brace counter tells which brace ends an expression in a string (`DepthIsTrue`); a sentence gets its tree and no message (`ParsesAsWritten`); a null pointer in a tree never goes unreported, although panic mode is never left (`HolesAreReported`); what is accepted is balanced; the parser always comes to an end (`Terminates`) |
| `parser_crash` | a statement that begins with `=` | counterexample | a null pointer is followed |
| `scopes` | 11,600 programs: 2 statements of all forms over two names, 3 of fewer forms over one, and 2 around a block of 2 | 321,593 | the resolver's errors are the unbound names it looks at; what is accepted is bound as written but for four listed cases; the literal nil never reaches a variable that is not optional, but for two the checker mistakes |
| `cfg` | all 16,384 programs of 3 statements of 11 kinds, and those with one use of a captured variable in a function, 18,714 in all | 386,968 | nested functions leave the code around them alone; LLVM accepts exactly the programs that have no return in front of other code, none at the end of a loop's body, and no branch or loop in an arm of a match that does not end in a return (`Clean`), where no captured variable is used; one costs a clean program its compilation exactly where it is tested, returned, called, passed on, unwrapped or put in a string (`CleanFailsForLostValues`); accepted code that was translated whole has the effects of its source in the same order under every outcome of its conditions (`RunsAsWritten`), and neither gets lost between two effects (`KeepsPace`) |
| `jit` | 5,776 scripts: two of 38 terms under each of 4 operators | 312,216 | what a program prints and returns, and where it aborts, is what its text means; a call changes nothing of its callers but the place of its result |
| `vm_calls` | 2 frames of 3 slots, no global | 285,223 | the stack stays in bounds, callers' values stay as they were, calls return balanced, traces are true |
| `vm_globals` | 2 globals, with `set_args` between runs | 21,471 | the cache is never visible |
| `playground` | 2 processes, each started by the page or a shell | 49,287 | a zero exit status is earned; the page is ready again only behind a program linked from its source, which no timeout has stopped; which files may stay; the page never waits forever |
| `installer` | 3 sessions, 2 directories, 2 files, PATHs around a buffer of 6 characters, two with characters outside the code page | 300,471 | PATH keeps its other entries, but for such characters; the completion page says what is so, whatever earlier sessions left |

Bounds. Three addresses hold every shape the collector tells apart: a live object, a
dead one, a cycle, a self-reference, a neighbour on the list before and after the
one unlinked, and an address used twice. The thresholds are scaled so that two
collections happen in a behaviour. Two frames of three slots let a call with an
argument, a local and a temporary meet the frame limit. Three statements
are the least with a statement in a statement in a statement, and one in a loop or
branch followed by another; the visitors keep nothing of deeper levels but their
own stack. Three operands meet every pair of operators at neighbouring levels, with
and without parentheses; four bytes hold a string with a brace in it, a whole Tibetan
character and one more byte. Two statements around a block of two hide a name, end the
block, and use it. Two of the terms of `jit` next to each other put calls inside the
arguments of calls, and values computed before a call next to it. Three sessions are an
installation cut short, one that finishes what it left, and a removal. Two processes are
a request and another one that starts while the first one's linker still works.
`MaxIp`, `MaxAllocs` and `MaxLiterals` bound counters that only grow.

Fairness. `FairSpec` of `GcHeap` is weak fairness of the collector's steps: `collect`
is an ordinary function call, and nothing else runs until it returns. No fairness
is assumed of the client. `FairSpec` of `CodegenCfg` lets compiler and program run
to their end (a call returns, a processor goes on), and the reader of the source
likewise. `FrontEnd` has weak fairness of its one thread. `Playground` assumes only
that the server's event loop runs the callbacks that are due and fires its timers, and
that the page takes an answer that has come; the compiler, the linker and the program
may stop or go on for ever.

Each property has a mutant in `PROJECT.json`: a plausible slip in the code (a mark
not cleared, a cursor not moved, an absolute slot number, the oldest call frame instead
of the newest, a separator of PATH too many) under which TLC finds the property violated.

## 4. What is proved

TLAPS checks these for all constants that meet the modules' assumptions: all address
sets and thresholds (`ThresholdAssumption`, `BoundsAssumption`), frame limits and
functions of the bytecode machine (`VMAssumption`), sources (`SourcesAssumption`: the end
is no byte of them, and no letter is a line break), programs whose parts are nodes
(`ProgramsAssumption`, `NodeAssumption`: the parser builds no others), process numbers (`ProcsAssumption`: 0 stands for none), archives, paths and
numbers of sessions (`InstallerAssumption`: the archive holds the compiler, and PATH
lists the installation directory at most once to begin with). Each module's inductive
invariant stands at its end, so that TLC can evaluate it; that of `Scopes`, which speaks
of functions TLC would have to enumerate, stands with its proofs.

`GcHeapProofs`: `TypeCorrect`, `NoReachableObjectIsFreed`, `CollectionsStartUnmarked`,
`ListIsLinkedOnce`, `CountIsTrue`, `CollectingMakesRoom`, `CollectingIsExact`,
`HeapImplementsMemory`. The inductive invariant `IInv` adds to the safety properties
`MarkInv` (what is marked has its references marked or still to follow, and all of it
is reachable) and `SweepInv` (an unvisited object is marked exactly if it is
reachable, and the survivors are counted). At the end of marking `MarkInv` says that
the marked objects are closed under references and contain the roots, so they are
exactly the reachable ones; the sweep keeps that to its end. It begins with
the few facts about reachability used: it is the least closed set, and what garbage
refers to does not matter to it.

`RuntimeHeapProofs`: `TypesAreRight`, `HeapIsSmall`, `SafeUntilThen`. `CountInv` says
that the heap has no more objects than were allocated, so allocation number
`InitialThreshold` still finds room without a collection; `LiteralsInv` and `HeldInv`
say that until then all that the AST, the arrays and the slots refer to is live. That
every variable keeps its type (`TypesAreRight`) is proved only, no run checks it. What is
proved is a limit of the code's promise as much as a promise: beyond it `runtime_held`
shows the loss.

`DrukVMProofs`: `TypeCorrect`, `StackBounded`, `CallersKept`, `CallsBalanced`,
`TracesAreTrue`, `CacheInvisible`. `IInv` says how windows nest (`WindowsInv`): a
window starts above its caller's parameters and less than 256 values above the
caller's start, so window *i* of at most 64 starts below *i* * 255, which bounds the
stack; what the history records of a call is what its frame and the stack say
(`PendingInv`); a filled cache points to an existing variable of its own name
(`CacheInv`), since variables are never removed.

`FrontEndProofs`: `BracesAreCounted`, `HolesAreKnown`, `SourceIsTiled`,
`PositionsAreCounted`, `CleanIsSound`, for every source whatever. The first has the invariant `OnlyText`: the counter is the place of
the only string among the open braces. The second, `FaultsAreReported`: panic mode is
set only behind a report, so a message it swallows is never the first. The next two share
`PositionsInv`: besides what they say, the cursor lies within the source, right of
column 0. Blanks, and the bytes of a number, are passed in a loop of which each round
leaves less of the source (`Rest`); `LoopExists` and `LoopInduction` then
say that the recursive function the model has for it exists, and that what its rounds
keep the loop keeps. Every way ahead adds to the line what `LineBreaks` counts between
the offsets and keeps the column positive (`Goes`), and inside a token the column advances
with the offset (`Straight`), one byte of an operator apart; a second
scan of the same bytes, from another line and column, ends at the same offset
(`BlanksEndAtAnOffset`), which is what `TokensTileSource` looks at. The last is the
largest proof but one here. `BalanceInv` says that what has been consumed, followed by what the
stack is going to consume, has matching brackets (`BracketsInv`); that the stack holds
only steps the grammar's functions have (`StackInv`); that no token is skipped before
there was an error (`NodeInv`: `synchronize` is reached with a null pointer only, and a
function that makes a node, or an error, comes first); and what is left at the end of a
parse (`EndInv`). `Nesting` follows the brackets token by token as a recursive function;
that it exists and obeys its equation, and that two lists of tokens nest one after the
other, is shown by well-founded induction over a set of numbers, which needs no operator
as a parameter. `TestsAreKept` and `BodiesAreFine` then say that every list of steps,
inside a function and as its body, leaves the brackets as they were, and one lemma per
action of the parser puts them together.

`CodegenCfgProofs`: `BranchesAreLocal`, `VerifierIsPredicted`. A visitor goes on in blocks it made before the
statements inside it, functions in them included. `HoldsOwn` says that the blocks a
task in `todo` holds belong to the function it will be done in: up to an `endFunc` that
of the insertion point, behind it that of the block it goes back to.

`VerifierIsPredicted`, in the same module, is `VerifiesExactlyWhenClean` for every
program; it speaks of programs of which the back end has every value (`HasAllValues`), for
which `VerifiesAsIs` shows that the verifier sees the blocks as the visitors left them.
`Clean` speaks of the statements the visitors come to (`Reached`, the least set
that holds the program's list and the parts of what is opened), so it is not recursive.
The inductive invariant `VerifyInv` is a disjunction while code is emitted. Either the
program is not clean and will be rejected: some block has a terminator too many or is
out of reach without one (`Spoilt`), or a match behind a return is about to go on
(`Doomed`). Or it is neat so far (`Neat(V)`, for the set `V` of statements opened):
`ChainIsRight` (lists and the ends they are for alternate in `todo`), `FramesAreRight`
(of each list under way a clean beginning has been visited, and its block has a
terminator exactly if a return is in that beginning; an arm is still in its first block
exactly if it has no branch), `OpenedAreRight` (each part of an opened statement is clean
or still to come), `KeptApart`, `KeptOpen` and `BlocksAreRight` (every block is well
formed, or open and kept by exactly one task for code to come). Because a neat program
may turn out not to be clean at any turn, each action has a lemma with three parts
(`Fares`): spoilt stays spoilt, doomed becomes spoilt, neat stays neat or the program is
not clean and spoilt or doomed. `Turn` collects what all turns have in common. At the
end `NothingLeft` shows that the statements that are in `V` if they are opened are
closed, hence hold all of `Reached`, so that a neat program is clean. TLC found
`VerifyInv` true in all 386,968 states of the `cfg` run (as an INVARIANT added to its
configuration) before it was proved. The proof needs `BranchesStayInside`, the other
half of what the verifier looks at.

`PlaygroundProofs`: `ZeroIsEarned`, `ReadyIsTrue`, `FilesAreKnown`. `IInv` has one part
per actor: `LinkerInv` (a compiler leaves a working linker behind only if it is killed, and
otherwise tells what it did), `RunInv`, `FilesInv` (which files exist at which
stage of a request), `RequestInv` (what a stage of the request says of compiler and
program) and `PageInv`.

`InstallerProofs`: `PageIsTrue`, `PathListsOnce`, `OthersAreKept`. The calls the worker
still has to make are an end of the list it began with (`TodoInv`), so their number tells
what has been done, and `InstallInv` and `RemoveInv` say so of the disk, PATH and the registry, as
long as no orphaned shell of an earlier session writes behind it. `PathListsOnce` is no
property of a run: a PATH in which Druk's directory is an entry of its own stays so and
lists it at most once. `OthersAreKept` reads both the old PATH, as the code page
has it, and the new one character by character (`Scan`, a recursive function like
`Nesting`): the two are read alike up to the edit and, two characters apart, behind a
removal; an entry that is Druk's or empty leaves no trace.

`ScopesProofs`: `ResolverIsRight`, `GeneratorIsRight`, `CheckerIsRight`, for every
program the parser makes. A scope is opened at a mark and closed at another, so what is on a
pass's stack of tables is known from the marks alone: `Depth` counts the open ones,
`Encloses` says that one is still open, and `Homes` that the tables of the stack belong,
in this order, to the scope-making marks that enclose the place reached. `IInv` then has
one part per pass. `ResolveInv`: a name is in a table exactly if a declaration before the
place is seen in its home, and `errors` are the unbound names passed (`Faults`).
`TypingInv`, in the checker: every name declared in a home is in its table, and
where the table says optional, the last of that name behind its initializer is
(`LastIsOption`); the checker starts on tables with errors for types, so nothing is said
of other types. `CheckInv` adds that as long as there is no error, nil was given to
options only (`NilFitsBefore`). `GenerateInv`: an entry is a declaration of the table's
frame, and each other declaration there is older than the entry or was in a match that
has ended (`StoredIn`, `PastMatch`). Two facts connect a table with a reader. `Nearest`: the latest declaration among those visible is the last one in
the innermost home that has any. `Lingering`: one that is stored and not visible
belongs to a statement that has ended, which is the exception `BindsAsWritten` makes.
That no accepted program has an unbound name (`NoneUnbound`), which the resolver
establishes, is what the generator's part needs of the passes before it. Without
`ProgramsAssumption` none of this holds: a declaration directly in a string or an
unwrapped operand would be stored by the generator and seen by no resolver, and nothing
would tell where a scope ends.

Only model-checked:

* Liveness: `CollectionEnds`, `KeepsPace`, `Terminates`, `EveryRunEnds`. It is out of
  the prover's reach, and so are the fairness and enabledness it rests on.
* What a recursion over a program computes: `RunsAsWritten`
  (`Statements` gives a meaning to trees), `ParsesAsWritten` (sentences are built with
  their meaning) and `ComputesAsWritten` (`Meaning` evaluates). These need induction over
  trees, which takes an operator as a parameter.
* `CleanFailsForLostValues`: no invariant yet says which instructions the code has of each
  statement that is reached.
* `CallersKeepTheirSlots`, whose module extends modules with recursive operators
  (`JitCode`, `Meaning`); no theorem can stand above one.

## 5. Findings

* `runtime_held`: `docs/future_features.md:3` promises a GC-backed language without
  manual memory management; the values a compiled program holds in its variables are
  no roots, so the first collection frees them. The parser's literals are not rooted
  either: a source with more literals than `kInitialThreshold` is compiled from freed
  memory.
* `parser_crash`: `tests/unit/parser/test_parser_errors.cpp:16` says that no input
  crashes the parser; a statement that begins with `=` does.

Seen while modelling, in the models as the code has it, without a run of its own:

* Lexer and parser. Documentation has a loop without a condition, function types in
  declarations and parameters without types; the parser takes none of them. `(x) * y` is
  taken for a lambda, though a parser test reads it as a product. A pattern that is a
  name, before `->`, is a lambda as well. `{id: ..}` at the start of a statement is a
  block. Only the first fault of a file is reported. Strings with braces do not nest.
  Columns are off by one behind a line break.
* Statements. A return at the end of a loop's body, and an `if` or loop in an arm of a
  match, make a program that LLVM's verifier rejects. The loop statement
  (`visitLoop`) and statements that use a struct disappear without a message. A function
  that tests a variable of a function around it makes the whole program one that LLVM
  rejects, and so does one that passes such a variable on to a function; one that returns
  it, unwraps it or puts it in a string crashes the compiler. Other uses are left out.
* Names. Behind a `for` its variable still hides an older one in the generated code. A
  call prefers a function to a variable of its name, a read the other way round; an
  assignment to a function's name is dropped. The resolver does not look into matches,
  interpolated strings and unwrapped operands. A captured variable is bound, but its
  slot is another function's: the back end drops the load and what depends on it. The
  checker lets nil through to a number where it looks at another declaration: a
  variable assigned inside its own initializer, where it has an outer one of that name
  or none, and one hidden by an optional one of its name that an arm of a match
  declared, because a match opens no scope and the arm's stays behind it.
* Expressions. `s + t` with two variables that hold texts is an integer sum and gives
  nil, because a load has no type; a comparison of two literal texts counts as a text
  in a sum around it; `&&` and `||` evaluate both operands, and take something other
  from a number than a branch does.
* Driver. `--vm` is read and makes no difference. Where there is no JIT engine the
  script is not run and the status is zero. A program compiled ahead of time always
  returns zero, one that is run returns the script's value. Object files stay.
* Playground. A program that could not be started, that a signal ended, or that was
  killed because it wrote more than the buffer takes, is answered as one that returned,
  and the page is ready. The page's status for an unreachable server never shows.
* Installer. `rollback` has nothing to roll back; a failure leaves the progress page
  without a word. The completion page congratulates on an installation after a removal
  too. PATH beyond the buffer is replaced; characters of it that the ANSI code page does
  not have are lost, and it becomes a `REG_EXPAND_SZ` whatever it was; an entry that begins with the bin directory
  is mistaken for Druk's own. An interrupted installation passes for a complete one.

## 6. What is not modelled, and the plan

`PROJECT.json` lists each component and its status. Not modelled: the C interface, which
serializes chunks for an embedding the repository does not have; the arena, the
interner, the printing of diagnostics and the update notice; the WebAssembly entry,
which names classes that no longer exist; the tests. Partly modelled: the bytecode
machine's containers, whose contents no property is about. Outside: LLVM, the linker,
Windows' own API and drawing, which appear by what the code relies on.

Next, proofs. Recursive functions can be reasoned about as `FrontEndProofs` does with
`Nesting`. What comes next is `Jit.CallersKeepTheirSlots`, once `Jit` is separate from the
modules that recurse.
