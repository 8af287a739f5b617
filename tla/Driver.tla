------------------------------- MODULE Driver -------------------------------
(***************************************************************************)
(* The druk command: its phases, each of which may end the process, and    *)
(* what it leaves in the file system.  The linker is a process of its own, *)
(* started through a shell: it goes on when druk is killed.                *)
(*                                                                         *)
(* Every process has a source, an object and a program file of its own.    *)
(***************************************************************************)
EXTENDS Naturals

CONSTANTS
    Procs,      \* the processes
    HaveLLVM    \* DRUK_HAVE_LLVM

\* The processes are numbered in the order in which they are started.
ASSUME ProcsAssumption == Procs \subseteq Nat \ {0}

VARIABLES
    at,        \* the phase each process is in
    mode,      \* compile or run
    exit,      \* its exit status: 0, 1, or killed by a signal
    linker,    \* its linker: none, working, done or failed
    ran,       \* the script's main was called: no, yes, or there is no engine
    source, object, program   \* its files: none, stale, partial or whole

Killed == 137
files == <<source, object, program>>
driverVars == <<at, mode, exit, linker, ran, files>>

Set(f, p, x) == [f EXCEPT ![p] = x]
Goto(p, phase) == at' = Set(at, p, phase) /\ UNCHANGED exit
Exit(p, status) == at' = Set(at, p, "ended") /\ exit' = Set(exit, p, status)

DriverInit ==
    /\ at = [p \in Procs |-> "idle"] /\ mode = [p \in Procs |-> "run"]
    /\ exit = [p \in Procs |-> 0] /\ linker = [p \in Procs |-> "none"]
    /\ ran = [p \in Procs |-> "no"]
    /\ source = [p \in Procs |-> "none"] /\ object = [p \in Procs |-> "none"]
    /\ program = [p \in Procs |-> "none"]

\* main's arguments: --vm is read and makes no difference.
Launch(p, m) ==
    /\ at[p] = "idle"
    /\ Goto(p, "read") /\ mode' = Set(mode, p, m)
    /\ UNCHANGED <<linker, ran>>

ReadFile(p) ==
    /\ at[p] = "read"
    /\ IF source[p] = "none" THEN Exit(p, 1) ELSE Goto(p, "parse")
    /\ UNCHANGED <<mode, linker, ran, files>>

PhaseAfter(p) ==
    CASE at[p] = "parse" -> "analyze"
      [] at[p] = "analyze" -> "generate"
      [] at[p] = "generate" -> IF mode[p] = "compile" THEN "emit" ELSE "execute"

\* A phase that reports an error is the last.
Translate(p) ==
    /\ at[p] \in {"parse", "analyze", "generate"}
    /\ Goto(p, PhaseAfter(p)) \/ Exit(p, 1)
    /\ UNCHANGED <<mode, linker, ran, files>>

\* Verification and the target, then the file, then the code.
EmitObjectFile(p) ==
    /\ at[p] = "emit"
    /\ \/ Exit(p, 1) /\ UNCHANGED object
       \/ HaveLLVM /\ Exit(p, 1) /\ object' = Set(object, p, "partial")
       \/ HaveLLVM /\ Exit(p, Killed) /\ object' = Set(object, p, "partial")  \* raw_fd_ostream aborts
       \/ HaveLLVM /\ Goto(p, "link") /\ object' = Set(object, p, "whole")
    /\ UNCHANGED <<mode, linker, ran, source, program>>

FindLinker(p) ==
    /\ at[p] = "link"
    /\ \/ Exit(p, 1) /\ UNCHANGED linker
       \/ Goto(p, "linking") /\ linker' = Set(linker, p, "working")
    /\ UNCHANGED <<mode, ran, files>>

\* External: a linker that fails removes its output or leaves what was there.
Link(p) ==
    /\ linker[p] = "working"
    /\ \/ linker' = Set(linker, p, "done") /\ program' = Set(program, p, "whole")
       \/ linker' = Set(linker, p, "failed") /\ UNCHANGED program
       \/ linker' = Set(linker, p, "failed") /\ program' = Set(program, p, "none")
    /\ UNCHANGED <<at, mode, exit, ran, source, object>>

\* Mutant of Linked: it is enough that the program is there.
LinkedIfThere(p) == program[p] # "none"
Linked(p) == linker[p] = "done" /\ program[p] # "none"

LinkExecutable(p) ==
    /\ at[p] = "linking" /\ linker[p] \in {"done", "failed"}
    /\ Exit(p, IF Linked(p) THEN 0 ELSE 1)
    /\ UNCHANGED <<mode, linker, ran, files>>

\* Without LLVM, or when its engine cannot be made, the script is not run and the
\* status is zero.
EngineMissing(p) == at[p] = "execute" /\ Exit(p, 0) /\ ran' = Set(ran, p, "noEngine")

Execute(p) ==
    /\ \/ EngineMissing(p)
       \/ HaveLLVM /\ at[p] = "execute" /\ Exit(p, 1) /\ UNCHANGED ran   \* it does not compile
       \/ HaveLLVM /\ at[p] = "execute" /\ Goto(p, "executing") /\ ran' = Set(ran, p, "yes")
    /\ UNCHANGED <<mode, linker, files>>

Return(p) ==
    /\ at[p] = "executing" /\ \E status \in {0, 1} : Exit(p, status)
    /\ UNCHANGED <<mode, linker, ran, files>>

Kill(p) ==
    /\ at[p] \notin {"idle", "ended"}
    /\ Exit(p, Killed)
    /\ UNCHANGED <<mode, linker, ran, files>>

DriverStep(p) ==
    \/ ReadFile(p) \/ Translate(p) \/ EmitObjectFile(p) \/ FindLinker(p) \/ Link(p)
    \/ LinkExecutable(p) \/ Execute(p) \/ Return(p)
=============================================================================
