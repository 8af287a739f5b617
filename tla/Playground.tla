----------------------------- MODULE Playground -----------------------------
(***************************************************************************)
(* The web playground: the page, the server behind it, and the compiler    *)
(* and the program the server starts for each request.  Each step of the   *)
(* server is a callback; it kills the compiler after ten seconds and the   *)
(* program after five.  The answer may be lost on its way.  The same       *)
(* compiler is used from a shell, on files that may be there before.       *)
(***************************************************************************)
EXTENDS Driver

VARIABLES
    next,       \* the number of the next process
    request,    \* what the server is at: none, writing, compiling, running or answered
    answer,     \* what it answered
    prog,       \* the program: none, running, ended, killed, cutOff, missing, refused
    unlinking,  \* the files the server has told the system to remove
    status,     \* the page's status line
    isRunning,
    awaited     \* the request the page waits for, or shows

server == <<request, answer, prog, unlinking>>
page == <<status, isRunning, awaited>>
vars == <<driverVars, next, server, page>>

Init ==
    /\ DriverInit /\ next = 1
    /\ request = [p \in Procs |-> "none"] /\ answer = [p \in Procs |-> "none"]
    /\ prog = [p \in Procs |-> "none"] /\ unlinking = [p \in Procs |-> {}]
    /\ status = "Ready" /\ isRunning = FALSE /\ awaited = 0
-----------------------------------------------------------------------------
\* The page.
OnRun ==
    /\ ~isRunning /\ next \in Procs
    /\ isRunning' = TRUE /\ status' = "Running" /\ awaited' = next
    /\ next' = next + 1
    /\ request' = Set(request, next, "writing")
    /\ UNCHANGED <<driverVars, answer, prog, unlinking>>

\* An answer other than 200 carries an error.
Answered ==
    /\ isRunning /\ request[awaited] = "answered"
    /\ isRunning' = FALSE
    /\ status' = IF answer[awaited] = "result" THEN "Ready" ELSE "Error"
    /\ UNCHANGED <<driverVars, next, server, awaited>>

\* runAot makes an answer of every failure of fetch, so onRun never catches one.
AnswerLost ==
    /\ isRunning
    /\ isRunning' = FALSE /\ status' = "Error"
    /\ UNCHANGED <<driverVars, next, server, awaited>>

\* onReset: another source, and the status of one that can be run.
OnReset ==
    /\ ~isRunning /\ status # "Ready"
    /\ status' = "Ready" /\ awaited' = 0
    /\ UNCHANGED <<driverVars, next, server, isRunning>>
-----------------------------------------------------------------------------
\* The server, request p.
Answer(p, what, remove) ==
    /\ request' = Set(request, p, "answered") /\ answer' = Set(answer, p, what)
    /\ unlinking' = Set(unlinking, p, remove)

Written(p) ==
    /\ request[p] = "writing"
    /\ source' = Set(source, p, "whole")
    /\ request' = Set(request, p, "compiling") /\ Launch(p, "compile")
    /\ UNCHANGED <<object, program, next, answer, prog, unlinking, page>>

NoCode(p) ==
    /\ request[p] = "writing"
    /\ Answer(p, "noCode", {})
    /\ UNCHANGED <<driverVars, next, prog, page>>

NotWritten(p) ==
    /\ request[p] = "writing"
    /\ Answer(p, "notWritten", {})
    /\ \E s \in {"none", "partial"} : source' = Set(source, p, s)
    /\ UNCHANGED <<at, mode, exit, linker, ran, object, program, next, prog, page>>

\* After ten seconds, or more output than the server takes: an error like any other.
CompileTimeout(p) == request[p] = "compiling" /\ Kill(p) /\ UNCHANGED <<next, server, page>>

Compiling(p) == request[p] = "compiling" /\ at[p] = "ended"

\* Mutant of CompileFailed: nothing is removed.
CompileFailedLeft(p) ==
    /\ Compiling(p) /\ exit[p] # 0
    /\ Answer(p, "compilationFailed", {})
    /\ UNCHANGED <<driverVars, next, prog, page>>

CompileFailed(p) ==
    /\ Compiling(p) /\ exit[p] # 0
    /\ Answer(p, "compilationFailed", {"source"})
    /\ UNCHANGED <<driverVars, next, prog, page>>

\* The system may refuse another process.
Compiled(p) ==
    /\ Compiling(p) /\ exit[p] = 0
    /\ request' = Set(request, p, "running")
    /\ \/ prog' = Set(prog, p, IF program[p] = "none" THEN "missing" ELSE "running")
       \/ prog' = Set(prog, p, "refused")
    /\ UNCHANGED <<driverVars, next, answer, unlinking, page>>

\* External: the program ends, by returning or by a signal of its own, or never.
ProgramEnds(p) ==
    /\ prog[p] = "running" /\ prog' = Set(prog, p, "ended")
    /\ UNCHANGED <<driverVars, next, request, answer, unlinking, page>>

\* Mutant of RunTimeout: the program is given all the time it takes.
RunTimeoutNever(p) == FALSE /\ prog' = prog /\ UNCHANGED <<driverVars, next, request, answer, unlinking, page>>

\* After five seconds.
RunTimeout(p) ==
    /\ prog[p] = "running" /\ prog' = Set(prog, p, "killed")
    /\ UNCHANGED <<driverVars, next, request, answer, unlinking, page>>

\* A program that writes more than execFile takes is killed as well, but its error
\* is of another kind: it does not say killed.
RunTooMuch(p) ==
    /\ prog[p] = "running" /\ prog' = Set(prog, p, "cutOff")
    /\ UNCHANGED <<driverVars, next, request, answer, unlinking, page>>

\* Mutant of RunEnded: a killed program is answered like any other.
RunEndedWell(p) ==
    /\ request[p] = "running" /\ prog[p] # "running"
    /\ Answer(p, "result", {"source", "program"})
    /\ UNCHANGED <<driverVars, next, prog, page>>

\* Only the timeout is an error: a program that could not be started, or that wrote
\* too much, has an exit code too.
RunEnded(p) ==
    /\ request[p] = "running" /\ prog[p] # "running"
    /\ Answer(p, IF prog[p] = "killed" THEN "executionTimeout" ELSE "result", {"source", "program"})
    /\ UNCHANGED <<driverVars, next, prog, page>>

Unlinked(p) ==
    /\ unlinking[p] # {}
    /\ \E f \in unlinking[p] :
          /\ unlinking' = Set(unlinking, p, unlinking[p] \ {f})
          /\ source' = IF f = "source" THEN Set(source, p, "none") ELSE source
          /\ program' = IF f = "program" THEN Set(program, p, "none") ELSE program
    /\ UNCHANGED <<at, mode, exit, linker, ran, object, next, request, answer, prog, page>>
-----------------------------------------------------------------------------
\* From a shell.
Shell ==
    /\ next \in Procs /\ next' = next + 1
    /\ \E m \in {"compile", "run"}, s \in {"none", "whole"}, o \in {"none", "stale"} :
          /\ Launch(next, m)
          /\ source' = Set(source, next, s) /\ program' = Set(program, next, o)
    /\ UNCHANGED <<object, server, page>>

Interrupt(p) == request[p] = "none" /\ Kill(p) /\ UNCHANGED <<next, server, page>>

Page == OnRun \/ Answered \/ AnswerLost \/ OnReset
Callback(p) ==
    \/ NoCode(p) \/ Written(p) \/ NotWritten(p)
    \/ CompileFailed(p) \/ Compiled(p) \/ RunEnded(p) \/ Unlinked(p)
Command(p) == DriverStep(p) /\ UNCHANGED <<next, server, page>>

Next ==
    \/ Page \/ Shell
    \/ \E p \in Procs :
          \/ Callback(p) \/ Command(p) \/ CompileTimeout(p) \/ Interrupt(p)
          \/ ProgramEnds(p) \/ RunTimeout(p) \/ RunTooMuch(p)

\* The server's loop runs every callback that is due and fires its timers, and the
\* page takes an answer that has come.  Nothing is assumed of the compiler, of the
\* linker or of the program.
Spec ==
    /\ Init /\ [][Next]_vars
    /\ \A p \in Procs :
          WF_vars(Callback(p)) /\ WF_vars(CompileTimeout(p)) /\ WF_vars(RunTimeout(p))
    /\ WF_vars(Answered)
-----------------------------------------------------------------------------
TypeOK ==
    /\ at \in [Procs -> {"idle", "read", "parse", "analyze", "generate", "emit", "link",
                         "linking", "execute", "executing", "ended"}]
    /\ mode \in [Procs -> {"compile", "run"}] /\ exit \in [Procs -> {0, 1, Killed}]
    /\ linker \in [Procs -> {"none", "working", "done", "failed"}]
    /\ ran \in [Procs -> {"no", "yes", "noEngine"}]
    /\ source \in [Procs -> {"none", "partial", "whole"}]
    /\ object \in [Procs -> {"none", "partial", "whole"}]
    /\ program \in [Procs -> {"none", "stale", "whole"}]
    /\ next \in Nat \ {0}
    /\ request \in [Procs -> {"none", "writing", "compiling", "running", "answered"}]
    /\ answer \in [Procs -> {"none", "noCode", "notWritten",
                             "compilationFailed", "executionTimeout", "result"}]
    /\ prog \in [Procs -> {"none", "running", "ended", "killed", "cutOff", "missing", "refused"}]
    /\ unlinking \in [Procs -> SUBSET {"source", "program"}]
    /\ status \in {"Ready", "Running", "Error"}
    /\ isRunning \in BOOLEAN
    /\ awaited \in Procs \cup {0}

\* A linker is the last thing a compilation starts; druk leaves it behind only if
\* it is killed, and otherwise tells what it did.
LinkerInv(p) ==
    /\ at[p] \in {"emit", "link", "linking"} => mode[p] = "compile"
    /\ linker[p] # "none" => at[p] \in {"linking", "ended"} /\ mode[p] = "compile"
    /\ at[p] = "linking" => linker[p] # "none"
    /\ at[p] = "ended" /\ exit[p] # Killed => linker[p] # "working"
    /\ at[p] = "ended" /\ linker[p] = "done" => exit[p] # 1
    /\ at[p] = "ended" /\ exit[p] = 0 /\ mode[p] = "compile" => linker[p] = "done"

\* A script that is run has its main called.
RunInv(p) ==
    /\ at[p] \in {"execute", "executing"} => mode[p] = "run"
    /\ at[p] = "executing" => ran[p] = "yes"
    /\ at[p] = "ended" /\ exit[p] = 0 /\ mode[p] = "run" => ran[p] # "no"

\* What there is to remove is in the hands of the request until it is answered.
FilesInv(p) ==
    /\ at[p] = "idle" /\ request[p] \in {"none", "writing"} => source[p] = "none" /\ program[p] = "none"
    /\ linker[p] = "done" /\ request[p] # "answered" => program[p] = "whole"
    /\ request[p] # "none" /\ linker[p] # "done" => program[p] = "none"
    /\ request[p] # "answered" => unlinking[p] = {}
    /\ request[p] = "answered" =>
          /\ source[p] = "none" \/ "source" \in unlinking[p] \/ answer[p] = "notWritten"
          /\ program[p] = "none" \/ "program" \in unlinking[p] \/ exit[p] = Killed

\* A request compiles, then runs what it compiled, then answers.
RequestInv(p) ==
    /\ next <= p => at[p] = "idle" /\ request[p] = "none"
    /\ request[p] = "writing" => at[p] = "idle"
    /\ request[p] \in {"compiling", "running"} => at[p] # "idle" /\ mode[p] = "compile"
    /\ request[p] = "running" => at[p] = "ended" /\ exit[p] = 0 /\ prog[p] \notin {"none", "missing"}
    /\ request[p] = "answered" => at[p] \in {"idle", "ended"}
    /\ request[p] = "answered" /\ answer[p] = "result" =>
          linker[p] = "done" /\ prog[p] \in {"ended", "cutOff", "refused"}

\* The page waits for a request that was made, or shows what it answered.
PageInv ==
    /\ awaited # 0 => request[awaited] # "none"
    /\ isRunning => awaited # 0 /\ status = "Running"
    /\ ~isRunning /\ status = "Ready" /\ awaited # 0 =>
          request[awaited] = "answered" /\ answer[awaited] = "result"

IInv ==
    /\ TypeOK
    /\ \A p \in Procs : LinkerInv(p) /\ RunInv(p) /\ FilesInv(p) /\ RequestInv(p)
    /\ PageInv
-----------------------------------------------------------------------------
\* A zero exit status is earned: the program has been linked from this source, not
\* left there by an earlier compilation, or the script's main was called.  The
\* exception is an engine that cannot be made.
ZeroMeansDone ==
    \A p \in Procs :
        at[p] = "ended" /\ exit[p] = 0 /\ request[p] \in {"none", "compiling"} =>
            IF mode[p] = "compile" THEN program[p] = "whole" ELSE ran[p] # "no"

\* The page is ready again only behind a program that was linked from what was on
\* the page and that the timeout did not stop: it came to its end, or was cut off
\* because it wrote too much, or the system refused to start it.
ReadyMeansRan ==
    ~isRunning /\ status = "Ready" /\ awaited # 0 =>
        linker[awaited] = "done" /\ prog[awaited] \in {"ended", "cutOff", "refused"}

\* When a request has been answered and its processes are gone, its source is gone
\* and so is its program.  Not if the compiler was killed, for its linker may have
\* finished behind the answer, nor if the source could not be written.  The object
\* file always stays.
OnlyKnownFilesStay ==
    \A p \in Procs :
        request[p] = "answered" /\ unlinking[p] = {} /\ linker[p] # "working" =>
            /\ source[p] = "none" \/ answer[p] = "notWritten"
            /\ program[p] = "none" \/ exit[p] = Killed

\* Whatever the compiler, the linker and the program do, the page stops waiting.
EveryRunEnds == isRunning ~> ~isRunning
=============================================================================
