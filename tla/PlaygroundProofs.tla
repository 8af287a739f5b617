-------------------------- MODULE PlaygroundProofs --------------------------
(***************************************************************************)
(* The playground and the command behind it, for any number of processes:  *)
(* IInv is inductive.  A step is a step of one process, or of the page; it  *)
(* keeps what IInv says of every other process (OthersKeep), and there is  *)
(* one lemma for each kind of step, with one step for each conjunct of     *)
(* IInv.                                                                   *)
(***************************************************************************)
EXTENDS Playground, TLAPS

ProcInv(p) == LinkerInv(p) /\ RunInv(p) /\ FilesInv(p) /\ RequestInv(p)

LEMMA ProcessZero == 0 \notin Procs
BY ProcsAssumption

\* Nothing of another process changes.
OnlyOf(p) ==
    /\ next <= next'
    /\ \A q \in Procs \ {p} :
          /\ at'[q] = at[q] /\ mode'[q] = mode[q] /\ exit'[q] = exit[q]
          /\ linker'[q] = linker[q] /\ ran'[q] = ran[q]
          /\ source'[q] = source[q] /\ program'[q] = program[q]
          /\ request'[q] = request[q] /\ answer'[q] = answer[q]
          /\ prog'[q] = prog[q] /\ unlinking'[q] = unlinking[q]

LEMMA OthersKeep ==
    ASSUME IInv, TypeOK', NEW p, OnlyOf(p)
    PROVE  \A q \in Procs \ {p} : ProcInv(q)'
<1>. SUFFICES ASSUME NEW q \in Procs \ {p}
              PROVE  ProcInv(q)'
  BY DEF ProcInv
<1>1. (next' <= q => next <= q) /\ ProcInv(q)
  BY ProcsAssumption DEF OnlyOf, IInv, TypeOK, ProcInv
<1>2. LinkerInv(q)'
  BY <1>1 DEF OnlyOf, ProcInv, LinkerInv
<1>3. RunInv(q)'
  BY <1>1 DEF OnlyOf, ProcInv, RunInv
<1>4. FilesInv(q)'
  BY <1>1 DEF OnlyOf, ProcInv, FilesInv
<1>5. RequestInv(q)'
  BY <1>1 DEF OnlyOf, ProcInv, RequestInv
<1>. QED
  BY <1>2, <1>3, <1>4, <1>5 DEF ProcInv

LEMMA InitIInv == Init => IInv
<1>. SUFFICES ASSUME Init PROVE IInv
  OBVIOUS
<1>a. isRunning \in BOOLEAN
  BY Zenon DEF Init
<1>b. awaited \in Procs \cup {0}
  BY DEF Init
<1>c. status \in {"Ready", "Running", "Error"}
  BY DEF Init
<1>d. next \in Nat \ {0}
  BY DEF Init
<1>e. unlinking \in [Procs -> SUBSET {"source", "program"}]
  BY DEF Init
<1>f. exit \in [Procs -> {0, 1, Killed}]
  BY DEF Init, DriverInit
<1>1. TypeOK
  BY <1>a, <1>b, <1>c, <1>d, <1>e, <1>f DEF Init, DriverInit, TypeOK
<1>2. ASSUME NEW p \in Procs PROVE LinkerInv(p) /\ RunInv(p) /\ FilesInv(p) /\ RequestInv(p)
  BY DEF Init, DriverInit, LinkerInv, RunInv, FilesInv, RequestInv, Killed
<1>. QED
  BY <1>1, <1>2 DEF Init, IInv, PageInv


LEMMA NoCodeKeeps ==
    ASSUME IInv, NEW p \in Procs, NoCode(p)
    PROVE  IInv'
<1>. USE DEF IInv, TypeOK, NoCode, Answer, Set, driverVars, files, page
<1>1. TypeOK'
  OBVIOUS
<1>2. OnlyOf(p)
  BY DEF OnlyOf
<1>3. LinkerInv(p)'
  BY DEF LinkerInv
<1>4. RunInv(p)'
  BY DEF RunInv
<1>5. FilesInv(p)'
  BY DEF FilesInv, RequestInv
<1>6. RequestInv(p)'
  BY DEF RequestInv
<1>7. PageInv'
  BY ProcessZero DEF PageInv
<1>. QED
  BY <1>1, <1>2, <1>3, <1>4, <1>5, <1>6, <1>7, OthersKeep DEF ProcInv

LEMMA WrittenKeeps ==
    ASSUME IInv, NEW p \in Procs, Written(p)
    PROVE  IInv'
<1>. USE DEF IInv, TypeOK, Written, Launch, Goto, Set, page
<1>1. TypeOK'
  OBVIOUS
<1>2. OnlyOf(p)
  BY DEF OnlyOf
<1>3. LinkerInv(p)'
  BY DEF LinkerInv
<1>4. RunInv(p)'
  BY DEF RunInv
<1>5. FilesInv(p)'
  BY DEF FilesInv
<1>6. RequestInv(p)'
  BY DEF RequestInv
<1>7. PageInv'
  BY ProcessZero DEF PageInv
<1>. QED
  BY <1>1, <1>2, <1>3, <1>4, <1>5, <1>6, <1>7, OthersKeep DEF ProcInv

LEMMA NotWrittenKeeps ==
    ASSUME IInv, NEW p \in Procs, NotWritten(p)
    PROVE  IInv'
<1>. USE DEF IInv, TypeOK, NotWritten, Answer, Set, page
<1>1. TypeOK'
  OBVIOUS
<1>2. OnlyOf(p)
  BY DEF OnlyOf
<1>3. LinkerInv(p)'
  BY DEF LinkerInv
<1>4. RunInv(p)'
  BY DEF RunInv
<1>5. FilesInv(p)'
  BY DEF FilesInv, RequestInv
<1>6. RequestInv(p)'
  BY DEF RequestInv
<1>7. PageInv'
  BY ProcessZero DEF PageInv
<1>. QED
  BY <1>1, <1>2, <1>3, <1>4, <1>5, <1>6, <1>7, OthersKeep DEF ProcInv

LEMMA CompileFailedKeeps ==
    ASSUME IInv, NEW p \in Procs, CompileFailed(p)
    PROVE  IInv'
<1>. USE DEF IInv, TypeOK, CompileFailed, Compiling, Answer, Set, driverVars, files, page
<1>1. TypeOK'
  OBVIOUS
<1>2. OnlyOf(p)
  BY DEF OnlyOf
<1>3. LinkerInv(p)'
  BY DEF LinkerInv
<1>4. RunInv(p)'
  BY DEF RunInv
<1>5. FilesInv(p)'
  BY DEF FilesInv, LinkerInv
<1>6. RequestInv(p)'
  BY DEF RequestInv
<1>7. PageInv'
  BY ProcessZero DEF PageInv
<1>. QED
  BY <1>1, <1>2, <1>3, <1>4, <1>5, <1>6, <1>7, OthersKeep DEF ProcInv

LEMMA CompiledKeeps ==
    ASSUME IInv, NEW p \in Procs, Compiled(p)
    PROVE  IInv'
<1>. USE DEF IInv, TypeOK, Compiled, Compiling, Set, driverVars, files, page
<1>1. TypeOK'
  OBVIOUS
<1>2. OnlyOf(p)
  BY DEF OnlyOf
<1>3. LinkerInv(p)'
  BY DEF LinkerInv
<1>4. RunInv(p)'
  BY DEF RunInv
<1>5. FilesInv(p)'
  BY DEF FilesInv
<1>6. RequestInv(p)'
  BY DEF RequestInv, LinkerInv, FilesInv
<1>7. PageInv'
  BY ProcessZero DEF PageInv
<1>. QED
  BY <1>1, <1>2, <1>3, <1>4, <1>5, <1>6, <1>7, OthersKeep DEF ProcInv

LEMMA RunEndedKeeps ==
    ASSUME IInv, NEW p \in Procs, RunEnded(p)
    PROVE  IInv'
<1>. USE DEF IInv, TypeOK, RunEnded, Answer, Set, driverVars, files, page
<1>1. TypeOK'
  OBVIOUS
<1>2. OnlyOf(p)
  BY DEF OnlyOf
<1>3. LinkerInv(p)'
  BY DEF LinkerInv
<1>4. RunInv(p)'
  BY DEF RunInv
<1>5. FilesInv(p)'
  BY DEF FilesInv
<1>6. RequestInv(p)'
  BY DEF RequestInv, LinkerInv
<1>7. PageInv'
  BY ProcessZero DEF PageInv
<1>. QED
  BY <1>1, <1>2, <1>3, <1>4, <1>5, <1>6, <1>7, OthersKeep DEF ProcInv

LEMMA UnlinkedKeeps ==
    ASSUME IInv, NEW p \in Procs, Unlinked(p)
    PROVE  IInv'
<1>. USE DEF IInv, TypeOK, Unlinked, Set, page
<1>1. TypeOK'
  OBVIOUS
<1>2. OnlyOf(p)
  BY DEF OnlyOf
<1>3. LinkerInv(p)'
  BY DEF LinkerInv
<1>4. RunInv(p)'
  BY DEF RunInv
<1>5. FilesInv(p)'
  BY DEF FilesInv
<1>6. RequestInv(p)'
  BY DEF RequestInv
<1>7. PageInv'
  BY ProcessZero DEF PageInv
<1>. QED
  BY <1>1, <1>2, <1>3, <1>4, <1>5, <1>6, <1>7, OthersKeep DEF ProcInv

LEMMA ReadFileKeeps ==
    ASSUME IInv, NEW p \in Procs, ReadFile(p), UNCHANGED <<next, server, page>>
    PROVE  IInv'
<1>. USE DEF IInv, TypeOK, ReadFile, Goto, Exit, Set, files, server, page
<1>1. TypeOK'
  OBVIOUS
<1>2. OnlyOf(p)
  BY DEF OnlyOf
<1>3. LinkerInv(p)'
  BY DEF LinkerInv
<1>4. RunInv(p)'
  BY DEF RunInv
<1>5. FilesInv(p)'
  BY DEF FilesInv, LinkerInv
<1>6. RequestInv(p)'
  BY DEF RequestInv
<1>7. PageInv'
  BY ProcessZero DEF PageInv
<1>. QED
  BY <1>1, <1>2, <1>3, <1>4, <1>5, <1>6, <1>7, OthersKeep DEF ProcInv

LEMMA TranslateKeeps ==
    ASSUME IInv, NEW p \in Procs, Translate(p), UNCHANGED <<next, server, page>>
    PROVE  IInv'
<1>. USE DEF IInv, TypeOK, Translate, PhaseAfter, Goto, Exit, Set, files, server, page
<1>1. TypeOK'
  OBVIOUS
<1>2. OnlyOf(p)
  BY DEF OnlyOf
<1>3. LinkerInv(p)'
  BY DEF LinkerInv
<1>4. RunInv(p)'
  BY DEF RunInv
<1>5. FilesInv(p)'
  BY DEF FilesInv, LinkerInv
<1>6. RequestInv(p)'
  BY DEF RequestInv
<1>7. PageInv'
  BY ProcessZero DEF PageInv
<1>. QED
  BY <1>1, <1>2, <1>3, <1>4, <1>5, <1>6, <1>7, OthersKeep DEF ProcInv

LEMMA EmitObjectFileKeeps ==
    ASSUME IInv, NEW p \in Procs, EmitObjectFile(p), UNCHANGED <<next, server, page>>
    PROVE  IInv'
<1>. USE DEF IInv, TypeOK, EmitObjectFile, Goto, Exit, Set, server, page
<1>1. TypeOK'
  OBVIOUS
<1>2. OnlyOf(p)
  BY DEF OnlyOf
<1>3. LinkerInv(p)'
  BY DEF LinkerInv, Killed
<1>4. RunInv(p)'
  BY DEF RunInv, LinkerInv
<1>5. FilesInv(p)'
  BY DEF FilesInv, LinkerInv
<1>6. RequestInv(p)'
  BY DEF RequestInv
<1>7. PageInv'
  BY ProcessZero DEF PageInv
<1>. QED
  BY <1>1, <1>2, <1>3, <1>4, <1>5, <1>6, <1>7, OthersKeep DEF ProcInv

LEMMA FindLinkerKeeps ==
    ASSUME IInv, NEW p \in Procs, FindLinker(p), UNCHANGED <<next, server, page>>
    PROVE  IInv'
<1>. USE DEF IInv, TypeOK, FindLinker, Goto, Exit, Set, files, server, page
<1>1. TypeOK'
  OBVIOUS
<1>2. OnlyOf(p)
  BY DEF OnlyOf
<1>3. LinkerInv(p)'
  BY DEF LinkerInv
<1>4. RunInv(p)'
  BY DEF RunInv
<1>5. FilesInv(p)'
  BY DEF FilesInv, LinkerInv
<1>6. RequestInv(p)'
  BY DEF RequestInv
<1>7. PageInv'
  BY ProcessZero DEF PageInv
<1>. QED
  BY <1>1, <1>2, <1>3, <1>4, <1>5, <1>6, <1>7, OthersKeep DEF ProcInv

LEMMA LinkKeeps ==
    ASSUME IInv, NEW p \in Procs, Link(p), UNCHANGED <<next, server, page>>
    PROVE  IInv'
<1>. USE DEF IInv, TypeOK, Link, Set, server, page
<1>1. TypeOK'
  OBVIOUS
<1>2. OnlyOf(p)
  BY DEF OnlyOf
<1>3. LinkerInv(p)'
  BY DEF LinkerInv, Killed
<1>4. RunInv(p)'
  BY DEF RunInv
<1>5. FilesInv(p)'
  BY DEF FilesInv, LinkerInv, RequestInv
<1>6. RequestInv(p)'
  BY DEF RequestInv
<1>7. PageInv'
  BY ProcessZero DEF PageInv
<1>. QED
  BY <1>1, <1>2, <1>3, <1>4, <1>5, <1>6, <1>7, OthersKeep DEF ProcInv

LEMMA LinkExecutableKeeps ==
    ASSUME IInv, NEW p \in Procs, LinkExecutable(p), UNCHANGED <<next, server, page>>
    PROVE  IInv'
<1>. USE DEF IInv, TypeOK, LinkExecutable, Linked, Exit, Set, files, server, page
<1>1. TypeOK'
  OBVIOUS
<1>2. OnlyOf(p)
  BY DEF OnlyOf
<1>3. LinkerInv(p)'
  BY DEF LinkerInv, RequestInv, FilesInv
<1>4. RunInv(p)'
  BY DEF RunInv, LinkerInv
<1>5. FilesInv(p)'
  BY DEF FilesInv, RequestInv
<1>6. RequestInv(p)'
  BY DEF RequestInv
<1>7. PageInv'
  BY ProcessZero DEF PageInv
<1>. QED
  BY <1>1, <1>2, <1>3, <1>4, <1>5, <1>6, <1>7, OthersKeep DEF ProcInv

LEMMA ExecuteKeeps ==
    ASSUME IInv, NEW p \in Procs, Execute(p), UNCHANGED <<next, server, page>>
    PROVE  IInv'
<1>. USE DEF IInv, TypeOK, Execute, EngineMissing, Goto, Exit, Set, files, server, page
<1>1. TypeOK'
  OBVIOUS
<1>2. OnlyOf(p)
  BY DEF OnlyOf
<1>3. LinkerInv(p)'
  BY DEF LinkerInv, RunInv
<1>4. RunInv(p)'
  BY DEF RunInv
<1>5. FilesInv(p)'
  BY DEF FilesInv, LinkerInv
<1>6. RequestInv(p)'
  BY DEF RequestInv
<1>7. PageInv'
  BY ProcessZero DEF PageInv
<1>. QED
  BY <1>1, <1>2, <1>3, <1>4, <1>5, <1>6, <1>7, OthersKeep DEF ProcInv

LEMMA ReturnKeeps ==
    ASSUME IInv, NEW p \in Procs, Return(p), UNCHANGED <<next, server, page>>
    PROVE  IInv'
<1>. USE DEF IInv, TypeOK, Return, Exit, Set, files, server, page
<1>1. TypeOK'
  OBVIOUS
<1>2. OnlyOf(p)
  BY DEF OnlyOf
<1>3. LinkerInv(p)'
  BY DEF LinkerInv, RunInv
<1>4. RunInv(p)'
  BY DEF RunInv
<1>5. FilesInv(p)'
  BY DEF FilesInv, LinkerInv
<1>6. RequestInv(p)'
  BY DEF RequestInv
<1>7. PageInv'
  BY ProcessZero DEF PageInv
<1>. QED
  BY <1>1, <1>2, <1>3, <1>4, <1>5, <1>6, <1>7, OthersKeep DEF ProcInv

LEMMA CompileTimeoutKeeps ==
    ASSUME IInv, NEW p \in Procs, CompileTimeout(p)
    PROVE  IInv'
<1>. USE DEF IInv, TypeOK, CompileTimeout, Kill, Exit, Set, files, server, page
<1>1. TypeOK'
  OBVIOUS
<1>2. OnlyOf(p)
  BY DEF OnlyOf
<1>3. LinkerInv(p)'
  BY DEF LinkerInv, Killed
<1>4. RunInv(p)'
  BY DEF RunInv, RequestInv
<1>5. FilesInv(p)'
  BY DEF FilesInv
<1>6. RequestInv(p)'
  BY DEF RequestInv
<1>7. PageInv'
  BY ProcessZero DEF PageInv
<1>. QED
  BY <1>1, <1>2, <1>3, <1>4, <1>5, <1>6, <1>7, OthersKeep DEF ProcInv

LEMMA ProgramEndsKeeps ==
    ASSUME IInv, NEW p \in Procs, ProgramEnds(p)
    PROVE  IInv'
<1>. USE DEF IInv, TypeOK, ProgramEnds, Set, driverVars, files, page
<1>1. TypeOK'
  OBVIOUS
<1>2. OnlyOf(p)
  BY DEF OnlyOf
<1>3. LinkerInv(p)'
  BY DEF LinkerInv
<1>4. RunInv(p)'
  BY DEF RunInv
<1>5. FilesInv(p)'
  BY DEF FilesInv
<1>6. RequestInv(p)'
  BY DEF RequestInv
<1>7. PageInv'
  BY ProcessZero DEF PageInv
<1>. QED
  BY <1>1, <1>2, <1>3, <1>4, <1>5, <1>6, <1>7, OthersKeep DEF ProcInv

LEMMA RunTimeoutKeeps ==
    ASSUME IInv, NEW p \in Procs, RunTimeout(p)
    PROVE  IInv'
<1>. USE DEF IInv, TypeOK, RunTimeout, Set, driverVars, files, page
<1>1. TypeOK'
  OBVIOUS
<1>2. OnlyOf(p)
  BY DEF OnlyOf
<1>3. LinkerInv(p)'
  BY DEF LinkerInv
<1>4. RunInv(p)'
  BY DEF RunInv
<1>5. FilesInv(p)'
  BY DEF FilesInv
<1>6. RequestInv(p)'
  BY DEF RequestInv
<1>7. PageInv'
  BY ProcessZero DEF PageInv
<1>. QED
  BY <1>1, <1>2, <1>3, <1>4, <1>5, <1>6, <1>7, OthersKeep DEF ProcInv

LEMMA RunTooMuchKeeps ==
    ASSUME IInv, NEW p \in Procs, RunTooMuch(p)
    PROVE  IInv'
<1>. USE DEF IInv, TypeOK, RunTooMuch, Set, driverVars, files, page
<1>1. TypeOK'
  OBVIOUS
<1>2. OnlyOf(p)
  BY DEF OnlyOf
<1>3. LinkerInv(p)'
  BY DEF LinkerInv
<1>4. RunInv(p)'
  BY DEF RunInv
<1>5. FilesInv(p)'
  BY DEF FilesInv
<1>6. RequestInv(p)'
  BY DEF RequestInv
<1>7. PageInv'
  BY ProcessZero DEF PageInv
<1>. QED
  BY <1>1, <1>2, <1>3, <1>4, <1>5, <1>6, <1>7, OthersKeep DEF ProcInv

LEMMA InterruptKeeps ==
    ASSUME IInv, NEW p \in Procs, Interrupt(p)
    PROVE  IInv'
<1>. USE DEF IInv, TypeOK, Interrupt, Kill, Exit, Set, files, server, page
<1>1. TypeOK'
  OBVIOUS
<1>2. OnlyOf(p)
  BY DEF OnlyOf
<1>3. LinkerInv(p)'
  BY DEF LinkerInv, Killed
<1>4. RunInv(p)'
  BY DEF RunInv, Killed
<1>5. FilesInv(p)'
  BY DEF FilesInv
<1>6. RequestInv(p)'
  BY DEF RequestInv
<1>7. PageInv'
  BY ProcessZero DEF PageInv
<1>. QED
  BY <1>1, <1>2, <1>3, <1>4, <1>5, <1>6, <1>7, OthersKeep DEF ProcInv

LEMMA ShellKeeps ==
    ASSUME IInv, Shell
    PROVE  IInv'
<1>0. PICK p \in Procs : p = next
  BY DEF Shell
<1>1. TypeOK'
  BY <1>0 DEF Shell, Launch, Goto, Set, server, page, IInv, TypeOK
<1>2. OnlyOf(p)
  BY <1>0 DEF Shell, Launch, Goto, Set, server, page, IInv, TypeOK, OnlyOf
<1>3. LinkerInv(p)'
  BY <1>0 DEF Shell, Launch, Goto, Set, server, page, IInv, TypeOK, LinkerInv
<1>4. RunInv(p)'
  BY <1>0 DEF Shell, Launch, Goto, Set, server, page, IInv, TypeOK, RunInv
<1>5. FilesInv(p)'
  BY <1>0 DEF Shell, Launch, Goto, Set, server, page, IInv, TypeOK, FilesInv, LinkerInv, RequestInv
<1>6. RequestInv(p)'
  BY <1>0 DEF Shell, Launch, Goto, Set, server, page, IInv, TypeOK, RequestInv
<1>7. PageInv'
  BY ProcessZero DEF Shell, server, page, IInv, TypeOK, PageInv
<1>. QED
  BY <1>1, <1>2, <1>3, <1>4, <1>5, <1>6, <1>7, OthersKeep DEF IInv, ProcInv

LEMMA PageKeeps ==
    ASSUME IInv, Page
    PROVE  IInv'
<1>1. CASE OnRun
  <2>0. PICK p \in Procs : p = next
    BY <1>1 DEF OnRun
  <2>1. TypeOK'
    BY <1>1, <2>0 DEF OnRun, Set, driverVars, files, IInv, TypeOK
  <2>2. OnlyOf(p)
    BY <1>1, <2>0 DEF OnRun, Set, driverVars, files, IInv, TypeOK, OnlyOf
  <2>3. LinkerInv(p)'
    BY <1>1, <2>0 DEF OnRun, driverVars, files, IInv, LinkerInv
  <2>4. RunInv(p)'
    BY <1>1, <2>0 DEF OnRun, driverVars, files, IInv, RunInv
  <2>5. FilesInv(p)'
    BY <1>1, <2>0 DEF OnRun, Set, driverVars, files, IInv, TypeOK, FilesInv, RequestInv, LinkerInv
  <2>6. RequestInv(p)'
    BY <1>1, <2>0 DEF OnRun, Set, driverVars, files, IInv, TypeOK, RequestInv
  <2>7. PageInv'
    BY <1>1, <2>0 DEF OnRun, Set, driverVars, files, IInv, TypeOK, PageInv
  <2>. QED
    BY <2>1, <2>2, <2>3, <2>4, <2>5, <2>6, <2>7, OthersKeep DEF IInv, ProcInv
<1>2. CASE Answered \/ AnswerLost \/ OnReset
  <2>a. isRunning' \in BOOLEAN
    BY <1>2, Zenon DEF Answered, AnswerLost, OnReset, IInv, TypeOK
  <2>b. status' \in {"Ready", "Running", "Error"} /\ awaited' \in Procs \cup {0}
    BY <1>2 DEF Answered, AnswerLost, OnReset, IInv, TypeOK
  <2>c. UNCHANGED <<driverVars, next, server>>
    BY <1>2 DEF Answered, AnswerLost, OnReset
  <2>1. TypeOK'
    BY <2>a, <2>b, <2>c DEF driverVars, files, server, IInv, TypeOK
  <2>2. OnlyOf(0)
    BY <1>2 DEF Answered, AnswerLost, OnReset, driverVars, files, server, IInv, TypeOK, OnlyOf
  <2>3. PageInv'
    BY <1>2 DEF Answered, AnswerLost, OnReset, driverVars, files, server, IInv, TypeOK, PageInv
  <2>. QED
    BY <2>1, <2>2, <2>3, OthersKeep, ProcessZero DEF IInv, ProcInv
<1>. QED
  BY <1>1, <1>2 DEF Page

-----------------------------------------------------------------------------
LEMMA NextIInv == IInv /\ [Next]_vars => IInv'
<1>. SUFFICES ASSUME IInv, [Next]_vars PROVE IInv'
  OBVIOUS
<1>1. CASE Page
  BY <1>1, PageKeeps
<1>2. CASE Shell
  BY <1>2, ShellKeeps
<1>3. ASSUME NEW p \in Procs, Callback(p)
      PROVE  IInv'
  BY <1>3, NoCodeKeeps, WrittenKeeps, NotWrittenKeeps, CompileFailedKeeps, CompiledKeeps,
     RunEndedKeeps, UnlinkedKeeps DEF Callback
<1>4. ASSUME NEW p \in Procs, Command(p)
      PROVE  IInv'
  BY <1>4, ReadFileKeeps, TranslateKeeps, EmitObjectFileKeeps, FindLinkerKeeps, LinkKeeps,
     LinkExecutableKeeps, ExecuteKeeps, ReturnKeeps DEF Command, DriverStep
<1>5. ASSUME NEW p \in Procs, CompileTimeout(p) \/ ProgramEnds(p) \/ RunTimeout(p) \/ RunTooMuch(p) \/ Interrupt(p)
      PROVE  IInv'
  BY <1>5, CompileTimeoutKeeps, ProgramEndsKeeps, RunTimeoutKeeps, RunTooMuchKeeps, InterruptKeeps
<1>6. CASE UNCHANGED vars
  <2>1. TypeOK' /\ OnlyOf(0) /\ PageInv'
    BY <1>6 DEF vars, driverVars, files, server, page, IInv, TypeOK, OnlyOf, PageInv
  <2>. QED
    BY <2>1, OthersKeep, ProcessZero DEF IInv, ProcInv
<1>. QED
  BY <1>1, <1>2, <1>3, <1>4, <1>5, <1>6 DEF Next

LEMMA Invariance == Spec => []IInv
BY InitIInv, NextIInv, PTL DEF Spec
-----------------------------------------------------------------------------
\* Whatever the other processes do, a process of the shell, or of a request whose
\* answer is still to come, that ends with status zero has linked its program from
\* its own source, or has called the script's main, or had no engine (main.cpp,
\* emitMachineCode).
THEOREM ZeroIsEarned == Spec => []ZeroMeansDone
<1>1. IInv => ZeroMeansDone
  BY DEF IInv, TypeOK, LinkerInv, RunInv, FilesInv, ZeroMeansDone
<1>. QED
  BY <1>1, Invariance, PTL

\* The page shows that it is ready after a run only if the program of that run was
\* linked from its source and not stopped by the timeout (onRun, and the callbacks of
\* server.js).
THEOREM ReadyIsTrue == Spec => []ReadyMeansRan
<1>1. IInv => ReadyMeansRan
  BY DEF IInv, TypeOK, RequestInv, PageInv, ReadyMeansRan
<1>. QED
  BY <1>1, Invariance, PTL

\* However compilers, linkers, programs, time-outs and removals interleave, a request
\* that is over leaves its object file, a program whose compiler was killed, or a
\* source that could not be written, and nothing else (server.js, fs.unlink).
THEOREM FilesAreKnown == Spec => []OnlyKnownFilesStay
<1>1. IInv => OnlyKnownFilesStay
  BY DEF IInv, FilesInv, OnlyKnownFilesStay
<1>. QED
  BY <1>1, Invariance, PTL

=============================================================================
