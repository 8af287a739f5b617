----------------------------- MODULE Installer -----------------------------
(***************************************************************************)
(* The Windows installer.  The window thread handles clicks; a detached    *)
(* worker thread installs, repairs or removes, one call after another, and *)
(* any of them may fail.  Closing the window ends the process and the      *)
(* worker with it, but not the shell the worker has started to expand the  *)
(* archive.  The next session finds what the last one left.                *)
(*                                                                         *)
(* PATH is a sequence of characters, of which "D" stands for the whole     *)
(* name of Druk's bin directory and Sep for the semicolon.  The registry   *)
(* keeps it in Unicode; the installer reads and writes it in the ANSI code *)
(* page of the system, which makes another character of one it lacks.       *)
(***************************************************************************)
EXTENDS Naturals, Sequences, SequencesExt, FiniteSets

CONSTANTS
    Dirs,       \* the directories of an installation, in the order they are made
    Parts,      \* the files of the payload
    Compiler,   \* the one whose presence means that Druk is installed
    Chars,      \* the characters of PATH, "D" and Sep among them
    Ansi,       \* each character as the ANSI code page has it
    Paths,      \* what PATH may be before the first session
    Buffer,     \* the characters of PATH the installer can read, 4095
    Sessions    \* bound: how often the installer is started

Sep == "sep"

\* The engine: run() and uninstall() as the calls they make, in order.
Run ==
    Dirs \o <<"write", "expand", "clean", "updatePath", "register", "associate", "complete">>
Uninstall == <<"dissociate", "removePath", "unregister", "delete", "complete">>

Calls == {"write", "expand", "clean", "updatePath", "register", "associate", "complete",
          "dissociate", "removePath", "unregister", "delete"}

\* Where the bin directory stands in a PATH.
Own(p) == {i \in DOMAIN p : p[i] = "D"}

\* The code page has the bin directory, which the installer takes from it, and the
\* semicolon; nothing else becomes the bin directory.  No PATH names the bin directory
\* twice before Druk has been installed.
ASSUME InstallerAssumption ==
    /\ Compiler \in Parts /\ "payload.zip" \notin Parts \union ToSet(Dirs)
    /\ Dirs \in Seq(ToSet(Dirs)) /\ ToSet(Dirs) \intersect Calls = {}
    /\ Buffer \in Nat /\ Sessions \in Nat
    /\ {"D", Sep} \subseteq Chars
    /\ Ansi \in [Chars -> Chars] /\ Ansi[Sep] = Sep
    /\ \A c \in Chars : Ansi[c] = "D" <=> c = "D"
    /\ \A p \in Paths : p \in Seq(Chars) /\ \A i, j \in Own(p) : i = j

VARIABLES
    session,     \* how often it has been started
    running,     \* the process is alive
    step,        \* current_step
    mode,
    add_to_path,
    has_error,
    todo,        \* the calls the worker has still to make
    expanding,   \* the worker waits for the shell
    orphan,      \* a shell of an earlier session is still expanding
    disk,        \* what is in the target directory, the directory included
    path, registered, associated,
    disturbed    \* in this session a failure was passed over, or an orphan wrote

window == <<session, running, step, mode, add_to_path>>
registry == <<path, registered, associated>>
vars == <<window, has_error, todo, expanding, orphan, disk, registry, disturbed>>

Installation == ToSet(Dirs) \union Parts
Keys == {"extension", "command"}
-----------------------------------------------------------------------------
\* PATH.
Converted(p) == [i \in DOMAIN p |-> Ansi[p[i]]]
Read == IF Len(path) > Buffer THEN <<>> ELSE Converted(path)
IsListed(p) == Contains(p, "D")

Appended(p) == (IF p = <<>> \/ Last(p) = Sep THEN p ELSE Append(p, Sep)) \o <<"D">>

\* Mutant of Erased: the separator behind the entry goes with it, whichever there is.
ErasedBehind(p) ==
    LET pos == CHOOSE i \in DOMAIN p : p[i] = "D" /\ \A j \in 1..(i - 1) : p[j] # "D"
        after == IF pos < Len(p) /\ p[pos + 1] = Sep THEN 1 ELSE 0
        before == IF pos > 1 /\ p[pos - 1] = Sep THEN 1 ELSE 0
    IN SubSeq(p, 1, pos - 1 - before) \o SubSeq(p, pos + 1 + after, Len(p))

\* The first occurrence goes, with the separator before it or else the one behind it.
Erased(p) ==
    LET pos == CHOOSE i \in DOMAIN p : p[i] = "D" /\ \A j \in 1..(i - 1) : p[j] # "D"
    IN IF pos > 1 /\ p[pos - 1] = Sep THEN SubSeq(p, 1, pos - 2) \o SubSeq(p, pos + 1, Len(p))
       ELSE IF pos < Len(p) /\ p[pos + 1] = Sep THEN SubSeq(p, 1, pos - 1) \o SubSeq(p, pos + 2, Len(p))
       ELSE SubSeq(p, 1, pos - 1) \o SubSeq(p, pos + 1, Len(p))
-----------------------------------------------------------------------------
\* The worker makes the next call of run() or uninstall().
Calling(call) == running /\ todo # <<>> /\ Head(todo) = call
Done == todo' = Tail(todo)

\* The worker gives up: the step stays, no page shows the error.
Fail == todo' = <<>> /\ has_error' = TRUE /\ UNCHANGED disturbed

Succeed == Done /\ UNCHANGED <<has_error, disturbed>>
PassOver == Done /\ disturbed' = TRUE /\ UNCHANGED has_error

CreateDirectory ==
    \E d \in ToSet(Dirs) :
        /\ Calling(d)
        /\ \/ Succeed /\ disk' = disk \union {d}
           \/ Fail /\ UNCHANGED disk
        /\ UNCHANGED <<window, expanding, orphan, registry>>

\* A payload that did not fit is found out by the expansion.
WritePayload ==
    /\ Calling("write")
    /\ \/ Succeed /\ disk' = disk \union {"payload.zip"}
       \/ Fail /\ UNCHANGED disk
    /\ UNCHANGED <<window, expanding, orphan, registry>>

StartExpanding ==
    /\ Calling("expand") /\ ~expanding
    /\ expanding' = TRUE
    /\ UNCHANGED <<window, has_error, todo, orphan, disk, registry, disturbed>>

\* Mutant of Expanded: the shell's exit code is not looked at.
ExpandedAnyway ==
    /\ running /\ expanding
    /\ expanding' = FALSE
    /\ \E some \in SUBSET Parts : disk' = disk \union some
    /\ Succeed
    /\ UNCHANGED <<window, orphan, registry>>

Expanded ==
    /\ running /\ expanding
    /\ expanding' = FALSE
    /\ \/ Succeed /\ disk' = disk \union Parts
       \/ Fail /\ \E some \in SUBSET Parts : disk' = disk \union some
    /\ UNCHANGED <<window, orphan, registry>>

Clean ==
    /\ Calling("clean")
    /\ \/ Succeed /\ disk' = disk \ {"payload.zip"}
       \/ Fail /\ UNCHANGED disk
    /\ UNCHANGED <<window, expanding, orphan, registry>>

Registry == UNCHANGED <<window, expanding, orphan, disk>>

UpdatePath ==
    /\ Calling("updatePath") /\ Registry
    /\ \/ ~add_to_path /\ Succeed /\ UNCHANGED path
       \/ add_to_path /\ IsListed(Read) /\ Succeed /\ UNCHANGED path
       \/ add_to_path /\ ~IsListed(Read) /\ Succeed /\ path' = Appended(Read)
       \/ add_to_path /\ PassOver /\ UNCHANGED path
    /\ UNCHANGED <<registered, associated>>

RemovePath ==
    /\ Calling("removePath") /\ Registry
    /\ \/ IsListed(Read) /\ Succeed /\ path' = Erased(Read)
       \/ ~IsListed(Read) /\ Succeed /\ UNCHANGED path
       \/ PassOver /\ UNCHANGED path
    /\ UNCHANGED <<registered, associated>>

RegisterUninstaller ==
    /\ Calling("register") /\ Registry
    /\ \/ Succeed /\ registered' = TRUE
       \/ PassOver /\ UNCHANGED registered
    /\ UNCHANGED <<path, associated>>

UnregisterUninstaller ==
    /\ Calling("unregister") /\ Registry
    /\ \/ Succeed /\ registered' = FALSE
       \/ PassOver /\ UNCHANGED registered
    /\ UNCHANGED <<path, associated>>

AssociateFileExtensions ==
    /\ Calling("associate") /\ Registry
    /\ \/ Succeed /\ associated' = Keys
       \/ PassOver /\ associated' \in {associated, associated \union {"extension"}}
    /\ UNCHANGED <<path, registered>>

RemoveFileAssociations ==
    /\ Calling("dissociate") /\ Registry
    /\ \/ Succeed /\ associated' = {}
       \/ PassOver /\ associated' \in SUBSET associated
    /\ UNCHANGED <<path, registered>>

\* remove_all stops at a file in use: at the uninstaller itself, for one.
DeleteFiles ==
    /\ Calling("delete")
    /\ \/ Succeed /\ disk' = {}
       \/ PassOver /\ disk' \in SUBSET disk
    /\ UNCHANGED <<window, expanding, orphan, registry>>

Complete ==
    /\ Calling("complete") /\ Succeed
    /\ step' = "Completion"
    /\ UNCHANGED <<session, running, mode, add_to_path, expanding, orphan, disk, registry>>

Worker ==
    \/ CreateDirectory \/ WritePayload \/ StartExpanding \/ Expanded \/ Clean
    \/ UpdatePath \/ RemovePath \/ RegisterUninstaller \/ UnregisterUninstaller
    \/ AssociateFileExtensions \/ RemoveFileAssociations \/ DeleteFiles \/ Complete
-----------------------------------------------------------------------------
\* The window.
Clicked == UNCHANGED <<session, running, has_error, expanding, orphan, disk, registry, disturbed>>
Go(page) == step' = page /\ UNCHANGED <<mode, add_to_path, todo>>
Work(m, calls) == step' = "Progress" /\ mode' = m /\ todo' = calls /\ UNCHANGED add_to_path

InstallNow ==
    /\ running /\ step = "Welcome" /\ Clicked
    /\ Work(mode, IF mode = "Uninstall" THEN Uninstall ELSE Run)

Customize == running /\ step = "Welcome" /\ mode = "Install" /\ Clicked /\ Go("Options")

Modify == running /\ step = "Welcome" /\ Clicked /\ Go("Maintenance")

ToggleAddToPath ==
    /\ running /\ step = "Welcome" /\ Clicked
    /\ add_to_path' = ~add_to_path
    /\ UNCHANGED <<step, mode, todo>>

Repair == running /\ step = "Maintenance" /\ Clicked /\ Work("Repair", Run)

RemoveAll == running /\ step = "Maintenance" /\ Clicked /\ Work("Uninstall", Uninstall)

Back == running /\ step \in {"Options", "Maintenance"} /\ Clicked /\ Go("Welcome")

\* Cancel, Close and the window's own button: the process ends, whatever the
\* worker is at.
Quit ==
    /\ running
    /\ running' = FALSE /\ todo' = <<>>
    /\ expanding' = FALSE /\ orphan' = (orphan \/ expanding)
    /\ UNCHANGED <<session, step, mode, add_to_path, has_error, disk, registry, disturbed>>

Window ==
    \/ InstallNow \/ Customize \/ Modify \/ ToggleAddToPath \/ Repair \/ RemoveAll \/ Back
-----------------------------------------------------------------------------
OrphanExpands ==
    /\ orphan
    /\ orphan' \in BOOLEAN
    /\ \E some \in SUBSET Installation : disk' = disk \union some
    /\ disturbed' = TRUE
    /\ UNCHANGED <<window, has_error, todo, expanding, registry>>

\* WinMain, with the context's constructor.
Start ==
    /\ ~running /\ session < Sessions
    /\ session' = session + 1 /\ running' = TRUE
    /\ step' = "Welcome" /\ add_to_path' = TRUE /\ has_error' = FALSE /\ disturbed' = FALSE
    /\ mode' = IF Compiler \in disk THEN "Repair" ELSE "Install"
    /\ UNCHANGED <<todo, expanding, orphan, disk, registry>>

Init ==
    /\ session = 0 /\ running = FALSE /\ mode = "Install"
    /\ step = "Welcome" /\ add_to_path = TRUE /\ has_error = FALSE
    /\ todo = <<>> /\ expanding = FALSE /\ disturbed = FALSE
    /\ orphan = FALSE /\ disk = {} /\ registered = FALSE /\ associated = {}
    /\ path \in Paths

Next == Worker \/ Window \/ Quit \/ OrphanExpands \/ Start

Spec == Init /\ [][Next]_vars
-----------------------------------------------------------------------------
TypeOK ==
    /\ session \in 0..Sessions /\ running \in BOOLEAN
    /\ step \in {"Welcome", "Maintenance", "Options", "Progress", "Completion"}
    /\ mode \in {"Install", "Repair", "Uninstall"}
    /\ {add_to_path, has_error, expanding, orphan, registered, disturbed} \subseteq BOOLEAN
    /\ todo \in Seq(ToSet(Dirs) \union Calls)
    /\ disk \subseteq Installation \union {"payload.zip"} /\ associated \subseteq Keys
    /\ path \in Seq(Chars)

\* No entry begins or ends with the bin directory and goes on, as ...\bin\tools does.
Plain(p) ==
    \A i \in Own(p) : (i = 1 \/ p[i - 1] = Sep) /\ (i = Len(p) \/ p[i + 1] = Sep)

\* The entries but Druk's: those that a separator has ended, and the one that has begun.
Ended(s) == IF s[2] = <<>> \/ Contains(s[2], "D") THEN s[1] ELSE Append(s[1], s[2])
Split(s, c) == IF c = Sep THEN <<Ended(s), <<>>>> ELSE <<s[1], Append(s[2], c)>>
Scan(p) ==
    LET after[n \in Nat] == IF n = 0 THEN <<<<>>, <<>>>> ELSE Split(after[n - 1], p[n])
    IN after
Others(p) == Ended(Scan(p)[Len(p)])

\* However often it installs, repairs and removes, and wherever it is cancelled,
\* the installer leaves the other entries of the user's PATH as they are, but for
\* characters that the code page does not have, and its own is there once at most.
\* Not if PATH is longer than the buffer (the read fails and PATH is replaced), nor
\* if an entry begins with the bin directory.
PathKeepsOthers ==
    [][Len(path) <= Buffer /\ Plain(path) =>
           /\ Others(path') = Others(Converted(path))
           /\ Plain(path') /\ Cardinality(Own(path')) <= 1]_path

\* The completion page tells the truth, whatever earlier sessions left: installed
\* means every file and directory and no payload; and, where no failure was
\* passed over, registered and on PATH if asked for.  Removed means that nothing
\* is left.
CompletionIsTrue ==
    running /\ step = "Completion" =>
        IF mode = "Uninstall"
        THEN disturbed \/ (disk = {} /\ ~registered /\ associated = {} /\ (Plain(path) /\ Len(path) <= Buffer => Own(path) = {}))
        ELSE /\ disk = Installation
             /\ disturbed \/ (registered /\ associated = Keys
                                /\ (add_to_path /\ Plain(path) => Own(path) # {}))
-----------------------------------------------------------------------------
\* What the worker has still to do is the end of what it was told to do.
CallsOf == IF mode = "Uninstall" THEN Uninstall ELSE Run

IsEndOf(s, t) ==
    Len(s) <= Len(t) /\ \A i \in 1..Len(s) : s[i] = t[Len(t) - Len(s) + i]

TodoInv ==
    /\ todo # <<>> => running /\ step = "Progress" /\ IsEndOf(todo, CallsOf)
    /\ expanding => todo # <<>> /\ Head(todo) = "expand"

\* The worker is on its way to the completion page, or the page is there.
OnItsWay == running /\ (todo # <<>> \/ step = "Completion")

\* What has been done, by the number of calls that are left.
Left == Len(todo)

InstallInv ==
    OnItsWay /\ mode # "Uninstall" =>
        /\ \A i \in 1..Len(Dirs) : i <= Len(Run) - Left => Dirs[i] \in disk
        /\ Left < 6 => Parts \subseteq disk
        /\ Left < 5 => "payload.zip" \notin disk
        /\ Left < 4 => disturbed \/ (add_to_path /\ Plain(path) => Own(path) # {})
        /\ Left < 3 => disturbed \/ registered
        /\ Left < 2 => disturbed \/ associated = Keys

RemoveInv ==
    OnItsWay /\ mode = "Uninstall" =>
        /\ Left < 5 => disturbed \/ associated = {}
        /\ Left < 4 => disturbed \/ (Plain(path) /\ Len(path) <= Buffer => Own(path) = {})
        /\ Left < 3 => disturbed \/ ~registered
        /\ Left < 2 => disturbed \/ disk = {}

ListedOnce == \A i, j \in Own(path) : i = j

IInv ==
    /\ TypeOK /\ TodoInv /\ ListedOnce /\ InstallInv /\ RemoveInv
    /\ step = "Completion" => todo = <<>>
=============================================================================
