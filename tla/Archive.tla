------------------------------ MODULE Archive ------------------------------
(***************************************************************************)
(* ArchiveGetFile (embedded_archive.cpp): the tar file of papers is read   *)
(* into memory by the first call, whichever thread makes it, and every     *)
(* call answers from that memory.  The initialisation of the static b is   *)
(* guarded by the compiler: later callers wait until it is complete.       *)
(* GetExecutableDirectory, which the load and the worker that opens the    *)
(* search database (semantic.cpp) both call, has a static buffer that      *)
(* nothing guards.                                                         *)
(***************************************************************************)
EXTENDS ArchiveLookup

CONSTANTS
    Callers,    \* the threads that call ArchiveGetFile
    Searchers,  \* the threads that open the search database
    Args,       \* the names the callers ask for
    Disks       \* what may lie beside the executable, and whether /proc is there

ASSUME ArchiveAssumption ==
    /\ Disks \subseteq [present : BOOLEAN, entries : Seq(Entry), proc : BOOLEAN]
    /\ Callers \cap Searchers = {}

Threads == Callers \cup Searchers

VARIABLES
    disk,           \* one of Disks
    path,           \* the static buffer: is its first byte set, is the rest
    dir,            \* dir[t]: the directory thread t was given
    guard,          \* of the static: "unloaded", "loading" or "loaded"
    b,              \* the static itself: whether the archive was loaded
    g_archiveSize,  \* counted in entries: a file of 0 bytes has none
    g_archiveData,  \* the entries that can be read from memory
    at, arg,        \* at[t], arg[t]: where thread t is in its call, its argument
    answers,        \* answers[a]: what the calls with argument a have returned
    aborted

archiveVars == <<guard, b, g_archiveSize, g_archiveData>>
pathVars == <<path, dir>>
vars == <<disk, pathVars, archiveVars, at, arg, answers, aborted>>

Move(t, from, to) == at[t] = from /\ at' = [at EXCEPT ![t] = to]

-----------------------------------------------------------------------------
(* GetExecutableDirectory                                                  *)

\* A buffer once filled is taken as it is.
ClearPath_Cached(t) ==
    /\ IF path.first THEN Move(t, "clear", "measure") ELSE Move(t, "clear", "readlink")
    /\ dir' = [dir EXCEPT ![t] = "none"]
    /\ UNCHANGED <<disk, path, archiveVars, arg, answers, aborted>>

\* path[0] = '\0'
ClearPath(t) ==
    /\ Move(t, "clear", "readlink")
    /\ path' = [path EXCEPT !.first = FALSE] /\ dir' = [dir EXCEPT ![t] = "none"]
    /\ UNCHANGED <<disk, archiveVars, arg, answers, aborted>>

\* readlink writes the path from its first byte on, or fails.
ReadLink(t) ==
    /\ \/ /\ disk.proc /\ Move(t, "readlink", "write")
          /\ path' = [path EXCEPT !.first = TRUE]
       \/ /\ ~disk.proc /\ Move(t, "readlink", "measure")
          /\ path' = [path EXCEPT !.first = FALSE]
       \/ /\ Move(t, "write", "measure")
          /\ path' = [path EXCEPT !.rest = TRUE]
    /\ UNCHANGED <<disk, dir, archiveVars, arg, answers, aborted>>

\* What follows the call in LoadArchiveFileIntoMemory and SemanticSearcher::Init
AfterDirectory(t) == IF t \in Callers THEN "open" ELSE "idle"

\* An empty path makes a relative one, looked up in the working directory.  For
\* any other the constructor of std::filesystem::path first looks for the end...
MeasurePath(t) ==
    /\ IF path.first
       THEN Move(t, "measure", "copy") /\ dir' = [dir EXCEPT ![t] = IF path.rest THEN "exe" ELSE "truncated"]
       ELSE Move(t, "measure", AfterDirectory(t)) /\ dir' = [dir EXCEPT ![t] = "working"]
    /\ UNCHANGED <<disk, path, archiveVars, arg, answers, aborted>>

\* ... and then copies, maybe a first byte that has been cleared meanwhile.
CopyPath(t) ==
    /\ Move(t, "copy", AfterDirectory(t))
    /\ dir' = [dir EXCEPT ![t] = IF path.first THEN @ ELSE "unnamed"]
    /\ UNCHANGED <<disk, path, archiveVars, arg, answers, aborted>>

\* SemanticSearcher::Init
OpenDatabase(t) ==
    /\ t \in Searchers /\ Move(t, "idle", "clear")
    /\ UNCHANGED <<disk, pathVars, archiveVars, arg, answers, aborted>>

-----------------------------------------------------------------------------
(* LoadArchiveFileIntoMemory and ArchiveGetFile                            *)

FailedToLoad == [extension |-> "html", page |-> "failed_to_load", from |-> 0]

Call(t, a) ==
    /\ t \in Callers /\ Move(t, "idle", "guard") /\ arg' = [arg EXCEPT ![t] = a]
    /\ UNCHANGED <<disk, pathVars, archiveVars, answers, aborted>>

\* A guard that only the first caller looks at: the others do not wait.
EnterGuard_NoWait(t) ==
    /\ \/ guard = "unloaded" /\ guard' = "loading" /\ Move(t, "guard", "clear")
       \/ guard # "unloaded" /\ UNCHANGED guard /\ Move(t, "guard", "scan")
    /\ UNCHANGED <<disk, pathVars, b, g_archiveSize, g_archiveData, arg, answers, aborted>>

\* static bool b = ...: the first caller loads, the others wait
EnterGuard(t) ==
    /\ \/ guard = "unloaded" /\ guard' = "loading" /\ Move(t, "guard", "clear")
       \/ guard = "loaded" /\ UNCHANGED guard /\ Move(t, "guard", "scan")
    /\ UNCHANGED <<disk, pathVars, b, g_archiveSize, g_archiveData, arg, answers, aborted>>

\* LoadArchiveFileIntoMemory returns
LeaveGuard(t, result) ==
    /\ b' = result /\ guard' = "loaded"
    /\ at' = [at EXCEPT ![t] = "scan"]

\* The working directory may be the one of the executable.
OpenArchive(t) ==
    /\ at[t] = "open"
    /\ \/ /\ disk.present /\ dir[t] \in {"exe", "working"}
          /\ Move(t, "open", "allocate") /\ UNCHANGED <<b, guard>>
       \/ /\ ~disk.present \/ dir[t] # "exe"
          /\ LeaveGuard(t, FALSE)
    /\ UNCHANGED <<disk, pathVars, g_archiveSize, g_archiveData, arg, answers, aborted>>

Allocate(t) ==
    /\ at[t] = "allocate"
    /\ \/ /\ g_archiveSize' = Len(disk.entries)
          /\ at' = [at EXCEPT ![t] = "read"] /\ UNCHANGED <<b, guard>>
       \/ LeaveGuard(t, FALSE) /\ UNCHANGED g_archiveSize
    /\ UNCHANGED <<disk, pathVars, g_archiveData, arg, answers, aborted>>

\* The result of f.read() is not looked at.  A read that stops early leaves
\* the rest of the memory unset: the entry it stops in fails to decompress,
\* and no header is found after it.
CutAt(n) == [i \in 1 .. n |-> IF i < n THEN disk.entries[i]
                                       ELSE [disk.entries[i] EXCEPT !.data = "corrupt"]]

ReadArchive(t) ==
    /\ at[t] = "read"
    /\ g_archiveData' \in {disk.entries} \cup {CutAt(n) : n \in 1 .. Len(disk.entries)}
    /\ LeaveGuard(t, TRUE)
    /\ UNCHANGED <<disk, pathVars, g_archiveSize, arg, answers, aborted>>

\* A result computed from the archive is returned; an empty one aborts.
Scan(t) ==
    /\ at[t] = "scan"
    /\ IF b /\ g_archiveSize = 0
       THEN aborted' = TRUE /\ UNCHANGED <<answers, at>>
       ELSE /\ answers' = [answers EXCEPT ![arg[t]] = @ \cup
                  {IF b THEN ArchiveGetFile_Common(g_archiveData, arg[t])
                        ELSE FailedToLoad}]
            /\ at' = [at EXCEPT ![t] = "idle"] /\ UNCHANGED aborted
    /\ UNCHANGED <<disk, pathVars, archiveVars, arg>>

Init ==
    /\ disk \in Disks
    /\ guard = "unloaded" /\ b = FALSE
    /\ g_archiveSize = 0 /\ g_archiveData = <<>>
    /\ path = [first |-> FALSE, rest |-> FALSE] /\ dir = [t \in Threads |-> "none"]
    /\ at = [t \in Threads |-> "idle"] /\ arg \in [Callers -> Args]
    /\ answers = [a \in Args |-> {}]
    /\ aborted = FALSE

Step(t) ==
    \/ \E a \in Args : Call(t, a)
    \/ EnterGuard(t) \/ OpenArchive(t) \/ Allocate(t) \/ ReadArchive(t) \/ Scan(t)
    \/ OpenDatabase(t)
    \/ ClearPath(t) \/ ReadLink(t) \/ MeasurePath(t) \/ CopyPath(t)

Next == \/ ~aborted /\ \E t \in Threads : Step(t)
        \/ aborted /\ UNCHANGED vars

Spec == Init /\ [][Next]_vars

-----------------------------------------------------------------------------

Directories == {"none", "exe", "working", "unnamed", "truncated"}
Places == {"idle", "guard", "clear", "readlink", "write", "measure", "copy",
           "open", "allocate", "read", "scan"}

\* Every variable keeps to its type.
TypeOK ==
    /\ disk \in Disks /\ path \in [first : BOOLEAN, rest : BOOLEAN]
    /\ dir \in [Threads -> Directories]
    /\ guard \in {"unloaded", "loading", "loaded"}
    /\ b \in BOOLEAN /\ aborted \in BOOLEAN
    /\ g_archiveSize \in Nat /\ g_archiveData \in Seq(Entry)
    /\ at \in [Threads -> Places]
    /\ arg \in [Callers -> Args]

\* Whichever thread asks, and whenever it asks, the same name gets the same
\* answer: nobody sees an archive that another thread is still loading, and a
\* load that has failed is not tried again.
AnswersAgree == \A a \in Args : \A x, y \in answers[a] : x = y

LosesDirectory(t) ==
    disk.proc /\ dir'[t] # dir[t] /\ dir'[t] \notin {"none", "exe"}

MeetsClearedBuffer(t) ==
    dir'[t] # "truncated" /\ \E s \in Threads \ {t} : at[s] = "readlink"

\* The buffer is never seen half written, and the directory is missed only by a
\* call that another one overtakes between its first byte cleared and written
\* again.  A call that nobody disturbs is given the directory of the executable.
DirectoryIsLostOnlyInARace ==
    [][\A t \in Threads : LosesDirectory(t) => MeetsClearedBuffer(t)]_vars

\* A name that ends in its dot, as the download tool asks, never gets the file
\* of another paper.
ExactNameGetsItsPaper ==
    \A a \in Args : a.dot =>
        \A x \in answers[a] : x.page = "file" =>
            /\ disk.entries[x.from].num = a.num
            /\ disk.entries[x.from].rev = a.rev

\* A paper that was clicked on is the paper that is shown, whenever the
\* archive holds it: the name without its dot gets its own file.
ClickedPaperIsShown ==
    \A a \in Args : \A x \in answers[a] : x.page = "file" =>
        /\ disk.entries[x.from].num = a.num
        /\ disk.entries[x.from].rev = a.rev

=============================================================================
