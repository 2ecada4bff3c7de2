---------------------------- MODULE ArchiveProofs ----------------------------
(***************************************************************************)
(* Proofs about Archive, for any number of threads and any archives: the   *)
(* types, and that equal names get equal answers.  The second is not       *)
(* inductive by itself.  It holds because one caller at most is inside the *)
(* guarded initialisation (OneLoader), nobody has answered before that one *)
(* has left it (AnswersFollowLoad), and what it leaves behind stays.       *)
(***************************************************************************)
EXTENDS Archive, RecursionTheorems, SequenceTheorems, TLAPS

DirectorySteps == {"clear", "readlink", "write", "measure", "copy"}
LoadSteps == DirectorySteps \cup {"open", "allocate", "read"}

OneLoader ==
    /\ \A t \in Callers : at[t] \in LoadSteps => guard = "loading"
    /\ \A t, u \in Callers : at[t] \in LoadSteps /\ at[u] \in LoadSteps => t = u
    /\ \A t \in Callers : at[t] = "scan" => guard = "loaded"
    /\ \A t \in Searchers : at[t] \in DirectorySteps \cup {"idle"}

\* What a call returns once the archive is loaded
Answer(a) == IF b THEN ArchiveGetFile_Common(g_archiveData, a) ELSE FailedToLoad

AnswersFollowLoad ==
    /\ answers = [a \in Args |-> answers[a]]
    /\ \A a \in Args : answers[a] \subseteq {Answer(a)}
    /\ guard # "loaded" => \A a \in Args : answers[a] = {}

LoadInv == TypeOK /\ OneLoader /\ AnswersFollowLoad

-----------------------------------------------------------------------------
(* Types.                                                                  *)

\* A read that stops early leaves entries.
LEMMA CutAtType ==
    ASSUME disk \in Disks, NEW n \in 1 .. Len(disk.entries)
    PROVE  CutAt(n) \in Seq(Entry)
<1>1. disk.entries \in Seq(Entry) /\ n \in Nat
  BY ArchiveAssumption
<1>2. \A i \in 1 .. n : disk.entries[i] \in Entry
  BY <1>1
<1>3. [disk.entries[n] EXCEPT !.data = "corrupt"] \in Entry
  <2>1. disk.entries[n] \in Entry
    BY <1>1
  <2> QED
    BY <2>1 DEF Entry, EntryData
<1>4. \A i \in 1 .. n : CutAt(n)[i] \in Entry
  BY <1>1, <1>2, <1>3 DEF CutAt
<1> QED
  BY <1>1, <1>4, IsASeq DEF CutAt

\* The directory of the executable is found in the buffer without changing more
\* than the buffer and the caller's own place.
LEMMA DirectoryStepType ==
    ASSUME TypeOK, NEW t \in Threads,
           \/ OpenDatabase(t) \/ ClearPath(t) \/ ReadLink(t)
           \/ MeasurePath(t) \/ CopyPath(t)
    PROVE  TypeOK'
<1>1. UNCHANGED <<disk, archiveVars, arg, answers, aborted>>
  BY DEF OpenDatabase, ClearPath, ReadLink, MeasurePath, CopyPath, pathVars
<1>2. path' \in [first : BOOLEAN, rest : BOOLEAN]
  BY DEF TypeOK, OpenDatabase, ClearPath, ReadLink, MeasurePath, CopyPath, pathVars
<1>3. dir' \in [Threads -> Directories]
  BY DEF TypeOK, OpenDatabase, ClearPath, ReadLink, MeasurePath, CopyPath, pathVars, Directories
<1>4. at' \in [Threads -> Places]
  BY DEF TypeOK, OpenDatabase, ClearPath, ReadLink, MeasurePath, CopyPath, Move, AfterDirectory, Places
<1> QED
  BY <1>1, <1>2, <1>3, <1>4 DEF TypeOK, archiveVars

LEMMA LoadStepType ==
    ASSUME TypeOK, NEW t \in Threads,
           \/ \E a \in Args : Call(t, a)
           \/ EnterGuard(t) \/ OpenArchive(t) \/ Allocate(t) \/ ReadArchive(t) \/ Scan(t)
    PROVE  TypeOK'
<1>1. UNCHANGED <<disk, path, dir>>
  BY DEF Call, EnterGuard, OpenArchive, Allocate, ReadArchive, Scan, pathVars
<1>2. at' \in [Threads -> Places]
  BY DEF TypeOK, Call, EnterGuard, OpenArchive, Allocate, ReadArchive, Scan, Move, LeaveGuard, Places
<1>3. arg' \in [Callers -> Args]
  BY DEF TypeOK, Call, EnterGuard, OpenArchive, Allocate, ReadArchive, Scan
<1>4. guard' \in {"unloaded", "loading", "loaded"} /\ b' \in BOOLEAN
  BY DEF TypeOK, Call, EnterGuard, OpenArchive, Allocate, ReadArchive, Scan, LeaveGuard, archiveVars
<1>5. aborted' \in BOOLEAN
  BY DEF TypeOK, Call, EnterGuard, OpenArchive, Allocate, ReadArchive, Scan
<1>6. disk.entries \in Seq(Entry)
  BY ArchiveAssumption DEF TypeOK
<1>7. g_archiveSize' \in Nat
  <2>1. Len(disk.entries) \in Nat
    BY <1>6, LenProperties
  <2>2. g_archiveSize' \in {g_archiveSize, Len(disk.entries)}
    BY DEF Call, EnterGuard, OpenArchive, Allocate, ReadArchive, Scan, archiveVars
  <2> QED
    BY <2>1, <2>2 DEF TypeOK
<1>8. g_archiveData' \in Seq(Entry)
  <2>1. CASE ReadArchive(t)
    BY <2>1, <1>6, CutAtType DEF TypeOK, ReadArchive
  <2>2. CASE ~ReadArchive(t)
    BY <2>2 DEF TypeOK, Call, EnterGuard, OpenArchive, Allocate, Scan, archiveVars
  <2> QED
    BY <2>1, <2>2
<1> QED
  BY <1>1, <1>2, <1>3, <1>4, <1>5, <1>7, <1>8 DEF TypeOK

LEMMA InitialTypes == Init => TypeOK
<1> SUFFICES ASSUME Init PROVE TypeOK
  OBVIOUS
<1>1. g_archiveData \in Seq(Entry) /\ g_archiveSize \in Nat
  BY DEF Init
<1>2. /\ disk \in Disks /\ path \in [first : BOOLEAN, rest : BOOLEAN]
      /\ guard \in {"unloaded", "loading", "loaded"} /\ b \in BOOLEAN /\ aborted \in BOOLEAN
      /\ arg \in [Callers -> Args]
  BY DEF Init
<1>3. /\ dir \in [Threads -> Directories]
      /\ at \in [Threads -> Places]
  BY DEF Init, Directories, Places
<1> QED
  BY <1>1, <1>2, <1>3 DEF TypeOK

\* The load and the answers never leave the types of their variables.
THEOREM ArchiveTypes == Spec => []TypeOK
<1>2. TypeOK /\ [Next]_vars => TypeOK'
  BY DirectoryStepType, LoadStepType
     DEF Next, Step, TypeOK, vars, pathVars, archiveVars
<1> QED
  BY <1>2, InitialTypes, PTL DEF Spec

-----------------------------------------------------------------------------
(* Equal names get equal answers.                                          *)

\* Who is where: each step moves one thread, and the guard with it.
LEMMA OneLoaderStep ==
    ASSUME TypeOK, OneLoader, NEW t \in Threads, Step(t)
    PROVE  OneLoader'
<1> USE DEF TypeOK, Places, Threads, Move, LoadSteps, DirectorySteps
<1>1. CASE \E a \in Args : Call(t, a)
  BY <1>1, ArchiveAssumption DEF OneLoader, Call, archiveVars
<1>2. CASE EnterGuard(t)
  BY <1>2, ArchiveAssumption DEF OneLoader, EnterGuard
<1>3. CASE OpenArchive(t)
  BY <1>3, ArchiveAssumption DEF OneLoader, OpenArchive, LeaveGuard
<1>4. CASE Allocate(t)
  <2>1. t \in Callers /\ guard = "loading"
    BY <1>4 DEF OneLoader, Allocate
  <2>2. \/ UNCHANGED guard /\ at' = [at EXCEPT ![t] = "read"]
        \/ guard' = "loaded" /\ at' = [at EXCEPT ![t] = "scan"]
    BY <1>4 DEF Allocate, LeaveGuard
  <2> QED
    BY <1>4, <2>1, <2>2, ArchiveAssumption DEF OneLoader, Allocate
<1>5. CASE ReadArchive(t)
  BY <1>5, ArchiveAssumption DEF OneLoader, ReadArchive, LeaveGuard
<1>6. CASE Scan(t)
  BY <1>6, ArchiveAssumption DEF OneLoader, Scan, archiveVars
<1>7. CASE OpenDatabase(t)
  BY <1>7, ArchiveAssumption DEF OneLoader, OpenDatabase, archiveVars
<1>8. CASE ClearPath(t) \/ ReadLink(t)
  BY <1>8, ArchiveAssumption DEF OneLoader, ClearPath, ReadLink, archiveVars
<1>9. CASE MeasurePath(t) \/ CopyPath(t)
  <2>1. UNCHANGED guard /\ at[t] \in {"measure", "copy"}
    BY <1>9 DEF MeasurePath, CopyPath, archiveVars
  <2>2. \/ at' = [at EXCEPT ![t] = "copy"]
        \/ t \in Callers /\ at' = [at EXCEPT ![t] = "open"]
        \/ t \notin Callers /\ at' = [at EXCEPT ![t] = "idle"]
    BY <1>9 DEF MeasurePath, CopyPath, AfterDirectory
  <2> QED
    BY <2>1, <2>2, ArchiveAssumption DEF OneLoader
<1> QED
  BY <1>1, <1>2, <1>3, <1>4, <1>5, <1>6, <1>7, <1>8, <1>9 DEF Step

\* The archive changes only under the loader, when nobody has an answer yet.
LEMMA AnswersFollowLoadStep ==
    ASSUME TypeOK, OneLoader, AnswersFollowLoad, NEW t \in Threads, Step(t)
    PROVE  AnswersFollowLoad'
<1>1. CASE Scan(t)
  <2>1. UNCHANGED <<guard, b, g_archiveData>> /\ t \in Callers /\ guard = "loaded"
    BY <1>1 DEF Scan, archiveVars, OneLoader, Threads, DirectorySteps
  <2>2. arg[t] \in Args
    BY <2>1 DEF TypeOK
  <2>3. answers' \in {answers, [answers EXCEPT ![arg[t]] = @ \cup {Answer(arg[t])}]}
    BY <1>1 DEF Scan, Answer
  <2>4. \A a \in Args : Answer(a)' = Answer(a)
    BY <2>1 DEF Answer, FailedToLoad
  <2> QED
    BY <2>1, <2>2, <2>3, <2>4 DEF AnswersFollowLoad
<1>2. CASE OpenArchive(t) \/ Allocate(t) \/ ReadArchive(t)
  <2>1. UNCHANGED answers /\ t \in Callers /\ guard = "loading"
    BY <1>2 DEF OpenArchive, Allocate, ReadArchive, Move, OneLoader, Threads, DirectorySteps, LoadSteps
  <2> QED
    BY <2>1 DEF AnswersFollowLoad
<1>3. CASE EnterGuard(t)
  <2>1. UNCHANGED <<answers, b, g_archiveData>> /\ (guard' # "loaded" => guard # "loaded")
    BY <1>3 DEF EnterGuard
  <2>2. \A a \in Args : Answer(a)' = Answer(a)
    BY <2>1 DEF Answer, FailedToLoad
  <2> QED
    BY <2>1, <2>2 DEF AnswersFollowLoad
<1>4. CASE \/ \E a \in Args : Call(t, a)
           \/ OpenDatabase(t) \/ ClearPath(t) \/ ReadLink(t) \/ MeasurePath(t) \/ CopyPath(t)
  <2>1. UNCHANGED <<answers, guard, b, g_archiveData>>
    BY <1>4 DEF Call, OpenDatabase, ClearPath, ReadLink, MeasurePath, CopyPath, archiveVars
  <2>2. \A a \in Args : Answer(a)' = Answer(a)
    BY <2>1 DEF Answer, FailedToLoad
  <2> QED
    BY <2>1, <2>2 DEF AnswersFollowLoad
<1> QED
  BY <1>1, <1>2, <1>3, <1>4 DEF Step

LEMMA LoadInvariant == Spec => []LoadInv
<1>1. Init => LoadInv
  <2>2. Init => OneLoader
    BY DEF Init, OneLoader, Threads, LoadSteps, DirectorySteps
  <2>3. Init => AnswersFollowLoad
    BY DEF Init, AnswersFollowLoad
  <2> QED
    BY <2>2, <2>3, InitialTypes DEF LoadInv
<1>2. LoadInv /\ [Next]_vars => LoadInv'
  <2> SUFFICES ASSUME LoadInv, [Next]_vars PROVE LoadInv'
    OBVIOUS
  <2>1. ASSUME NEW t \in Threads, Step(t) PROVE LoadInv'
    <3>1. TypeOK'
      BY <2>1, DirectoryStepType, LoadStepType DEF LoadInv, Step
    <3> QED
      BY <2>1, <3>1, OneLoaderStep, AnswersFollowLoadStep DEF LoadInv
  <2>2. CASE UNCHANGED vars
    <3>1. TypeOK' /\ OneLoader'
      BY <2>2 DEF LoadInv, TypeOK, OneLoader, vars, pathVars, archiveVars
    <3>2. \A a \in Args : Answer(a)' = Answer(a)
      BY <2>2 DEF Answer, FailedToLoad, vars, archiveVars
    <3> QED
      BY <2>2, <3>1, <3>2 DEF LoadInv, AnswersFollowLoad, vars, archiveVars
  <2> QED
    BY <2>1, <2>2 DEF Next
<1> QED
  BY <1>1, <1>2, PTL DEF Spec

\* The same name always gets the same answer, whichever threads ask while the
\* archive is being loaded, in whatever way the load ends.
THEOREM EqualNamesEqualAnswers == Spec => []AnswersAgree
<1>1. LoadInv => AnswersAgree
  <2> SUFFICES ASSUME LoadInv, NEW a \in Args, NEW x \in answers[a], NEW y \in answers[a]
               PROVE  x = y
    BY DEF AnswersAgree
  <2> QED
    BY DEF LoadInv, AnswersFollowLoad
<1> QED
  BY <1>1, LoadInvariant, PTL

-----------------------------------------------------------------------------
(* The directory of the executable.                                        *)

\* Whoever has written the path finds it whole, unless somebody is about to
\* write it again.
BufferInv ==
    disk.proc =>
        \A t \in Threads :
            /\ at[t] \in {"write", "measure", "copy"} =>
                  path.first \/ \E s \in Threads : at[s] = "readlink"
            /\ at[t] \in {"measure", "copy"} => path.rest
            /\ at[t] = "copy" => dir[t] = "exe"

LEMMA BufferStep ==
    ASSUME TypeOK, BufferInv, NEW t \in Threads, Step(t)
    PROVE  BufferInv'
<1> USE DEF TypeOK, BufferInv, Move
<1>1. CASE ClearPath(t)
  BY <1>1 DEF ClearPath
<1>2. CASE ReadLink(t)
  BY <1>2 DEF ReadLink
<1>3. CASE MeasurePath(t)
  BY <1>3 DEF MeasurePath, AfterDirectory
<1>4. CASE CopyPath(t)
  BY <1>4 DEF CopyPath, AfterDirectory
<1>5. CASE OpenDatabase(t)
  BY <1>5 DEF OpenDatabase, pathVars
<1>6. CASE \/ \E a \in Args : Call(t, a)
           \/ EnterGuard(t) \/ OpenArchive(t) \/ Allocate(t) \/ ReadArchive(t) \/ Scan(t)
  <2>1. UNCHANGED <<disk, path, dir>>
    BY <1>6 DEF Call, EnterGuard, OpenArchive, Allocate, ReadArchive, Scan, pathVars
  <2>2. at[t] # "readlink"
    BY <1>6 DEF Call, EnterGuard, OpenArchive, Allocate, ReadArchive, Scan
  <2>3. at' = at \/ \E p \in {"idle", "guard", "clear", "open", "allocate", "read", "scan"} :
                        at' = [at EXCEPT ![t] = p]
    BY <1>6 DEF Call, EnterGuard, OpenArchive, Allocate, ReadArchive, Scan, LeaveGuard
  <2> QED
    BY <2>1, <2>2, <2>3
<1> QED
  BY <1>1, <1>2, <1>3, <1>4, <1>5, <1>6 DEF Step

\* A call is given another directory than that of the executable only while
\* another thread has cleared the buffer that both use.
THEOREM DirectoryRace == Spec => DirectoryIsLostOnlyInARace
<1>1. Init => BufferInv
  BY DEF Init, BufferInv
<1>2. TypeOK /\ BufferInv /\ [Next]_vars => BufferInv'
  <2>1. CASE UNCHANGED vars
    BY <2>1 DEF BufferInv, vars, pathVars
  <2> QED
    BY <2>1, BufferStep DEF Next
<1>3. TypeOK /\ BufferInv /\ [Next]_vars => [\A t \in Threads : LosesDirectory(t) => MeetsClearedBuffer(t)]_vars
  <2> SUFFICES ASSUME TypeOK, BufferInv, NEW u \in Threads, Step(u),
                      NEW t \in Threads, LosesDirectory(t)
               PROVE  MeetsClearedBuffer(t)
    BY DEF Next
  <2> USE DEF TypeOK, BufferInv, Move, LosesDirectory, MeetsClearedBuffer
  <2>1. ~UNCHANGED dir
    OBVIOUS
  <2>2. CASE ClearPath(u)
    BY <2>2 DEF ClearPath
  <2>3. CASE MeasurePath(u)
    BY <2>3 DEF MeasurePath
  <2>4. CASE CopyPath(u)
    BY <2>4 DEF CopyPath
  <2> QED
    BY <2>1, <2>2, <2>3, <2>4
       DEF Step, Call, EnterGuard, OpenArchive, Allocate, ReadArchive, Scan, ReadLink,
           OpenDatabase, pathVars
<1> QED
  BY <1>1, <1>2, <1>3, ArchiveTypes, PTL DEF Spec, DirectoryIsLostOnlyInARace

-----------------------------------------------------------------------------
(* The paper that was asked for.                                           *)

\* What can be read from memory begins like the file: entry by entry the same
\* papers, and nothing that decompresses unless it does so in the file.
MemoryIsOfDisk ==
    /\ Len(g_archiveData) <= Len(disk.entries)
    /\ \A i \in 1 .. Len(g_archiveData) :
          /\ g_archiveData[i].num = disk.entries[i].num
          /\ g_archiveData[i].rev = disk.entries[i].rev
          /\ g_archiveData[i].data = "ok" => disk.entries[i].data = "ok"

\* The entry that is looked up is one that matches.
LEMMA FirstMatchMatches ==
    ASSUME NEW archive \in Seq(Entry), NEW a, Matches(archive, a) # {}
    PROVE  /\ FirstMatch(archive, a) \in 1 .. Len(archive)
           /\ StartsWith(archive[FirstMatch(archive, a)], a)
<1>1. Matches(archive, a) \subseteq 1 .. Len(archive)
  BY LenProperties DEF Matches
<1>2. 1 .. Len(archive) \subseteq Nat
  BY LenProperties
<1>3. \E i \in Matches(archive, a) : \A j \in Matches(archive, a) : i <= j
  BY <1>1, <1>2, LowestNumber
<1>4. FirstMatch(archive, a) \in Matches(archive, a)
  BY <1>3 DEF FirstMatch
<1>. QED BY <1>1, <1>4 DEF Matches

\* A file is only handed out of an entry that matches and decompresses.
LEMMA FilesAreMatches ==
    ASSUME NEW archive \in Seq(Entry), NEW a,
           ArchiveGetFile_Common(archive, a).page = "file"
    PROVE  \E i \in 1 .. Len(archive) :
              /\ ArchiveGetFile_Common(archive, a).from = i
              /\ StartsWith(archive[i], a) /\ archive[i].data = "ok"
<1>. DEFINE i == FirstMatch(archive, a)
<1>1. Matches(archive, a) # {}
  BY DEF ArchiveGetFile_Common, NotFound
<1>2. archive[i].data = "ok"
  BY <1>1 DEF ArchiveGetFile_Common, NotFound
<1>3. ArchiveGetFile_Common(archive, a) = Found(ExtensionOf(archive[i]), i)
  BY <1>1, <1>2 DEF ArchiveGetFile_Common
<1>4. ArchiveGetFile_Common(archive, a).from = i
  BY <1>3 DEF Found
<1>. QED BY <1>1, <1>2, <1>4, FirstMatchMatches

LEMMA MemoryStep ==
    ASSUME TypeOK, MemoryIsOfDisk, NEW t \in Threads, Step(t)
    PROVE  MemoryIsOfDisk'
<1>1. UNCHANGED disk
  BY DEF Step, Call, EnterGuard, OpenArchive, Allocate, ReadArchive, Scan, OpenDatabase,
         ClearPath, ReadLink, MeasurePath, CopyPath
<1>2. CASE ReadArchive(t)
  <2>1. disk.entries \in Seq(Entry)
    BY ArchiveAssumption DEF TypeOK
  <2>2. CASE g_archiveData' = disk.entries
    <3>1. Len(disk.entries) \in Nat
      BY <2>1, LenProperties
    <3>. QED BY <1>1, <2>2, <3>1 DEF MemoryIsOfDisk
  <2>3. ASSUME NEW n \in 1 .. Len(disk.entries), g_archiveData' = CutAt(n)
        PROVE  MemoryIsOfDisk'
    <3>1. Len(disk.entries) \in Nat /\ n \in Nat
      BY <2>1, LenProperties
    <3>2. CutAt(n) \in Seq(Entry) /\ DOMAIN CutAt(n) = 1 .. n
      BY CutAtType DEF TypeOK, CutAt
    <3>3. Len(CutAt(n)) = n
      BY <3>1, <3>2, LenProperties
    <3>4. ASSUME NEW i \in 1 .. n
          PROVE  /\ CutAt(n)[i].num = disk.entries[i].num
                 /\ CutAt(n)[i].rev = disk.entries[i].rev
                 /\ CutAt(n)[i].data = "ok" => disk.entries[i].data = "ok"
      <4>1. disk.entries[i] \in Entry
        BY <2>1, <3>1
      <4>2. CASE i < n
        BY <4>2 DEF CutAt
      <4>3. CASE ~(i < n)
        <5>1. CutAt(n)[i] = [disk.entries[i] EXCEPT !.data = "corrupt"]
          BY <4>3 DEF CutAt
        <5>. QED BY <4>1, <5>1 DEF Entry
      <4>. QED BY <4>2, <4>3
    <3>. QED BY <1>1, <2>3, <3>1, <3>3, <3>4 DEF MemoryIsOfDisk
  <2>. QED BY <1>2, <2>2, <2>3 DEF ReadArchive
<1>3. CASE ~ReadArchive(t)
  <2>1. UNCHANGED g_archiveData
    BY <1>3 DEF Step, Call, EnterGuard, OpenArchive, Allocate, Scan, OpenDatabase,
                ClearPath, ReadLink, MeasurePath, CopyPath, archiveVars
  <2>. QED BY <1>1, <2>1 DEF MemoryIsOfDisk
<1>. QED BY <1>2, <1>3

\* A name that ends in its dot gets the file of the paper it names, however the
\* threads meet and wherever the reading of the archive stopped.
THEOREM ExactNamesAreExact == Spec => []ExactNameGetsItsPaper
<1>1. Init => MemoryIsOfDisk
  <2>. SUFFICES ASSUME Init PROVE MemoryIsOfDisk
    OBVIOUS
  <2>1. disk.entries \in Seq(Entry) /\ g_archiveData = <<>>
    BY ArchiveAssumption DEF Init
  <2>2. Len(disk.entries) \in Nat
    BY <2>1, LenProperties
  <2>. QED BY <2>1, <2>2 DEF MemoryIsOfDisk
<1>2. TypeOK /\ MemoryIsOfDisk /\ [Next]_vars => MemoryIsOfDisk'
  <2>1. CASE UNCHANGED vars
    BY <2>1 DEF MemoryIsOfDisk, vars, archiveVars
  <2>. QED BY <2>1, MemoryStep DEF Next
<1>3. LoadInv /\ MemoryIsOfDisk => ExactNameGetsItsPaper
  <2>. SUFFICES ASSUME LoadInv, MemoryIsOfDisk,
                       NEW a \in Args, a.dot, NEW x \in answers[a], x.page = "file"
                PROVE  disk.entries[x.from].num = a.num /\ disk.entries[x.from].rev = a.rev
    BY DEF ExactNameGetsItsPaper
  <2>1. g_archiveData \in Seq(Entry)
    BY DEF LoadInv, TypeOK
  <2>2. x = ArchiveGetFile_Common(g_archiveData, a)
    BY DEF LoadInv, AnswersFollowLoad, Answer, FailedToLoad
  <2>3. PICK i \in 1 .. Len(g_archiveData) : x.from = i /\ StartsWith(g_archiveData[i], a)
    BY <2>1, <2>2, FilesAreMatches
  <2>4. g_archiveData[i].num = a.num /\ g_archiveData[i].rev = a.rev
    BY <2>3 DEF StartsWith
  <2>. QED BY <2>3, <2>4 DEF MemoryIsOfDisk
<1>. QED BY <1>1, <1>2, <1>3, ArchiveTypes, LoadInvariant, PTL DEF Spec

=============================================================================
