-------------------------- MODULE HelperToolsProofs --------------------------
(***************************************************************************)
(* What the tools that work on files leave behind: the downloader, for any *)
(* list, any names and any number of runs, each stopped anywhere; and the  *)
(* programs that work through the folder of papers, for any papers, names  *)
(* and number of runs.  The tools side by side do what each does alone.    *)
(* What FindAuthor of equivalent_names.cpp finds, for any list of names.   *)
(***************************************************************************)
EXTENDS MCHelperTools, CrawlProofs, TLAPS

-----------------------------------------------------------------------------
(* The downloader.                                                         *)

Ran(s) == {s[i] : i \in DOMAIN s}
Inj(s) == \A i, j \in DOMAIN s : s[i] = s[j] => i = j

Found(p) == Present(downloaded_papers) \cap DotAfter[p] # {}

\* The paper being fetched has its file open.
FileIsOpen ==
    doing = "fetch" =>
        /\ missing # <<>> /\ UrlFile[Paper] \in Files /\ Paper \in tried
        /\ freshly_downloaded_papers[UrlFile[Paper]] = [paper |-> Paper, holds |-> "some"]

\* No line is lost on its way from the list to the papers tried.
LinesAreSeen ==
    /\ doing # "off" =>
          \A p \in Lines : p \in Ran(infile) \cup Ran(missing) \cup tried \/ Found(p)
    /\ doing \in {"next", "fetch"} => infile = <<>>

\* A run comes to each line once, and fetches only what is not there.
LinesComeOnce ==
    doing # "off" =>
        /\ Inj(infile) /\ Inj(missing) /\ Ran(infile) \cap Ran(missing) = {}
        /\ \A p \in Ran(missing) : ~Found(p)
        /\ doing = "scan" => tried = {}
        /\ doing = "next" => Ran(missing) \cap tried = {}
        /\ doing = "fetch" => Ran(Tail(missing)) \cap tried = {}

NamesAreFinal ==
    \A f \in Files :
        /\ downloaded_papers[f] # NoFile => UrlFile[downloaded_papers[f].paper] = f
        /\ freshly_downloaded_papers[f] # NoFile => UrlFile[freshly_downloaded_papers[f].paper] = f

\* Where papers are moved first, the fresh ones are those of this run,
FreshOnesWereTried ==
    moves_first /\ doing # "off" =>
        \A f \in Present(freshly_downloaded_papers) : freshly_downloaded_papers[f].paper \in tried

\* and none of them is there already.
NothingIsFetchedTwice ==
    moves_first => \A p \in Lines, f \in Files, g \in Present(freshly_downloaded_papers) :
        Unambiguous(p) /\ downloaded_papers[f] = [paper |-> p, holds |-> "all"]
            => freshly_downloaded_papers[g].paper # p

DownloaderInv ==
    /\ DownloaderTypeOK /\ FileIsOpen /\ CutFilesHaveACause /\ LinesAreSeen /\ LinesComeOnce
    /\ NamesAreFinal /\ FreshOnesWereTried /\ NothingIsFetchedTwice

-----------------------------------------------------------------------------
(* Taking a line off a sequence, and adding one.                           *)

\* The first line, and what is left of the sequence.
LEMMA Pops ==
    ASSUME NEW s \in Seq(Lines), s # <<>>
    PROVE  /\ Head(s) \in Lines /\ Tail(s) \in Seq(Lines)
           /\ Ran(s) = {Head(s)} \cup Ran(Tail(s))
           /\ Inj(s) => Inj(Tail(s)) /\ Head(s) \notin Ran(Tail(s))
<1>1. /\ Head(s) = s[1] /\ Head(s) \in Lines /\ Tail(s) \in Seq(Lines)
      /\ Len(s) \in Nat \ {0} /\ DOMAIN s = 1 .. Len(s)
  OBVIOUS
<1>2. /\ DOMAIN Tail(s) = 1 .. Len(s) - 1
      /\ \A i \in 1 .. Len(s) - 1 : Tail(s)[i] = s[i + 1]
  OBVIOUS
<1>3. \A i \in 1 .. Len(s) : i = 1 \/ (i - 1 \in 1 .. Len(s) - 1 /\ s[i] = Tail(s)[i - 1])
  BY <1>1, <1>2
<1>4. Ran(s) = {Head(s)} \cup Ran(Tail(s))
  <2>1. \A x \in Ran(Tail(s)) : x \in Ran(s)
    BY <1>1, <1>2 DEF Ran
  <2>2. \A x \in Ran(s) : x = Head(s) \/ x \in Ran(Tail(s))
    <3>1. TAKE x \in Ran(s)
    <3>2. PICK i \in 1 .. Len(s) : x = s[i]
      BY <1>1 DEF Ran
    <3>3. CASE i = 1
      BY <3>2, <3>3, <1>1
    <3>4. CASE i - 1 \in 1 .. Len(s) - 1 /\ s[i] = Tail(s)[i - 1]
      BY <3>2, <3>4, <1>2 DEF Ran
    <3>. QED BY <3>3, <3>4, <1>3
  <2>3. Head(s) \in Ran(s)
    BY <1>1 DEF Ran
  <2>. QED BY <2>1, <2>2, <2>3
<1>5. ASSUME Inj(s) PROVE Inj(Tail(s)) /\ Head(s) \notin Ran(Tail(s))
  BY <1>1, <1>2, <1>5 DEF Inj, Ran
<1>. QED BY <1>1, <1>4, <1>5

\* The sequence with one line more.
LEMMA Pushes ==
    ASSUME NEW s \in Seq(Lines), NEW p \in Lines
    PROVE  /\ Append(s, p) \in Seq(Lines)
           /\ Ran(Append(s, p)) = Ran(s) \cup {p}
           /\ Inj(s) /\ p \notin Ran(s) => Inj(Append(s, p))
<1>1. /\ Append(s, p) \in Seq(Lines) /\ Len(s) \in Nat /\ DOMAIN s = 1 .. Len(s)
      /\ DOMAIN Append(s, p) = 1 .. Len(s) + 1
  OBVIOUS
<1>2. /\ Append(s, p)[Len(s) + 1] = p
      /\ \A i \in 1 .. Len(s) : Append(s, p)[i] = s[i]
  OBVIOUS
<1>3. \A i \in 1 .. Len(s) + 1 : i = Len(s) + 1 \/ i \in 1 .. Len(s)
  BY <1>1
<1>4. Ran(Append(s, p)) = Ran(s) \cup {p}
  BY <1>1, <1>2, <1>3 DEF Ran
<1>5. ASSUME Inj(s), p \notin Ran(s) PROVE Inj(Append(s, p))
  BY <1>1, <1>2, <1>3, <1>5 DEF Inj, Ran
<1>. QED BY <1>1, <1>4, <1>5

\* The sequence with no line.
LEMMA NoLines == Ran(<<>>) = {} /\ Inj(<<>>)
BY DEF Ran, Inj

-----------------------------------------------------------------------------
(* The invariant.                                                          *)

\* Two empty folders, and no run.
LEMMA DownloaderStarts == DownloaderInit => DownloaderInv
<1>. SUFFICES ASSUME DownloaderInit PROVE DownloaderInv
  OBVIOUS
<1>1. NoFile \in Contents /\ <<>> \in Seq(Lines) /\ 0 \in 0 .. MaxStarts
  BY DownloaderAssumption DEF Contents
<1>2. DownloaderTypeOK
  BY <1>1 DEF DownloaderInit, DownloaderTypeOK
<1>3. FileIsOpen /\ LinesAreSeen /\ LinesComeOnce /\ FreshOnesWereTried
  BY DEF DownloaderInit, FileIsOpen, LinesAreSeen, LinesComeOnce, FreshOnesWereTried
<1>4. CutFilesHaveACause /\ NamesAreFinal /\ NothingIsFetchedTwice
  BY DEF DownloaderInit, CutFilesHaveACause, NamesAreFinal, NothingIsFetchedTwice, Present, NoFile
<1>. QED BY <1>2, <1>3, <1>4 DEF DownloaderInv

\* Each step keeps it.
LEMMA StartKeeps == ASSUME DownloaderInv, Start PROVE DownloaderInv'
<1>a. Ran(list) = Lines /\ Inj(list) /\ Ran(<<>>) = {} /\ Inj(<<>>)
  BY DownloaderAssumption, NoLines DEF Ran, Inj, Lines
<1>1. DownloaderTypeOK'
  BY DownloaderAssumption DEF DownloaderInv, DownloaderTypeOK, Contents, Start, folders
<1>2. FileIsOpen'
  BY DEF DownloaderInv, DownloaderTypeOK, FileIsOpen, Paper, Start, folders
<1>3. CutFilesHaveACause'
  BY DEF DownloaderInv, DownloaderTypeOK, CutFilesHaveACause, Paper, NoFile, Start, folders
<1>4. LinesAreSeen'
  BY <1>a DEF DownloaderInv, DownloaderTypeOK, LinesAreSeen, Found, Present, Start, folders
<1>5. LinesComeOnce'
  BY <1>a DEF DownloaderInv, DownloaderTypeOK, LinesComeOnce, Found, Present, Start, folders
<1>6. NamesAreFinal'
  BY DEF DownloaderInv, DownloaderTypeOK, NamesAreFinal, Present, Start, folders
<1>7. FreshOnesWereTried'
  BY DEF DownloaderInv, DownloaderTypeOK, FreshOnesWereTried, Present, Start, folders
<1>8. NothingIsFetchedTwice'
  BY DEF DownloaderInv, DownloaderTypeOK, NothingIsFetchedTwice, Present, Unambiguous,
         Start, folders
<1>. QED BY <1>1, <1>2, <1>3, <1>4, <1>5, <1>6, <1>7, <1>8 DEF DownloaderInv

LEMMA ScanLineKeeps == ASSUME DownloaderInv, ScanLine PROVE DownloaderInv'
<1>a. /\ infile \in Seq(Lines) /\ infile # <<>> /\ Head(infile) \in Lines
      /\ Ran(infile) = {Head(infile)} \cup Ran(Tail(infile)) /\ Tail(infile) \in Seq(Lines)
      /\ Inj(infile) => Inj(Tail(infile)) /\ Head(infile) \notin Ran(Tail(infile))
  BY Pops DEF DownloaderInv, DownloaderTypeOK, ScanLine
<1>c. /\ missing \in Seq(Lines) /\ Append(missing, Head(infile)) \in Seq(Lines)
      /\ Ran(Append(missing, Head(infile))) = Ran(missing) \cup {Head(infile)}
      /\ Inj(missing) /\ Head(infile) \notin Ran(missing) => Inj(Append(missing, Head(infile)))
  BY <1>a, Pushes DEF DownloaderInv, DownloaderTypeOK
<1>d. /\ doing = "scan" /\ doing' = doing /\ infile' = Tail(infile)
      /\ missing' = IF Found(Head(infile)) THEN missing ELSE Append(missing, Head(infile))
      /\ \A p : Found(p)' = Found(p)
      /\ tried' = tried
  BY DEF ScanLine, Found, FoundFor, folders, ghosts, Present
<1>1. DownloaderTypeOK'
  BY DEF DownloaderInv, DownloaderTypeOK, Contents, ScanLine, folders, ghosts, FoundFor
<1>2. FileIsOpen'
  BY DEF DownloaderInv, DownloaderTypeOK, FileIsOpen, Paper, ScanLine, folders, ghosts,
         FoundFor
<1>3. CutFilesHaveACause'
  BY DEF DownloaderInv, DownloaderTypeOK, CutFilesHaveACause, Paper, NoFile, ScanLine,
         folders, ghosts, FoundFor
<1>4. LinesAreSeen'
  <2>1. CASE Found(Head(infile))
    BY <2>1, <1>a, <1>d DEF DownloaderInv, LinesAreSeen
  <2>2. CASE ~Found(Head(infile))
    BY <2>2, <1>a, <1>c, <1>d DEF DownloaderInv, LinesAreSeen
  <2>. QED BY <2>1, <2>2
<1>5. LinesComeOnce'
  <2>1. /\ Inj(infile) /\ Inj(missing) /\ Ran(infile) \cap Ran(missing) = {} /\ tried = {}
        /\ \A p \in Ran(missing) : ~Found(p)
    BY <1>d DEF DownloaderInv, LinesComeOnce
  <2>2. /\ Inj(infile') /\ Inj(missing') /\ Ran(infile') \cap Ran(missing') = {}
        /\ \A p \in Ran(missing') : ~Found(p)
    <3>1. CASE Found(Head(infile))
      BY <3>1, <2>1, <1>a, <1>d
    <3>2. CASE ~Found(Head(infile))
      BY <3>2, <2>1, <1>a, <1>c, <1>d
    <3>. QED BY <3>1, <3>2
  <2>. QED BY <2>1, <2>2, <1>d DEF LinesComeOnce
<1>6. NamesAreFinal'
  BY DEF DownloaderInv, DownloaderTypeOK, NamesAreFinal, Present, ScanLine, folders, ghosts,
         FoundFor
<1>7. FreshOnesWereTried'
  BY DEF DownloaderInv, DownloaderTypeOK, FreshOnesWereTried, Present, ScanLine, folders,
         ghosts, FoundFor
<1>8. NothingIsFetchedTwice'
  BY DEF DownloaderInv, DownloaderTypeOK, NothingIsFetchedTwice, Present, Unambiguous,
         ScanLine, folders, ghosts, FoundFor
<1>. QED BY <1>1, <1>2, <1>3, <1>4, <1>5, <1>6, <1>7, <1>8 DEF DownloaderInv

LEMMA InitCurlKeeps == ASSUME DownloaderInv, InitCurl PROVE DownloaderInv'
<1>1. DownloaderTypeOK'
  BY DEF DownloaderInv, DownloaderTypeOK, Contents, InitCurl, folders, ghosts
<1>2. FileIsOpen'
  BY DEF DownloaderInv, DownloaderTypeOK, FileIsOpen, Paper, InitCurl, folders, ghosts
<1>3. CutFilesHaveACause'
  BY DEF DownloaderInv, DownloaderTypeOK, CutFilesHaveACause, Paper, NoFile, InitCurl,
         folders, ghosts
<1>4. LinesAreSeen'
  BY DEF DownloaderInv, DownloaderTypeOK, LinesAreSeen, Found, Present, InitCurl, folders,
         ghosts
<1>5. LinesComeOnce'
  BY DEF DownloaderInv, DownloaderTypeOK, LinesComeOnce, Found, Present, InitCurl, folders,
         ghosts
<1>6. NamesAreFinal'
  BY DEF DownloaderInv, DownloaderTypeOK, NamesAreFinal, Present, InitCurl, folders, ghosts
<1>7. FreshOnesWereTried'
  BY DEF DownloaderInv, DownloaderTypeOK, FreshOnesWereTried, Present, InitCurl, folders,
         ghosts
<1>8. NothingIsFetchedTwice'
  BY DEF DownloaderInv, DownloaderTypeOK, NothingIsFetchedTwice, Present, Unambiguous,
         InitCurl, folders, ghosts
<1>. QED BY <1>1, <1>2, <1>3, <1>4, <1>5, <1>6, <1>7, <1>8 DEF DownloaderInv

LEMMA NotResolvedKeeps == ASSUME DownloaderInv, NotResolved PROVE DownloaderInv'
<1>a. /\ missing # <<>> /\ missing \in Seq(Lines) /\ Paper \in Lines /\ Tail(missing) \in Seq(Lines)
      /\ Ran(missing) = {Paper} \cup Ran(Tail(missing))
      /\ Inj(missing) => Inj(Tail(missing)) /\ Paper \notin Ran(Tail(missing))
  BY Pops DEF DownloaderInv, DownloaderTypeOK, FileIsOpen, NotResolved, Paper
<1>1. DownloaderTypeOK'
  BY DEF DownloaderInv, DownloaderTypeOK, Contents, NotResolved, folders, NextPaper, Paper
<1>2. FileIsOpen'
  BY DEF DownloaderInv, DownloaderTypeOK, FileIsOpen, Paper, NotResolved, folders, NextPaper
<1>3. CutFilesHaveACause'
  BY DEF DownloaderInv, DownloaderTypeOK, CutFilesHaveACause, Paper, NoFile, NotResolved,
         folders, NextPaper
<1>4. LinesAreSeen'
  BY <1>a DEF DownloaderInv, DownloaderTypeOK, LinesAreSeen, Found, Present, NotResolved,
         folders, NextPaper, Paper
<1>5. LinesComeOnce'
  BY <1>a DEF DownloaderInv, DownloaderTypeOK, LinesComeOnce, Found, Present, NotResolved,
         folders, NextPaper, Paper
<1>6. NamesAreFinal'
  BY DEF DownloaderInv, DownloaderTypeOK, NamesAreFinal, Present, NotResolved, folders,
         NextPaper, Paper
<1>7. FreshOnesWereTried'
  BY DEF DownloaderInv, DownloaderTypeOK, FreshOnesWereTried, Present, NotResolved, folders,
         NextPaper, Paper
<1>8. NothingIsFetchedTwice'
  BY DEF DownloaderInv, DownloaderTypeOK, NothingIsFetchedTwice, Present, Unambiguous,
         NotResolved, folders, NextPaper, Paper
<1>. QED BY <1>1, <1>2, <1>3, <1>4, <1>5, <1>6, <1>7, <1>8 DEF DownloaderInv

LEMMA OpenFileKeeps == ASSUME DownloaderInv, OpenFile PROVE DownloaderInv'
<1>a. /\ missing # <<>> /\ missing \in Seq(Lines) /\ Paper \in Lines /\ Tail(missing) \in Seq(Lines)
      /\ Ran(missing) = {Paper} \cup Ran(Tail(missing))
      /\ Inj(missing) => Inj(Tail(missing)) /\ Paper \notin Ran(Tail(missing))
  BY Pops DEF DownloaderInv, DownloaderTypeOK, FileIsOpen, OpenFile, Paper
<1>b. /\ UrlFile[Paper] \in Files /\ tried' = tried \cup {Paper} /\ doing = "next"
      /\ UNCHANGED <<downloaded_papers, infile, starts, moves_first, cut_short>>
  BY <1>a, DownloaderAssumption DEF OpenFile
<1>c. /\ [paper |-> Paper, holds |-> "some"] \in Contents
      /\ [paper |-> Paper, holds |-> "some"] # NoFile
  BY <1>a DEF Contents, NoFile
<1>d. \/ /\ doing' = "fetch" /\ missing' = missing
         /\ freshly_downloaded_papers' = [freshly_downloaded_papers EXCEPT
                ![UrlFile[Paper]] = [paper |-> Paper, holds |-> "some"]]
      \/ /\ doing' = "next" /\ missing' = Tail(missing)
         /\ freshly_downloaded_papers' = freshly_downloaded_papers
  BY DEF OpenFile, NextPaper
<1>1. DownloaderTypeOK'
  <2>1. CASE doing' = "fetch"
    BY <2>1, <1>a, <1>b, <1>c, <1>d DEF DownloaderInv, DownloaderTypeOK
  <2>2. CASE doing' = "next"
    BY <2>2, <1>a, <1>b, <1>d DEF DownloaderInv, DownloaderTypeOK
  <2>. QED BY <2>1, <2>2, <1>d
<1>2. FileIsOpen'
  BY <1>b DEF DownloaderInv, DownloaderTypeOK, FileIsOpen, Paper, OpenFile, NextPaper
<1>3. CutFilesHaveACause'
  BY DEF DownloaderInv, DownloaderTypeOK, CutFilesHaveACause, Paper, NoFile, OpenFile,
         NextPaper
<1>4. LinesAreSeen'
  BY <1>a DEF DownloaderInv, DownloaderTypeOK, LinesAreSeen, Found, Present, OpenFile,
         NextPaper, Paper
<1>5. LinesComeOnce'
  <2>1. CASE doing' = "fetch"
    BY <2>1, <1>a, <1>b, <1>d DEF DownloaderInv, LinesComeOnce, DownloaderTypeOK,
         Found, Present, Paper
  <2>2. CASE doing' = "next"
    BY <2>2, <1>a, <1>b, <1>d DEF DownloaderInv, LinesComeOnce, DownloaderTypeOK,
         Found, Present, Paper
  <2>. QED BY <2>1, <2>2, <1>d
<1>6. NamesAreFinal'
  BY DEF DownloaderInv, DownloaderTypeOK, NamesAreFinal, Present, OpenFile, NextPaper, Paper
<1>7. FreshOnesWereTried'
  BY DEF DownloaderInv, DownloaderTypeOK, FreshOnesWereTried, Present, OpenFile, NextPaper,
         Paper
<1>8. NothingIsFetchedTwice'
  <2>1. CASE doing' = "fetch"
    <3>1. SUFFICES ASSUME moves_first, NEW p \in Lines, NEW f \in Files,
                          Unambiguous(p), downloaded_papers[f] = [paper |-> p, holds |-> "all"]
                   PROVE  \A g \in Present(freshly_downloaded_papers)' :
                              freshly_downloaded_papers'[g].paper # p
      BY <1>b DEF NothingIsFetchedTwice
    <3>2. downloaded_papers[f] # NoFile
      BY <3>1 DEF NoFile
    <3>3. Found(p)
      BY <3>1, <3>2 DEF DownloaderInv, NamesAreFinal, Unambiguous, Found, Present
    <3>4. Paper # p
      BY <1>a, <1>b, <3>3 DEF DownloaderInv, LinesComeOnce
    <3>. QED BY <3>1, <3>4, <2>1, <1>d
         DEF DownloaderInv, DownloaderTypeOK, NothingIsFetchedTwice, Present
  <2>2. CASE doing' = "next"
    BY <2>2, <1>b, <1>d DEF DownloaderInv, NothingIsFetchedTwice, Present, Unambiguous
  <2>. QED BY <2>1, <2>2, <1>d
<1>. QED BY <1>1, <1>2, <1>3, <1>4, <1>5, <1>6, <1>7, <1>8 DEF DownloaderInv

LEMMA FetchCompletesKeeps == ASSUME DownloaderInv, FetchCompletes PROVE DownloaderInv'
<1>a. /\ missing # <<>> /\ missing \in Seq(Lines) /\ Paper \in Lines /\ Tail(missing) \in Seq(Lines)
      /\ Ran(missing) = {Paper} \cup Ran(Tail(missing))
      /\ Inj(missing) => Inj(Tail(missing)) /\ Paper \notin Ran(Tail(missing))
  BY Pops DEF DownloaderInv, DownloaderTypeOK, FileIsOpen, FetchCompletes, Paper
<1>b. UrlFile[Paper] \in Files /\ Paper \in tried
  BY DEF DownloaderInv, FileIsOpen, FetchCompletes
<1>c. PICK what \in {"all", "error"} :
        freshly_downloaded_papers' = [freshly_downloaded_papers EXCEPT
            ![UrlFile[Paper]] = [paper |-> Paper, holds |-> what]]
  BY DEF DownloaderInv, DownloaderTypeOK, FileIsOpen, FetchCompletes, Holds
<1>d. [paper |-> Paper, holds |-> what] \in Contents
  BY <1>a DEF Contents
<1>1. DownloaderTypeOK'
  BY <1>a, <1>c, <1>d DEF DownloaderInv, DownloaderTypeOK, FetchCompletes, NextPaper, Paper,
         Holds, ghosts
<1>2. FileIsOpen'
  BY DEF DownloaderInv, DownloaderTypeOK, FileIsOpen, Paper, FetchCompletes, NextPaper,
         Holds, ghosts
<1>3. CutFilesHaveACause'
  BY <1>c DEF DownloaderInv, DownloaderTypeOK, CutFilesHaveACause, Paper, NoFile,
         FetchCompletes, NextPaper, Holds, ghosts
<1>4. LinesAreSeen'
  BY <1>a DEF DownloaderInv, DownloaderTypeOK, LinesAreSeen, Found, Present, FileIsOpen,
         FetchCompletes, NextPaper, Paper, Holds, ghosts
<1>5. LinesComeOnce'
  BY <1>a DEF DownloaderInv, DownloaderTypeOK, LinesComeOnce, Found, Present,
         FetchCompletes, NextPaper, Paper, Holds, ghosts
<1>6. NamesAreFinal'
  BY <1>c DEF DownloaderInv, DownloaderTypeOK, NamesAreFinal, Present, FetchCompletes,
         NextPaper, Paper, Holds, ghosts
<1>7. FreshOnesWereTried'
  BY <1>b, <1>c DEF DownloaderInv, DownloaderTypeOK, FreshOnesWereTried, Present,
         FetchCompletes, NextPaper, Paper, Holds, ghosts
<1>8. NothingIsFetchedTwice'
  <2>1. /\ freshly_downloaded_papers[UrlFile[Paper]].paper = Paper
        /\ freshly_downloaded_papers[UrlFile[Paper]] # NoFile
        /\ UNCHANGED <<downloaded_papers, moves_first>>
    BY DEF DownloaderInv, FileIsOpen, FetchCompletes, NoFile, ghosts
  <2>2. \A g \in Present(freshly_downloaded_papers)' :
            /\ g \in Present(freshly_downloaded_papers)
            /\ freshly_downloaded_papers'[g].paper = freshly_downloaded_papers[g].paper
    BY <1>c, <2>1 DEF DownloaderInv, DownloaderTypeOK, Present
  <2>. QED BY <2>1, <2>2 DEF DownloaderInv, NothingIsFetchedTwice, Unambiguous
<1>. QED BY <1>1, <1>2, <1>3, <1>4, <1>5, <1>6, <1>7, <1>8 DEF DownloaderInv

LEMMA WriteFailsKeeps == ASSUME DownloaderInv, WriteFails PROVE DownloaderInv'
<1>a. /\ missing # <<>> /\ missing \in Seq(Lines) /\ Paper \in Lines /\ Tail(missing) \in Seq(Lines)
      /\ Ran(missing) = {Paper} \cup Ran(Tail(missing))
      /\ Inj(missing) => Inj(Tail(missing)) /\ Paper \notin Ran(Tail(missing))
  BY Pops DEF DownloaderInv, DownloaderTypeOK, FileIsOpen, WriteFails, Paper
<1>1. DownloaderTypeOK'
  BY <1>a DEF DownloaderInv, DownloaderTypeOK, Contents, WriteFails, NextPaper, Paper,
         folders
<1>2. FileIsOpen'
  BY DEF DownloaderInv, DownloaderTypeOK, FileIsOpen, Paper, WriteFails, NextPaper, folders
<1>3. CutFilesHaveACause'
  BY DEF DownloaderInv, DownloaderTypeOK, CutFilesHaveACause, Paper, NoFile, WriteFails,
         NextPaper, folders
<1>4. LinesAreSeen'
  BY <1>a DEF DownloaderInv, DownloaderTypeOK, LinesAreSeen, Found, Present, FileIsOpen,
         WriteFails, NextPaper, Paper, folders
<1>5. LinesComeOnce'
  BY <1>a DEF DownloaderInv, DownloaderTypeOK, LinesComeOnce, Found, Present, WriteFails,
         NextPaper, Paper, folders
<1>6. NamesAreFinal'
  BY DEF DownloaderInv, DownloaderTypeOK, NamesAreFinal, Present, WriteFails, NextPaper,
         Paper, folders
<1>7. FreshOnesWereTried'
  BY DEF DownloaderInv, DownloaderTypeOK, FreshOnesWereTried, Present, WriteFails,
         NextPaper, Paper, folders
<1>8. NothingIsFetchedTwice'
  BY DEF DownloaderInv, DownloaderTypeOK, NothingIsFetchedTwice, Present, Unambiguous,
         WriteFails, NextPaper, Paper, folders
<1>. QED BY <1>1, <1>2, <1>3, <1>4, <1>5, <1>6, <1>7, <1>8 DEF DownloaderInv

LEMMA FetchFailsKeeps == ASSUME DownloaderInv, FetchFails PROVE DownloaderInv'
<1>a. /\ missing # <<>> /\ missing \in Seq(Lines) /\ Paper \in Lines /\ Tail(missing) \in Seq(Lines)
      /\ Ran(missing) = {Paper} \cup Ran(Tail(missing))
      /\ Inj(missing) => Inj(Tail(missing)) /\ Paper \notin Ran(Tail(missing))
  BY Pops DEF DownloaderInv, DownloaderTypeOK, FileIsOpen, FetchFails, Paper
<1>1. DownloaderTypeOK'
  BY <1>a DEF DownloaderInv, DownloaderTypeOK, Contents, FetchFails, NextPaper, Paper,
         ghosts
<1>2. FileIsOpen'
  BY DEF DownloaderInv, DownloaderTypeOK, FileIsOpen, Paper, FetchFails, NextPaper, ghosts
<1>3. CutFilesHaveACause'
  BY DEF DownloaderInv, DownloaderTypeOK, CutFilesHaveACause, Paper, NoFile, FetchFails,
         NextPaper, ghosts
<1>4. LinesAreSeen'
  BY <1>a DEF DownloaderInv, DownloaderTypeOK, LinesAreSeen, Found, Present, FileIsOpen,
         FetchFails, NextPaper, Paper, ghosts
<1>5. LinesComeOnce'
  BY <1>a DEF DownloaderInv, DownloaderTypeOK, LinesComeOnce, Found, Present, FetchFails,
         NextPaper, Paper, ghosts
<1>6. NamesAreFinal'
  BY DEF DownloaderInv, DownloaderTypeOK, NamesAreFinal, Present, FetchFails, NextPaper,
         Paper, ghosts
<1>7. FreshOnesWereTried'
  BY DEF DownloaderInv, DownloaderTypeOK, FreshOnesWereTried, Present, FetchFails,
         NextPaper, Paper, ghosts
<1>8. NothingIsFetchedTwice'
  BY DEF DownloaderInv, DownloaderTypeOK, NothingIsFetchedTwice, Present, Unambiguous,
         FetchFails, NextPaper, Paper, ghosts
<1>. QED BY <1>1, <1>2, <1>3, <1>4, <1>5, <1>6, <1>7, <1>8 DEF DownloaderInv

LEMMA FinishKeeps == ASSUME DownloaderInv, Finish PROVE DownloaderInv'
<1>1. DownloaderTypeOK'
  BY DEF DownloaderInv, DownloaderTypeOK, Contents, Finish, folders, ghosts
<1>2. FileIsOpen'
  BY DEF DownloaderInv, DownloaderTypeOK, FileIsOpen, Paper, Finish, folders, ghosts
<1>3. CutFilesHaveACause'
  BY DEF DownloaderInv, DownloaderTypeOK, CutFilesHaveACause, Paper, NoFile, Finish,
         folders, ghosts
<1>4. LinesAreSeen'
  BY DEF DownloaderInv, DownloaderTypeOK, LinesAreSeen, Found, Present, Finish, folders,
         ghosts
<1>5. LinesComeOnce'
  BY DEF DownloaderInv, DownloaderTypeOK, LinesComeOnce, Found, Present, Finish, folders,
         ghosts
<1>6. NamesAreFinal'
  BY DEF DownloaderInv, DownloaderTypeOK, NamesAreFinal, Present, Finish, folders, ghosts
<1>7. FreshOnesWereTried'
  BY DEF DownloaderInv, DownloaderTypeOK, FreshOnesWereTried, Present, Finish, folders,
         ghosts
<1>8. NothingIsFetchedTwice'
  BY DEF DownloaderInv, DownloaderTypeOK, NothingIsFetchedTwice, Present, Unambiguous,
         Finish, folders, ghosts
<1>. QED BY <1>1, <1>2, <1>3, <1>4, <1>5, <1>6, <1>7, <1>8 DEF DownloaderInv

LEMMA StoppedKeeps == ASSUME DownloaderInv, Stopped PROVE DownloaderInv'
<1>1. DownloaderTypeOK'
  BY DEF DownloaderInv, DownloaderTypeOK, Contents, Stopped, folders
<1>2. FileIsOpen'
  BY DEF DownloaderInv, DownloaderTypeOK, FileIsOpen, Paper, Stopped, folders
<1>3. CutFilesHaveACause'
  BY DEF DownloaderInv, DownloaderTypeOK, CutFilesHaveACause, Paper, NoFile, Stopped,
         folders
<1>4. LinesAreSeen'
  BY DEF DownloaderInv, DownloaderTypeOK, LinesAreSeen, Found, Present, Stopped, folders
<1>5. LinesComeOnce'
  BY DEF DownloaderInv, DownloaderTypeOK, LinesComeOnce, Found, Present, Stopped, folders
<1>6. NamesAreFinal'
  BY DEF DownloaderInv, DownloaderTypeOK, NamesAreFinal, Present, Stopped, folders
<1>7. FreshOnesWereTried'
  BY DEF DownloaderInv, DownloaderTypeOK, FreshOnesWereTried, Present, Stopped, folders
<1>8. NothingIsFetchedTwice'
  BY DEF DownloaderInv, DownloaderTypeOK, NothingIsFetchedTwice, Present, Unambiguous,
         Stopped, folders
<1>. QED BY <1>1, <1>2, <1>3, <1>4, <1>5, <1>6, <1>7, <1>8 DEF DownloaderInv

LEMMA MoveFreshPapersKeeps == ASSUME DownloaderInv, MoveFreshPapers PROVE DownloaderInv'
<1>1. DownloaderTypeOK'
  BY DEF DownloaderInv, DownloaderTypeOK, Contents, MoveFreshPapers, ghosts
<1>2. FileIsOpen'
  BY DEF DownloaderInv, DownloaderTypeOK, FileIsOpen, Paper, MoveFreshPapers, ghosts
<1>3. CutFilesHaveACause'
  BY DEF DownloaderInv, DownloaderTypeOK, CutFilesHaveACause, Paper, NoFile,
         MoveFreshPapers, ghosts
<1>4. LinesAreSeen'
  BY DEF DownloaderInv, DownloaderTypeOK, LinesAreSeen, Found, Present, MoveFreshPapers,
         ghosts
<1>5. LinesComeOnce'
  BY DEF DownloaderInv, DownloaderTypeOK, LinesComeOnce, Found, Present, MoveFreshPapers,
         ghosts
<1>6. NamesAreFinal'
  BY DEF DownloaderInv, DownloaderTypeOK, NamesAreFinal, Present, MoveFreshPapers, ghosts
<1>7. FreshOnesWereTried'
  BY DEF DownloaderInv, DownloaderTypeOK, FreshOnesWereTried, Present, MoveFreshPapers,
         ghosts
<1>8. NothingIsFetchedTwice'
  BY DEF DownloaderInv, DownloaderTypeOK, NothingIsFetchedTwice, Present, Unambiguous,
         MoveFreshPapers, ghosts
<1>. QED BY <1>1, <1>2, <1>3, <1>4, <1>5, <1>6, <1>7, <1>8 DEF DownloaderInv


\* A run comes to its end with every line accounted for, a cut-off file has
\* its cause, and all that these rest on, for any list and any names.
THEOREM DownloaderInvariant == DownloaderSpec => []DownloaderInv
<1>1. DownloaderInv /\ [DownloaderNext]_downloader_vars => DownloaderInv'
  <2>1. ASSUME DownloaderInv, UNCHANGED downloader_vars PROVE DownloaderInv'
    BY <2>1 DEF downloader_vars, folders, ghosts, DownloaderInv, DownloaderTypeOK, FileIsOpen,
           CutFilesHaveACause, LinesAreSeen, LinesComeOnce, NamesAreFinal, FreshOnesWereTried,
           NothingIsFetchedTwice, Found, Present, Paper
  <2>. QED BY <2>1, StartKeeps, ScanLineKeeps, InitCurlKeeps, NotResolvedKeeps, OpenFileKeeps,
              FetchCompletesKeeps, WriteFailsKeeps, FetchFailsKeeps, FinishKeeps, StoppedKeeps,
              MoveFreshPapersKeeps DEF DownloaderNext
<1>. QED BY <1>1, DownloaderStarts, PTL DEF DownloaderSpec

\* Of the lines of the list none is overlooked: when the run comes to its end
\* each has its paper in downloaded_papers, or was tried.
THEOREM LinesAreNotOverlooked == DownloaderSpec => []NoPaperIsOverlooked
<1>1. DownloaderInv => NoPaperIsOverlooked
  BY NoLines DEF DownloaderInv, LinesAreSeen, NoPaperIsOverlooked, Found
<1>. QED BY <1>1, DownloaderInvariant, PTL

\* A file that is cut off outlives its download only when a run was stopped
\* or a write failed: fetches that fail remove theirs.
THEOREM FailedFetchesLeaveNothing == DownloaderSpec => []CutFilesHaveACause
<1>1. DownloaderInv => CutFilesHaveACause
  BY DEF DownloaderInv
<1>. QED BY <1>1, DownloaderInvariant, PTL

-----------------------------------------------------------------------------
(* The copies that are kept.                                               *)

Keeps(p) == Unambiguous(p) /\ Kept(p) => Kept(p)'

\* Another paper's download does not come near the file.
LEMMA OpenFileSpares ==
    ASSUME DownloaderInv, moves_first, OpenFile, NEW p \in Lines
    PROVE  Keeps(p)
<1>. SUFFICES ASSUME Unambiguous(p), Kept(p) PROVE Kept(p)'
  BY DEF Keeps
<1>1. CASE \E f \in Files : downloaded_papers[f] = [paper |-> p, holds |-> "all"]
  BY <1>1 DEF OpenFile, Kept
<1>2. CASE \E f \in Files : freshly_downloaded_papers[f] = [paper |-> p, holds |-> "all"]
  <2>1. PICK f \in Files : freshly_downloaded_papers[f] = [paper |-> p, holds |-> "all"]
    BY <1>2
  <2>2. freshly_downloaded_papers[f] # NoFile /\ freshly_downloaded_papers[f].paper = p
    BY <2>1 DEF NoFile
  <2>3. UrlFile[p] = f /\ p \in tried
    BY <2>2 DEF DownloaderInv, NamesAreFinal, FreshOnesWereTried, Present, OpenFile
  <2>4. Paper \in Lines /\ Paper # p
    <3>1. missing # <<>> /\ missing \in Seq(Lines) /\ Ran(missing) \cap tried = {}
      BY DEF DownloaderInv, DownloaderTypeOK, LinesComeOnce, OpenFile
    <3>. QED BY <3>1, <2>3, Pops DEF Paper
  <2>5. UrlFile[Paper] # f
    BY <2>3, <2>4 DEF Unambiguous
  <2>6. freshly_downloaded_papers'[f] = freshly_downloaded_papers[f]
    BY <2>5 DEF OpenFile, DownloaderInv, DownloaderTypeOK
  <2>. QED BY <2>1, <2>6 DEF Kept
<1>. QED BY <1>1, <1>2 DEF Kept

\* What is not whole yet is no copy to be kept.
LEMMA FetchesSpare ==
    ASSUME DownloaderInv, FetchCompletes \/ WriteFails \/ FetchFails, NEW p \in Lines
    PROVE  Keeps(p)
<1>1. \A f \in Files : freshly_downloaded_papers[f] = [paper |-> p, holds |-> "all"]
          => freshly_downloaded_papers'[f] = freshly_downloaded_papers[f]
  BY DEF DownloaderInv, DownloaderTypeOK, FileIsOpen, FetchCompletes, WriteFails, FetchFails,
         Holds, folders
<1>2. downloaded_papers' = downloaded_papers
  BY DEF FetchCompletes, WriteFails, FetchFails, folders
<1>. QED BY <1>1, <1>2 DEF Keeps, Kept

\* The move puts nothing over a whole copy but another of the same paper.
LEMMA MoveSpares ==
    ASSUME DownloaderInv, moves_first, MoveFreshPapers, NEW p \in Lines
    PROVE  Keeps(p)
<1>. SUFFICES ASSUME Unambiguous(p), Kept(p) PROVE Kept(p)'
  BY DEF Keeps
<1>1. CASE \E f \in Files : downloaded_papers[f] = [paper |-> p, holds |-> "all"]
  <2>1. PICK f \in Files : downloaded_papers[f] = [paper |-> p, holds |-> "all"]
    BY <1>1
  <2>2. UrlFile[p] = f
    BY <2>1 DEF DownloaderInv, NamesAreFinal, NoFile
  <2>3. f \notin Present(freshly_downloaded_papers)
    <3>1. SUFFICES ASSUME f \in Present(freshly_downloaded_papers) PROVE FALSE
      OBVIOUS
    <3>2. freshly_downloaded_papers[f].paper # p
      BY <2>1, <3>1 DEF DownloaderInv, NothingIsFetchedTwice
    <3>3. freshly_downloaded_papers[f] # NoFile /\ freshly_downloaded_papers[f] \in Contents
      BY <3>1 DEF DownloaderInv, DownloaderTypeOK, Present
    <3>4. /\ freshly_downloaded_papers[f].paper \in Lines
          /\ UrlFile[freshly_downloaded_papers[f].paper] = f
      BY <3>3 DEF DownloaderInv, NamesAreFinal, Contents
    <3>. QED BY <3>2, <3>4, <2>2 DEF Unambiguous
  <2>. QED BY <2>1, <2>3 DEF MoveFreshPapers, Kept
<1>2. CASE \E f \in Files : freshly_downloaded_papers[f] = [paper |-> p, holds |-> "all"]
  BY <1>2 DEF MoveFreshPapers, Kept, Present, NoFile
<1>. QED BY <1>1, <1>2 DEF Kept

PapersAreSpared == moves_first => \A p \in Lines : Unambiguous(p) /\ Kept(p) => Kept(p)'

\* Where the user moves the papers before the next run, a whole copy of a
\* paper with a file of its own outlives every run and every move.
THEOREM WholeCopiesStay == DownloaderSpec => CompletePapersAreKept
<1>1. DownloaderInv /\ [DownloaderNext]_downloader_vars => [PapersAreSpared]_downloader_vars
  <2>. SUFFICES ASSUME DownloaderInv, DownloaderNext, moves_first, NEW p \in Lines
                PROVE  Keeps(p)
    BY DEF PapersAreSpared, Keeps
  <2>1. ASSUME UNCHANGED folders PROVE Keeps(p)
    BY <2>1 DEF folders, Keeps, Kept
  <2>2. CASE Start \/ ScanLine \/ InitCurl \/ NotResolved \/ Finish \/ Stopped
    BY <2>1, <2>2 DEF Start, ScanLine, InitCurl, NotResolved, Finish, Stopped
  <2>. QED BY <2>2, OpenFileSpares, FetchesSpare, MoveSpares DEF DownloaderNext
<1>. QED BY <1>1, DownloaderInvariant, PTL
         DEF DownloaderSpec, CompletePapersAreKept, PapersAreSpared

-----------------------------------------------------------------------------
(* The folder of papers.                                                   *)

FolderTypes ==
    /\ tokens \in [Stems -> TokenFiles] /\ memory \in [Numbered -> TokenFiles]
    /\ multiple_files \in [there : BOOLEAN, documents : [Sources -> Nat]]
    /\ folder \subseteq Sources

\* Only a paper with text has tokens.
TokensHaveText ==
    /\ \A t \in Stems : tokens[t] # "absent" => \E s \in WithText : Stem[s] = t
    /\ at \in {"tokenizer", "write"} => todo \subseteq folder
    /\ at = "write" => output \in Stems /\ tokens[output] # "absent"

\* What a run of the tokenizer has done so far without a failure.
TokenizedSoFar ==
    tokenized = "so_far" =>
        /\ at \in {"tokenizer", "write"}
        /\ \A s \in WithText : \/ s \in todo \/ tokens[Stem[s]] = "whole"
                               \/ at = "write" /\ Stem[s] = output

TokenizedAll ==
    tokenized = "all" => at \notin {"tokenizer", "write"} /\ RerunRepairsTokens

LoadedSoFar ==
    at \in {"loader", "loaded"} =>
        /\ \A t \in todo \cap Stems : tokens[t] # "absent"
        /\ tokenized = "all" =>
              \A s \in WithText : Stem[s] \in Loadable =>
                  \/ at = "loader" /\ Stem[s] \in todo
                  \/ memory[PaperOf[Stem[s]]] = "whole"

\* From the creation of the database to the end of its copy,
Indexing == {"index", "compact", "copy"}

\* each file visited is in it once or was left out, and one still to be visited
\* was not left out yet.
IndexedSoFar ==
    at \in Indexing =>
        /\ todo \subseteq folder /\ todo \cap missed = {}
        /\ at # "index" => todo = {}
        /\ \A s \in Sources : multiple_files.documents[s] =
                                  IF s \in WithText \ missed /\ s \notin todo THEN 1 ELSE 0

TableSoFar ==
    at = "table" => \A s \in WithText : PaperIn(s) # NoPaper => s \in todo \cup papers

\* run.sh comes to index_for_xapian once, and to crawl last.
TargetsLeft ==
    /\ at \in {"tree_maker", "table"} =>
          \/ targets = <<>>
          \/ targets = <<"index_for_xapian", "crawl">>
    /\ at \in {"index_for_xapian"} \cup Indexing => targets = <<>> \/ targets = <<"crawl">>
    /\ at \notin {"tree_maker", "table", "index_for_xapian"} \cup Indexing => targets = <<>>

TableIsReady ==
    /\ table.maker = "tree_maker" /\ table.finished
    /\ \A s \in WithText : PaperIn(s) # NoPaper => s \in table.files

ReadyForIndex ==
    at \in {"index_for_xapian"} \cup Indexing /\ script = All => TableIsReady

TokensInv == FolderTypes /\ TokensHaveText /\ TokenizedSoFar /\ TokenizedAll /\ LoadedSoFar
ScriptsInv == IndexedSoFar /\ TableSoFar /\ TargetsLeft /\ ReadyForIndex

FolderInv == TokensInv /\ ScriptsInv

\* Where the tokenizer or the loader runs, and where a target of run.sh does.
WithTokens == {"tokenizer", "write", "loader", "loaded"}
WithScript == {"tree_maker", "table", "index_for_xapian", "crawl", "crawl_table"} \cup Indexing

-----------------------------------------------------------------------------
(* Tokens.                                                                 *)

\* A step that leaves the tokens alone, while no program uses them.
LEMMA TokensAside ==
    ASSUME TokensInv, UNCHANGED <<inputs, memory, tokenized>>,
           at \notin WithTokens, at' \notin WithTokens,
           multiple_files' \in [there : BOOLEAN, documents : [Sources -> Nat]]
    PROVE  TokensInv'
BY DEF TokensInv, FolderTypes, TokensHaveText, TokenizedSoFar, TokenizedAll, LoadedSoFar,
       RerunRepairsTokens, WithText, WithTokens, inputs

\* A database that has lost documents is still one.
LEMMA LossesAreTyped ==
    ASSUME FolderTypes, NEW lost
    PROVE  /\ DocumentsWithout(lost) \in [there : BOOLEAN, documents : [Sources -> Nat]]
           /\ \A s \in Sources : DocumentsWithout(lost).documents[s] =
                                     IF s \in lost THEN 0 ELSE multiple_files.documents[s]
BY DEF FolderTypes, DocumentsWithout

\* Where run.sh goes from the end of a target,
Went ==
    \/ at' = "shell" /\ targets' = <<>>
    \/ at' = "index_for_xapian" /\ targets' = <<"crawl">> /\ targets = <<"index_for_xapian", "crawl">>
    \/ at' = "crawl" /\ targets' = <<>> /\ targets = <<"crawl">>

\* and with which target it starts.
Started ==
    \/ at' = "tree_maker" /\ (targets' = <<>> \/ targets' = <<"index_for_xapian", "crawl">>)
    \/ at' = "index_for_xapian" /\ targets' = <<>> /\ script' # All
    \/ at' = "crawl" /\ targets' = <<>> /\ script' # All

LEMMA Goes ==
    ASSUME ProgramReturns,
           \/ targets = <<>> \/ targets = <<"crawl">>
           \/ targets = <<"index_for_xapian", "crawl">>
    PROVE  Went
<1>1. CASE targets = <<>>
  BY <1>1 DEF ProgramReturns, Went
<1>2. CASE targets = <<"crawl">>
  <2>1. targets # <<>> /\ Head(targets) = "crawl" /\ Tail(targets) = <<>>
    BY <1>2
  <2>. QED BY <2>1, <1>2 DEF ProgramReturns, Went
<1>3. CASE targets = <<"index_for_xapian", "crawl">>
  <2>1. targets # <<>> /\ Head(targets) = "index_for_xapian" /\ Tail(targets) = <<"crawl">>
    BY <1>3
  <2>. QED BY <2>1, <1>3 DEF ProgramReturns, Went
<1>. QED BY <1>1, <1>2, <1>3

LEMMA Starts ==
    ASSUME NEW what \in Scripts, RunScript(what)
    PROVE  at = "shell" /\ Started
<1>1. at = "shell" /\ at' = Head(what) /\ targets' = Tail(what) /\ script' = what
  BY DEF RunScript, Begin
<1>2. CASE what = <<"tree_maker">>
  <2>1. Head(what) = "tree_maker" /\ Tail(what) = <<>>
    BY <1>2
  <2>. QED BY <1>1, <2>1 DEF Started
<1>3. CASE what = <<"index_for_xapian">>
  <2>1. Head(what) = "index_for_xapian" /\ Tail(what) = <<>> /\ what # All
    BY <1>3 DEF All
  <2>. QED BY <1>1, <2>1 DEF Started
<1>4. CASE what = <<"crawl">>
  <2>1. Head(what) = "crawl" /\ Tail(what) = <<>> /\ what # All
    BY <1>4 DEF All
  <2>. QED BY <1>1, <2>1 DEF Started
<1>5. CASE what = All
  <2>1. Head(what) = "tree_maker" /\ Tail(what) = <<"index_for_xapian", "crawl">>
    BY <1>5 DEF All
  <2>. QED BY <1>1, <2>1 DEF Started
<1>. QED BY <1>2, <1>3, <1>4, <1>5 DEF Scripts

LEMMA TokensStep == ASSUME FolderInv, [FolderNext]_folder_vars PROVE TokensInv'
<1>1. ASSUME RunTokenizer PROVE TokensInv'
  <2>1. FolderTypes'
    BY <1>1 DEF FolderInv, TokensInv, FolderTypes,
           RunTokenizer, Begin, inputs, artifacts
  <2>2. TokensHaveText'
    BY <1>1 DEF FolderInv, TokensInv, FolderTypes,
           TokensHaveText, WithText, RunTokenizer, Begin, inputs, artifacts
  <2>3. TokenizedSoFar'
    BY <1>1 DEF FolderInv, TokensInv, FolderTypes,
           TokenizedSoFar, WithText, RunTokenizer, Begin, inputs, artifacts
  <2>4. TokenizedAll'
    BY <1>1 DEF FolderInv, TokensInv, FolderTypes,
           TokenizedAll, RerunRepairsTokens, WithText, RunTokenizer, Begin,
           inputs, artifacts
  <2>5. LoadedSoFar'
    BY <1>1 DEF FolderInv, TokensInv, FolderTypes,
           LoadedSoFar, WithText, RunTokenizer, Begin, inputs, artifacts
  <2>. QED BY <2>1, <2>2, <2>3, <2>4, <2>5 DEF TokensInv
<1>2. ASSUME NEW s \in Sources, Tokenize(s) PROVE TokensInv'
  <2>1. FolderTypes'
    BY <1>2 DEF FolderInv, TokensInv, FolderTypes,
           Tokenize, Visit, TokenFiles, artifacts
  <2>2. TokensHaveText'
    <3>1. CASE UNCHANGED <<tokens, at, output>>
      BY <1>2, <3>1 DEF FolderInv, TokensInv, TokensHaveText, WithText, Tokenize, Visit
    <3>2. CASE /\ s \notin Blank /\ at' = "write" /\ output' = Stem[s]
               /\ tokens' = [tokens EXCEPT ![Stem[s]] = "empty"]
      <4>1. /\ s \in WithText /\ Stem[s] \in Stems
            /\ folder' = folder /\ todo' \subseteq folder
        BY <1>2, <3>2 DEF FolderInv, TokensInv, TokensHaveText, WithText, Stems, Tokenize, Visit
      <4>2. tokens'[Stem[s]] = "empty"
        BY <3>2, <4>1 DEF FolderInv, TokensInv, FolderTypes
      <4>3. \A t \in Stems \ {Stem[s]} : tokens'[t] = tokens[t]
        BY <3>2 DEF FolderInv, TokensInv, FolderTypes
      <4>. QED BY <3>2, <4>1, <4>2, <4>3 DEF FolderInv, TokensInv, TokensHaveText, WithText
    <3>. QED BY <1>2, <3>1, <3>2 DEF Tokenize
  <2>3. TokenizedSoFar'
    BY <1>2, PaperFolderAssumption DEF FolderInv, TokensInv, FolderTypes,
           TokenizedSoFar, WithText, Tokenize, Visit, TokenFiles, artifacts
  <2>4. TokenizedAll'
    BY <1>2 DEF FolderInv, TokensInv, FolderTypes,
           TokenizedAll, RerunRepairsTokens, WithText, Tokenize, Visit,
           TokenFiles, artifacts
  <2>5. LoadedSoFar'
    BY <1>2 DEF FolderInv, TokensInv, FolderTypes,
           LoadedSoFar, WithText, Tokenize, Visit, TokenFiles, artifacts
  <2>. QED BY <2>1, <2>2, <2>3, <2>4, <2>5 DEF TokensInv
<1>3. ASSUME WriteTokens PROVE TokensInv'
  <2>1. FolderTypes'
    BY <1>3 DEF FolderInv, TokensInv, FolderTypes,
           WriteTokens, TokenFiles, locals, artifacts
  <2>2. TokensHaveText'
    BY <1>3 DEF FolderInv, TokensInv, FolderTypes,
           TokensHaveText, WithText, WriteTokens, TokenFiles, locals, artifacts
  <2>3. TokenizedSoFar'
    BY <1>3, PaperFolderAssumption DEF FolderInv, TokensInv, FolderTypes,
           TokenizedSoFar, WithText, WriteTokens, TokenFiles, locals, artifacts
  <2>4. TokenizedAll'
    BY <1>3 DEF FolderInv, TokensInv, FolderTypes,
           TokenizedAll, RerunRepairsTokens, WithText, WriteTokens, TokenFiles,
           locals, artifacts
  <2>5. LoadedSoFar'
    BY <1>3 DEF FolderInv, TokensInv, FolderTypes,
           LoadedSoFar, WithText, WriteTokens, TokenFiles, locals, artifacts
  <2>. QED BY <2>1, <2>2, <2>3, <2>4, <2>5 DEF TokensInv
<1>4. ASSUME EndTokenizer PROVE TokensInv'
  <2>1. FolderTypes'
    BY <1>4 DEF FolderInv, TokensInv, FolderTypes,
           EndTokenizer, inputs, locals, artifacts
  <2>2. TokensHaveText'
    BY <1>4 DEF FolderInv, TokensInv, FolderTypes,
           TokensHaveText, WithText, EndTokenizer, inputs, locals, artifacts
  <2>3. TokenizedSoFar'
    BY <1>4 DEF FolderInv, TokensInv, FolderTypes,
           TokenizedSoFar, WithText, EndTokenizer, inputs, locals, artifacts
  <2>4. TokenizedAll'
    BY <1>4 DEF FolderInv, TokensInv, TokenizedSoFar, TokenizedAll, RerunRepairsTokens,
           WithText, EndTokenizer, inputs, locals
  <2>5. LoadedSoFar'
    BY <1>4 DEF FolderInv, TokensInv, FolderTypes,
           LoadedSoFar, WithText, EndTokenizer, inputs, locals, artifacts
  <2>. QED BY <2>1, <2>2, <2>3, <2>4, <2>5 DEF TokensInv
<1>5. ASSUME RunLoader PROVE TokensInv'
  <2>1. FolderTypes'
    BY <1>5 DEF FolderInv, TokensInv, FolderTypes,
           RunLoader, Begin, NoTokens, TokenFiles, Listing, inputs, artifacts
  <2>2. TokensHaveText'
    BY <1>5 DEF FolderInv, TokensInv, FolderTypes,
           TokensHaveText, WithText, RunLoader, Begin, NoTokens, TokenFiles,
           Listing, inputs, artifacts
  <2>3. TokenizedSoFar'
    BY <1>5 DEF FolderInv, TokensInv, FolderTypes,
           TokenizedSoFar, WithText, RunLoader, Begin, NoTokens, TokenFiles,
           Listing, inputs, artifacts
  <2>4. TokenizedAll'
    BY <1>5 DEF FolderInv, TokensInv, FolderTypes,
           TokenizedAll, RerunRepairsTokens, WithText, RunLoader, Begin,
           NoTokens, TokenFiles, Listing, inputs, artifacts
  <2>5. LoadedSoFar'
    <3>1. /\ at' = "loader" /\ todo' = Listing /\ UNCHANGED <<folder, tokens, tokenized>>
      BY <1>5 DEF RunLoader, Begin, inputs
    <3>2. \A t \in Listing \cap Stems : tokens[t] # "absent"
      BY PaperFolderAssumption DEF FolderInv, TokensInv, FolderTypes, Listing
    <3>3. ASSUME tokenized = "all", NEW s \in WithText PROVE Stem[s] \in Listing
      <4>1. tokens[Stem[s]] = "whole"
        BY <3>3 DEF FolderInv, TokensInv, TokenizedAll, RerunRepairsTokens
      <4>2. Stem[s] \in Stems
        BY <3>3 DEF FolderInv, TokensInv, FolderTypes, WithText, Stems
      <4>. QED BY <4>1, <4>2 DEF Listing
    <3>. QED BY <3>1, <3>2, <3>3 DEF LoadedSoFar, WithText
  <2>. QED BY <2>1, <2>2, <2>3, <2>4, <2>5 DEF TokensInv
<1>6. ASSUME NEW t \in Stems, LoadTokens(t) PROVE TokensInv'
  <2>1. FolderTypes'
    BY <1>6 DEF FolderInv, TokensInv, FolderTypes,
           LoadTokens, Visit, inputs, artifacts
  <2>2. TokensHaveText'
    BY <1>6 DEF FolderInv, TokensInv, FolderTypes,
           TokensHaveText, WithText, LoadTokens, Visit, inputs, artifacts
  <2>3. TokenizedSoFar'
    BY <1>6 DEF FolderInv, TokensInv, FolderTypes,
           TokenizedSoFar, WithText, LoadTokens, Visit, inputs, artifacts
  <2>4. TokenizedAll'
    BY <1>6 DEF FolderInv, TokensInv, FolderTypes,
           TokenizedAll, RerunRepairsTokens, WithText, LoadTokens, Visit,
           inputs, artifacts
  <2>5. LoadedSoFar'
    <3>1. /\ todo' = todo \ {t} /\ t \in todo /\ at = "loader" /\ at' \in {"loader", "shell"}
          /\ UNCHANGED <<folder, tokens, tokenized>>
      BY <1>6 DEF LoadTokens, Visit, inputs
    <3>2. ASSUME at' = "loader", tokenized = "all", NEW s \in WithText, Stem[s] \in Loadable,
                 Stem[s] \notin todo'
          PROVE  memory'[PaperOf[Stem[s]]] = "whole"
      <4>1. tokens[Stem[s]] = "whole" /\ PaperOf[Stem[s]] \in Numbered
        BY <3>2, PaperFolderAssumption
           DEF FolderInv, TokensInv, TokenizedAll, RerunRepairsTokens, WithText, Numbered
      <4>2. t \notin Loadable \/ tokens[t] = "whole"
        <5>1. tokens[t] # "absent"
          BY <3>1 DEF FolderInv, TokensInv, LoadedSoFar
        <5>. QED BY <3>2, <5>1 DEF FolderInv, TokensInv, TokensHaveText, TokenizedAll, RerunRepairsTokens
      <4>3. \/ memory' = memory
            \/ t \in Loadable /\ memory' = [memory EXCEPT ![PaperOf[t]] = tokens[t]]
        BY <1>6 DEF LoadTokens
      <4>4. CASE Stem[s] = t
        <5>1. memory' = [memory EXCEPT ![PaperOf[t]] = "whole"]
          BY <1>6, <3>1, <3>2, <4>1, <4>4 DEF LoadTokens
        <5>. QED BY <4>1, <4>4, <5>1 DEF FolderInv, TokensInv, FolderTypes
      <4>5. CASE Stem[s] # t
        <5>1. memory[PaperOf[Stem[s]]] = "whole"
          BY <3>1, <3>2, <4>5 DEF FolderInv, TokensInv, LoadedSoFar
        <5>2. memory' = memory \/ memory' = [memory EXCEPT ![PaperOf[t]] = "whole"]
          BY <4>2, <4>3
        <5>. QED BY <4>1, <5>1, <5>2 DEF FolderInv, TokensInv, FolderTypes
      <4>. QED BY <4>4, <4>5
    <3>. QED BY <3>1, <3>2 DEF FolderInv, TokensInv, LoadedSoFar, WithText
  <2>. QED BY <2>1, <2>2, <2>3, <2>4, <2>5 DEF TokensInv
<1>7. ASSUME EndLoader PROVE TokensInv'
  <2>1. FolderTypes'
    BY <1>7 DEF FolderInv, TokensInv, FolderTypes,
           EndLoader, inputs, locals, artifacts
  <2>2. TokensHaveText'
    BY <1>7 DEF FolderInv, TokensInv, FolderTypes,
           TokensHaveText, WithText, EndLoader, inputs, locals, artifacts
  <2>3. TokenizedSoFar'
    BY <1>7 DEF FolderInv, TokensInv, FolderTypes,
           TokenizedSoFar, WithText, EndLoader, inputs, locals, artifacts
  <2>4. TokenizedAll'
    BY <1>7 DEF FolderInv, TokensInv, FolderTypes,
           TokenizedAll, RerunRepairsTokens, WithText, EndLoader, inputs,
           locals, artifacts
  <2>5. LoadedSoFar'
    BY <1>7 DEF FolderInv, TokensInv, FolderTypes,
           LoadedSoFar, WithText, EndLoader, inputs, locals, artifacts
  <2>. QED BY <2>1, <2>2, <2>3, <2>4, <2>5 DEF TokensInv
<1>8. ASSUME Close PROVE TokensInv'
  <2>1. FolderTypes'
    BY <1>8 DEF FolderInv, TokensInv, FolderTypes, Close,
           NoTokens, TokenFiles, inputs, locals, artifacts
  <2>2. TokensHaveText'
    BY <1>8 DEF FolderInv, TokensInv, FolderTypes,
           TokensHaveText, WithText, Close, NoTokens, TokenFiles, inputs,
           locals, artifacts
  <2>3. TokenizedSoFar'
    BY <1>8 DEF FolderInv, TokensInv, FolderTypes,
           TokenizedSoFar, WithText, Close, NoTokens, TokenFiles, inputs,
           locals, artifacts
  <2>4. TokenizedAll'
    BY <1>8 DEF FolderInv, TokensInv, FolderTypes,
           TokenizedAll, RerunRepairsTokens, WithText, Close, NoTokens,
           TokenFiles, inputs, locals, artifacts
  <2>5. LoadedSoFar'
    BY <1>8 DEF FolderInv, TokensInv, FolderTypes,
           LoadedSoFar, WithText, Close, NoTokens, TokenFiles, inputs, locals,
           artifacts
  <2>. QED BY <2>1, <2>2, <2>3, <2>4, <2>5 DEF TokensInv
<1>9. ASSUME ProgramStopped PROVE TokensInv'
  <2>1. FolderTypes'
    <3>1. multiple_files' \in [there : BOOLEAN, documents : [Sources -> Nat]]
      BY <1>9, LossesAreTyped DEF FolderInv, TokensInv, FolderTypes, ProgramStopped
    <3>. QED BY <1>9, <3>1 DEF FolderInv, TokensInv, FolderTypes, ProgramStopped,
                NoTokens, TokenFiles
  <2>2. TokensHaveText'
    BY <1>9 DEF FolderInv, TokensInv, FolderTypes,
           TokensHaveText, WithText, ProgramStopped, ProgramFails, NoTokens,
           TokenFiles, locals
  <2>3. TokenizedSoFar'
    BY <1>9 DEF FolderInv, TokensInv, FolderTypes,
           TokenizedSoFar, WithText, ProgramStopped, ProgramFails, NoTokens,
           TokenFiles, locals
  <2>4. TokenizedAll'
    BY <1>9 DEF FolderInv, TokensInv, FolderTypes,
           TokenizedAll, RerunRepairsTokens, WithText, ProgramStopped,
           ProgramFails, NoTokens, TokenFiles, locals
  <2>5. LoadedSoFar'
    BY <1>9 DEF FolderInv, TokensInv, FolderTypes,
           LoadedSoFar, WithText, ProgramStopped, ProgramFails, NoTokens,
           TokenFiles, locals
  <2>. QED BY <2>1, <2>2, <2>3, <2>4, <2>5 DEF TokensInv
<1>10. ASSUME NEW s \in Sources, AddPaper(s) PROVE TokensInv'
  <2>1. FolderTypes'
    BY <1>10 DEF FolderInv, TokensInv, FolderTypes,
           AddPaper, locals, artifacts
  <2>2. TokensHaveText'
    BY <1>10 DEF FolderInv, TokensInv, FolderTypes,
           TokensHaveText, WithText, AddPaper, locals, artifacts
  <2>3. TokenizedSoFar'
    BY <1>10 DEF FolderInv, TokensInv, FolderTypes,
           TokenizedSoFar, WithText, AddPaper, locals, artifacts
  <2>4. TokenizedAll'
    BY <1>10 DEF FolderInv, TokensInv, FolderTypes,
           TokenizedAll, RerunRepairsTokens, WithText, AddPaper, locals,
           artifacts
  <2>5. LoadedSoFar'
    BY <1>10 DEF FolderInv, TokensInv, FolderTypes,
           LoadedSoFar, WithText, AddPaper, locals, artifacts
  <2>. QED BY <2>1, <2>2, <2>3, <2>4, <2>5 DEF TokensInv
<1>11. ASSUME OpenTable PROVE TokensInv'
  <2>1. at \notin WithTokens /\ at' \notin WithTokens
    BY <1>11 DEF OpenTable, WithTokens
  <2>2. multiple_files' \in [there : BOOLEAN, documents : [Sources -> Nat]]
    BY <1>11 DEF FolderInv, TokensInv, FolderTypes, OpenTable
  <2>. QED BY <1>11, <2>1, <2>2, TokensAside DEF FolderInv, OpenTable, inputs
<1>12. ASSUME WriteTable PROVE TokensInv'
  <2>1. at \notin WithTokens /\ at' \notin WithTokens
    BY <1>12, Goes DEF FolderInv, ScriptsInv, TargetsLeft, Indexing, WriteTable,
           ProgramFails, Went, WithTokens
  <2>2. multiple_files' \in [there : BOOLEAN, documents : [Sources -> Nat]]
    BY <1>12 DEF FolderInv, TokensInv, FolderTypes, WriteTable
  <2>. QED BY <1>12, <2>1, <2>2, TokensAside DEF FolderInv, WriteTable, inputs
<1>13. ASSUME CreateDatabase PROVE TokensInv'
  <2>1. at \notin WithTokens /\ at' \notin WithTokens
    BY <1>13 DEF CreateDatabase, ProgramFails, WithTokens
  <2>2. \/ multiple_files' = multiple_files
        \/ multiple_files' = [there |-> TRUE, documents |-> NoDocuments]
    BY <1>13 DEF CreateDatabase
  <2>3. NoDocuments \in [Sources -> Nat]
    BY DEF NoDocuments
  <2>4. multiple_files' \in [there : BOOLEAN, documents : [Sources -> Nat]]
    <3>1. CASE multiple_files' = multiple_files
      BY <3>1 DEF FolderInv, TokensInv, FolderTypes
    <3>2. CASE multiple_files' = [there |-> TRUE, documents |-> NoDocuments]
      BY <2>3, <3>2
    <3>. QED BY <2>2, <3>1, <3>2
  <2>. QED BY <1>13, <2>1, <2>4, TokensAside DEF FolderInv, CreateDatabase, inputs
<1>14. ASSUME CloseDatabase PROVE TokensInv'
  <2>1. at \notin WithTokens /\ at' \notin WithTokens
    BY <1>14 DEF CloseDatabase, WithTokens
  <2>2. multiple_files' \in [there : BOOLEAN, documents : [Sources -> Nat]]
    BY <1>14, LossesAreTyped DEF FolderInv, TokensInv, CloseDatabase
  <2>. QED BY <1>14, <2>1, <2>2, TokensAside DEF FolderInv, CloseDatabase, inputs
<1>15. ASSUME CrawlOpensTable PROVE TokensInv'
  <2>1. at \notin WithTokens /\ at' \notin WithTokens
    BY <1>15 DEF CrawlOpensTable, WithTokens, ProgramFails
  <2>2. multiple_files' \in [there : BOOLEAN, documents : [Sources -> Nat]]
    BY <1>15 DEF FolderInv, TokensInv, FolderTypes, CrawlOpensTable
  <2>. QED BY <1>15, <2>1, <2>2, TokensAside DEF FolderInv, CrawlOpensTable,
         inputs
<1>16. ASSUME CrawlWritesTable PROVE TokensInv'
  <2>1. at \notin WithTokens /\ at' \notin WithTokens
    BY <1>16, Goes DEF FolderInv, ScriptsInv, TargetsLeft, Indexing, CrawlWritesTable,
           ProgramFails, Went, WithTokens
  <2>2. multiple_files' \in [there : BOOLEAN, documents : [Sources -> Nat]]
    BY <1>16 DEF FolderInv, TokensInv, FolderTypes, CrawlWritesTable
  <2>. QED BY <1>16, <2>1, <2>2, TokensAside DEF FolderInv, CrawlWritesTable,
         inputs
<1>17. ASSUME RemoveDatabase PROVE TokensInv'
  <2>1. at \notin WithTokens /\ at' \notin WithTokens
    BY <1>17 DEF RemoveDatabase, WithTokens
  <2>2. multiple_files' \in [there : BOOLEAN, documents : [Sources -> Nat]]
    BY <1>17 DEF FolderInv, TokensInv, FolderTypes, RemoveDatabase, NoDocuments
  <2>. QED BY <1>17, <2>1, <2>2, TokensAside DEF FolderInv, RemoveDatabase,
         inputs
<1>18. ASSUME NEW what \in Scripts, RunScript(what) PROVE TokensInv'
  <2>1. at \notin WithTokens /\ at' \notin WithTokens
    BY <1>18, Starts DEF Started, WithTokens
  <2>2. multiple_files' \in [there : BOOLEAN, documents : [Sources -> Nat]]
    BY <1>18 DEF FolderInv, TokensInv, FolderTypes, RunScript, artifacts
  <2>. QED BY <1>18, <2>1, <2>2, TokensAside DEF FolderInv, RunScript, inputs,
         Begin
<1>19. ASSUME NEW s \in Sources, AddDocument(s) PROVE TokensInv'
  <2>1. at \notin WithTokens /\ at' \notin WithTokens
    BY <1>19 DEF AddDocument, WithTokens
  <2>2. multiple_files' \in [there : BOOLEAN, documents : [Sources -> Nat]]
    BY <1>19 DEF FolderInv, TokensInv, FolderTypes, AddDocument
  <2>. QED BY <1>19, <2>1, <2>2, TokensAside DEF FolderInv, AddDocument, inputs
<1>20. ASSUME NEW file \in Sources \cup Stems, TakeUp(file) PROVE TokensInv'
  <2>1. at \notin WithTokens /\ at' \notin WithTokens
    BY <1>20 DEF TakeUp, WithTokens, ProgramFails
  <2>2. multiple_files' \in [there : BOOLEAN, documents : [Sources -> Nat]]
    BY <1>20 DEF FolderInv, TokensInv, FolderTypes, TakeUp, artifacts
  <2>. QED BY <1>20, <2>1, <2>2, TokensAside DEF FolderInv, TakeUp, inputs
<1>21. ASSUME NEW s \in Sources, PassOver(s) PROVE TokensInv'
  <2>1. at \notin WithTokens /\ at' \notin WithTokens
    BY <1>21 DEF PassOver, WithTokens
  <2>2. multiple_files' \in [there : BOOLEAN, documents : [Sources -> Nat]]
    BY <1>21 DEF FolderInv, TokensInv, FolderTypes, PassOver, artifacts
  <2>. QED BY <1>21, <2>1, <2>2, TokensAside DEF FolderInv, PassOver, inputs
<1>22. ASSUME OpenCopy PROVE TokensInv'
  <2>1. at \notin WithTokens /\ at' \notin WithTokens
    BY <1>22 DEF OpenCopy, ProgramFails, WithTokens
  <2>2. multiple_files' \in [there : BOOLEAN, documents : [Sources -> Nat]]
    BY <1>22 DEF FolderInv, TokensInv, FolderTypes, OpenCopy
  <2>. QED BY <1>22, <2>1, <2>2, TokensAside DEF FolderInv, OpenCopy, inputs
<1>23. ASSUME EndCopy PROVE TokensInv'
  <2>1. at \notin WithTokens /\ at' \notin WithTokens
    BY <1>23, Goes DEF FolderInv, ScriptsInv, TargetsLeft, Indexing, EndCopy,
           ProgramFails, Went, WithTokens
  <2>2. multiple_files' \in [there : BOOLEAN, documents : [Sources -> Nat]]
    BY <1>23 DEF FolderInv, TokensInv, FolderTypes, EndCopy
  <2>. QED BY <1>23, <2>1, <2>2, TokensAside DEF FolderInv, EndCopy, inputs
<1>24. CASE UNCHANGED folder_vars
  BY <1>24 DEF FolderInv, TokensInv, FolderTypes, TokensHaveText,
         TokenizedSoFar, TokenizedAll, LoadedSoFar, RerunRepairsTokens,
         WithText, folder_vars, inputs, locals, artifacts
<1>. QED BY <1>1, <1>2, <1>3, <1>4, <1>5, <1>6, <1>7, <1>8, <1>9, <1>10, <1>11,
       <1>12, <1>13, <1>14, <1>15, <1>16, <1>17, <1>18, <1>19, <1>20, <1>21, <1>22,
       <1>23, <1>24 DEF FolderNext

-----------------------------------------------------------------------------
(* Scripts.                                                                *)

\* A step after which no target of run.sh is under way.
LEMMA ScriptsAside ==
    ASSUME at' \notin WithScript, targets' = <<>>
    PROVE  ScriptsInv'
BY DEF ScriptsInv, Indexing, IndexedSoFar, TableSoFar, TargetsLeft, ReadyForIndex, WithScript

LEMMA ScriptsStep == ASSUME FolderInv, [FolderNext]_folder_vars PROVE ScriptsInv'
<1>1. ASSUME NEW what \in Scripts, RunScript(what) PROVE ScriptsInv'
  <2>1. IndexedSoFar'
    BY <1>1, Starts DEF FolderInv, ScriptsInv, TokensInv, FolderTypes,
           Indexing, IndexedSoFar, WithText, RunScript, Begin, locals, artifacts, inputs,
           Started
  <2>2. TableSoFar'
    BY <1>1, Starts DEF FolderInv, ScriptsInv, TableSoFar, WithText, RunScript,
           Begin, locals, artifacts, inputs, Started
  <2>3. TargetsLeft'
    BY <1>1, Starts DEF FolderInv, ScriptsInv, TargetsLeft, Indexing, RunScript, Begin,
           locals, artifacts, inputs, Started
  <2>4. ReadyForIndex'
    BY <1>1, Starts DEF FolderInv, ScriptsInv, ReadyForIndex, Indexing, TableIsReady,
           WithText, RunScript, Begin, locals, artifacts, inputs, Started
  <2>. QED BY <2>1, <2>2, <2>3, <2>4 DEF ScriptsInv
<1>2. ASSUME OpenTable PROVE ScriptsInv'
  <2>1. IndexedSoFar'
    BY <1>2 DEF FolderInv, ScriptsInv, TokensInv,
           FolderTypes, Indexing, IndexedSoFar, WithText, OpenTable, inputs, Listing
  <2>2. TableSoFar'
    BY <1>2 DEF FolderInv, ScriptsInv, TableSoFar,
           WithText, OpenTable, inputs, Listing
  <2>3. TargetsLeft'
    BY <1>2 DEF FolderInv, ScriptsInv, TargetsLeft, Indexing,
           OpenTable, inputs, Listing
  <2>4. ReadyForIndex'
    BY <1>2 DEF FolderInv, ScriptsInv, ReadyForIndex, Indexing,
           TableIsReady, WithText, OpenTable, inputs, Listing
  <2>. QED BY <2>1, <2>2, <2>3, <2>4 DEF ScriptsInv
<1>3. ASSUME NEW file \in Sources \cup Stems, TakeUp(file) PROVE ScriptsInv'
  <2>1. IndexedSoFar'
    BY <1>3 DEF FolderInv, ScriptsInv, TokensInv,
           FolderTypes, Indexing, IndexedSoFar, WithText, TakeUp, Visit, ProgramFails,
           inputs, artifacts
  <2>2. TableSoFar'
    BY <1>3 DEF FolderInv, ScriptsInv, TableSoFar,
           WithText, TakeUp, Visit, ProgramFails, inputs, artifacts
  <2>3. TargetsLeft'
    BY <1>3 DEF FolderInv, ScriptsInv, TargetsLeft, Indexing,
           TakeUp, Visit, ProgramFails, inputs, artifacts
  <2>4. ReadyForIndex'
    BY <1>3 DEF FolderInv, ScriptsInv, ReadyForIndex, Indexing,
           TableIsReady, WithText, TakeUp, Visit, ProgramFails, inputs,
           artifacts
  <2>. QED BY <2>1, <2>2, <2>3, <2>4 DEF ScriptsInv
<1>4. ASSUME WriteTable PROVE ScriptsInv'
  <2>0. Went
    BY <1>4, Goes DEF FolderInv, ScriptsInv, TargetsLeft, Indexing,
         WriteTable
  <2>1. IndexedSoFar'
    BY <1>4, <2>0 DEF FolderInv, ScriptsInv, TokensInv, FolderTypes,
           Indexing, IndexedSoFar, WithText, WriteTable, inputs, locals, Went
  <2>2. TableSoFar'
    BY <1>4, <2>0 DEF FolderInv, ScriptsInv, TableSoFar, WithText, WriteTable,
           inputs, locals, Went
  <2>3. TargetsLeft'
    BY <1>4, <2>0 DEF FolderInv, ScriptsInv, TargetsLeft, Indexing, WriteTable, inputs,
           locals, Went
  <2>4. ReadyForIndex'
    BY <1>4, <2>0 DEF FolderInv, ScriptsInv, ReadyForIndex, Indexing, TableIsReady,
           WithText, TableSoFar, WriteTable, inputs, locals, Went
  <2>. QED BY <2>1, <2>2, <2>3, <2>4 DEF ScriptsInv
<1>5. ASSUME CreateDatabase PROVE ScriptsInv'
  <2>1. IndexedSoFar'
    BY <1>5 DEF FolderInv, ScriptsInv, TokensInv,
           FolderTypes, Indexing, IndexedSoFar, WithText, CreateDatabase, ProgramFails,
           NoDocuments, inputs
  <2>2. TableSoFar'
    BY <1>5 DEF FolderInv, ScriptsInv, TableSoFar,
           WithText, CreateDatabase, ProgramFails, NoDocuments, inputs
  <2>3. TargetsLeft'
    BY <1>5 DEF FolderInv, ScriptsInv, TargetsLeft, Indexing,
           CreateDatabase, ProgramFails, NoDocuments, inputs
  <2>4. ReadyForIndex'
    BY <1>5 DEF FolderInv, ScriptsInv, ReadyForIndex, Indexing,
           TableIsReady, WithText, CreateDatabase, ProgramFails, NoDocuments,
           inputs
  <2>. QED BY <2>1, <2>2, <2>3, <2>4 DEF ScriptsInv
<1>6. ASSUME NEW s \in Sources, AddDocument(s) PROVE ScriptsInv'
  <2>1. IndexedSoFar'
    BY <1>6 DEF FolderInv, ScriptsInv, TokensInv,
           FolderTypes, Indexing, IndexedSoFar, WithText, AddDocument, Visit, inputs
  <2>2. TableSoFar'
    BY <1>6 DEF FolderInv, ScriptsInv, TableSoFar,
           WithText, AddDocument, Visit, inputs
  <2>3. TargetsLeft'
    BY <1>6 DEF FolderInv, ScriptsInv, TargetsLeft, Indexing,
           AddDocument, Visit, inputs
  <2>4. ReadyForIndex'
    BY <1>6 DEF FolderInv, ScriptsInv, ReadyForIndex, Indexing,
           TableIsReady, WithText, AddDocument, Visit, inputs
  <2>. QED BY <2>1, <2>2, <2>3, <2>4 DEF ScriptsInv
<1>7. ASSUME NEW s \in Sources, PassOver(s) PROVE ScriptsInv'
  <2>1. IndexedSoFar'
    BY <1>7 DEF FolderInv, ScriptsInv, TokensInv, FolderTypes, Indexing,
           IndexedSoFar, WithText, PassOver, Visit, inputs, artifacts
  <2>2. TableSoFar'
    BY <1>7 DEF TableSoFar, PassOver
  <2>3. TargetsLeft'
    BY <1>7 DEF FolderInv, ScriptsInv, TargetsLeft, Indexing, PassOver
  <2>4. ReadyForIndex'
    BY <1>7 DEF FolderInv, ScriptsInv, ReadyForIndex, Indexing,
           TableIsReady, WithText, PassOver, inputs, artifacts
  <2>. QED BY <2>1, <2>2, <2>3, <2>4 DEF ScriptsInv
<1>8. ASSUME CrawlOpensTable PROVE ScriptsInv'
  <2>1. IndexedSoFar'
    BY <1>8 DEF FolderInv, ScriptsInv, TokensInv,
           FolderTypes, Indexing, IndexedSoFar, WithText, CrawlOpensTable, ProgramFails,
           inputs, locals
  <2>2. TableSoFar'
    BY <1>8 DEF FolderInv, ScriptsInv, TableSoFar,
           WithText, CrawlOpensTable, ProgramFails, inputs, locals
  <2>3. TargetsLeft'
    BY <1>8 DEF FolderInv, ScriptsInv, TargetsLeft, Indexing,
           CrawlOpensTable, ProgramFails, inputs, locals
  <2>4. ReadyForIndex'
    BY <1>8 DEF FolderInv, ScriptsInv, ReadyForIndex, Indexing,
           TableIsReady, WithText, CrawlOpensTable, ProgramFails, inputs, locals
  <2>. QED BY <2>1, <2>2, <2>3, <2>4 DEF ScriptsInv
<1>9. ASSUME CrawlWritesTable PROVE ScriptsInv'
  <2>1. targets = <<>>
    BY <1>9 DEF FolderInv, ScriptsInv, TargetsLeft, Indexing, CrawlWritesTable
  <2>2. at' = "shell" /\ targets' = <<>>
    BY <1>9, <2>1 DEF CrawlWritesTable, ProgramFails, ProgramReturns
  <2>. QED BY <2>2, ScriptsAside DEF WithScript, Indexing
<1>10. ASSUME RunTokenizer PROVE ScriptsInv'
  BY <1>10, ScriptsAside DEF FolderInv, ScriptsInv, TargetsLeft, WithScript, Indexing,
         RunTokenizer, Begin
<1>11. ASSUME NEW s \in Sources, Tokenize(s) PROVE ScriptsInv'
  BY <1>11, ScriptsAside DEF FolderInv, ScriptsInv, TargetsLeft, WithScript, Indexing,
         Tokenize
<1>12. ASSUME WriteTokens PROVE ScriptsInv'
  BY <1>12, ScriptsAside DEF FolderInv, ScriptsInv, TargetsLeft, WithScript, Indexing,
         WriteTokens
<1>13. ASSUME EndTokenizer PROVE ScriptsInv'
  BY <1>13, ScriptsAside DEF FolderInv, ScriptsInv, TargetsLeft, WithScript, Indexing,
         EndTokenizer
<1>14. ASSUME RunLoader PROVE ScriptsInv'
  BY <1>14, ScriptsAside DEF FolderInv, ScriptsInv, TargetsLeft, WithScript, Indexing,
         RunLoader, Begin
<1>15. ASSUME NEW t \in Stems, LoadTokens(t) PROVE ScriptsInv'
  BY <1>15, ScriptsAside DEF FolderInv, ScriptsInv, TargetsLeft, WithScript, Indexing,
         LoadTokens
<1>16. ASSUME EndLoader PROVE ScriptsInv'
  BY <1>16, ScriptsAside DEF FolderInv, ScriptsInv, TargetsLeft, WithScript, Indexing,
         EndLoader
<1>17. ASSUME Close PROVE ScriptsInv'
  BY <1>17, ScriptsAside DEF FolderInv, ScriptsInv, TargetsLeft, WithScript, Indexing,
         Close
<1>18. ASSUME ProgramStopped PROVE ScriptsInv'
  BY <1>18, ScriptsAside DEF FolderInv, ScriptsInv, TargetsLeft, WithScript, Indexing,
         ProgramStopped, ProgramFails
<1>19. ASSUME NEW s \in Sources, AddPaper(s) PROVE ScriptsInv'
  BY <1>19, ScriptsAside DEF FolderInv, ScriptsInv, TargetsLeft, WithScript, Indexing,
         AddPaper
<1>20. ASSUME RemoveDatabase PROVE ScriptsInv'
  BY <1>20, ScriptsAside DEF FolderInv, ScriptsInv, TargetsLeft, WithScript, Indexing,
         RemoveDatabase
<1>21. ASSUME CloseDatabase PROVE ScriptsInv'
  <2>1. IndexedSoFar'
    <3>1. PICK lost \in SUBSET Added :
              multiple_files' = DocumentsWithout(lost) /\ missed' = missed \cup lost
      BY <1>21 DEF CloseDatabase
    <3>2. \A s \in Sources : multiple_files'.documents[s] =
                               IF s \in lost THEN 0 ELSE multiple_files.documents[s]
      BY <3>1, LossesAreTyped DEF FolderInv, TokensInv
    <3>3. at = "index" /\ at' = "compact" /\ todo = {} /\ UNCHANGED <<folder, todo>>
      BY <1>21 DEF CloseDatabase, inputs
    <3>4. ASSUME NEW s \in Sources
          PROVE  multiple_files'.documents[s] =
                     IF s \in WithText' \ missed' /\ s \notin todo' THEN 1 ELSE 0
      <4>1. multiple_files.documents[s] = IF s \in WithText \ missed THEN 1 ELSE 0
        BY <3>3 DEF FolderInv, ScriptsInv, Indexing, IndexedSoFar
      <4>2. multiple_files'.documents[s] = IF s \in lost THEN 0 ELSE multiple_files.documents[s]
        BY <3>2
      <4>3. WithText' = WithText /\ todo' = {} /\ missed' = missed \cup lost
        BY <3>1, <3>3 DEF WithText
      <4>. QED BY <4>1, <4>2, <4>3
    <3>5. todo' = {}
      BY <3>3
    <3>. QED BY <3>4, <3>5 DEF IndexedSoFar
  <2>2. TableSoFar'
    BY <1>21 DEF TableSoFar, CloseDatabase
  <2>3. TargetsLeft'
    BY <1>21 DEF FolderInv, ScriptsInv, TargetsLeft, Indexing, CloseDatabase
  <2>4. ReadyForIndex'
    BY <1>21 DEF FolderInv, ScriptsInv, ReadyForIndex, Indexing,
           TableIsReady, WithText, CloseDatabase, inputs
  <2>. QED BY <2>1, <2>2, <2>3, <2>4 DEF ScriptsInv
<1>22. ASSUME OpenCopy PROVE ScriptsInv'
  <2>1. IndexedSoFar'
    BY <1>22 DEF FolderInv, ScriptsInv, Indexing,
           IndexedSoFar, WithText, OpenCopy, ProgramFails, inputs, locals
  <2>2. TableSoFar'
    BY <1>22 DEF TableSoFar, OpenCopy, ProgramFails
  <2>3. TargetsLeft'
    BY <1>22 DEF FolderInv, ScriptsInv, TargetsLeft, Indexing, OpenCopy, ProgramFails
  <2>4. ReadyForIndex'
    BY <1>22 DEF FolderInv, ScriptsInv, ReadyForIndex, Indexing,
           TableIsReady, WithText, OpenCopy, ProgramFails, inputs
  <2>. QED BY <2>1, <2>2, <2>3, <2>4 DEF ScriptsInv
<1>23. ASSUME EndCopy PROVE ScriptsInv'
  <2>0. at = "copy" /\ (targets = <<>> \/ targets = <<"crawl">>)
    BY <1>23 DEF FolderInv, ScriptsInv, TargetsLeft, Indexing, EndCopy
  <2>1. at' \in {"shell", "crawl"} /\ targets' = <<>>
    BY <1>23, <2>0, Goes DEF EndCopy, ProgramFails, Went
  <2>. QED BY <2>1 DEF ScriptsInv, Indexing, IndexedSoFar, TableSoFar, TargetsLeft,
              ReadyForIndex
<1>24. CASE UNCHANGED folder_vars
  BY <1>24 DEF FolderInv, ScriptsInv, Indexing, IndexedSoFar, TableSoFar, TargetsLeft,
         ReadyForIndex, Indexing, TableIsReady, WithText, PaperIn, folder_vars, inputs,
         locals, artifacts
<1>. QED BY <1>1, <1>2, <1>3, <1>4, <1>5, <1>6, <1>7, <1>8, <1>9, <1>10, <1>11,
       <1>12, <1>13, <1>14, <1>15, <1>16, <1>17, <1>18, <1>19, <1>20, <1>21, <1>22,
       <1>23, <1>24 DEF FolderNext

-----------------------------------------------------------------------------
(* The theorems.                                                           *)

LEMMA FolderStarts == ASSUME FolderInit PROVE FolderInv
<1>1. TokensInv
  BY PaperFolderAssumption
     DEF FolderInit, TokensInv, FolderTypes, TokensHaveText, TokenizedSoFar, TokenizedAll,
         LoadedSoFar, NoTokens, NoDocuments, TokenFiles, Stems, Numbered
<1>2. ScriptsInv
  BY DEF FolderInit, ScriptsInv, Indexing, IndexedSoFar, TableSoFar, TargetsLeft, ReadyForIndex
<1>. QED BY <1>1, <1>2 DEF FolderInv

\* The programs, in any order and each stopped anywhere, keep the invariant:
\* what they leave of tokens, tables and database is what they still have to do.
THEOREM FolderInvariant == FolderSpec => []FolderInv
<1>1. FolderInit => FolderInv
  BY FolderStarts
<1>2. FolderInv /\ [FolderNext]_folder_vars => FolderInv'
  BY TokensStep, ScriptsStep DEF FolderInv
<1>. QED BY <1>1, <1>2, PTL DEF FolderSpec

\* A run of the tokenizer that has ended without a failure leaves whole tokens
\* beside every paper with text, whatever runs before it have left.
THEOREM TokensAreRepaired == FolderSpec => []RerunRepairsTokens
<1>1. FolderInv => RerunRepairsTokens
  BY DEF FolderInv, TokensInv, TokenizedAll, RerunRepairsTokens
<1>. QED BY <1>1, FolderInvariant, PTL

\* What the main program loads after such a run is whole.
THEOREM LoadsAreWhole == FolderSpec => []LoadAfterRepairIsWhole
<1>1. FolderInv => LoadAfterRepairIsWhole
  BY DEF FolderInv, TokensInv, LoadedSoFar, LoadAfterRepairIsWhole
<1>. QED BY <1>1, FolderInvariant, PTL

\* A database that is finished has each paper with text once, except those the
\* same run has left out,
HandsOnWhole ==
    database' # database /\ database'.finished =>
        /\ database'.documents = [s \in Sources |-> IF s \in WithText \ missed THEN 1 ELSE 0]
        /\ script = All =>
              /\ table.maker = "tree_maker" /\ table.finished
              /\ \A s \in WithText : PaperIn(s) # NoPaper => s \in table.files

\* and "all" does not go on without it.
GoesOnWithWhole == script' = All /\ at' = "crawl" => database'.finished

LEMMA CopyIsWhole ==
    ASSUME FolderInv, FolderNext, database' # database, database'.finished
    PROVE  HandsOnWhole
<1>1. EndCopy
  <2>1. ~OpenCopy
    BY DEF OpenCopy
  <2>. QED BY <2>1
     DEF FolderNext, RunTokenizer, WriteTokens, EndTokenizer, RunLoader, EndLoader, Close,
         OpenTable, WriteTable, CreateDatabase, CloseDatabase, CrawlOpensTable,
         CrawlWritesTable, ProgramStopped, RemoveDatabase, RunScript, Tokenize, PassOver,
         AddDocument, AddPaper, LoadTokens, TakeUp, artifacts
<1>2. at = "copy" /\ database'.documents = multiple_files.documents
  BY <1>1 DEF EndCopy
<1>3. multiple_files.documents = [s \in Sources |-> IF s \in WithText \ missed THEN 1 ELSE 0]
  <2>1. multiple_files.documents \in [Sources -> Nat]
    BY DEF FolderInv, TokensInv, FolderTypes
  <2>2. \A s \in Sources :
            multiple_files.documents[s] = IF s \in WithText \ missed THEN 1 ELSE 0
    BY <1>2 DEF FolderInv, ScriptsInv, Indexing, IndexedSoFar
  <2>. QED BY <2>1, <2>2
<1>4. script = All => TableIsReady
  BY <1>2 DEF FolderInv, ScriptsInv, ReadyForIndex, Indexing
<1>. QED BY <1>2, <1>3, <1>4 DEF HandsOnWhole, TableIsReady

LEMMA OnlyWholeGoesOn == ASSUME FolderInv, FolderNext PROVE GoesOnWithWhole
<1>. SUFFICES ASSUME script' = All, at' = "crawl" PROVE database'.finished
  BY DEF GoesOnWithWhole
<1>1. CASE EndCopy
  BY <1>1 DEF EndCopy, ProgramFails
<1>2. ~WriteTable
  <2>. SUFFICES ASSUME WriteTable PROVE FALSE
    OBVIOUS
  <2>1. targets = <<>> \/ targets = <<"index_for_xapian", "crawl">>
    BY DEF FolderInv, ScriptsInv, TargetsLeft, WriteTable
  <2>2. targets # <<"crawl">>
    BY <2>1
  <2>. QED BY <2>1, <2>2, Goes DEF WriteTable, Went
<1>3. ~CrawlWritesTable
  BY DEF FolderInv, ScriptsInv, TargetsLeft, Indexing, CrawlWritesTable, ProgramFails,
         ProgramReturns
<1>4. ~\E what \in Scripts : RunScript(what)
  BY Starts DEF Started
<1>5. at = "crawl" => CrawlOpensTable \/ ProgramStopped
  BY DEF FolderNext, RunTokenizer, WriteTokens, EndTokenizer, RunLoader, EndLoader, Close,
         OpenTable, WriteTable, CreateDatabase, CloseDatabase, OpenCopy, EndCopy,
         CrawlWritesTable, RemoveDatabase, RunScript, Tokenize, PassOver,
         AddDocument, AddPaper, LoadTokens, TakeUp, Begin
<1>6. at # "crawl"
  BY <1>5 DEF CrawlOpensTable, ProgramStopped, ProgramFails
<1>7. EndCopy
  BY <1>2, <1>3, <1>4, <1>6
     DEF FolderNext, RunTokenizer, WriteTokens, EndTokenizer, RunLoader, EndLoader, Close,
         OpenTable, CreateDatabase, CloseDatabase, OpenCopy, CrawlOpensTable,
         ProgramStopped, ProgramFails, RemoveDatabase, Tokenize, PassOver,
         AddDocument, AddPaper, LoadTokens, TakeUp, Begin
<1>. QED BY <1>1, <1>7

\* The database that run.sh hands on has each paper once that the run has not
\* left out, and agrees with the table of the same run; and "all" does not go on
\* without such a database.
THEOREM DatabasesAreWhole == FolderSpec => DatabaseIsHandedOnWhole
<1>1. FolderInv /\ [FolderNext]_folder_vars =>
          (HandsOnWhole /\ GoesOnWithWhole) \/ UNCHANGED folder_vars
  BY CopyIsWhole, OnlyWholeGoesOn DEF HandsOnWhole
<1>2. FolderSpec => [][HandsOnWhole /\ GoesOnWithWhole]_folder_vars
  BY <1>1, FolderInvariant, PTL DEF FolderSpec
<1>. QED BY <1>2, PTL DEF DatabaseIsHandedOnWhole, HandsOnWhole, GoesOnWithWhole

-----------------------------------------------------------------------------
(* The tools side by side.                                                 *)

\* Whichever tools are used, each of the three groups only does what it would
\* do by itself, and the others do nothing to its state.
LEMMA ToolsStandAlone == HelperSpec => Spec /\ DownloaderSpec /\ FolderSpec
<1>1. HelperInit => Init /\ DownloaderInit /\ FolderInit
  BY DEF HelperInit
<1>2. [HelperNext]_everything => [Next]_vars
  BY DEF HelperNext, UseCrawler, UseDownloader, UseFolder, everything, crawl
<1>3. [HelperNext]_everything => [DownloaderNext]_downloader_vars
  BY DEF HelperNext, UseCrawler, UseDownloader, UseFolder, everything, crawl
<1>4. [HelperNext]_everything => [FolderNext]_folder_vars
  BY DEF HelperNext, UseCrawler, UseDownloader, UseFolder, everything, crawl
<1>. QED BY <1>1, <1>2, <1>3, <1>4, PTL DEF HelperSpec, Spec, DownloaderSpec, FolderSpec

\* Used side by side, in whatever order the user starts them, the tools keep to
\* all that the theorems say of each.
THEOREM ToolsAreCorrect ==
    HelperSpec => /\ [](ClustersAreComponents /\ CreditsAreKept)
                  /\ [](NamesAreConsistent /\ PapersNameTheirAuthors)
                  /\ [](NoPaperIsOverlooked /\ CutFilesHaveACause)
                  /\ [](RerunRepairsTokens /\ LoadAfterRepairIsWhole)
                  /\ CompletePapersAreKept /\ DatabaseIsHandedOnWhole
<1>1. Spec => [](ClustersAreComponents /\ CreditsAreKept)
  BY ClustersCorrect, CreditsKept, PTL
<1>2. Spec => [](NamesAreConsistent /\ PapersNameTheirAuthors)
  BY NamesConsistent, PapersNamed, PTL
<1>3. DownloaderSpec => [](NoPaperIsOverlooked /\ CutFilesHaveACause)
  BY LinesAreNotOverlooked, FailedFetchesLeaveNothing, PTL
<1>4. FolderSpec => [](RerunRepairsTokens /\ LoadAfterRepairIsWhole)
  BY TokensAreRepaired, LoadsAreWhole, PTL
<1>. QED
  BY <1>1, <1>2, <1>3, <1>4, ToolsStandAlone, WholeCopiesStay, DatabasesAreWhole, PTL

-----------------------------------------------------------------------------
(* FindAuthor of equivalent_names.cpp.                                     *)

Forests(N) == {p \in [1 .. N -> 1 .. N] : Forest(p)}

\* The pairs of places in a list whose names are like each other
AlikeAt(names) ==
    {ij \in (1 .. Len(names)) \X (1 .. Len(names)) : SameByInitials(names[ij[1]], names[ij[2]])}

LEMMA AlikeAre ==
    ASSUME NEW names, NEW i, NEW j
    PROVE  <<i, j>> \in AlikeAt(names) <=>
              i \in 1 .. Len(names) /\ j \in 1 .. Len(names) /\ SameByInitials(names[i], names[j])
<1>. DEFINE Alike(a, b) == SameByInitials(names[a], names[b])
            D == 1 .. Len(names)
<1>1. AlikeAt(names) = {ij \in D \X D : Alike(ij[1], ij[2])}
  BY DEF AlikeAt
<1>. HIDE DEF D, Alike
<1>2. <<i, j>> \in AlikeAt(names) <=> i \in D /\ j \in D /\ Alike(i, j)
  BY <1>1
<1>. QED BY <1>2 DEF D, Alike

IsMutual(R) == \A i, j : <<i, j>> \in R => <<j, i>> \in R

\* What is closed under R is left by no tree that has a part of it.
Stays(p, R) ==
    \A C \in SUBSET DOMAIN p :
        (\A i \in C, j \in DOMAIN p : <<i, j>> \in R => j \in C)
            => \A i \in C, j \in DOMAIN p : Root(p, i) = Root(p, j) => j \in C

KeepsTrees(p, q) ==
    \A i, j \in DOMAIN p : Root(p, i) = Root(p, j) => Root(q, i) = Root(q, j)

\* Uniting two names that are alike is sound.
LEMMA UniteIsSound ==
    ASSUME NEW N \in Nat, NEW p \in Forests(N), NEW R, IsMutual(R),
           NEW i \in 1 .. N, NEW j \in 1 .. N, <<i, j>> \in R,
           NEW q, q = Unite(p, i, j)
    PROVE  /\ q \in Forests(N) /\ KeepsTrees(p, q) /\ Root(q, i) = Root(q, j)
           /\ Stays(p, R) => Stays(q, R)
<1>1. Forest(p) /\ DOMAIN p = 1 .. N
  BY DEF Forests
<1>2. /\ Forest(q) /\ DOMAIN q = 1 .. N
      /\ \A k \in 1 .. N : Root(q, k) = IF Root(p, k) = Root(p, i) THEN Root(p, j) ELSE Root(p, k)
  <2>1. i \in DOMAIN p /\ j \in DOMAIN p
    BY <1>1
  <2>2. /\ Forest(Unite(p, i, j)) /\ DOMAIN Unite(p, i, j) = DOMAIN p
        /\ \A k \in DOMAIN p : Root(Unite(p, i, j), k) =
              IF Root(p, k) = Root(p, i) THEN Root(p, j) ELSE Root(p, k)
    BY <1>1, <2>1, UniteJoins
  <2>. QED BY <1>1, <2>2
<1>3. q \in Forests(N)
  <2>1. q \in [1 .. N -> 1 .. N]
    BY <1>2 DEF Forest, Rooted
  <2>. QED BY <1>2, <2>1 DEF Forests
<1>4. KeepsTrees(p, q) /\ Root(q, i) = Root(q, j)
  BY <1>1, <1>2 DEF KeepsTrees
<1>5. ASSUME Stays(p, R) PROVE Stays(q, R)
  <2>1. SUFFICES ASSUME NEW C \in SUBSET 1 .. N,
                        \A a \in C, b \in 1 .. N : <<a, b>> \in R => b \in C,
                        NEW a \in C, NEW b \in 1 .. N, Root(q, a) = Root(q, b)
                 PROVE  b \in C
    BY <1>2 DEF Stays
  <2>2. \A c \in C, d \in 1 .. N : Root(p, c) = Root(p, d) => d \in C
    BY <1>1, <1>5, <2>1 DEF Stays
  <2>3. i \in C <=> j \in C
    BY <2>1 DEF IsMutual
  <2>4. CASE Root(p, a) = Root(p, b)
    BY <2>2, <2>4
  <2>5. CASE Root(p, a) # Root(p, b)
    <3>1. \/ Root(p, a) = Root(p, i) /\ Root(p, b) = Root(p, j)
          \/ Root(p, b) = Root(p, i) /\ Root(p, a) = Root(p, j)
      BY <1>2, <2>1, <2>5
    <3>2. CASE Root(p, a) = Root(p, i) /\ Root(p, b) = Root(p, j)
      BY <2>2, <2>3, <3>2
    <3>3. CASE Root(p, b) = Root(p, i) /\ Root(p, a) = Root(p, j)
      BY <2>2, <2>3, <3>3
    <3>. QED BY <3>1, <3>2, <3>3
  <2>. QED BY <2>4, <2>5
<1>. QED BY <1>3, <1>4, <1>5

\* joined[j]: the forest after name i is compared with the first j names
InnerLoop(joined, names, p, i) ==
    LET N == Len(names)
    IN  /\ joined[0] = p
        /\ \A j \in 1 .. N :
              joined[j] = IF i < j /\ SameByInitials(names[i], names[j])
                          THEN Unite(joined[j - 1], i, j) ELSE joined[j - 1]
        /\ CompareWithLater(names, p, i) = joined[N]

LEMMA InnerLoopRuns ==
    ASSUME NEW X, NEW names \in Seq(X), NEW p \in Forests(Len(names)), NEW i \in 1 .. Len(names)
    PROVE  \E joined : InnerLoop(joined, names, p, i)
<1>. DEFINE N == Len(names)
            V == Forests(N)
            next(j, y) == IF i < j /\ SameByInitials(names[i], names[j]) THEN Unite(y, i, j) ELSE y
            advance == [z \in (1 .. N) \X V |-> next(z[1], z[2])]
            Solves(y) == y = [j \in 0 .. N |-> IF j = 0 THEN p ELSE next(j, y[j - 1])]
<1>1. N \in Nat
  BY LenProperties
<1>2. ASSUME NEW j \in 1 .. N, NEW y \in V PROVE next(j, y) \in V
  <2>1. Unite(y, i, j) \in V
    <3>1. Forest(y) /\ DOMAIN y = 1 .. N
      BY DEF Forests
    <3>2. Forest(Unite(y, i, j)) /\ DOMAIN Unite(y, i, j) = 1 .. N
      BY <3>1, UniteJoins
    <3>3. Unite(y, i, j) \in [1 .. N -> 1 .. N]
      BY <3>2 DEF Forest, Rooted
    <3>. QED BY <3>2, <3>3 DEF Forests
  <2>. QED BY <2>1
<1>3. advance \in [(1 .. N) \X V -> V]
  <2>1. \A z \in (1 .. N) \X V : next(z[1], z[2]) \in V
    BY <1>2
  <2>. HIDE DEF next, V, N
  <2>. QED BY <2>1
<1>4. PICK g \in [0 .. N -> V] : Recursive(g, N, p, advance)
  <2>1. p \in V
    OBVIOUS
  <2>. HIDE DEF N, V, advance
  <2>. QED BY <1>1, <1>3, <2>1, Recursion
<1>5. ASSUME NEW k \in 1 .. N PROVE k - 1 \in 0 .. N /\ k # 0 /\ g[k] = next(k, g[k - 1])
  <2>1. k - 1 \in 0 .. N /\ k # 0 /\ g[k - 1] \in V
    BY <1>1
  <2>2. g[k] = advance[<<k, g[k - 1]>>]
    BY <1>4 DEF Recursive
  <2>. HIDE DEF next, V, N
  <2>. QED BY <2>1, <2>2
<1>6. Solves(g)
  <2>1. \A k \in 0 .. N : k = 0 \/ k \in 1 .. N
    BY <1>1
  <2>. HIDE DEF next, V, N
  <2>. QED BY <1>4, <1>5, <2>1 DEF Recursive
<1>. DEFINE joined == CHOOSE y : Solves(y)
<1>7. Solves(joined)
  BY <1>6
<1>8. CompareWithLater(names, p, i) = joined[N]
  BY DEF CompareWithLater
<1>9. joined[0] = p /\ \A k \in 1 .. N : joined[k] = next(k, joined[k - 1])
  <2>1. 0 \in 0 .. N /\ \A k \in 1 .. N : k \in 0 .. N /\ k # 0
    BY <1>1
  <2>. HIDE DEF joined, next, N
  <2>. QED BY <1>7, <2>1
<1>10. InnerLoop(joined, names, p, i)
  <2>. HIDE DEF joined
  <2>. QED BY <1>8, <1>9 DEF InnerLoop
<1>. QED BY <1>10

\* A turn of the outer loop leaves a sound forest, that has name i with all later
\* names like it.
Turned(p, q, names, R, i) ==
    /\ q \in Forests(Len(names)) /\ KeepsTrees(p, q)
    /\ Stays(p, R) => Stays(q, R)
    /\ \A j \in 1 .. Len(names) : i < j /\ <<i, j>> \in R => Root(q, i) = Root(q, j)

LEMMA InnerLoopIsSound ==
    ASSUME NEW X, NEW names \in Seq(X), IsMutual(AlikeAt(names)),
           NEW p \in Forests(Len(names)), NEW i \in 1 .. Len(names)
    PROVE  Turned(p, CompareWithLater(names, p, i), names, AlikeAt(names), i)
<1>. DEFINE N == Len(names)
            R == AlikeAt(names)
<1>1. N \in Nat /\ DOMAIN names = 1 .. N
  BY LenProperties
<1>2. PICK joined : InnerLoop(joined, names, p, i)
  BY InnerLoopRuns
<1>. DEFINE Good(k) ==
                /\ joined[k] \in Forests(N) /\ KeepsTrees(p, joined[k])
                /\ Stays(p, R) => Stays(joined[k], R)
                /\ \A j \in 1 .. N : j <= k /\ i < j /\ <<i, j>> \in R
                        => Root(joined[k], i) = Root(joined[k], j)
            T == {k \in Nat : k <= N => Good(k)}
<1>3. 0 \in T
  <2>1. joined[0] = p
    BY <1>2 DEF InnerLoop
  <2>2. \A j \in 1 .. N : ~(j <= 0)
    OBVIOUS
  <2>3. KeepsTrees(p, joined[0])
    BY <2>1 DEF KeepsTrees
  <2>4. joined[0] \in Forests(N) /\ (Stays(p, R) => Stays(joined[0], R))
    BY <2>1
  <2>. HIDE DEF N, R
  <2>5. \A j \in 1 .. N : j <= 0 /\ i < j /\ <<i, j>> \in R
            => Root(joined[0], i) = Root(joined[0], j)
    BY <2>2
  <2>. QED BY <2>3, <2>4, <2>5
<1>4. ASSUME NEW k \in Nat, k \in T PROVE k + 1 \in T
  <2>1. SUFFICES ASSUME k + 1 <= N PROVE Good(k + 1)
    OBVIOUS
  <2>2. k <= N /\ k + 1 \in 1 .. N /\ k + 1 - 1 = k
    BY <1>1, <2>1
  <2>. DEFINE u == joined[k]
              v == joined[k + 1]
  <2>3. /\ u \in Forests(N) /\ KeepsTrees(p, u) /\ (Stays(p, R) => Stays(u, R))
        /\ \A j \in 1 .. N : j <= k /\ i < j /\ <<i, j>> \in R => Root(u, i) = Root(u, j)
    BY <1>4, <2>2
  <2>4. v = IF i < k + 1 /\ SameByInitials(names[i], names[k + 1]) THEN Unite(u, i, k + 1) ELSE u
    BY <1>2, <2>2 DEF InnerLoop
  <2>5. <<i, k + 1>> \in R <=> SameByInitials(names[i], names[k + 1])
    BY <1>1, <2>2, AlikeAre
  <2>6. \A j \in 1 .. N : j <= k + 1 => j <= k \/ j = k + 1
    OBVIOUS
  <2>7. DOMAIN p = 1 .. N /\ DOMAIN u = 1 .. N
    BY <2>3 DEF Forests
  <2>. HIDE DEF u, v, N, R
  <2>8. CASE i < k + 1 /\ <<i, k + 1>> \in R
    <3>1. v = Unite(u, i, k + 1) /\ i \in 1 .. N
      BY <2>4, <2>5, <2>8 DEF N
    <3>2. /\ v \in Forests(N) /\ KeepsTrees(u, v) /\ Root(v, i) = Root(v, k + 1)
          /\ Stays(u, R) => Stays(v, R)
      BY <1>1, <2>2, <2>3, <2>8, <3>1, UniteIsSound DEF R
    <3>3. KeepsTrees(p, v)
      BY <2>3, <2>7, <3>2 DEF KeepsTrees
    <3>4. \A j \in 1 .. N : j <= k + 1 /\ i < j /\ <<i, j>> \in R => Root(v, i) = Root(v, j)
      BY <2>3, <2>6, <2>7, <3>1, <3>2 DEF KeepsTrees
    <3>. QED BY <2>3, <3>2, <3>3, <3>4 DEF v, N, R
  <2>9. CASE ~(i < k + 1 /\ <<i, k + 1>> \in R)
    <3>1. v = u
      BY <2>4, <2>5, <2>9
    <3>2. \A j \in 1 .. N : j <= k + 1 /\ i < j /\ <<i, j>> \in R => Root(v, i) = Root(v, j)
      BY <2>3, <2>6, <2>9, <3>1
    <3>. QED BY <2>3, <3>1, <3>2 DEF v, N, R
  <2>. QED BY <2>8, <2>9
<1>5. Good(N)
  <2>1. Nat \subseteq T
    <3>. HIDE DEF T
    <3>. QED BY <1>3, <1>4, Induction
  <2>2. N \in T /\ N <= N
    BY <1>1, <2>1
  <2>. HIDE DEF Good
  <2>. QED BY <2>2
<1>6. \A j \in 1 .. N : j <= N
  BY <1>1
<1>7. CompareWithLater(names, p, i) = joined[N]
  BY <1>2 DEF InnerLoop
<1>. QED BY <1>5, <1>6, <1>7 DEF Turned

\* united[i]: the forest after the first i turns
OuterLoop(united, names) ==
    /\ united[0] = UpTo(Len(names))
    /\ \A i \in 1 .. Len(names) : united[i] = CompareWithLater(names, united[i - 1], i)
    /\ UniteAll(names) = united[Len(names)]

LEMMA LoneNamesAreSound ==
    ASSUME NEW N \in Nat, NEW R
    PROVE  UpTo(N) \in Forests(N) /\ Stays(UpTo(N), R)
<1>. DEFINE p == UpTo(N)
<1>1. p = [i \in 1 .. N |-> i] /\ Len(p) = N /\ p \in [1 .. N -> 1 .. N] /\ DOMAIN p = 1 .. N
  BY DEF UpTo
<1>. HIDE DEF p
<1>2. Forest(p) /\ \A i \in 1 .. N : Root(p, i) = i
  BY <1>1, LoneNames
<1>3. p \in Forests(N)
  BY <1>1, <1>2 DEF Forests
<1>4. Stays(p, R)
  BY <1>1, <1>2 DEF Stays
<1>. QED BY <1>3, <1>4 DEF p

LEMMA OuterLoopRuns ==
    ASSUME NEW X, NEW names \in Seq(X), IsMutual(AlikeAt(names))
    PROVE  \E united : OuterLoop(united, names)
<1>. DEFINE N == Len(names)
            V == Forests(N)
            next(i, y) == CompareWithLater(names, y, i)
            advance == [z \in (1 .. N) \X V |-> next(z[1], z[2])]
            Solves(y) == y = [i \in 0 .. N |-> IF i = 0 THEN UpTo(N) ELSE next(i, y[i - 1])]
<1>1. N \in Nat
  BY LenProperties
<1>2. ASSUME NEW i \in 1 .. N, NEW y \in V PROVE next(i, y) \in V
  BY InnerLoopIsSound DEF Turned
<1>3. advance \in [(1 .. N) \X V -> V]
  <2>1. \A z \in (1 .. N) \X V : next(z[1], z[2]) \in V
    BY <1>2
  <2>. HIDE DEF next, V, N
  <2>. QED BY <2>1
<1>4. PICK g \in [0 .. N -> V] : Recursive(g, N, UpTo(N), advance)
  <2>1. UpTo(N) \in V
    BY <1>1, LoneNamesAreSound
  <2>. HIDE DEF N, V, advance
  <2>. QED BY <1>1, <1>3, <2>1, Recursion
<1>5. ASSUME NEW k \in 1 .. N PROVE k - 1 \in 0 .. N /\ k # 0 /\ g[k] = next(k, g[k - 1])
  <2>1. k - 1 \in 0 .. N /\ k # 0 /\ g[k - 1] \in V
    BY <1>1
  <2>2. g[k] = advance[<<k, g[k - 1]>>]
    BY <1>4 DEF Recursive
  <2>. HIDE DEF next, V, N
  <2>. QED BY <2>1, <2>2
<1>6. Solves(g)
  <2>1. \A k \in 0 .. N : k = 0 \/ k \in 1 .. N
    BY <1>1
  <2>. HIDE DEF next, V, N
  <2>. QED BY <1>4, <1>5, <2>1 DEF Recursive
<1>. DEFINE united == CHOOSE y : Solves(y)
<1>7. Solves(united)
  BY <1>6
<1>8. UniteAll(names) = united[N]
  BY DEF UniteAll
<1>9. united[0] = UpTo(N) /\ \A k \in 1 .. N : united[k] = next(k, united[k - 1])
  <2>1. 0 \in 0 .. N /\ \A k \in 1 .. N : k \in 0 .. N /\ k # 0
    BY <1>1
  <2>. HIDE DEF united, next, N
  <2>. QED BY <1>7, <2>1
<1>10. OuterLoop(united, names)
  <2>. HIDE DEF united
  <2>. QED BY <1>8, <1>9 DEF OuterLoop
<1>. QED BY <1>10

\* The trees of UniteAll are the components of likeness.
United(q, names, R) ==
    /\ q \in Forests(Len(names)) /\ Stays(q, R)
    /\ \A i, j \in 1 .. Len(names) : <<i, j>> \in R => Root(q, i) = Root(q, j)

LEMMA AllAreUnited ==
    ASSUME NEW X, NEW names \in Seq(X), IsMutual(AlikeAt(names))
    PROVE  United(UniteAll(names), names, AlikeAt(names))
<1>. DEFINE N == Len(names)
            R == AlikeAt(names)
<1>1. N \in Nat
  BY LenProperties
<1>2. PICK united : OuterLoop(united, names)
  BY OuterLoopRuns
<1>. DEFINE Good(k) ==
                /\ united[k] \in Forests(N) /\ Stays(united[k], R)
                /\ \A i, j \in 1 .. N : i <= k /\ i < j /\ <<i, j>> \in R
                        => Root(united[k], i) = Root(united[k], j)
            T == {k \in Nat : k <= N => Good(k)}
<1>3. 0 \in T
  <2>1. united[0] = UpTo(N)
    BY <1>2 DEF OuterLoop
  <2>2. \A i \in 1 .. N : ~(i <= 0)
    OBVIOUS
  <2>3. united[0] \in Forests(N) /\ Stays(united[0], R)
    BY <1>1, <2>1, LoneNamesAreSound
  <2>. QED BY <2>2, <2>3
<1>4. ASSUME NEW k \in Nat, k \in T PROVE k + 1 \in T
  <2>1. SUFFICES ASSUME k + 1 <= N PROVE Good(k + 1)
    OBVIOUS
  <2>2. k <= N /\ k + 1 \in 1 .. N /\ k + 1 - 1 = k
    BY <1>1, <2>1
  <2>. DEFINE u == united[k]
              v == united[k + 1]
  <2>3. /\ u \in Forests(N) /\ Stays(u, R)
        /\ \A i, j \in 1 .. N : i <= k /\ i < j /\ <<i, j>> \in R => Root(u, i) = Root(u, j)
    BY <1>4, <2>2
  <2>4. v = CompareWithLater(names, u, k + 1)
    BY <1>2, <2>2 DEF OuterLoop
  <2>5. Turned(u, v, names, R, k + 1)
    BY <2>2, <2>3, <2>4, InnerLoopIsSound
  <2>6. \A i \in 1 .. N : i <= k + 1 => i <= k \/ i = k + 1
    OBVIOUS
  <2>7. DOMAIN u = 1 .. N
    BY <2>3 DEF Forests
  <2>8. /\ v \in Forests(N) /\ KeepsTrees(u, v) /\ Stays(v, R)
        /\ \A j \in 1 .. N : k + 1 < j /\ <<k + 1, j>> \in R => Root(v, k + 1) = Root(v, j)
    BY <2>3, <2>5 DEF Turned
  <2>. HIDE DEF u, v, N, R
  <2>9. \A i, j \in 1 .. N : i <= k + 1 /\ i < j /\ <<i, j>> \in R => Root(v, i) = Root(v, j)
    BY <2>3, <2>6, <2>7, <2>8 DEF KeepsTrees
  <2>. QED BY <2>8, <2>9 DEF v, N, R
<1>5. Good(N)
  <2>1. Nat \subseteq T
    <3>. HIDE DEF T
    <3>. QED BY <1>3, <1>4, Induction
  <2>2. N \in T /\ N <= N
    BY <1>1, <2>1
  <2>. HIDE DEF Good
  <2>. QED BY <2>2
<1>. DEFINE q == united[N]
<1>6. q = UniteAll(names)
  BY <1>2 DEF OuterLoop
<1>7. /\ q \in Forests(N) /\ Stays(q, R)
      /\ \A i, j \in 1 .. N : i < j /\ <<i, j>> \in R => Root(q, i) = Root(q, j)
  <2>1. \A i \in 1 .. N : i <= N
    BY <1>1
  <2>. QED BY <1>5, <2>1
<1>. HIDE DEF q
<1>8. \A i, j \in 1 .. N : <<i, j>> \in R => Root(q, i) = Root(q, j)
  <2>1. \A i, j \in 1 .. N : i < j \/ j < i \/ i = j
    BY <1>1
  <2>. QED BY <1>7, <2>1 DEF IsMutual
<1>. QED BY <1>6, <1>7, <1>8 DEF United

LEMMA LikenessIsMutual ==
    ASSUME NEW names
    PROVE  IsMutual(AlikeAt(names))
<1>1. \A m, n : SameByInitials(m, n) => SameByInitials(n, m)
  BY DEF SameByInitials, SameGivenNames
<1>. QED BY <1>1, AlikeAre DEF IsMutual

\* The names of a tree
LEMMA TreesAreClusters ==
    ASSUME NEW N \in Nat, NEW names, DOMAIN names = 1 .. N, IsInjective(names),
           NEW q \in Forests(N), NEW i \in 1 .. N
    PROVE  /\ names[i] \in Cluster(names, q, i) /\ IsFiniteSet(Cluster(names, q, i))
           /\ Cluster(names, q, i) \subseteq Range(names)
           /\ \A j \in 1 .. N : names[j] \in Cluster(names, q, i) <=> Root(q, j) = Root(q, i)
           /\ \A n \in Cluster(names, q, i) : \E j \in 1 .. N : n = names[j]
           /\ \A j \in 1 .. N :
                 Root(q, j) = Root(q, i) => Cluster(names, q, j) = Cluster(names, q, i)
           /\ Cardinality(Cluster(names, q, i)) >= 2
                 <=> \E j \in 1 .. N : j # i /\ Root(q, j) = Root(q, i)
<1>. DEFINE C == Cluster(names, q, i)
            J == {j \in 1 .. N : Root(q, j) = Root(q, i)}
            f == [j \in J |-> names[j]]
<1>1. C = {names[j] : j \in J}
  BY DEF Cluster
<1>2. \A j \in 1 .. N : names[j] \in C <=> Root(q, j) = Root(q, i)
  BY <1>1 DEF IsInjective
<1>3. IsFiniteSet(C)
  <2>1. IsFiniteSet(J)
    BY FS_Interval, FS_Subset
  <2>2. f \in Surjection(J, C)
    BY <1>1 DEF Surjection
  <2>. QED BY <2>1, <2>2, FS_Surjection
<1>4. \A j \in 1 .. N : Root(q, j) = Root(q, i) => Cluster(names, q, j) = C
  BY DEF Cluster
<1>5. C \subseteq Range(names) /\ \A n \in C : \E j \in 1 .. N : n = names[j]
  BY <1>1 DEF Range
<1>6. names[i] \in C
  BY <1>2
<1>. HIDE DEF C
<1>7. /\ Cardinality(C) = Cardinality(C \ {names[i]}) + 1
      /\ IsFiniteSet(C \ {names[i]}) /\ Cardinality(C \ {names[i]}) \in Nat
  <2>1. IsFiniteSet(C \ {names[i]})
    BY <1>3, FS_Subset
  <2>2. Cardinality(C \ {names[i]}) = Cardinality(C) - 1
    BY <1>3, <1>6, FS_RemoveElement
  <2>3. Cardinality(C \ {names[i]}) \in Nat /\ Cardinality(C) \in Nat
    BY <1>3, <2>1, FS_CardinalityType
  <2>. QED BY <2>1, <2>2, <2>3
<1>8. Cardinality(C) >= 2 <=> C \ {names[i]} # {}
  <2>1. Cardinality(C \ {names[i]}) = 0 <=> C \ {names[i]} = {}
    BY <1>7, FS_EmptySet
  <2>. QED BY <1>7, <2>1
<1>9. C \ {names[i]} # {} <=> \E j \in 1 .. N : j # i /\ Root(q, j) = Root(q, i)
  <2>1. \A j \in 1 .. N : names[j] # names[i] <=> j # i
    BY DEF IsInjective
  <2>. QED BY <1>2, <1>5, <2>1
<1>. QED BY <1>2, <1>3, <1>4, <1>5, <1>6, <1>8, <1>9 DEF C

LEMMA LongestIsThere ==
    ASSUME NEW c, IsFiniteSet(c), c # {}, \A n \in c : SortKey[n].size \in Nat
    PROVE  Longest(c) \in c
<1>. DEFINE f == [n \in c |-> SortKey[n].size]
<1>1. f \in [c -> Nat] /\ \A n \in c : f[n] = SortKey[n].size
  OBVIOUS
<1>. HIDE DEF f
<1>2. \E n \in c : \A m \in c : f[m] <= f[n]
  BY <1>1, GreatestValue
<1>. QED BY <1>1, <1>2 DEF Longest

\* A list of different names, as the tool has it
Different(names) ==
    /\ names \in Seq(Range(names)) /\ IsInjective(names)
    /\ \A n \in Range(names) : SortKey[n].size \in Nat

\* FindAuthor gives the longest name of the cluster, unless a name is alone.
LEMMA FindAuthorFinds ==
    ASSUME NEW names, Different(names), NEW i \in DOMAIN names,
           NEW C, C = Cluster(names, UniteAll(names), i)
    PROVE  /\ Longest(C) \in C
           /\ FindAuthor(Tables(names), names[i]) =
                 IF Cardinality(C) >= 2 THEN <<Longest(C)>> ELSE nullptr
<1>. DEFINE N == Len(names)
            q == UniteAll(names)
            tables == Tables(names)
            Of(k) == Cluster(names, q, k)
            clusters == {c \in Clusters(names) : Cardinality(c) >= 2}
            n0 == names[i]
<1>1. N \in Nat /\ DOMAIN names = 1 .. N /\ IsInjective(names)
  BY LenProperties DEF Different
<1>2. q \in Forests(N)
  BY LikenessIsMutual, AllAreUnited DEF Different, United
<1>3. \A c : c \in clusters <=> Cardinality(c) >= 2 /\ \E k \in 1 .. N : c = Of(k)
  BY <1>1 DEF Clusters
<1>4. \A k \in 1 .. N :
          /\ names[k] \in Of(k) /\ IsFiniteSet(Of(k)) /\ Of(k) \subseteq Range(names)
          /\ names[i] \in Of(k) => Of(k) = C
  <2>1. SUFFICES ASSUME NEW k \in 1 .. N
                 PROVE  /\ names[k] \in Of(k) /\ IsFiniteSet(Of(k)) /\ Of(k) \subseteq Range(names)
                        /\ names[i] \in Of(k) => Of(k) = C
    OBVIOUS
  <2>2. /\ names[k] \in Of(k) /\ IsFiniteSet(Of(k)) /\ Of(k) \subseteq Range(names)
        /\ \A j \in 1 .. N : names[j] \in Of(k) <=> Root(q, j) = Root(q, k)
        /\ \A j \in 1 .. N : Root(q, j) = Root(q, k) => Of(j) = Of(k)
    BY <1>1, <1>2, TreesAreClusters
  <2>. QED BY <1>1, <2>2
<1>. HIDE DEF Of
<1>5. \A k \in 1 .. N : Longest(Of(k)) \in Of(k)
  <2>1. SUFFICES ASSUME NEW k \in 1 .. N PROVE Longest(Of(k)) \in Of(k)
    OBVIOUS
  <2>2. IsFiniteSet(Of(k)) /\ names[k] \in Of(k) /\ Of(k) \subseteq Range(names)
    BY <1>4
  <2>3. \A n \in Range(names) : SortKey[n].size \in Nat
    BY DEF Different
  <2>. QED BY <2>2, <2>3, LongestIsThere
<1>6. i \in 1 .. N /\ C = Of(i) /\ n0 \in C /\ Longest(C) \in C
  <2>1. i \in 1 .. N /\ C = Of(i)
    BY <1>1 DEF Of
  <2>2. names[i] \in Of(i)
    BY <1>4, <2>1
  <2>3. n0 \in C
    BY <2>1, <2>2
  <2>. QED BY <1>5, <2>1, <2>3
<1>7. \A c \in clusters : Longest(c) \in c /\ (n0 \in c => c = C)
  BY <1>3, <1>4, <1>5
<1>8. Cardinality(C) >= 2 <=> C \in clusters
  BY <1>3, <1>6
<1>9. \A e : e \in tables.alternatives
              <=> \E c \in clusters : \E n \in c \ {Longest(c)} : e = <<n, Longest(c)>>
  BY DEF Tables
<1>10. \A n : n \in tables.primaries <=> \E c \in clusters : n = Longest(c)
  BY DEF Tables
<1>. HIDE DEF clusters, tables, q, N
<1>. DEFINE Mine == \E e \in tables.alternatives : e[1] = n0
<1>11. \A e \in tables.alternatives :
          e[1] = n0 => C \in clusters /\ n0 # Longest(C) /\ e = <<n0, Longest(C)>>
  <2>1. SUFFICES ASSUME NEW e \in tables.alternatives, e[1] = n0
                 PROVE  C \in clusters /\ n0 # Longest(C) /\ e = <<n0, Longest(C)>>
    OBVIOUS
  <2>2. PICK c \in clusters : \E n \in c \ {Longest(c)} : e = <<n, Longest(c)>>
    BY <1>9
  <2>5. PICK n \in c \ {Longest(c)} : e = <<n, Longest(c)>>
    BY <2>2
  <2>3. n = n0
    BY <2>1, <2>5
  <2>4. c = C
    BY <1>7, <2>5, <2>3
  <2>. QED BY <2>5, <2>3, <2>4
<1>12. CASE C \in clusters /\ n0 # Longest(C)
  <2>1. <<n0, Longest(C)>> \in tables.alternatives
    BY <1>6, <1>9, <1>12
  <2>2. <<n0, Longest(C)>>[1] = n0 /\ <<n0, Longest(C)>>[2] = Longest(C)
    OBVIOUS
  <2>3. (CHOOSE e \in tables.alternatives : e[1] = n0) = <<n0, Longest(C)>>
    BY <1>11, <2>1, <2>2
  <2>4. Primary(tables, n0) = Longest(C)
    BY <2>1, <2>2, <2>3 DEF Primary
  <2>5. Longest(C) \in tables.primaries
    BY <1>10, <1>12
  <2>. QED BY <1>6, <1>8, <1>12, <2>4, <2>5 DEF FindAuthor, tables
<1>13. CASE C \in clusters /\ n0 = Longest(C)
  <2>1. ~Mine
    BY <1>11, <1>13
  <2>2. Primary(tables, n0) = Longest(C)
    BY <1>13, <2>1 DEF Primary
  <2>3. Longest(C) \in tables.primaries
    BY <1>10, <1>13
  <2>. QED BY <1>6, <1>8, <1>13, <2>2, <2>3 DEF FindAuthor, tables
<1>14. CASE C \notin clusters
  <2>1. ~Mine
    BY <1>11, <1>14
  <2>2. Primary(tables, n0) = n0
    BY <2>1 DEF Primary
  <2>3. n0 \notin tables.primaries
    BY <1>7, <1>10, <1>14
  <2>. QED BY <1>6, <1>8, <1>14, <2>2, <2>3 DEF FindAuthor, tables
<1>. QED BY <1>12, <1>13, <1>14

\* Two names of a list have the same root exactly if they are joined by likeness.
JoinedIn(names, m, n) ==
    LET S == Range(names)
        alike == {mn \in S \X S : SameByInitials(mn[1], mn[2])}
    IN  \A part \in SUBSET S : m \in part /\ n \notin part =>
            \E a \in part, b \in S \ part : <<a, b>> \in alike

LEMMA RootsAreJoined ==
    ASSUME NEW names, Different(names), NEW q, q = UniteAll(names),
           NEW i \in DOMAIN names, NEW j \in DOMAIN names
    PROVE  Root(q, i) = Root(q, j) <=> JoinedIn(names, names[i], names[j])
<1>. DEFINE N == Len(names)
            R == AlikeAt(names)
            S == Range(names)
<1>1. N \in Nat /\ DOMAIN names = 1 .. N /\ IsInjective(names)
  BY LenProperties DEF Different
<1>2. United(q, names, R)
  BY LikenessIsMutual, AllAreUnited DEF Different
<1>3. DOMAIN q = 1 .. N /\ q \in Forests(N)
  BY <1>2 DEF United, Forests
<1>4. \A n : n \in S <=> \E k \in 1 .. N : n = names[k]
  BY <1>1 DEF Range
<1>5. \A k, l \in 1 .. N : <<k, l>> \in R <=> SameByInitials(names[k], names[l])
  BY <1>1, AlikeAre
<1>6. \A a, b \in S : <<a, b>> \in {mn \in S \X S : SameByInitials(mn[1], mn[2])}
                        <=> SameByInitials(a, b)
  OBVIOUS
<1>7. JoinedIn(names, names[i], names[j]) <=>
          \A part \in SUBSET S : names[i] \in part /\ names[j] \notin part =>
              \E a \in part, b \in S \ part : SameByInitials(a, b)
  BY <1>6 DEF JoinedIn
<1>. HIDE DEF S, R, N
<1>8. ASSUME Root(q, i) = Root(q, j), NEW part \in SUBSET S, names[i] \in part, names[j] \notin part
      PROVE  \E a \in part, b \in S \ part : SameByInitials(a, b)
  <2>1. SUFFICES ASSUME \A a \in part, b \in S \ part : ~SameByInitials(a, b) PROVE FALSE
    OBVIOUS
  <2>. DEFINE C == {k \in 1 .. N : names[k] \in part}
  <2>2. \A k \in C, l \in 1 .. N : <<k, l>> \in R => l \in C
    BY <1>4, <1>5, <2>1
  <2>3. C \in SUBSET DOMAIN q
    BY <1>3
  <2>4. i \in C /\ j \in DOMAIN q /\ j \notin C
    BY <1>1, <1>3, <1>8
  <2>5. Stays(q, R)
    BY <1>2 DEF United
  <2>. HIDE DEF C
  <2>6. \A k \in C, l \in DOMAIN q : Root(q, k) = Root(q, l) => l \in C
    BY <1>3, <2>2, <2>3, <2>5 DEF Stays
  <2>. QED BY <1>8, <2>4, <2>6
<1>9. ASSUME \A part \in SUBSET S : names[i] \in part /\ names[j] \notin part =>
                 \E a \in part, b \in S \ part : SameByInitials(a, b)
      PROVE  Root(q, i) = Root(q, j)
  <2>. DEFINE C == Cluster(names, q, i)
  <2>1. /\ names[i] \in C /\ C \subseteq S
        /\ \A k \in 1 .. N : names[k] \in C <=> Root(q, k) = Root(q, i)
    BY <1>1, <1>3, TreesAreClusters DEF S
  <2>2. \A k, l \in 1 .. N : SameByInitials(names[k], names[l]) => Root(q, k) = Root(q, l)
    BY <1>2, <1>5 DEF United, N
  <2>. HIDE DEF C
  <2>3. SUFFICES ASSUME names[j] \notin C PROVE FALSE
    BY <1>1, <2>1
  <2>4. PICK a \in C, b \in S \ C : SameByInitials(a, b)
    BY <1>9, <2>1, <2>3
  <2>5. PICK k \in 1 .. N, l \in 1 .. N : a = names[k] /\ b = names[l]
    BY <1>4, <2>1
  <2>. QED BY <2>1, <2>2, <2>4, <2>5
<1>. QED BY <1>7, <1>8, <1>9

\* In any list of different names FindAuthor finds one author for exactly those that
\* are joined by a chain of likenesses (main of equivalent_names.cpp).
THEOREM FindAuthorExact ==
    ASSUME NEW names, Different(names)
    PROVE  FindAuthorIsExact(names)
<1>. DEFINE N == Len(names)
            q == UniteAll(names)
            R == AlikeAt(names)
            S == Range(names)
            tables == Tables(names)
            alike == {mn \in S \X S : SameByInitials(mn[1], mn[2])}
            Of(k) == Cluster(names, q, k)
            Same(k, l) == Root(q, k) = Root(q, l)
<1>1. N \in Nat /\ DOMAIN names = 1 .. N /\ IsInjective(names)
  BY LenProperties DEF Different
<1>2. United(q, names, R)
  BY LikenessIsMutual, AllAreUnited DEF Different
<1>3. DOMAIN q = 1 .. N /\ q \in Forests(N)
  BY <1>2 DEF United, Forests
<1>4. \A n : n \in S <=> \E k \in 1 .. N : n = names[k]
  BY <1>1 DEF Range
<1>5. \A k, l \in 1 .. N :
          /\ <<k, l>> \in R <=> SameByInitials(names[k], names[l])
          /\ <<names[k], names[l]>> \in alike <=> SameByInitials(names[k], names[l])
          /\ names[k] = names[l] => k = l
  <2>1. \A k, l \in 1 .. N : <<k, l>> \in R <=> SameByInitials(names[k], names[l])
    BY <1>1, AlikeAre
  <2>2. \A k, l \in 1 .. N : <<names[k], names[l]>> \in alike <=> SameByInitials(names[k], names[l])
    <3>1. \A a, b \in S : <<a, b>> \in alike <=> SameByInitials(a, b)
      OBVIOUS
    <3>2. \A k \in 1 .. N : names[k] \in S
      BY <1>4
    <3>3. \A k, l \in 1 .. N : names[k] \in S /\ names[l] \in S
      BY <3>2
    <3>. HIDE DEF alike, S, N
    <3>. QED BY <3>1, <3>3
  <2>3. \A k, l \in 1 .. N : names[k] = names[l] => k = l
    BY <1>1 DEF IsInjective
  <2>. QED BY <2>1, <2>2, <2>3
<1>6. \A k \in 1 .. N :
          /\ Longest(Of(k)) \in Of(k)
          /\ FindAuthor(tables, names[k]) =
                IF Cardinality(Of(k)) >= 2 THEN <<Longest(Of(k))>> ELSE nullptr
  BY <1>1, FindAuthorFinds
<1>7. \A k \in 1 .. N :
          /\ \A l \in 1 .. N : names[l] \in Of(k) <=> Same(l, k)
          /\ \A n \in Of(k) : \E l \in 1 .. N : n = names[l]
          /\ \A l \in 1 .. N : Same(l, k) => Of(l) = Of(k)
          /\ Cardinality(Of(k)) >= 2 <=> \E l \in 1 .. N : l # k /\ Same(l, k)
  <2>1. SUFFICES ASSUME NEW k \in 1 .. N
                 PROVE
                 /\ \A l \in 1 .. N : names[l] \in Of(k) <=> Same(l, k)
                 /\ \A n \in Of(k) : \E l \in 1 .. N : n = names[l]
                 /\ \A l \in 1 .. N : Same(l, k) => Of(l) = Of(k)
                 /\ Cardinality(Of(k)) >= 2 <=> \E l \in 1 .. N : l # k /\ Same(l, k)
    OBVIOUS
  <2>. HIDE DEF N, q
  <2>2. /\ \A l \in 1 .. N : names[l] \in Cluster(names, q, k) <=> Root(q, l) = Root(q, k)
        /\ \A n \in Cluster(names, q, k) : \E l \in 1 .. N : n = names[l]
        /\ \A l \in 1 .. N :
              Root(q, l) = Root(q, k) => Cluster(names, q, l) = Cluster(names, q, k)
        /\ Cardinality(Cluster(names, q, k)) >= 2
              <=> \E l \in 1 .. N : l # k /\ Root(q, l) = Root(q, k)
    BY <1>1, <1>3, TreesAreClusters
  <2>. QED BY <2>2
<1>8. \A k, l \in 1 .. N : Same(k, l) <=> JoinedIn(names, names[k], names[l])
  BY <1>1, RootsAreJoined
<1>9. /\ \A k, l \in 1 .. N : <<k, l>> \in R => Same(k, l)
      /\ Stays(q, R)
  BY <1>2 DEF United
<1>10. \A k, l \in 1 .. N : Same(k, l) => Same(l, k)
  OBVIOUS
<1>. DEFINE Author(n) == FindAuthor(tables, n)
<1>11. ASSUME NEW k \in 1 .. N
       PROVE  Author(names[k]) = nullptr <=> ~ \E l \in 1 .. N : l # k /\ Same(l, k)
  <2>1. <<Longest(Of(k))>> # nullptr
    BY DEF nullptr
  <2>. HIDE DEF Of, Same
  <2>. QED BY <1>6, <1>7, <2>1
<1>12. ASSUME NEW k \in 1 .. N
       PROVE  (\E l \in 1 .. N : l # k /\ Same(l, k)) <=> \E l \in 1 .. N : l # k /\ <<k, l>> \in R
  <2>1. ASSUME \A l \in 1 .. N : l # k => <<k, l>> \notin R
        PROVE  \A l \in 1 .. N : Same(k, l) => l = k
    <3>1. {k} \in SUBSET DOMAIN q /\ \A a \in {k}, b \in DOMAIN q : <<a, b>> \in R => b \in {k}
      BY <1>3, <2>1
    <3>. QED BY <1>3, <1>9, <3>1 DEF Stays
  <2>. HIDE DEF Same, R
  <2>. QED BY <1>9, <1>10, <2>1
<1>13. ASSUME NEW k \in 1 .. N, NEW l \in 1 .. N, k # l
       PROVE  Author(names[k]) # nullptr /\ Author(names[k]) = Author(names[l]) <=> Same(k, l)
  <2>1. ASSUME Same(k, l) PROVE Author(names[k]) # nullptr /\ Author(names[k]) = Author(names[l])
    <3>1. Of(k) = Of(l)
      BY <1>7, <2>1
    <3>2. Author(names[k]) = Author(names[l])
      BY <1>6, <3>1
    <3>3. Author(names[k]) # nullptr
      BY <1>10, <1>11, <1>13, <2>1
    <3>. QED BY <3>2, <3>3
  <2>2. ASSUME Author(names[k]) # nullptr, Author(names[k]) = Author(names[l]) PROVE Same(k, l)
    <3>1. Author(names[k]) = <<Longest(Of(k))>> /\ Author(names[l]) = <<Longest(Of(l))>>
      BY <1>6, <2>2
    <3>2. Longest(Of(k)) = Longest(Of(l))
      <4>1. <<Longest(Of(k))>> = <<Longest(Of(l))>>
        BY <2>2, <3>1
      <4>. HIDE DEF Of
      <4>. QED BY <4>1
    <3>. HIDE DEF Of, Same, N, tables
    <3>3. PICK a \in 1 .. N : Longest(Of(k)) = names[a]
      <4>1. Longest(Of(k)) \in Of(k)
        BY <1>6
      <4>2. \A n \in Of(k) : \E l1 \in 1 .. N : n = names[l1]
        BY <1>7
      <4>. QED BY <4>1, <4>2
    <3>4. names[a] \in Of(k) /\ names[a] \in Of(l)
      BY <1>6, <3>2, <3>3
    <3>5. Same(a, k) /\ Same(a, l)
      BY <1>7, <3>4
    <3>. QED BY <3>5 DEF Same
  <2>. QED BY <2>1, <2>2
<1>. HIDE DEF Found, Same, N, R
<1>14. ASSUME NEW m \in S
       PROVE  /\ Author(m) = nullptr <=> \A n \in S \ {m} : <<m, n>> \notin alike
              /\ \A n \in S \ {m} :
                    Author(m) # nullptr /\ Author(m) = Author(n) <=> JoinedIn(names, m, n)
  <2>1. PICK k \in 1 .. N : m = names[k]
    BY <1>4
  <2>. HIDE DEF S, alike
  <2>2. Author(m) = nullptr <=> \A n \in S \ {m} : <<m, n>> \notin alike
    <3>1. \A l \in 1 .. N : <<k, l>> \in R <=> <<names[k], names[l]>> \in alike
      BY <1>5
    <3>2. Author(names[k]) = nullptr <=> ~ \E l \in 1 .. N : l # k /\ <<k, l>> \in R
      BY <1>11, <1>12
    <3>3. Author(m) = nullptr <=> \A l \in 1 .. N : l # k => <<names[k], names[l]>> \notin alike
      BY <2>1, <3>1, <3>2
    <3>4. \A l \in 1 .. N : names[k] = names[l] => k = l
      BY <1>5
    <3>. QED BY <1>4, <2>1, <3>3, <3>4
  <2>3. ASSUME NEW n \in S \ {m}
        PROVE  Author(m) # nullptr /\ Author(m) = Author(n) <=> JoinedIn(names, m, n)
    <3>1. PICK l \in 1 .. N : n = names[l]
      BY <1>4
    <3>2. k # l
      BY <2>1, <3>1
    <3>. QED BY <1>8, <1>13, <2>1, <3>1, <3>2
  <2>. QED BY <2>2, <2>3
<1>. QED BY <1>14 DEF FindAuthorIsExact, JoinedIn, Found

\* In the tool's lists (main of equivalent_names.cpp) and on any words
\* (PersonNames) similar spellings are matched exactly.
THEOREM SpellingsMatchedExactly == HelperSpec => []SpellingsAreMatchedExactly
<1>1. MatchersAreExact({"a", "b"}, 4)
  BY MatchersExact
<1>2. ASSUME NEW S PROVE FindAuthorIsExact(InNameOrder(S))
  <2>. DEFINE s == InNameOrder(S)
  <2>1. s \in Seq(S \cap Range(Names)) /\ Range(s) = S \cap Range(Names) /\ IsInjective(s)
    BY InNameOrderHasAll
  <2>2. s \in Seq(Range(s)) /\ \A n \in Range(s) : SortKey[n].size \in Nat
    BY <2>1, CrawlAssumption
  <2>. HIDE DEF s
  <2>3. Different(s)
    BY <2>1, <2>2 DEF Different
  <2>. QED BY <2>3, FindAuthorExact DEF s
<1>3. SpellingsAreMatchedExactly
  BY <1>1, <1>2 DEF SpellingsAreMatchedExactly
<1>. QED BY <1>3, PTL

=============================================================================
