----------------------------- MODULE Downloader -----------------------------
(***************************************************************************)
(* The paper downloader (paper_downloader.cpp): it looks for every paper   *)
(* of the list in downloaded_papers and fetches those it misses into       *)
(* freshly_downloaded_papers, from where the user moves them by hand.  It  *)
(* can be stopped between any two steps and started again.                 *)
(***************************************************************************)
EXTENDS Naturals, Sequences, FiniteSets

CONSTANTS
    list,       \* the lines of complete_paper_list.txt: none is empty, none repeated
    Files,      \* the names a file can have
    StartsWith, \* StartsWith[p]: the names that start with line p
    DotAfter,   \* DotAfter[p]: those with a dot after it
    UrlFile,    \* UrlFile[p]: the name at the end of p's final URL, if any
    MaxStarts     \* bound on the runs of the program

Lines == {list[i] : i \in DOMAIN list}
NoName == "noname"

ASSUME DownloaderAssumption ==
    /\ MaxStarts \in Nat /\ NoName \notin Files
    /\ list \in Seq(Lines) /\ \A i, j \in DOMAIN list : list[i] = list[j] => i = j
    /\ DotAfter \in [Lines -> SUBSET Files] /\ StartsWith \in [Lines -> SUBSET Files]
    /\ \A p \in Lines : DotAfter[p] \subseteq StartsWith[p]
    /\ UrlFile \in [Lines -> Files \cup {NoName}]

\* A file holds what was fetched for a paper: all of it, some, or the page
\* with which a server reports an error.
NoFile == [paper |-> "none", holds |-> "none"]
Contents == [paper : Lines, holds : {"all", "some", "error"}] \cup {NoFile}

VARIABLES
    downloaded_papers, freshly_downloaded_papers,   \* file name -> contents
    doing,          \* where the program is, "off" while it does not run
    infile,         \* the lines still to be read
    missing,        \* the papers to be fetched, the current one first
    starts,         \* how often it was started
    tried,          \* the papers this run has tried to fetch
    moves_first,    \* whether the user never starts it before the move
    cut_short       \* whether a run was ever stopped or a write ever failed

folders == <<downloaded_papers, freshly_downloaded_papers>>
ghosts == <<tried, moves_first, cut_short>>
downloader_vars == <<folders, doing, infile, missing, starts, ghosts>>

Present(folder) == {f \in Files : folder[f] # NoFile}
Paper == Head(missing)
NextPaper == missing' = Tail(missing) /\ doing' = "next"

Start ==
    /\ doing = "off" /\ starts < MaxStarts
    /\ moves_first => Present(freshly_downloaded_papers) = {}
    /\ doing' = "scan" /\ infile' = list /\ missing' = <<>>
    /\ starts' = starts + 1 /\ tried' = {}
    /\ UNCHANGED <<folders, moves_first, cut_short>>

-----------------------------------------------------------------------------
(* The scan.                                                               *)

FoundFor_AnyLongerName(p) == StartsWith[p]
FoundFor_Never(p) == {}

\* The names that count as the paper of a line.
FoundFor(p) == DotAfter[p]

ScanLine ==
    /\ doing = "scan" /\ infile # <<>>
    /\ infile' = Tail(infile)
    /\ missing' = IF Present(downloaded_papers) \cap FoundFor(Head(infile)) # {}
                  THEN missing
                  ELSE Append(missing, Head(infile))
    /\ UNCHANGED <<folders, doing, starts, ghosts>>

\* Without a curl handle the program gives up.
InitCurl ==
    /\ doing = "scan" /\ infile = <<>>
    /\ doing' \in {"next", "off"}
    /\ UNCHANGED <<folders, infile, missing, starts, ghosts>>

-----------------------------------------------------------------------------
(* The fetches.                                                            *)

\* The next paper has no final URL, or one that ends in a slash.
NotResolved ==
    /\ doing = "next" /\ missing # <<>>
    /\ NextPaper /\ tried' = tried \cup {Paper}
    /\ UNCHANGED <<folders, infile, starts, moves_first, cut_short>>

\* The ofstream truncates a file that is there, or cannot be opened.
OpenFile ==
    /\ doing = "next" /\ missing # <<>> /\ UrlFile[Paper] # NoName
    /\ tried' = tried \cup {Paper}
    /\ \/ /\ freshly_downloaded_papers' =
                [freshly_downloaded_papers EXCEPT
                    ![UrlFile[Paper]] = [paper |-> Paper, holds |-> "some"]]
          /\ doing' = "fetch" /\ UNCHANGED missing
       \/ NextPaper /\ UNCHANGED freshly_downloaded_papers
    /\ UNCHANGED <<downloaded_papers, infile, starts, moves_first, cut_short>>

Holds(what) ==
    freshly_downloaded_papers' =
        [freshly_downloaded_papers EXCEPT ![UrlFile[Paper]].holds = what]

\* CURLOPT_FAILONERROR is not set, so an error page is a complete download.
FetchCompletes ==
    /\ doing = "fetch" /\ NextPaper
    /\ Holds("all") \/ Holds("error")
    /\ UNCHANGED <<downloaded_papers, infile, starts, ghosts>>

\* The results of write and of close are not looked at.
WriteFails ==
    /\ doing = "fetch" /\ NextPaper /\ cut_short' = TRUE
    /\ UNCHANGED <<folders, infile, starts, tried, moves_first>>

FetchFails_LeavesFile ==
    /\ doing = "fetch" /\ NextPaper
    /\ UNCHANGED <<folders, infile, starts, ghosts>>

\* The file is closed and removed.
FetchFails ==
    /\ doing = "fetch" /\ NextPaper
    /\ freshly_downloaded_papers' =
            [freshly_downloaded_papers EXCEPT ![UrlFile[Paper]] = NoFile]
    /\ UNCHANGED <<downloaded_papers, infile, starts, ghosts>>

Finish ==
    /\ doing = "next" /\ missing = <<>> /\ doing' = "off"
    /\ UNCHANGED <<folders, infile, missing, starts, ghosts>>

-----------------------------------------------------------------------------
(* Outside the program.                                                    *)

Stopped ==
    /\ doing # "off" /\ doing' = "off" /\ cut_short' = TRUE
    /\ UNCHANGED <<folders, infile, missing, starts, tried, moves_first>>

\* The user moves what is there to downloaded_papers, over what has its name.
MoveFreshPapers ==
    /\ doing = "off" /\ Present(freshly_downloaded_papers) # {}
    /\ downloaded_papers' =
            [f \in Files |-> IF f \in Present(freshly_downloaded_papers)
                             THEN freshly_downloaded_papers[f]
                             ELSE downloaded_papers[f]]
    /\ freshly_downloaded_papers' = [f \in Files |-> NoFile]
    /\ UNCHANGED <<doing, infile, missing, starts, ghosts>>

-----------------------------------------------------------------------------

DownloaderInit ==
    /\ downloaded_papers = [f \in Files |-> NoFile]
    /\ freshly_downloaded_papers = [f \in Files |-> NoFile]
    /\ doing = "off" /\ infile = <<>> /\ missing = <<>> /\ starts = 0
    /\ tried = {} /\ moves_first \in BOOLEAN /\ cut_short = FALSE

DownloaderNext ==
    \/ Start \/ ScanLine \/ InitCurl \/ NotResolved \/ OpenFile
    \/ FetchCompletes \/ WriteFails \/ FetchFails \/ Finish
    \/ Stopped \/ MoveFreshPapers

DownloaderSpec == DownloaderInit /\ [][DownloaderNext]_downloader_vars

-----------------------------------------------------------------------------

DownloaderTypeOK ==
    /\ downloaded_papers \in [Files -> Contents]
    /\ freshly_downloaded_papers \in [Files -> Contents]
    /\ doing \in {"off", "scan", "next", "fetch"}
    /\ infile \in Seq(Lines) /\ missing \in Seq(Lines)
    /\ starts \in 0 .. MaxStarts /\ tried \subseteq Lines
    /\ moves_first \in BOOLEAN /\ cut_short \in BOOLEAN

\* When a run reaches its end, each paper of the list is in
\* downloaded_papers under a name of its own or was tried.
NoPaperIsOverlooked ==
    doing = "next" /\ missing = <<>> =>
        \A p \in Lines : p \in tried \/ Present(downloaded_papers) \cap DotAfter[p] # {}

\* A cut-off file outlives its download only if a run was stopped or a write
\* failed: a failed download leaves nothing behind.
CutFilesHaveACause ==
    (\/ \E f \in Files : downloaded_papers[f].holds = "some"
     \/ \E f \in Files : /\ freshly_downloaded_papers[f].holds = "some"
                         /\ ~(doing = "fetch" /\ f = UrlFile[Paper]))
        => cut_short

\* A paper whose file is its own and has its name.
Unambiguous(p) ==
    /\ UrlFile[p] \in DotAfter[p]
    /\ \A q \in Lines \ {p} : UrlFile[q] # UrlFile[p]

Kept(p) ==
    \E folder \in {downloaded_papers, freshly_downloaded_papers}, f \in Files :
        folder[f] = [paper |-> p, holds |-> "all"]

\* If the user moves the papers before the next run, no run and no move
\* destroys the complete copy of a paper that has a file of its own.
CompletePapersAreKept ==
    [][moves_first => \A p \in Lines : Unambiguous(p) /\ Kept(p) => Kept(p)']_downloader_vars

=============================================================================
