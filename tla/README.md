# paperkernelcxx in TLA+

`paperkernelcxx` is a desktop program (C++23, wxWidgets) for browsing the papers
of the C++ standardisation committee. A list of authors and two trees of papers
are compiled into it; the papers themselves are in a compressed tar file beside
the executable. A paper that is clicked on is shown in a browser control, which
fetches it from an HTTP server that runs inside the program. Optional tools
search the papers with Xapian and whittle them down with a language model. The
names, authors and trees are generated beforehand by the programs under
`src/helper_tools`.

This directory holds TLA+ models of that code, TLC configurations that check
them on small instances, and proofs checked by TLAPS. The repository has no
tests; what its own words promise (comments, assertions, `noexcept`, the text of
its welcome page) is the measure for the runs that find a violation.

## 1. The system

### Threads

| thread | started by | runs |
| --- | --- | --- |
| GUI thread | the process | every handler of `Dialog_Main`, construction and destruction of the server |
| acceptor | `LocalHttpServer::Start` | `ThreadEntryPoint`: accepts and answers one connection after the other |
| worker | each "Load" button | loads tokens, the search database or the language model, and posts `CallAfter` events |
| browser | the web view control | connects to the server on the loopback interface, reports loaded pages by an event |

### Components

For each component: its state, its operations, what it shares, and what makes it
correct.

**Local HTTP server** (`local_http_server.cpp`, the variant of lines 1-342; the
others are commented out).
State: `server_fd`, `is_listening`, `use_ipv6`, `port`, `stop_flag`, `html_str`
under a mutex, the thread. Operations: `Start` (IPv4, then IPv6, seven calls that
can fail, a scope guard), `Stop`, `SetHtmlCode`, the acceptor's loop. It shares
the kernel's descriptor table with the whole process, and `server_fd` with the
acceptor without a lock. Hard: `Stop` against an acceptor anywhere in its loop,
descriptor numbers used again, a failure in the middle of `Start`. Correct when
each connection gets one answer, to its own request, with a page that was
assigned whole; when a server that stopped or never started leaves nothing open;
when it never closes a file of somebody else; when `Stop` returns.

**Embedded archive** (`embedded_archive.cpp`).
State: `g_archiveData`, `g_archiveSize`, a function-local static that guards the
load, and the static buffer of `GetExecutableDirectory`, which nothing guards.
Operation: `ArchiveGetFile`, called by the acceptor. (The download tool has a call
of it too, but throws before it gets there.)
Hard: the load fails or is cut short, the worker that opens the search database
uses the buffer at the same time, a name is compared as a prefix. Correct when equal names get equal answers, the answer is the paper
asked for, and the archive is looked for beside the executable.

**View portal** (`view_portal.cpp`).
State: the flag `already_done`, the browser control, `is_viewportal_loaded`.
Operations: `SetHtml` from the constructor of the dialog, `Set` for each paper,
the loaded event. `Set` yields to the event loop between two loads the first
time. Correct when the portal comes to rest on what was chosen last and a choice
is not lost.

**Load dialogs and their workers** (`GUI_Dialog_Main.cpp` 485-569 and 582-624,
`GUI_Dialog_Waiting.hpp`, with `paperman.cpp` and `semantic.cpp`).
State: the buttons, a flag shared with the worker, the modal dialog, the queue of
`CallAfter` events. Hard: the dialog closed before its worker has ended, a worker
that throws. Correct when no event reaches a dialog that is gone, the buttons say
what is loaded, a search never meets a closed database, handlers return.

**Author and paper trees** (`wxDataViewTreeStoreWithColumns` and the handlers of
`GUI_Dialog_Main.cpp`, `tree_paper.hpp`, `tree_author.hpp`).
State: a map from items to nodes with the children linked backwards, a reference
count that the view control shares. The name of a paper is kept in the pointer
that an item is, with eight bytes as characters, with four as two numbers. Operations: reset, append, children,
selecting an author, activating an item. Correct when the count is what the code
asserts at each of its uses, the walk over children ends, and the tree shows the
author's papers, all of them and no others.

**Language model** (`ai.cpp`), compiled in with `PAPERKERNELCXX_USE_AI`.
State: the four pointers of `g_aimanager` (model, vocabulary, sampler, context)
and the objects of llama.cpp they stand for. Operations: `Init`, `Reset`,
`NewContext`, `LoadInPaper`, called by two buttons and two workers. Hard: what a
reset leaves behind, a model loaded over another, a context of an earlier model, a
worker that catches nothing. Correct when nothing held is freed, nothing freed is
held, and a paper is decoded with one model only.

**Token store** (`paperman.cpp`).
State: the map from papers to tokens. Operation: the load, file by file. Correct
when the main program ends up with the whole of what the tokenizer wrote.

**Sortable author list** (`MySortableListCtrl.cpp`), **papers, names and hashes**
(`paper.cpp`, `paper.hpp`, `names.hpp`), **debug tab**
(`GUI_Dialog_Main_Debug_Tab.cpp`). No state that changes: the comparator by which a
click on a header sorts, the text of a paper's name and the patterns that pick
files by it, the tables of authors with the lookups in them, and the checks that
the debug tab makes of those tables. Hard: boundaries (a revision of one digit or
two, an empty table, the end of a binary search), and a comparator that looks its
items up in the control it is sorting. Correct when all readers of a name see the
same paper, a click brings the list into one order, and the debug tab is silent
exactly when the lookups are right.

**Tools of the main window**, **semantic search**: see `PROJECT.json` for what of
them is in a model.

**Crawler** (`crawl.cpp`, `NameManager.hpp`), run by hand beforehand.
State: the papers of each spelling of a name, a disjoint-set forest over the
spellings, two hard-coded tables. Operations: read the index, unite the spellings
of one person, choose a primary name, write the tables of names, give the papers
of the alternatives to their primaries, write the trees. Hard: a relation between
spellings that is not transitive, loops that decide letter by letter, a hard-coded
name against a computed one, a paper credited twice. Correct when clusters are the
connected components, no credit is lost or doubled, and the names in the trees are
those that the program finds in its table (`names.hpp`).
`equivalent_names.cpp` is a small program with the same forest and a simpler test.

**Downloader** (`paper_downloader.cpp`), run by hand, again and again.
State: the folder of papers there are, the folder of papers just fetched, the list.
Operations: scan the list, fetch what is missing, report. Hard: a run stopped
anywhere, a write that fails unnoticed, two papers whose URLs end alike, a user who
starts it again before moving what it fetched. Correct when no line is overlooked,
a failed fetch leaves nothing behind, and a whole copy is not lost again.

**Folder of papers** (`tokenizer.cpp`, `tree_maker.cpp`, `index_for_xapian.cpp`,
`run.sh`).
State: files of tokens beside the papers, the table of papers, the database under
construction and the one handed on. Operations: each program's walk over the
folder, in any order of its files. Hard: a program stopped in the middle, and what
the next one makes of the remains; a paper that one run cannot convert, which only
a log tells. Correct when the tokenizer repairs, a finished database has each paper
once but those that its run passed over, nothing goes on with an unfinished one,
and table and database agree.

### How they interact

    author list --click--> author tree --activate--> paper tree --select--+
                                                                          v
    load buttons --> worker --CallAfter--> waiting dialog      view portal
                        |                                        |      ^
                        v                                   Load |      | loaded
          tokens, database, model                                v      |
                                          SetHtmlCode         browser --+
                        GUI thread ------------------+           | GET
                                                     v           v
                                            html_str (mutex)  acceptor
                                                                 |
                                                         ArchiveGetFile

    index.json --crawler--> tables of names and trees, compiled into the program

    list --downloader--> fresh papers --by hand--> papers --tokenizer--> tokens
                                                      |                    |
                                      tree_maker, index_for_xapian    loader of the
                                          (run.sh)                    main program
                                                      v
                                          table of papers, search database

## 2. Modules

| module | what it is | code |
| --- | --- | --- |
| `HttpResponse` | what is answered to which target | `local_http_server.cpp` 302-339 |
| `PageService` | abstract specification: an atomic page service without threads | (promise of the server) |
| `HttpServer` | the server, its two threads, the kernel's descriptors, the connections | `local_http_server.cpp` 1-342 |
| `HttpServerInvariant` | its inductive invariant | |
| `HttpServerProofs` | theorems and proofs | |
| `MCHttpServer` | small instances; its archive is `ArchiveLookup` | |
| `ArchiveLookup` | `ArchiveGetFile_Common` as an operator | `embedded_archive.cpp` 169-232 |
| `Archive`, `MCArchive` | the guarded load by several threads, the unguarded buffer | `embedded_archive.cpp` 40-60, 117-164 |
| `ArchiveProofs` | theorems and proofs | |
| `LoadDialog` | button handlers, workers, events, the language model | `GUI_Dialog_Main.cpp` 485-569, 582-624, `ai.cpp` |
| `LoadDialogProofs` | its invariant, theorems and proofs | |
| `TreeItems` | names of papers in items of 4 and of 8 bytes | `GUI_Dialog_Main.cpp` 48-98, 227-261 |
| `TreeStore` | the tree store, as operators on a store | `GUI_Dialog_Main.cpp` 104-225 |
| `AuthorPapers`, `MCAuthorPapers` | selecting an author, activating a paper | `GUI_Dialog_Main.cpp`, `tree_paper.hpp` |
| `AuthorPapersProofs` | invariant, theorems and proofs; also for names, comparator and tables | |
| `SortableList` | the comparator of the author list | `MySortableListCtrl.cpp` |
| `NameTables` | the compiled tables of authors, and the debug tab's checks | `names.hpp`, `GUI_Dialog_Main_Debug_Tab.cpp` |
| `PaperName` | names of papers as text: the parser, the printer, two patterns | `paper.hpp`, `paper.cpp`, `paperman.cpp`, `tree_maker.cpp` |
| `ViewPortal`, `MCViewPortal` | portal, browser and server composed | `view_portal.cpp` |
| `ViewPortalProofs` | its invariant, theorems and proofs | |
| `PersonNames` | when two spellings are the same person | `NameManager.hpp` 339-512 |
| `NameManager` | the disjoint-set forest, primary names, the tables | `NameManager.hpp` 514-791, `names.hpp` |
| `Crawl` | the crawler from the index to the trees | `crawl.cpp` |
| `CrawlProofs` | the matchers, the forest, the crawler's invariant: theorems and proofs | |
| `RecursionTheorems` | induction on the numbers, and that functions defined by recursion exist | |
| `EquivalentNames` | the stand-alone program, and the function it generates | `equivalent_names.cpp` |
| `Downloader` | the downloader, the two folders, the user who moves papers | `paper_downloader.cpp` |
| `PaperFolder` | tokenizer, loader, and the targets of `run.sh` | `tokenizer.cpp`, `paperman.cpp`, `tree_maker.cpp`, `index_for_xapian.cpp`, `crawl.cpp`, `run.sh` |
| `HelperTools`, `MCHelperTools` | the helper tools side by side, small instances | |
| `HelperToolsProofs` | downloader, folder, `EquivalentNames`, all tools together: invariants, theorems and proofs | |

`PROJECT.json` maps every definition that models code to its lines.

**Compositions.** `HttpServer` implements `PageService` (checked, and proved), and
`ViewPortal` uses `PageService` in the server's place: what is checked of the
portal against an atomic service holds of the portal with the threaded server.
`MCHttpServer` answers requests for files with `ArchiveLookup`, the operator that
`Archive` uses. `AuthorPapers` runs on `TreeStore` and `TreeItems`. `Crawl` and
`EquivalentNames` run on `NameManager`, which runs on `PersonNames`. `PaperFolder`
composes five programs over one folder, in whatever order they are started.
`HelperTools` puts three groups of tools side by side that share no state; an
initial choice says which group is used.

Definitions whose name has an underscore and a word for a mistake
(`Bind4_Leaks`, `AppendItem_Overwrites`) are variants of the definition that
follows them, as a plausible bug would have it. No specification uses them. They
record that each property can fail: with the definition replaced by its variant,
TLC reports the property named in `PROJECT.json` "mutants".

### State and actions against the code

*HttpServer.* Members have the names they have in the class; `m` names the holder
of the mutex. `gui` and `acc` are the control points of the GUI thread and of the
acceptor. One system call, or one assignment that the other thread can observe,
is one action: `Open4`, `Bind4`, ... follow `Start` call by call, and `Cleanup`
is its scope guard; `StopFlag`, `StopShutdown`, `StopClose`, `StopReset`,
`StopJoin` follow `Stop`. `file` maps a descriptor number to its kind and `NewFd`
is the lowest free one, as POSIX has it, so that numbers are used again. `foreign`
are the numbers the rest of the process believes it holds. While `html_str` is
assigned it is "torn". Calls whose outcome no variable of the model depends on
(`setsockopt`, `inet_pton`) are left out. `Service` is the refinement mapping:
the page of the service changes when `SetHtmlCode` takes the mutex, an answer is
made when the response is computed.

*Archive.* `guard` is the compiler's guard of the static, `at` says where each
calling thread is. `ReadArchive` may stop at every entry, since the result of
`read` is not looked at. Decompression is a function of the entry, "ok",
"corrupt" or "empty". The static buffer is two parts, its first byte, which
`GetExecutableDirectory` clears at each call, and the rest; `ReadLink` writes them
one after the other and `CopyPath` follows `MeasurePath`, so that two threads can
meet in it anywhere. An empty path makes the name of the archive relative: it is
found if the program was started in its own directory.

*LoadDialog.* `kind` selects which of four handlers runs; they differ in the
progress events, the message box, the third button and what they catch, and the
model differs in the same places. `build` says whether the language model is
compiled in and whether assertions are: without it `Init` does nothing and
`NewContext` throws, as in the build that is configured. `aimanager` has the four
pointers, `live` the objects that llama.cpp has allocated and not freed; each
object is named by the dialog that made it, so that two models can be told apart.
A context that cannot be made, a paper that does not fit and a model that is
missing are choices of the worker. `gui = "dead"` is a program that has ended by an
assertion or an exception nobody catches. `WorkerFlag`
stands apart from `WorkerLoad`, and each `Enable` reads the flag anew. An event
names its dialog, and any event loop may take it, that of a message box or of a
later dialog included.

*AuthorPapers, TreeStore.* A store is a function from items to nodes.
`AppendItem` keeps the order of the code: the parent is changed first, then the
item is inserted if it is not there. The handler is cut at each use of the
reference count. Paper names are records; `DecodeTreeItem` and
`GetPaperLatestRev` are what happens between the two trees. `PointerBytes` selects
the form of an item.

*ViewPortal.* The GUI thread follows `Set`, `SetHtml` and `Set_Common`; `nav` is
the browser's current navigation, and every load is a new connection to the
service. `MaxYields` is 2 where the code yields 16 times: a yield that finds no
event changes nothing, and at most one event can be pending at that time.

*SortableList, PaperName, NameTables, EquivalentNames.* Algorithms without state.
A click on a header sorts a whole list at once, the debug tab checks whole tables:
the properties quantify over every small input and are evaluated in one initial
state (`AtFirst`). Names of papers are sequences of characters, since what goes
wrong there goes wrong at a digit more or less. With assertions the loader of
tokens stops at a paper of number 0; `LoadedPaper` is what it makes of it without.
`Compare_MSLC` is given the
list as the control has it at that moment, and looks both items up in it: one that
is not found makes the answer "equal". What a sort makes of such answers depends on
how the control sorts, which is not in the repository. `ExchangesSort` is about a
control that exchanges neighbours while all items stand in it,
`InsertionsDoNothing` about one that takes an item out and asks where to insert it
(`PutBackAt`). `lower_bound` is the halving loop
of the library, since the lookups depend on where it stops in a table with equal
hashes; hashes are given, and may collide.

*Crawl, NameManager, PersonNames.* A spelling is a model value; `Words` gives the
words that lower case, punctuation and accents leave of it, as sequences of
letters, and the matchers work on those. The order of `std::map` is the order of
`Names`. `Compare` is one turn of the inner loop of `AddNames`, with the path
halving of `Find`. The crawler makes a second manager from the same names; it has
the same clusters, and the model keeps one. `std::ranges::sort` is not stable, but
always decides in the same way between names of equal key: `CHOOSE`. Entries of
the index that the loop skips are left out, a duplicate entry and one without
authors are not.

*Downloader.* `infile` and `missing` are what the run still has to read and to
fetch; one action per line scanned and per thing that can become of a paper. A file
holds all of what was fetched, some of it, or the page a server reports an error
with: `CURLOPT_FAILONERROR` is not set, so that page is kept like a paper.
`OpenFile` truncates, so a paper whose URL ends like that of another takes the
other's place. `Stopped` may come at any point; `MoveFreshPapers` is the user.
`moves_first` tells users who move the papers before they start the next run from
those who may not. `tried` and `cut_short` are history.

*PaperFolder.* One program runs at a time: `at` says which and where, `todo` what
its `directory_iterator` has still to visit, in any order. A file of tokens is
absent, empty, torn between two tokens, torn within one ("ragged", which makes the
loader give up), or whole. `tokenized` says how the last run of the
tokenizer went. `index_for_xapian` comes to each file once: `AddDocument` adds it,
`PassOver` is a file without text or one that this run cannot open or convert
(`common.cpp` 222-226, 250-254), which no result tells; `CloseDatabase` is the
destructor that commits at the end of `main`, and may lose what it cannot commit.
`missed` is the history of both. `OpenCopy` and `EndCopy` are
`xapian-compact`, which writes straight to the file the main program opens: in
between, that file is unfinished. `run.sh` is a list of targets that the first
failure cuts short (`set -e`). The database under construction is made with `DB_CREATE`, so that
remains of an earlier run stop the next until somebody removes them
(`RemoveDatabase`).

## 3. Runs

| run | question | states |
| --- | --- | --- |
| `http_server` | Does the server answer as `PageService` does, own what it closes and leave nothing behind, whatever the threads' interleaving? | 1,042,083 |
| `http_server_live` | Do `Start`, `Stop` and `SetHtmlCode` return, and are requests answered? Is a failed `Start` clean, also when the thread cannot be spawned? | 58,120 |
| `http_server_spawn_fails` | **violated**: a thread that cannot be spawned makes `Stop` close a number a second time | |
| `archive` | Does the same name get the same answer, and an exact name its paper? When can a thread miss the directory of the executable? | 185,145 |
| `archive_prefix` | **violated**: `p1r1` is answered with `p1r10` | |
| `load_dialog` | Do events find their dialog and handlers return when dialogs are closed early, do the buttons agree with what is loaded when they are not, what of llama.cpp is held, and what can the program die of? | 369,441 |
| `load_dialog_tokens` | **violated**: a load that fails half way runs into an assertion when it is tried again | |
| `author_papers` | Do the assertions on reference count and tree hold, do trees stay finite and free of strangers, and are all papers shown when none is listed twice? In the initial state: the names of papers, the comparator, the tables and their checks | 474,661 |
| `author_papers_repeated` | **violated**: a paper listed twice hides those between | |
| `view_portal` | Does the portal rest on the last choice, and is every choice shown? | 19,089 |
| `view_portal_no_server` | **violated**: without a server an exception leaves a `noexcept` function | |
| `helper_tools` | Crawler: are clusters connected components, are credits kept, do the tables and the trees agree, are the matchers exact? Downloader: is a line overlooked, a copy lost? Folder: what does a later run repair, and is what is handed on whole? | 914,068 |

### Bounds, and why they are enough

* *HttpServer*: two connections, since the acceptor holds one while another
  waits or is made; two pages, so that one can be told from the other; three
  descriptors, which the listening socket, a connection and up to two foreign files
  share, so that `accept` and `socket` also fail for want of one; a backlog of one,
  full with one waiting connection (the code has 8). Clients are symmetric where only safety is checked.
* *Archive*: two callers, the loader and one that waits (today only the acceptor
  comes so far, and the guard is there for a second), and a third thread that opens
  the search database again and again. A file that is missing, empty or has
  two or three entries of which one name begins another or one is damaged; a system
  without `/proc`.
* *LoadDialog*: four dialogs and one that may be closed early and still wait for
  its end: a model loaded, one loaded over it from a button that has not been told,
  papers loaded and whittled takes four, and an event of the first can meet the
  others. `MaxDialogs` also ends the runs, and `Wait` stands for what may follow.
  `load_dialog_tokens` needs two.
* *AuthorPapers*: a catalogue of five papers with two revisions of one paper
  before and after another, lists up to three with every repetition, and up to
  four without.
* *Names, tables, comparator*: 18,660 names of papers, made of every character that
  decides anything at every place where it does; lists of up to four items, in every
  order in the control, with empty or unreadable cells; tables of up to two primaries and two alternatives over
  hashes that collide.
* *Crawl*: seven spellings. Four are linked only through one of them; one has a
  hard-coded primary that is itself computed to be an alternative, one has a
  primary that the table declares nobody else's, and that primary would pass for a
  typo of others. Two entries of up to three authors, for two revisions of one
  paper or twice for one. The matchers are compared with their definitions on all
  words of up to four letters over two, `FindAuthor` with its own on every subset of
  the seven. The tools end: deadlock is not checked.
* *Downloader*: four lines, of which one's name begins another's and two have URLs
  that end alike; two runs, stopped anywhere, before or after the move.
* *PaperFolder*: a paper in two formats, one whose name the loader does not know,
  a document without number and text, in every subset of them; two programs
  started, so that each meets what each other has left, finished or not. The theorems
  hold without these bounds.
* *ViewPortal*: the welcome page and three selections, which are five loads, since
  the first loads another page before its own; `MaxLoads` is 6, as a selection needs
  room for two. One paper is in the archive, one is not.

### Fairness

`ThreadFairness` gives weak fairness to the steps of each thread, which the
operating system schedules, and strong fairness to taking the mutex: its holder
always releases it after a string copy, and glibc's mutex wakes a waiter.
`ClientFairness` says that a browser that connects sends a request or hangs up:
`read` has no timeout, and without that assumption `RequestsAnswered` fails, since
a silent connection holds up all the others. `LoadDialog` assumes
that both threads run and that a message box is dismissed, but not that anybody
clicks or closes; `ViewPortal` that the GUI thread, the browser and the service
make progress. Nothing obliges a user to act. The helper tools have no liveness
property: what a user starts may be stopped at any time.

## 4. Proofs

*HttpServer.* For every number of connections, pages, ports and descriptors (the
assumption `HttpServerAssumption` says only that they are numbers and that some
port exists), TLAPS checks:

| theorem | statement | assumes |
| --- | --- | --- |
| `TypeCorrectness` | `Spec => []TypeOK` | |
| `RepliesAnswerRequests` | `Spec => []EveryReplyAnswersItsRequest` | |
| `ServerImplementsPageService` | `Spec => ImplementsPageService` | |
| `EverythingIsOwned` | `Spec => []IInv` | `SpawnSucceeds` |
| `StopLeavesNothing`, `ListeningServerServes`, `ForeignFilesStayOpen` | the three socket properties | `SpawnSucceeds` |

`SpawnSucceeds` is `~SpawnMayFail`: without it `ForeignFilesIntact` is false, as
`http_server_spawn_fails` shows, so the hypothesis is the exact price of that bug.

*The argument.* The invariant has two halves. `AnswerInv` is about what is
answered, and needs nothing about sockets: who holds the mutex is in its critical
section (`MutexHeld`), the connection in the acceptor's hands asked for what is
being answered (`ServedAgrees`), and the connections that wait are distinct, made
and unanswered (`WaitingAgrees`). The last is what a first attempt lacks: without
it `Accept` could take a connection that has its answer. It also needs that no two
acceptors live at once (`OneAcceptor`). `SocketInv` is about what is open:
`MySocket` says at each control point which number is the server's own, and
`FilesOwned` that a descriptor has a kind exactly when its owner says so. That is
what makes `close` safe at each of its five places, and what fails between the two
closes when the thread cannot be spawned. `MembersAgree` and `ThreadLives` tie the
members and the thread to the control point.

Each proof goes by the actions of `Next`, first the variables an action leaves
alone, then one step per conjunct it can disturb. `HttpServerProofs` ends with
the refinement: each action is a step of `PageService` under the mapping, or a stutter.

*Archive.* For any threads, names and archives:

| theorem | statement |
| --- | --- |
| `ArchiveTypes` | `Spec => []TypeOK` |
| `EqualNamesEqualAnswers` | `Spec => []AnswersAgree` |
| `DirectoryRace` | `Spec => DirectoryIsLostOnlyInARace` |
| `ExactNamesAreExact` | `Spec => []ExactNameGetsItsPaper` |

`AnswersAgree` needs that one caller at most is between the guard and its end
(`OneLoader`), that nobody has an answer before it is there, and that answers are
what the memory says (`AnswersFollowLoad`): the archive is then written only while
there is no answer to contradict. `DirectoryRace` rests on `BufferInv`: who has
written the path finds it whole unless another thread is just about to write.
`ExactNameGetsItsPaper` needs `MemoryIsOfDisk`: what is in memory is a beginning of
the file, wherever the read stopped, so that whatever entry a name with its dot
meets is one of the file. Without the dot it is false, as `archive_prefix` shows.

*LoadDialog.* For any number of loads and of dialogs closed early, in each of the
four builds:

| theorem | statement |
| --- | --- |
| `LoadInvariant` | `Spec => []LoadInv` |
| `NoEventIsLate` | `Spec => []EventsFindTheirDialog` |
| `SearchesFindDatabase` | `Spec => []SearchNeedsDatabase` |
| `ButtonsAreTrue` | `Spec => []ButtonsTellTheTruth` |
| `NothingHeldIsFreed` | `Spec => []HeldObjectsAreLive` |
| `OneModelDecodes` | `Spec => []DecodesWithOneModel` |
| `NoOtherDeath` | `Spec => []DeathsAreKnown` |

`EventsFindTheirDialog` is inductive only with `DestroyComesLast`: the event that
destroys a dialog is the last of that dialog in the queue, and is there only once
its worker has no more to post. `SearchAgrees` and `ButtonsAgree` say at each control
point which buttons are still behind; they rest on `FlagIsTrue`, that the worker's
flag, while a handler is running, is only ever set for what is loaded. `PointersAgree`
ties the four pointers of `g_aimanager` to each other and, where dialogs cannot be
closed early, lets the buttons forbid a second model over the first, which is what
would leak.

*ViewPortal.* `PortalInvariant` (`Spec => []PortalInv`) and `PortalRestsOnChoice`
(`Spec => []RestsOnChoice`), for any papers and number of loads. Each load has a
number and the browser is only ever busy with the last (`LoadsTheLast`), each is
answered with what it asked for (`AnswersAreRight`), and the welcome page is in the
server before the first (`WelcomeFirst`).

*AuthorPapers.* For any catalogue of papers as `paper.hpp` asserts them (numbers from
1 to 9999, revisions up to 99), lists of any length and either size of pointer:

| theorem | statement |
| --- | --- |
| `PageInvariant` | `Spec => []PageInv` |
| `CountsAreAsAsserted` | `Spec => []RefCountsAsAsserted` |
| `ActivatedIsThere` | `Spec => []ActivatedPaperExists` |
| `TreesStaySound` | `Spec => []TreesAreSound` |
| `DistinctAreShown` | `Spec => []DistinctPapersShown` |

That the loop of `GetChildren` ends is a termination proof. `Sound` says that the items
of a store have ranks below its size and each stands above its prior sibling;
`AppendItem` puts a new item above all others (`AppendIsSound`), and an item that is
already there changes no sibling. The walk then goes down with every step
(`WalkDescends`). That an author with distinct papers is shown all of them needs more:
each item is on the walk that starts at its own parent (`AllReached`), a new item puts
itself before the old children (`WalkAppended`), and the encodings keep distinct papers
apart (`ItemsDiffer`), so that no item is ever appended twice. Without the hypothesis
it is false, as `author_papers_repeated` shows. `Walk` is a recursive function on the
numbers: that it exists, and is what its definition says, is proved here by hand
(`WalkIsDefined`), and inductions along it take the least counterexample of a set
(`LowestNumber`), which needs no rule with an operator as parameter.

*TreeItems, PaperName, SortableList, NameTables* (in `AuthorPapersProofs`). What the
run `author_papers` evaluates in its initial state is proved for every input, and then
for the run's own:

| theorem | for which inputs | statement |
| --- | --- | --- |
| `ItemsKeepNames` | any catalogue, either size of pointer | `ItemsKeepTheirNames` |
| `AllNamesAgree` | names of any characters and any length | `NamesAgree(names)` |
| `PapersKeepNames` | any numbers of four digits | `PapersKeepTheirNames(nums)` |
| `AnyListSortsByExchanges` | lists of any length, any cells | `OnlyExchangesSort(cells, n_col, most)` |
| `DebugTabExact` | any names, any hash function, tables of any length | `DebugTabIsExact(...)` |
| `IdentityIsKept`, `AuthorsAreSorted`, `TablesAreExact` | those of the run | `PapersKeepTheirIdentity`, `AuthorsSortByExchanges`, `DebugTabIsExactOnTables` |

The number in a name is read digit by digit and written with divisions; each of the
four digits is recovered by itself, and the constructor's test of where the name ends
says how many digits the revision has. That proof needs the alternatives of
`RevisionDigits` to exclude each other, as the code's `if`s do. The comparator
finds whatever stands in the control (`FoundOnesCompare`), so that its answers are
those of the cells; an item taken out of a list without repetitions is nowhere in it
(`TakenOutIsLost`), and every answer about it is "equal" (`LostOnesAreEqual`). For the
tables, insertion gives a permutation in order, and `lower_bound` keeps an interval
that holds the place it looks for (everything before it is smaller, nothing after it
is), so that each lookup finds an entry exactly if there is one. With distinct hashes
it is then the right one.

*Crawl* (in `CrawlProofs`). For any spellings, words, hard-coded names and entries of
the index:

| theorem | statement |
| --- | --- |
| `TypeCorrect` | `Spec => []TypeInv` |
| `ClustersCorrect` | `Spec => []ClustersAreComponents` |
| `CreditsKept` | `Spec => []CreditsAreKept` |
| `NamesConsistent` | `Spec => []NamesAreConsistent` |
| `PapersNamed` | `Spec => []PapersNameTheirAuthors` |
| `MatchersExact` | `MatchersAreExact(letters, length)`, for any letters and any length |

Assumed are `HardcodedAssumption`, that no name is in both hard-coded tables and none an
alternative of itself, as the tables in `NameManager.hpp` (257-325) have it, and `CrawlAssumption`: that a `std::map` has each
spelling once, that an author square holds spellings, and that revisions and the
fields of a sort key are numbers.

*The argument.* The forest first. `Rooted` gives every name a root and a depth that
falls towards it. The halving in `Find` keeps both (`HalveKeepsRoots`), so a walk of
as many steps as there are names ends at the root (`FindFindsRoot`), and `Unite`
joins exactly two trees (`UniteJoins`). `ManagerInv` says that two
names compared and taken for each other have one root, and that no tree leaves a set of
names that is closed under similarity: the first says that clusters are large enough,
the second that they are not too large. A name that is nobody else's stays alone.
`CreditsInv` counts: the credits of the spellings together for a paper are the
mentions that have been read, and a merge moves credits from one list to another.
`QueueInv` says what is left to merge. `ReadInv` and `MergeInv` say who holds the
papers while the lists are merged: the primary that
the table gives, or a spelling still in the queue. `WrittenInv` carries that
into the trees. `CrawlInv` is all of these together. `NamesAreConsistent` has the
hypothesis `TableIsFlat`, since a hard-coded primary may be an alternative of
another name. In the proofs, a cluster has a foremost name because it is finite and
its sort keys are numbers.

The order of names is a recursive function in `Crawl` (`InNameOrder`), and so are
`IsSubsequence`, `Find` and the loops of `EquivalentNames`. `RecursionTheorems` proves
what their proofs need: that a set of numbers closed under successors has all of them
(`Induction`), and that a function defined along the numbers exists and obeys its
definition (`Recursion`, for a next value given as a function), where the
theorems of the library take an operator as a parameter. For
`MatchersExact` the greedy choice of `IsSubsequence` is shown to be at least as far
as any other at every letter (`GreedyIsEnough`), and the single mismatch of
`OneSkipped` to be the letter left out.

*EquivalentNames* (in `HelperToolsProofs`). `FindAuthorExact`: for every list of
different names, `FindAuthorIsExact(names)`; `SpellingsMatchedExactly`:
`HelperSpec => []SpellingsAreMatchedExactly`, for any names. The two loops keep a
forest in which every pair compared and alike has one root, and which no closed set
is left by (`InnerLoopIsSound`, `AllAreUnited`). The longest name of a cluster then
is in it (`LongestIsThere`), so that two clusters never share an entry
(`FindAuthorFinds`).

*Downloader* (in `HelperToolsProofs`). For any list, any names of files and any number of runs:

| theorem | statement |
| --- | --- |
| `DownloaderInvariant` | `DownloaderSpec => []DownloaderInv` |
| `LinesAreNotOverlooked` | `DownloaderSpec => []NoPaperIsOverlooked` |
| `FailedFetchesLeaveNothing` | `DownloaderSpec => []CutFilesHaveACause` |
| `WholeCopiesStay` | `DownloaderSpec => CompletePapersAreKept` |

That nothing is overlooked follows from `LinesAreSeen`: each line is still to be
read, still to be fetched, tried or there. That whole copies stay needs more. A copy
could be lost when its file is opened again, or when a move puts another file over
it. The first cannot be because a run comes to each line once (`LinesComeOnce`) and
the fresh files are of lines already tried (`FreshOnesWereTried`, which is false
unless papers are moved first). The second cannot be because a paper that is there
is found and not fetched (`NothingIsFetchedTwice`), and files have the names of
their papers (`NamesAreFinal`). `Unambiguous` is the hypothesis the code asks for:
the URL ends in the paper's own name, and in no other paper's.

*PaperFolder* (in `HelperToolsProofs`). For any papers, names, folder and number of runs:

| theorem | statement |
| --- | --- |
| `FolderInvariant` | `FolderSpec => []FolderInv` |
| `TokensAreRepaired` | `FolderSpec => []RerunRepairsTokens` |
| `LoadsAreWhole` | `FolderSpec => []LoadAfterRepairIsWhole` |
| `DatabasesAreWhole` | `FolderSpec => DatabaseIsHandedOnWhole` |

The invariant has two halves. `TokensInv` says what a walk has done so far: whatever
has text is whole or still to be visited (`TokenizedSoFar`, `LoadedSoFar`), and only
what has text has tokens (`TokensHaveText`), without which the loader could come to
a file the tokenizer does not repair. `ScriptsInv` does the same for table and
database, and needs to know where `run.sh` can still go (`TargetsLeft`): only then
is the table that `index_for_xapian` leaves beside the database that of the same run
(`ReadyForIndex`). `IndexedSoFar` says of each file that it is in the database
once, or still to be visited, without text, or in `missed`. The copy is then whole when it is finished (`CopyIsWhole`), and
nothing else reaches `crawl` within "all" (`OnlyWholeGoesOn`). Most of the proof is one step per action and conjunct; an action
that leaves one half alone is dealt with once (`TokensAside`).

*HelperTools.* `ToolsAreCorrect`: in any behaviour of the tools side by side, each
has the properties above. A step of one group leaves the others' variables alone,
so the behaviour is one of each group by itself (`ToolsStandAlone`).

*Only model-checked*: the liveness properties `GuiCallsReturn`, `RequestsAnswered`,
`HandlersAndDialogsEnd` and `ChoicesAreShown`, since fairness and `ENABLED` are not
within the prover's reach. So is `StoppedIsClean` where threads cannot be
spawned, which `http_server_live` checks. Every other invariant and action property of a passing
run is a theorem.

## 5. What the violations show

Each is a disagreement between the code and its own words; `PROJECT.json`
"findings" quotes both.

1. *Spawn fails*: `Start` stores the socket in `server_fd` before it spawns the
   thread. If that throws, the scope guard closes the socket and `Stop` closes the
   same number again.
2. *Prefix*: the server asks the archive for a name without its dot.
3. *Tokens*: a load that throws half way leaves tokens behind and the button
   enabled; the next click fails an assertion. (A release build without
   assertions loads on top of what is there.)
4. *Repeated paper*: an item appended twice becomes the last child without moving.
   The shipped data has two such authors.
5. *No server*: `Set_Common` throws an `int` through `noexcept` functions that
   catch only `std::exception`.

Met on the way, without a run of its own:

* A file of 0 bytes counts as loaded and then fails the assertion that it has some
  (`embedded_archive.cpp` 160).
* The worker that opens the search database and the acceptor that loads the archive
  share the buffer of `GetExecutableDirectory`; when they meet there, the archive
  may be taken for missing until the program is started again.
* The debug tab does not set `alarm` in its last two checks
  (`GUI_Dialog_Main_Debug_Tab.cpp` 391-407): it says "sorted by hash without
  duplicates" also below a duplicate that it has just reported.
* A second `run.sh all` without removing the database fails at `index_for_xapian`
  (`DB_CREATE`), so `crawl` does not run and the table left behind is
  `tree_maker`'s, in its older format, over the one that `crawl` wrote before
  (`tree_maker.cpp` 128, `crawl.cpp` 354).
* A search result is shown by making a `Paper` of its document's name
  (`GUI_Dialog_Main.cpp` 693); for a document that is no numbered paper the
  constructor throws.
* The downloader keeps a server's error page as a paper, and does not look at the
  results of its writes (`paper_downloader.cpp`).
* A spelling of which normalisation leaves nothing is a prefix of every other and
  unites all clusters it is compared with (`NameManager.hpp` 493).
* `enumerate_authors` opens the directory it was given instead of the file it has
  found in it. `GetAllAlternatives` (`names.hpp`) looks for a range by the wrong key;
  nobody calls it.
* The comparator looks the items up in the control that is being sorted and takes one
  that it does not find for equal (`MySortableListCtrl.cpp` 49-53; the comment in
  line 52 asks why that happens). A control that exchanges items is sorted all the
  same; one that holds an item outside while it compares leaves that item where it
  was, whatever its cells say.
* `index_for_xapian` returns 0 though it has passed over papers that it could not open
  or convert, and would do so if its last commit failed, which a destructor does not
  tell: `run.sh` then hands on a database without those papers
  (`common.cpp` 222-226 and 250-254, `index_for_xapian.cpp` 48-50). The model has
  both; `DatabaseIsHandedOnWhole` says that nothing else can be missing.
* `xapian-compact` writes straight to the file that the main program opens
  (`run.sh` 27): when it is stopped, a part of a database stays there, in the place of
  the one that was there before.
* An entry of the archive that is empty or does not decompress is answered with the
  error page but with the extension of the entry, so the page is served as PDF
  (`embedded_archive.cpp` 203, against the comment in line 171).

## 6. Not modelled, and why

* Other platforms: the winsock branches, and the inactive server variants after
  line 342.
* A request is one segment, read by one `read`: a GET over loopback. The write to
  a client that has hung up is a write whose result is ignored. Whether SIGPIPE
  then ends the process depends on what the libraries in it have done with that
  signal, and nothing is claimed of it.
* Decompression, tar parsing beyond the order of entries, and what Xapian finds:
  external libraries, functions of their input.
* How a window manager closes a dialog is external: `can_close_early` says whether.
* A response that ends with the connection instead of after a stated length and is
  cut short counts as complete for the downloader (`CURLE_OK`) and leaves a cut file
  that nothing reports. The model has only transfers whose end can be told:
  `CutFilesHaveACause` says nothing of the others.
* The download tool ends before it reaches the archive, since nothing assigns the
  name of the current paper; `Archive` has its name with the dot all the same.
* The build is that without `PAPERKERNEL_EMBED_ARCHIVE` and with
  `PAPERKERNEL_INDIVIDUAL_COMPRESSION`, as configured; `LoadDialog` has the builds
  with and without `PAPERKERNELCXX_USE_AI` and assertions.
* Vendored headers of wxWidgets, pictures written as C arrays, generated forms and
  the generated tables of names and trees: nearly all the lines of the repository,
  third-party code and data in which the program decides nothing. The initial state
  of the generated buttons is that of `LoadDialog`.
* `summarise`, `enumerate_authors`, the scraping of titles and authors: conversions
  by external libraries, functions of their input, whose results feed each other.
* What is decoded by the language model, and the sampling of its answers.
* The tool panes of the main window: two booleans of which one stays true.

## 7. Plan

Order of work, most important behaviour first; done unless marked.

1. `PageService`, `HttpResponse`, `HttpServer` and its proofs.
2. `ArchiveLookup`, `Archive`.
3. `LoadDialog`.
4. `TreeStore`, `AuthorPapers` and its proofs.
5. `ViewPortal`, which composes the portal with `PageService`.
6. `PersonNames`, `NameManager`, `Crawl`.
7. `TreeItems`, and the language model in `LoadDialog`.
8. `PaperName`, `SortableList`, `NameTables`, `EquivalentNames`.
9. `Downloader` and `PaperFolder` over several runs stopped anywhere, and their
   proofs.
10. *Planned*: the registry of controls behind `Reservable`
    (`reservations_multithreaded.hpp`), the tool panes of the main window,
    `summarise` and `enumerate_authors`.

Theorems worth proving next: `StoppedIsClean` where threads cannot be spawned, which
needs an invariant that allows the second `close`; an abstract specification of the
crawler (papers by person) that `Crawl` implements; those of the planned modules.
