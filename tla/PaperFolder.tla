----------------------------- MODULE PaperFolder -----------------------------
(***************************************************************************)
(* The folder of papers and the programs that work through it: the         *)
(* tokenizer (tokenizer.cpp), which leaves a file of tokens beside each    *)
(* paper; the loader of the main program that reads them (paperman.cpp);   *)
(* and the targets of run.sh that make the table of papers                 *)
(* (tree_maker.cpp, and crawl.cpp after it) and the search database        *)
(* (index_for_xapian.cpp).  They run one at a time and can be stopped      *)
(* anywhere.                                                               *)
(***************************************************************************)
EXTENDS Naturals, Sequences

CONSTANTS
    Sources,    \* the papers' files
    Blank,      \* those that no text can be got from
    Stem,       \* Stem[s]: the name of s without its extension
    PaperOf,    \* PaperOf[t]: the paper that tree_maker's pattern finds in t
    NoPaper,    \* PaperOf[t] if it finds none
    Loadable,   \* the stems that the loader's pattern matches
    MaxRuns     \* bound on the programs started

Stems == {Stem[s] : s \in Sources}

ASSUME PaperFolderAssumption ==
    /\ Stem \in [Sources -> Stems] /\ Sources \cap Stems = {}
    /\ Blank \subseteq Sources /\ MaxRuns \in Nat
    /\ DOMAIN PaperOf = Stems
    /\ Loadable \subseteq {t \in Stems : PaperOf[t] # NoPaper}

Numbered == {PaperOf[t] : t \in Stems} \ {NoPaper}

\* What a file of tokens holds: a torn one a part of what was to be written, a
\* ragged one a part that ends within a token.
TokenFiles == {"absent", "empty", "torn", "ragged", "whole"}

VARIABLES
    folder,         \* the papers' files that are there
    tokens,         \* stem -> its file of tokens
    memory,         \* paper -> what the main program has loaded for it
    at,             \* the program that runs and where it is; "shell" for none
    script,         \* the targets run.sh was given
    targets,        \* those it has still to come to
    todo,           \* the files the program has still to visit
    output,         \* the stem whose tokens were opened last
    papers,         \* the files tree_maker has taken up
    table,          \* AUTO_GENERATED_tree_contents_paper.hpp: which program made
                    \* it, whether it is finished, and tree_maker's files
    multiple_files, \* the database being made: whether it is there, and how
                    \* often each file is in it
    database,       \* the one that the main program opens: whether it is
                    \* finished, and how often each file is in it
    runs,           \* the programs started
    tokenized,      \* history: how the last run of the tokenizer has gone
    missed          \* history: the files that the last run of index_for_xapian
                    \* has left out, saying so in a log at most

inputs == <<folder, tokens>>
locals == <<todo, output, papers, missed>>
artifacts == <<table, multiple_files, database>>
folder_vars == <<inputs, memory, at, script, targets, locals, artifacts, runs, tokenized>>

\* A file of tokens goes by its stem here.
Listing == folder \cup {t \in Stems : tokens[t] # "absent"}
PaperIn(file) == PaperOf[IF file \in Sources THEN Stem[file] ELSE file]
NoDocuments == [s \in Sources |-> 0]
NoTokens == [p \in Numbered |-> "absent"]

\* A directory_iterator visits the files in any order.
Visit(file) == file \in todo /\ todo' = todo \ {file}

\* run.sh goes on to its next target if there is one.
ProgramReturns ==
    /\ at' = IF targets = <<>> THEN "shell" ELSE Head(targets)
    /\ targets' = IF targets = <<>> THEN <<>> ELSE Tail(targets)

\* set -e
ProgramFails == at' = "shell" /\ targets' = <<>>

Begin(program) == at = "shell" /\ runs < MaxRuns /\ runs' = runs + 1 /\ at' = program

-----------------------------------------------------------------------------
(* The tokenizer.                                                          *)

RunTokenizer ==
    /\ Begin("tokenizer")
    /\ todo' = folder /\ tokenized' = "so_far"
    /\ UNCHANGED <<inputs, memory, script, targets, output, papers, missed, artifacts>>

Tokenize_SkipsDone(s) ==
    /\ at = "tokenizer" /\ Visit(s)
    /\ \/ /\ s \in Blank \/ tokens[Stem[s]] # "absent"
          /\ UNCHANGED <<tokens, at, output, tokenized>>
       \/ /\ s \notin Blank /\ tokenized' = "failed" /\ UNCHANGED <<tokens, at, output>>
       \/ /\ s \notin Blank /\ tokens[Stem[s]] = "absent"
          /\ at' = "write" /\ output' = Stem[s]
          /\ tokens' = [tokens EXCEPT ![Stem[s]] = "empty"] /\ UNCHANGED tokenized
    /\ UNCHANGED <<folder, memory, script, targets, papers, missed, artifacts, runs>>

\* A paper without text is skipped.  One that is too big, or that cannot be
\* tokenised, and one whose output cannot be opened, are only logged.  The
\* output is truncated otherwise, also if another file has the same stem.
Tokenize(s) ==
    /\ at = "tokenizer" /\ Visit(s)
    /\ \/ s \in Blank /\ UNCHANGED <<tokens, at, output, tokenized>>
       \/ s \notin Blank /\ tokenized' = "failed" /\ UNCHANGED <<tokens, at, output>>
       \/ /\ s \notin Blank /\ at' = "write" /\ output' = Stem[s]
          /\ tokens' = [tokens EXCEPT ![Stem[s]] = "empty"] /\ UNCHANGED tokenized
    /\ UNCHANGED <<folder, memory, script, targets, papers, missed, artifacts, runs>>

\* A write that fails is only logged, too.
WriteTokens ==
    /\ at = "write" /\ at' = "tokenizer"
    /\ \E how \in TokenFiles \ {"absent"} :
        /\ tokens' = [tokens EXCEPT ![output] = how]
        /\ tokenized' = IF how = "whole" THEN tokenized ELSE "failed"
    /\ UNCHANGED <<folder, memory, script, targets, locals, artifacts, runs>>

EndTokenizer ==
    /\ at = "tokenizer" /\ todo = {} /\ at' = "shell"
    /\ tokenized' = IF tokenized = "so_far" THEN "all" ELSE tokenized
    /\ UNCHANGED <<inputs, memory, script, targets, locals, artifacts, runs>>

-----------------------------------------------------------------------------
(* The loader.                                                             *)

\* assert( tokens.empty() ): the main program has just been started.
RunLoader ==
    /\ Begin("loader")
    /\ todo' = Listing /\ memory' = NoTokens
    /\ UNCHANGED <<inputs, script, targets, output, papers, missed, artifacts, tokenized>>

LoadTokens_StopsAtOther(t) ==
    /\ at = "loader" /\ Visit(t)
    /\ IF t \notin Loadable THEN at' = "loaded" /\ UNCHANGED memory
       ELSE memory' = [memory EXCEPT ![PaperOf[t]] = tokens[t]] /\ UNCHANGED at
    /\ UNCHANGED <<inputs, script, targets, output, papers, missed, artifacts, runs,
                   tokenized>>

\* Files with other names are skipped.  A file that cannot be read, or not in
\* whole tokens, ends the load with an exception.
LoadTokens(t) ==
    /\ at = "loader" /\ Visit(t)
    /\ \/ t \notin Loadable /\ UNCHANGED <<at, memory>>
       \/ t \in Loadable /\ at' = "shell" /\ UNCHANGED memory
       \/ /\ t \in Loadable /\ tokens[t] # "ragged" /\ UNCHANGED at
          /\ memory' = [memory EXCEPT ![PaperOf[t]] = tokens[t]]
    /\ UNCHANGED <<inputs, script, targets, output, papers, missed, artifacts, runs,
                   tokenized>>

EndLoader ==
    /\ at = "loader" /\ todo = {} /\ at' = "loaded"
    /\ UNCHANGED <<inputs, memory, script, targets, locals, artifacts, runs, tokenized>>

\* The main program is closed.
Close ==
    /\ at = "loaded" /\ at' = "shell" /\ memory' = NoTokens
    /\ UNCHANGED <<inputs, script, targets, locals, artifacts, runs, tokenized>>

-----------------------------------------------------------------------------
(* The targets of run.sh.                                                  *)

RunScript(what) ==
    /\ Begin(Head(what)) /\ targets' = Tail(what) /\ script' = what
    /\ UNCHANGED <<inputs, memory, locals, artifacts, tokenized>>

\* The table is opened, and so truncated, before the folder is looked at.
OpenTable ==
    /\ at = "tree_maker" /\ at' = "table"
    /\ table' = [maker |-> "tree_maker", finished |-> FALSE, files |-> {}]
    /\ todo' = Listing /\ papers' = {}
    /\ UNCHANGED <<inputs, memory, script, targets, output, missed, multiple_files,
                   database, runs, tokenized>>

\* A second file of the same paper and revision aborts the program.
TakeUp(file) ==
    /\ at = "table" /\ Visit(file)
    /\ IF PaperIn(file) # NoPaper /\ \E f \in papers : PaperIn(f) = PaperIn(file)
       THEN ProgramFails /\ UNCHANGED papers
       ELSE /\ papers' = IF PaperIn(file) = NoPaper THEN papers ELSE papers \cup {file}
            /\ UNCHANGED <<at, targets>>
    /\ UNCHANGED <<inputs, memory, script, output, missed, artifacts, runs, tokenized>>

WriteTable ==
    /\ at = "table" /\ todo = {} /\ ProgramReturns
    /\ table' = [maker |-> "tree_maker", finished |-> TRUE, files |-> papers]
    /\ UNCHANGED <<inputs, memory, script, locals, multiple_files, database, runs, tokenized>>

CreateDatabase_OrOpens ==
    /\ at = "index_for_xapian" /\ at' = "index" /\ todo' = folder /\ missed' = {}
    /\ multiple_files' = [multiple_files EXCEPT !.there = TRUE]
    /\ UNCHANGED <<inputs, memory, script, targets, output, papers, table, database,
                   runs, tokenized>>

\* DB_CREATE: a database that is there already is an exception.
CreateDatabase ==
    /\ at = "index_for_xapian"
    /\ IF multiple_files.there
       THEN ProgramFails /\ UNCHANGED <<todo, missed, multiple_files>>
       ELSE /\ at' = "index" /\ todo' = folder /\ missed' = {} /\ UNCHANGED targets
            /\ multiple_files' = [there |-> TRUE, documents |-> NoDocuments]
    /\ UNCHANGED <<inputs, memory, script, output, papers, table, database,
                   runs, tokenized>>

\* A file that has no text is skipped, and so is one that cannot be opened or
\* converted this time.  Both are only logged.
PassOver(s) ==
    /\ at = "index" /\ Visit(s) /\ missed' = missed \cup {s}
    /\ UNCHANGED <<inputs, memory, at, script, targets, output, papers, artifacts, runs,
                   tokenized>>

AddDocument(s) ==
    /\ at = "index" /\ Visit(s) /\ s \notin Blank
    /\ multiple_files' = [multiple_files EXCEPT !.documents[s] = @ + 1]
    /\ UNCHANGED <<inputs, memory, at, script, targets, output, papers, missed, table,
                   database, runs, tokenized>>

Added == {s \in Sources : multiple_files.documents[s] > 0}
DocumentsWithout(lost) ==
    [multiple_files EXCEPT !.documents = [s \in Sources |-> IF s \in lost THEN 0 ELSE @[s]]]

\* The destructor of the database commits what was added last.  It would keep it
\* to itself that it cannot.
CloseDatabase ==
    /\ at = "index" /\ todo = {} /\ at' = "compact"
    /\ \E lost \in SUBSET Added :
        multiple_files' = DocumentsWithout(lost) /\ missed' = missed \cup lost
    /\ UNCHANGED <<inputs, memory, script, targets, todo, output, papers, table, database,
                   runs, tokenized>>

\* xapian-compact writes to the file that the main program opens.
OpenCopy ==
    /\ at = "compact"
    /\ \/ ProgramFails /\ UNCHANGED database
       \/ /\ at' = "copy" /\ UNCHANGED targets
          /\ database' = [finished |-> FALSE, documents |-> NoDocuments]
    /\ UNCHANGED <<inputs, memory, script, locals, table, multiple_files, runs, tokenized>>

EndCopy_WithoutSetE ==
    /\ at = "copy" /\ ProgramReturns
    /\ \/ UNCHANGED database
       \/ database' = [finished |-> TRUE, documents |-> multiple_files.documents]
    /\ UNCHANGED <<inputs, memory, script, locals, table, multiple_files, runs, tokenized>>

EndCopy ==
    /\ at = "copy"
    /\ \/ ProgramFails /\ UNCHANGED database
       \/ /\ ProgramReturns
          /\ database' = [finished |-> TRUE, documents |-> multiple_files.documents]
    /\ UNCHANGED <<inputs, memory, script, locals, table, multiple_files, runs, tokenized>>

\* What crawl makes of index.json does not depend on the folder.  Before it
\* truncates the table it may fail, as test_load_xapian_database may before it.
CrawlOpensTable ==
    /\ at = "crawl"
    /\ \/ ProgramFails /\ UNCHANGED table
       \/ /\ at' = "crawl_table" /\ UNCHANGED targets
          /\ table' = [maker |-> "crawl", finished |-> FALSE, files |-> {}]
    /\ UNCHANGED <<inputs, memory, script, locals, multiple_files, database, runs, tokenized>>

\* A paper without authors ends it with an exception.
CrawlWritesTable ==
    /\ at = "crawl_table"
    /\ \/ ProgramFails /\ UNCHANGED table
       \/ ProgramReturns /\ table' = [table EXCEPT !.finished = TRUE]
    /\ UNCHANGED <<inputs, memory, script, locals, multiple_files, database, runs, tokenized>>

-----------------------------------------------------------------------------
(* Outside the programs.                                                   *)

\* Of the documents added some may have been committed.  A file of tokens that
\* was open is empty, or a part of it was written.  A table or a copy of the
\* database that was open stays unfinished.
ProgramStopped ==
    /\ at \notin {"shell", "loaded"} /\ ProgramFails
    /\ IF at = "write"
       THEN \E how \in TokenFiles \ {"absent"} : tokens' = [tokens EXCEPT ![output] = how]
       ELSE UNCHANGED tokens
    /\ IF at = "index"
       THEN \E lost \in SUBSET Added : multiple_files' = DocumentsWithout(lost)
       ELSE UNCHANGED multiple_files
    /\ memory' = IF at = "loader" THEN NoTokens ELSE memory
    /\ tokenized' = IF at \in {"tokenizer", "write"} THEN "failed" ELSE tokenized
    /\ UNCHANGED <<folder, script, locals, table, database, runs>>

\* The user adds a paper, or removes the database being made.
AddPaper(s) ==
    /\ at = "shell" /\ folder' = folder \cup {s} /\ tokenized' = "failed"
    /\ UNCHANGED <<tokens, memory, at, script, targets, locals, artifacts, runs>>

RemoveDatabase ==
    /\ at = "shell"
    /\ multiple_files' = [there |-> FALSE, documents |-> NoDocuments]
    /\ UNCHANGED <<inputs, memory, at, script, targets, locals, table, database,
                   runs, tokenized>>

-----------------------------------------------------------------------------

\* The table that the repository comes with is one of crawl's.  It comes without
\* a database.
FolderInit ==
    /\ folder \in SUBSET Sources /\ tokens = [t \in Stems |-> "absent"]
    /\ memory = NoTokens
    /\ at = "shell" /\ script = <<>> /\ targets = <<>>
    /\ todo = {} /\ output = NoPaper /\ papers = {} /\ missed = {}
    /\ table = [maker |-> "repository", finished |-> TRUE, files |-> {}]
    /\ multiple_files = [there |-> FALSE, documents |-> NoDocuments]
    /\ database = [finished |-> FALSE, documents |-> NoDocuments]
    /\ runs = 0 /\ tokenized = "failed"

\* The targets that make the table of papers or the database.
All == <<"tree_maker", "index_for_xapian", "crawl">>
Scripts == {<<"tree_maker">>, <<"index_for_xapian">>, <<"crawl">>, All}

FolderNext ==
    \/ RunTokenizer \/ WriteTokens \/ EndTokenizer
    \/ RunLoader \/ EndLoader \/ Close
    \/ OpenTable \/ WriteTable
    \/ CreateDatabase \/ CloseDatabase \/ OpenCopy \/ EndCopy
    \/ CrawlOpensTable \/ CrawlWritesTable
    \/ ProgramStopped \/ RemoveDatabase
    \/ \E what \in Scripts : RunScript(what)
    \/ \E s \in Sources : Tokenize(s) \/ PassOver(s) \/ AddDocument(s) \/ AddPaper(s)
    \/ \E t \in Stems : LoadTokens(t)
    \/ \E file \in Sources \cup Stems : TakeUp(file)

FolderSpec == FolderInit /\ [][FolderNext]_folder_vars

-----------------------------------------------------------------------------

Counts == [Sources -> Nat]

FolderTypeOK ==
    /\ folder \subseteq Sources /\ tokens \in [Stems -> TokenFiles]
    /\ memory \in [Numbered -> TokenFiles]
    /\ at \in {"shell", "tokenizer", "write", "loader", "loaded", "tree_maker", "table",
               "index_for_xapian", "index", "compact", "copy", "crawl", "crawl_table"}
    /\ script \in Scripts \cup {<<>>}
    /\ targets \in {<<>>, <<"crawl">>, <<"index_for_xapian", "crawl">>}
    /\ todo \subseteq Sources \cup Stems /\ output \in Stems \cup {NoPaper}
    /\ papers \subseteq Sources \cup Stems /\ missed \subseteq Sources
    /\ table \in [maker : {"repository", "tree_maker", "crawl"}, finished : BOOLEAN,
                  files : SUBSET (Sources \cup Stems)]
    /\ multiple_files \in [there : BOOLEAN, documents : Counts]
    /\ database \in [finished : BOOLEAN, documents : Counts]
    /\ runs \in 0 .. MaxRuns
    /\ tokenized \in {"so_far", "failed", "all"}

WithText == folder \ Blank

\* A run of the tokenizer that reaches its end without a failure leaves whole
\* tokens beside every paper with text, whatever earlier runs that were stopped
\* have left there.
RerunRepairsTokens ==
    tokenized = "all" => \A s \in WithText : tokens[Stem[s]] = "whole"

\* What the main program has loaded is whole for every such paper then.
LoadAfterRepairIsWhole ==
    at = "loaded" /\ tokenized = "all" =>
        \A s \in WithText : Stem[s] \in Loadable => memory[PaperOf[Stem[s]]] = "whole"

\* A database that is finished has each paper with text exactly once, except
\* those that the same run has left out, and nothing else: no remains of runs
\* that were stopped, and none of papers that it left out itself.  When "all"
\* finishes it, tree_maker's table is finished and knows every paper in it that
\* can be in a table at all.  A copy may be given up halfway, but "all" goes on
\* to crawl only with one that is finished.
DatabaseIsHandedOnWhole ==
    [][/\ database' # database /\ database'.finished =>
              /\ database'.documents = [s \in Sources |-> IF s \in WithText \ missed THEN 1 ELSE 0]
              /\ script = All =>
                    /\ table.maker = "tree_maker" /\ table.finished
                    /\ \A s \in WithText : PaperIn(s) # NoPaper => s \in table.files
       /\ script' = All /\ at' = "crawl" => database'.finished]_folder_vars

=============================================================================
