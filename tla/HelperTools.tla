---------------------------- MODULE HelperTools ----------------------------
(***************************************************************************)
(* The tools of helper_tools: the crawler, the downloader, and the         *)
(* programs that work through the folder of papers.  They are started by   *)
(* hand and share no state, so the user works with one group of them.      *)
(***************************************************************************)
EXTENDS Crawl, Downloader, PaperFolder

VARIABLE tools      \* the group that is used

crawl == vars
everything == <<crawl, downloader_vars, folder_vars, tools>>

\* Nothing is there for the tools that are not used.
HelperInit ==
    /\ tools \in {"crawler", "downloader", "folder"}
    /\ Init /\ DownloaderInit /\ FolderInit
    /\ tools # "downloader" => moves_first
    /\ tools # "folder" => folder = {}

UseCrawler == tools = "crawler" /\ Next /\ UNCHANGED <<downloader_vars, folder_vars, tools>>

UseDownloader == tools = "downloader" /\ DownloaderNext /\ UNCHANGED <<crawl, folder_vars, tools>>

UseFolder == tools = "folder" /\ FolderNext /\ UNCHANGED <<crawl, downloader_vars, tools>>

HelperNext == UseCrawler \/ UseDownloader \/ UseFolder

HelperSpec == HelperInit /\ [][HelperNext]_everything

=============================================================================
