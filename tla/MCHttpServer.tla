---------------------------- MODULE MCHttpServer ----------------------------
(***************************************************************************)
(* Small instances of HttpServer.  The archive holds one PDF and one       *)
(* empty file; it answers as ArchiveLookup says.                           *)
(***************************************************************************)
EXTENDS HttpServerInvariant, TLC, ArchiveLookup

MCArchive == <<[num |-> 1, rev |-> 0, ext |-> "pdf", data |-> "ok"]>>

MCNames == {"p0001r0", "p0002r0"}

MCArg(name) == [num |-> IF name = "p0001r0" THEN 1 ELSE 2, rev |-> 0, dot |-> FALSE]

MCArchiveGetFile ==
    [name \in MCNames |->
        LET found == ArchiveGetFile_Common(MCArchive, MCArg(name))
        IN  [extension |-> found.extension,
             body |-> IF found.page = "file" THEN name ELSE found.page]]

MCSymmetry == Permutations(Clients)

=============================================================================
