--------------------------- MODULE ArchiveLookup ---------------------------
(***************************************************************************)
(* What ArchiveGetFile_Common (embedded_archive.cpp) finds in the tar      *)
(* archive of papers, as pure operators.                                   *)
(*                                                                         *)
(* An archive is the sequence of its entries in tar order.  The file       *)
(* "p3096r10.pdf" is the record [num |-> 3096, rev |-> 10, ext |-> "pdf",  *)
(* data |-> "ok"]; an ext of "" is a name with nothing after a dot.  An    *)
(* argument is a paper name with or without the dot that ends the stem:    *)
(* the HTTP server asks for "p3096r1", the download tool for "p3096r1.".   *)
(* Both callers ask for a prefix match.                                    *)
(***************************************************************************)
EXTENDS Integers, Sequences

\* An entry's data: "ok" decompresses, "empty" has no bytes, "corrupt" fails
\* in archive_read_data or in ZSTD_decompress.
EntryData == {"ok", "empty", "corrupt"}

Entry == [num : Nat, rev : 0..99, ext : STRING, data : EntryData]

Arg == [num : Nat, rev : 0..99, dot : BOOLEAN]

\* The digits of revision r begin the digits of revision s (below 100).
DigitsBegin(r, s) == r = s \/ (s >= 10 /\ r = s \div 10)

\* The dot that ends the asked stem is not compared.
StartsWith_NoDot(entry, arg) ==
    entry.num = arg.num /\ DigitsBegin(arg.rev, entry.rev)

\* archive_filename.starts_with(arg_filename)
StartsWith(entry, arg) ==
    /\ entry.num = arg.num
    /\ IF arg.dot THEN entry.rev = arg.rev /\ entry.ext # ""
                  ELSE DigitsBegin(arg.rev, entry.rev)

Matches(archive, arg) == {i \in DOMAIN archive : StartsWith(archive[i], arg)}

FirstMatch(archive, arg) ==
    CHOOSE i \in Matches(archive, arg) :
        \A j \in Matches(archive, arg) : i <= j

\* "html" unless something follows the dot in the name of the entry
ExtensionOf(entry) == IF entry.ext = "" THEN "html" ELSE entry.ext

\* A result: the extension handed back by reference and either the file of
\* entry number "from" or the "paper not found" page.
Found(ext, i) == [extension |-> ext, page |-> "file", from |-> i]
NotFound(ext) == [extension |-> ext, page |-> "not_found", from |-> 0]

ArchiveGetFile_Common(archive, arg) ==
    IF Matches(archive, arg) = {} THEN NotFound("html")
    ELSE LET i == FirstMatch(archive, arg)
         IN  IF archive[i].data = "ok"
             THEN Found(ExtensionOf(archive[i]), i)
             ELSE NotFound(ExtensionOf(archive[i]))

=============================================================================
