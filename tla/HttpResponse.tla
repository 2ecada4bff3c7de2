---------------------------- MODULE HttpResponse ----------------------------
(***************************************************************************)
(* The page LocalHttpServer sends for a request target: the part of        *)
(* ThreadEntryPoint (local_http_server.cpp) that is pure computation.      *)
(* A page is named by a string; "empty" is the empty string itself.        *)
(***************************************************************************)
CONSTANTS
    Pages,          \* the pages SetHtmlCode is called with
    Names,          \* the targets looked up in the archive
    ArchiveGetFile  \* what the archive returns for each of Names

Targets == Names \cup {"html", "loading_all", "malformed"}

\* A target in Names is none of the others; "torn" stands for a page that is
\* only half assigned.
ASSUME HttpResponseAssumption ==
    /\ Names \cap {"html", "loading_all", "malformed", "none"} = {}
    /\ "torn" \notin Pages

ASSUME ArchiveGetFileAssumption ==
    ArchiveGetFile \in [Names -> [extension : STRING, body : STRING]]

g_content_types ==
    [html |-> "text/html", htm |-> "text/html", txt |-> "text/plain",
     pdf |-> "application/pdf", md |-> "text/markdown"]

FindContentTypeFromExtension(ext) ==
    IF ext \in DOMAIN g_content_types THEN g_content_types[ext]
                                      ELSE "text/plain"

BadRequest == [type |-> "text/plain", body |-> "bad_request"]

\* The archive is only consulted for a target that is none of the others.
PageFor(target, html) ==
    CASE target = "html" ->
            [extension |-> "html",
             body |-> IF html = "empty" THEN "empty_page" ELSE html]
      [] target = "loading_all" ->
            [extension |-> "html", body |-> "loading_page"]
      [] OTHER -> ArchiveGetFile[target]

Response(target, html) ==
    IF target = "malformed" THEN BadRequest
    ELSE LET page == PageFor(target, html)
         IN  IF page.body = "empty" \/ page.extension = "empty"
             THEN BadRequest
             ELSE [type |-> FindContentTypeFromExtension(page.extension),
                   body |-> page.body]

=============================================================================
