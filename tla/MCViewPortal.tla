---------------------------- MODULE MCViewPortal ----------------------------
(* A paper in the archive and a name the archive does not know: it answers  *)
(* that with an error page.                                                 *)
EXTENDS ViewPortal

MCArchive ==
    [p |-> [extension |-> "pdf", body |-> "paper"],
     q |-> [extension |-> "html", body |-> "not_found"]]

=============================================================================
