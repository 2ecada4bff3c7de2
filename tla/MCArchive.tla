----------------------------- MODULE MCArchive -----------------------------
(***************************************************************************)
(* Small instances of Archive: tar files in the order in which names sort, *)
(* so that p1r10 comes before p1r2.                                        *)
(***************************************************************************)
EXTENDS Archive, TLC

Pdf(rev, data) == [num |-> 1, rev |-> rev, ext |-> "pdf", data |-> data]
OnDisk(entries) == [present |-> TRUE, entries |-> entries, proc |-> TRUE]
Missing == [present |-> FALSE, entries |-> <<>>, proc |-> TRUE]
NoProc == [OnDisk(<<Pdf(1, "ok")>>) EXCEPT !.proc = FALSE]

\* Two papers of which the name of one begins the name of the other
TwoRevisions == <<Pdf(10, "ok"), Pdf(1, "ok"), Pdf(2, "ok")>>
NoDot == <<[num |-> 1, rev |-> 1, ext |-> "", data |-> "ok"], Pdf(10, "ok")>>

Damaged == <<Pdf(1, "empty"), Pdf(2, "ok")>>

MCDisks == {Missing, NoProc} \cup {OnDisk(e) : e \in {<<>>, TwoRevisions, NoDot, Damaged}}
WholeDisk == {OnDisk(TwoRevisions)}

MCArgs == {[num |-> 1, rev |-> 1, dot |-> FALSE], [num |-> 1, rev |-> 1, dot |-> TRUE],
           [num |-> 1, rev |-> 7, dot |-> FALSE]}

MCSymmetry == Permutations(Callers)

=============================================================================
