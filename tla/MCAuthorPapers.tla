--------------------------- MODULE MCAuthorPapers ---------------------------
(* A catalogue of two P papers, one of them without a revision 0, and one   *)
(* N paper.                                                                 *)
EXTENDS AuthorPapers, PaperName, SortableList, NameTables

PaperOf(num, rev) == [letter |-> "p", num |-> num, rev |-> rev]

MCPapers == {PaperOf(1, 0), PaperOf(1, 1), PaperOf(1, 2), PaperOf(2, 3),
             [letter |-> "n", num |-> 1, rev |-> 0]}

\* Every list of up to three papers, in any order and with repetitions
ShortLists == BoundedSeq(MCPapers, 3)

\* and those of four as they are when no two names of the author stand on one
\* paper
AllLists == ShortLists \cup {l \in BoundedSeq(MCPapers, 4) : IsInjective(l)}

\* and papers of nobody in those lists, at the ends of what a name can hold
MCCatalogue == MCPapers \cup {PaperOf(9999, rev) : rev \in {9, 10, 99}}
                 \cup {[letter |-> "n", num |-> 9999, rev |-> 0]}

\* Names of every kind: each character may be wrong in its place.
MCLetters == {"n", "P", "p", "r"}
MCDigits == {<<"0", "1", "2", "3">>, <<"1", "2", "3">>, <<"1", ".", "2", "3">>}
MCTails == BoundedSeq({"r", "R", "0", "7", ".", "x"}, 4)
MCName(letter, digits, tail) == <<letter>> \o digits \o tail
MCPaperNames == {MCName(l, n, t) : l \in MCLetters, n \in MCDigits, t \in MCTails}

\* Numbers with up to four digits
MCNumbers == {1, 9, 10, 99, 100, 999, 1000, 1234, 9999}

\* These keep no state: the initial one is enough.
AtFirst == step = "idle" /\ ~associated

\* A paper stays the same paper as an item of a tree and as a name, whoever
\* reads it.
PapersKeepTheirIdentity ==
    AtFirst => ItemsKeepTheirNames /\ NamesAgree(MCPaperNames) /\ PapersKeepTheirNames(MCNumbers)

\* A click on a header of the list of authors brings any cells into one order
\* while all items stand in the control, and an item that is taken out of it goes
\* back where it was.
AuthorsSortByExchanges ==
    AtFirst => /\ OnlyExchangesSort(0 .. 3, 0, 4)
               /\ OnlyExchangesSort({NotANumber} \cup 1 .. 3, 1, 4)

\* Two of six names share a hash, and so do two others.
DebugTabIsExactOnTables == AtFirst => DebugTabIsExact(1 .. 6, <<3, 1, 5, 1, 4, 3>>, 2, 2)

=============================================================================
