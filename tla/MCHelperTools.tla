--------------------------- MODULE MCHelperTools ---------------------------
(* For the crawler: four spellings that are linked only through the one     *)
(* with two initials, one with a hard-coded primary that may itself get     *)
(* another primary, one with a primary that is never compared, and that     *)
(* primary, which would pass for a typo of the others.                      *)
(* For the downloader: the name of one paper begins that of another, and    *)
(* two documents have final URLs that end alike.                            *)
(* For the folder: a paper in two formats, one whose name the loader does   *)
(* not know, and a document without a number and without text.              *)
EXTENDS HelperTools, EquivalentNames

MCNames == <<"A. Bo", "A. E. Bo", "Al Bo", "Ed Bo", "Old Al", "Old Bob", "A. Bob">>

MCWords ==
    [n \in Range(MCNames) |->
        CASE n = "A. Bo"    -> << <<"a">>, <<"b", "o">> >>
          [] n = "A. E. Bo" -> << <<"a">>, <<"e">>, <<"b", "o">> >>
          [] n = "Al Bo"    -> << <<"a", "l">>, <<"b", "o">> >>
          [] n = "Ed Bo"    -> << <<"e", "d">>, <<"b", "o">> >>
          [] n = "Old Al"   -> << <<"o", "l", "d">>, <<"a", "l">> >>
          [] n = "Old Bob"  -> << <<"o", "l", "d">>, <<"b", "o", "b">> >>
          [] n = "A. Bob"   -> << <<"a">>, <<"b", "o", "b">> >>]

MCSortKey ==
    [n \in Range(MCNames) |->
        [particle |-> FALSE, tokens |-> Len(MCWords[n]), size |-> Len(Normalised(MCWords[n]))]]

MCPrimaries == {"A. Bob"}
MCAlternatives == ("Old Al" :> "Al Bo") @@ ("Old Bob" :> "A. Bob")

MCPapers == {[name |-> "p1", rev |-> 0], [name |-> "p1", rev |-> 2]}
MCAuthorSquares == UNION {kSubset(k, Range(MCNames)) : k \in 0 .. 3}

MCList == <<"p1r1", "p1r10", "sd1", "sd2">>
MCFiles == {"p1r1.pdf", "p1r10.pdf", "index.html"}
MCDotAfter == ("p1r1" :> {"p1r1.pdf"}) @@ ("p1r10" :> {"p1r10.pdf"}) @@ [p \in {"sd1", "sd2"} |-> {}]
MCStartsWith == [MCDotAfter EXCEPT !["p1r1"] = {"p1r1.pdf", "p1r10.pdf"}]
MCUrlFile ==
    ("p1r1" :> "p1r1.pdf") @@ ("p1r10" :> "p1r10.pdf") @@ [p \in {"sd1", "sd2"} |-> "index.html"]

MCStem ==
    [s \in {"p1r0.html", "p1r0.pdf"} |-> "p1r0"] @@ ("P2R0.txt" :> "P2R0") @@ ("n1.txt" :> "n1")
MCPaperOf == ("p1r0" :> "paper 1") @@ ("P2R0" :> "paper 2") @@ ("n1" :> "none")

\* These keep no state: the initial one is enough.
AtFirst == tools = "crawler" /\ step = "read" /\ index = <<>>

\* The matchers are exact on these words, and FindAuthor on every list of these
\* names.
SpellingsAreMatchedExactly ==
    AtFirst => /\ MatchersAreExact({"a", "b"}, 4)
               /\ \A S \in SUBSET Range(Names) : FindAuthorIsExact(InNameOrder(S))

=============================================================================
