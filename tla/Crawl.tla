------------------------------- MODULE Crawl -------------------------------
(***************************************************************************)
(* helper_tools/crawl.cpp: reads the index of all papers and writes the    *)
(* tables compiled into the program: the names with their alternatives,    *)
(* the papers of every author, and the authors of every paper.             *)
(***************************************************************************)
EXTENDS NameManager

CONSTANTS
    Names,            \* all spellings, in the order of std::map
    Papers,           \* records [name, rev]
    AuthorSquares,    \* the sets of names an entry of the index may give
    MaxEntries        \* bound on the entries of the index

\* std::map has each spelling once.
ASSUME CrawlAssumption ==
    /\ Names \in Seq(Range(Names)) /\ IsInjective(Names)
    /\ \A n \in Range(Names) : SortKey[n] \in [particle : BOOLEAN, tokens : Nat, size : Nat]
    /\ AuthorSquares \subseteq SUBSET Range(Names)
    /\ \A p \in Papers : p = [name |-> p.name, rev |-> p.rev] /\ p.rev \in Nat

VARIABLES
    step,             \* where main is
    index,            \* the entries of index.json read so far
    g_names,          \* the papers of each spelling, in the order read
    m_names, m_parent,
    pair,             \* the names AddNames compares next
    header,           \* AUTO_GENERATED_names.hpp
    to_merge,         \* what MergeAlternativeNames has yet to merge
    paper_tree        \* AUTO_GENERATED_tree_contents_paper.hpp

vars == <<step, index, g_names, m_names, m_parent, pair, header, to_merge, paper_tree>>

-----------------------------------------------------------------------------

\* The spellings of S in their order
InNameOrder(S) ==
    LET taken[k \in 0 .. Len(Names)] ==
          IF k = 0 THEN <<>>
          ELSE IF Names[k] \in S THEN Append(taken[k - 1], Names[k]) ELSE taken[k - 1]
    IN  taken[Len(Names)]

PapersOf(names, n) == IF n \in DOMAIN names THEN names[n] ELSE <<>>

\* ProcessAuthorSquareFromTable: each name that is one gets the paper.
Credit(names, paper, authors) ==
    [n \in DOMAIN names \cup authors |->
        PapersOf(names, n) \o IF n \in authors THEN <<paper>> ELSE <<>>]

\* The loop of main, for an entry that it does not skip
ReadEntry(paper, authors) ==
    /\ step = "read" /\ Len(index) < MaxEntries
    /\ index' = Append(index, [paper |-> paper, authors |-> authors])
    /\ g_names' = Credit(g_names, paper, authors)
    /\ UNCHANGED <<step, m_names, m_parent, pair, header, to_merge, paper_tree>>

AddNames ==
    /\ step = "read" /\ step' = "unite"
    /\ m_names' = InNameOrder(DOMAIN g_names \ DOMAIN hardcoded_alternatives)
    /\ m_parent' = [i \in DOMAIN m_names' |-> i]
    /\ pair' = <<1, 2>>
    /\ UNCHANGED <<index, g_names, header, to_merge, paper_tree>>

\* One turn of the inner loop of AddNames
Compare ==
    LET i == pair[1]
        j == pair[2]
    IN  /\ step = "unite" /\ j <= Len(m_names)
        /\ m_parent' = IF IsSamePerson(m_names[i], m_names[j])
                       THEN Unite(m_parent, i, j) ELSE m_parent
        /\ pair' = IF j < Len(m_names) THEN <<i, j + 1>> ELSE <<i + 1, i + 2>>
        /\ UNCHANGED <<step, index, g_names, m_names, header, to_merge, paper_tree>>

\* What MergeAlternativeNames will merge.  Its own manager is given the same names
\* as the first and ends with the same clusters.
ToMerge ==
    InNameOrder({n \in DOMAIN g_names : GetPrimaryName(m_names, m_parent, n) # n})

WriteHeaders ==
    /\ step = "unite" /\ pair[2] > Len(m_names) /\ step' = "merge"
    /\ header' = Headers(m_names, m_parent)
    /\ to_merge' = ToMerge
    /\ UNCHANGED <<index, g_names, m_names, m_parent, pair, paper_tree>>

\* The papers of an alternative replace those of its primary.
MergeNext_Replaces ==
    LET alt == Head(to_merge)
        primary == GetPrimaryName(m_names, m_parent, alt)
    IN  /\ step = "merge" /\ to_merge # <<>>
        /\ g_names' = [n \in (DOMAIN g_names \cup {primary}) \ {alt} |->
                          IF n = primary THEN g_names[alt] ELSE g_names[n]]
        /\ to_merge' = Tail(to_merge)
        /\ UNCHANGED <<step, index, m_names, m_parent, pair, header, paper_tree>>

\* A primary that is not there, or no longer, is made from its alternative.
MergeNext ==
    LET alt == Head(to_merge)
        primary == GetPrimaryName(m_names, m_parent, alt)
    IN  /\ step = "merge" /\ to_merge # <<>>
        /\ g_names' = [n \in (DOMAIN g_names \cup {primary}) \ {alt} |->
                          IF n = primary THEN PapersOf(g_names, n) \o g_names[alt]
                          ELSE g_names[n]]
        /\ to_merge' = Tail(to_merge)
        /\ UNCHANGED <<step, index, m_names, m_parent, pair, header, paper_tree>>

ReverseAuthorPaperMap(paper) == {n \in DOMAIN g_names : paper \in Range(g_names[n])}

IndexedPapers == {index[k].paper : k \in DOMAIN index}

\* The latest revision of a paper is its last entry.
GetPaperLatestRev_Last(name) ==
    index[CHOOSE k \in DOMAIN index : /\ index[k].paper.name = name
                                      /\ \A l \in DOMAIN index : index[l].paper.name = name => l <= k].paper.rev

GetPaperLatestRev(name) == Max({p.rev : p \in {q \in IndexedPapers : q.name = name}})

\* paper_authors.at throws for a paper without an author.
WriteTrees ==
    /\ step = "merge" /\ to_merge = <<>>
    /\ IF \E p \in IndexedPapers : ReverseAuthorPaperMap(p) = {}
       THEN step' = "threw" /\ UNCHANGED paper_tree
       ELSE /\ step' = "done"
            /\ paper_tree' = {[name |-> name,
                               latest_rev |-> GetPaperLatestRev(name),
                               revs |-> {[rev |-> p.rev, authors |-> ReverseAuthorPaperMap(p)] :
                                            p \in {q \in IndexedPapers : q.name = name}}] :
                                 name \in {p.name : p \in IndexedPapers}}
    /\ UNCHANGED <<index, g_names, m_names, m_parent, pair, header, to_merge>>

Init ==
    /\ step = "read" /\ index = <<>> /\ g_names = <<>>
    /\ m_names = <<>> /\ m_parent = <<>> /\ pair = <<>>
    /\ header = [alternatives |-> {}, primaries |-> {}]
    /\ to_merge = <<>> /\ paper_tree = {}

Next ==
    \/ \E paper \in Papers, authors \in AuthorSquares : ReadEntry(paper, authors)
    \/ AddNames \/ Compare \/ WriteHeaders \/ MergeNext \/ WriteTrees

Spec == Init /\ [][Next]_vars

-----------------------------------------------------------------------------

Similar == {mn \in Range(Names) \X Range(Names) : IsSamePerson(mn[1], mn[2])}

\* When AddNames has compared all pairs, two spellings taken for each other are
\* in the same cluster, and a cluster does not fall apart into two between which
\* no spelling is taken for another: halving the paths loses nobody and joins
\* nobody else.
ClustersAreComponents ==
    step = "merge" =>
        \A i \in DOMAIN m_names :
            LET cluster == Cluster(m_names, m_parent, i)
            IN  /\ \A n \in Range(m_names) : <<m_names[i], n>> \in Similar => n \in cluster
                /\ \A part \in (SUBSET cluster) \ {{}, cluster} :
                      \E m \in part, n \in cluster \ part : <<m, n>> \in Similar

\* Where paper p stands in the lists of the spellings, and in the index
Credits(p) == UNION {{n} \X {k \in DOMAIN g_names[n] : g_names[n][k] = p} : n \in DOMAIN g_names}

Mentions(p) == UNION {{k} \X index[k].authors : k \in {l \in DOMAIN index : index[l].paper = p}}

\* The papers move from spelling to spelling, none is lost and none is doubled:
\* at any time they are as many as the index gave authors to.
CreditsAreKept == \A p \in Papers : Cardinality(Credits(p)) = Cardinality(Mentions(p))

\* What the debug tab of the program looks for in the tables it was built with
\* (GUI_Dialog_Main_Debug_Tab.cpp lines 352-407), and what the list of authors
\* and the tree of papers need: no alternative is a primary, the primary of
\* every alternative is one, and an author of a paper is one.
NamesAreConsistent ==
    step = "done" /\ TableIsFlat(header) =>
        /\ \A alt \in header.alternatives : /\ alt[1] \notin header.primaries
                                            /\ alt[2] \in header.primaries
        /\ DOMAIN g_names \subseteq header.primaries

\* A paper in the tree names exactly the authors of its entries, each by the
\* name that names.hpp finds for the spelling used there, and the latest revision
\* is one that is there (GUI_Dialog_Main.cpp line 391 aborts otherwise); and only
\* an entry without any author makes the crawler throw.
PapersNameTheirAuthors ==
    /\ step = "threw" => \E k \in DOMAIN index : index[k].authors = {}
    /\ step = "done" /\ TableIsFlat(header) =>
          \A p \in IndexedPapers :
             \E e \in paper_tree :
                /\ e.name = p.name /\ p.rev <= e.latest_rev
                /\ \E r \in e.revs : r.rev = e.latest_rev
                /\ [rev |-> p.rev,
                    authors |-> {Primary(header, a) : a \in UNION
                        {index[k].authors : k \in {l \in DOMAIN index : index[l].paper = p}}}] \in e.revs

=============================================================================
