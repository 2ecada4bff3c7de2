-------------------------- MODULE EquivalentNames --------------------------
(***************************************************************************)
(* helper_tools/equivalent_names.cpp: the program that clusters a list of  *)
(* names and writes a header with the function FindAuthor.  It has the     *)
(* disjoint-set forest of NameManager and a simpler test for two spellings *)
(* of one person.                                                          *)
(***************************************************************************)
EXTENDS NameManager

SameByInitials(m, n) ==
    LET a == Words[m]
        b == Words[n]
    IN  a # <<>> /\ b # <<>> /\ Last(a) = Last(b) /\ SameGivenNames(a, b)

UpTo(n) == [i \in 1 .. n |-> i]

\* The inner loop: name i is compared with those after it.
CompareWithLater(names, m_parent, i) ==
    LET joined[j \in 0 .. Len(names)] ==
          IF j = 0 THEN m_parent
          ELSE IF i < j /\ SameByInitials(names[i], names[j])
          THEN Unite(joined[j - 1], i, j) ELSE joined[j - 1]
    IN  joined[Len(names)]

\* Each pair of names is compared once, in order.
UniteAll(names) ==
    LET united[i \in 0 .. Len(names)] ==
          IF i = 0 THEN UpTo(Len(names)) ELSE CompareWithLater(names, united[i - 1], i)
    IN  united[Len(names)]

Clusters(names) ==
    LET parent == UniteAll(names)
    IN  {Cluster(names, parent, i) : i \in DOMAIN names}

\* The first after std::sort: which of several longest it is, is not said.
Longest(cluster) == CHOOSE n \in cluster : \A m \in cluster : SortKey[m].size <= SortKey[n].size

\* Names that are alone are left out.
Tables(names) ==
    LET clusters == {c \in Clusters(names) : Cardinality(c) >= 2}
    IN  [alternatives |-> UNION {{<<n, Longest(c)>> : n \in c \ {Longest(c)}} : c \in clusters},
         primaries |-> {Longest(c) : c \in clusters}]

\* A pointer to an entry is the tuple of its name.
nullptr == <<>>

\* FindAuthor in the generated header
FindAuthor(tables, name) ==
    LET primary == Primary(tables, name)
    IN  IF primary \in tables.primaries THEN <<primary>> ELSE nullptr

-----------------------------------------------------------------------------

\* In a list of different names FindAuthor finds the same author for two of them
\* exactly if a chain of similar spellings in the list joins them, and it finds
\* nobody exactly for a name that is like no other.
FindAuthorIsExact(names) ==
    LET S == Range(names)
        tables == Tables(names)
        alike == {mn \in S \X S : SameByInitials(mn[1], mn[2])}
        Joined(m, n) == \A part \in SUBSET S : m \in part /\ n \notin part =>
                            \E a \in part, b \in S \ part : <<a, b>> \in alike
    IN  \A m \in S :
            /\ FindAuthor(tables, m) = nullptr <=> \A n \in S \ {m} : <<m, n>> \notin alike
            /\ \A n \in S \ {m} :
                  FindAuthor(tables, m) # nullptr /\ FindAuthor(tables, m) = FindAuthor(tables, n)
                    <=> Joined(m, n)

=============================================================================
