---------------------------- MODULE NameManager ----------------------------
(***************************************************************************)
(* NameManager (helper_tools/NameManager.hpp): a disjoint-set forest over  *)
(* the spellings of names, and what is read from it.  The forest is a      *)
(* sequence: m_parent[i] is the parent of name i, a root is its own.       *)
(***************************************************************************)
EXTENDS PersonNames

CONSTANTS
    SortKey,                  \* [particle, tokens, size] of a spelling
    hardcoded_alternatives    \* a function from names to other names

\* lines 257-325: no name is in both tables or an alternative of itself.
ASSUME HardcodedAssumption ==
    \A alt \in DOMAIN hardcoded_alternatives :
        alt \notin hardcoded_primaries /\ hardcoded_alternatives[alt] # alt

-----------------------------------------------------------------------------
(* Find and Unite.                                                         *)

\* Every step of Find lets x and its parent skip a generation.
Find(m_parent, x) ==
    LET walk[n \in Nat] ==
          IF n = 0 THEN [at |-> x, parent |-> m_parent]
          ELSE LET w == walk[n - 1]
                   up == w.parent[w.parent[w.at]]
               IN  IF w.parent[w.at] = w.at THEN w
                   ELSE [at |-> up, parent |-> [w.parent EXCEPT ![w.at] = up]]
    IN  walk[Len(m_parent)]

Root(m_parent, x) == Find(m_parent, x).at

\* The names themselves are joined, not the roots of their trees.
Unite_NotTheRoots(m_parent, a, b) == [m_parent EXCEPT ![a] = b]

Unite(m_parent, a, b) ==
    LET pa == Find(m_parent, a)
        pb == Find(pa.parent, b)
    IN  [pb.parent EXCEPT ![pa.at] = pb.at]

-----------------------------------------------------------------------------
(* The primary name of a cluster and the tables made from the clusters.    *)

SortsBefore(m, n) ==
    LET a == SortKey[m]
        b == SortKey[n]
    IN  IF a.particle # b.particle THEN a.particle
        ELSE IF a.tokens # b.tokens THEN a.tokens > b.tokens
        ELSE a.size > b.size

Cluster(m_names, m_parent, i) ==
    {m_names[j] : j \in {k \in DOMAIN m_names : Root(m_parent, k) = Root(m_parent, i)}}

\* std::ranges::sort decides between names of equal key, always in the same way.
Foremost(cluster) == CHOOSE m \in cluster : \A n \in cluster : ~SortsBefore(n, m)

GetPrimaryName(m_names, m_parent, alt) ==
    IF alt \in hardcoded_primaries THEN alt
    ELSE IF alt \in DOMAIN hardcoded_alternatives THEN hardcoded_alternatives[alt]
    ELSE IF alt \notin Range(m_names) THEN alt
    ELSE Foremost(Cluster(m_names, m_parent, CHOOSE i \in DOMAIN m_names : m_names[i] = alt))

\* GetPrimaryToAlternativesMap, as pairs of an alternative and its primary
AlternativePairs(m_names, m_parent) ==
    LET primary(i) == Foremost(Cluster(m_names, m_parent, i))
    IN  {<<m_names[i], primary(i)>> : i \in {k \in DOMAIN m_names : primary(k) # m_names[k]}}
        \cup {<<alt, hardcoded_alternatives[alt]>> : alt \in DOMAIN hardcoded_alternatives}

\* Only names with alternatives are primaries.
Headers_ForgetLoneNames(m_names, m_parent) ==
    LET pairs == AlternativePairs(m_names, m_parent)
        alts == {pair[1] : pair \in pairs}
    IN  [alternatives |-> pairs,
         primaries |-> ({pair[2] : pair \in pairs} \ alts) \cup hardcoded_primaries]

\* WriteHeaders: g_alternative_names and g_primary_names
Headers(m_names, m_parent) ==
    LET pairs == AlternativePairs(m_names, m_parent)
        groups == {pair[2] : pair \in pairs}
        alts == {pair[1] : pair \in pairs}
        lone == {n \in Range(m_names) \ (groups \cup alts) :
                    GetPrimaryName(m_names, m_parent, n) = n}
    IN  [alternatives |-> pairs,
         primaries |-> (groups \ alts) \cup lone \cup hardcoded_primaries]

-----------------------------------------------------------------------------
(* What main_program/names.hpp reads from the tables.                      *)

\* PrimaryHash
Primary(header, name) ==
    IF \E pair \in header.alternatives : pair[1] = name
    THEN (CHOOSE pair \in header.alternatives : pair[1] = name)[2]
    ELSE name

\* No hard-coded primary of an alternative is an alternative of another name.
TableIsFlat(header) ==
    \A pair \in header.alternatives : Primary(header, pair[2]) = pair[2]

=============================================================================
