----------------------------- MODULE NameTables -----------------------------
(***************************************************************************)
(* The tables of authors' names compiled into the program (names.hpp), the *)
(* lookups in them, and the checks that the Debug tab makes of them        *)
(* (GUI_Dialog_Main_Debug_Tab.cpp).  A table is a sequence: a primary is   *)
(* <<hash, name>>, an alternative <<hash, name, hash of its primary>>.     *)
(***************************************************************************)
EXTENDS Naturals, SequencesExt

\* The loop moves an entry down past those with a greater hash.
Inserted(s, entry) ==
    LET below == {k \in DOMAIN s : s[k][1] <= entry[1]}
    IN  InsertAt(s, 1 + (IF below = {} THEN 0 ELSE Max(below)), entry)

container_sorted_by_first_SkipsLast(arg) ==
    LET sorted[i \in 0 .. Len(arg) - 1] ==
          IF i = 0 THEN <<>> ELSE Inserted(sorted[i - 1], arg[i])
    IN  Append(sorted[Len(arg) - 1], Last(arg))

container_sorted_by_first(arg) ==
    LET sorted[i \in 0 .. Len(arg)] ==
          IF i = 0 THEN <<>> ELSE Inserted(sorted[i - 1], arg[i])
    IN  sorted[Len(arg)]

\* std::ranges::lower_bound: an interval of "count" entries after "first" is
\* halved until it is empty, which takes no more rounds than it has entries.
Halved(s, h, w) ==
    LET half == w.count \div 2
    IN  CASE w.count = 0 -> w
          [] w.count > 0 /\ s[w.first + half + 1][1] < h ->
                [first |-> w.first + half + 1, count |-> w.count - half - 1]
          [] OTHER -> [w EXCEPT !.count = half]

lower_bound(s, h) ==
    LET interval[round \in 0 .. Len(s)] ==
          IF round = 0 THEN [first |-> 0, count |-> Len(s)]
          ELSE Halved(s, h, interval[round - 1])
    IN  interval[Len(s)].first + 1

Found(s, h) == lower_bound(s, h) <= Len(s) /\ s[lower_bound(s, h)][1] = h
At(s, h) == s[lower_bound(s, h)]

nullptr == "nullptr"

PrimaryHash(alternatives, h) == IF Found(alternatives, h) THEN At(alternatives, h)[3] ELSE h

PrimaryNameFromHash(primaries, h) ==
    IF Found(primaries, h) THEN At(primaries, h)[2] ELSE nullptr

HashToDirectString(primaries, alternatives, h) ==
    IF Found(primaries, h) THEN At(primaries, h)[2] ELSE PrimaryNameFromHash(alternatives, h)

-----------------------------------------------------------------------------
(* The checks.                                                             *)

\* The hashes of all names, and of the one typed in, that two of them have.
CheckForNameClashes(primaries, alternatives, extra) ==
    LET items == [i \in DOMAIN primaries |-> primaries[i][1]]
                 \o [i \in DOMAIN alternatives |-> alternatives[i][1]] \o <<extra>>
    IN  {items[i] : i \in {k \in DOMAIN items : \E j \in k + 1 .. Len(items) : items[j] = items[k]}}

Unsorted(s) == {i \in 1 .. Len(s) - 1 : s[i][1] >= s[i + 1][1]}

\* The lines with an exclamation mark, by where they come from.
Alarms(primaries, alternatives) ==
    [in_primaries |-> {i \in DOMAIN alternatives : Found(primaries, alternatives[i][1])},
     no_primary |-> {i \in DOMAIN alternatives : ~Found(primaries, alternatives[i][3])},
     primaries |-> Unsorted(primaries), alternatives |-> Unsorted(alternatives)]
-----------------------------------------------------------------------------

\* For all tables over "names" of up to the given lengths, whatever names share
\* a hash: the Debug tab finds nothing exactly if no two names have the same
\* hash and no alternative lacks its primary; and then every name of the tables
\* leads to itself and to its primary in the lookups of the program.
DebugTabIsExact(names, Hash, most_primaries, most_alternatives) ==
    \A P \in BoundedSeq(names, most_primaries) \ {<<>>},
       A \in BoundedSeq(names \X names, most_alternatives) \ {<<>>}, extra \in names :
        LET P_unsorted == [i \in DOMAIN P |-> <<Hash[P[i]], P[i]>>]
            A_unsorted == [i \in DOMAIN A |-> <<Hash[A[i][1]], A[i][1], Hash[A[i][2]]>>]
            primaries == container_sorted_by_first(P_unsorted)
            alternatives == container_sorted_by_first(A_unsorted)
            shown == P \o [i \in DOMAIN A |-> A[i][1]] \o <<extra>>
            sound == /\ \A i, j \in DOMAIN shown : Hash[shown[i]] = Hash[shown[j]] => i = j
                     /\ \A i \in DOMAIN A : \E p \in Range(P) : Hash[p] = Hash[A[i][2]]
            alarms == Alarms(primaries, alternatives)
            FinalName(n) == PrimaryNameFromHash(primaries, PrimaryHash(alternatives, Hash[n]))
            DirectName(n) == HashToDirectString(primaries, alternatives, Hash[n])
        IN  /\ sound <=> /\ CheckForNameClashes(P_unsorted, A_unsorted, Hash[extra]) = {}
                         /\ \A line \in DOMAIN alarms : alarms[line] = {}
            /\ sound =>
                 /\ \A p \in Range(P) : FinalName(p) = p /\ DirectName(p) = p
                 /\ \A a \in Range(A) : /\ DirectName(a[1]) = a[1]
                                        /\ Hash[FinalName(a[1])] = Hash[a[2]]

=============================================================================
