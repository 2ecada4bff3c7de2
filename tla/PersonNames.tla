---------------------------- MODULE PersonNames ----------------------------
(***************************************************************************)
(* When NameManager (helper_tools/NameManager.hpp) takes two spellings for *)
(* the same person.  A word is a sequence of letters; a spelling is known  *)
(* by the words that lower case, punctuation and accents leave of it.      *)
(***************************************************************************)
EXTENDS Naturals, FiniteSets, SequencesExt

CONSTANTS
    Words,                  \* Words[name]: the words of a spelling
    hardcoded_primaries     \* names that are nobody else's

\* The words with a blank between any two of them
Normalised(words) ==
    FoldLeft(LAMBDA s, w : IF s = <<>> THEN w ELSE s \o << "_" >> \o w, <<>>, words)

ExtractInitials(words) == [i \in DOMAIN words |-> words[i][1]]

\* The letters of "longer" are consumed one by one, each matching the first
\* letter of "shorter" that has none yet, if it can.
IsSubsequence(shorter, longer) ==
    LET matched[j \in 0 .. Len(longer)] ==
          IF j = 0 THEN 0
          ELSE LET i == matched[j - 1]
               IN  IF i < Len(shorter) /\ shorter[i + 1] = longer[j] THEN i + 1 ELSE i
    IN  matched[Len(longer)] = Len(shorter)

\* A second mismatch skips one more letter instead of failing.
OneSkipped_Always(a, b) == TRUE

\* Up to the first mismatch the words agree; it skips a letter of the longer
\* word, and a second one fails.
OneSkipped(a, b) ==
    \A i \in DOMAIN a : (\E k \in 1 .. i : a[k] # b[k]) => a[i] = b[i + 1]

IsOneTypoApart(a, b) ==
    \/ Len(a) = Len(b) /\ Cardinality({i \in 1 .. Len(a) : a[i] # b[i]}) = 1
    \/ Len(a) + 1 = Len(b) /\ OneSkipped(a, b)
    \/ Len(b) + 1 = Len(a) /\ OneSkipped(b, a)

SameSurname(a, b) ==
    a # <<>> /\ b # <<>> /\ (Last(a) = Last(b) \/ IsOneTypoApart(Last(a), Last(b)))

SameGivenNames(a, b) ==
    LET initialsA == ExtractInitials(Front(a))
        initialsB == ExtractInitials(Front(b))
    IN  IsSubsequence(initialsA, initialsB) \/ IsSubsequence(initialsB, initialsA)

IsSamePerson(m, n) ==
    IF {m, n} \cap hardcoded_primaries # {} THEN m = n
    ELSE LET a == Words[m]
             b == Words[n]
             sa == Normalised(a)
             sb == Normalised(b)
         IN  \/ IsPrefix(sa, sb) \/ IsPrefix(sb, sa)
             \/ SameSurname(a, b) /\ (SameGivenNames(a, b) \/ IsOneTypoApart(sa, sb))

-----------------------------------------------------------------------------

\* Over all words up to the given length: one typo is one letter replaced, left
\* out or put in, and a subsequence is what is left when letters are left out,
\* although the loops of both (lines 418-470) decide letter by letter and never
\* go back.
MatchersAreExact(letters, length) ==
    \A a, b \in BoundedSeq(letters, length) :
        /\ IsOneTypoApart(a, b) <=>
              \/ \E i \in DOMAIN b : a = RemoveAt(b, i)
              \/ \E i \in DOMAIN a : b = RemoveAt(a, i)
              \/ a # b /\ \E i \in DOMAIN a, x \in letters : b = ReplaceAt(a, i, x)
        /\ IsSubsequence(a, b) <=>
              \E at \in [DOMAIN a -> DOMAIN b] :
                 /\ \A i \in DOMAIN a : a[i] = b[at[i]]
                 /\ \A i, k \in DOMAIN a : i < k => at[i] < at[k]

=============================================================================
