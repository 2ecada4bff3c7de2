----------------------------- MODULE PaperName -----------------------------
(***************************************************************************)
(* The names of papers as text: the constructor of Paper that takes a name *)
(* apart (paper.hpp), the functions that put it together (paper.cpp), and  *)
(* the patterns with which the loader of tokens (paperman.cpp) and         *)
(* tree_maker.cpp pick files.  A name is a sequence of characters.         *)
(***************************************************************************)
EXTENDS Naturals, SequencesExt

Digits == <<"0", "1", "2", "3", "4", "5", "6", "7", "8", "9">>
Value(c) == SelectInSeq(Digits, LAMBDA d : d = c) - 1
isdigit(c) == Value(c) \in 0 .. 9

\* Of capitals there are only those that a name can have.
tolower(c) == CASE c = "N" -> "n" [] c = "P" -> "p" [] c = "R" -> "r" [] OTHER -> c

Number(digits) ==
    LET value[i \in 0 .. Len(digits)] ==
          IF i = 0 THEN 0 ELSE 10 * value[i - 1] + Value(digits[i])
    IN  value[Len(digits)]

Invalid == [letter |-> "z", num |-> 0, rev |-> 0]   \* std::runtime_error

-----------------------------------------------------------------------------
(* The constructor.                                                        *)

EndsAt(p, n) == Len(p) < n \/ p[n] = "."

RevisionDigits_NoEnd(p) ==
    IF Len(p) < 7 \/ tolower(p[6]) # "r" \/ ~isdigit(p[7]) THEN 0
    ELSE IF EndsAt(p, 8) THEN 1
    ELSE IF isdigit(p[8]) THEN 2 ELSE 0

\* How many digits the revision of a P paper has, 0 if there is none.
RevisionDigits(p) ==
    IF Len(p) < 7 \/ tolower(p[6]) # "r" \/ ~isdigit(p[7]) THEN 0
    ELSE IF EndsAt(p, 8) THEN 1
    ELSE IF isdigit(p[8]) /\ EndsAt(p, 9) THEN 2 ELSE 0

Paper(p) ==
    IF Len(p) < 5 \/ \E i \in 2 .. 5 : ~isdigit(p[i]) THEN Invalid
    ELSE LET num == Number(SubSeq(p, 2, 5))
             digits == RevisionDigits(p)
         IN  CASE tolower(p[1]) = "n" /\ EndsAt(p, 6) ->
                      [letter |-> "n", num |-> num, rev |-> 0]
               [] tolower(p[1]) = "p" /\ digits > 0 ->
                      [letter |-> "p", num |-> num, rev |-> Number(SubSeq(p, 7, 6 + digits))]
               [] OTHER -> Invalid

\* null_terminated_string
Digit(n) == Digits[(n % 10) + 1]

NumberPart(paper) ==
    <<paper.letter, Digit(paper.num \div 1000), Digit(paper.num \div 100),
      Digit(paper.num \div 10), Digit(paper.num)>>

c_str(paper) ==
    NumberPart(paper) \o
        CASE paper.letter = "n" -> <<>>
          [] paper.letter = "p" /\ paper.rev < 10 -> <<"r", Digit(paper.rev)>>
          [] OTHER -> <<"r", Digit(paper.rev \div 10), Digit(paper.rev)>>

-----------------------------------------------------------------------------
(* The patterns.                                                           *)

\* p(\d{4})r(\d{1,2}) in front of .tokens, which is the name's extension here
Loads(stem) ==
    /\ Len(stem) \in {7, 8} /\ stem[1] = "p" /\ stem[6] = "r"
    /\ \A i \in (2 .. Len(stem)) \ {6} : isdigit(stem[i])

\* In a build with assertions the number 0 ends the program here (paper.hpp 128);
\* the constructor that takes a name lets it pass.
LoadedPaper(stem) ==
    [letter |-> "p", num |-> Number(SubSeq(stem, 2, 5)), rev |-> Number(SubSeq(stem, 7, Len(stem)))]

\* p(\d+)r(\d+)\.[A-z]*, whatever the case
RAt(name) == SelectInSeq(name, LAMBDA c : tolower(c) = "r")
DotAt(name) == SelectInSeq(name, LAMBDA c : c = ".")

TakesUp(name) ==
    /\ RAt(name) > 2 /\ DotAt(name) > RAt(name) + 1 /\ tolower(name[1]) = "p"
    /\ \A i \in (2 .. DotAt(name) - 1) \ {RAt(name)} : isdigit(name[i])
    /\ \A i \in DotAt(name) + 1 .. Len(name) : name[i] # "." /\ ~isdigit(name[i])

\* str_paper, with the number filled up to four digits
TakenPaper(name) ==
    LET num == Number(SubSeq(name, 2, RAt(name) - 1))
        rev == Number(SubSeq(name, RAt(name) + 1, DotAt(name) - 1))
    IN  c_str([letter |-> "p", num |-> num, rev |-> rev])

-----------------------------------------------------------------------------

\* For all these names.  What the constructor makes of one is written as a name
\* that it takes for the same paper.  It agrees with the loader on every file of
\* tokens that the loader reads, and reads none less than the loader does; and a
\* file that both it and tree_maker take up is the same paper for both.
NamesAgree(names) ==
    \A name \in names :
        /\ Paper(name) # Invalid => Paper(c_str(Paper(name))) = Paper(name)
        /\ Loads(name) => /\ Paper(name) = LoadedPaper(name)
                          /\ Paper(name \o <<".", "t">>) = LoadedPaper(name)
        /\ Paper(name) # Invalid /\ name[1] = "p" /\ DotAt(name) = 0 /\ name[6] = "r" => Loads(name)
        /\ Paper(name) # Invalid /\ TakesUp(name) => Paper(TakenPaper(name)) = Paper(name)
        /\ Paper(name) # Invalid /\ Paper(name).letter = "p" /\ DotAt(name) = Len(name)
                => TakesUp(name)

\* Every paper with one of these numbers.
PapersKeepTheirNames(nums) ==
    \A num \in nums :
        /\ \A rev \in 0 .. 99 : LET p == [letter |-> "p", num |-> num, rev |-> rev]
                                IN  Paper(c_str(p)) = p
        /\ LET n == [letter |-> "n", num |-> num, rev |-> 0] IN Paper(c_str(n)) = n

=============================================================================
