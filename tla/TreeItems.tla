----------------------------- MODULE TreeItems -----------------------------
(***************************************************************************)
(* EncodeStringAsTreeItem and DecodeTreeItem (GUI_Dialog_Main.cpp): the    *)
(* name of a paper is kept in the pointer that a wxDataViewItem is.  Eight *)
(* bytes hold the characters of the name, four hold two 16-bit numbers.    *)
(* A name is a record [letter, num, rev] whose revision may be missing.    *)
(***************************************************************************)
EXTENDS Integers

CONSTANT Papers   \* g_map_papers: records [letter, num, rev]

NoRev == -1     \* a name without a revision
X == -2         \* the letter X in place of the revision: the latest one
Max16 == 2^16 - 1

\* c_str and PaperNameWithoutRevision: the name of an N paper has no revision.
NameOf(p) == [p EXCEPT !.rev = IF p.letter = "n" THEN NoRev ELSE @]
NameWithoutRevision(p) == [p EXCEPT !.rev = NoRev]

\* The latest revision is taken to be the first.
GetPaperLatestRev_Zero(num) == 0

GetPaperLatestRev(num) ==
    CHOOSE r \in {p.rev : p \in {q \in Papers : q.letter = "p" /\ q.num = num}} :
        \A p \in Papers : p.letter = "p" /\ p.num = num => p.rev <= r

\* The larger of the two marks stands for an N paper, which has no revision.
Encode4(name) ==
    <<name.num % 2^16,
      CASE name.letter = "n" -> Max16
        [] name.letter = "p" /\ name.rev = NoRev -> Max16 - 1
        [] OTHER -> name.rev % 2^16>>

Encode8(name) ==
    <<name.letter, name.num,
      IF name.letter = "p" /\ name.rev = NoRev THEN X ELSE name.rev>>

\* An item whose revision is one below the mark stands for the latest one.
Decode4(item) ==
    CASE item[2] = Max16 -> [letter |-> "n", num |-> item[1], rev |-> 0]
      [] (item[2] + 1) % 2^16 = Max16 ->
            [letter |-> "p", num |-> item[1], rev |-> GetPaperLatestRev(item[1])]
      [] OTHER -> [letter |-> "p", num |-> item[1], rev |-> item[2]]

Decode8(item) ==
    [letter |-> item[1], num |-> item[2],
     rev |-> CASE item[1] = "n" -> 0
               [] item[1] = "p" /\ item[3] = X -> GetPaperLatestRev(item[2])
               [] OTHER -> item[3]]

-----------------------------------------------------------------------------

\* Whatever the size of a pointer, an item is decoded to the paper whose name it
\* was made from, or to the latest revision when the name had none, and the
\* items of different names differ.
ItemsKeepTheirNames ==
    LET names == {NameOf(p) : p \in Papers} \cup {NameWithoutRevision(p) : p \in Papers}
        meant(n) == CASE n.letter = "n" -> [n EXCEPT !.rev = 0]
                      [] n.letter = "p" /\ n.rev = NoRev ->
                            [n EXCEPT !.rev = GetPaperLatestRev(n.num)]
                      [] OTHER -> n
    IN  /\ \A n \in names : Decode4(Encode4(n)) = meant(n) /\ Decode8(Encode8(n)) = meant(n)
        /\ \A m, n \in names : Encode4(m) = Encode4(n) \/ Encode8(m) = Encode8(n) => m = n

=============================================================================
