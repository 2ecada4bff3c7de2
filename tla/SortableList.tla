---------------------------- MODULE SortableList ----------------------------
(***************************************************************************)
(* MySortableListCtrl (MySortableListCtrl.cpp): the comparator by which a  *)
(* click on the header of a column sorts the list of authors.  plist has   *)
(* the items as they stand in the control when the comparator is called,   *)
(* each known by the pointer stored with it (GUI_Dialog_Main.cpp 462);     *)
(* text has the cell of each item in the column.  A cell of the first      *)
(* column is the rank of its text, one of another column the number in it, *)
(* or NotANumber.                                                          *)
(***************************************************************************)
EXTENDS Integers, SequencesExt

EmptyText == 0
NotANumber == -1    \* the numbers are counts
wxNOT_FOUND == -1

\* OnColClick always sets is_ascending to false.
multiplier(n_col) == IF n_col = 0 THEN 1 ELSE -1

Cmp(a, b) == CASE a < b -> -1 [] a = b -> 0 [] a > b -> 1

CompareTexts_EmptyFirst(text1, text2) ==
    CASE text1 = EmptyText -> 1
      [] text1 # EmptyText /\ text2 = EmptyText -> -1
      [] OTHER -> multiplier(0) * Cmp(text1, text2)

\* Two empty texts are equal before they are found to be empty.
CompareTexts(text1, text2) ==
    CASE text1 = text2 -> 0
      [] text1 # text2 /\ text1 = EmptyText -> 1
      [] text1 # text2 /\ text2 = EmptyText -> -1
      [] OTHER -> multiplier(0) * Cmp(text1, text2)

CompareNumbers(num1, num2) ==
    CASE num1 = NotANumber -> 1
      [] num1 # NotANumber /\ num2 = NotANumber -> -1
      [] OTHER -> multiplier(1) * Cmp(num1, num2)

CompareCells(cell1, cell2, n_col) ==
    IF n_col = 0 THEN CompareTexts(cell1, cell2) ELSE CompareNumbers(cell1, cell2)

FindItem(plist, item) ==
    IF item \in Range(plist) THEN CHOOSE index \in DOMAIN plist : plist[index] = item
                             ELSE wxNOT_FOUND

GetDataByColumn(plist, text, index) == text[plist[index]]

\* An item that does not stand in the control is equal to every other.
Compare_MSLC(plist, text, item1, item2, n_col) ==
    LET index1 == FindItem(plist, item1)
        index2 == FindItem(plist, item2)
    IN  IF index1 = wxNOT_FOUND \/ index2 = wxNOT_FOUND THEN 0
        ELSE CompareCells(GetDataByColumn(plist, text, index1),
                          GetDataByColumn(plist, text, index2), n_col)

-----------------------------------------------------------------------------
(* What SortItems can make of such answers depends on what it does to the  *)
(* items while it asks.                                                    *)

\* Texts from A to Z before the empty ones, numbers from high to low before
\* what is no number.
InOrder(cell1, cell2, n_col) ==
    IF n_col = 0 THEN cell2 = EmptyText \/ (cell1 # EmptyText /\ cell1 <= cell2)
                 ELSE cell2 = NotANumber \/ (cell1 # NotANumber /\ cell1 >= cell2)

\* Where an algorithm that inserts puts the item it has taken out at place:
\* below the last one before it that is not greater.
PutBackAt(plist, text, place, n_col) ==
    LET rest == RemoveAt(plist, place)
        greater(k) == Compare_MSLC(rest, text, rest[k], plist[place], n_col) > 0
    IN  CHOOSE p \in 1 .. place : /\ \A k \in p .. place - 1 : greater(k)
                                  /\ p > 1 => ~greater(p - 1)

\* However the items stand, the comparator answers a swapped pair the other way
\* round (two cells that are no numbers are the exception: each is greater than
\* the other).
AnswersAgree(plist, text, n_col) ==
    \A i, j \in DOMAIN plist :
        i # j /\ ~(text[plist[i]] = NotANumber /\ text[plist[j]] = NotANumber) =>
            Compare_MSLC(plist, text, plist[i], plist[j], n_col) =
                -Compare_MSLC(plist, text, plist[j], plist[i], n_col)

\* A list without neighbours to be exchanged is in order throughout.
ExchangesSort(plist, text, n_col) ==
    (\A i \in 1 .. Len(plist) - 1 :
        Compare_MSLC(plist, text, plist[i], plist[i + 1], n_col) <= 0)
    => \A i, j \in DOMAIN plist : i < j => InOrder(text[plist[i]], text[plist[j]], n_col)

\* An item that is taken out to be inserted elsewhere goes back where it was,
\* whatever is in its cell: it is not found meanwhile.
InsertionsDoNothing(plist, text, n_col) ==
    \A place \in DOMAIN plist : PutBackAt(plist, text, place, n_col) = place

\* So a click on a header sorts by what the control exchanges while all items
\* stand in it, and comes to one order whichever it exchanges first.  With an
\* item taken out of it, it sorts nothing.
OnlyExchangesSort(cells, n_col, most) ==
    \A n \in 0 .. most : \A text \in [1 .. n -> cells], plist \in Injection(1 .. n, 1 .. n) :
        /\ AnswersAgree(plist, text, n_col)
        /\ ExchangesSort(plist, text, n_col)
        /\ InsertionsDoNothing(plist, text, n_col)

=============================================================================
