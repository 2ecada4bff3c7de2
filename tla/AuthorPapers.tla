--------------------------- MODULE AuthorPapers ---------------------------
(***************************************************************************)
(* The "Authors" page of Dialog_Main (GUI_Dialog_Main.cpp).  Selecting an  *)
(* author takes the papers model away from the tree control, fills it      *)
(* anew and gives it back, juggling a reference count on the way.          *)
(* Activating an item of that tree selects the paper in the other tree,    *)
(* which holds every paper there is.                                       *)
(***************************************************************************)
EXTENDS TreeStore, TreeItems, Sequences, Functions

CONSTANTS
    PointerBytes,   \* sizeof(void*), 4 or 8
    Lists           \* g_map_authors: the papers of each author, a sequence

\* helper_tools/crawl.cpp writes both from the same entries, and the constructor
\* of Paper asserts what a number and a revision can be (paper.hpp).
ASSUME AuthorPapersAssumption ==
    /\ PointerBytes \in {4, 8}
    /\ Papers \subseteq [letter : {"n", "p"}, num : 1 .. 9999, rev : 0 .. 99]
    /\ \A p \in Papers : p.letter = "n" => p.rev = 0
    /\ Lists \subseteq Seq(Papers)

VARIABLES
    store,        \* authorPaperStore
    refs,         \* its reference count
    associated,   \* whether treeAuthorPapers shows it
    step,         \* where listAuthors_OnListItemSelected is
    list, todo,   \* the author's papers, and those not yet appended
    selected      \* the item selected in treeAllPapers, Null for none

vars == <<store, refs, associated, step, list, todo, selected>>

-----------------------------------------------------------------------------
(* The items of this build.                                                *)

EncodeStringAsTreeItem(name) == IF PointerBytes = 8 THEN Encode8(name) ELSE Encode4(name)
DecodeTreeItem(item) == IF PointerBytes = 8 THEN Decode8(item) ELSE Decode4(item)

PaperItem(p) == EncodeStringAsTreeItem(NameWithoutRevision(p))
ItemOf(p) == EncodeStringAsTreeItem(NameOf(p))

\* What the tree of all papers holds.
AllItems == {PaperItem(p) : p \in Papers} \cup {ItemOf(p) : p \in Papers}

\* The null item is the null pointer, and no number of a paper is 0.
ASSUME NullIsNoItem == Null \notin AllItems

-----------------------------------------------------------------------------
(* listAuthors_OnListItemSelected, one action for each use of the count.   *)

SelectAuthor(papers) ==
    /\ step = "idle" /\ step' = "dissociate"
    /\ refs' = refs + 1
    /\ list' = papers
    /\ UNCHANGED <<store, associated, todo, selected>>

\* AssociateModel(nullptr): the control drops the model it shows, if any.
Dissociate ==
    /\ step = "dissociate" /\ step' = "reset"
    /\ refs' = IF associated THEN refs - 1 ELSE refs
    /\ associated' = FALSE
    /\ UNCHANGED <<store, list, todo, selected>>

\* The count is not put right when the control showed no model.
ResetStore_KeepsCount ==
    /\ step = "reset" /\ step' = "fill"
    /\ store' = Reset /\ todo' = list
    /\ UNCHANGED <<refs, associated, list, selected>>

\* The papers of the author before this one stay.
ResetStore_Appends ==
    /\ step = "reset" /\ step' = "fill"
    /\ refs' = IF refs = 2 THEN refs - 1 ELSE refs
    /\ store' = store /\ todo' = list
    /\ UNCHANGED <<associated, list, selected>>

ResetStore ==
    /\ step = "reset" /\ step' = "fill"
    /\ refs' = IF refs = 2 THEN refs - 1 ELSE refs
    /\ store' = Reset /\ todo' = list
    /\ UNCHANGED <<associated, list, selected>>

\* The store with paper p and, for a P paper, its revision under it.
WithPaper(s, p) ==
    LET withItem == IF AlreadyExists(s, PaperItem(p)) THEN s
                    ELSE AppendItem(s, Null, PaperItem(p))
    IN  IF p.letter = "p" THEN AppendItem(withItem, PaperItem(p), ItemOf(p))
                          ELSE withItem

AppendPaper ==
    /\ step = "fill" /\ todo # <<>>
    /\ store' = WithPaper(store, Head(todo))
    /\ todo' = Tail(todo)
    /\ UNCHANGED <<refs, associated, step, list, selected>>

Associate ==
    /\ step = "fill" /\ todo = <<>> /\ step' = "release"
    /\ refs' = refs + 1 /\ associated' = TRUE
    /\ UNCHANGED <<store, list, todo, selected>>

Release ==
    /\ step = "release" /\ step' = "idle"
    /\ refs' = refs - 1
    /\ UNCHANGED <<store, associated, list, todo, selected>>

-----------------------------------------------------------------------------

\* treeAuthorPapers_OnDataViewCtrlItemActivated, up to SelectPaperInPaperTree
ActivateItem ==
    /\ step = "idle" /\ associated
    /\ \E item \in Shown(store) : selected' = ItemOf(DecodeTreeItem(item))
    /\ UNCHANGED <<store, refs, associated, step, list, todo>>

Init ==
    /\ store = Reset /\ refs = 1 /\ associated = FALSE
    /\ step = "idle" /\ list = <<>> /\ todo = <<>> /\ selected = Null

Next ==
    \/ \E papers \in Lists : SelectAuthor(papers)
    \/ Dissociate \/ ResetStore \/ AppendPaper \/ Associate \/ Release
    \/ ActivateItem

Spec == Init /\ [][Next]_vars

-----------------------------------------------------------------------------

\* The six assertions on GetRefCount() in listAuthors_OnListItemSelected: the
\* store never dies while it is used and never outlives its last user.
RefCountsAsAsserted ==
    /\ step \in {"idle", "fill"} => refs = 1
    /\ step \in {"dissociate", "release"} => refs = 2
    /\ step = "fill" => ~associated

\* assert( this->treeStore->AlreadyExists(item) ) in SelectPaperInPaperTree:
\* what is activated in the author's tree is there in the tree of all papers.
ActivatedPaperExists == selected \in AllItems \cup {Null}

\* The loop of GetChildren ends for every item, also while the store is filled
\* and whatever the author's list repeats, and the tree shows no paper that the
\* selected author did not write.
TreesAreSound ==
    /\ \A item \in DOMAIN store : GetChildrenReturns(store, item)
    /\ associated /\ step = "idle" =>
          Shown(store) \subseteq UNION {{PaperItem(list[i]), ItemOf(list[i])} : i \in DOMAIN list}

\* An author none of whose papers stands twice in the list gets all of them.
DistinctPapersShown ==
    associated /\ step = "idle" /\ IsInjective(list) =>
        \A i \in DOMAIN list : {PaperItem(list[i]), ItemOf(list[i])} \subseteq Shown(store)

\* The tree shows every paper the selected author has written.
AllPapersShown ==
    associated /\ step = "idle" =>
        \A i \in DOMAIN list : {PaperItem(list[i]), ItemOf(list[i])} \subseteq Shown(store)

=============================================================================
