----------------------------- MODULE TreeStore -----------------------------
(***************************************************************************)
(* wxDataViewTreeStoreWithColumns (GUI_Dialog_Main.cpp): the model behind  *)
(* the two paper trees.  A store maps an item to a node, and the children  *)
(* of a node are a list linked backwards: from the node's last_child       *)
(* through prior_sibling.  An item is the code of a paper or a revision,   *)
(* so the same paper has the same item in both trees.                      *)
(***************************************************************************)
EXTENDS Naturals, FiniteSets

CONSTANT Null   \* the null item: the key of the root, and no item at all

Reset ==
    [i \in {Null} |->
        [parent |-> Null, prior_sibling |-> Null, last_child |-> Null]]

AlreadyExists(store, item) == item \in DOMAIN store

\* The last child is read after it has been assigned.
AppendItem_ReadsLate(store, parent, item) ==
    [i \in DOMAIN store \cup {item} |->
        IF i \notin DOMAIN store
        THEN [parent |-> parent, prior_sibling |-> item, last_child |-> Null]
        ELSE IF i = parent THEN [store[i] EXCEPT !.last_child = item]
        ELSE store[i]]

\* The parent gets a new last child in any case; emplace then leaves the node
\* of an item that is already there as it is.
AppendItem(store, parent, item) ==
    [i \in DOMAIN store \cup {item} |->
        IF i \notin DOMAIN store
        THEN [parent |-> parent,
              prior_sibling |-> store[parent].last_child,
              last_child |-> Null]
        ELSE IF i = parent THEN [store[i] EXCEPT !.last_child = item]
        ELSE store[i]]

\* Walk(store, item)[n] is the item GetChildren looks at in iteration n.
Walk(store, item) ==
    LET x[n \in Nat] ==
          IF n = 0 THEN store[item].last_child
          ELSE IF x[n - 1] = Null THEN Null ELSE store[x[n - 1]].prior_sibling
    IN  x

Size(store) == Cardinality(DOMAIN store)

GetChildren(store, item) ==
    {Walk(store, item)[n] : n \in 0 .. Size(store)} \ {Null}

\* A list without a cycle has fewer members than the store.
GetChildrenReturns(store, item) == Walk(store, item)[Size(store)] = Null

Shown(store) ==
    UNION {GetChildren(store, i) : i \in {Null} \cup GetChildren(store, Null)}

=============================================================================
