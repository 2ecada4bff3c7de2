------------------------- MODULE AuthorPapersProofs -------------------------
(***************************************************************************)
(* What the page of an author's papers keeps to, for any catalogue and     *)
(* lists of any length: the tree of papers, the names as items and as      *)
(* text, the order of the list of authors and the tables of the debug tab. *)
(***************************************************************************)
EXTENDS MCAuthorPapers, RecursionTheorems, TLAPS, FiniteSetTheorems, SequenceTheorems

-----------------------------------------------------------------------------
(* The walk of GetChildren.                                                *)

Prior(s, x) == IF x = Null THEN Null ELSE s[x].prior_sibling

\* f is the first m steps of the walk from item, after the first look.
IsWalk(f, s, item, m) ==
    f = [k \in 0 .. m |-> IF k = 0 THEN s[item].last_child ELSE Prior(s, f[k - 1])]

\* A walk can be one step longer.
LEMMA WalkGoesOn ==
    ASSUME NEW s, NEW item, NEW m \in Nat, NEW f, IsWalk(f, s, item, m)
    PROVE  \E g : IsWalk(g, s, item, m + 1)
<1>. DEFINE g == [k \in 0 .. m + 1 |-> IF k = m + 1 THEN Prior(s, f[m]) ELSE f[k]]
<1>1. \A k \in 0 .. m : f[k] = IF k = 0 THEN s[item].last_child ELSE Prior(s, f[k - 1])
  BY DEF IsWalk
<1>2. g[0] = s[item].last_child
  BY <1>1
<1>3. \A k \in 1 .. m : g[k] = Prior(s, g[k - 1])
  BY <1>1
<1>4. g[m + 1] = Prior(s, g[m])
  OBVIOUS
<1>5. g = [k \in 0 .. m + 1 |-> g[k]]
  OBVIOUS
<1>. HIDE DEF g
<1>6. \A k \in 0 .. m + 1 : g[k] = IF k = 0 THEN s[item].last_child ELSE Prior(s, g[k - 1])
  <2>1. \A k \in 0 .. m + 1 : k = 0 \/ k \in 1 .. m \/ k = m + 1
    OBVIOUS
  <2>. QED BY <2>1, <1>2, <1>3, <1>4
<1>7. IsWalk(g, s, item, m + 1)
  BY <1>5, <1>6, Zenon DEF IsWalk
<1>. QED BY <1>7

\* There is a walk of every length
LEMMA WalksExist ==
    ASSUME NEW s, NEW item
    PROVE  \A m \in Nat : \E f : IsWalk(f, s, item, m)
<1>. DEFINE Without == {m \in Nat : ~ \E f : IsWalk(f, s, item, m)}
<1>1. SUFFICES ASSUME Without # {} PROVE FALSE
  OBVIOUS
<1>2. PICK m \in Without : \A n \in Without : m <= n
  BY <1>1, LowestNumber
<1>3. m # 0
  <2>. DEFINE f == [k \in 0 .. 0 |-> s[item].last_child]
  <2>1. f = [k \in 0 .. 0 |-> IF k = 0 THEN s[item].last_child ELSE Prior(s, f[k - 1])]
    OBVIOUS
  <2>2. IsWalk(f, s, item, 0)
    BY <2>1, Zenon DEF IsWalk
  <2>. QED BY <2>2
<1>4. m - 1 \in Nat /\ m - 1 \notin Without
  BY <1>2, <1>3
<1>5. \E g : IsWalk(g, s, item, (m - 1) + 1)
  BY <1>4, WalkGoesOn
<1>. QED BY <1>2, <1>5

\* and only one.
LEMMA WalksAgree ==
    ASSUME NEW s, NEW item, NEW m \in Nat, NEW f, IsWalk(f, s, item, m),
           NEW n \in Nat, NEW g, IsWalk(g, s, item, n), m <= n
    PROVE  \A k \in 0 .. m : f[k] = g[k]
<1>. DEFINE Apart == {k \in 0 .. m : f[k] # g[k]}
<1>1. SUFFICES ASSUME Apart # {} PROVE FALSE
  OBVIOUS
<1>. HIDE DEF Apart
<1>a. Apart \subseteq Nat
  BY DEF Apart
<1>2. PICK k \in Apart : \A l \in Apart : k <= l
  BY <1>1, <1>a, LowestNumber
<1>. USE DEF Apart
<1>3. f[k] = IF k = 0 THEN s[item].last_child ELSE Prior(s, f[k - 1])
  BY <1>2 DEF IsWalk
<1>4. g[k] = IF k = 0 THEN s[item].last_child ELSE Prior(s, g[k - 1])
  BY <1>2 DEF IsWalk
<1>5. k # 0 => k - 1 \in 0 .. m /\ k - 1 \notin Apart
  BY <1>2
<1>. QED BY <1>2, <1>3, <1>4, <1>5

\* The walk of GetChildren is what its definition says.
LEMMA WalkIsDefined ==
    ASSUME NEW s, NEW item
    PROVE  /\ Walk(s, item)[0] = s[item].last_child
           /\ \A n \in Nat : Walk(s, item)[n + 1] = Prior(s, Walk(s, item)[n])
<1>. DEFINE First(m) == CHOOSE f : IsWalk(f, s, item, m)
            x == [n \in Nat |-> First(n)[n]]
            Step(y, n) == IF n = 0 THEN s[item].last_child
                          ELSE IF y[n - 1] = Null THEN Null ELSE s[y[n - 1]].prior_sibling
            Solves(y) == y = [n \in Nat |-> Step(y, n)]
<1>1. \A n \in Nat : IsWalk(First(n), s, item, n)
  BY WalksExist
<1>. HIDE DEF First
<1>2. \A n \in Nat : n # 0 => First(n)[n - 1] = First(n - 1)[n - 1]
  <2>1. SUFFICES ASSUME NEW n \in Nat, n # 0 PROVE First(n - 1)[n - 1] = First(n)[n - 1]
    OBVIOUS
  <2>2. n - 1 \in Nat /\ n - 1 <= n /\ n - 1 \in 0 .. n - 1
    BY <2>1
  <2>. QED BY <1>1, <2>2, WalksAgree
<1>3. \A n \in Nat : First(n)[n] = IF n = 0 THEN s[item].last_child ELSE Prior(s, First(n)[n - 1])
  <2>1. SUFFICES ASSUME NEW n \in Nat
                 PROVE  First(n)[n] = IF n = 0 THEN s[item].last_child ELSE Prior(s, First(n)[n - 1])
    OBVIOUS
  <2>2. IsWalk(First(n), s, item, n) /\ n \in 0 .. n
    BY <1>1
  <2>. QED BY <2>2 DEF IsWalk
<1>4. \A n \in Nat : x[n] = Step(x, n)
  <2>1. SUFFICES ASSUME NEW n \in Nat PROVE x[n] = Step(x, n)
    OBVIOUS
  <2>2. n # 0 => n - 1 \in Nat /\ x[n - 1] = First(n)[n - 1]
    BY <1>2
  <2>. QED BY <1>3, <2>2 DEF Prior
<1>5. Solves(x)
  BY <1>4
<1>6. Walk(s, item) = CHOOSE y : Solves(y)
  BY DEF Walk
<1>. HIDE DEF x, Solves
<1>7. Solves(Walk(s, item))
  BY <1>5, <1>6
<1>. USE DEF Solves
<1>8. \A n \in Nat : Walk(s, item)[n] = Step(Walk(s, item), n)
  BY <1>7
<1>. QED BY <1>8 DEF Prior

-----------------------------------------------------------------------------
(* Stores whose lists of children have no cycle.                           *)

Nodes(D) == [parent : D, prior_sibling : D, last_child : D]

\* Every item stands above its prior sibling.
Ranks(s, rank) ==
    /\ rank \in [DOMAIN s -> Nat]
    /\ \A i \in DOMAIN s :
          /\ rank[i] < Size(s)
          /\ s[i].prior_sibling # Null => rank[s[i].prior_sibling] < rank[i]

Sound(s) ==
    /\ IsFiniteSet(DOMAIN s) /\ Null \in DOMAIN s
    /\ s \in [DOMAIN s -> Nodes(DOMAIN s)]
    /\ \E rank : Ranks(s, rank)

\* A store with nothing in it has no cycle.
LEMMA ResetIsSound == Sound(Reset) /\ DOMAIN Reset = {Null}
<1>1. DOMAIN Reset = {Null} /\ Reset \in [{Null} -> Nodes({Null})] /\ Reset[Null].prior_sibling = Null
  BY DEF Reset, Nodes
<1>2. IsFiniteSet({Null}) /\ Cardinality({Null}) = 1
  BY FS_Singleton
<1>3. Ranks(Reset, [i \in {Null} |-> 0])
  BY <1>1, <1>2 DEF Ranks, Size
<1>. QED BY <1>1, <1>2, <1>3 DEF Sound

\* What AppendItem does to each node, and to the parent of a new item.
Keeps(s, parent, t) ==
    \A i \in DOMAIN s : /\ t[i].prior_sibling = s[i].prior_sibling
                        /\ t[i].parent = s[i].parent
                        /\ i # parent => t[i].last_child = s[i].last_child

Adds(s, parent, item, t) ==
    /\ t[item].prior_sibling = s[parent].last_child
    /\ t[item].parent = parent
    /\ t[parent].last_child = item

LEMMA AppendedNodes ==
    ASSUME NEW s, NEW parent \in DOMAIN s, NEW item, Sound(s),
           NEW t, t = AppendItem(s, parent, item)
    PROVE  /\ DOMAIN t = DOMAIN s \cup {item}
           /\ t \in [DOMAIN t -> Nodes(DOMAIN t)]
           /\ Keeps(s, parent, t)
           /\ item \notin DOMAIN s => Adds(s, parent, item, t)
<1>. DEFINE D == DOMAIN s
            E == D \cup {item}
            n(i) == [s[i] EXCEPT !.last_child = item]
<1>1. s \in [D -> Nodes(D)] /\ Null \in D /\ parent \in D
  BY DEF Sound
<1>2. /\ \A i \in D : t[i] = IF i = parent THEN n(i) ELSE s[i]
      /\ item \notin D => t[item] = [parent |-> parent, prior_sibling |-> s[parent].last_child,
                                     last_child |-> Null]
      /\ DOMAIN t = E /\ t = [i \in E |-> t[i]]
  BY DEF AppendItem
<1>3. ASSUME NEW i \in D
      PROVE  /\ s[i] \in Nodes(E) /\ n(i) \in Nodes(E) /\ s[i].last_child \in D
             /\ n(i).prior_sibling = s[i].prior_sibling /\ n(i).parent = s[i].parent
             /\ n(i).last_child = item
  BY <1>1 DEF Nodes
<1>. HIDE DEF n
<1>4. item \notin D => t[item] \in Nodes(E)
  BY <1>1, <1>2, <1>3 DEF Nodes
<1>5. t \in [E -> Nodes(E)]
  BY <1>2, <1>3, <1>4
<1>6. Keeps(s, parent, t)
  BY <1>2, <1>3 DEF Keeps
<1>7. item \notin D => Adds(s, parent, item, t)
  BY <1>1, <1>2, <1>3 DEF Adds
<1>. QED BY <1>2, <1>5, <1>6, <1>7

\* A new item stands above all the others.
LEMMA AppendIsSound ==
    ASSUME NEW s, NEW parent \in DOMAIN s, NEW item, Sound(s),
           NEW t, t = AppendItem(s, parent, item)
    PROVE  Sound(t)
<1>. DEFINE D == DOMAIN s
<1>a. /\ DOMAIN t = D \cup {item} /\ t \in [DOMAIN t -> Nodes(DOMAIN t)]
      /\ Keeps(s, parent, t) /\ (item \notin D => Adds(s, parent, item, t))
  BY AppendedNodes
<1>1. /\ DOMAIN t = D \cup {item} /\ t \in [DOMAIN t -> Nodes(DOMAIN t)]
      /\ \A i \in D : t[i].prior_sibling = s[i].prior_sibling
      /\ item \notin D => t[item].prior_sibling = s[parent].last_child
  BY <1>a DEF Keeps, Adds
<1>2. /\ IsFiniteSet(DOMAIN t) /\ Size(s) \in Nat
      /\ Size(t) = IF item \in D THEN Size(s) ELSE Size(s) + 1
  BY <1>1, FS_AddElement, FS_CardinalityType DEF Sound, Size
<1>3. \A i \in D : s[i].prior_sibling \in D /\ s[i].last_child \in D
  BY DEF Sound, Nodes
<1>4. PICK rank : Ranks(s, rank)
  BY DEF Sound
<1>. DEFINE r == [i \in DOMAIN t |-> IF i \in D THEN rank[i] ELSE Size(s)]
<1>5. r \in [DOMAIN t -> Nat] /\ \A i \in D : r[i] = rank[i] /\ rank[i] < Size(s)
  BY <1>1, <1>2, <1>4 DEF Ranks
<1>6. item \notin D => r[item] = Size(s)
  BY <1>1
<1>. HIDE DEF r
<1>7. ASSUME NEW i \in D
      PROVE  r[i] < Size(t) /\ (t[i].prior_sibling # Null => r[t[i].prior_sibling] < r[i])
  <2>1. t[i].prior_sibling = s[i].prior_sibling /\ s[i].prior_sibling \in D
    BY <1>1, <1>3
  <2>2. s[i].prior_sibling # Null => rank[s[i].prior_sibling] < rank[i]
    BY <1>4 DEF Ranks
  <2>3. rank[i] \in Nat
    BY <1>4 DEF Ranks
  <2>. QED BY <2>1, <2>2, <2>3, <1>2, <1>5
<1>8. ASSUME item \notin D
      PROVE  r[item] < Size(t) /\ r[t[item].prior_sibling] < r[item]
  <2>1. t[item].prior_sibling \in D
    BY <1>1, <1>3, <1>8
  <2>2. r[t[item].prior_sibling] < Size(s)
    BY <2>1, <1>5
  <2>. QED BY <2>2, <1>2, <1>6, <1>8
<1>9. Ranks(t, r)
  BY <1>1, <1>5, <1>7, <1>8 DEF Ranks
<1>. QED BY <1>1, <1>2, <1>9 DEF Sound

\* GetChildren does not leave the store,
LEMMA WalkStaysInside ==
    ASSUME NEW s, NEW item \in DOMAIN s, Sound(s)
    PROVE  \A n \in Nat : Walk(s, item)[n] \in DOMAIN s
<1>. DEFINE w == Walk(s, item)
            Outside == {n \in Nat : w[n] \notin DOMAIN s}
<1>1. SUFFICES ASSUME Outside # {} PROVE FALSE
  OBVIOUS
<1>2. PICK n \in Outside : \A m \in Outside : n <= m
  BY <1>1, LowestNumber
<1>3. \A i \in DOMAIN s : s[i].last_child \in DOMAIN s /\ s[i].prior_sibling \in DOMAIN s
  BY DEF Sound, Nodes
<1>4. w[0] = s[item].last_child /\ \A m \in Nat : w[m + 1] = Prior(s, w[m])
  BY WalkIsDefined
<1>. HIDE DEF w
<1>5. n # 0
  BY <1>3, <1>4
<1>6. n - 1 \in Nat /\ w[n - 1] \in DOMAIN s /\ w[n] = Prior(s, w[n - 1])
  <2>1. n - 1 \in Nat /\ n - 1 \notin Outside /\ (n - 1) + 1 = n
    BY <1>2, <1>5
  <2>. QED BY <2>1, <1>4
<1>. QED BY <1>2, <1>3, <1>6 DEF Sound, Prior

\* and goes down with every step,
LEMMA WalkDescends ==
    ASSUME NEW s, NEW item \in DOMAIN s, Sound(s)
    PROVE  \A n \in Nat : Walk(s, item)[n] # Null => n < Size(s)
<1>. DEFINE w == Walk(s, item)
<1>1. PICK rank : Ranks(s, rank)
  BY DEF Sound
<1>2. Size(s) \in Nat
  BY FS_CardinalityType DEF Sound, Size
<1>3. \A n \in Nat : w[n] \in DOMAIN s /\ w[n + 1] = Prior(s, w[n])
  BY WalkStaysInside, WalkIsDefined
<1>. DEFINE High == {n \in Nat : w[n] # Null /\ ~(rank[w[n]] + n < Size(s))}
<1>. HIDE DEF w
<1>4. High = {}
  <2>1. SUFFICES ASSUME High # {} PROVE FALSE
    OBVIOUS
  <2>2. PICK n \in High : \A m \in High : n <= m
    BY <2>1, LowestNumber
  <2>3. n # 0
    BY <2>2, <1>1, <1>2, <1>3 DEF Ranks
  <2>4. n - 1 \in Nat /\ n - 1 \notin High /\ (n - 1) + 1 = n
    BY <2>2, <2>3
  <2>5. w[n - 1] \in DOMAIN s /\ w[n] \in DOMAIN s /\ w[n] = Prior(s, w[n - 1]) /\ w[n] # Null
    BY <2>2, <2>4, <1>3
  <2>6. w[n - 1] # Null /\ rank[w[n]] < rank[w[n - 1]]
    BY <2>5, <1>1 DEF Prior, Ranks
  <2>7. rank[w[n - 1]] + (n - 1) < Size(s)
    BY <2>4, <2>6
  <2>8. rank[w[n]] \in Nat /\ rank[w[n - 1]] \in Nat
    BY <2>5, <1>1 DEF Ranks
  <2>9. rank[w[n]] + n < Size(s)
    BY <2>2, <2>6, <2>7, <2>8, <1>2
  <2>. QED BY <2>2, <2>9
<1>5. ASSUME NEW n \in Nat, w[n] # Null PROVE n < Size(s)
  <2>1. rank[w[n]] \in Nat /\ rank[w[n]] + n < Size(s)
    BY <1>1, <1>3, <1>4, <1>5 DEF Ranks
  <2>. QED BY <2>1, <1>2
<1>. QED BY <1>5 DEF w

\* so that it comes to its end.
LEMMA WalkEnds ==
    ASSUME NEW s, NEW item \in DOMAIN s, Sound(s)
    PROVE  GetChildrenReturns(s, item)
<1>1. Size(s) \in Nat
  BY FS_CardinalityType DEF Sound, Size
<1>. QED BY <1>1, WalkDescends DEF GetChildrenReturns

\* What a tree shows is in its store.
LEMMA ShownIsInside ==
    ASSUME NEW s, Sound(s)
    PROVE  Shown(s) \subseteq DOMAIN s \ {Null}
<1>1. ASSUME NEW i \in DOMAIN s PROVE GetChildren(s, i) \subseteq DOMAIN s \ {Null}
  <2>1. \A n \in 0 .. Size(s) : n \in Nat
    OBVIOUS
  <2>. QED BY <2>1, WalkStaysInside DEF GetChildren
<1>2. Null \in DOMAIN s
  BY DEF Sound
<1>3. {Null} \cup GetChildren(s, Null) \subseteq DOMAIN s
  BY <1>1, <1>2
<1>. QED BY <1>1, <1>3 DEF Shown

-----------------------------------------------------------------------------
(* Stores in which every item is found among the children of its parent.   *)

AllReached(s) ==
    \A x \in DOMAIN s \ {Null} : \E n \in Nat : Walk(s, s[x].parent)[n] = x

\* What a walk reaches, GetChildren finds in time.
LEMMA ReachedIsChild ==
    ASSUME NEW s, Sound(s), AllReached(s), NEW x \in DOMAIN s \ {Null}
    PROVE  x \in GetChildren(s, s[x].parent)
<1>1. s[x].parent \in DOMAIN s /\ Size(s) \in Nat
  BY FS_CardinalityType DEF Sound, Nodes, Size
<1>2. PICK n \in Nat : Walk(s, s[x].parent)[n] = x
  BY DEF AllReached
<1>3. n < Size(s)
  BY <1>1, <1>2, WalkDescends
<1>4. n \in 0 .. Size(s)
  BY <1>1, <1>3
<1>. QED BY <1>2, <1>4 DEF GetChildren

\* A new item comes before the children its parent had.
LEMMA WalkAppended ==
    ASSUME NEW s, NEW parent \in DOMAIN s, NEW item, item \notin DOMAIN s, Sound(s),
           NEW t, t = AppendItem(s, parent, item)
    PROVE  /\ \A j \in DOMAIN s : j # parent => \A n \in Nat : Walk(t, j)[n] = Walk(s, j)[n]
           /\ Walk(t, parent)[0] = item
           /\ \A n \in Nat : Walk(t, parent)[n + 1] = Walk(s, parent)[n]
<1>a. Keeps(s, parent, t) /\ Adds(s, parent, item, t)
  BY AppendedNodes
<1>1. /\ \A i \in DOMAIN s : /\ t[i].prior_sibling = s[i].prior_sibling
                             /\ i # parent => t[i].last_child = s[i].last_child
      /\ t[item].prior_sibling = s[parent].last_child /\ t[parent].last_child = item
  BY <1>a DEF Keeps, Adds
<1>2. \A x \in DOMAIN s : Prior(t, x) = Prior(s, x)
  BY <1>1 DEF Prior
<1>3. Prior(t, item) = s[parent].last_child
  BY <1>1 DEF Prior, Sound
<1>4. ASSUME NEW j \in DOMAIN s, j # parent, NEW n \in Nat PROVE Walk(t, j)[n] = Walk(s, j)[n]
  <2>. DEFINE Apart == {m \in Nat : Walk(t, j)[m] # Walk(s, j)[m]}
  <2>1. SUFFICES ASSUME Apart # {} PROVE FALSE
    OBVIOUS
  <2>2. PICK m \in Apart : \A l \in Apart : m <= l
    BY <2>1, LowestNumber
  <2>3. m # 0
    BY <2>2, <1>1, <1>4, WalkIsDefined
  <2>4. m - 1 \in Nat /\ m - 1 \notin Apart /\ (m - 1) + 1 = m
    BY <2>2, <2>3
  <2>5. Walk(t, j)[m - 1] = Walk(s, j)[m - 1] /\ Walk(s, j)[m - 1] \in DOMAIN s
    BY <2>4, WalkStaysInside
  <2>6. Walk(t, j)[m] = Prior(t, Walk(t, j)[m - 1]) /\ Walk(s, j)[m] = Prior(s, Walk(s, j)[m - 1])
    BY <2>4, WalkIsDefined
  <2>. QED BY <2>2, <2>5, <2>6, <1>2
<1>5. Walk(t, parent)[0] = item
  BY <1>1, WalkIsDefined
<1>6. ASSUME NEW n \in Nat PROVE Walk(t, parent)[n + 1] = Walk(s, parent)[n]
  <2>. DEFINE Apart == {m \in Nat : Walk(t, parent)[m + 1] # Walk(s, parent)[m]}
  <2>1. SUFFICES ASSUME Apart # {} PROVE FALSE
    OBVIOUS
  <2>2. PICK m \in Apart : \A l \in Apart : m <= l
    BY <2>1, LowestNumber
  <2>3. m # 0
    <3>1. Walk(t, parent)[0 + 1] = Prior(t, Walk(t, parent)[0])
      BY WalkIsDefined
    <3>2. Walk(s, parent)[0] = s[parent].last_child
      BY WalkIsDefined
    <3>3. Walk(t, parent)[0 + 1] = Walk(s, parent)[0]
      BY <3>1, <3>2, <1>3, <1>5
    <3>. QED BY <2>2, <3>3
  <2>4. m - 1 \in Nat /\ m - 1 \notin Apart /\ (m - 1) + 1 = m
    BY <2>2, <2>3
  <2>5. Walk(t, parent)[m] = Walk(s, parent)[m - 1] /\ Walk(s, parent)[m - 1] \in DOMAIN s
    BY <2>4, WalkStaysInside
  <2>6. /\ Walk(t, parent)[m + 1] = Prior(t, Walk(t, parent)[m])
        /\ Walk(s, parent)[m] = Prior(s, Walk(s, parent)[m - 1])
    BY <2>2, <2>4, WalkIsDefined
  <2>. QED BY <2>2, <2>5, <2>6, <1>2
<1>. QED BY <1>4, <1>5, <1>6

\* Appending a new item loses nothing.
LEMMA AppendReaches ==
    ASSUME NEW s, NEW parent \in DOMAIN s, NEW item, item \notin DOMAIN s, Sound(s),
           AllReached(s), NEW t, t = AppendItem(s, parent, item)
    PROVE  AllReached(t)
<1>a. DOMAIN t = DOMAIN s \cup {item} /\ Keeps(s, parent, t) /\ Adds(s, parent, item, t)
  BY AppendedNodes
<1>b. \A i \in DOMAIN s : s[i].parent \in DOMAIN s
  BY DEF Sound, Nodes
<1>1. /\ DOMAIN t = DOMAIN s \cup {item} /\ t[item].parent = parent
      /\ \A i \in DOMAIN s : t[i].parent = s[i].parent /\ s[i].parent \in DOMAIN s
  BY <1>a, <1>b DEF Keeps, Adds
<1>2. ASSUME NEW x \in DOMAIN s \ {Null} PROVE \E n \in Nat : Walk(t, t[x].parent)[n] = x
  <2>1. PICK n \in Nat : Walk(s, s[x].parent)[n] = x
    BY DEF AllReached
  <2>2. CASE s[x].parent = parent
    <3>1. Walk(t, parent)[n + 1] = x /\ n + 1 \in Nat
      BY <2>1, <2>2, WalkAppended
    <3>. QED BY <3>1, <2>2, <1>1
  <2>3. CASE s[x].parent # parent
    <3>1. Walk(t, s[x].parent)[n] = x
      BY <2>1, <2>3, <1>1, WalkAppended
    <3>. QED BY <3>1, <1>1
  <2>. QED BY <2>2, <2>3
<1>3. Walk(t, t[item].parent)[0] = item
  BY <1>1, WalkAppended
<1>. QED BY <1>1, <1>2, <1>3 DEF AllReached

-----------------------------------------------------------------------------
(* The items of papers.                                                    *)

Numbers == 1 .. 9999
Revisions == 0 .. 99
PaperRecords == [letter : {"n", "p"}, num : Numbers, rev : Revisions]

\* What a paper is made of.
LEMMA PaperIsRecord ==
    ASSUME NEW p \in Papers
    PROVE  p \in PaperRecords
BY AuthorPapersAssumption DEF PaperRecords, Numbers, Revisions

LEMMA PaperFields ==
    ASSUME NEW p \in Papers
    PROVE  /\ p.letter \in {"n", "p"} /\ p.num \in Numbers /\ p.rev \in Revisions
           /\ p.letter = "n" => p.rev = 0
<1>1. p.letter \in {"n", "p"} /\ p.num \in Numbers /\ p.rev \in Revisions
  BY PaperIsRecord DEF PaperRecords
<1>2. p.letter = "n" => p.rev = 0
  BY AuthorPapersAssumption
<1>. QED BY <1>1, <1>2

LEMMA PaperIsItsFields ==
    ASSUME NEW p \in Papers
    PROVE  [letter |-> p.letter, num |-> p.num, rev |-> p.rev] = p
BY PaperIsRecord DEF PaperRecords

\* Nothing is lost of a number in 16 bits.
LEMMA NumbersFit ==
    ASSUME NEW p \in Papers
    PROVE  p.num % 2^16 = p.num /\ p.rev % 2^16 = p.rev
<1>. DEFINE Low(n) == n % 2^16
<1>1. (\A n \in Numbers : Low(n) = n) /\ (\A n \in Revisions : Low(n) = n)
  BY 2^16 = 65536 DEF Numbers, Revisions
<1>. HIDE DEF Low
<1>2. Low(p.num) = p.num /\ Low(p.rev) = p.rev
  BY <1>1, PaperFields
<1>. QED BY <1>2 DEF Low

\* No revision is a mark.
LEMMA RevisionsAreNoMarks == \A r \in Revisions : r \notin {-2, -1, 65534, 65535}
BY DEF Revisions

\* The item of each name of a paper, spelt out.
LEMMA ItemsOfPaper ==
    ASSUME NEW p \in Papers
    PROVE  /\ PaperItem(p) = IF PointerBytes = 8
                             THEN <<p.letter, p.num, IF p.letter = "p" THEN -2 ELSE -1>>
                             ELSE <<p.num, IF p.letter = "n" THEN 65535 ELSE 65534>>
           /\ ItemOf(p) = IF p.letter = "n" THEN PaperItem(p)
                          ELSE IF PointerBytes = 8 THEN <<p.letter, p.num, p.rev>>
                          ELSE <<p.num, p.rev>>
<1>. DEFINE bare == [letter |-> p.letter, num |-> p.num, rev |-> -1]
<1>a. p \in PaperRecords
  BY PaperIsRecord
<1>1. NameWithoutRevision(p) = bare
  BY <1>a DEF NameWithoutRevision, NoRev, PaperRecords
<1>2. NameOf(p) = IF p.letter = "n" THEN bare ELSE p
  BY <1>a DEF NameOf, NoRev, PaperRecords
<1>3. p.num % 2^16 = p.num /\ p.rev % 2^16 = p.rev
  BY NumbersFit
<1>4. /\ bare.letter = p.letter /\ bare.num = p.num /\ bare.rev = -1
      /\ p.letter \in {"n", "p"} /\ p.rev # -1
  BY PaperFields, RevisionsAreNoMarks
<1>5. /\ Encode8(bare) = <<p.letter, p.num, IF p.letter = "p" THEN -2 ELSE -1>>
      /\ p.letter = "p" => Encode8(p) = <<p.letter, p.num, p.rev>>
  BY <1>4 DEF Encode8, NoRev, X
<1>6. Encode4(bare) = <<p.num, IF p.letter = "n" THEN 65535 ELSE 65534>>
  BY <1>3, <1>4 DEF Encode4, NoRev, Max16
<1>7. p.letter = "p" => Encode4(p) = <<p.num, p.rev>>
  BY <1>3, <1>4 DEF Encode4, NoRev
<1>. QED BY <1>1, <1>2, <1>4, <1>5, <1>6, <1>7 DEF PaperItem, ItemOf, EncodeStringAsTreeItem

\* The latest revision of a paper is one of the catalogue.
LEMMA LatestIsThere ==
    ASSUME NEW p \in Papers, p.letter = "p"
    PROVE  [letter |-> "p", num |-> p.num, rev |-> GetPaperLatestRev(p.num)] \in Papers
<1>. DEFINE revs == {q.rev : q \in {r \in Papers : r.letter = "p" /\ r.num = p.num}}
            Left == {99 - r : r \in revs}
<1>1. revs \subseteq 0 .. 99 /\ p.rev \in revs
  BY PaperFields DEF Revisions
<1>2. Left \subseteq Nat /\ Left # {}
  BY <1>1
<1>. HIDE DEF Left
<1>3. PICK l \in Left : \A m \in Left : l <= m
  BY <1>2, LowestNumber
<1>4. \E r \in revs : \A q \in revs : q <= r
  <2>. HIDE DEF revs
  <2>1. PICK r \in revs : l = 99 - r
    BY DEF Left
  <2>2. ASSUME NEW q \in revs PROVE q <= r
    <3>1. 99 - q \in Left /\ q \in 0 .. 99 /\ r \in 0 .. 99
      BY <1>1 DEF Left
    <3>2. l <= 99 - q
      BY <3>1, <1>3
    <3>. QED BY <2>1, <3>1, <3>2
  <2>. QED BY <2>2
<1>5. \E r \in revs : \A q \in Papers : q.letter = "p" /\ q.num = p.num => q.rev <= r
  BY <1>4
<1>6. GetPaperLatestRev(p.num) \in revs
  BY <1>5 DEF GetPaperLatestRev
<1>7. PICK q \in Papers : q.letter = "p" /\ q.num = p.num /\ q.rev = GetPaperLatestRev(p.num)
  BY <1>6
<1>8. q = [letter |-> "p", num |-> p.num, rev |-> GetPaperLatestRev(p.num)]
  BY <1>7, PaperIsItsFields
<1>. QED BY <1>7, <1>8

\* What an item of the catalogue is decoded to is in the catalogue.
LEMMA DecodedIsThere ==
    ASSUME NEW p \in Papers, NEW item \in {PaperItem(p), ItemOf(p)}
    PROVE  DecodeTreeItem(item) \in Papers
<1>. DEFINE latest == [letter |-> "p", num |-> p.num, rev |-> GetPaperLatestRev(p.num)]
<1>1. p.letter = "p" => latest \in Papers
  BY LatestIsThere
<1>2. p = [letter |-> p.letter, num |-> p.num, rev |-> p.rev]
  BY PaperIsItsFields
<1>3. CASE PointerBytes = 8
  <2>1. DecodeTreeItem(item) = Decode8(item)
    BY <1>3 DEF DecodeTreeItem
  <2>2. CASE item = PaperItem(p) /\ p.letter = "p"
    <3>1. item = <<"p", p.num, -2>>
      BY <1>3, <2>2, ItemsOfPaper
    <3>2. Decode8(item) = latest
      BY <3>1 DEF Decode8, X
    <3>. QED BY <2>1, <2>2, <3>2, <1>1
  <2>3. CASE item = ItemOf(p) /\ p.letter = "p"
    <3>1. item = <<"p", p.num, p.rev>> /\ p.rev # -2
      BY <1>3, <2>3, ItemsOfPaper, PaperFields, RevisionsAreNoMarks
    <3>2. Decode8(item) = [letter |-> "p", num |-> p.num, rev |-> p.rev]
      BY <3>1 DEF Decode8, X
    <3>. QED BY <2>1, <2>3, <3>2, <1>2
  <2>4. CASE p.letter = "n"
    <3>1. item[1] = "n" /\ item[2] = p.num
      BY <1>3, <2>4, ItemsOfPaper
    <3>2. Decode8(item) = [letter |-> "n", num |-> p.num, rev |-> 0]
      BY <3>1 DEF Decode8
    <3>. QED BY <2>1, <2>4, <3>2, <1>2, PaperFields
  <2>. QED BY <2>2, <2>3, <2>4, PaperFields
<1>4. CASE PointerBytes # 8
  <2>1. DecodeTreeItem(item) = Decode4(item)
    BY <1>4 DEF DecodeTreeItem
  <2>2. CASE item = PaperItem(p) /\ p.letter = "p"
    <3>1. item = <<p.num, 65534>>
      BY <1>4, <2>2, ItemsOfPaper
    <3>2. Decode4(item) = latest
      BY <3>1 DEF Decode4, Max16
    <3>. QED BY <2>1, <2>2, <3>2, <1>1
  <2>3. CASE item = ItemOf(p) /\ p.letter = "p"
    <3>1. item = <<p.num, p.rev>>
      BY <1>4, <2>3, ItemsOfPaper
    <3>2. \A r \in Revisions : r # 65535 /\ (r + 1) % 2^16 # 65535
      BY 2^16 = 65536 DEF Revisions
    <3>3. item[1] = p.num /\ item[2] = p.rev /\ item[2] # Max16 /\ (item[2] + 1) % 2^16 # Max16
      BY <3>1, <3>2, PaperFields DEF Max16
    <3>4. Decode4(item) = [letter |-> "p", num |-> p.num, rev |-> p.rev]
      BY <3>3 DEF Decode4
    <3>. QED BY <2>1, <2>3, <3>4, <1>2
  <2>4. CASE p.letter = "n"
    <3>1. item = <<p.num, 65535>>
      BY <1>4, <2>4, ItemsOfPaper
    <3>2. Decode4(item) = [letter |-> "n", num |-> p.num, rev |-> 0]
      BY <3>1 DEF Decode4, Max16
    <3>. QED BY <2>1, <2>4, <3>2, <1>2, PaperFields
  <2>. QED BY <2>2, <2>3, <2>4, PaperFields
<1>. QED BY <1>3, <1>4

\* No two papers have an item in common, nor a P paper and its revision.
LEMMA ItemsDiffer ==
    ASSUME NEW p \in Papers, NEW q \in Papers
    PROVE  /\ p.letter = "n" => ItemOf(p) = PaperItem(p)
           /\ p.letter = "p" => ItemOf(p) # PaperItem(q)
           /\ p.letter = "p" /\ ItemOf(p) = ItemOf(q) => p = q
           /\ PaperItem(p) # Null /\ ItemOf(p) # Null
<1>2. PaperItem(p) # Null /\ ItemOf(p) # Null
  <2>1. PaperItem(p) \in AllItems /\ ItemOf(p) \in AllItems
    BY Zenon DEF AllItems
  <2>. QED BY <2>1, NullIsNoItem
<1>3. p.letter = "n" => ItemOf(p) = PaperItem(p)
  BY ItemsOfPaper
<1>. DEFINE last == IF PointerBytes = 8 THEN 3 ELSE 2
<1>4. ASSUME p.letter = "p" PROVE ItemOf(p) # PaperItem(q)
  <2>1. p.rev \in Revisions
    BY PaperFields
  <2>2. ItemOf(p)[last] = p.rev
    BY <1>4, ItemsOfPaper
  <2>3. PaperItem(q)[last] \in {-2, -1, 65534, 65535}
    BY ItemsOfPaper
  <2>. QED BY <2>1, <2>2, <2>3, RevisionsAreNoMarks
<1>5. ASSUME p.letter = "p", ItemOf(p) = ItemOf(q) PROVE p = q
  <2>1. q.letter = "p"
    <3>1. PaperItem(q) # ItemOf(p)
      BY <1>4, <1>5
    <3>2. q.letter = "n" => ItemOf(q) = PaperItem(q)
      BY ItemsOfPaper
    <3>. QED BY <3>1, <3>2, <1>5, PaperFields
  <2>2. /\ ItemOf(p) = IF PointerBytes = 8 THEN <<"p", p.num, p.rev>> ELSE <<p.num, p.rev>>
        /\ ItemOf(q) = IF PointerBytes = 8 THEN <<"p", q.num, q.rev>> ELSE <<q.num, q.rev>>
    BY <1>5, <2>1, ItemsOfPaper
  <2>3. p.num = q.num /\ p.rev = q.rev
    <3>1. CASE PointerBytes = 8
      <4>1. <<"p", p.num, p.rev>> = <<"p", q.num, q.rev>>
        BY <1>5, <2>2, <3>1
      <4>. QED BY <4>1
    <3>2. CASE PointerBytes # 8
      <4>1. <<p.num, p.rev>> = <<q.num, q.rev>>
        BY <1>5, <2>2, <3>2
      <4>. QED BY <4>1
    <3>. QED BY <3>1, <3>2
  <2>. QED BY <1>5, <2>1, <2>3, PaperIsItsFields
<1>. QED BY <1>2, <1>3, <1>4, <1>5

-----------------------------------------------------------------------------
(* Filling the tree.                                                       *)

\* The store holds the first k of the papers, and nothing else.
Holds(s, papers, k) ==
    /\ Null \in DOMAIN s
    /\ \A i \in 1 .. k : PaperItem(papers[i]) \in DOMAIN s /\ ItemOf(papers[i]) \in DOMAIN s
    /\ \A x \in DOMAIN s \ {Null} :
          \E i \in 1 .. k : x \in {PaperItem(papers[i]), ItemOf(papers[i])}

\* A paper stands at the top, and a revision under its paper.
Complete(s, papers, k) ==
    /\ AllReached(s)
    /\ \A i \in 1 .. k :
          /\ s[PaperItem(papers[i])].parent = Null
          /\ papers[i].letter = "p" =>
                s[ItemOf(papers[i])].parent = PaperItem(papers[i])

WithItem(s, p) == IF AlreadyExists(s, PaperItem(p)) THEN s ELSE AppendItem(s, Null, PaperItem(p))

\* The paper itself, unless it is there already,
LEMMA WithItemIsSound ==
    ASSUME NEW s, Sound(s), NEW p \in Papers
    PROVE  Sound(WithItem(s, p)) /\ DOMAIN WithItem(s, p) = DOMAIN s \cup {PaperItem(p)}
<1>1. Null \in DOMAIN s
  BY DEF Sound
<1>2. CASE PaperItem(p) \in DOMAIN s
  BY <1>2 DEF WithItem, AlreadyExists
<1>3. CASE PaperItem(p) \notin DOMAIN s
  <2>1. WithItem(s, p) = AppendItem(s, Null, PaperItem(p))
    BY <1>3 DEF WithItem, AlreadyExists
  <2>2. Sound(WithItem(s, p))
    BY <2>1, <1>1, AppendIsSound
  <2>3. DOMAIN WithItem(s, p) = DOMAIN s \cup {PaperItem(p)}
    BY <2>1 DEF AppendItem
  <2>. QED BY <2>2, <2>3
<1>. QED BY <1>2, <1>3

\* and its revision.
LEMMA WithPaperIsSound ==
    ASSUME NEW s, Sound(s), NEW p \in Papers
    PROVE  /\ Sound(WithPaper(s, p))
           /\ DOMAIN WithPaper(s, p) = DOMAIN s \cup {PaperItem(p), ItemOf(p)}
<1>. DEFINE w == WithItem(s, p)
<1>1. Sound(w) /\ DOMAIN w = DOMAIN s \cup {PaperItem(p)} /\ PaperItem(p) \in DOMAIN w
  BY WithItemIsSound
<1>2. WithPaper(s, p) = IF p.letter = "p" THEN AppendItem(w, PaperItem(p), ItemOf(p)) ELSE w
  BY DEF WithPaper, WithItem
<1>. HIDE DEF w
<1>3. CASE p.letter = "p"
  <2>1. WithPaper(s, p) = AppendItem(w, PaperItem(p), ItemOf(p))
    BY <1>2, <1>3
  <2>2. Sound(WithPaper(s, p))
    BY <2>1, <1>1, AppendIsSound
  <2>3. DOMAIN WithPaper(s, p) = DOMAIN w \cup {ItemOf(p)}
    BY <2>1 DEF AppendItem
  <2>. QED BY <2>2, <2>3, <1>1
<1>4. CASE p.letter # "p"
  <2>1. ItemOf(p) = PaperItem(p)
    BY <1>4, ItemsDiffer, PaperFields
  <2>. QED BY <2>1, <1>1, <1>2, <1>4
<1>. QED BY <1>3, <1>4

\* One more paper is one more paper in the store,
LEMMA WithPaperHolds ==
    ASSUME NEW s, Sound(s), NEW papers, NEW k \in Nat, Holds(s, papers, k),
           papers[k + 1] \in Papers, NEW t, t = WithPaper(s, papers[k + 1])
    PROVE  Holds(t, papers, k + 1)
<1>1. DOMAIN t = DOMAIN s \cup {PaperItem(papers[k + 1]), ItemOf(papers[k + 1])}
  BY WithPaperIsSound
<1>2. \A i \in 1 .. k + 1 : i \in 1 .. k \/ i = k + 1
  OBVIOUS
<1>3. \A i \in 1 .. k + 1 : PaperItem(papers[i]) \in DOMAIN t /\ ItemOf(papers[i]) \in DOMAIN t
  BY <1>1, <1>2 DEF Holds
<1>4. ASSUME NEW x \in DOMAIN t \ {Null}
      PROVE  \E i \in 1 .. k + 1 : x \in {PaperItem(papers[i]), ItemOf(papers[i])}
  <2>1. CASE x \in DOMAIN s
    <3>1. PICK i \in 1 .. k : x \in {PaperItem(papers[i]), ItemOf(papers[i])}
      BY <2>1 DEF Holds
    <3>2. i \in 1 .. k + 1
      OBVIOUS
    <3>. QED BY <3>1, <3>2
  <2>2. CASE x \in {PaperItem(papers[k + 1]), ItemOf(papers[k + 1])}
    <3>1. k + 1 \in 1 .. k + 1
      OBVIOUS
    <3>. QED BY <2>2, <3>1
  <2>. QED BY <2>1, <2>2, <1>1
<1>. QED BY <1>1, <1>3, <1>4 DEF Holds

\* and nothing is lost when it is another paper than those before.
LEMMA WithPaperIsComplete ==
    ASSUME NEW s, Sound(s), NEW papers, NEW k \in Nat, Holds(s, papers, k),
           Complete(s, papers, k), \A i \in 1 .. k + 1 : papers[i] \in Papers,
           \A i \in 1 .. k : papers[i] # papers[k + 1],
           NEW t, t = WithPaper(s, papers[k + 1])
    PROVE  Complete(t, papers, k + 1)
<1>. DEFINE p == papers[k + 1]
            w == WithItem(s, p)
<1>1. p \in Papers /\ (\A i \in 1 .. k : papers[i] \in Papers) /\ Null \in DOMAIN s
  <2>1. k + 1 \in 1 .. k + 1 /\ \A i \in 1 .. k : i \in 1 .. k + 1
    OBVIOUS
  <2>. QED BY <2>1 DEF Sound
<1>2. Sound(w) /\ DOMAIN w = DOMAIN s \cup {PaperItem(p)} /\ PaperItem(p) \in DOMAIN w
  BY <1>1, WithItemIsSound
<1>3. t = IF p.letter = "p" THEN AppendItem(w, PaperItem(p), ItemOf(p)) ELSE w
  BY DEF WithPaper, WithItem
<1>4. AllReached(w) /\ w[PaperItem(p)].parent = Null /\ \A x \in DOMAIN s : w[x].parent = s[x].parent
  <2>1. CASE PaperItem(p) \in DOMAIN s
    <3>1. w = s
      BY <2>1 DEF WithItem, AlreadyExists
    <3>2. PICK i \in 1 .. k : PaperItem(p) \in {PaperItem(papers[i]), ItemOf(papers[i])}
      BY <2>1, <1>1, ItemsDiffer DEF Holds
    <3>3. PaperItem(p) = PaperItem(papers[i])
      BY <3>2, <1>1, ItemsDiffer, PaperFields
    <3>. QED BY <3>1, <3>3 DEF Complete
  <2>2. CASE PaperItem(p) \notin DOMAIN s
    <3>1. w = AppendItem(s, Null, PaperItem(p))
      BY <2>2 DEF WithItem, AlreadyExists
    <3>2. Keeps(s, Null, w) /\ Adds(s, Null, PaperItem(p), w)
      BY <2>2, <3>1, <1>1, AppendedNodes
    <3>3. AllReached(w)
      BY <2>2, <3>1, <1>1, AppendReaches DEF Complete
    <3>. QED BY <3>2, <3>3 DEF Keeps, Adds
  <2>. QED BY <2>1, <2>2
<1>. HIDE DEF w
<1>5. /\ AllReached(t) /\ \A x \in DOMAIN w : t[x].parent = w[x].parent
      /\ p.letter = "p" => t[ItemOf(p)].parent = PaperItem(p)
  <2>1. CASE p.letter = "p"
    <3>1. t = AppendItem(w, PaperItem(p), ItemOf(p))
      BY <2>1, <1>3
    <3>2. ASSUME ItemOf(p) \in DOMAIN s PROVE FALSE
      <4>1. PICK i \in 1 .. k : ItemOf(p) \in {PaperItem(papers[i]), ItemOf(papers[i])}
        BY <3>2, <1>1, ItemsDiffer DEF Holds
      <4>. QED BY <4>1, <2>1, <1>1, ItemsDiffer
    <3>3. ItemOf(p) \notin DOMAIN w
      BY <2>1, <3>2, <1>1, <1>2, ItemsDiffer
    <3>4. Keeps(w, PaperItem(p), t) /\ Adds(w, PaperItem(p), ItemOf(p), t)
      BY <3>1, <3>3, <1>2, AppendedNodes
    <3>5. AllReached(t)
      BY <3>1, <3>3, <1>2, <1>4, AppendReaches
    <3>. QED BY <3>4, <3>5 DEF Keeps, Adds
  <2>2. CASE p.letter # "p"
    BY <2>2, <1>3, <1>4
  <2>. QED BY <2>1, <2>2
<1>6. ASSUME NEW i \in 1 .. k + 1
      PROVE  /\ t[PaperItem(papers[i])].parent = Null
             /\ papers[i].letter = "p" => t[ItemOf(papers[i])].parent = PaperItem(papers[i])
  <2>1. CASE i \in 1 .. k
    <3>1. PaperItem(papers[i]) \in DOMAIN s /\ ItemOf(papers[i]) \in DOMAIN s
      BY <2>1 DEF Holds
    <3>2. /\ t[PaperItem(papers[i])].parent = s[PaperItem(papers[i])].parent
          /\ t[ItemOf(papers[i])].parent = s[ItemOf(papers[i])].parent
      BY <3>1, <1>2, <1>4, <1>5
    <3>. QED BY <2>1, <3>2 DEF Complete
  <2>2. CASE i = k + 1
    BY <2>2, <1>2, <1>4, <1>5
  <2>. QED BY <2>1, <2>2
<1>. QED BY <1>5, <1>6 DEF Complete

\* What a complete store holds is shown.
LEMMA CompleteIsShown ==
    ASSUME NEW s, Sound(s), NEW papers, NEW k \in Nat, Holds(s, papers, k),
           Complete(s, papers, k), NEW i \in 1 .. k, papers[i] \in Papers
    PROVE  {PaperItem(papers[i]), ItemOf(papers[i])} \subseteq Shown(s)
<1>. DEFINE p == papers[i]
<1>1. PaperItem(p) \in DOMAIN s \ {Null} /\ ItemOf(p) \in DOMAIN s \ {Null}
  BY ItemsDiffer DEF Holds
<1>2. PaperItem(p) \in GetChildren(s, Null)
  BY <1>1, ReachedIsChild DEF Complete
<1>3. p.letter = "p" => ItemOf(p) \in GetChildren(s, PaperItem(p))
  BY <1>1, ReachedIsChild DEF Complete
<1>4. p.letter # "p" => ItemOf(p) = PaperItem(p)
  BY ItemsDiffer, PaperFields
<1>5. \A x \in {Null} \cup GetChildren(s, Null) : GetChildren(s, x) \subseteq Shown(s)
  BY Zenon DEF Shown
<1>6. PaperItem(p) \in Shown(s)
  BY <1>2, <1>5
<1>7. p.letter = "p" => ItemOf(p) \in Shown(s)
  BY <1>2, <1>3, <1>5
<1>. QED BY <1>4, <1>6, <1>7

-----------------------------------------------------------------------------
(* The invariant.                                                          *)

\* Between AssociateModel(nullptr) and ResetStore the count depends on whether
\* the control has shown a model before.
Counts ==
    /\ step \in {"idle", "dissociate", "reset", "fill", "release"} /\ associated \in BOOLEAN
    /\ step \in {"idle", "fill"} => refs = 1
    /\ step \in {"dissociate", "release"} => refs = 2
    /\ step = "reset" => refs \in {1, 2}
    /\ step \in {"reset", "fill"} => associated = FALSE

\* The store is the one of the list; how far it is filled.
Filled == step \in {"idle", "fill", "release"}
Appended == Len(list) - Len(todo)

ListInv ==
    /\ list \in Seq(Papers) /\ todo \in Seq(Papers)
    /\ step \in {"idle", "release"} => todo = <<>>
    /\ Filled => /\ Len(todo) <= Len(list)
                 /\ \A j \in 1 .. Len(todo) : todo[j] = list[Appended + j]

StoreInv ==
    /\ Sound(store)
    /\ Filled => /\ Holds(store, list, Appended)
                 /\ IsInjective(list) => Complete(store, list, Appended)

PageInv == Counts /\ ListInv /\ StoreInv /\ ActivatedPaperExists

\* An empty store is right for the first none of any list.
LEMMA EmptyStore ==
    ASSUME NEW papers
    PROVE  Sound(Reset) /\ Holds(Reset, papers, 0) /\ Complete(Reset, papers, 0)
<1>1. Sound(Reset) /\ DOMAIN Reset = {Null}
  BY ResetIsSound
<1>2. Holds(Reset, papers, 0)
  BY <1>1 DEF Holds
<1>3. Complete(Reset, papers, 0)
  BY <1>1 DEF Complete, AllReached
<1>. QED BY <1>1, <1>2, <1>3

\* The page shows nothing at first.
LEMMA PageStarts == Init => PageInv
<1>. SUFFICES ASSUME Init PROVE PageInv
  OBVIOUS
<1>1. Counts /\ ActivatedPaperExists
  BY DEF Init, Counts, ActivatedPaperExists
<1>2. list = <<>> /\ todo = <<>> /\ Len(list) = 0 /\ Len(todo) = 0 /\ Appended = 0
  BY DEF Init, Appended
<1>3. ListInv
  BY <1>2 DEF ListInv
<1>4. StoreInv
  BY <1>2, EmptyStore DEF StoreInv, Init
<1>. QED BY <1>1, <1>3, <1>4 DEF PageInv

\* Steps that leave the store and the lists as they are.
LEMMA StoreAside ==
    ASSUME PageInv, UNCHANGED <<store, list, todo>>, Filled' => Filled,
           step' \in {"idle", "release"} => todo = <<>>
    PROVE  ListInv' /\ StoreInv'
BY DEF PageInv, ListInv, StoreInv, Appended

\* The handler, one lemma for each of its steps.
LEMMA SelectAuthorKeeps ==
    ASSUME PageInv, NEW papers \in Lists, SelectAuthor(papers)
    PROVE  PageInv'
<1>1. Counts' /\ ActivatedPaperExists'
  BY DEF PageInv, Counts, ActivatedPaperExists, SelectAuthor
<1>2. ListInv' /\ StoreInv'
  <2>1. papers \in Seq(Papers)
    BY AuthorPapersAssumption
  <2>2. list' = papers /\ ~Filled' /\ step' = "dissociate" /\ UNCHANGED <<todo, store>>
    BY DEF SelectAuthor, Filled
  <2>. QED BY <2>1, <2>2 DEF PageInv, ListInv, StoreInv
<1>. QED BY <1>1, <1>2 DEF PageInv

LEMMA DissociateKeeps == ASSUME PageInv, Dissociate PROVE PageInv'
<1>1. Counts' /\ ActivatedPaperExists'
  <2>1. refs = 2 /\ refs' \in {refs - 1, refs} /\ associated' = FALSE /\ step' = "reset"
    BY DEF PageInv, Counts, Dissociate
  <2>2. refs' \in {1, 2}
    BY <2>1
  <2>3. ActivatedPaperExists'
    BY DEF PageInv, ActivatedPaperExists, Dissociate
  <2>. QED BY <2>1, <2>2, <2>3 DEF Counts
<1>2. ListInv' /\ StoreInv'
  BY StoreAside DEF Dissociate, Filled
<1>. QED BY <1>1, <1>2 DEF PageInv

LEMMA ResetStoreKeeps == ASSUME PageInv, ResetStore PROVE PageInv'
<1>1. Counts' /\ ActivatedPaperExists'
  BY DEF PageInv, Counts, ActivatedPaperExists, ResetStore
<1>2. /\ list' = list /\ todo' = list /\ store' = Reset /\ step' = "fill"
      /\ list \in Seq(Papers) /\ Len(list) \in Nat
  BY DEF PageInv, ListInv, ResetStore
<1>3. Appended' = 0
  BY <1>2 DEF Appended
<1>4. ListInv'
  BY <1>2, <1>3 DEF ListInv
<1>5. StoreInv'
  BY <1>2, <1>3, EmptyStore DEF StoreInv
<1>. QED BY <1>1, <1>4, <1>5 DEF PageInv

LEMMA AppendPaperKeeps == ASSUME PageInv, AppendPaper PROVE PageInv'
<1>1. Counts' /\ ActivatedPaperExists'
  BY DEF PageInv, Counts, ActivatedPaperExists, AppendPaper
<1>. DEFINE k == Appended
<1>2. /\ step = "fill" /\ todo # <<>> /\ UNCHANGED <<step, list>>
      /\ todo' = Tail(todo) /\ store' = WithPaper(store, Head(todo))
      /\ list \in Seq(Papers) /\ todo \in Seq(Papers)
      /\ Len(todo) <= Len(list) /\ \A j \in 1 .. Len(todo) : todo[j] = list[k + j]
  BY DEF PageInv, ListInv, Filled, AppendPaper
<1>3. /\ Len(list) \in Nat /\ Len(todo) \in Nat \ {0} /\ Head(todo) = todo[1]
      /\ Tail(todo) \in Seq(Papers) /\ Len(Tail(todo)) = Len(todo) - 1
      /\ \A j \in 1 .. Len(todo) - 1 : Tail(todo)[j] = todo[j + 1]
  BY <1>2
<1>4. k \in Nat /\ k + 1 <= Len(list) /\ Appended' = k + 1
  BY <1>2, <1>3 DEF Appended
<1>. HIDE DEF k
<1>5. ListInv'
  <2>1. ASSUME NEW j \in 1 .. Len(todo) - 1 PROVE Tail(todo)[j] = list[(k + 1) + j]
    <3>1. j + 1 \in 1 .. Len(todo) /\ k + (j + 1) = (k + 1) + j
      BY <1>3, <1>4
    <3>. QED BY <3>1, <1>2, <1>3
  <2>. QED BY <2>1, <1>2, <1>3, <1>4 DEF ListInv
<1>6. \A i \in 1 .. k + 1 : i \in 1 .. Len(list) /\ list[i] \in Papers
  BY <1>2, <1>3, <1>4
<1>7. Head(todo) = list[k + 1] /\ list[k + 1] \in Papers
  <2>1. 1 \in 1 .. Len(todo) /\ k + 1 \in 1 .. k + 1
    BY <1>3, <1>4
  <2>. QED BY <2>1, <1>2, <1>3, <1>6
<1>8. /\ Sound(store) /\ Holds(store, list, k)
      /\ IsInjective(list) => Complete(store, list, k)
  BY <1>2 DEF PageInv, StoreInv, Filled, k
<1>9. Sound(store') /\ Holds(store', list, k + 1)
  BY <1>2, <1>4, <1>7, <1>8, WithPaperIsSound, WithPaperHolds
<1>10. ASSUME IsInjective(list) PROVE Complete(store', list, k + 1)
  <2>1. \A i \in 1 .. k : i \in DOMAIN list /\ k + 1 \in DOMAIN list /\ i # k + 1
    BY <1>2, <1>3, <1>4
  <2>2. \A i \in 1 .. k : list[i] # list[k + 1]
    BY <1>10, <2>1 DEF IsInjective
  <2>. QED BY <1>2, <1>4, <1>6, <1>7, <1>8, <1>10, <2>2, WithPaperIsComplete
<1>11. StoreInv'
  BY <1>2, <1>4, <1>9, <1>10 DEF StoreInv
<1>. QED BY <1>1, <1>5, <1>11 DEF PageInv

LEMMA AssociateKeeps == ASSUME PageInv, Associate PROVE PageInv'
<1>1. Counts' /\ ActivatedPaperExists'
  BY DEF PageInv, Counts, ActivatedPaperExists, Associate
<1>2. ListInv' /\ StoreInv'
  BY StoreAside DEF Associate, Filled
<1>. QED BY <1>1, <1>2 DEF PageInv

LEMMA ReleaseKeeps == ASSUME PageInv, Release PROVE PageInv'
<1>1. Counts' /\ ActivatedPaperExists'
  BY DEF PageInv, Counts, ActivatedPaperExists, Release
<1>2. ListInv' /\ StoreInv'
  BY StoreAside DEF Release, Filled, PageInv, ListInv
<1>. QED BY <1>1, <1>2 DEF PageInv

\* What the tree shows is an item of a paper in the list.
LEMMA ShownIsListed ==
    ASSUME PageInv, step = "idle", NEW x \in Shown(store)
    PROVE  \E i \in DOMAIN list : list[i] \in Papers /\ x \in {PaperItem(list[i]), ItemOf(list[i])}
<1>1. list \in Seq(Papers) /\ Appended = Len(list) /\ Sound(store) /\ Holds(store, list, Appended)
  BY DEF PageInv, ListInv, StoreInv, Filled, Appended
<1>2. x \in DOMAIN store \ {Null}
  BY <1>1, ShownIsInside
<1>. QED BY <1>1, <1>2 DEF Holds

LEMMA ActivateItemKeeps == ASSUME PageInv, ActivateItem PROVE PageInv'
<1>1. Counts'
  BY DEF PageInv, Counts, ActivateItem
<1>2. ListInv' /\ StoreInv'
  BY StoreAside DEF ActivateItem, Filled, PageInv, ListInv
<1>3. ActivatedPaperExists'
  <2>1. PICK item \in Shown(store) : selected' = ItemOf(DecodeTreeItem(item))
    BY DEF ActivateItem
  <2>2. PICK p \in Papers : item \in {PaperItem(p), ItemOf(p)}
    BY ShownIsListed DEF ActivateItem
  <2>3. DecodeTreeItem(item) \in Papers
    BY <2>2, DecodedIsThere
  <2>. QED BY <2>1, <2>3 DEF ActivatedPaperExists, AllItems
<1>. QED BY <1>1, <1>2, <1>3 DEF PageInv

-----------------------------------------------------------------------------

\* Selecting authors and activating papers keep the invariant.
THEOREM PageInvariant == Spec => []PageInv
<1>1. PageInv /\ [Next]_vars => PageInv'
  <2>1. ASSUME PageInv, UNCHANGED vars PROVE PageInv'
    <3>1. ListInv' /\ StoreInv'
      BY <2>1, StoreAside DEF vars, Filled, PageInv, ListInv
    <3>. QED BY <2>1, <3>1 DEF vars, PageInv, Counts, ActivatedPaperExists
  <2>. QED BY <2>1, SelectAuthorKeeps, DissociateKeeps, ResetStoreKeeps, AppendPaperKeeps,
              AssociateKeeps, ReleaseKeeps, ActivateItemKeeps DEF Next
<1>. QED BY <1>1, PageStarts, PTL DEF Spec

\* The assertions on the reference count hold whichever authors are selected.
THEOREM CountsAreAsAsserted == Spec => []RefCountsAsAsserted
<1>1. PageInv => RefCountsAsAsserted
  BY DEF PageInv, Counts, RefCountsAsAsserted
<1>. QED BY <1>1, PageInvariant, PTL

\* The tree of all papers has every paper that is activated in an author's tree,
\* for any catalogue and either size of pointer.
THEOREM ActivatedIsThere == Spec => []ActivatedPaperExists
<1>. QED BY PageInvariant, PTL DEF PageInv

\* The loop of GetChildren ends on every item, however long the lists are and
\* whatever they repeat, and nothing foreign is shown.
THEOREM TreesStaySound == Spec => []TreesAreSound
<1>1. PageInv => TreesAreSound
  <2>. SUFFICES ASSUME PageInv PROVE TreesAreSound
    OBVIOUS
  <2>1. \A item \in DOMAIN store : GetChildrenReturns(store, item)
    BY WalkEnds DEF PageInv, StoreInv
  <2>2. step = "idle" =>
           Shown(store) \subseteq UNION {{PaperItem(list[i]), ItemOf(list[i])} : i \in DOMAIN list}
    BY ShownIsListed
  <2>. QED BY <2>1, <2>2 DEF TreesAreSound
<1>. QED BY <1>1, PageInvariant, PTL

\* An author whose list has no paper twice sees all of it.
THEOREM DistinctAreShown == Spec => []DistinctPapersShown
<1>1. PageInv => DistinctPapersShown
  <2>. SUFFICES ASSUME PageInv, step = "idle", IsInjective(list), NEW i \in DOMAIN list
                PROVE  {PaperItem(list[i]), ItemOf(list[i])} \subseteq Shown(store)
    BY DEF DistinctPapersShown
  <2>1. list \in Seq(Papers) /\ Appended = Len(list) /\ Sound(store)
        /\ Holds(store, list, Appended) /\ Complete(store, list, Appended)
    BY DEF PageInv, ListInv, StoreInv, Filled, Appended
  <2>2. Len(list) \in Nat /\ i \in 1 .. Len(list) /\ list[i] \in Papers
    BY <2>1
  <2>. QED BY <2>1, <2>2, CompleteIsShown
<1>. QED BY <1>1, PageInvariant, PTL

-----------------------------------------------------------------------------
(* Items and names, whatever the size of a pointer.                        *)

\* The names the program makes of papers: an N paper has no revision, and
\* that of a P paper may be left out.
NameRecords ==
    {n \in [letter : {"n", "p"}, num : Numbers, rev : Revisions \cup {NoRev}] :
        n.letter = "n" => n.rev = NoRev}

LEMMA NamesAreRecords ==
    ASSUME NEW p \in Papers, NEW n \in {NameOf(p), NameWithoutRevision(p)}
    PROVE  n \in NameRecords
<1>1. p \in PaperRecords
  BY PaperIsRecord
<1>2. NameWithoutRevision(p) = [letter |-> p.letter, num |-> p.num, rev |-> NoRev]
  BY <1>1 DEF NameWithoutRevision, PaperRecords
<1>3. NameOf(p) = [letter |-> p.letter, num |-> p.num,
                   rev |-> IF p.letter = "n" THEN NoRev ELSE p.rev]
  BY <1>1 DEF NameOf, PaperRecords
<1>4. p.letter \in {"n", "p"} /\ p.num \in Numbers /\ p.rev \in Revisions
  BY PaperFields
<1>. QED BY <1>2, <1>3, <1>4 DEF NameRecords

\* Numbers and revisions fit in 16 bits and are none of the marks.
LEMMA SixteenBitsAreEnough ==
    /\ \A k \in Numbers : k % 2^16 = k
    /\ \A r \in Revisions : /\ r % 2^16 = r /\ (r + 1) % 2^16 # Max16
                            /\ r \notin {Max16, Max16 - 1, X, NoRev}
    /\ (Max16 - 1 + 1) % 2^16 = Max16 /\ (Max16 + 1) % 2^16 # Max16
    /\ Max16 - 1 # Max16 /\ X # NoRev
BY 2^16 = 65536 DEF Numbers, Revisions, Max16, X, NoRev

\* What an item is decoded to.
Meant(n) == CASE n.letter = "n" -> [n EXCEPT !.rev = 0]
              [] n.letter = "p" /\ n.rev = NoRev -> [n EXCEPT !.rev = GetPaperLatestRev(n.num)]
              [] OTHER -> n

LEMMA MeantFields ==
    ASSUME NEW n \in NameRecords
    PROVE  Meant(n) = [letter |-> n.letter, num |-> n.num,
                       rev |-> CASE n.letter = "n" -> 0
                                 [] n.letter = "p" /\ n.rev = NoRev -> GetPaperLatestRev(n.num)
                                 [] OTHER -> n.rev]
BY DEF Meant, NameRecords

LEMMA NamesAreDecoded ==
    ASSUME NEW n \in NameRecords
    PROVE  Decode4(Encode4(n)) = Meant(n) /\ Decode8(Encode8(n)) = Meant(n)
<1>1. /\ n.letter \in {"n", "p"} /\ n.num \in Numbers /\ n.rev \in Revisions \cup {NoRev}
      /\ n.letter = "n" => n.rev = NoRev
  BY DEF NameRecords
<1>2. CASE n.letter = "n"
  <2>1. Encode4(n) = <<n.num, Max16>> /\ Encode8(n) = <<"n", n.num, n.rev>>
    BY <1>1, <1>2, SixteenBitsAreEnough DEF Encode4, Encode8
  <2>2. Meant(n) = [letter |-> "n", num |-> n.num, rev |-> 0]
    BY <1>2, MeantFields
  <2>3. Decode4(<<n.num, Max16>>) = [letter |-> "n", num |-> n.num, rev |-> 0]
    BY SixteenBitsAreEnough DEF Decode4
  <2>. QED BY <2>1, <2>2, <2>3 DEF Decode8
<1>3. CASE n.letter = "p" /\ n.rev = NoRev
  <2>1. Encode4(n) = <<n.num, Max16 - 1>> /\ Encode8(n) = <<"p", n.num, X>>
    BY <1>1, <1>3, SixteenBitsAreEnough DEF Encode4, Encode8
  <2>2. Decode4(<<n.num, Max16 - 1>>) = [letter |-> "p", num |-> n.num, rev |-> GetPaperLatestRev(n.num)]
    BY SixteenBitsAreEnough DEF Decode4
  <2>. QED BY <1>3, <2>1, <2>2, MeantFields DEF Decode8
<1>4. CASE n.letter = "p" /\ n.rev \in Revisions
  <2>1. Encode4(n) = <<n.num, n.rev>> /\ Encode8(n) = <<"p", n.num, n.rev>>
    BY <1>1, <1>4, SixteenBitsAreEnough DEF Encode4, Encode8
  <2>2. Decode4(<<n.num, n.rev>>) = [letter |-> "p", num |-> n.num, rev |-> n.rev]
    BY <1>4, SixteenBitsAreEnough DEF Decode4
  <2>3. Meant(n) = [letter |-> "p", num |-> n.num, rev |-> n.rev]
    BY <1>4, SixteenBitsAreEnough, MeantFields
  <2>. QED BY <1>4, <2>1, <2>2, <2>3, SixteenBitsAreEnough DEF Decode8
<1>. QED BY <1>1, <1>2, <1>3, <1>4

LEMMA NamesHaveTheirItems ==
    ASSUME NEW m \in NameRecords, NEW n \in NameRecords,
           Encode4(m) = Encode4(n) \/ Encode8(m) = Encode8(n)
    PROVE  m = n
<1>1. ASSUME NEW k \in NameRecords
      PROVE  /\ k.letter \in {"n", "p"} /\ k.num \in Numbers /\ k.rev \in Revisions \cup {NoRev}
             /\ k.letter = "n" => k.rev = NoRev
             /\ k = [letter |-> k.letter, num |-> k.num, rev |-> k.rev]
             /\ Encode4(k)[1] = k.num /\ Encode8(k)[1] = k.letter /\ Encode8(k)[2] = k.num
             /\ Encode4(k)[2] = CASE k.letter = "n" -> Max16
                                  [] k.letter = "p" /\ k.rev = NoRev -> Max16 - 1
                                  [] OTHER -> k.rev
             /\ Encode8(k)[3] = IF k.letter = "p" /\ k.rev = NoRev THEN X ELSE k.rev
  <2>1. /\ k.letter \in {"n", "p"} /\ k.num \in Numbers /\ k.rev \in Revisions \cup {NoRev}
        /\ k.letter = "n" => k.rev = NoRev
        /\ k = [letter |-> k.letter, num |-> k.num, rev |-> k.rev]
    BY DEF NameRecords
  <2>2. k.num % 2^16 = k.num /\ (k.rev \in Revisions => k.rev % 2^16 = k.rev)
    BY <2>1, SixteenBitsAreEnough
  <2>. QED BY <2>1, <2>2 DEF Encode4, Encode8
<1>2. m.num = n.num
  BY <1>1
<1>3. m.letter = n.letter /\ m.rev = n.rev
  BY <1>1, SixteenBitsAreEnough
<1>. QED BY <1>1, <1>2, <1>3

\* In any catalogue of papers as paper.hpp asserts them, an item of either size
\* stands for one name only and is decoded to the paper of that name, or to the
\* latest revision if the name has none.
THEOREM ItemsKeepNames == ItemsKeepTheirNames
<1>. DEFINE names == {NameOf(p) : p \in Papers} \cup {NameWithoutRevision(p) : p \in Papers}
<1>1. names \subseteq NameRecords
  BY NamesAreRecords
<1>. QED BY <1>1, NamesAreDecoded, NamesHaveTheirItems DEF ItemsKeepTheirNames, Meant

-----------------------------------------------------------------------------
(* The comparator of the author list.                                      *)

\* What a column can hold: ranks of texts, or counts and what is no number.
CellsOf(n_col) == IF n_col = 0 THEN Nat ELSE Nat \cup {NotANumber}

\* Two cells, the other way round.
LEMMA ComparesBothWays ==
    ASSUME NEW n_col, NEW x \in CellsOf(n_col), NEW y \in CellsOf(n_col),
           ~(x = NotANumber /\ y = NotANumber)
    PROVE  CompareCells(x, y, n_col) = -CompareCells(y, x, n_col)
BY DEF CompareCells, CompareTexts, CompareNumbers, Cmp, multiplier, CellsOf, NotANumber, EmptyText

\* Neighbours are left where they are only if they are in order.
LEMMA NeighboursInOrder ==
    ASSUME NEW n_col, NEW x \in CellsOf(n_col), NEW y \in CellsOf(n_col),
           CompareCells(x, y, n_col) <= 0
    PROVE  InOrder(x, y, n_col)
BY DEF CompareCells, CompareTexts, CompareNumbers, Cmp, multiplier, CellsOf, NotANumber,
       EmptyText, InOrder

LEMMA OrderIsTransitive ==
    ASSUME NEW n_col, NEW x \in CellsOf(n_col), NEW y \in CellsOf(n_col),
           NEW z \in CellsOf(n_col), InOrder(x, y, n_col), InOrder(y, z, n_col)
    PROVE  InOrder(x, z, n_col)
BY DEF CellsOf, InOrder, NotANumber, EmptyText

\* Items that stand in the control are compared by their cells.
ComparesCells(plist, text, i, j, n_col) ==
    Compare_MSLC(plist, text, plist[i], plist[j], n_col) = CompareCells(text[plist[i]], text[plist[j]], n_col)

LEMMA FoundOnesCompare ==
    ASSUME NEW n \in Nat, NEW plist \in [1 .. n -> 1 .. n], NEW text, NEW n_col,
           NEW i \in 1 .. n, NEW j \in 1 .. n
    PROVE  ComparesCells(plist, text, i, j, n_col)
<1>1. ASSUME NEW k \in 1 .. n
      PROVE  /\ FindItem(plist, plist[k]) # wxNOT_FOUND
             /\ plist[FindItem(plist, plist[k])] = plist[k]
  <2>1. plist[k] \in Range(plist)
    BY DEF Range
  <2>2. FindItem(plist, plist[k]) = CHOOSE index \in 1 .. n : plist[index] = plist[k]
    BY <2>1 DEF FindItem
  <2>3. FindItem(plist, plist[k]) \in 1 .. n /\ plist[FindItem(plist, plist[k])] = plist[k]
    BY <2>2
  <2>. QED BY <2>3 DEF wxNOT_FOUND
<1>. QED BY <1>1 DEF ComparesCells, Compare_MSLC, GetDataByColumn

\* An item that is not in the control is equal to every other.
LEMMA LostOnesAreEqual ==
    ASSUME NEW plist, NEW text, NEW n_col, NEW item, NEW lost, lost \notin Range(plist)
    PROVE  Compare_MSLC(plist, text, item, lost, n_col) = 0
BY DEF Compare_MSLC, FindItem

\* A list that an item has been taken out of does not have it.
LEMMA TakenOutIsLost ==
    ASSUME NEW n \in Nat, NEW plist \in Injection(1 .. n, 1 .. n), NEW place \in 1 .. n
    PROVE  plist[place] \notin Range(RemoveAt(plist, place))
<1>. DEFINE front == SubSeq(plist, 1, place - 1)
            back == SubSeq(plist, place + 1, n)
<1>1. /\ plist \in [1 .. n -> 1 .. n] /\ plist \in Seq(1 .. n) /\ Len(plist) = n
      /\ \A k, l \in 1 .. n : plist[k] = plist[l] => k = l
  BY DEF Injection, IsInjective
<1>2. /\ front \in Seq(1 .. n) /\ \A k \in 1 .. Len(front) : front[k] # plist[place]
  <2>1. \A k \in 1 .. place - 1 : plist[k] \in 1 .. n
    BY <1>1
  <2>2. place - 1 \in Int
    OBVIOUS
  <2>3. /\ front \in Seq(1 .. n) /\ Len(front) = IF 1 <= place - 1 THEN place - 1 - 1 + 1 ELSE 0
        /\ \A k \in 1 .. place - 1 - 1 + 1 : front[k] = plist[1 + k - 1]
    BY <1>1, <2>1, <2>2, SubSeqProperties
  <2>. HIDE DEF front
  <2>4. ASSUME NEW k \in 1 .. Len(front) PROVE front[k] # plist[place]
    <3>1. k \in 1 .. place - 1 - 1 + 1 /\ 1 + k - 1 = k /\ k \in 1 .. n /\ k # place
      BY <2>3
    <3>2. front[k] = plist[k]
      BY <2>3, <3>1
    <3>. QED BY <1>1, <3>1, <3>2
  <2>. QED BY <2>3, <2>4
<1>3. /\ back \in Seq(1 .. n) /\ \A k \in 1 .. Len(back) : back[k] # plist[place]
  <2>1. \A k \in place + 1 .. n : plist[k] \in 1 .. n
    BY <1>1
  <2>2. place + 1 \in Int
    OBVIOUS
  <2>3. /\ back \in Seq(1 .. n)
        /\ Len(back) = IF place + 1 <= n THEN n - (place + 1) + 1 ELSE 0
        /\ \A k \in 1 .. n - (place + 1) + 1 : back[k] = plist[place + 1 + k - 1]
    BY <1>1, <2>1, <2>2, SubSeqProperties
  <2>. HIDE DEF back
  <2>4. ASSUME NEW k \in 1 .. Len(back) PROVE back[k] # plist[place]
    <3>1. /\ k \in 1 .. n - (place + 1) + 1 /\ place + 1 + k - 1 \in 1 .. n
          /\ place + 1 + k - 1 # place
      BY <2>3
    <3>2. back[k] = plist[place + 1 + k - 1]
      BY <2>3, <3>1
    <3>. QED BY <1>1, <3>1, <3>2
  <2>. QED BY <2>3, <2>4
<1>4. RemoveAt(plist, place) = front \o back
  BY <1>1 DEF RemoveAt
<1>. HIDE DEF front, back
<1>5. /\ front \o back \in Seq(1 .. n) /\ Len(front \o back) = Len(front) + Len(back)
      /\ \A k \in 1 .. Len(front) + Len(back) : (front \o back)[k] =
             IF k <= Len(front) THEN front[k] ELSE back[k - Len(front)]
  BY <1>2, <1>3, ConcatProperties
<1>6. DOMAIN (front \o back) = 1 .. Len(front) + Len(back) /\ Len(front) \in Nat /\ Len(back) \in Nat
  BY <1>2, <1>3, <1>5
<1>. DEFINE rest == front \o back
<1>7. ASSUME NEW k \in DOMAIN rest PROVE rest[k] # plist[place]
  <2>1. k \in 1 .. Len(front) + Len(back) /\ k \in Int
    BY <1>6
  <2>2. rest[k] = IF k <= Len(front) THEN front[k] ELSE back[k - Len(front)]
    BY <1>5, <2>1
  <2>. HIDE DEF rest
  <2>3. CASE k <= Len(front)
    <3>1. k \in 1 .. Len(front) /\ rest[k] = front[k]
      BY <1>6, <2>1, <2>2, <2>3
    <3>. QED BY <1>2, <3>1
  <2>4. CASE k > Len(front)
    <3>1. k - Len(front) \in 1 .. Len(back) /\ rest[k] = back[k - Len(front)]
      BY <1>6, <2>1, <2>2, <2>4
    <3>. QED BY <1>3, <3>1
  <2>. QED BY <1>6, <2>1, <2>3, <2>4
<1>. HIDE DEF rest
<1>8. plist[place] \notin Range(rest)
  BY <1>7, Zenon DEF Range
<1>. QED BY <1>4, <1>8, Zenon DEF rest

\* In a list of any length, with any cells, exchanges come to one order, and an
\* item that is held outside the control goes back where it was.
THEOREM AnyListSortsByExchanges ==
    ASSUME NEW n_col, NEW cells, cells \subseteq CellsOf(n_col), NEW most \in Nat
    PROVE  OnlyExchangesSort(cells, n_col, most)
<1>. SUFFICES ASSUME NEW n \in 0 .. most, NEW text \in [1 .. n -> cells],
                     NEW plist \in Injection(1 .. n, 1 .. n)
              PROVE  /\ AnswersAgree(plist, text, n_col)
                     /\ ExchangesSort(plist, text, n_col)
                     /\ InsertionsDoNothing(plist, text, n_col)
  BY DEF OnlyExchangesSort
<1>. DEFINE l == [i \in 1 .. n |-> text[plist[i]]]
<1>0. n \in Nat
  OBVIOUS
<1>1. /\ plist \in [1 .. n -> 1 .. n] /\ DOMAIN plist = 1 .. n /\ Len(plist) = n
      /\ \A i \in 1 .. n : l[i] = text[plist[i]] /\ l[i] \in CellsOf(n_col)
  <2>1. plist \in [1 .. n -> 1 .. n]
    BY DEF Injection
  <2>. QED BY <1>0, <2>1
<1>. HIDE DEF l
<1>2. ASSUME NEW i \in 1 .. n, NEW j \in 1 .. n
      PROVE  Compare_MSLC(plist, text, plist[i], plist[j], n_col) = CompareCells(l[i], l[j], n_col)
  <2>1. n \in Nat /\ plist \in [1 .. n -> 1 .. n]
    BY <1>0, <1>1
  <2>2. ComparesCells(plist, text, i, j, n_col)
    BY <2>1, FoundOnesCompare
  <2>. QED BY <1>1, <2>2 DEF ComparesCells
<1>3. AnswersAgree(plist, text, n_col)
  <2>1. ASSUME NEW i \in 1 .. n, NEW j \in 1 .. n, i # j, ~(l[i] = NotANumber /\ l[j] = NotANumber)
        PROVE  Compare_MSLC(plist, text, plist[i], plist[j], n_col) =
                   -Compare_MSLC(plist, text, plist[j], plist[i], n_col)
    <3>1. CompareCells(l[i], l[j], n_col) = -CompareCells(l[j], l[i], n_col)
      BY <1>1, <2>1, ComparesBothWays
    <3>2. /\ Compare_MSLC(plist, text, plist[i], plist[j], n_col) = CompareCells(l[i], l[j], n_col)
          /\ Compare_MSLC(plist, text, plist[j], plist[i], n_col) = CompareCells(l[j], l[i], n_col)
      BY <1>2, <2>1
    <3>. QED BY <3>1, <3>2
  <2>. QED BY <1>1, <2>1, Zenon DEF AnswersAgree
<1>4. ASSUME \A i \in 1 .. n - 1 : CompareCells(l[i], l[i + 1], n_col) <= 0,
             NEW i \in 1 .. n, NEW j \in 1 .. n, i < j
      PROVE  InOrder(l[i], l[j], n_col)
  <2>. DEFINE wrong == {k \in i + 1 .. n : ~InOrder(l[i], l[k], n_col)}
  <2>1. SUFFICES ASSUME wrong # {} PROVE FALSE
    BY <1>0, <1>4
  <2>2. wrong \subseteq Nat
    BY <1>0
  <2>3. PICK k \in wrong : \A m \in wrong : k <= m
    BY <2>1, <2>2, LowestNumber
  <2>4. /\ k \in i + 1 .. n /\ k - 1 \in 1 .. n - 1 /\ k - 1 + 1 = k /\ k \in Int
        /\ i \in 1 .. n /\ k - 1 \in 1 .. n /\ k \in 1 .. n
    BY <1>0, <2>3
  <2>5. InOrder(l[k - 1], l[k], n_col)
    <3>1. CompareCells(l[k - 1], l[k - 1 + 1], n_col) <= 0
      BY <1>4, <2>4
    <3>. QED BY <1>1, <2>4, <3>1, NeighboursInOrder
  <2>6. k - 1 = i \/ InOrder(l[i], l[k - 1], n_col)
    <3>1. k - 1 \notin wrong
      BY <2>3, <2>4
    <3>. QED BY <1>0, <2>4, <3>1
  <2>7. InOrder(l[i], l[k], n_col)
    <3>1. CASE k - 1 = i
      BY <2>5, <3>1
    <3>2. CASE InOrder(l[i], l[k - 1], n_col)
      BY <1>1, <2>4, <2>5, <3>2, OrderIsTransitive
    <3>. QED BY <2>6, <3>1, <3>2
  <2>. QED BY <2>3, <2>7
<1>5. ExchangesSort(plist, text, n_col)
  <2>1. \A i \in 1 .. n - 1 : i \in 1 .. n /\ i + 1 \in 1 .. n
    BY <1>0
  <2>. QED BY <1>1, <1>2, <1>4, <2>1 DEF ExchangesSort
<1>6. ASSUME NEW place \in 1 .. n
      PROVE  PutBackAt(plist, text, place, n_col) = place
  <2>. DEFINE rest == RemoveAt(plist, place)
              greater(k) == Compare_MSLC(rest, text, rest[k], plist[place], n_col) > 0
              back(p) == /\ \A k \in p .. place - 1 : greater(k)
                         /\ p > 1 => ~greater(p - 1)
  <2>1. \A k : ~greater(k)
    <3>1. plist[place] \notin Range(rest)
      BY <1>0, TakenOutIsLost
    <3>2. ASSUME NEW k PROVE Compare_MSLC(rest, text, rest[k], plist[place], n_col) = 0
      <4>. HIDE DEF rest
      <4>. QED BY <3>1, LostOnesAreEqual
    <3>. HIDE DEF rest
    <3>. QED BY <3>2
  <2>2. PutBackAt(plist, text, place, n_col) = CHOOSE p \in 1 .. place : back(p)
    BY DEF PutBackAt
  <2>. HIDE DEF greater
  <2>3. back(place)
    BY <2>1
  <2>4. \A p \in 1 .. place : back(p) => p = place
    BY <2>1
  <2>. HIDE DEF back
  <2>. QED BY <2>2, <2>3, <2>4
<1>7. InsertionsDoNothing(plist, text, n_col)
  BY <1>1, <1>6 DEF InsertionsDoNothing
<1>. QED BY <1>3, <1>5, <1>7

-----------------------------------------------------------------------------
(* The tables of names.                                                    *)

\* What stands in a table has its hash first.
Keyed(E) == \A e \in E : e[1] \in Nat

Ordered(s) == \A i, j \in DOMAIN s : i <= j => s[i][1] <= s[j][1]

\* A set of places has a last one.
LEMMA LastPlace ==
    ASSUME NEW n \in Nat, NEW below \in SUBSET (1 .. n), below # {}
    PROVE  Max(below) \in below /\ \A k \in below : k <= Max(below)
<1>1. \E m \in below : \A k \in below : m >= k
  <2>. DEFINE back == {n - k : k \in below}
  <2>1. back \subseteq Nat /\ back # {}
    <3>1. \A k \in below : n - k \in Nat
      OBVIOUS
    <3>2. PICK k \in below : TRUE
      OBVIOUS
    <3>. QED BY <3>1, <3>2
  <2>2. PICK l \in back : \A k \in back : l <= k
    <3>. HIDE DEF back
    <3>. QED BY <2>1, LowestNumber
  <2>3. PICK m \in below : l = n - m
    BY <2>2
  <2>4. ASSUME NEW k \in below
        PROVE  n - k \in back /\ k \in Nat
    <3>1. n - k \in back
      BY Zenon
    <3>. QED BY <3>1
  <2>5. \A k \in below : n - m <= n - k
    BY <2>2, <2>3, <2>4
  <2>. QED BY <2>3, <2>4, <2>5
<1>2. Max(below) = CHOOSE m \in below : \A k \in below : m >= k
  BY DEF Max
<1>3. Max(below) \in below /\ \A k \in below : Max(below) >= k
  BY <1>1, <1>2, Zenon
<1>. QED BY <1>3

\* t is s with e put in at p.
PutIn(t, s, p, e) ==
    /\ Len(t) = Len(s) + 1
    /\ \A k \in 1 .. Len(s) + 1 : t[k] = IF k < p THEN s[k] ELSE IF k = p THEN e ELSE s[k - 1]

LEMMA InsertAtPutsIn ==
    ASSUME NEW E, NEW s \in Seq(E), NEW e \in E, NEW p \in 1 .. Len(s) + 1
    PROVE  InsertAt(s, p, e) \in Seq(E) /\ PutIn(InsertAt(s, p, e), s, p, e)
<1>. DEFINE n == Len(s)
            front == SubSeq(s, 1, p - 1)
            back == SubSeq(s, p, n)
            both == front \o <<e>>
            t == both \o back
<1>1. n \in Nat /\ p \in Nat /\ \A k \in 1 .. n : s[k] \in E
  BY LenProperties
<1>2. /\ front \in Seq(E) /\ Len(front) = p - 1
      /\ \A k \in 1 .. p - 1 : front[k] = s[k]
  <2>1. \A k \in 1 .. p - 1 : s[k] \in E
    BY <1>1
  <2>2. p - 1 \in Int
    BY <1>1
  <2>3. /\ front \in Seq(E) /\ Len(front) = IF 1 <= p - 1 THEN p - 1 - 1 + 1 ELSE 0
        /\ \A k \in 1 .. p - 1 - 1 + 1 : front[k] = s[1 + k - 1]
    BY <2>1, <2>2, SubSeqProperties
  <2>4. p - 1 - 1 + 1 = p - 1 /\ \A k \in 1 .. p - 1 : 1 + k - 1 = k
    BY <1>1
  <2>. HIDE DEF front
  <2>. QED BY <2>3, <2>4, <1>1
<1>3. /\ back \in Seq(E) /\ Len(back) = n - p + 1
      /\ \A k \in 1 .. n - p + 1 : back[k] = s[p + k - 1]
  <2>1. \A k \in p .. n : s[k] \in E
    BY <1>1
  <2>2. /\ back \in Seq(E) /\ Len(back) = IF p <= n THEN n - p + 1 ELSE 0
        /\ \A k \in 1 .. n - p + 1 : back[k] = s[p + k - 1]
    BY <1>1, <2>1, SubSeqProperties
  <2>3. (IF p <= n THEN n - p + 1 ELSE 0) = n - p + 1
    BY <1>1
  <2>. HIDE DEF back
  <2>. QED BY <2>2, <2>3
<1>4. InsertAt(s, p, e) = t
  BY DEF InsertAt
<1>. HIDE DEF front, back
<1>5. <<e>> \in Seq(E) /\ Len(<<e>>) = 1 /\ <<e>>[1] = e
  OBVIOUS
<1>6. /\ both \in Seq(E) /\ Len(both) = p
      /\ \A k \in 1 .. p : both[k] = IF k <= p - 1 THEN front[k] ELSE <<e>>[k - (p - 1)]
  <2>1. /\ both \in Seq(E) /\ Len(both) = Len(front) + Len(<<e>>)
        /\ \A k \in 1 .. Len(front) + Len(<<e>>) :
              both[k] = IF k <= Len(front) THEN front[k] ELSE <<e>>[k - Len(front)]
    BY <1>2, <1>5, ConcatProperties
  <2>2. Len(front) + Len(<<e>>) = p
    BY <1>1, <1>2, <1>5
  <2>. HIDE DEF both
  <2>. QED BY <2>1, <2>2, <1>2
<1>7. \A k \in 1 .. p : both[k] = IF k < p THEN s[k] ELSE e
  <2>1. \A k \in 1 .. p : k <= p - 1 <=> k < p
    BY <1>1
  <2>2. \A k \in 1 .. p : k < p => k \in 1 .. p - 1
    BY <1>1
  <2>3. \A k \in 1 .. p : ~(k < p) => k - (p - 1) = 1
    BY <1>1
  <2>. HIDE DEF both
  <2>. QED BY <1>2, <1>5, <1>6, <2>1, <2>2, <2>3
<1>. HIDE DEF both
<1>8. /\ t \in Seq(E) /\ Len(t) = n + 1
      /\ \A k \in 1 .. n + 1 : t[k] = IF k <= p THEN both[k] ELSE back[k - p]
  <2>1. /\ t \in Seq(E) /\ Len(t) = Len(both) + Len(back)
        /\ \A k \in 1 .. Len(both) + Len(back) :
              t[k] = IF k <= Len(both) THEN both[k] ELSE back[k - Len(both)]
    BY <1>3, <1>6, ConcatProperties
  <2>2. Len(both) + Len(back) = n + 1
    BY <1>1, <1>3, <1>6
  <2>. HIDE DEF t
  <2>. QED BY <2>1, <2>2, <1>6
<1>. HIDE DEF t
<1>9. ASSUME NEW k \in 1 .. n + 1
      PROVE  t[k] = IF k < p THEN s[k] ELSE IF k = p THEN e ELSE s[k - 1]
  <2>1. CASE k <= p
    <3>1. k \in 1 .. p
      BY <1>1, <2>1
    <3>. QED BY <1>1, <1>7, <1>8, <2>1, <3>1
  <2>2. CASE ~(k <= p)
    <3>1. k - p \in 1 .. n - p + 1 /\ p + (k - p) - 1 = k - 1 /\ ~(k < p) /\ k # p
      BY <1>1, <2>2
    <3>. QED BY <1>3, <1>8, <2>2, <3>1
  <2>. QED BY <2>1, <2>2
<1>. QED BY <1>4, <1>8, <1>9 DEF PutIn

Place(s, e) ==
    LET below == {k \in DOMAIN s : s[k][1] <= e[1]}
    IN  1 + (IF below = {} THEN 0 ELSE Max(below))

\* An entry is put before all those with a greater hash and after the others.
LEMMA PlaceIsRight ==
    ASSUME NEW E, Keyed(E), NEW s \in Seq(E), NEW e \in E
    PROVE  /\ Place(s, e) \in 1 .. Len(s) + 1
           /\ Ordered(s) =>
                /\ \A k \in 1 .. Len(s) : k < Place(s, e) => s[k][1] <= e[1]
                /\ \A k \in 1 .. Len(s) : k >= Place(s, e) => e[1] <= s[k][1]
<1>. DEFINE n == Len(s)
            below == {k \in DOMAIN s : s[k][1] <= e[1]}
            p == Place(s, e)
<1>1. n \in Nat /\ DOMAIN s = 1 .. n /\ e[1] \in Nat /\ \A k \in 1 .. n : s[k][1] \in Nat
  BY LenProperties DEF Keyed
<1>2. p = 1 + (IF below = {} THEN 0 ELSE Max(below))
  BY DEF Place
<1>3. CASE below = {}
  <2>1. p = 1 /\ \A k \in 1 .. n : ~(s[k][1] <= e[1])
    BY <1>1, <1>2, <1>3
  <2>. HIDE DEF p
  <2>2. p \in 1 .. n + 1 /\ \A k \in 1 .. n : ~(k < p)
    BY <1>1, <2>1
  <2>3. \A k \in 1 .. n : e[1] <= s[k][1]
    BY <1>1, <2>1
  <2>. QED BY <2>2, <2>3 DEF p
<1>4. CASE below # {}
  <2>1. below \in SUBSET (1 .. n)
    BY <1>1
  <2>. DEFINE m == Max(below)
  <2>2. m \in below /\ \A k \in below : k <= m
    <3>. HIDE DEF below
    <3>. QED BY <1>1, <1>4, <2>1, LastPlace
  <2>3. p = 1 + m
    BY <1>2, <1>4
  <2>. HIDE DEF m, p
  <2>4. m \in 1 .. n /\ s[m][1] <= e[1] /\ \A k \in 1 .. n : k > m => ~(s[k][1] <= e[1])
    BY <1>1, <2>2
  <2>5. p \in 1 .. n + 1
    BY <1>1, <2>3, <2>4
  <2>6. Ordered(s) => \A k \in 1 .. n : k < p => s[k][1] <= e[1]
    <3>1. SUFFICES ASSUME Ordered(s), NEW k \in 1 .. n, k < p PROVE s[k][1] <= e[1]
      OBVIOUS
    <3>2. k <= m
      BY <2>3, <2>4, <3>1
    <3>3. s[k][1] <= s[m][1]
      BY <1>1, <2>4, <3>1, <3>2 DEF Ordered
    <3>. QED BY <1>1, <2>4, <3>3
  <2>7. \A k \in 1 .. n : k >= p => e[1] <= s[k][1]
    <3>1. \A k \in 1 .. n : k >= p => k > m
      BY <1>1, <2>3, <2>4
    <3>. QED BY <1>1, <2>4, <3>1
  <2>. QED BY <2>5, <2>6, <2>7 DEF p
<1>. QED BY <1>3, <1>4

LEMMA InsertedPutsIn ==
    ASSUME NEW E, Keyed(E), NEW s \in Seq(E), NEW e \in E
    PROVE  Inserted(s, e) \in Seq(E) /\ PutIn(Inserted(s, e), s, Place(s, e), e)
<1>1. Inserted(s, e) = InsertAt(s, Place(s, e), e)
  BY DEF Inserted, Place
<1>2. Place(s, e) \in 1 .. Len(s) + 1
  BY PlaceIsRight
<1>. QED BY <1>1, <1>2, InsertAtPutsIn

\* t holds the first n entries of arg, each at one place.
Permuted(f, t, arg, n) ==
    /\ f \in [1 .. n -> 1 .. n]
    /\ \A i, j \in 1 .. n : f[i] = f[j] => i = j
    /\ \A j \in 1 .. n : \E i \in 1 .. n : f[i] = j
    /\ \A i \in 1 .. n : t[i] = arg[f[i]]

SortedUpTo(t, arg, n) ==
    /\ Len(t) = n /\ Ordered(t)
    /\ \E f : Permuted(f, t, arg, n)

LEMMA OneMoreIsOrdered ==
    ASSUME NEW E, Keyed(E), NEW s \in Seq(E), NEW e \in E, Ordered(s)
    PROVE  Ordered(Inserted(s, e))
<1>. DEFINE n == Len(s)
            p == Place(s, e)
            t == Inserted(s, e)
<1>1. n \in Nat /\ DOMAIN s = 1 .. n /\ e[1] \in Nat /\ \A k \in 1 .. n : s[k][1] \in Nat
  BY LenProperties DEF Keyed
<1>2. t \in Seq(E) /\ PutIn(t, s, p, e)
  BY InsertedPutsIn
<1>3. /\ p \in 1 .. n + 1
      /\ \A k \in 1 .. n : k < p => s[k][1] <= e[1]
      /\ \A k \in 1 .. n : k >= p => e[1] <= s[k][1]
  BY PlaceIsRight
<1>. HIDE DEF t, p
<1>4. DOMAIN t = 1 .. n + 1
  BY <1>2, LenProperties DEF PutIn
<1>5. \A k \in 1 .. n + 1 : t[k] = IF k < p THEN s[k] ELSE IF k = p THEN e ELSE s[k - 1]
  BY <1>2 DEF PutIn
<1>6. \A i, j \in 1 .. n : i <= j => s[i][1] <= s[j][1]
  BY <1>1 DEF Ordered
<1>7. ASSUME NEW i \in 1 .. n + 1, NEW j \in 1 .. n + 1, i < j PROVE t[i][1] <= t[j][1]
  <2>1. CASE j < p
    <3>1. i < p /\ i \in 1 .. n /\ j \in 1 .. n /\ i <= j
      BY <1>1, <1>3, <1>7, <2>1
    <3>. QED BY <1>5, <1>6, <2>1, <3>1
  <2>2. CASE j = p
    <3>1. i < p /\ i \in 1 .. n /\ ~(j < p)
      BY <1>1, <1>3, <1>7, <2>2
    <3>. QED BY <1>3, <1>5, <2>2, <3>1
  <2>3. CASE j > p
    <3>1. ~(j < p) /\ j # p /\ j - 1 \in 1 .. n /\ j - 1 >= p
      BY <1>1, <1>3, <1>7, <2>3
    <3>2. t[j] = s[j - 1]
      BY <1>5, <3>1
    <3>3. CASE i < p
      <4>1. i \in 1 .. n /\ i <= j - 1
        BY <1>1, <1>3, <3>3, <1>7
      <4>. QED BY <1>5, <1>6, <3>1, <3>2, <3>3, <4>1
    <3>4. CASE i = p
      <4>1. ~(i < p)
        BY <1>1, <1>3, <3>4
      <4>. QED BY <1>3, <1>5, <3>1, <3>2, <3>4, <4>1
    <3>5. CASE i > p
      <4>1. ~(i < p) /\ i # p /\ i - 1 \in 1 .. n /\ i - 1 <= j - 1
        BY <1>1, <1>3, <3>5, <1>7
      <4>. QED BY <1>5, <1>6, <3>1, <3>2, <4>1
    <3>. QED BY <1>1, <1>3, <3>3, <3>4, <3>5
  <2>. QED BY <1>1, <1>3, <2>1, <2>2, <2>3
<1>8. \A i \in 1 .. n + 1 : t[i][1] \in Nat
  BY <1>2, <1>4, LenProperties DEF Keyed
<1>9. \A i, j \in 1 .. n + 1 : i <= j => t[i][1] <= t[j][1]
  <2>1. \A i, j \in 1 .. n + 1 : i <= j => i < j \/ i = j
    BY <1>1
  <2>. QED BY <1>7, <1>8, <2>1
<1>10. Ordered(t)
  BY <1>4, <1>9 DEF Ordered
<1>. QED BY <1>10 DEF t

LEMMA OneMoreIsPermuted ==
    ASSUME NEW E, Keyed(E), NEW arg \in Seq(E), NEW n \in Nat, n + 1 <= Len(arg),
           NEW s \in Seq(E), Len(s) = n, NEW f, Permuted(f, s, arg, n)
    PROVE  \E g : Permuted(g, Inserted(s, arg[n + 1]), arg, n + 1)
<1>. DEFINE e == arg[n + 1]
            p == Place(s, e)
            t == Inserted(s, e)
            g == [k \in 1 .. n + 1 |-> IF k < p THEN f[k] ELSE IF k = p THEN n + 1 ELSE f[k - 1]]
<1>1. n + 1 \in 1 .. Len(arg) /\ e \in E
  <2>1. Len(arg) \in Nat /\ n + 1 \in 1 .. Len(arg)
    BY LenProperties
  <2>. QED BY <2>1, LenProperties
<1>2. p \in 1 .. n + 1
  BY <1>1, PlaceIsRight
<1>3. PutIn(t, s, p, e)
  BY <1>1, InsertedPutsIn
<1>. HIDE DEF t, p, e
<1>4. \A k \in 1 .. n + 1 : t[k] = IF k < p THEN s[k] ELSE IF k = p THEN e ELSE s[k - 1]
  BY <1>3 DEF PutIn
<1>5. /\ f \in [1 .. n -> 1 .. n]
      /\ \A i, j \in 1 .. n : f[i] = f[j] => i = j
      /\ \A j \in 1 .. n : \E i \in 1 .. n : f[i] = j
      /\ \A i \in 1 .. n : s[i] = arg[f[i]]
  BY DEF Permuted
<1>6. \A k \in 1 .. n + 1 : k < p \/ k = p \/ (k > p /\ ~(k < p) /\ k # p)
  BY <1>2
<1>7. /\ \A k \in 1 .. n + 1 : k < p => k \in 1 .. n
      /\ \A k \in 1 .. n + 1 : k > p => k - 1 \in 1 .. n /\ k - 1 >= p
  BY <1>2
<1>8. /\ \A k \in 1 .. n + 1 : k < p => g[k] = f[k]
      /\ g[p] = n + 1
      /\ \A k \in 1 .. n + 1 : k > p => g[k] = f[k - 1]
  BY <1>2, <1>6
<1>. HIDE DEF g
<1>9. \A i \in 1 .. n : f[i] \in 1 .. n + 1 /\ f[i] # n + 1
  <2>1. \A i \in 1 .. n : f[i] \in 1 .. n
    BY <1>5
  <2>2. \A i \in 1 .. n : i \in 1 .. n + 1 /\ i # n + 1
    OBVIOUS
  <2>. QED BY <2>1, <2>2
<1>10. g \in [1 .. n + 1 -> 1 .. n + 1]
  <2>1. \A k \in 1 .. n + 1 : g[k] \in 1 .. n + 1
    BY <1>6, <1>7, <1>8, <1>9
  <2>2. g = [k \in 1 .. n + 1 |-> g[k]]
    BY DEF g
  <2>. QED BY <2>1, <2>2
<1>11. ASSUME NEW i \in 1 .. n + 1, NEW j \in 1 .. n + 1, g[i] = g[j] PROVE i = j
  <2>1. CASE i = p
    <3>1. g[j] = n + 1
      BY <1>8, <1>11, <2>1
    <3>2. j < p => FALSE
      BY <1>7, <1>8, <1>9, <3>1
    <3>3. j > p => FALSE
      BY <1>7, <1>8, <1>9, <3>1
    <3>. QED BY <1>6, <2>1, <3>2, <3>3
  <2>2. CASE j = p
    <3>1. g[i] = n + 1
      BY <1>8, <1>11, <2>2
    <3>2. i < p => FALSE
      BY <1>7, <1>8, <1>9, <3>1
    <3>3. i > p => FALSE
      BY <1>7, <1>8, <1>9, <3>1
    <3>. QED BY <1>6, <2>2, <3>2, <3>3
  <2>3. CASE i < p /\ j < p
    BY <1>5, <1>7, <1>8, <1>11, <2>3
  <2>4. CASE i > p /\ j > p
    <3>1. f[i - 1] = f[j - 1] /\ i - 1 \in 1 .. n /\ j - 1 \in 1 .. n
      BY <1>7, <1>8, <1>11, <2>4
    <3>2. i - 1 = j - 1
      BY <1>5, <3>1
    <3>. QED BY <3>2
  <2>5. CASE i < p /\ j > p
    <3>1. f[i] = f[j - 1] /\ i \in 1 .. n /\ j - 1 \in 1 .. n /\ j - 1 >= p
      BY <1>7, <1>8, <1>11, <2>5
    <3>2. i = j - 1
      BY <1>5, <3>1
    <3>. QED BY <1>2, <3>1, <3>2, <2>5
  <2>6. CASE i > p /\ j < p
    <3>1. f[j] = f[i - 1] /\ j \in 1 .. n /\ i - 1 \in 1 .. n /\ i - 1 >= p
      BY <1>7, <1>8, <1>11, <2>6
    <3>2. j = i - 1
      BY <1>5, <3>1
    <3>. QED BY <1>2, <3>1, <3>2, <2>6
  <2>. QED BY <1>6, <2>1, <2>2, <2>3, <2>4, <2>5, <2>6
<1>12. ASSUME NEW j \in 1 .. n + 1 PROVE \E i \in 1 .. n + 1 : g[i] = j
  <2>1. CASE j = n + 1
    BY <1>2, <1>8, <2>1
  <2>2. CASE j # n + 1
    <3>1. j \in 1 .. n
      BY <2>2
    <3>2. PICK i \in 1 .. n : f[i] = j
      BY <1>5, <3>1
    <3>3. CASE i < p
      <4>1. i \in 1 .. n + 1
        BY <3>3
      <4>. QED BY <1>8, <3>2, <3>3, <4>1
    <3>4. CASE i >= p
      <4>1. i + 1 \in 1 .. n + 1 /\ i + 1 > p /\ i + 1 - 1 = i
        BY <1>2, <3>4
      <4>2. g[i + 1] = f[i]
        BY <1>8, <4>1
      <4>. QED BY <3>2, <4>1, <4>2
    <3>. QED BY <1>2, <3>3, <3>4
  <2>. QED BY <2>1, <2>2
<1>13. ASSUME NEW k \in 1 .. n + 1 PROVE t[k] = arg[g[k]]
  <2>1. CASE k < p
    BY <1>4, <1>5, <1>7, <1>8, <2>1
  <2>2. CASE k = p
    <3>1. ~(k < p) /\ g[k] = n + 1 /\ t[k] = e
      BY <1>2, <1>4, <1>8, <2>2
    <3>. QED BY <3>1 DEF e
  <2>3. CASE k > p
    <3>1. ~(k < p) /\ k # p /\ k - 1 \in 1 .. n /\ g[k] = f[k - 1]
      BY <1>2, <1>7, <1>8, <2>3
    <3>2. t[k] = s[k - 1]
      BY <1>4, <3>1
    <3>. QED BY <1>5, <3>1, <3>2
  <2>. QED BY <1>6, <2>1, <2>2, <2>3
<1>14. Permuted(g, t, arg, n + 1)
  BY <1>10, <1>11, <1>12, <1>13 DEF Permuted
<1>. QED BY <1>14 DEF t, e

SortedBy(sorted, arg) ==
    /\ sorted[0] = <<>>
    /\ \A i \in 1 .. Len(arg) : sorted[i] = Inserted(sorted[i - 1], arg[i])
    /\ container_sorted_by_first(arg) = sorted[Len(arg)]

\* The table is sorted entry by entry.
LEMMA TableIsSortedStepwise ==
    ASSUME NEW E, Keyed(E), NEW arg \in Seq(E)
    PROVE  \E sorted : SortedBy(sorted, arg)
<1>. DEFINE N == Len(arg)
            V == Seq(E)
            advance == [z \in (1 .. N) \X V |-> Inserted(z[2], arg[z[1]])]
            Solves(y) == y = [i \in 0 .. N |-> IF i = 0 THEN <<>> ELSE Inserted(y[i - 1], arg[i])]
<1>1. N \in Nat /\ \A k \in 1 .. N : arg[k] \in E
  BY LenProperties
<1>2. advance \in [(1 .. N) \X V -> V]
  <2>1. \A z \in (1 .. N) \X V : Inserted(z[2], arg[z[1]]) \in V
    BY <1>1, InsertedPutsIn
  <2>. QED BY <2>1
<1>3. <<>> \in V
  BY EmptySeq
<1>4. PICK g \in [0 .. N -> V] : Recursive(g, N, <<>>, advance)
  <2>. HIDE DEF N, V, advance
  <2>. QED BY <1>1, <1>2, <1>3, Recursion
<1>5. ASSUME NEW k \in 1 .. N PROVE k - 1 \in 0 .. N /\ k # 0 /\ g[k] = Inserted(g[k - 1], arg[k])
  <2>1. k - 1 \in 0 .. N /\ k # 0 /\ g[k - 1] \in V
    BY <1>1
  <2>2. g[k] = advance[<<k, g[k - 1]>>]
    BY <1>4 DEF Recursive
  <2>. QED BY <2>1, <2>2
<1>6. Solves(g)
  <2>1. \A k \in 0 .. N : k = 0 \/ k \in 1 .. N
    BY <1>1
  <2>. QED BY <1>4, <1>5, <2>1 DEF Recursive
<1>. DEFINE sorted == CHOOSE y : Solves(y)
<1>7. Solves(sorted)
  BY <1>6
<1>8. container_sorted_by_first(arg) = sorted[N]
  BY DEF container_sorted_by_first
<1>9. /\ sorted[0] = <<>>
      /\ \A k \in 1 .. N : sorted[k] = Inserted(sorted[k - 1], arg[k])
  <2>1. 0 \in 0 .. N /\ \A k \in 1 .. N : k \in 0 .. N /\ k # 0
    BY <1>1
  <2>. HIDE DEF sorted
  <2>. QED BY <1>7, <2>1
<1>10. SortedBy(sorted, arg)
  <2>. HIDE DEF sorted
  <2>. QED BY <1>8, <1>9 DEF SortedBy
<1>. QED BY <1>10

\* A sorted table is in order and holds each entry of the other once.
LEMMA TableIsSorted ==
    ASSUME NEW E, Keyed(E), NEW arg \in Seq(E)
    PROVE  /\ container_sorted_by_first(arg) \in Seq(E)
           /\ SortedUpTo(container_sorted_by_first(arg), arg, Len(arg))
<1>. DEFINE N == Len(arg)
<1>1. PICK sorted : SortedBy(sorted, arg)
  BY TableIsSortedStepwise
<1>2. N \in Nat /\ \A k \in 1 .. N : arg[k] \in E
  BY LenProperties
<1>. DEFINE T == {n \in Nat : n <= N => sorted[n] \in Seq(E) /\ SortedUpTo(sorted[n], arg, n)}
<1>3. 0 \in T
  <2>1. sorted[0] = <<>> /\ <<>> \in Seq(E) /\ Len(<<>>) = 0 /\ DOMAIN <<>> = {}
    BY <1>1, EmptySeq DEF SortedBy
  <2>2. Ordered(<<>>) /\ Permuted(<<>>, <<>>, arg, 0)
    <3>1. 1 .. 0 = {} /\ <<>> \in [1 .. 0 -> 1 .. 0]
      BY <2>1
    <3>. QED BY <2>1, <3>1 DEF Ordered, Permuted
  <2>. QED BY <2>1, <2>2 DEF SortedUpTo
<1>4. ASSUME NEW n \in Nat, n \in T PROVE n + 1 \in T
  <2>1. SUFFICES ASSUME n + 1 <= N PROVE sorted[n + 1] \in Seq(E) /\ SortedUpTo(sorted[n + 1], arg, n + 1)
    OBVIOUS
  <2>. DEFINE s == sorted[n]
              t == Inserted(s, arg[n + 1])
  <2>2. s \in Seq(E) /\ Len(s) = n /\ Ordered(s) /\ n + 1 \in 1 .. N
    BY <1>2, <1>4, <2>1 DEF SortedUpTo
  <2>3. PICK f : Permuted(f, s, arg, n)
    BY <1>2, <1>4, <2>1 DEF SortedUpTo
  <2>4. sorted[n + 1] = t
    <3>1. sorted[n + 1] = Inserted(sorted[n + 1 - 1], arg[n + 1])
      BY <1>1, <2>2 DEF SortedBy
    <3>2. n + 1 - 1 = n
      OBVIOUS
    <3>. QED BY <3>1, <3>2
  <2>. HIDE DEF s
  <2>5. arg[n + 1] \in E
    BY <1>2, <2>2
  <2>6. t \in Seq(E) /\ Len(t) = n + 1
    BY <2>2, <2>5, InsertedPutsIn DEF PutIn
  <2>7. Ordered(t)
    BY <2>2, <2>5, OneMoreIsOrdered
  <2>8. \E g : Permuted(g, t, arg, n + 1)
    BY <2>1, <2>2, <2>3, OneMoreIsPermuted
  <2>. HIDE DEF t
  <2>. QED BY <2>4, <2>6, <2>7, <2>8 DEF SortedUpTo
<1>5. Nat \subseteq T
  <2>. HIDE DEF T
  <2>. QED BY <1>3, <1>4, Induction
<1>6. sorted[N] \in Seq(E) /\ SortedUpTo(sorted[N], arg, N)
  BY <1>2, <1>5
<1>7. container_sorted_by_first(arg) = sorted[N]
  BY <1>1 DEF SortedBy
<1>. QED BY <1>6, <1>7

-----------------------------------------------------------------------------
(* The search for a hash.                                                  *)

Interval == [first : Nat, count : Nat]

\* What is left to search, after so many rounds.
Within(w, s, h, round) ==
    /\ w \in Interval
    /\ w.first + w.count <= Len(s) /\ w.count <= Len(s) - round
    /\ \A k \in 1 .. w.first : s[k][1] < h
    /\ \A k \in w.first + w.count + 1 .. Len(s) : s[k][1] >= h

LEMMA HalvedIsInterval ==
    ASSUME NEW s, NEW h, NEW w \in Interval
    PROVE  Halved(s, h, w) \in Interval
<1>. DEFINE half == w.count \div 2
<1>1. w.count \in Nat /\ w.first \in Nat /\ half \in Nat /\ 2 * half <= w.count
  BY DEF Interval
<1>2. CASE w.count = 0
  BY <1>2 DEF Halved
<1>3. CASE w.count > 0 /\ s[w.first + half + 1][1] < h
  <2>1. Halved(s, h, w) = [first |-> w.first + half + 1, count |-> w.count - half - 1]
    BY <1>1, <1>3 DEF Halved
  <2>2. w.first + half + 1 \in Nat /\ w.count - half - 1 \in Nat
    BY <1>1, <1>3
  <2>. QED BY <2>1, <2>2 DEF Interval
<1>4. CASE w.count > 0 /\ ~(s[w.first + half + 1][1] < h)
  <2>1. Halved(s, h, w) = [w EXCEPT !.count = half]
    BY <1>1, <1>4 DEF Halved
  <2>. HIDE DEF half
  <2>. QED BY <2>1, <1>1 DEF Interval
<1>. QED BY <1>1, <1>2, <1>3, <1>4

LEMMA HalvedIsWithin ==
    ASSUME NEW E, Keyed(E), NEW s \in Seq(E), Ordered(s), NEW h \in Nat,
           NEW round \in Nat, round + 1 <= Len(s), NEW w, Within(w, s, h, round)
    PROVE  Within(Halved(s, h, w), s, h, round + 1)
<1>. DEFINE n == Len(s)
            half == w.count \div 2
            m == w.first + half + 1
            v == Halved(s, h, w)
<1>1. n \in Nat /\ DOMAIN s = 1 .. n /\ \A k \in 1 .. n : s[k][1] \in Nat
  BY LenProperties DEF Keyed
<1>2. /\ w \in Interval /\ w.first \in Nat /\ w.count \in Nat
      /\ w.first + w.count <= n /\ w.count <= n - round
      /\ \A k \in 1 .. w.first : s[k][1] < h
      /\ \A k \in w.first + w.count + 1 .. n : s[k][1] >= h
  BY DEF Within, Interval
<1>3. half \in Nat /\ 2 * half <= w.count
  BY <1>2
<1>a. /\ w.count > 0 => half < w.count /\ m \in 1 .. n
      /\ m + (w.count - half - 1) = w.first + w.count
  <2>. DEFINE a == w.first
              c == w.count
  <2>1. a \in Nat /\ c \in Nat /\ a + c <= n /\ n \in Nat
    BY <1>1, <1>2
  <2>2. half \in Nat /\ 2 * half <= c
    BY <1>3
  <2>. HIDE DEF half, a, c, n
  <2>3. c > 0 => half < c
    BY <2>1, <2>2
  <2>4. c > 0 => a + half + 1 \in 1 .. n
    BY <2>1, <2>2, <2>3
  <2>5. a + half + 1 + (c - half - 1) = a + c
    BY <2>1, <2>2
  <2>. QED BY <2>3, <2>4, <2>5 DEF a, c
<1>4. v \in Interval
  BY <1>2, HalvedIsInterval
<1>5. \A i, j \in 1 .. n : i <= j => s[i][1] <= s[j][1]
  BY <1>1 DEF Ordered
<1>6. CASE w.count = 0
  <2>1. v = w
    BY <1>6 DEF Halved
  <2>2. w.count <= n - (round + 1)
    BY <1>1, <1>6
  <2>. HIDE DEF v
  <2>. QED BY <1>2, <2>1, <2>2 DEF Within, v
<1>7. CASE w.count > 0 /\ s[m][1] < h
  <2>1. v = [first |-> m, count |-> w.count - half - 1]
    BY <1>2, <1>7 DEF Halved
  <2>2. m \in 1 .. n /\ m + (w.count - half - 1) = w.first + w.count
    BY <1>7, <1>a
  <2>. HIDE DEF v
  <2>3. v.first = m /\ v.count = w.count - half - 1
    BY <2>1
  <2>. HIDE DEF m
  <2>4. v.count <= n - (round + 1)
    BY <1>1, <1>2, <1>3, <2>3
  <2>. HIDE DEF half
  <2>5. \A k \in 1 .. m : s[k][1] < h
    <3>1. SUFFICES ASSUME NEW k \in 1 .. m PROVE s[k][1] < h
      OBVIOUS
    <3>2. k \in 1 .. n /\ k <= m
      BY <1>1, <2>2
    <3>3. s[k][1] <= s[m][1]
      BY <1>5, <2>2, <3>2
    <3>. QED BY <1>1, <1>7, <2>2, <3>2, <3>3
  <2>6. v.first + v.count = w.first + w.count
    BY <2>2, <2>3
  <2>. QED BY <1>2, <1>4, <2>3, <2>4, <2>5, <2>6 DEF Within, v
<1>8. CASE w.count > 0 /\ ~(s[m][1] < h)
  <2>1. v = [w EXCEPT !.count = half]
    BY <1>2, <1>8 DEF Halved
  <2>. HIDE DEF v
  <2>2. v.first = w.first /\ v.count = half
    <3>. HIDE DEF half
    <3>. QED BY <1>2, <2>1 DEF Interval
  <2>3. m \in 1 .. n /\ half < w.count
    BY <1>8, <1>a
  <2>4. s[m][1] >= h
    <3>. HIDE DEF m
    <3>. QED BY <1>1, <1>8, <2>3
  <2>5. m = w.first + half + 1
    OBVIOUS
  <2>. HIDE DEF m, half
  <2>6. \A k \in w.first + half + 1 .. n : s[k][1] >= h
    <3>1. SUFFICES ASSUME NEW k \in m .. n PROVE s[k][1] >= h
      BY <2>5
    <3>2. k \in 1 .. n /\ m <= k
      BY <1>1, <2>3
    <3>3. s[m][1] <= s[k][1]
      BY <1>5, <2>3, <3>2
    <3>. QED BY <1>1, <2>3, <2>4, <3>2, <3>3
  <2>7. half <= n - (round + 1) /\ w.first + half <= n
    BY <1>1, <1>2, <1>3, <2>3
  <2>. QED BY <1>2, <1>4, <2>2, <2>6, <2>7 DEF Within, v
<1>. QED BY <1>2, <1>6, <1>7, <1>8

SearchedBy(interval, s, h) ==
    /\ interval[0] = [first |-> 0, count |-> Len(s)]
    /\ \A round \in 1 .. Len(s) : interval[round] = Halved(s, h, interval[round - 1])
    /\ lower_bound(s, h) = interval[Len(s)].first + 1

\* The search goes on round by round.
LEMMA SearchIsStepwise ==
    ASSUME NEW E, NEW s \in Seq(E), NEW h
    PROVE  \E interval : SearchedBy(interval, s, h)
<1>. DEFINE N == Len(s)
            base == [first |-> 0, count |-> N]
            advance == [z \in (1 .. N) \X Interval |-> Halved(s, h, z[2])]
            Solves(y) == y = [round \in 0 .. N |-> IF round = 0 THEN [first |-> 0, count |-> N]
                                                   ELSE Halved(s, h, y[round - 1])]
<1>1. N \in Nat /\ base \in Interval
  BY LenProperties DEF Interval
<1>2. advance \in [(1 .. N) \X Interval -> Interval]
  <2>1. \A z \in (1 .. N) \X Interval : Halved(s, h, z[2]) \in Interval
    BY HalvedIsInterval
  <2>. QED BY <2>1
<1>4. PICK g \in [0 .. N -> Interval] : Recursive(g, N, base, advance)
  <2>. HIDE DEF N, base, advance
  <2>. QED BY <1>1, <1>2, Recursion
<1>5. ASSUME NEW k \in 1 .. N PROVE k - 1 \in 0 .. N /\ k # 0 /\ g[k] = Halved(s, h, g[k - 1])
  <2>1. k - 1 \in 0 .. N /\ k # 0 /\ g[k - 1] \in Interval
    BY <1>1
  <2>2. g[k] = advance[<<k, g[k - 1]>>]
    BY <1>4 DEF Recursive
  <2>. QED BY <2>1, <2>2
<1>6. Solves(g)
  <2>1. \A k \in 0 .. N : k = 0 \/ k \in 1 .. N
    BY <1>1
  <2>. QED BY <1>4, <1>5, <2>1 DEF Recursive
<1>. DEFINE interval == CHOOSE y : Solves(y)
<1>7. Solves(interval)
  BY <1>6
<1>8. lower_bound(s, h) = interval[N].first + 1
  BY DEF lower_bound
<1>9. /\ interval[0] = base
      /\ \A k \in 1 .. N : interval[k] = Halved(s, h, interval[k - 1])
  <2>1. 0 \in 0 .. N /\ \A k \in 1 .. N : k \in 0 .. N /\ k # 0
    BY <1>1
  <2>. HIDE DEF interval
  <2>. QED BY <1>7, <2>1
<1>10. SearchedBy(interval, s, h)
  <2>. HIDE DEF interval
  <2>. QED BY <1>8, <1>9 DEF SearchedBy
<1>. QED BY <1>10

\* It ends at the first entry whose hash is not lower.
LEMMA LowerBound ==
    ASSUME NEW E, Keyed(E), NEW s \in Seq(E), Ordered(s), NEW h \in Nat
    PROVE  /\ lower_bound(s, h) \in 1 .. Len(s) + 1
           /\ \A k \in 1 .. Len(s) : k < lower_bound(s, h) => s[k][1] < h
           /\ \A k \in 1 .. Len(s) : k >= lower_bound(s, h) => s[k][1] >= h
<1>. DEFINE N == Len(s)
<1>1. PICK interval : SearchedBy(interval, s, h)
  BY SearchIsStepwise
<1>2. N \in Nat
  BY LenProperties
<1>. DEFINE T == {n \in Nat : n <= N => Within(interval[n], s, h, n)}
<1>3. 0 \in T
  <2>1. interval[0] = [first |-> 0, count |-> N]
    BY <1>1 DEF SearchedBy
  <2>2. /\ interval[0] \in Interval /\ interval[0].first = 0 /\ interval[0].count = N
    BY <1>2, <2>1 DEF Interval
  <2>3. 0 + N <= N /\ N <= N - 0 /\ 1 .. 0 = {} /\ 0 + N + 1 .. N = {}
    BY <1>2
  <2>4. Within(interval[0], s, h, 0)
    BY <2>2, <2>3 DEF Within
  <2>. QED BY <2>4
<1>4. ASSUME NEW n \in Nat, n \in T PROVE n + 1 \in T
  <2>1. SUFFICES ASSUME n + 1 <= N PROVE Within(interval[n + 1], s, h, n + 1)
    OBVIOUS
  <2>2. Within(interval[n], s, h, n) /\ n + 1 \in 1 .. N /\ n + 1 - 1 = n
    BY <1>2, <1>4, <2>1
  <2>3. interval[n + 1] = Halved(s, h, interval[n + 1 - 1])
    BY <1>1, <2>2 DEF SearchedBy
  <2>4. interval[n + 1] = Halved(s, h, interval[n])
    BY <2>2, <2>3
  <2>5. Within(Halved(s, h, interval[n]), s, h, n + 1)
    BY <2>1, <2>2, HalvedIsWithin
  <2>. QED BY <2>4, <2>5
<1>5. Nat \subseteq T
  <2>. HIDE DEF T
  <2>. QED BY <1>3, <1>4, Induction
<1>6. Within(interval[N], s, h, N)
  BY <1>2, <1>5
<1>. DEFINE w == interval[N]
<1>7. /\ w.first \in Nat /\ w.count = 0 /\ w.first <= N
      /\ \A k \in 1 .. w.first : s[k][1] < h
      /\ \A k \in w.first + 1 .. N : s[k][1] >= h
  <2>1. /\ w.first \in Nat /\ w.count \in Nat /\ w.first + w.count <= N /\ w.count <= N - N
        /\ \A k \in 1 .. w.first : s[k][1] < h
        /\ \A k \in w.first + w.count + 1 .. N : s[k][1] >= h
    BY <1>6 DEF Within, Interval
  <2>2. w.count = 0 /\ w.first + w.count = w.first
    BY <1>2, <2>1
  <2>. QED BY <1>2, <2>1, <2>2
<1>8. lower_bound(s, h) = w.first + 1
  BY <1>1 DEF SearchedBy
<1>. HIDE DEF w
<1>. QED BY <1>2, <1>7, <1>8

\* A search finds what is there, and nothing else.
LEMMA SearchIsExact ==
    ASSUME NEW E, Keyed(E), NEW s \in Seq(E), Ordered(s), NEW h \in Nat
    PROVE  /\ Found(s, h) => \E k \in 1 .. Len(s) : At(s, h) = s[k] /\ s[k][1] = h
           /\ (\E k \in 1 .. Len(s) : s[k][1] = h) => Found(s, h)
<1>. DEFINE r == lower_bound(s, h)
            N == Len(s)
<1>1. /\ N \in Nat /\ r \in 1 .. N + 1 /\ \A k \in 1 .. N : s[k][1] \in Nat
      /\ \A k \in 1 .. N : k < r => s[k][1] < h
      /\ \A k \in 1 .. N : k >= r => s[k][1] >= h
  BY LenProperties, LowerBound DEF Keyed
<1>2. Found(s, h) = (r <= N /\ s[r][1] = h) /\ At(s, h) = s[r]
  BY DEF Found, At
<1>. HIDE DEF r
<1>3. r <= N => r \in 1 .. N
  BY <1>1
<1>4. ASSUME NEW k \in 1 .. N, s[k][1] = h PROVE r <= N /\ s[r][1] = h
  <2>1. k >= r
    BY <1>1, <1>4
  <2>2. r \in 1 .. N
    BY <1>1, <2>1
  <2>3. s[r][1] >= h
    BY <1>1, <2>2
  <2>4. s[r][1] <= s[k][1]
    <3>1. DOMAIN s = 1 .. N
      BY LenProperties
    <3>. QED BY <2>1, <2>2, <3>1 DEF Ordered
  <2>. QED BY <1>1, <1>4, <2>2, <2>3, <2>4
<1>. QED BY <1>2, <1>3, <1>4

Apart(s) == \A i, j \in DOMAIN s : s[i][1] = s[j][1] => i = j

\* What the lookups in a table find is what it was made from.
LEMMA TableIsSearched ==
    ASSUME NEW E, Keyed(E), NEW arg \in Seq(E),
           NEW t, t = container_sorted_by_first(arg)
    PROVE  /\ \A k \in DOMAIN t : \E i \in DOMAIN arg : t[k] = arg[i]
           /\ \A i \in DOMAIN arg : \E k \in DOMAIN t : t[k] = arg[i]
           /\ Apart(arg) => Unsorted(t) = {}
           /\ \A h \in Nat : Found(t, h) => \E i \in DOMAIN arg : At(t, h) = arg[i] /\ arg[i][1] = h
           /\ \A h \in Nat : (\E i \in DOMAIN arg : arg[i][1] = h) => Found(t, h)
<1>. DEFINE N == Len(arg)
<1>1. t \in Seq(E) /\ SortedUpTo(t, arg, N)
  BY TableIsSorted
<1>2. N \in Nat /\ DOMAIN arg = 1 .. N /\ \A i \in 1 .. N : arg[i][1] \in Nat
  BY LenProperties DEF Keyed
<1>3. Len(t) = N /\ Ordered(t) /\ DOMAIN t = 1 .. N /\ \A i \in 1 .. N : t[i][1] \in Nat
  BY <1>1, LenProperties DEF SortedUpTo, Keyed
<1>4. PICK f : Permuted(f, t, arg, N)
  BY <1>1 DEF SortedUpTo
<1>5. /\ \A i \in 1 .. N : f[i] \in 1 .. N
      /\ \A i, j \in 1 .. N : f[i] = f[j] => i = j
      /\ \A j \in 1 .. N : \E i \in 1 .. N : f[i] = j
      /\ \A i \in 1 .. N : t[i] = arg[f[i]]
  BY <1>4 DEF Permuted
<1>6. \A k \in DOMAIN t : \E i \in DOMAIN arg : t[k] = arg[i]
  BY <1>2, <1>3, <1>5
<1>7. \A i \in DOMAIN arg : \E k \in DOMAIN t : t[k] = arg[i]
  BY <1>2, <1>3, <1>5
<1>8. ASSUME Apart(arg) PROVE Unsorted(t) = {}
  <2>1. SUFFICES ASSUME NEW i \in 1 .. Len(t) - 1, t[i][1] >= t[i + 1][1] PROVE FALSE
    BY DEF Unsorted
  <2>2. i \in 1 .. N /\ i + 1 \in 1 .. N /\ i <= i + 1
    BY <1>2, <1>3, <2>1
  <2>3. t[i][1] <= t[i + 1][1]
    BY <1>3, <2>2 DEF Ordered
  <2>4. t[i][1] = t[i + 1][1]
    BY <1>3, <2>1, <2>2, <2>3
  <2>5. arg[f[i]][1] = arg[f[i + 1]][1]
    BY <1>5, <2>2, <2>4
  <2>6. f[i] \in DOMAIN arg /\ f[i + 1] \in DOMAIN arg
    BY <1>2, <1>5, <2>2
  <2>7. f[i] = f[i + 1]
    BY <1>8, <2>5, <2>6 DEF Apart
  <2>8. i = i + 1
    BY <1>5, <2>2, <2>7
  <2>. QED BY <2>2, <2>8
<1>9. ASSUME NEW h \in Nat, Found(t, h) PROVE \E i \in DOMAIN arg : At(t, h) = arg[i] /\ arg[i][1] = h
  <2>1. PICK k \in 1 .. Len(t) : At(t, h) = t[k] /\ t[k][1] = h
    BY <1>1, <1>3, <1>9, SearchIsExact
  <2>2. f[k] \in DOMAIN arg /\ t[k] = arg[f[k]]
    BY <1>2, <1>3, <1>5, <2>1
  <2>3. At(t, h) = arg[f[k]] /\ arg[f[k]][1] = h
    BY <2>1, <2>2
  <2>. QED BY <2>2, <2>3
<1>10. ASSUME NEW h \in Nat, NEW i \in DOMAIN arg, arg[i][1] = h PROVE Found(t, h)
  <2>1. \E k \in 1 .. Len(t) : t[k][1] = h
    BY <1>3, <1>7, <1>10
  <2>. QED BY <1>1, <1>3, <2>1, SearchIsExact
<1>. QED BY <1>6, <1>7, <1>8, <1>9, <1>10

\* What is said of a concatenation of three is said of the parts.
Joined(all, P, A, x) ==
    /\ DOMAIN all = 1 .. Len(P) + Len(A) + 1
    /\ \A i \in 1 .. Len(P) : all[i] = P[i]
    /\ \A i \in 1 .. Len(A) : all[Len(P) + i] = A[i]
    /\ all[Len(P) + Len(A) + 1] = x

LEMMA JoinedParts ==
    ASSUME NEW S, NEW P \in Seq(S), NEW A \in Seq(S), NEW x \in S
    PROVE  Joined(P \o A \o <<x>>, P, A, x) /\ P \o A \o <<x>> \in Seq(S)
<1>. DEFINE p == Len(P)
            a == Len(A)
            both == P \o A
            last == <<x>>
            all == both \o last
<1>1. p \in Nat /\ a \in Nat
  BY LenProperties
<1>2. /\ both \in Seq(S) /\ Len(both) = p + a
      /\ \A i \in 1 .. p + a : both[i] = IF i <= p THEN P[i] ELSE A[i - p]
  BY ConcatProperties
<1>3. last \in Seq(S) /\ Len(last) = 1 /\ last[1] = x
  OBVIOUS
<1>. HIDE DEF both, last
<1>4. /\ all \in Seq(S) /\ Len(all) = Len(both) + Len(last)
      /\ \A i \in 1 .. Len(both) + Len(last) :
            all[i] = IF i <= Len(both) THEN both[i] ELSE last[i - Len(both)]
  <2>1. both \in Seq(S) /\ last \in Seq(S)
    BY <1>2, <1>3
  <2>. QED BY <2>1, ConcatProperties
<1>. HIDE DEF all
<1>5. /\ DOMAIN all = 1 .. p + a + 1
      /\ \A i \in 1 .. p + a + 1 : all[i] = IF i <= p + a THEN both[i] ELSE last[i - (p + a)]
  <2>1. Len(both) + Len(last) = p + a + 1
    BY <1>1, <1>2, <1>3
  <2>2. DOMAIN all = 1 .. Len(all)
    BY <1>4, LenProperties
  <2>. QED BY <1>2, <1>4, <2>1, <2>2
<1>6. \A i \in 1 .. p : all[i] = P[i]
  <2>1. \A i \in 1 .. p : i \in 1 .. p + a + 1 /\ i \in 1 .. p + a /\ i <= p + a /\ i <= p
    BY <1>1
  <2>. QED BY <1>2, <1>5, <2>1
<1>7. \A i \in 1 .. a : all[p + i] = A[i]
  <2>1. \A i \in 1 .. a : /\ p + i \in 1 .. p + a + 1 /\ p + i \in 1 .. p + a /\ p + i <= p + a
                          /\ ~(p + i <= p) /\ p + i - p = i
    BY <1>1
  <2>. QED BY <1>2, <1>5, <2>1
<1>8. all[p + a + 1] = x
  <2>1. p + a + 1 \in 1 .. p + a + 1 /\ ~(p + a + 1 <= p + a) /\ p + a + 1 - (p + a) = 1
    BY <1>1
  <2>. QED BY <1>3, <1>5, <2>1
<1>. QED BY <1>4, <1>5, <1>6, <1>7, <1>8 DEF Joined, all, both, last

PrimaryTable(Hash, P) == [i \in DOMAIN P |-> <<Hash[P[i]], P[i]>>]
AlternativeTable(Hash, A) == [i \in DOMAIN A |-> <<Hash[A[i][1]], A[i][1], Hash[A[i][2]]>>]
Firsts(A) == [i \in DOMAIN A |-> A[i][1]]
AllNames(P, A, extra) == P \o Firsts(A) \o <<extra>>

\* No two of the names have the same hash.
NoClash(Hash, shown) == \A i, j \in DOMAIN shown : Hash[shown[i]] = Hash[shown[j]] => i = j

\* The check for clashes finds exactly the clashes.
LEMMA ClashesAreFound ==
    ASSUME NEW names, NEW Hash \in [names -> Nat], NEW P \in Seq(names),
           NEW A \in Seq(names \X names), NEW extra \in names
    PROVE  NoClash(Hash, AllNames(P, A, extra))
             <=> CheckForNameClashes(PrimaryTable(Hash, P), AlternativeTable(Hash, A), Hash[extra]) = {}
<1>. DEFINE p == Len(P)
            a == Len(A)
            PT == PrimaryTable(Hash, P)
            AT == AlternativeTable(Hash, A)
            hp == [i \in DOMAIN PT |-> PT[i][1]]
            ha == [i \in DOMAIN AT |-> AT[i][1]]
            items == hp \o ha \o <<Hash[extra]>>
            shown == AllNames(P, A, extra)
            n == p + a + 1
<1>1. /\ p \in Nat /\ a \in Nat /\ DOMAIN P = 1 .. p /\ DOMAIN A = 1 .. a
      /\ \A i \in 1 .. p : P[i] \in names
      /\ \A i \in 1 .. a : A[i][1] \in names
  BY LenProperties
<1>2. hp \in Seq(Nat) /\ Len(hp) = p /\ \A i \in 1 .. p : hp[i] = Hash[P[i]]
  <2>1. hp = [i \in 1 .. p |-> Hash[P[i]]]
    BY <1>1 DEF PrimaryTable
  <2>2. \A i \in 1 .. p : Hash[P[i]] \in Nat
    BY <1>1
  <2>. HIDE DEF hp, p
  <2>. QED BY <1>1, <2>1, <2>2
<1>3. ha \in Seq(Nat) /\ Len(ha) = a /\ \A i \in 1 .. a : ha[i] = Hash[A[i][1]]
  <2>1. ha = [i \in 1 .. a |-> Hash[A[i][1]]]
    BY <1>1 DEF AlternativeTable
  <2>2. \A i \in 1 .. a : Hash[A[i][1]] \in Nat
    BY <1>1
  <2>. HIDE DEF ha, a
  <2>. QED BY <1>1, <2>1, <2>2
<1>4. Firsts(A) \in Seq(names) /\ Len(Firsts(A)) = a /\ \A i \in 1 .. a : Firsts(A)[i] = A[i][1]
  <2>1. Firsts(A) = [i \in 1 .. a |-> A[i][1]]
    BY <1>1 DEF Firsts
  <2>. HIDE DEF a
  <2>. QED BY <1>1, <2>1
<1>5. Joined(items, hp, ha, Hash[extra]) /\ items \in Seq(Nat)
  <2>. HIDE DEF hp, ha
  <2>. QED BY <1>2, <1>3, JoinedParts
<1>6. Joined(shown, P, Firsts(A), extra)
  BY <1>4, JoinedParts DEF AllNames
<1>7. CheckForNameClashes(PT, AT, Hash[extra])
        = {items[i] : i \in {k \in DOMAIN items : \E j \in k + 1 .. Len(items) : items[j] = items[k]}}
  BY DEF CheckForNameClashes
<1>. HIDE DEF hp, ha, items, shown, PT, AT
<1>8. DOMAIN items = 1 .. n /\ Len(items) = n /\ DOMAIN shown = 1 .. n /\ n \in Nat
  <2>1. DOMAIN items = 1 .. n /\ DOMAIN shown = 1 .. n /\ n \in Nat
    BY <1>1, <1>2, <1>3, <1>4, <1>5, <1>6 DEF Joined
  <2>2. Len(items) \in Nat /\ DOMAIN items = 1 .. Len(items)
    BY <1>5, LenProperties
  <2>. HIDE DEF n
  <2>. QED BY <2>1, <2>2
<1>9. ASSUME NEW i \in 1 .. n PROVE items[i] = Hash[shown[i]]
  <2>1. CASE i \in 1 .. p
    <3>1. items[i] = hp[i] /\ shown[i] = P[i]
      BY <1>2, <1>5, <1>6, <2>1 DEF Joined
    <3>. QED BY <1>2, <2>1, <3>1
  <2>2. CASE i - p \in 1 .. a
    <3>. DEFINE k == i - p
    <3>1. i = p + k
      BY <1>1
    <3>. HIDE DEF k
    <3>2. k \in 1 .. a
      BY <2>2 DEF k
    <3>3. items[p + k] = ha[k] /\ shown[p + k] = A[k][1]
      BY <1>2, <1>3, <1>4, <1>5, <1>6, <3>2 DEF Joined
    <3>. QED BY <1>3, <3>1, <3>2, <3>3
  <2>3. CASE i = n
    BY <1>2, <1>3, <1>4, <1>5, <1>6, <2>3 DEF Joined
  <2>4. i \in 1 .. p \/ i - p \in 1 .. a \/ i = n
    <3>1. p \in Nat /\ a \in Nat /\ i \in 1 .. p + a + 1
      BY <1>1
    <3>. HIDE DEF p, a
    <3>. QED BY <3>1
  <2>. QED BY <2>1, <2>2, <2>3, <2>4
<1>. HIDE DEF n
<1>10. ASSUME NoClash(Hash, shown) PROVE CheckForNameClashes(PT, AT, Hash[extra]) = {}
  <2>1. \A k \in DOMAIN items : ~ \E j \in k + 1 .. Len(items) : items[j] = items[k]
    <3>1. SUFFICES ASSUME NEW k \in 1 .. n, NEW j \in k + 1 .. n, items[j] = items[k] PROVE FALSE
      BY <1>8
    <3>2. j \in 1 .. n /\ j # k
      BY <1>8
    <3>3. Hash[shown[j]] = Hash[shown[k]]
      BY <1>9, <3>1, <3>2
    <3>. QED BY <1>8, <1>10, <3>2, <3>3 DEF NoClash
  <2>. QED BY <1>7, <2>1
<1>11. ASSUME CheckForNameClashes(PT, AT, Hash[extra]) = {} PROVE NoClash(Hash, shown)
  <2>1. \A k \in DOMAIN items : \A j \in k + 1 .. Len(items) : items[j] # items[k]
    BY <1>7, <1>11
  <2>2. \A k, j \in 1 .. n : k < j => items[j] # items[k]
    <3>1. \A k, j \in 1 .. n : k < j => j \in k + 1 .. n
      BY <1>8
    <3>. QED BY <1>8, <2>1, <3>1
  <2>3. \A k, j \in 1 .. n : k < j \/ j < k \/ k = j
    BY <1>8
  <2>4. \A k, j \in 1 .. n : items[j] = items[k] => j = k
    BY <2>2, <2>3
  <2>. QED BY <1>8, <1>9, <2>4 DEF NoClash
<1>. QED BY <1>10, <1>11 DEF PT, AT, shown

OwnHashes(Hash, P, A) ==
    /\ \A i, j \in DOMAIN P : Hash[P[i]] = Hash[P[j]] => i = j
    /\ \A i, j \in DOMAIN A : Hash[A[i][1]] = Hash[A[j][1]] => i = j
    /\ \A i \in DOMAIN P, j \in DOMAIN A : Hash[P[i]] # Hash[A[j][1]]

\* Names that do not clash have hashes of their own within each table, and
\* between them.
LEMMA TablesAreApart ==
    ASSUME NEW names, NEW Hash \in [names -> Nat], NEW P \in Seq(names),
           NEW A \in Seq(names \X names), NEW extra \in names,
           NoClash(Hash, AllNames(P, A, extra))
    PROVE  OwnHashes(Hash, P, A)
<1>. DEFINE p == Len(P)
            a == Len(A)
            shown == AllNames(P, A, extra)
            n == p + a + 1
<1>1. /\ p \in Nat /\ a \in Nat /\ DOMAIN P = 1 .. p /\ DOMAIN A = 1 .. a
      /\ \A i \in 1 .. a : A[i][1] \in names
  BY LenProperties
<1>2. Firsts(A) \in Seq(names) /\ Len(Firsts(A)) = a /\ \A i \in 1 .. a : Firsts(A)[i] = A[i][1]
  <2>1. Firsts(A) = [i \in 1 .. a |-> A[i][1]]
    BY <1>1 DEF Firsts
  <2>. HIDE DEF a
  <2>. QED BY <1>1, <2>1
<1>3. Joined(shown, P, Firsts(A), extra)
  BY <1>2, JoinedParts DEF AllNames
<1>. HIDE DEF shown
<1>4. /\ DOMAIN shown = 1 .. n
      /\ \A i \in 1 .. p : shown[i] = P[i]
      /\ \A i \in 1 .. a : shown[p + i] = A[i][1]
  BY <1>2, <1>3 DEF Joined
<1>5. /\ \A i \in 1 .. p : i \in 1 .. n
      /\ \A i \in 1 .. a : p + i \in 1 .. n
      /\ \A i \in 1 .. p, j \in 1 .. a : i # p + j
      /\ \A i, j \in 1 .. a : p + i = p + j => i = j
  BY <1>1
<1>6. \A i, j \in 1 .. n : Hash[shown[i]] = Hash[shown[j]] => i = j
  BY <1>4 DEF NoClash, shown
<1>. HIDE DEF n
<1>7. \A i, j \in 1 .. p : Hash[P[i]] = Hash[P[j]] => i = j
  BY <1>4, <1>5, <1>6
<1>8. \A i, j \in 1 .. a : Hash[A[i][1]] = Hash[A[j][1]] => i = j
  <2>1. SUFFICES ASSUME NEW i \in 1 .. a, NEW j \in 1 .. a, Hash[A[i][1]] = Hash[A[j][1]] PROVE i = j
    OBVIOUS
  <2>2. Hash[shown[p + i]] = Hash[shown[p + j]]
    BY <1>4, <2>1
  <2>3. p + i = p + j
    BY <1>5, <1>6, <2>2
  <2>. QED BY <1>5, <2>3
<1>9. \A i \in 1 .. p, j \in 1 .. a : Hash[P[i]] # Hash[A[j][1]]
  <2>1. SUFFICES ASSUME NEW i \in 1 .. p, NEW j \in 1 .. a, Hash[P[i]] = Hash[A[j][1]] PROVE FALSE
    OBVIOUS
  <2>2. Hash[shown[i]] = Hash[shown[p + j]]
    BY <1>4, <2>1
  <2>3. i = p + j
    BY <1>5, <1>6, <2>2
  <2>. QED BY <1>5, <2>3
<1>. QED BY <1>1, <1>7, <1>8, <1>9 DEF OwnHashes

SearchFinds(Hash, P, A, primaries, alternatives, h) ==
    /\ Found(primaries, h) => \E i \in DOMAIN P : Hash[P[i]] = h /\ At(primaries, h)[2] = P[i]
    /\ (\E i \in DOMAIN P : Hash[P[i]] = h) => Found(primaries, h)
    /\ Found(alternatives, h) =>
         \E i \in DOMAIN A : /\ Hash[A[i][1]] = h /\ At(alternatives, h)[2] = A[i][1]
                             /\ At(alternatives, h)[3] = Hash[A[i][2]]
    /\ (\E i \in DOMAIN A : Hash[A[i][1]] = h) => Found(alternatives, h)

\* Both tables, sorted: what is found in them is what they were made from.
LEMMA TablesOfNames ==
    ASSUME NEW names, NEW Hash \in [names -> Nat], NEW P \in Seq(names),
           NEW A \in Seq(names \X names), NEW h \in Nat,
           NEW primaries, primaries = container_sorted_by_first(PrimaryTable(Hash, P)),
           NEW alternatives, alternatives = container_sorted_by_first(AlternativeTable(Hash, A))
    PROVE  SearchFinds(Hash, P, A, primaries, alternatives, h)
<1>. DEFINE EP == Nat \X names
            EA == Nat \X names \X Nat
            PT == PrimaryTable(Hash, P)
            AT == AlternativeTable(Hash, A)
<1>1. /\ DOMAIN P = 1 .. Len(P) /\ Len(P) \in Nat /\ \A i \in DOMAIN P : P[i] \in names
      /\ DOMAIN A = 1 .. Len(A) /\ Len(A) \in Nat /\ \A i \in DOMAIN A : A[i] \in names \X names
  BY LenProperties
<1>2. Keyed(EP) /\ Keyed(EA)
  BY DEF Keyed
<1>3. DOMAIN PT = DOMAIN P /\ \A i \in DOMAIN P : PT[i] = <<Hash[P[i]], P[i]>>
  BY DEF PrimaryTable
<1>4. DOMAIN AT = DOMAIN A /\ \A i \in DOMAIN A : AT[i] = <<Hash[A[i][1]], A[i][1], Hash[A[i][2]]>>
  BY DEF AlternativeTable
<1>5. PT \in Seq(EP)
  <2>1. \A i \in DOMAIN P : <<Hash[P[i]], P[i]>> \in EP
    BY <1>1
  <2>. QED BY <1>1, <2>1 DEF PrimaryTable
<1>6. AT \in Seq(EA)
  <2>1. \A i \in DOMAIN A : <<Hash[A[i][1]], A[i][1], Hash[A[i][2]]>> \in EA
    BY <1>1
  <2>. QED BY <1>1, <2>1 DEF AlternativeTable
<1>. HIDE DEF EP, EA, PT, AT
<1>7. /\ Found(primaries, h) => \E i \in DOMAIN PT : At(primaries, h) = PT[i] /\ PT[i][1] = h
      /\ (\E i \in DOMAIN PT : PT[i][1] = h) => Found(primaries, h)
  BY <1>2, <1>5, TableIsSearched DEF PT
<1>8. /\ Found(alternatives, h) => \E i \in DOMAIN AT : At(alternatives, h) = AT[i] /\ AT[i][1] = h
      /\ (\E i \in DOMAIN AT : AT[i][1] = h) => Found(alternatives, h)
  BY <1>2, <1>6, TableIsSearched DEF AT
<1>9. \A i \in DOMAIN P : PT[i][1] = Hash[P[i]] /\ PT[i][2] = P[i]
  BY <1>3
<1>10. \A i \in DOMAIN A : AT[i][1] = Hash[A[i][1]] /\ AT[i][2] = A[i][1] /\ AT[i][3] = Hash[A[i][2]]
  BY <1>4
<1>11. Found(primaries, h) => \E i \in DOMAIN P : Hash[P[i]] = h /\ At(primaries, h)[2] = P[i]
  BY <1>3, <1>7, <1>9
<1>12. (\E i \in DOMAIN P : Hash[P[i]] = h) => Found(primaries, h)
  BY <1>3, <1>7, <1>9
<1>13. Found(alternatives, h) =>
         \E i \in DOMAIN A : /\ Hash[A[i][1]] = h /\ At(alternatives, h)[2] = A[i][1]
                             /\ At(alternatives, h)[3] = Hash[A[i][2]]
  BY <1>4, <1>8, <1>10
<1>14. (\E i \in DOMAIN A : Hash[A[i][1]] = h) => Found(alternatives, h)
  BY <1>4, <1>8, <1>10
<1>. QED BY <1>11, <1>12, <1>13, <1>14 DEF SearchFinds

HasPrimary(Hash, P, A) == \A i \in DOMAIN A : \E p \in Range(P) : Hash[p] = Hash[A[i][2]]

AlarmsTell(Hash, P, A, alarms) ==
    HasPrimary(Hash, P, A) <=> \A line \in DOMAIN alarms : alarms[line] = {}

\* Of tables without a clash, no line has an exclamation mark exactly if each
\* alternative has its primary.
LEMMA AlarmsAreExact ==
    ASSUME NEW names, NEW Hash \in [names -> Nat], NEW P \in Seq(names),
           NEW A \in Seq(names \X names), NEW extra \in names,
           NoClash(Hash, AllNames(P, A, extra)),
           NEW primaries, primaries = container_sorted_by_first(PrimaryTable(Hash, P)),
           NEW alternatives, alternatives = container_sorted_by_first(AlternativeTable(Hash, A)),
           NEW alarms, alarms = Alarms(primaries, alternatives)
    PROVE  AlarmsTell(Hash, P, A, alarms)
<1>. DEFINE EP == Nat \X names
            EA == Nat \X names \X Nat
            PT == PrimaryTable(Hash, P)
            AT == AlternativeTable(Hash, A)
<1>1. /\ DOMAIN P = 1 .. Len(P) /\ Len(P) \in Nat /\ \A i \in DOMAIN P : P[i] \in names
      /\ DOMAIN A = 1 .. Len(A) /\ Len(A) \in Nat
      /\ \A i \in DOMAIN A : A[i] \in names \X names /\ A[i][1] \in names /\ A[i][2] \in names
  BY LenProperties
<1>2. Keyed(EP) /\ Keyed(EA)
  BY DEF Keyed
<1>3. DOMAIN PT = DOMAIN P /\ \A i \in DOMAIN P : PT[i][1] = Hash[P[i]]
  BY DEF PrimaryTable
<1>4. DOMAIN AT = DOMAIN A /\ \A i \in DOMAIN A : AT[i][1] = Hash[A[i][1]] /\ AT[i][3] = Hash[A[i][2]]
  BY DEF AlternativeTable
<1>5. PT \in Seq(EP)
  <2>1. \A i \in DOMAIN P : <<Hash[P[i]], P[i]>> \in EP
    BY <1>1
  <2>. QED BY <1>1, <2>1 DEF PrimaryTable
<1>6. AT \in Seq(EA)
  <2>1. \A i \in DOMAIN A : <<Hash[A[i][1]], A[i][1], Hash[A[i][2]]>> \in EA
    BY <1>1
  <2>. QED BY <1>1, <2>1 DEF AlternativeTable
<1>. HIDE DEF EP, EA, PT, AT
<1>a. OwnHashes(Hash, P, A)
  BY TablesAreApart
<1>7. Apart(PT) /\ Apart(AT)
  BY <1>3, <1>4, <1>a DEF Apart, OwnHashes
<1>8. Unsorted(primaries) = {} /\ Unsorted(alternatives) = {}
  <2>1. Unsorted(primaries) = {}
    BY <1>2, <1>5, <1>7, TableIsSearched DEF PT
  <2>2. Unsorted(alternatives) = {}
    BY <1>2, <1>6, <1>7, TableIsSearched DEF AT
  <2>. QED BY <2>1, <2>2
<1>9. /\ \A k \in DOMAIN alternatives : \E i \in DOMAIN AT : alternatives[k] = AT[i]
      /\ \A i \in DOMAIN AT : \E k \in DOMAIN alternatives : alternatives[k] = AT[i]
  BY <1>2, <1>6, TableIsSearched DEF AT
<1>10. ASSUME NEW k \in DOMAIN alternatives PROVE ~Found(primaries, alternatives[k][1])
  <2>1. PICK i \in DOMAIN A : alternatives[k] = AT[i]
    BY <1>4, <1>9
  <2>2. alternatives[k][1] = Hash[A[i][1]] /\ Hash[A[i][1]] \in Nat
    BY <1>1, <1>4, <2>1
  <2>3. ~Found(primaries, Hash[A[i][1]])
    <3>1. SearchFinds(Hash, P, A, primaries, alternatives, Hash[A[i][1]])
      BY <2>2, TablesOfNames
    <3>. QED BY <1>a, <3>1 DEF SearchFinds, OwnHashes
  <2>. QED BY <2>2, <2>3
<1>. DEFINE orphans == {k \in DOMAIN alternatives : ~Found(primaries, alternatives[k][3])}
<1>11. ASSUME NEW i \in DOMAIN A
       PROVE  Found(primaries, Hash[A[i][2]]) <=> \E p \in Range(P) : Hash[p] = Hash[A[i][2]]
  <2>1. Hash[A[i][2]] \in Nat
    BY <1>1
  <2>2. SearchFinds(Hash, P, A, primaries, alternatives, Hash[A[i][2]])
    BY <2>1, TablesOfNames
  <2>3. Found(primaries, Hash[A[i][2]]) <=> \E j \in DOMAIN P : Hash[P[j]] = Hash[A[i][2]]
    BY <2>2 DEF SearchFinds
  <2>4. (\E p \in Range(P) : Hash[p] = Hash[A[i][2]]) <=> \E j \in DOMAIN P : Hash[P[j]] = Hash[A[i][2]]
    BY DEF Range
  <2>. QED BY <2>3, <2>4
<1>12. HasPrimary(Hash, P, A) => orphans = {}
  <2>1. SUFFICES ASSUME HasPrimary(Hash, P, A), NEW k \in DOMAIN alternatives
                 PROVE  Found(primaries, alternatives[k][3])
    OBVIOUS
  <2>2. PICK i \in DOMAIN A : alternatives[k] = AT[i]
    BY <1>4, <1>9
  <2>3. alternatives[k][3] = Hash[A[i][2]]
    BY <1>4, <2>2
  <2>. QED BY <1>11, <2>1, <2>3 DEF HasPrimary
<1>13. orphans = {} => HasPrimary(Hash, P, A)
  <2>1. SUFFICES ASSUME orphans = {}, NEW i \in DOMAIN A
                 PROVE  \E p \in Range(P) : Hash[p] = Hash[A[i][2]]
    BY DEF HasPrimary
  <2>2. PICK k \in DOMAIN alternatives : alternatives[k] = AT[i]
    BY <1>4, <1>9
  <2>3. Found(primaries, alternatives[k][3]) /\ alternatives[k][3] = Hash[A[i][2]]
    BY <1>4, <2>1, <2>2
  <2>. QED BY <1>11, <2>3
<1>14. alarms = [in_primaries |-> {}, no_primary |-> orphans, primaries |-> {}, alternatives |-> {}]
  <2>1. {k \in DOMAIN alternatives : Found(primaries, alternatives[k][1])} = {}
    BY <1>10
  <2>. HIDE DEF orphans
  <2>2. alarms = [in_primaries |-> {k \in DOMAIN alternatives : Found(primaries, alternatives[k][1])},
                  no_primary |-> orphans,
                  primaries |-> Unsorted(primaries), alternatives |-> Unsorted(alternatives)]
    BY DEF Alarms, orphans
  <2>. QED BY <1>8, <2>1, <2>2
<1>. HIDE DEF orphans
<1>15. (\A line \in DOMAIN alarms : alarms[line] = {}) <=> orphans = {}
  <2>1. DOMAIN alarms = {"in_primaries", "no_primary", "primaries", "alternatives"}
    BY <1>14
  <2>2. /\ alarms["in_primaries"] = {} /\ alarms["no_primary"] = orphans
        /\ alarms["primaries"] = {} /\ alarms["alternatives"] = {}
    BY <1>14
  <2>. QED BY <2>1, <2>2
<1>. QED BY <1>12, <1>13, <1>15 DEF AlarmsTell

LookupsAreRight(Hash, P, A, primaries, alternatives) ==
    /\ \A p \in Range(P) :
          /\ PrimaryNameFromHash(primaries, PrimaryHash(alternatives, Hash[p])) = p
          /\ HashToDirectString(primaries, alternatives, Hash[p]) = p
    /\ \A a \in Range(A) :
          /\ HashToDirectString(primaries, alternatives, Hash[a[1]]) = a[1]
          /\ Hash[PrimaryNameFromHash(primaries, PrimaryHash(alternatives, Hash[a[1]]))] = Hash[a[2]]

\* Every name of sound tables leads to itself and to its primary.
LEMMA LookupsAreExact ==
    ASSUME NEW names, NEW Hash \in [names -> Nat], NEW P \in Seq(names),
           NEW A \in Seq(names \X names), NEW extra \in names,
           NoClash(Hash, AllNames(P, A, extra)), HasPrimary(Hash, P, A),
           NEW primaries, primaries = container_sorted_by_first(PrimaryTable(Hash, P)),
           NEW alternatives, alternatives = container_sorted_by_first(AlternativeTable(Hash, A))
    PROVE  LookupsAreRight(Hash, P, A, primaries, alternatives)
<1>1. /\ \A i \in DOMAIN P : P[i] \in names /\ Hash[P[i]] \in Nat
      /\ \A i \in DOMAIN A : /\ A[i][1] \in names /\ A[i][2] \in names
                             /\ Hash[A[i][1]] \in Nat /\ Hash[A[i][2]] \in Nat
  BY LenProperties
<1>a. OwnHashes(Hash, P, A)
  BY TablesAreApart
<1>2. /\ \A i, j \in DOMAIN P : Hash[P[i]] = Hash[P[j]] => i = j
      /\ \A i, j \in DOMAIN A : Hash[A[i][1]] = Hash[A[j][1]] => i = j
      /\ \A i \in DOMAIN P, j \in DOMAIN A : Hash[P[i]] # Hash[A[j][1]]
  BY <1>a DEF OwnHashes
<1>3. ASSUME NEW i \in DOMAIN P
      PROVE  /\ PrimaryNameFromHash(primaries, PrimaryHash(alternatives, Hash[P[i]])) = P[i]
             /\ HashToDirectString(primaries, alternatives, Hash[P[i]]) = P[i]
  <2>. DEFINE h == Hash[P[i]]
  <2>1. SearchFinds(Hash, P, A, primaries, alternatives, h)
    BY <1>1, TablesOfNames
  <2>2. Found(primaries, h)
    BY <2>1 DEF SearchFinds
  <2>3. PICK j \in DOMAIN P : Hash[P[j]] = h /\ At(primaries, h)[2] = P[j]
    BY <2>1, <2>2 DEF SearchFinds
  <2>4. At(primaries, h)[2] = P[i]
    BY <1>2, <2>3
  <2>5. ~Found(alternatives, h)
    BY <1>2, <2>1 DEF SearchFinds
  <2>. HIDE DEF h
  <2>6. PrimaryHash(alternatives, h) = h
    BY <2>5 DEF PrimaryHash
  <2>7. PrimaryNameFromHash(primaries, h) = P[i] /\ HashToDirectString(primaries, alternatives, h) = P[i]
    BY <2>2, <2>4 DEF PrimaryNameFromHash, HashToDirectString
  <2>. QED BY <2>6, <2>7 DEF h
<1>4. ASSUME NEW i \in DOMAIN A
      PROVE  /\ HashToDirectString(primaries, alternatives, Hash[A[i][1]]) = A[i][1]
             /\ Hash[PrimaryNameFromHash(primaries, PrimaryHash(alternatives, Hash[A[i][1]]))] = Hash[A[i][2]]
  <2>. DEFINE h == Hash[A[i][1]]
              g == Hash[A[i][2]]
  <2>1. /\ SearchFinds(Hash, P, A, primaries, alternatives, h)
        /\ SearchFinds(Hash, P, A, primaries, alternatives, g)
    BY <1>1, TablesOfNames
  <2>2. Found(alternatives, h)
    BY <2>1 DEF SearchFinds
  <2>3. PICK j \in DOMAIN A : /\ Hash[A[j][1]] = h /\ At(alternatives, h)[2] = A[j][1]
                              /\ At(alternatives, h)[3] = Hash[A[j][2]]
    BY <2>1, <2>2 DEF SearchFinds
  <2>4. At(alternatives, h)[2] = A[i][1] /\ At(alternatives, h)[3] = g
    <3>1. i = j
      BY <1>2, <2>3
    <3>. QED BY <2>3, <3>1
  <2>5. ~Found(primaries, h)
    BY <1>2, <2>1 DEF SearchFinds
  <2>6. \E k \in DOMAIN P : Hash[P[k]] = g
    BY DEF HasPrimary, Range
  <2>7. Found(primaries, g)
    BY <2>1, <2>6 DEF SearchFinds
  <2>8. PICK k \in DOMAIN P : Hash[P[k]] = g /\ At(primaries, g)[2] = P[k]
    BY <2>1, <2>7 DEF SearchFinds
  <2>. HIDE DEF g, h
  <2>9. HashToDirectString(primaries, alternatives, h) = A[i][1]
    BY <2>2, <2>4, <2>5 DEF HashToDirectString, PrimaryNameFromHash
  <2>10. PrimaryHash(alternatives, h) = g
    BY <2>2, <2>4 DEF PrimaryHash
  <2>11. PrimaryNameFromHash(primaries, g) = P[k]
    BY <2>7, <2>8 DEF PrimaryNameFromHash
  <2>12. Hash[PrimaryNameFromHash(primaries, PrimaryHash(alternatives, h))] = g
    BY <2>8, <2>10, <2>11
  <2>. QED BY <2>9, <2>12 DEF g, h
<1>5. \A p \in Range(P) : \E i \in DOMAIN P : p = P[i]
  BY DEF Range
<1>6. \A a \in Range(A) : \E i \in DOMAIN A : a = A[i]
  BY DEF Range
<1>. QED BY <1>3, <1>4, <1>5, <1>6 DEF LookupsAreRight

\* A sequence with a bound is a sequence.
LEMMA BoundedSeqIsSeq ==
    ASSUME NEW S, NEW n \in Nat, NEW s \in BoundedSeq(S, n)
    PROVE  s \in Seq(S)
<1>1. PICK m \in 0 .. n : s \in [1 .. m -> S]
  BY DEF BoundedSeq, SeqOf
<1>. QED BY <1>1, SeqDef

\* The Debug tab finds whatever is wrong with the tables of names, and when it
\* finds nothing the lookups of the program are right, for tables of any length
\* and any hash function.
THEOREM DebugTabExact ==
    ASSUME NEW names, NEW Hash \in [names -> Nat],
           NEW most_primaries \in Nat, NEW most_alternatives \in Nat
    PROVE  DebugTabIsExact(names, Hash, most_primaries, most_alternatives)
<1>1. SUFFICES
        ASSUME NEW P \in BoundedSeq(names, most_primaries) \ {<<>>},
               NEW A \in BoundedSeq(names \X names, most_alternatives) \ {<<>>}, NEW extra \in names
        PROVE  LET P_unsorted == [i \in DOMAIN P |-> <<Hash[P[i]], P[i]>>]
                   A_unsorted == [i \in DOMAIN A |-> <<Hash[A[i][1]], A[i][1], Hash[A[i][2]]>>]
                   primaries == container_sorted_by_first(P_unsorted)
                   alternatives == container_sorted_by_first(A_unsorted)
                   shown == P \o [i \in DOMAIN A |-> A[i][1]] \o <<extra>>
                   sound == /\ \A i, j \in DOMAIN shown : Hash[shown[i]] = Hash[shown[j]] => i = j
                            /\ \A i \in DOMAIN A : \E p \in Range(P) : Hash[p] = Hash[A[i][2]]
                   alarms == Alarms(primaries, alternatives)
                   FinalName(n) == PrimaryNameFromHash(primaries, PrimaryHash(alternatives, Hash[n]))
                   DirectName(n) == HashToDirectString(primaries, alternatives, Hash[n])
               IN  /\ sound <=> /\ CheckForNameClashes(P_unsorted, A_unsorted, Hash[extra]) = {}
                                /\ \A line \in DOMAIN alarms : alarms[line] = {}
                   /\ sound =>
                        /\ \A p \in Range(P) : FinalName(p) = p /\ DirectName(p) = p
                        /\ \A a \in Range(A) : /\ DirectName(a[1]) = a[1]
                                               /\ Hash[FinalName(a[1])] = Hash[a[2]]
  BY Zenon DEF DebugTabIsExact
<1>. DEFINE P_unsorted == PrimaryTable(Hash, P)
            A_unsorted == AlternativeTable(Hash, A)
            primaries == container_sorted_by_first(P_unsorted)
            alternatives == container_sorted_by_first(A_unsorted)
            alarms == Alarms(primaries, alternatives)
            apart == NoClash(Hash, AllNames(P, A, extra))
<1>2. P \in Seq(names) /\ A \in Seq(names \X names)
  BY BoundedSeqIsSeq
<1>3. apart <=> CheckForNameClashes(P_unsorted, A_unsorted, Hash[extra]) = {}
  BY <1>2, ClashesAreFound
<1>4. apart => AlarmsTell(Hash, P, A, alarms)
  BY <1>2, AlarmsAreExact
<1>5. apart /\ HasPrimary(Hash, P, A) => LookupsAreRight(Hash, P, A, primaries, alternatives)
  BY <1>2, LookupsAreExact
<1>. QED BY <1>3, <1>4, <1>5, Zenon DEF PrimaryTable, AlternativeTable, NoClash, AllNames, Firsts, HasPrimary,
                                             AlarmsTell, LookupsAreRight

-----------------------------------------------------------------------------
(* The names of papers as text.                                            *)

LEMMA LowestIsMin ==
    ASSUME NEW I, I \subseteq Nat, I # {}
    PROVE  Min(I) \in I /\ \A j \in I : Min(I) <= j
<1>1. \E m \in I : \A j \in I : m <= j
  BY LowestNumber
<1>2. Min(I) = CHOOSE m \in I : \A j \in I : m =< j
  BY DEF Min
<1>. QED BY <1>1, <1>2, Zenon

\* A digit is read as its number, and as nothing else.
LEMMA DigitsAreRead ==
    /\ \A n \in 0 .. 9 : Value(Digits[n + 1]) = n
    /\ \A c : isdigit(c) => Value(c) \in 0 .. 9 /\ c = Digits[Value(c) + 1]
<1>. DEFINE I(c) == {i \in 1 .. Len(Digits) : Digits[i] = c}
<1>1. \A c : Value(c) = (IF I(c) # {} THEN Min(I(c)) ELSE 0) - 1
  BY DEF Value, SelectInSeq
<1>2. Len(Digits) = 10
  BY DEF Digits
<1>3. ASSUME NEW c, I(c) # {} PROVE Value(c) \in 0 .. 9 /\ Digits[Value(c) + 1] = c
  <2>1. Min(I(c)) \in I(c)
    BY <1>3, LowestIsMin
  <2>2. Min(I(c)) \in 1 .. 10 /\ Digits[Min(I(c))] = c
    BY <1>2, <2>1
  <2>. HIDE DEF I
  <2>3. Value(c) = Min(I(c)) - 1
    BY <1>1, <1>3
  <2>4. Value(c) + 1 = Min(I(c)) /\ Value(c) \in 0 .. 9
    BY <2>2, <2>3
  <2>. QED BY <2>2, <2>4
<1>4. \A c : I(c) = {} => Value(c) = -1
  <2>. HIDE DEF I
  <2>. QED BY <1>1
<1>5. ASSUME NEW n \in 0 .. 9 PROVE Value(Digits[n + 1]) = n
  <2>1. n + 1 \in I(Digits[n + 1])
    BY <1>2
  <2>2. Value(Digits[n + 1]) \in 0 .. 9 /\ Digits[Value(Digits[n + 1]) + 1] = Digits[n + 1]
    <3>. HIDE DEF I
    <3>. QED BY <1>3, <2>1
  <2>3. \A i, j \in 1 .. 10 : Digits[i] = Digits[j] => i = j
    BY DEF Digits
  <2>4. Value(Digits[n + 1]) + 1 = n + 1
    BY <2>2, <2>3
  <2>. QED BY <2>2, <2>4
<1>6. ASSUME NEW c, isdigit(c) PROVE Value(c) \in 0 .. 9 /\ c = Digits[Value(c) + 1]
  <2>1. Value(c) \in 0 .. 9
    BY <1>6 DEF isdigit
  <2>2. I(c) # {}
    <3>. HIDE DEF I
    <3>. QED BY <1>4, <2>1
  <2>. HIDE DEF I
  <2>. QED BY <1>3, <2>1, <2>2
<1>. QED BY <1>5, <1>6

\* No digit is a letter or a dot.
LEMMA DigitsAreNoLetters ==
    ASSUME NEW c, isdigit(c)
    PROVE  c # "." /\ tolower(c) # "r"
<1>1. PICK n \in 0 .. 9 : c = Digits[n + 1]
  BY DigitsAreRead
<1>2. c \in {"0", "1", "2", "3", "4", "5", "6", "7", "8", "9"}
  BY <1>1 DEF Digits
<1>3. c # "." /\ c # "N" /\ c # "P" /\ c # "R" /\ c # "r"
  BY <1>2
<1>4. tolower(c) = c
  BY <1>3 DEF tolower
<1>. QED BY <1>3, <1>4

Reads(value, digits) ==
    /\ value[0] = 0
    /\ \A i \in 1 .. Len(digits) : value[i] = 10 * value[i - 1] + Value(digits[i])
    /\ Number(digits) = value[Len(digits)]

\* A number is read digit by digit.
LEMMA NumberIsRead ==
    ASSUME NEW S, NEW digits \in Seq(S), \A i \in 1 .. Len(digits) : isdigit(digits[i])
    PROVE  \E value : Reads(value, digits)
<1>. DEFINE N == Len(digits)
            next(k, y) == 10 * y + Value(digits[k])
            advance == [z \in (1 .. N) \X Int |-> next(z[1], z[2])]
            Solves(y) == y = [k \in 0 .. N |-> IF k = 0 THEN 0 ELSE 10 * y[k - 1] + Value(digits[k])]
<1>1. N \in Nat /\ \A k \in 1 .. N : Value(digits[k]) \in Int
  BY LenProperties DEF isdigit
<1>2. advance \in [(1 .. N) \X Int -> Int]
  <2>1. \A z \in (1 .. N) \X Int : next(z[1], z[2]) \in Int
    BY <1>1
  <2>. HIDE DEF next
  <2>. QED BY <2>1
<1>4. PICK g \in [0 .. N -> Int] : Recursive(g, N, 0, advance)
  <2>1. 0 \in Int
    OBVIOUS
  <2>. HIDE DEF N, advance
  <2>. QED BY <1>1, <1>2, <2>1, Recursion
<1>5. ASSUME NEW k \in 1 .. N PROVE k - 1 \in 0 .. N /\ k # 0 /\ g[k] = next(k, g[k - 1])
  <2>1. k - 1 \in 0 .. N /\ k # 0 /\ g[k - 1] \in Int
    BY <1>1
  <2>2. g[k] = advance[<<k, g[k - 1]>>]
    BY <1>4 DEF Recursive
  <2>. HIDE DEF next
  <2>. QED BY <2>1, <2>2
<1>6. Solves(g)
  <2>1. \A k \in 0 .. N : k = 0 \/ k \in 1 .. N
    BY <1>1
  <2>. QED BY <1>4, <1>5, <2>1 DEF Recursive
<1>. DEFINE value == CHOOSE y : Solves(y)
<1>7. Solves(value)
  BY <1>6
<1>8. Number(digits) = value[N]
  BY DEF Number
<1>9. /\ value[0] = 0
      /\ \A k \in 1 .. N : value[k] = 10 * value[k - 1] + Value(digits[k])
  <2>1. 0 \in 0 .. N /\ \A k \in 1 .. N : k \in 0 .. N /\ k # 0
    BY <1>1
  <2>. HIDE DEF value
  <2>. QED BY <1>7, <2>1
<1>10. Reads(value, digits)
  <2>. HIDE DEF value
  <2>. QED BY <1>8, <1>9 DEF Reads
<1>. QED BY <1>10

\* The numbers of one, two and four digits.
LEMMA ShortNumbers ==
    ASSUME NEW S, NEW d \in Seq(S), \A i \in 1 .. Len(d) : isdigit(d[i])
    PROVE  /\ Len(d) = 1 => Number(d) = Value(d[1])
           /\ Len(d) = 2 => Number(d) = 10 * Value(d[1]) + Value(d[2])
           /\ Len(d) = 4 => Number(d) = 1000 * Value(d[1]) + 100 * Value(d[2]) + 10 * Value(d[3]) + Value(d[4])
<1>1. PICK v : Reads(v, d)
  BY NumberIsRead
<1>2. /\ v[0] = 0 /\ \A i \in 1 .. Len(d) : v[i] = 10 * v[i - 1] + Value(d[i])
      /\ Number(d) = v[Len(d)]
  BY <1>1 DEF Reads
<1>3. \A i \in 1 .. Len(d) : Value(d[i]) \in Int
  BY DEF isdigit
<1>4. ASSUME Len(d) = 1 \/ Len(d) = 2 \/ Len(d) = 4
      PROVE  v[1] = Value(d[1]) /\ Value(d[1]) \in Int
  <2>1. 1 \in 1 .. Len(d) /\ 1 - 1 = 0
    BY <1>4
  <2>2. v[1] = 10 * v[1 - 1] + Value(d[1])
    BY <1>2, <2>1
  <2>. QED BY <1>2, <1>3, <2>1, <2>2
<1>5. ASSUME Len(d) = 2 \/ Len(d) = 4
      PROVE  v[2] = 10 * Value(d[1]) + Value(d[2]) /\ Value(d[2]) \in Int
  <2>1. 2 \in 1 .. Len(d) /\ 2 - 1 = 1
    <3>1. CASE Len(d) = 2
      BY <3>1
    <3>2. CASE Len(d) = 4
      BY <3>2
    <3>. QED BY <1>5, <3>1, <3>2
  <2>2. v[2] = 10 * v[2 - 1] + Value(d[2])
    BY <1>2, <2>1
  <2>. QED BY <1>3, <1>4, <1>5, <2>1, <2>2
<1>6. CASE Len(d) = 4
  <2>1. 3 \in 1 .. Len(d) /\ 3 - 1 = 2 /\ 4 \in 1 .. Len(d) /\ 4 - 1 = 3
    BY <1>6
  <2>2. v[3] = 10 * v[3 - 1] + Value(d[3]) /\ v[4] = 10 * v[4 - 1] + Value(d[4])
    BY <1>2, <2>1
  <2>3. Value(d[3]) \in Int /\ Value(d[4]) \in Int
    BY <1>3, <2>1
  <2>4. v[3] = 10 * (10 * Value(d[1]) + Value(d[2])) + Value(d[3])
    BY <1>5, <1>6, <2>1, <2>2
  <2>5. v[4] = 10 * (10 * (10 * Value(d[1]) + Value(d[2])) + Value(d[3])) + Value(d[4])
    BY <2>1, <2>2, <2>4
  <2>6. v[4] = 1000 * Value(d[1]) + 100 * Value(d[2]) + 10 * Value(d[3]) + Value(d[4])
    BY <1>4, <1>5, <1>6, <2>3, <2>5
  <2>. QED BY <1>2, <1>6, <2>6
<1>. QED BY <1>2, <1>4, <1>5, <1>6

\* The two kinds of names that the constructor takes; a revision has k digits.
HasNumber(p) == Len(p) >= 5 /\ \A i \in 2 .. 5 : isdigit(p[i])
IsNName(p) == HasNumber(p) /\ tolower(p[1]) = "n" /\ EndsAt(p, 6)
IsPName(p, k) ==
    /\ HasNumber(p) /\ Len(p) >= 6 + k /\ tolower(p[1]) = "p" /\ tolower(p[6]) = "r"
    /\ \A i \in 7 .. 6 + k : isdigit(p[i])
    /\ EndsAt(p, 7 + k)

FourDigitNumbers == 0 .. 9999

NumberOf(p) == 1000 * Value(p[2]) + 100 * Value(p[3]) + 10 * Value(p[4]) + Value(p[5])
RevisionOf(p, k) == IF k = 1 THEN Value(p[7]) ELSE 10 * Value(p[7]) + Value(p[8])

NPaper(p) == [letter |-> "n", num |-> NumberOf(p), rev |-> 0]
PPaper(p, k) == [letter |-> "p", num |-> NumberOf(p), rev |-> RevisionOf(p, k)]

\* The number of a name is in its second to fifth characters.
LEMMA NumberIsInPlace ==
    ASSUME NEW S, NEW p \in Seq(S), HasNumber(p)
    PROVE  Number(SubSeq(p, 2, 5)) = NumberOf(p) /\ NumberOf(p) \in FourDigitNumbers
<1>. DEFINE d == SubSeq(p, 2, 5)
<1>1. Len(p) \in Nat /\ \A i \in 2 .. 5 : p[i] \in S /\ isdigit(p[i])
  BY LenProperties DEF HasNumber
<1>2. d \in Seq(S) /\ Len(d) = 4 /\ \A i \in 1 .. 4 : d[i] = p[i + 1]
  <2>1. /\ d \in Seq(S) /\ Len(d) = IF 2 <= 5 THEN 5 - 2 + 1 ELSE 0
        /\ \A i \in 1 .. 5 - 2 + 1 : d[i] = p[2 + i - 1]
    BY <1>1, SubSeqProperties
  <2>2. 5 - 2 + 1 = 4 /\ \A i \in 1 .. 4 : 2 + i - 1 = i + 1
    OBVIOUS
  <2>. HIDE DEF d
  <2>. QED BY <2>1, <2>2
<1>. HIDE DEF d
<1>3. d[1] = p[2] /\ d[2] = p[3] /\ d[3] = p[4] /\ d[4] = p[5]
  BY <1>2
<1>4. \A i \in 1 .. Len(d) : isdigit(d[i])
  <2>1. \A i \in 1 .. 4 : i + 1 \in 2 .. 5
    OBVIOUS
  <2>. QED BY <1>1, <1>2, <2>1
<1>5. Number(d) = 1000 * Value(d[1]) + 100 * Value(d[2]) + 10 * Value(d[3]) + Value(d[4])
  BY <1>2, <1>4, ShortNumbers
<1>6. Value(p[2]) \in 0 .. 9 /\ Value(p[3]) \in 0 .. 9 /\ Value(p[4]) \in 0 .. 9 /\ Value(p[5]) \in 0 .. 9
  BY <1>1 DEF isdigit
<1>. DEFINE v2 == Value(p[2])
            v3 == Value(p[3])
            v4 == Value(p[4])
            v5 == Value(p[5])
<1>7. NumberOf(p) = 1000 * v2 + 100 * v3 + 10 * v4 + v5
  BY DEF NumberOf
<1>8. v2 \in 0 .. 9 /\ v3 \in 0 .. 9 /\ v4 \in 0 .. 9 /\ v5 \in 0 .. 9
  BY <1>6
<1>9. Value(d[1]) = v2 /\ Value(d[2]) = v3 /\ Value(d[3]) = v4 /\ Value(d[4]) = v5
  BY <1>3
<1>. HIDE DEF v2, v3, v4, v5
<1>10. NumberOf(p) \in FourDigitNumbers
  BY <1>7, <1>8, SMT DEF FourDigitNumbers
<1>11. Number(d) = NumberOf(p)
  BY <1>5, <1>7, <1>9
<1>. QED BY <1>10, <1>11 DEF d

\* That of its revision begins with the seventh.
LEMMA RevisionIsInPlace ==
    ASSUME NEW S, NEW p \in Seq(S), NEW k \in 1 .. 2, Len(p) >= 6 + k,
           \A i \in 7 .. 6 + k : isdigit(p[i])
    PROVE  Number(SubSeq(p, 7, 6 + k)) = RevisionOf(p, k) /\ RevisionOf(p, k) \in 0 .. 99
<1>. DEFINE d == SubSeq(p, 7, 6 + k)
<1>1. Len(p) \in Nat /\ \A i \in 7 .. 6 + k : p[i] \in S
  BY LenProperties
<1>2. d \in Seq(S) /\ Len(d) = k /\ \A i \in 1 .. k : d[i] = p[i + 6]
  <2>1. /\ d \in Seq(S) /\ Len(d) = IF 7 <= 6 + k THEN 6 + k - 7 + 1 ELSE 0
        /\ \A i \in 1 .. 6 + k - 7 + 1 : d[i] = p[7 + i - 1]
    BY <1>1, SubSeqProperties
  <2>2. 7 <= 6 + k /\ 6 + k - 7 + 1 = k /\ \A i \in 1 .. k : 7 + i - 1 = i + 6
    OBVIOUS
  <2>. HIDE DEF d
  <2>. QED BY <2>1, <2>2
<1>. HIDE DEF d
<1>6. \A a, b \in 0 .. 9 : a \in 0 .. 99 /\ 10 * a + b \in 0 .. 99
  OBVIOUS
<1>3. \A i \in 1 .. Len(d) : isdigit(d[i])
  <2>1. \A i \in 1 .. k : i + 6 \in 7 .. 6 + k
    OBVIOUS
  <2>. QED BY <1>2, <2>1
<1>4. CASE k = 1
  <2>1. d[1] = p[7] /\ 1 \in 1 .. Len(d)
    BY <1>2, <1>4
  <2>2. Number(d) = Value(d[1])
    BY <1>2, <1>3, <1>4, ShortNumbers
  <2>3. Value(d[1]) \in 0 .. 9
    BY <1>3, <2>1 DEF isdigit
  <2>4. RevisionOf(p, k) = Value(d[1])
    BY <1>4, <2>1 DEF RevisionOf
  <2>5. RevisionOf(p, k) \in 0 .. 99
    BY <1>6, <2>3, <2>4
  <2>. QED BY <2>2, <2>4, <2>5 DEF d
<1>5. CASE k = 2
  <2>1. d[1] = p[7] /\ d[2] = p[8] /\ 1 \in 1 .. Len(d) /\ 2 \in 1 .. Len(d)
    BY <1>2, <1>5
  <2>2. Number(d) = 10 * Value(d[1]) + Value(d[2])
    BY <1>2, <1>3, <1>5, ShortNumbers
  <2>3. Value(d[1]) \in 0 .. 9 /\ Value(d[2]) \in 0 .. 9
    BY <1>3, <2>1 DEF isdigit
  <2>4. RevisionOf(p, k) = 10 * Value(d[1]) + Value(d[2])
    BY <1>5, <2>1 DEF RevisionOf
  <2>5. RevisionOf(p, k) \in 0 .. 99
    BY <1>6, <2>3, <2>4
  <2>. QED BY <2>2, <2>4, <2>5 DEF d
<1>. QED BY <1>4, <1>5

\* What the constructor makes of a name,
LEMMA NNameIsRead ==
    ASSUME NEW S, NEW p \in Seq(S), IsNName(p)
    PROVE  Paper(p) = NPaper(p)
<1>1. Len(p) \in Nat /\ ~(Len(p) < 5) /\ ~(\E i \in 2 .. 5 : ~isdigit(p[i]))
  BY LenProperties DEF IsNName, HasNumber
<1>2. Number(SubSeq(p, 2, 5)) = NumberOf(p)
  BY NumberIsInPlace DEF IsNName
<1>3. tolower(p[1]) = "n" /\ tolower(p[1]) # "p" /\ EndsAt(p, 6)
  BY DEF IsNName
<1>. QED BY <1>1, <1>2, <1>3 DEF Paper, NPaper

LEMMA DigitsAreCounted ==
    ASSUME NEW S, NEW p \in Seq(S), NEW k \in 1 .. 2, IsPName(p, k)
    PROVE  RevisionDigits(p) = k
<1>1. /\ Len(p) \in Nat /\ Len(p) >= 6 + k /\ tolower(p[6]) = "r"
      /\ \A i \in 7 .. 6 + k : isdigit(p[i])
      /\ EndsAt(p, 7 + k)
  BY LenProperties DEF IsPName
<1>2. ~(Len(p) < 7) /\ isdigit(p[7])
  <2>1. 7 \in 7 .. 6 + k
    OBVIOUS
  <2>. QED BY <1>1, <2>1
<1>3. CASE k = 1
  <2>1. EndsAt(p, 8)
    BY <1>1, <1>3
  <2>. QED BY <1>1, <1>2, <1>3, <2>1 DEF RevisionDigits
<1>4. CASE k = 2
  <2>1. isdigit(p[8]) /\ EndsAt(p, 9) /\ Len(p) >= 8
    BY <1>1, <1>4
  <2>2. ~EndsAt(p, 8)
    BY <1>1, <2>1, DigitsAreNoLetters DEF EndsAt
  <2>. QED BY <1>1, <1>2, <1>4, <2>1, <2>2 DEF RevisionDigits
<1>. QED BY <1>3, <1>4

LEMMA PNameIsRead ==
    ASSUME NEW S, NEW p \in Seq(S), NEW k \in 1 .. 2, IsPName(p, k)
    PROVE  Paper(p) = PPaper(p, k)
<1>1. Len(p) \in Nat /\ ~(Len(p) < 5) /\ ~(\E i \in 2 .. 5 : ~isdigit(p[i]))
  BY LenProperties DEF IsPName, HasNumber
<1>2. Number(SubSeq(p, 2, 5)) = NumberOf(p)
  BY NumberIsInPlace DEF IsPName
<1>3. Number(SubSeq(p, 7, 6 + k)) = RevisionOf(p, k)
  BY RevisionIsInPlace DEF IsPName
<1>4. tolower(p[1]) = "p" /\ tolower(p[1]) # "n" /\ RevisionDigits(p) = k /\ k > 0
  BY DigitsAreCounted DEF IsPName
<1>. QED BY <1>1, <1>2, <1>3, <1>4 DEF Paper, PPaper

\* and that it takes no other.
LEMMA OthersAreInvalid ==
    ASSUME NEW S, NEW p \in Seq(S), Paper(p) # Invalid
    PROVE  IsNName(p) \/ \E k \in 1 .. 2 : IsPName(p, k)
<1>1. HasNumber(p) /\ Len(p) \in Nat
  <2>1. Len(p) \in Nat
    BY LenProperties
  <2>2. ~(Len(p) < 5 \/ \E i \in 2 .. 5 : ~isdigit(p[i]))
    BY DEF Paper
  <2>. QED BY <2>1, <2>2 DEF HasNumber
<1>2. (tolower(p[1]) = "n" /\ EndsAt(p, 6)) \/ (tolower(p[1]) = "p" /\ RevisionDigits(p) > 0)
  <2>1. ~(Len(p) < 5 \/ \E i \in 2 .. 5 : ~isdigit(p[i]))
    BY DEF Paper
  <2>. QED BY <2>1 DEF Paper
<1>3. CASE tolower(p[1]) = "n" /\ EndsAt(p, 6)
  BY <1>1, <1>3 DEF IsNName
<1>4. CASE tolower(p[1]) = "p" /\ RevisionDigits(p) > 0
  <2>1. ~(Len(p) < 7) /\ tolower(p[6]) = "r" /\ isdigit(p[7])
    BY <1>4 DEF RevisionDigits
  <2>2. EndsAt(p, 8) \/ (~EndsAt(p, 8) /\ isdigit(p[8]) /\ EndsAt(p, 9))
    BY <1>4 DEF RevisionDigits
  <2>3. CASE EndsAt(p, 8)
    <3>1. Len(p) >= 6 + 1 /\ EndsAt(p, 7 + 1) /\ \A i \in 7 .. 6 + 1 : i = 7
      BY <1>1, <2>1, <2>3
    <3>2. IsPName(p, 1)
      BY <1>1, <1>4, <2>1, <3>1 DEF IsPName
    <3>. QED BY <3>2
  <2>4. CASE ~EndsAt(p, 8) /\ isdigit(p[8]) /\ EndsAt(p, 9)
    <3>1. Len(p) >= 6 + 2 /\ EndsAt(p, 7 + 2) /\ \A i \in 7 .. 6 + 2 : i = 7 \/ i = 8
      BY <1>1, <2>1, <2>4 DEF EndsAt
    <3>2. IsPName(p, 2)
      BY <1>1, <1>4, <2>1, <2>4, <3>1 DEF IsPName
    <3>. QED BY <3>2
  <2>. QED BY <2>2, <2>3, <2>4
<1>. QED BY <1>2, <1>3, <1>4

IsAPaper(paper) ==
    /\ paper \in [letter : {"n", "p"}, num : FourDigitNumbers, rev : 0 .. 99]
    /\ paper.letter = "n" => paper.rev = 0

Characters == {"n", "p", "r"} \cup Range(Digits)

LEMMA DigitIsRead ==
    ASSUME NEW n \in Nat
    PROVE  isdigit(Digit(n)) /\ Value(Digit(n)) = n % 10 /\ Digit(n) \in Characters
<1>1. n % 10 \in 0 .. 9
  OBVIOUS
<1>2. Digit(n) = Digits[(n % 10) + 1]
  BY DEF Digit
<1>3. Value(Digit(n)) = n % 10
  BY <1>1, <1>2, DigitsAreRead
<1>4. isdigit(Digit(n))
  BY <1>1, <1>3 DEF isdigit
<1>5. Digit(n) \in Characters
  <2>1. DOMAIN Digits = 1 .. 10
    BY DEF Digits
  <2>2. (n % 10) + 1 \in DOMAIN Digits
    BY <1>1, <2>1
  <2>. QED BY <1>2, <2>2 DEF Characters, Range
<1>. QED BY <1>3, <1>4, <1>5

\* The digits of a number.
OfDigits(a, b, c, d) == 1000 * (a % 10) + 100 * (b % 10) + 10 * (c % 10) + (d % 10)

OfItself(n) == OfDigits(n \div 1000, n \div 100, n \div 10, n) = n

LEMMA FourDigits == \A n \in FourDigitNumbers : OfItself(n)
<1>1. ASSUME NEW n \in 0 .. 9999
      PROVE  1000 * ((n \div 1000) % 10) + 100 * ((n \div 100) % 10) + 10 * ((n \div 10) % 10) + (n % 10) = n
  <2>1. /\ n = 10 * (n \div 10) + (n % 10)
        /\ n \div 10 = 10 * (n \div 100) + ((n \div 10) % 10)
    OBVIOUS
  <2>2. n \div 100 = 10 * (n \div 1000) + ((n \div 100) % 10)
    OBVIOUS
  <2>3. (n \div 1000) % 10 = n \div 1000
    <3>. DEFINE q == n \div 1000
                m == n % 1000
    <3>1. n = 1000 * q + m /\ m \in 0 .. 999 /\ q \in Int
      OBVIOUS
    <3>2. \A d \in 0 .. 9 : d % 10 = d
      OBVIOUS
    <3>. HIDE DEF q, m
    <3>3. q \in 0 .. 9
      BY <3>1
    <3>4. q % 10 = q
      BY <3>2, <3>3
    <3>. QED BY <3>4 DEF q
  <2>4. /\ n \div 10 \in Int /\ n \div 100 \in Int /\ n \div 1000 \in Int
        /\ n % 10 \in Int /\ (n \div 10) % 10 \in Int /\ (n \div 100) % 10 \in Int
    OBVIOUS
  <2>. QED BY <2>1, <2>2, <2>3, <2>4
<1>2. ASSUME NEW n \in FourDigitNumbers PROVE OfItself(n)
  <2>1. 1000 * ((n \div 1000) % 10) + 100 * ((n \div 100) % 10) + 10 * ((n \div 10) % 10) + (n % 10) = n
    BY <1>1, SMT DEF FourDigitNumbers
  <2>. QED BY <2>1, SMT DEF OfItself, OfDigits
<1>. QED BY <1>2

LEMMA TwoDigits ==
    \A n \in 0 .. 99 : 10 * ((n \div 10) % 10) + (n % 10) = n
OBVIOUS

LEMMA Quotients ==
    ASSUME NEW n \in Nat
    PROVE  n \div 1000 \in Nat /\ n \div 100 \in Nat /\ n \div 10 \in Nat
OBVIOUS

Concatenated(h, t) == h \o t

\* What of a name its tail does not change.
Written(letter, a, b, c, d) == <<letter, Digit(a), Digit(b), Digit(c), Digit(d)>>

Begins(p, letter, a, b, c, d, t) ==
    /\ p \in Seq(Characters) /\ Len(p) = 5 + Len(t)
    /\ p[1] = letter /\ HasNumber(p)
    /\ Value(p[2]) = a % 10 /\ Value(p[3]) = b % 10 /\ Value(p[4]) = c % 10 /\ Value(p[5]) = d % 10
    /\ \A i \in 1 .. Len(t) : p[5 + i] = t[i]

LEMMA DigitsArePut ==
    ASSUME NEW letter \in Characters, NEW a \in Nat, NEW b \in Nat, NEW c \in Nat, NEW d \in Nat,
           NEW t \in Seq(Characters),
           NEW p, p = Concatenated(Written(letter, a, b, c, d), t)
    PROVE  Begins(p, letter, a, b, c, d, t)
<1>. DEFINE da == Digit(a)
            db == Digit(b)
            dc == Digit(c)
            dd == Digit(d)
            h == <<letter, da, db, dc, dd>>
<1>1. isdigit(da) /\ Value(da) = a % 10 /\ da \in Characters
  BY DigitIsRead
<1>2. isdigit(db) /\ Value(db) = b % 10 /\ db \in Characters
  BY DigitIsRead
<1>3. isdigit(dc) /\ Value(dc) = c % 10 /\ dc \in Characters
  BY DigitIsRead
<1>4. isdigit(dd) /\ Value(dd) = d % 10 /\ dd \in Characters
  BY DigitIsRead
<1>5. p = Concatenated(h, t)
  BY DEF Written
<1>. HIDE DEF da, db, dc, dd
<1>6. /\ h \in Seq(Characters) /\ Len(h) = 5
      /\ h[1] = letter /\ h[2] = da /\ h[3] = db /\ h[4] = dc /\ h[5] = dd
  BY <1>1, <1>2, <1>3, <1>4
<1>. HIDE DEF h
<1>7. /\ p \in Seq(Characters) /\ Len(p) = Len(h) + Len(t)
      /\ \A i \in 1 .. Len(h) + Len(t) : p[i] = IF i <= Len(h) THEN h[i] ELSE t[i - Len(h)]
  <2>1. h \in Seq(Characters) /\ t \in Seq(Characters)
    BY <1>6
  <2>. QED BY <1>5, <2>1, ConcatProperties DEF Concatenated
<1>8. Len(t) \in Nat
  BY LenProperties
<1>9. \A i \in 1 .. 5 : p[i] = h[i]
  BY <1>6, <1>7, <1>8
<1>10. p[1] = letter /\ p[2] = da /\ p[3] = db /\ p[4] = dc /\ p[5] = dd
  BY <1>6, <1>9
<1>11. \A i \in 1 .. Len(t) : p[5 + i] = t[i]
  <2>1. \A i \in 1 .. Len(t) : 5 + i \in 1 .. 5 + Len(t) /\ ~(5 + i <= 5) /\ 5 + i - 5 = i
    BY <1>8
  <2>. QED BY <1>6, <1>7, <2>1
<1>12. HasNumber(p)
  <2>1. \A i \in 2 .. 5 : i = 2 \/ i = 3 \/ i = 4 \/ i = 5
    OBVIOUS
  <2>2. isdigit(p[2]) /\ isdigit(p[3]) /\ isdigit(p[4]) /\ isdigit(p[5])
    BY <1>1, <1>2, <1>3, <1>4, <1>10, Zenon
  <2>3. Len(p) >= 5
    BY <1>6, <1>7, <1>8
  <2>. QED BY <2>1, <2>2, <2>3 DEF HasNumber
<1>13. Value(p[2]) = a % 10 /\ Value(p[3]) = b % 10 /\ Value(p[4]) = c % 10 /\ Value(p[5]) = d % 10
  BY <1>1, <1>2, <1>3, <1>4, <1>10, Zenon
<1>14. Len(p) = 5 + Len(t)
  BY <1>6, <1>7
<1>. QED BY <1>7, <1>10, <1>11, <1>12, <1>13, <1>14 DEF Begins

WrittenNumber(letter, num) == Written(letter, num \div 1000, num \div 100, num \div 10, num)

HasTail(p, letter, num, t) ==
    /\ p \in Seq(Characters) /\ Len(p) = 5 + Len(t)
    /\ p[1] = letter /\ HasNumber(p) /\ NumberOf(p) = num
    /\ \A i \in 1 .. Len(t) : p[5 + i] = t[i]

LEMMA NumberPartIsWritten ==
    ASSUME NEW paper, IsAPaper(paper), NEW t \in Seq(Characters),
           NEW p, p = Concatenated(NumberPart(paper), t)
    PROVE  HasTail(p, paper.letter, paper.num, t)
<1>1. paper.letter \in Characters /\ paper.num \in FourDigitNumbers
  BY DEF IsAPaper, Characters
<1>2. NumberPart(paper) = WrittenNumber(paper.letter, paper.num)
  BY DEF NumberPart, Written, WrittenNumber
<1>3. ASSUME NEW letter \in Characters, NEW num \in FourDigitNumbers,
             NumberPart(paper) = WrittenNumber(letter, num)
      PROVE  HasTail(p, letter, num, t)
  <2>. DEFINE a == num \div 1000
              b == num \div 100
              c == num \div 10
  <2>1. a \in Nat /\ b \in Nat /\ c \in Nat /\ num \in Nat
    BY Quotients DEF FourDigitNumbers
  <2>2. OfDigits(a, b, c, num) = num
    <3>1. OfItself(num)
      BY FourDigits
    <3>. QED BY <3>1 DEF OfItself
  <2>3. p = Concatenated(Written(letter, a, b, c, num), t)
    BY <1>3 DEF WrittenNumber
  <2>. HIDE DEF a, b, c
  <2>4. Begins(p, letter, a, b, c, num, t)
    BY <2>1, <2>3, DigitsArePut
  <2>5. NumberOf(p) = OfDigits(a, b, c, num)
    BY <2>4 DEF Begins, NumberOf, OfDigits
  <2>6. NumberOf(p) = num
    BY <2>2, <2>5
  <2>. QED BY <2>4, <2>6 DEF Begins, HasTail
<1>. QED BY <1>1, <1>2, <1>3

\* A paper is written as a name that the constructor takes for the same paper.
LEMMA PaperIsWritten ==
    ASSUME NEW paper, IsAPaper(paper)
    PROVE  Paper(c_str(paper)) = paper
<1>. DEFINE p == c_str(paper)
            rev == paper.rev
<1>1. /\ paper.letter \in {"n", "p"} /\ paper.num \in FourDigitNumbers /\ rev \in 0 .. 99
      /\ paper = [letter |-> paper.letter, num |-> paper.num, rev |-> rev]
      /\ paper.letter = "n" => rev = 0
  BY DEF IsAPaper
<1>2. tolower("n") = "n" /\ tolower("p") = "p" /\ tolower("r") = "r"
  BY DEF tolower
<1>3. CASE paper.letter = "n"
  <2>1. p = Concatenated(NumberPart(paper), <<>>)
    BY <1>3 DEF c_str, Concatenated
  <2>2. <<>> \in Seq(Characters) /\ Len(<<>>) = 0
    BY EmptySeq
  <2>. HIDE DEF p
  <2>3. /\ p \in Seq(Characters) /\ Len(p) = 5 + 0
        /\ p[1] = paper.letter /\ HasNumber(p) /\ NumberOf(p) = paper.num
    BY <2>1, <2>2, NumberPartIsWritten DEF HasTail
  <2>4. IsNName(p)
    BY <1>2, <1>3, <2>3 DEF IsNName, EndsAt
  <2>5. Paper(p) = NPaper(p)
    BY <2>3, <2>4, NNameIsRead
  <2>6. NPaper(p) = paper
    BY <1>1, <1>3, <2>3 DEF NPaper
  <2>. QED BY <2>5, <2>6 DEF p
<1>4. ASSUME paper.letter = "p", NEW k \in 1 .. 2, NEW t \in Seq(Characters), Len(t) = k + 1,
             t[1] = "r", \A i \in 2 .. k + 1 : isdigit(t[i]),
             p = Concatenated(NumberPart(paper), t),
             rev = IF k = 1 THEN Value(t[2]) ELSE 10 * Value(t[2]) + Value(t[3])
      PROVE  Paper(p) = paper
  <2>. HIDE DEF p
  <2>1. /\ p \in Seq(Characters) /\ Len(p) = 5 + Len(t)
        /\ p[1] = paper.letter /\ HasNumber(p) /\ NumberOf(p) = paper.num
        /\ \A i \in 1 .. Len(t) : p[5 + i] = t[i]
    BY <1>4, NumberPartIsWritten DEF HasTail
  <2>2. Len(p) = 6 + k
    BY <1>4, <2>1
  <2>3. p[6] = "r"
    <3>1. 1 \in 1 .. Len(t) /\ 5 + 1 = 6
      BY <1>4
    <3>2. p[5 + 1] = t[1]
      BY <2>1, <3>1
    <3>. QED BY <1>4, <3>1, <3>2
  <2>4. \A i \in 7 .. 6 + k : isdigit(p[i])
    <3>1. SUFFICES ASSUME NEW i \in 7 .. 6 + k PROVE isdigit(p[i])
      OBVIOUS
    <3>2. i - 5 \in 1 .. Len(t) /\ i - 5 \in 2 .. k + 1 /\ 5 + (i - 5) = i
      BY <1>4
    <3>3. p[5 + (i - 5)] = t[i - 5]
      BY <2>1, <3>2
    <3>. QED BY <1>4, <3>2, <3>3
  <2>5. EndsAt(p, 7 + k)
    BY <2>2 DEF EndsAt
  <2>6. IsPName(p, k)
    BY <1>2, <1>4, <2>1, <2>2, <2>3, <2>4, <2>5 DEF IsPName
  <2>7. Paper(p) = PPaper(p, k)
    BY <2>1, <2>6, PNameIsRead
  <2>8. RevisionOf(p, k) = rev
    <3>1. p[7] = t[2]
      <4>1. 2 \in 1 .. Len(t) /\ 5 + 2 = 7
        BY <1>4
      <4>. QED BY <2>1, <4>1
    <3>2. CASE k = 1
      BY <1>4, <3>1, <3>2 DEF RevisionOf
    <3>3. CASE k = 2
      <4>1. 3 \in 1 .. Len(t) /\ 5 + 3 = 8
        BY <1>4, <3>3
      <4>2. p[8] = t[3]
        BY <2>1, <4>1
      <4>3. RevisionOf(p, k) = 10 * Value(t[2]) + Value(t[3])
        BY <3>1, <3>3, <4>2 DEF RevisionOf
      <4>. QED BY <1>4, <3>3, <4>3
    <3>. QED BY <3>2, <3>3
  <2>9. PPaper(p, k) = [letter |-> "p", num |-> paper.num, rev |-> rev]
    BY <2>1, <2>8 DEF PPaper
  <2>. HIDE DEF rev
  <2>. QED BY <1>1, <1>4, <2>7, <2>9
<1>5. CASE paper.letter = "p" /\ rev < 10
  <2>. DEFINE t == <<"r", Digit(rev)>>
  <2>1. p = Concatenated(NumberPart(paper), t)
    BY <1>5 DEF c_str, Concatenated
  <2>2. isdigit(Digit(rev)) /\ Value(Digit(rev)) = rev % 10 /\ Digit(rev) \in Characters
    BY <1>1, DigitIsRead
  <2>3. rev % 10 = rev
    BY <1>1, <1>5
  <2>4. t \in Seq(Characters) /\ Len(t) = 1 + 1 /\ t[1] = "r" /\ t[2] = Digit(rev)
    BY <2>2 DEF Characters
  <2>. HIDE DEF t, p, rev
  <2>5. \A i \in 2 .. 1 + 1 : isdigit(t[i])
    BY <2>2, <2>4
  <2>6. 1 \in 1 .. 2 /\ rev = IF 1 = 1 THEN Value(t[2]) ELSE 10 * Value(t[2]) + Value(t[3])
    BY <2>2, <2>3, <2>4
  <2>. QED BY <1>4, <1>5, <2>1, <2>4, <2>5, <2>6 DEF p
<1>6. CASE paper.letter = "p" /\ rev >= 10
  <2>. DEFINE t == <<"r", Digit(rev \div 10), Digit(rev)>>
  <2>1. p = Concatenated(NumberPart(paper), t)
    <3>1. paper.letter # "n" /\ ~(rev < 10)
      BY <1>1, <1>6
    <3>. QED BY <3>1 DEF c_str, Concatenated
  <2>2. rev \div 10 \in Nat /\ rev \in Nat
    <3>1. rev \in Nat
      BY <1>1
    <3>. HIDE DEF rev
    <3>. QED BY <3>1, Quotients
  <2>3. /\ isdigit(Digit(rev)) /\ Value(Digit(rev)) = rev % 10 /\ Digit(rev) \in Characters
        /\ isdigit(Digit(rev \div 10)) /\ Value(Digit(rev \div 10)) = (rev \div 10) % 10
        /\ Digit(rev \div 10) \in Characters
    BY <2>2, DigitIsRead
  <2>4. 10 * ((rev \div 10) % 10) + (rev % 10) = rev
    <3>. HIDE DEF rev
    <3>. QED BY <1>1, TwoDigits
  <2>5. /\ t \in Seq(Characters) /\ Len(t) = 2 + 1 /\ t[1] = "r"
        /\ t[2] = Digit(rev \div 10) /\ t[3] = Digit(rev)
    BY <2>3 DEF Characters
  <2>. HIDE DEF t, p, rev
  <2>6. \A i \in 2 .. 2 + 1 : isdigit(t[i])
    <3>1. \A i \in 2 .. 2 + 1 : i = 2 \/ i = 3
      OBVIOUS
    <3>. QED BY <2>3, <2>5, <3>1
  <2>7. rev = 10 * Value(t[2]) + Value(t[3])
    BY <2>3, <2>4, <2>5
  <2>8. 2 \in 1 .. 2 /\ rev = IF 2 = 1 THEN Value(t[2]) ELSE 10 * Value(t[2]) + Value(t[3])
    BY <2>7
  <2>. QED BY <1>4, <1>6, <2>8, <2>1, <2>5, <2>6, <2>7 DEF p
<1>. QED BY <1>1, <1>3, <1>5, <1>6

\* What the constructor makes of a name is a paper,
LEMMA NamesArePapers ==
    ASSUME NEW S, NEW p \in Seq(S)
    PROVE  /\ IsNName(p) => IsAPaper(NPaper(p))
           /\ \A k \in 1 .. 2 : IsPName(p, k) => IsAPaper(PPaper(p, k))
<1>1. ASSUME HasNumber(p) PROVE NumberOf(p) \in FourDigitNumbers
  BY <1>1, NumberIsInPlace
<1>2. ASSUME NEW k \in 1 .. 2, IsPName(p, k) PROVE RevisionOf(p, k) \in 0 .. 99
  <2>1. Len(p) >= 6 + k /\ \A i \in 7 .. 6 + k : isdigit(p[i])
    BY <1>2 DEF IsPName
  <2>. QED BY <2>1, RevisionIsInPlace
<1>3. ASSUME IsNName(p) PROVE IsAPaper(NPaper(p))
  <2>1. NumberOf(p) \in FourDigitNumbers /\ 0 \in 0 .. 99
    BY <1>1, <1>3 DEF IsNName
  <2>. QED BY <2>1 DEF NPaper, IsAPaper
<1>4. ASSUME NEW k \in 1 .. 2, IsPName(p, k) PROVE IsAPaper(PPaper(p, k))
  <2>1. NumberOf(p) \in FourDigitNumbers
    BY <1>1, <1>4 DEF IsPName
  <2>2. RevisionOf(p, k) \in 0 .. 99
    BY <1>2, <1>4
  <2>. QED BY <2>1, <2>2 DEF PPaper, IsAPaper
<1>. QED BY <1>3, <1>4

\* The first r and the first dot of a name.
LEMMA DotIsFirst ==
    ASSUME NEW S, NEW name \in Seq(S)
    PROVE  /\ DotAt(name) \in 0 .. Len(name)
           /\ DotAt(name) # 0 => name[DotAt(name)] = "."
           /\ \A i \in 1 .. Len(name) : name[i] = "." => DotAt(name) # 0 /\ DotAt(name) <= i
<1>. DEFINE I == {i \in 1 .. Len(name) : name[i] = "."}
<1>1. DotAt(name) = IF I # {} THEN Min(I) ELSE 0
  BY DEF DotAt, SelectInSeq
<1>2. Len(name) \in Nat /\ I \subseteq Nat
  BY LenProperties
<1>3. CASE I = {}
  BY <1>1, <1>2, <1>3
<1>4. CASE I # {}
  <2>1. Min(I) \in I /\ \A j \in I : Min(I) <= j
    BY <1>2, <1>4, LowestIsMin
  <2>2. DotAt(name) = Min(I)
    BY <1>1, <1>4
  <2>3. DotAt(name) \in 1 .. Len(name) /\ name[DotAt(name)] = "."
    BY <2>1, <2>2
  <2>4. \A i \in 1 .. Len(name) : name[i] = "." => DotAt(name) <= i
    BY <2>1, <2>2
  <2>. QED BY <1>2, <2>3, <2>4
<1>. QED BY <1>3, <1>4

LEMMA RIsFirst ==
    ASSUME NEW S, NEW name \in Seq(S)
    PROVE  /\ RAt(name) \in 0 .. Len(name)
           /\ RAt(name) # 0 => tolower(name[RAt(name)]) = "r"
           /\ \A i \in 1 .. Len(name) : tolower(name[i]) = "r" => RAt(name) # 0 /\ RAt(name) <= i
<1>. DEFINE I == {i \in 1 .. Len(name) : tolower(name[i]) = "r"}
<1>1. RAt(name) = IF I # {} THEN Min(I) ELSE 0
  BY DEF RAt, SelectInSeq
<1>2. Len(name) \in Nat /\ I \subseteq Nat
  BY LenProperties
<1>3. CASE I = {}
  BY <1>1, <1>2, <1>3
<1>4. CASE I # {}
  <2>1. Min(I) \in I /\ \A j \in I : Min(I) <= j
    BY <1>2, <1>4, LowestIsMin
  <2>2. RAt(name) = Min(I)
    BY <1>1, <1>4
  <2>3. RAt(name) \in 1 .. Len(name) /\ tolower(name[RAt(name)]) = "r"
    BY <2>1, <2>2
  <2>4. \A i \in 1 .. Len(name) : tolower(name[i]) = "r" => RAt(name) <= i
    BY <2>1, <2>2
  <2>. QED BY <1>2, <2>3, <2>4
<1>. QED BY <1>3, <1>4

\* In the name of a P paper the r is the sixth character, or the letter is one.
LEMMA RIsInPlace ==
    ASSUME NEW S, NEW name \in Seq(S), NEW k \in 1 .. 2, IsPName(name, k)
    PROVE  RAt(name) = 6
<1>1. /\ Len(name) \in Nat /\ Len(name) >= 6 + k /\ tolower(name[1]) = "p"
      /\ tolower(name[6]) = "r" /\ \A i \in 2 .. 5 : isdigit(name[i])
  BY LenProperties DEF IsPName, HasNumber
<1>2. 6 \in 1 .. Len(name) /\ RAt(name) \in 0 .. Len(name)
  BY <1>1, RIsFirst
<1>3. RAt(name) # 0 /\ RAt(name) <= 6 /\ tolower(name[RAt(name)]) = "r"
  BY <1>1, <1>2, RIsFirst
<1>4. RAt(name) # 1
  BY <1>1, <1>3
<1>5. RAt(name) \notin 2 .. 5
  BY <1>1, <1>3, DigitsAreNoLetters
<1>. QED BY <1>2, <1>3, <1>4, <1>5

LEMMA ANamePIsNoN ==
    ASSUME NEW S, NEW name \in Seq(S), Paper(name) # Invalid, tolower(name[1]) = "p"
    PROVE  \E k \in 1 .. 2 : IsPName(name, k)
<1>1. ~IsNName(name)
  BY DEF IsNName
<1>. QED BY <1>1, OthersAreInvalid

ReadBack(name) == Paper(name) # Invalid => Paper(c_str(Paper(name))) = Paper(name)

LEMMA NamesAreReadBack ==
    ASSUME NEW S, NEW name \in Seq(S)
    PROVE  ReadBack(name)
<1>1. SUFFICES ASSUME Paper(name) # Invalid PROVE Paper(c_str(Paper(name))) = Paper(name)
  BY DEF ReadBack
<1>2. CASE IsNName(name)
  BY <1>2, NNameIsRead, NamesArePapers, PaperIsWritten
<1>3. ASSUME NEW k \in 1 .. 2, IsPName(name, k) PROVE Paper(c_str(Paper(name))) = Paper(name)
  BY <1>3, PNameIsRead, NamesArePapers, PaperIsWritten
<1>. QED BY <1>1, <1>2, <1>3, OthersAreInvalid

LoadedAsRead(name) ==
    Loads(name) => /\ Paper(name) = LoadedPaper(name)
                   /\ Paper(name \o <<".", "t">>) = LoadedPaper(name)

\* The stem of a file of tokens is a name with a revision of one or two digits.
LEMMA StemsAreNames ==
    ASSUME NEW S, NEW name \in Seq(S), Loads(name)
    PROVE  \E k \in 1 .. 2 : Len(name) = 6 + k /\ IsPName(name, k)
<1>1. /\ Len(name) \in {7, 8} /\ name[1] = "p" /\ name[6] = "r"
      /\ \A i \in (2 .. Len(name)) \ {6} : isdigit(name[i])
  BY DEF Loads
<1>2. tolower("p") = "p" /\ tolower("r") = "r"
  BY DEF tolower
<1>3. PICK k \in 1 .. 2 : Len(name) = 6 + k
  <2>1. 7 = 6 + 1 /\ 8 = 6 + 2 /\ 1 \in 1 .. 2 /\ 2 \in 1 .. 2
    OBVIOUS
  <2>. QED BY <1>1, <2>1
<1>4. HasNumber(name)
  <2>1. Len(name) >= 5 /\ \A i \in 2 .. 5 : i \in (2 .. Len(name)) \ {6}
    BY <1>3
  <2>. QED BY <1>1, <2>1 DEF HasNumber
<1>5. \A i \in 7 .. 6 + k : isdigit(name[i])
  <2>1. \A i \in 7 .. 6 + k : i \in (2 .. Len(name)) \ {6}
    BY <1>3
  <2>. QED BY <1>1, <2>1
<1>6. EndsAt(name, 7 + k) /\ Len(name) >= 6 + k
  BY <1>3 DEF EndsAt
<1>7. IsPName(name, k)
  BY <1>1, <1>2, <1>4, <1>5, <1>6 DEF IsPName
<1>. QED BY <1>3, <1>7

LEMMA StemsAreLoaded ==
    ASSUME NEW S, NEW name \in Seq(S), NEW k \in 1 .. 2, Len(name) = 6 + k, IsPName(name, k)
    PROVE  LoadedPaper(name) = PPaper(name, k)
<1>1. Number(SubSeq(name, 2, 5)) = NumberOf(name)
  BY NumberIsInPlace DEF IsPName
<1>2. Number(SubSeq(name, 7, 6 + k)) = RevisionOf(name, k)
  <2>1. Len(name) >= 6 + k /\ \A i \in 7 .. 6 + k : isdigit(name[i])
    BY DEF IsPName
  <2>. QED BY <2>1, RevisionIsInPlace
<1>. QED BY <1>1, <1>2 DEF LoadedPaper, PPaper

LEMMA NamesAreLoadedAsRead ==
    ASSUME NEW S, NEW name \in Seq(S)
    PROVE  LoadedAsRead(name)
<1>1. SUFFICES ASSUME Loads(name)
               PROVE  /\ Paper(name) = LoadedPaper(name)
                      /\ Paper(name \o <<".", "t">>) = LoadedPaper(name)
  BY DEF LoadedAsRead
<1>2. PICK k \in 1 .. 2 : Len(name) = 6 + k /\ IsPName(name, k)
  BY <1>1, StemsAreNames
<1>3. LoadedPaper(name) = PPaper(name, k) /\ Paper(name) = PPaper(name, k)
  BY <1>2, StemsAreLoaded, PNameIsRead
<1>. DEFINE S2 == S \cup {".", "t"}
            e == <<".", "t">>
            q == Concatenated(name, e)
<1>4. name \in Seq(S2) /\ e \in Seq(S2) /\ Len(e) = 2 /\ e[1] = "."
  <2>1. S \subseteq S2
    OBVIOUS
  <2>2. name \in Seq(S2)
    BY <2>1, ElementOfSeq, LenProperties, IsASeq
  <2>3. e \in Seq(S2) /\ Len(e) = 2 /\ e[1] = "."
    OBVIOUS
  <2>. QED BY <2>2, <2>3
<1>5. q = name \o <<".", "t">>
  BY DEF Concatenated
<1>. HIDE DEF S2, e, q
<1>6. /\ q \in Seq(S2) /\ Len(q) = Len(name) + Len(e)
      /\ \A i \in 1 .. Len(name) + Len(e) :
             q[i] = IF i <= Len(name) THEN name[i] ELSE e[i - Len(name)]
  BY <1>4, ConcatProperties DEF q, Concatenated
<1>7. Len(q) = 8 + k /\ \A i \in 1 .. 6 + k : q[i] = name[i]
  BY <1>2, <1>4, <1>6
<1>8. q[7 + k] = "."
  <2>1. 7 + k \in 1 .. Len(name) + Len(e) /\ ~(7 + k <= Len(name)) /\ 7 + k - Len(name) = 1
    BY <1>2, <1>4
  <2>. QED BY <1>4, <1>6, <2>1
<1>9. /\ q[1] = name[1] /\ q[2] = name[2] /\ q[3] = name[3] /\ q[4] = name[4] /\ q[5] = name[5]
      /\ q[6] = name[6] /\ \A i \in 2 .. 5 : q[i] = name[i]
      /\ \A i \in 7 .. 6 + k : q[i] = name[i]
  BY <1>7
<1>10. IsPName(q, k)
  <2>1. HasNumber(q)
    BY <1>2, <1>7, <1>9 DEF IsPName, HasNumber
  <2>2. Len(q) >= 6 + k /\ EndsAt(q, 7 + k)
    BY <1>7, <1>8 DEF EndsAt
  <2>. QED BY <1>2, <1>9, <2>1, <2>2 DEF IsPName
<1>11. PPaper(q, k) = PPaper(name, k)
  <2>1. NumberOf(q) = NumberOf(name)
    BY <1>9 DEF NumberOf
  <2>2. RevisionOf(q, k) = RevisionOf(name, k)
    <3>1. CASE k = 1
      <4>1. q[7] = name[7]
        BY <1>9, <3>1
      <4>. QED BY <3>1, <4>1 DEF RevisionOf
    <3>2. CASE k = 2
      <4>1. q[7] = name[7] /\ q[8] = name[8]
        BY <1>9, <3>2
      <4>. QED BY <3>2, <4>1 DEF RevisionOf
    <3>. QED BY <3>1, <3>2
  <2>. QED BY <2>1, <2>2 DEF PPaper
<1>12. Paper(q) = PPaper(q, k)
  BY <1>6, <1>10, PNameIsRead
<1>. QED BY <1>3, <1>5, <1>11, <1>12

ReadAsLoaded(name) ==
    Paper(name) # Invalid /\ name[1] = "p" /\ DotAt(name) = 0 /\ name[6] = "r" => Loads(name)

LEMMA NamesAreReadAsLoaded ==
    ASSUME NEW S, NEW name \in Seq(S)
    PROVE  ReadAsLoaded(name)
<1>1. SUFFICES ASSUME Paper(name) # Invalid, name[1] = "p", DotAt(name) = 0, name[6] = "r"
               PROVE  Loads(name)
  BY DEF ReadAsLoaded
<1>2. PICK k \in 1 .. 2 : IsPName(name, k)
  <2>1. tolower(name[1]) = "p"
    BY <1>1 DEF tolower
  <2>. QED BY <1>1, <2>1, ANamePIsNoN
<1>3. /\ Len(name) \in Nat /\ Len(name) >= 6 + k /\ EndsAt(name, 7 + k)
      /\ \A i \in 2 .. 5 : isdigit(name[i]) /\ \A j \in 7 .. 6 + k : isdigit(name[j])
  BY <1>2, LenProperties DEF IsPName, HasNumber
<1>4. Len(name) = 6 + k
  <2>1. \A i \in 1 .. Len(name) : name[i] # "."
    BY <1>1, DotIsFirst
  <2>2. ASSUME Len(name) >= 7 + k PROVE FALSE
    <3>1. 7 + k \in 1 .. Len(name) /\ ~(Len(name) < 7 + k)
      BY <1>3, <2>2
    <3>. QED BY <1>3, <2>1, <3>1 DEF EndsAt
  <2>. QED BY <1>3, <2>2
<1>5. \A i \in (2 .. Len(name)) \ {6} : isdigit(name[i])
  <2>1. \A i \in (2 .. Len(name)) \ {6} : i \in 2 .. 5 \/ i \in 7 .. 6 + k
    BY <1>4
  <2>. QED BY <1>3, <2>1
<1>6. Len(name) \in {7, 8}
  BY <1>4
<1>. QED BY <1>1, <1>5, <1>6 DEF Loads

TakenAsRead(name) ==
    Paper(name) # Invalid /\ TakesUp(name) => Paper(TakenPaper(name)) = Paper(name)

LEMMA NamesAreTakenAsRead ==
    ASSUME NEW S, NEW name \in Seq(S)
    PROVE  TakenAsRead(name)
<1>1. SUFFICES ASSUME Paper(name) # Invalid, TakesUp(name)
               PROVE  Paper(TakenPaper(name)) = Paper(name)
  BY DEF TakenAsRead
<1>2. /\ DotAt(name) > RAt(name) + 1 /\ tolower(name[1]) = "p"
      /\ \A i \in (2 .. DotAt(name) - 1) \ {RAt(name)} : isdigit(name[i])
  BY <1>1 DEF TakesUp
<1>3. PICK k \in 1 .. 2 : IsPName(name, k)
  BY <1>1, <1>2, ANamePIsNoN
<1>4. /\ Len(name) \in Nat /\ Len(name) >= 6 + k /\ EndsAt(name, 7 + k)
      /\ \A j \in 7 .. 6 + k : isdigit(name[j])
  BY <1>3, LenProperties DEF IsPName
<1>5. RAt(name) = 6
  BY <1>3, RIsInPlace
<1>6. DotAt(name) = 7 + k
  <2>1. DotAt(name) \in 8 .. Len(name) /\ name[DotAt(name)] = "."
    <3>1. DotAt(name) \in 0 .. Len(name) /\ DotAt(name) > 7
      BY <1>2, <1>5, DotIsFirst
    <3>. QED BY <1>4, <3>1, DotIsFirst
  <2>2. DotAt(name) \notin 7 .. 6 + k
    BY <1>4, <2>1, DigitsAreNoLetters
  <2>3. DotAt(name) >= 7 + k /\ 7 + k \in 1 .. Len(name)
    BY <1>4, <2>1, <2>2
  <2>4. name[7 + k] = "."
    BY <1>4, <2>3 DEF EndsAt
  <2>5. DotAt(name) <= 7 + k
    BY <2>3, <2>4, DotIsFirst
  <2>. QED BY <2>1, <2>3, <2>5
<1>7. Number(SubSeq(name, 2, RAt(name) - 1)) = NumberOf(name)
  <2>1. RAt(name) - 1 = 5
    BY <1>5
  <2>. QED BY <1>3, <2>1, NumberIsInPlace DEF IsPName
<1>8. Number(SubSeq(name, RAt(name) + 1, DotAt(name) - 1)) = RevisionOf(name, k)
  <2>1. RAt(name) + 1 = 7 /\ DotAt(name) - 1 = 6 + k
    BY <1>5, <1>6
  <2>2. Number(SubSeq(name, 7, 6 + k)) = RevisionOf(name, k)
    BY <1>4, RevisionIsInPlace
  <2>. QED BY <2>1, <2>2
<1>9. TakenPaper(name) = c_str(PPaper(name, k))
  BY <1>7, <1>8 DEF TakenPaper, PPaper
<1>10. Paper(name) = PPaper(name, k) /\ IsAPaper(PPaper(name, k))
  BY <1>3, PNameIsRead, NamesArePapers
<1>. QED BY <1>9, <1>10, PaperIsWritten

ReadAsTaken(name) ==
    Paper(name) # Invalid /\ Paper(name).letter = "p" /\ DotAt(name) = Len(name) => TakesUp(name)

LEMMA NamesAreReadAsTaken ==
    ASSUME NEW S, NEW name \in Seq(S)
    PROVE  ReadAsTaken(name)
<1>1. SUFFICES ASSUME Paper(name) # Invalid, Paper(name).letter = "p", DotAt(name) = Len(name)
               PROVE  TakesUp(name)
  BY DEF ReadAsTaken
<1>2. PICK k \in 1 .. 2 : IsPName(name, k)
  <2>1. ~IsNName(name)
    <3>1. ASSUME IsNName(name) PROVE FALSE
      <4>1. Paper(name) = NPaper(name)
        BY <3>1, NNameIsRead
      <4>. QED BY <1>1, <4>1 DEF NPaper
    <3>. QED BY <3>1
  <2>. QED BY <1>1, <2>1, OthersAreInvalid
<1>3. /\ Len(name) \in Nat /\ Len(name) >= 6 + k /\ EndsAt(name, 7 + k) /\ tolower(name[1]) = "p"
      /\ \A i \in 2 .. 5 : isdigit(name[i]) /\ \A j \in 7 .. 6 + k : isdigit(name[j])
  BY <1>2, LenProperties DEF IsPName, HasNumber
<1>4. RAt(name) = 6
  BY <1>2, RIsInPlace
<1>5. Len(name) = 7 + k
  <2>1. Len(name) # 6 + k
    <3>1. ASSUME Len(name) = 6 + k PROVE FALSE
      <4>1. 6 + k \in 7 .. 6 + k /\ DotAt(name) = 6 + k /\ 6 + k # 0
        BY <1>1, <3>1
      <4>2. name[6 + k] = "."
        BY <4>1, DotIsFirst
      <4>. QED BY <1>3, <4>1, <4>2, DigitsAreNoLetters
    <3>. QED BY <3>1
  <2>2. 7 + k \in 1 .. Len(name)
    BY <1>3, <2>1
  <2>3. name[7 + k] = "."
    BY <1>3, <2>2 DEF EndsAt
  <2>4. DotAt(name) <= 7 + k
    BY <2>2, <2>3, DotIsFirst
  <2>. QED BY <1>1, <1>3, <2>2, <2>4
<1>6. \A i \in (2 .. DotAt(name) - 1) \ {RAt(name)} : isdigit(name[i])
  <2>1. \A i \in (2 .. DotAt(name) - 1) \ {RAt(name)} : i \in 2 .. 5 \/ i \in 7 .. 6 + k
    BY <1>1, <1>4, <1>5
  <2>. QED BY <1>3, <2>1
<1>7. RAt(name) > 2 /\ DotAt(name) > RAt(name) + 1 /\ DotAt(name) + 1 .. Len(name) = {}
  BY <1>1, <1>4, <1>5
<1>. QED BY <1>3, <1>6, <1>7 DEF TakesUp

\* The constructor of Paper, the loader of tokens and tree_maker read the names
\* of papers alike: whatever the characters and however long the names.
THEOREM AllNamesAgree ==
    ASSUME NEW S, NEW names \in SUBSET Seq(S)
    PROVE  NamesAgree(names)
<1>1. SUFFICES ASSUME NEW name \in Seq(S)
               PROVE  /\ ReadBack(name) /\ LoadedAsRead(name) /\ ReadAsLoaded(name)
                      /\ TakenAsRead(name) /\ ReadAsTaken(name)
  BY DEF NamesAgree, ReadBack, LoadedAsRead, ReadAsLoaded, TakenAsRead, ReadAsTaken
<1>. QED BY NamesAreReadBack, NamesAreLoadedAsRead, NamesAreReadAsLoaded, NamesAreTakenAsRead,
            NamesAreReadAsTaken

\* Every paper that there can be is written as a name that the constructor takes
\* for it.
THEOREM PapersKeepNames ==
    ASSUME NEW nums \in SUBSET FourDigitNumbers
    PROVE  PapersKeepTheirNames(nums)
<1>1. ASSUME NEW num \in FourDigitNumbers, NEW rev \in 0 .. 99
      PROVE  IsAPaper([letter |-> "p", num |-> num, rev |-> rev])
  BY DEF IsAPaper
<1>2. ASSUME NEW num \in FourDigitNumbers PROVE IsAPaper([letter |-> "n", num |-> num, rev |-> 0])
  BY DEF IsAPaper
<1>. QED BY <1>1, <1>2, PaperIsWritten DEF PapersKeepTheirNames

-----------------------------------------------------------------------------
(* The instances that the model checker evaluates.                         *)

\* The three questions asked of the initial state have one answer for every
\* catalogue, every name, every list and every table of hashes.
TextOfNames == {"n", "P", "p", "r", "R", "x", ".", "0", "1", "2", "3", "7"}

LEMMA PaperNamesAreText == MCPaperNames \subseteq Seq(TextOfNames)
<1>0. /\ \A l \in MCLetters : l \in TextOfNames
      /\ "0" \in TextOfNames /\ "1" \in TextOfNames /\ "2" \in TextOfNames /\ "3" \in TextOfNames
      /\ "." \in TextOfNames
  BY DEF MCLetters, TextOfNames
<1>1. \A l \in MCLetters : <<l>> \in Seq(TextOfNames)
  BY <1>0
<1>2. \A n \in MCDigits : n \in Seq(TextOfNames)
  <2>1. <<"0", "1", "2", "3">> \in Seq(TextOfNames)
    BY <1>0
  <2>2. <<"1", "2", "3">> \in Seq(TextOfNames)
    BY <1>0
  <2>3. <<"1", ".", "2", "3">> \in Seq(TextOfNames)
    BY <1>0
  <2>. QED BY <2>1, <2>2, <2>3, Zenon DEF MCDigits
<1>3. ASSUME NEW t \in MCTails PROVE t \in Seq(TextOfNames)
  <2>. DEFINE T == {"r", "R", "0", "7", ".", "x"}
  <2>1. T \subseteq TextOfNames /\ 4 \in Nat
    BY DEF TextOfNames
  <2>2. t \in BoundedSeq(T, 4)
    BY DEF MCTails
  <2>. HIDE DEF T
  <2>3. t \in Seq(T)
    BY <2>1, <2>2, BoundedSeqIsSeq
  <2>4. Len(t) \in Nat /\ t \in [1 .. Len(t) -> T]
    BY <2>3, LenProperties
  <2>5. t \in [1 .. Len(t) -> TextOfNames]
    BY <2>1, <2>4
  <2>. QED BY <2>4, <2>5, SeqDef
<1>4. ASSUME NEW l \in MCLetters, NEW n \in MCDigits, NEW t \in MCTails
      PROVE  MCName(l, n, t) \in Seq(TextOfNames)
  <2>1. <<l>> \o n \in Seq(TextOfNames) /\ t \in Seq(TextOfNames)
    BY <1>1, <1>2, <1>3, ConcatProperties
  <2>. QED BY <2>1, ConcatProperties DEF MCName
<1>. QED BY <1>4 DEF MCPaperNames

\* A paper is the same paper as an item of a tree and as a name.
THEOREM IdentityIsKept == Spec => []PapersKeepTheirIdentity
<1>1. MCNumbers \in SUBSET FourDigitNumbers
  BY SMT DEF MCNumbers, FourDigitNumbers
<1>2. ItemsKeepTheirNames /\ NamesAgree(MCPaperNames) /\ PapersKeepTheirNames(MCNumbers)
  BY <1>1, ItemsKeepNames, PaperNamesAreText, AllNamesAgree, PapersKeepNames
<1>3. PapersKeepTheirIdentity
  BY <1>2 DEF PapersKeepTheirIdentity
<1>. QED BY <1>3, PTL

\* The list of authors comes to one order by exchanges, and by nothing else.
THEOREM AuthorsAreSorted == Spec => []AuthorsSortByExchanges
<1>1. OnlyExchangesSort(0 .. 3, 0, 4)
  <2>1. 0 .. 3 \subseteq CellsOf(0) /\ 4 \in Nat
    BY DEF CellsOf
  <2>. QED BY <2>1, AnyListSortsByExchanges
<1>2. OnlyExchangesSort({NotANumber} \cup 1 .. 3, 1, 4)
  <2>1. {NotANumber} \cup 1 .. 3 \subseteq CellsOf(1) /\ 4 \in Nat
    BY DEF CellsOf
  <2>. QED BY <2>1, AnyListSortsByExchanges
<1>3. AuthorsSortByExchanges
  BY <1>1, <1>2 DEF AuthorsSortByExchanges
<1>. QED BY <1>3, PTL

\* The tables of the debug tab are exact, whichever names share a hash.
THEOREM TablesAreExact == Spec => []DebugTabIsExactOnTables
<1>. DEFINE Hash == <<3, 1, 5, 1, 4, 3>>
<1>1. Hash \in [1 .. 6 -> Nat] /\ 2 \in Nat
  OBVIOUS
<1>2. DebugTabIsExact(1 .. 6, Hash, 2, 2)
  <2>. HIDE DEF Hash
  <2>. QED BY <1>1, DebugTabExact
<1>3. DebugTabIsExactOnTables
  BY <1>2 DEF DebugTabIsExactOnTables
<1>. QED BY <1>3, PTL

=============================================================================
