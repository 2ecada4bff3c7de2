----------------------------- MODULE CrawlProofs -----------------------------
(***************************************************************************)
(* What the crawler and its name manager compute, for any names and any    *)
(* index.                                                                  *)
(*                                                                         *)
(* First the disjoint-set forest: every name is Rooted, which Find's       *)
(* halving of paths keeps (HalveKeepsRoots) and Unite changes for the two  *)
(* trees it joins only (UniteJoins).  Then the tables made from a forest   *)
(* (Managed): the primary name of a spelling, and what names.hpp finds in  *)
(* the tables for it.  Then the inductive invariant of the crawler, one    *)
(* lemma for each of its parts.                                            *)
(***************************************************************************)
EXTENDS Crawl, RecursionTheorems, TLAPS, FiniteSetTheorems, SequenceTheorems

-----------------------------------------------------------------------------
(* Find and Unite.                                                         *)

Tree(root, r) == {k \in DOMAIN root : root[k] = r}

\* Each name is below the root of its tree: every step up leads nearer to it, and
\* the steps are fewer than the names of the tree.
Rooted(parent, root, depth) ==
    LET D == DOMAIN parent
    IN  /\ parent \in [D -> D] /\ root \in [D -> D] /\ depth \in [D -> Nat]
        /\ \A i \in D : /\ root[parent[i]] = root[i]
                        /\ parent[root[i]] = root[i]
                        /\ parent[i] = i => root[i] = i
                        /\ depth[root[i]] = 0
                        /\ parent[i] # i => depth[parent[i]] < depth[i]
                        /\ depth[i] < Cardinality(Tree(root, root[i]))

Forest(parent) ==
    /\ DOMAIN parent = 1 .. Len(parent) /\ Len(parent) \in Nat
    /\ \E root, depth : Rooted(parent, root, depth)

States(D) == [at : D, parent : [D -> D]]

\* One turn of the loop of Find
Halve(w) ==
    LET up == w.parent[w.parent[w.at]]
    IN  IF w.parent[w.at] = w.at THEN w
        ELSE [at |-> up, parent |-> [w.parent EXCEPT ![w.at] = up]]

\* A turn leaves every name in its tree and goes up, if it can.
LEMMA HalveKeepsRoots ==
    ASSUME NEW w, NEW root, NEW depth, w \in States(DOMAIN w.parent),
           Rooted(w.parent, root, depth), NEW v, v = Halve(w)
    PROVE  /\ v \in States(DOMAIN w.parent) /\ DOMAIN v.parent = DOMAIN w.parent
           /\ Rooted(v.parent, root, depth)
           /\ root[v.at] = root[w.at]
           /\ v.parent[v.at] = v.at \/ depth[v.at] < depth[w.at]
           /\ v = w \/ depth[v.at] < depth[w.at]
<1>. DEFINE D == DOMAIN w.parent
            p == w.parent
            x == w.at
            up == p[p[x]]
<1>1. /\ x \in D /\ p \in [D -> D] /\ p[x] \in D /\ up \in D
      /\ root \in [D -> D] /\ depth \in [D -> Nat]
  BY DEF States, Rooted
<1>2. CASE p[x] = x
  <2>1. v = w
    BY <1>2 DEF Halve
  <2>. QED BY <2>1, <1>1, <1>2
<1>3. CASE p[x] # x
  <2>. DEFINE q == [p EXCEPT ![x] = up]
  <2>1. v = [at |-> up, parent |-> q]
    BY <1>3 DEF Halve
  <2>2. v.at = up /\ v.parent = q
    BY <2>1
  <2>3. q \in [D -> D] /\ DOMAIN q = D /\ \A i \in D : q[i] = IF i = x THEN up ELSE p[i]
    BY <1>1
  <2>. HIDE DEF q
  <2>4. root[up] = root[x]
    BY <1>1 DEF Rooted
  <2>5. depth[up] <= depth[p[x]] /\ depth[p[x]] < depth[x]
    <3>1. depth[p[x]] < depth[x]
      BY <1>1, <1>3 DEF Rooted
    <3>2. depth[up] <= depth[p[x]]
      BY <1>1 DEF Rooted
    <3>. QED BY <3>1, <3>2
  <2>6. depth[up] < depth[x] /\ up # x
    BY <2>5, <1>1
  <2>7. root[x] # x
    BY <1>1, <1>3 DEF Rooted
  <2>8. ASSUME NEW i \in D
        PROVE  /\ root[q[i]] = root[i]
               /\ q[root[i]] = root[i]
               /\ q[i] = i => root[i] = i
               /\ q[i] # i => depth[q[i]] < depth[i]
    <3>1. root[i] \in D /\ root[i] # x
      <4>1. root[i] \in D /\ p[root[i]] = root[i]
        BY <1>1 DEF Rooted
      <4>. QED BY <4>1, <1>3
    <3>2. root[q[i]] = root[i] /\ q[root[i]] = root[i]
      BY <2>3, <2>4, <3>1 DEF Rooted
    <3>3. q[i] = i => root[i] = i
      BY <2>3, <2>6 DEF Rooted
    <3>4. q[i] # i => depth[q[i]] < depth[i]
      BY <2>3, <2>6 DEF Rooted
    <3>. QED BY <3>2, <3>3, <3>4
  <2>9. Rooted(q, root, depth)
    BY <2>3, <2>8, <1>1 DEF Rooted
  <2>10. v \in States(D)
    BY <2>1, <2>3, <1>1 DEF States
  <2>. QED BY <2>2, <2>3, <2>4, <2>6, <2>9, <2>10
<1>. QED BY <1>2, <1>3

\* The loop of Find, turn by turn
FindWalk(walk, parent, x) ==
    /\ walk \in [Nat -> States(DOMAIN parent)]
    /\ walk[0] = [at |-> x, parent |-> parent]
    /\ \A n \in Nat : walk[n + 1] = Halve(walk[n])
    /\ Find(parent, x) = walk[Len(parent)]

\* The recursive function of Find exists: its values are the turns of the loop.
LEMMA FindIsHalving ==
    ASSUME NEW parent, NEW x \in DOMAIN parent, Len(parent) \in Nat,
           parent \in [DOMAIN parent -> DOMAIN parent]
    PROVE  \E walk : FindWalk(walk, parent, x)
<1>. DEFINE D == DOMAIN parent
            Step(y, n) == IF n = 0 THEN [at |-> x, parent |-> parent] ELSE Halve(y[n - 1])
            Solves(y) == y = [n \in Nat |-> Step(y, n)]
            X == States(D)
            halve == [w \in X |-> Halve(w)]
            start == [at |-> x, parent |-> parent]
<1>1. ASSUME NEW w \in X PROVE Halve(w) \in X
  <2>1. w.at \in D /\ w.parent \in [D -> D]
    BY DEF States
  <2>2. w.parent[w.parent[w.at]] \in D
    BY <2>1
  <2>3. [w.parent EXCEPT ![w.at] = w.parent[w.parent[w.at]]] \in [D -> D]
    BY <2>1, <2>2
  <2>4. [at |-> w.parent[w.parent[w.at]],
         parent |-> [w.parent EXCEPT ![w.at] = w.parent[w.parent[w.at]]]] \in X
    BY <2>2, <2>3 DEF States
  <2>. QED BY <2>4 DEF Halve
<1>2. halve \in [X -> X]
  BY <1>1
<1>3. \A w \in X : halve[w] = Halve(w)
  BY <1>1
<1>4. start \in X
  BY DEF States
<1>. HIDE DEF X, halve, start
<1>5. PICK f : Endless(f, X, halve, start)
  BY <1>2, <1>4, Iteration
<1>6. f \in [Nat -> X] /\ f[0] = start /\ \A n \in Nat : f[n + 1] = halve[f[n]]
  BY <1>5 DEF Endless
<1>7. \A n \in Nat : f[n + 1] = Halve(f[n])
  BY <1>3, <1>6
<1>8. \A n \in Nat : f[n] = Step(f, n)
  <2>1. SUFFICES ASSUME NEW n \in Nat PROVE f[n] = Step(f, n)
    OBVIOUS
  <2>2. CASE n = 0
    BY <2>2, <1>6 DEF start
  <2>3. CASE n # 0
    <3>1. n - 1 \in Nat /\ n - 1 + 1 = n
      BY <2>3
    <3>2. f[n] = Halve(f[n - 1])
      BY <3>1, <1>7
    <3>. QED BY <3>2, <2>3
  <2>. QED BY <2>2, <2>3
<1>9. Solves(f)
  BY <1>6, <1>8
<1>10. \A g : Solves(g) => g = f
  <2>1. SUFFICES ASSUME NEW g, Solves(g) PROVE g = f
    OBVIOUS
  <2>2. g = [n \in Nat |-> g[n]] /\ \A n \in Nat : g[n] = Step(g, n)
    BY <2>1
  <2>. DEFINE S == {n \in Nat : g[n] = f[n]}
  <2>3. 0 \in S
    BY <2>2, <1>8
  <2>4. ASSUME NEW n \in Nat, n \in S PROVE n + 1 \in S
    <3>1. g[n] = f[n] /\ n + 1 # 0 /\ n + 1 \in Nat /\ n + 1 - 1 = n
      BY <2>4
    <3>2. Step(g, n + 1) = Step(f, n + 1)
      BY <3>1
    <3>3. g[n + 1] = Step(g, n + 1) /\ f[n + 1] = Step(f, n + 1)
      BY <3>1, <2>2, <1>8
    <3>. QED BY <3>1, <3>2, <3>3
  <2>5. Nat \subseteq S
    <3>. HIDE DEF S
    <3>. QED BY <2>3, <2>4, Induction
  <2>. HIDE DEF Step
  <2>. QED BY <2>2, <2>5, <1>6
<1>11. Find(parent, x) = (CHOOSE y : Solves(y))[Len(parent)]
  BY DEF Find, Halve
<1>. HIDE DEF Solves
<1>12. (CHOOSE y : Solves(y)) = f
  BY <1>9, <1>10
<1>13. FindWalk(f, parent, x)
  BY <1>6, <1>7, <1>11, <1>12 DEF FindWalk, X, start
<1>. QED BY <1>13

\* Find ends, and at the root; the trees keep their names.
LEMMA FindFindsRoot ==
    ASSUME NEW parent, NEW root, NEW depth, NEW x \in DOMAIN parent,
           DOMAIN parent = 1 .. Len(parent), Len(parent) \in Nat,
           Rooted(parent, root, depth)
    PROVE  /\ Root(parent, x) = root[x]
           /\ DOMAIN Find(parent, x).parent = DOMAIN parent
           /\ Rooted(Find(parent, x).parent, root, depth)
<1>. DEFINE D == DOMAIN parent
            N == Len(parent)
<1>1. parent \in [D -> D] /\ root \in [D -> D] /\ depth \in [D -> Nat]
  BY DEF Rooted
<1>2. PICK walk : FindWalk(walk, parent, x)
  BY <1>1, FindIsHalving
<1>. DEFINE Good(n) == /\ walk[n] \in States(D) /\ DOMAIN walk[n].parent = D
                       /\ Rooted(walk[n].parent, root, depth)
                       /\ root[walk[n].at] = root[x]
            Ended(n) == walk[n].parent[walk[n].at] = walk[n].at
            S == {n \in Nat : Good(n) /\ (Ended(n) \/ depth[walk[n].at] + n <= depth[x])}
<1>3. 0 \in S
  BY <1>1, <1>2 DEF FindWalk
<1>4. ASSUME NEW n \in Nat, n \in S PROVE n + 1 \in S
  <2>. DEFINE w == walk[n]
              v == walk[n + 1]
  <2>1. /\ w \in States(DOMAIN w.parent) /\ Rooted(w.parent, root, depth) /\ v = Halve(w)
        /\ DOMAIN w.parent = D /\ root[w.at] = root[x]
        /\ w.parent[w.at] = w.at \/ depth[w.at] + n <= depth[x]
    BY <1>2, <1>4 DEF FindWalk
  <2>. HIDE DEF w, v
  <2>2. /\ v \in States(D) /\ DOMAIN v.parent = D
        /\ Rooted(v.parent, root, depth)
        /\ root[v.at] = root[w.at]
        /\ v.parent[v.at] = v.at \/ depth[v.at] < depth[w.at]
        /\ v = w \/ depth[v.at] < depth[w.at]
    BY <2>1, HalveKeepsRoots
  <2>3. w.at \in D /\ v.at \in D
    BY <2>1, <2>2 DEF States
  <2>4. v.parent[v.at] = v.at \/ depth[v.at] + (n + 1) <= depth[x]
    <3>1. CASE w.parent[w.at] = w.at
      BY <3>1, <2>1 DEF Halve
    <3>2. CASE depth[w.at] + n <= depth[x]
      BY <3>2, <2>2, <2>3, <1>1
    <3>. QED BY <3>1, <3>2, <2>1
  <2>. QED BY <2>1, <2>2, <2>4 DEF v
<1>5. N \in S
  <2>1. Nat \subseteq S
    <3>. HIDE DEF S
    <3>. QED BY <1>3, <1>4, Induction
  <2>. QED BY <2>1
<1>6. depth[x] < N
  <2>1. IsFiniteSet(D) /\ Cardinality(D) = N
    <3>1. IsFiniteSet(1 .. N) /\ Cardinality(1 .. N) = (IF 1 > N THEN 0 ELSE N - 1 + 1)
      BY FS_Interval
    <3>. QED BY <3>1
  <2>2. Tree(root, root[x]) \subseteq D
    BY <1>1 DEF Tree
  <2>3. Cardinality(Tree(root, root[x])) <= N /\ Cardinality(Tree(root, root[x])) \in Nat
    BY <2>1, <2>2, FS_Subset, FS_CardinalityType
  <2>4. depth[x] < Cardinality(Tree(root, root[x])) /\ depth[x] \in Nat
    BY <1>1 DEF Rooted
  <2>. QED BY <2>3, <2>4
<1>7. Good(N) /\ walk[N].at \in D
  BY <1>5 DEF States
<1>8. Ended(N)
  <2>1. depth[walk[N].at] \in Nat /\ depth[x] \in Nat
    BY <1>1, <1>7
  <2>2. ~(depth[walk[N].at] + N <= depth[x])
    BY <2>1, <1>6
  <2>. QED BY <1>5, <2>2
<1>9. root[walk[N].at] = walk[N].at
  BY <1>7, <1>8 DEF Rooted
<1>. QED BY <1>2, <1>7, <1>9 DEF Root, FindWalk

\* The root of one tree is put under the root of another.
LEMMA LinkIsRooted ==
    ASSUME NEW p, NEW root, NEW depth, Rooted(p, root, depth), IsFiniteSet(DOMAIN p),
           NEW ra \in DOMAIN p, NEW rb \in DOMAIN p, root[ra] = ra, root[rb] = rb, ra # rb,
           NEW q, q = [p EXCEPT ![ra] = rb],
           NEW root2, root2 = [i \in DOMAIN p |-> IF root[i] = ra THEN rb ELSE root[i]]
    PROVE  \E depth2 : Rooted(q, root2, depth2)
<1>. DEFINE D == DOMAIN p
            depth2 == [i \in D |-> IF root[i] = ra THEN depth[i] + 1 ELSE depth[i]]
            Size(r) == Cardinality(Tree(root, r))
<1>1. p \in [D -> D] /\ root \in [D -> D] /\ depth \in [D -> Nat] /\ ra \in D /\ rb \in D
  BY DEF Rooted
<1>2. /\ q \in [D -> D] /\ DOMAIN q = D
      /\ \A i \in D : q[i] = IF i = ra THEN rb ELSE p[i]
  BY <1>1
<1>3. root2 \in [D -> D] /\ \A i \in D : root2[i] = IF root[i] = ra THEN rb ELSE root[i]
  BY <1>1
<1>4. /\ depth2 \in [D -> Nat]
      /\ \A i \in D : depth2[i] = IF root[i] = ra THEN depth[i] + 1 ELSE depth[i]
  BY <1>1
<1>. HIDE DEF depth2
<1>5. ASSUME NEW i \in D
      PROVE  /\ root[p[i]] = root[i] /\ p[root[i]] = root[i]
             /\ p[i] = i => root[i] = i
             /\ depth[root[i]] = 0
             /\ p[i] # i => depth[p[i]] < depth[i]
             /\ depth[i] < Size(root[i])
             /\ p[i] \in D /\ root[i] \in D /\ depth[i] \in Nat
  BY <1>1 DEF Rooted
<1>6. p[ra] = ra /\ p[rb] = rb /\ depth[ra] = 0 /\ depth[rb] = 0
  BY <1>5, <1>1
<1>7. ASSUME NEW i \in D
      PROVE  /\ root2[q[i]] = root2[i]
             /\ q[root2[i]] = root2[i]
             /\ q[i] = i => root2[i] = i
             /\ depth2[root2[i]] = 0
             /\ q[i] # i => depth2[q[i]] < depth2[i]
  <2>1. root2[q[i]] = root2[i]
    BY <1>1, <1>2, <1>3, <1>5
  <2>2. q[root2[i]] = root2[i]
    BY <1>1, <1>2, <1>3, <1>5, <1>6
  <2>3. q[i] = i => root2[i] = i
    BY <1>1, <1>2, <1>3, <1>5
  <2>4. depth2[root2[i]] = 0
    <3>1. root2[i] \in D /\ root[root2[i]] # ra
      BY <1>1, <1>3, <1>5, <1>6
    <3>2. depth2[root2[i]] = depth[root2[i]]
      BY <3>1, <1>4
    <3>3. root2[i] = rb \/ root2[i] = root[i]
      BY <1>3
    <3>. QED BY <3>2, <3>3, <1>5, <1>6
  <2>5. q[i] # i => depth2[q[i]] < depth2[i]
    <3>1. CASE i = ra
      <4>1. q[i] = rb /\ depth2[rb] = 0 /\ depth2[i] = 1
        BY <3>1, <1>1, <1>2, <1>4, <1>6
      <4>. QED BY <4>1
    <3>2. CASE i # ra
      <4>1. q[i] = p[i] /\ root[p[i]] = root[i] /\ p[i] \in D
        BY <3>2, <1>2, <1>5
      <4>2. p[i] # i => depth[p[i]] < depth[i] /\ depth[p[i]] \in Nat /\ depth[i] \in Nat
        BY <1>5
      <4>. QED BY <4>1, <4>2, <1>4
    <3>. QED BY <3>1, <3>2
  <2>. QED BY <2>1, <2>2, <2>3, <2>4, <2>5
<1>8. ASSUME NEW r \in D PROVE IsFiniteSet(Tree(root, r)) /\ Size(r) \in Nat
  <2>1. Tree(root, r) \subseteq D
    BY <1>1 DEF Tree
  <2>. QED BY <2>1, FS_Subset, FS_CardinalityType
<1>9. Cardinality(Tree(root2, rb)) = Size(ra) + Size(rb)
  <2>1. Tree(root2, rb) = Tree(root, ra) \cup Tree(root, rb)
    BY <1>1, <1>3 DEF Tree
  <2>2. Tree(root, ra) \cap Tree(root, rb) = {}
    BY DEF Tree
  <2>3. Cardinality(Tree(root, ra) \cap Tree(root, rb)) = 0
    BY <2>2, FS_EmptySet
  <2>4. Cardinality(Tree(root, ra) \cup Tree(root, rb)) =
            Size(ra) + Size(rb) - Cardinality(Tree(root, ra) \cap Tree(root, rb))
    BY <1>1, <1>8, FS_Union
  <2>5. Size(ra) \in Nat /\ Size(rb) \in Nat
    BY <1>1, <1>8
  <2>6. Cardinality(Tree(root2, rb)) = Cardinality(Tree(root, ra) \cup Tree(root, rb))
    BY <2>1
  <2>. HIDE DEF Size
  <2>. QED BY <2>3, <2>4, <2>5, <2>6
<1>10. ASSUME NEW i \in D PROVE depth2[i] < Cardinality(Tree(root2, root2[i]))
  <2>1. depth[i] < Size(root[i]) /\ depth[i] \in Nat /\ Size(ra) \in Nat /\ Size(rb) \in Nat
    BY <1>1, <1>5, <1>8
  <2>2. depth[rb] < Size(rb) /\ depth[rb] = 0
    BY <1>1, <1>5, <1>6
  <2>3. CASE root[i] = ra
    <3>1. depth2[i] = depth[i] + 1 /\ root2[i] = rb
      BY <2>3, <1>3, <1>4
    <3>. QED BY <3>1, <2>1, <2>2, <2>3, <1>9
  <2>4. CASE root[i] = rb
    <3>1. depth2[i] = depth[i] /\ root2[i] = rb
      BY <2>4, <1>3, <1>4
    <3>. QED BY <3>1, <2>1, <2>2, <2>4, <1>9
  <2>5. CASE root[i] # ra /\ root[i] # rb
    <3>1. depth2[i] = depth[i] /\ root2[i] = root[i]
      BY <2>5, <1>3, <1>4
    <3>2. Tree(root2, root[i]) = Tree(root, root[i])
      BY <2>5, <1>1, <1>3 DEF Tree
    <3>. QED BY <3>1, <3>2, <2>1
  <2>. QED BY <2>3, <2>4, <2>5
<1>11. Rooted(q, root2, depth2)
  BY <1>2, <1>3, <1>4, <1>7, <1>10 DEF Rooted
<1>. QED BY <1>11

\* At first each name is alone.
LEMMA LoneNames ==
    ASSUME NEW p, NEW n \in Nat, p = [i \in 1 .. n |-> i], Len(p) = n
    PROVE  Forest(p) /\ \A i \in 1 .. n : Root(p, i) = i
<1>. DEFINE depth == [i \in 1 .. n |-> 0]
<1>1. DOMAIN p = 1 .. n /\ p \in [1 .. n -> 1 .. n] /\ depth \in [1 .. n -> Nat]
  OBVIOUS
<1>2. ASSUME NEW i \in 1 .. n PROVE p[i] = i /\ depth[i] = 0 /\ Cardinality(Tree(p, i)) = 1
  <2>1. p[i] = i /\ depth[i] = 0
    OBVIOUS
  <2>2. Tree(p, i) = {i}
    BY DEF Tree
  <2>. QED BY <2>1, <2>2, FS_Singleton
<1>. HIDE DEF depth
<1>3. Rooted(p, p, depth)
  BY <1>1, <1>2 DEF Rooted
<1>4. Forest(p)
  BY <1>1, <1>3 DEF Forest
<1>5. ASSUME NEW i \in 1 .. n PROVE Root(p, i) = i
  BY <1>1, <1>2, <1>3, FindFindsRoot
<1>. QED BY <1>4, <1>5

\* A root is a name and its own root.
LEMMA RootsAreRoots ==
    ASSUME NEW p, Forest(p), NEW i \in DOMAIN p
    PROVE  Root(p, i) \in DOMAIN p /\ Root(p, Root(p, i)) = Root(p, i)
<1>1. PICK root, depth : Rooted(p, root, depth)
  BY DEF Forest
<1>2. \A k \in DOMAIN p : Root(p, k) = root[k]
  BY <1>1, FindFindsRoot DEF Forest
<1>3. root[i] \in DOMAIN p /\ p[root[i]] = root[i]
  BY <1>1 DEF Rooted
<1>4. root[root[i]] = root[i]
  BY <1>1, <1>3 DEF Rooted
<1>. QED BY <1>2, <1>3, <1>4

\* Unite joins the trees of two names and no others.
LEMMA UniteJoins ==
    ASSUME NEW p, Forest(p), NEW a \in DOMAIN p, NEW b \in DOMAIN p
    PROVE  /\ Forest(Unite(p, a, b)) /\ DOMAIN Unite(p, a, b) = DOMAIN p
           /\ \A i \in DOMAIN p :
                 Root(Unite(p, a, b), i) =
                    IF Root(p, i) = Root(p, a) THEN Root(p, b) ELSE Root(p, i)
<1>. DEFINE D == DOMAIN p
            pa == Find(p, a)
            pb == Find(pa.parent, b)
            q == Unite(p, a, b)
<1>1. PICK root, depth : Rooted(p, root, depth)
  BY DEF Forest
<1>2. D = 1 .. Len(p) /\ Len(p) \in Nat
  BY DEF Forest
<1>3. \A k \in D : Root(p, k) = root[k]
  BY <1>1, <1>2, FindFindsRoot
<1>4. pa.at = root[a] /\ DOMAIN pa.parent = D /\ Rooted(pa.parent, root, depth)
  BY <1>1, <1>2, FindFindsRoot DEF Root
<1>. HIDE DEF pa
<1>5. Len(pa.parent) = Len(p)
  <2>1. pa.parent \in [1 .. Len(p) -> D]
    BY <1>2, <1>4 DEF Rooted
  <2>. QED BY <2>1, <1>2
<1>6. pb.at = root[b] /\ DOMAIN pb.parent = D /\ Rooted(pb.parent, root, depth)
  BY <1>2, <1>4, <1>5, FindFindsRoot DEF Root
<1>. HIDE DEF pb
<1>7. q = [pb.parent EXCEPT ![root[a]] = root[b]]
  BY <1>4, <1>6 DEF Unite, pa, pb
<1>. HIDE DEF q
<1>8. /\ root[a] \in D /\ root[b] \in D /\ root[root[a]] = root[a] /\ root[root[b]] = root[b]
      /\ pb.parent[root[a]] = root[a] /\ pb.parent \in [D -> D] /\ root \in [D -> D]
  BY <1>6 DEF Rooted
<1>. DEFINE root2 == [i \in D |-> IF root[i] = root[a] THEN root[b] ELSE root[i]]
<1>9. \E depth2 : Rooted(q, root2, depth2)
  <2>1. CASE root[a] = root[b]
    <3>1. q = pb.parent
      BY <2>1, <1>7, <1>8
    <3>2. root2 = root
      BY <2>1, <1>8
    <3>. QED BY <3>1, <3>2, <1>6
  <2>2. CASE root[a] # root[b]
    <3>1. IsFiniteSet(D)
      BY <1>2, FS_Interval
    <3>2. root2 = [i \in DOMAIN pb.parent |-> IF root[i] = root[a] THEN root[b] ELSE root[i]]
      BY <1>6
    <3>3. /\ Rooted(pb.parent, root, depth) /\ IsFiniteSet(DOMAIN pb.parent)
          /\ root[a] \in DOMAIN pb.parent /\ root[b] \in DOMAIN pb.parent
          /\ root[root[a]] = root[a] /\ root[root[b]] = root[b]
      BY <3>1, <1>6, <1>8
    <3>. HIDE DEF root2
    <3>. QED BY <3>2, <3>3, <2>2, <1>7, LinkIsRooted
  <2>. QED BY <2>1, <2>2
<1>10. DOMAIN q = D /\ q \in [1 .. Len(p) -> D]
  BY <1>2, <1>7, <1>8
<1>11. Len(q) = Len(p)
  BY <1>2, <1>10
<1>12. \A k \in D : root2[k] = IF root[k] = root[a] THEN root[b] ELSE root[k]
  OBVIOUS
<1>. HIDE DEF root2
<1>13. Forest(q)
  BY <1>2, <1>9, <1>10, <1>11 DEF Forest
<1>14. \A k \in D : Root(q, k) = root2[k]
  BY <1>2, <1>9, <1>10, <1>11, FindFindsRoot
<1>. QED BY <1>3, <1>10, <1>12, <1>13, <1>14 DEF q

-----------------------------------------------------------------------------
(* Who a name is taken for.                                                *)

\* A measure has a greatest value on a finite set.
LEMMA GreatestValue ==
    ASSUME NEW S, IsFiniteSet(S), S # {}, NEW f \in [S -> Nat]
    PROVE  \E m \in S : \A n \in S : f[n] <= f[m]
<1>. DEFINE Has(T) == \E m \in T : \A n \in T : f[n] <= f[m]
            K == {k \in Nat : \A T \in SUBSET S : Cardinality(T) = k /\ T # {} => Has(T)}
<1>1. \A T \in SUBSET S : IsFiniteSet(T) /\ Cardinality(T) \in Nat
  BY FS_Subset, FS_CardinalityType
<1>2. 0 \in K
  BY <1>1, FS_EmptySet
<1>3. ASSUME NEW k \in Nat, k \in K PROVE k + 1 \in K
  <2>1. SUFFICES ASSUME NEW T \in SUBSET S, Cardinality(T) = k + 1, T # {} PROVE Has(T)
    OBVIOUS
  <2>2. PICK x \in T : TRUE
    BY <2>1
  <2>. DEFINE U == T \ {x}
  <2>3. Cardinality(U) = k
    <3>1. Cardinality(T \ {x}) = IF x \in T THEN Cardinality(T) - 1 ELSE Cardinality(T)
      BY <1>1, FS_RemoveElement
    <3>. QED BY <3>1, <2>1, <2>2
  <2>4. U \in SUBSET S /\ T = U \cup {x} /\ f[x] \in Nat
    BY <2>2
  <2>. HIDE DEF U
  <2>5. CASE U = {}
    BY <2>4, <2>5
  <2>6. CASE U # {}
    <3>1. PICK m \in U : \A n \in U : f[n] <= f[m]
      BY <1>3, <2>3, <2>4, <2>6
    <3>2. CASE f[x] <= f[m]
      BY <3>1, <3>2, <2>4
    <3>3. CASE ~(f[x] <= f[m])
      <4>1. \A n \in U : f[n] \in Nat
        BY <2>4
      <4>2. \A n \in T : f[n] <= f[x]
        BY <4>1, <3>1, <3>3, <2>4
      <4>. QED BY <4>2, <2>2
    <3>. QED BY <3>2, <3>3
  <2>. QED BY <2>5, <2>6
<1>4. Nat \subseteq K
  <2>. HIDE DEF K
  <2>. QED BY <1>2, <1>3, Induction
<1>. QED BY <1>1, <1>4

SortKeys == [particle : BOOLEAN, tokens : Nat, size : Nat]

\* Some name of a cluster stands in front: the comparison is an order.
LEMMA ForemostIsThere ==
    ASSUME NEW cluster, IsFiniteSet(cluster), cluster # {},
           \A m \in cluster : SortKey[m] \in SortKeys
    PROVE  Foremost(cluster) \in cluster
<1>1. ASSUME NEW S \in SUBSET cluster, S # {}, NEW f \in [S -> Nat]
      PROVE  \E m \in S : \A n \in S : f[n] <= f[m]
  BY <1>1, FS_Subset, GreatestValue
<1>2. ASSUME NEW m \in cluster
      PROVE  SortKey[m].particle \in BOOLEAN /\ SortKey[m].tokens \in Nat /\ SortKey[m].size \in Nat
  BY DEF SortKeys
<1>. DEFINE WithParticle == {m \in cluster : SortKey[m].particle}
            A == IF WithParticle # {} THEN WithParticle ELSE cluster
            tokens == [m \in A |-> SortKey[m].tokens]
<1>3. A \in SUBSET cluster /\ A # {} /\ tokens \in [A -> Nat]
  BY <1>2
<1>4. PICK a \in A : \A n \in A : SortKey[n].tokens <= SortKey[a].tokens
  <2>. HIDE DEF A
  <2>1. \E a \in A : \A n \in A : tokens[n] <= tokens[a]
    <3>. HIDE DEF tokens
    <3>. QED BY <1>1, <1>3
  <2>. QED BY <2>1
<1>. DEFINE B == {m \in A : SortKey[m].tokens = SortKey[a].tokens}
            size == [m \in B |-> SortKey[m].size]
<1>5. B \in SUBSET cluster /\ B # {} /\ size \in [B -> Nat]
  BY <1>2, <1>3, <1>4
<1>6. PICK m \in B : \A n \in B : SortKey[n].size <= SortKey[m].size
  <2>. HIDE DEF B
  <2>1. \E b \in B : \A n \in B : size[n] <= size[b]
    <3>. HIDE DEF size
    <3>. QED BY <1>1, <1>5
  <2>. QED BY <2>1
<1>7. m \in cluster /\ m \in A /\ SortKey[m].tokens = SortKey[a].tokens
  BY <1>3, <1>6
<1>8. ASSUME NEW n \in cluster PROVE ~SortsBefore(n, m)
  <2>1. CASE n \notin A
    <3>1. ~SortKey[n].particle /\ SortKey[m].particle
      BY <2>1, <1>7
    <3>2. SortKey[n].particle # SortKey[m].particle
      BY <3>1
    <3>. QED BY <3>1, <3>2 DEF SortsBefore
  <2>2. CASE n \in A /\ SortKey[n].tokens # SortKey[m].tokens
    <3>1. ~(SortKey[n].tokens > SortKey[m].tokens)
      BY <2>2, <1>2, <1>4, <1>7
    <3>2. SortKey[n].particle = SortKey[m].particle
      BY <2>2, <1>2, <1>7
    <3>. QED BY <3>1, <3>2, <2>2 DEF SortsBefore
  <2>3. CASE n \in A /\ SortKey[n].tokens = SortKey[m].tokens
    <3>1. ~(SortKey[n].size > SortKey[m].size)
      BY <2>3, <1>2, <1>6, <1>7
    <3>2. SortKey[n].particle = SortKey[m].particle
      BY <2>3, <1>2, <1>7
    <3>. QED BY <3>1, <3>2, <2>3 DEF SortsBefore
  <2>. QED BY <2>1, <2>2, <2>3
<1>. QED BY <1>7, <1>8 DEF Foremost

\* It does not matter which of two spellings comes first.
LEMMA SamePersonIsMutual ==
    ASSUME NEW m, NEW n, IsSamePerson(m, n)
    PROVE  IsSamePerson(n, m)
<1>1. ASSUME NEW a, NEW b, IsOneTypoApart(a, b) PROVE IsOneTypoApart(b, a)
  <2>1. Len(a) = Len(b) => {i \in 1 .. Len(a) : a[i] # b[i]} = {i \in 1 .. Len(b) : b[i] # a[i]}
    OBVIOUS
  <2>. QED BY <1>1, <2>1 DEF IsOneTypoApart
<1>2. ASSUME NEW a, NEW b, SameSurname(a, b) PROVE SameSurname(b, a)
  BY <1>1, <1>2 DEF SameSurname
<1>3. \A a, b : SameGivenNames(a, b) => SameGivenNames(b, a)
  BY DEF SameGivenNames
<1>. DEFINE Alike(x, y) ==
                LET u == Normalised(x)
                    v == Normalised(y)
                IN  \/ IsPrefix(u, v) \/ IsPrefix(v, u)
                    \/ SameSurname(x, y) /\ (SameGivenNames(x, y) \/ IsOneTypoApart(u, v))
<1>4. CASE {m, n} \cap hardcoded_primaries # {}
  <2>1. m = n
    BY <1>4 DEF IsSamePerson
  <2>. QED BY <2>1
<1>5. CASE {m, n} \cap hardcoded_primaries = {}
  <2>1. Alike(Words[m], Words[n])
    BY <1>5 DEF IsSamePerson
  <2>2. Alike(Words[n], Words[m])
    BY <2>1, <1>1, <1>2, <1>3
  <2>3. {n, m} \cap hardcoded_primaries = {}
    BY <1>5
  <2>. QED BY <2>2, <2>3 DEF IsSamePerson
<1>. QED BY <1>4, <1>5

-----------------------------------------------------------------------------
(* Clusters, primary names and the tables made from them.                  *)

\* What AddNames leaves: each name once, none that has a hard-coded primary, and
\* the hard-coded primaries each alone.
Managed(names, forest) ==
    /\ Forest(forest) /\ DOMAIN names = DOMAIN forest
    /\ \A i, j \in DOMAIN names : names[i] = names[j] => i = j
    /\ \A i \in DOMAIN names :
          /\ names[i] \notin DOMAIN hardcoded_alternatives
          /\ SortKey[names[i]] \in SortKeys
          /\ names[i] \in hardcoded_primaries => Cluster(names, forest, i) = {names[i]}

\* A cluster is the same for all its names.
LEMMA ClustersArePartition ==
    ASSUME NEW names, NEW forest, Managed(names, forest), NEW i \in DOMAIN names
    PROVE  /\ names[i] \in Cluster(names, forest, i)
           /\ IsFiniteSet(Cluster(names, forest, i))
           /\ \A j \in DOMAIN names :
                 names[j] \in Cluster(names, forest, i) <=> Root(forest, j) = Root(forest, i)
           /\ \A n \in Cluster(names, forest, i) :
                 \E j \in DOMAIN names :
                    n = names[j] /\ Cluster(names, forest, j) = Cluster(names, forest, i)
<1>. DEFINE C == Cluster(names, forest, i)
            J == {j \in DOMAIN names : Root(forest, j) = Root(forest, i)}
            f == [j \in J |-> names[j]]
<1>1. C = {names[j] : j \in J}
  BY DEF Cluster
<1>2. \A j \in DOMAIN names : names[j] \in C <=> Root(forest, j) = Root(forest, i)
  BY <1>1 DEF Managed
<1>3. IsFiniteSet(C)
  <2>1. IsFiniteSet(DOMAIN names)
    BY FS_Interval DEF Managed, Forest
  <2>2. IsFiniteSet(J)
    BY <2>1, FS_Subset
  <2>3. f \in Surjection(J, C)
    BY <1>1 DEF Surjection
  <2>. QED BY <2>2, <2>3, FS_Surjection
<1>4. ASSUME NEW n \in C
      PROVE  \E j \in DOMAIN names : n = names[j] /\ Cluster(names, forest, j) = C
  <2>1. PICK j \in DOMAIN names : n = names[j] /\ Root(forest, j) = Root(forest, i)
    BY <1>1
  <2>2. Cluster(names, forest, j) = C
    BY <2>1 DEF Cluster
  <2>. QED BY <2>1, <2>2
<1>. QED BY <1>2, <1>3, <1>4

\* GetPrimaryName gives every name of a cluster the same name of that cluster.
LEMMA PrimaryOfCluster ==
    ASSUME NEW names, NEW forest, Managed(names, forest), NEW i \in DOMAIN names
    PROVE  /\ GetPrimaryName(names, forest, names[i]) = Foremost(Cluster(names, forest, i))
           /\ Foremost(Cluster(names, forest, i)) \in Cluster(names, forest, i)
<1>. DEFINE C == Cluster(names, forest, i)
<1>1. names[i] \in C /\ IsFiniteSet(C)
  BY ClustersArePartition
<1>2. \A n \in C : SortKey[n] \in SortKeys
  BY ClustersArePartition DEF Managed
<1>3. Foremost(C) \in C
  <2>. HIDE DEF C
  <2>. QED BY <1>1, <1>2, ForemostIsThere
<1>4. CASE names[i] \in hardcoded_primaries
  <2>1. C = {names[i]}
    BY <1>4 DEF Managed
  <2>. QED BY <1>3, <1>4, <2>1 DEF GetPrimaryName
<1>5. CASE names[i] \notin hardcoded_primaries
  <2>1. names[i] \notin DOMAIN hardcoded_alternatives
    BY DEF Managed
  <2>2. names[i] \in Range(names)
    BY DEF Range
  <2>3. \A k \in DOMAIN names : names[k] = names[i] <=> k = i
    BY DEF Managed
  <2>4. (CHOOSE k \in DOMAIN names : names[k] = names[i]) = i
    BY <2>3
  <2>. QED BY <1>3, <1>5, <2>1, <2>2, <2>4 DEF GetPrimaryName
<1>. QED BY <1>4, <1>5

Known(names) == Range(names) \cup DOMAIN hardcoded_alternatives

\* The table of alternatives has exactly the names that have another primary.
LEMMA PairsAreAlternatives ==
    ASSUME NEW names, NEW forest, Managed(names, forest), NEW entry
    PROVE  entry \in AlternativePairs(names, forest) <=>
              \E n \in Known(names) :
                  /\ entry = <<n, GetPrimaryName(names, forest, n)>>
                  /\ GetPrimaryName(names, forest, n) # n
<1>. DEFINE P(n) == GetPrimaryName(names, forest, n)
            primary(i) == Foremost(Cluster(names, forest, i))
            clustered == {<<names[i], primary(i)>> :
                             i \in {k \in DOMAIN names : primary(k) # names[k]}}
            hard == {<<alt, hardcoded_alternatives[alt]>> : alt \in DOMAIN hardcoded_alternatives}
<1>1. AlternativePairs(names, forest) = clustered \cup hard
  BY DEF AlternativePairs
<1>2. \A i \in DOMAIN names : P(names[i]) = primary(i)
  BY PrimaryOfCluster
<1>3. \A alt \in DOMAIN hardcoded_alternatives :
          P(alt) = hardcoded_alternatives[alt] /\ P(alt) # alt
  BY HardcodedAssumption DEF GetPrimaryName
<1>. HIDE DEF P, primary
<1>4. entry \in clustered <=>
          \E i \in DOMAIN names : entry = <<names[i], P(names[i])>> /\ P(names[i]) # names[i]
  BY <1>2
<1>5. entry \in hard <=>
          \E alt \in DOMAIN hardcoded_alternatives : entry = <<alt, P(alt)>> /\ P(alt) # alt
  BY <1>3
<1>6. \A n : n \in Range(names) <=> \E i \in DOMAIN names : n = names[i]
  BY DEF Range
<1>. HIDE DEF clustered, hard
<1>. QED BY <1>1, <1>4, <1>5, <1>6 DEF Known, P

\* names.hpp and GetPrimaryName agree, and without a doubt: a name stands once.
LEMMA TableSaysPrimary ==
    ASSUME NEW names, NEW forest, Managed(names, forest),
           NEW tables, tables = Headers(names, forest), NEW n
    PROVE  Primary(tables, n) = GetPrimaryName(names, forest, n)
<1>. DEFINE P(x) == GetPrimaryName(names, forest, x)
<1>1. tables.alternatives = AlternativePairs(names, forest)
  BY DEF Headers
<1>2. \A entry : entry \in tables.alternatives <=>
          \E x \in Known(names) : entry = <<x, P(x)>> /\ P(x) # x
  BY <1>1, PairsAreAlternatives
<1>3. CASE n \in Known(names) /\ P(n) # n
  <2>1. <<n, P(n)>> \in tables.alternatives
    BY <1>2, <1>3
  <2>2. ASSUME NEW entry \in tables.alternatives, entry[1] = n PROVE entry = <<n, P(n)>>
    <3>1. PICK x \in Known(names) : entry = <<x, P(x)>>
      BY <1>2
    <3>2. x = n
      BY <2>2, <3>1
    <3>. QED BY <3>1, <3>2
  <2>4. <<n, P(n)>>[1] = n /\ <<n, P(n)>>[2] = P(n)
    OBVIOUS
  <2>. HIDE DEF P
  <2>3. (CHOOSE entry \in tables.alternatives : entry[1] = n) = <<n, P(n)>>
    BY <2>1, <2>2, <2>4
  <2>. QED BY <2>1, <2>3, <2>4 DEF Primary, P
<1>4. CASE ~(n \in Known(names) /\ P(n) # n)
  <2>1. ~ \E entry \in tables.alternatives : entry[1] = n
    BY <1>2, <1>4
  <2>2. P(n) = n
    <3>1. n \notin Known(names) => P(n) = n
      BY DEF GetPrimaryName, Known
    <3>. QED BY <3>1, <1>4
  <2>. QED BY <2>1, <2>2 DEF Primary
<1>. QED BY <1>3, <1>4

\* In a flat table nobody has to look twice.
LEMMA FlatTablesSettle ==
    ASSUME NEW names, NEW forest, Managed(names, forest),
           NEW tables, tables = Headers(names, forest), TableIsFlat(tables),
           NEW n \in Known(names)
    PROVE  GetPrimaryName(names, forest, GetPrimaryName(names, forest, n))
               = GetPrimaryName(names, forest, n)
<1>. DEFINE P(x) == GetPrimaryName(names, forest, x)
<1>1. CASE P(n) = n
  BY <1>1
<1>2. CASE P(n) # n
  <2>1. <<n, P(n)>> \in tables.alternatives
    BY <1>2, PairsAreAlternatives DEF Headers
  <2>2. Primary(tables, P(n)) = P(n)
    BY <2>1 DEF TableIsFlat
  <2>3. Primary(tables, P(n)) = P(P(n))
    BY TableSaysPrimary
  <2>. QED BY <2>2, <2>3
<1>. QED BY <1>1, <1>2

\* In a flat table no alternative is a primary, and each known name has its primary
\* among the primaries.
LEMMA FlatTablesAreConsistent ==
    ASSUME NEW names, NEW forest, Managed(names, forest),
           NEW tables, tables = Headers(names, forest), TableIsFlat(tables)
    PROVE  /\ \A alt \in tables.alternatives : /\ alt[1] \notin tables.primaries
                                               /\ alt[2] \in tables.primaries
           /\ \A n \in Known(names) : GetPrimaryName(names, forest, n) \in tables.primaries
<1>. DEFINE P(x) == GetPrimaryName(names, forest, x)
            groups == {entry[2] : entry \in tables.alternatives}
            alts == {entry[1] : entry \in tables.alternatives}
            lone == {n \in Range(names) \ (groups \cup alts) : P(n) = n}
<1>1. tables.primaries = (groups \ alts) \cup lone \cup hardcoded_primaries
  BY DEF Headers
<1>2. \A entry : entry \in tables.alternatives <=>
          \E x \in Known(names) : entry = <<x, P(x)>> /\ P(x) # x
  BY PairsAreAlternatives DEF Headers
<1>3. \A x : x \in hardcoded_primaries => P(x) = x
  BY DEF GetPrimaryName
<1>4. \A x \in Known(names) : P(P(x)) = P(x)
  BY FlatTablesSettle
<1>5. \A x \in Known(names) : x \in Range(names) \/ P(x) # x
  BY HardcodedAssumption DEF Known, GetPrimaryName
<1>. HIDE DEF P
<1>6. ASSUME NEW x \in Known(names), P(x) # x PROVE x \in alts /\ P(x) \in groups
  <2>1. <<x, P(x)>> \in tables.alternatives
    BY <1>2, <1>6
  <2>2. <<x, P(x)>>[1] = x /\ <<x, P(x)>>[2] = P(x)
    OBVIOUS
  <2>. QED BY <2>1, <2>2
<1>7. ASSUME NEW entry \in tables.alternatives
       PROVE  \E x \in Known(names) : entry[1] = x /\ entry[2] = P(x) /\ P(x) # x
  BY <1>2
<1>8. \A x : x \in alts <=> x \in Known(names) /\ P(x) # x
  BY <1>6, <1>7
<1>9. \A x : x \in groups <=> \E n \in Known(names) : x = P(n) /\ P(n) # n
  BY <1>6, <1>7
<1>. HIDE DEF groups, alts
<1>10. ASSUME NEW n \in Known(names) PROVE P(n) \in tables.primaries
  <2>1. CASE P(n) # n
    BY <2>1, <1>1, <1>4, <1>8, <1>9
  <2>2. CASE P(n) = n
    BY <2>2, <1>1, <1>5, <1>8, <1>9
  <2>. QED BY <2>1, <2>2
<1>11. ASSUME NEW alt \in tables.alternatives
      PROVE  alt[1] \notin tables.primaries /\ alt[2] \in tables.primaries
  <2>1. PICK x \in Known(names) : alt = <<x, P(x)>> /\ P(x) # x
    BY <1>2
  <2>2. x \notin tables.primaries
    BY <2>1, <1>1, <1>3, <1>8
  <2>. QED BY <2>1, <2>2, <1>10
<1>. QED BY <1>10, <1>11 DEF P

-----------------------------------------------------------------------------
(* The inductive invariant.                                                *)

AllAuthors == UNION {index[k].authors : k \in DOMAIN index}

AuthorsOf(p) == UNION {index[k].authors : k \in {l \in DOMAIN index : index[l].paper = p}}

P(n) == GetPrimaryName(m_names, m_parent, n)

\* What the variables hold.
TypeInv ==
    /\ step \in {"read", "unite", "merge", "done", "threw"}
    /\ index \in Seq([paper : Papers, authors : AuthorSquares])
    /\ IsFiniteSet(DOMAIN g_names)
    /\ \A n \in DOMAIN g_names : g_names[n] \in Seq(Papers)
    /\ to_merge \in Seq(DOMAIN g_names) /\ IsInjective(to_merge)

\* Nothing is merged before the headers are written, and then only what has
\* another primary.
QueueInv ==
    /\ step \in {"read", "unite"} => to_merge = <<>>
    /\ \A n \in Range(to_merge) : P(n) # n

CreditsInv ==
    \A p \in Papers :
        /\ IsFiniteSet(Credits(p)) /\ IsFiniteSet(Mentions(p))
        /\ Cardinality(Credits(p)) = Cardinality(Mentions(p))

\* AddNames has compared i and j.
Compared(i, j) == i < j /\ (i < pair[1] \/ (i = pair[1] /\ j < pair[2]))

SameTree(i, j) == Root(m_parent, i) = Root(m_parent, j)

\* Nothing in C is taken for a name outside.
IsClosed(C) ==
    \A i \in C, j \in DOMAIN m_names : IsSamePerson(m_names[i], m_names[j]) => j \in C

\* The manager has every name that is not hard-coded as an alternative, the trees
\* join all similar names compared, and nothing that similarity does not.
ManagerInv ==
    step # "read" =>
        /\ m_names \in Seq(Range(Names)) /\ IsInjective(m_names)
        /\ Range(m_names) = AllAuthors \ DOMAIN hardcoded_alternatives
        /\ Forest(m_parent) /\ DOMAIN m_parent = DOMAIN m_names
        /\ pair \in Nat \X Nat /\ 1 <= pair[1] /\ pair[1] < pair[2]
        /\ pair[2] > Len(m_names) => pair[2] = pair[1] + 1
        /\ step # "unite" => pair[2] > Len(m_names)
        /\ \A i, j \in DOMAIN m_names :
              Compared(i, j) /\ IsSamePerson(m_names[i], m_names[j]) => SameTree(i, j)
        /\ \A C \in SUBSET DOMAIN m_names :
              IsClosed(C) => \A i \in C, j \in DOMAIN m_names : SameTree(i, j) => j \in C

\* Until the merge begins, the papers are with the spellings that have them.
ReadInv ==
    step \in {"read", "unite"} =>
        /\ DOMAIN g_names = AllAuthors
        /\ \A p \in Papers : ReverseAuthorPaperMap(p) = AuthorsOf(p)

\* Where the papers of spelling a are
Now(a) == IF a \in Range(to_merge) THEN a ELSE P(a)

MergeInv ==
    step \in {"merge", "done", "threw"} =>
        /\ header = Headers(m_names, m_parent)
        /\ \A p \in Papers : AuthorsOf(p) # {} => ReverseAuthorPaperMap(p) # {}
        /\ TableIsFlat(header) =>
              /\ DOMAIN g_names = {Now(a) : a \in AllAuthors}
              /\ \A p \in Papers : ReverseAuthorPaperMap(p) = {Now(a) : a \in AuthorsOf(p)}

\* The tree of papers
TreeOfPapers ==
    {[name |-> name,
      latest_rev |-> GetPaperLatestRev(name),
      revs |-> {[rev |-> p.rev, authors |-> ReverseAuthorPaperMap(p)] :
                   p \in {q \in IndexedPapers : q.name = name}}] :
        name \in {p.name : p \in IndexedPapers}}

WrittenInv ==
    /\ step \in {"done", "threw"} => to_merge = <<>>
    /\ step = "threw" => \E p \in IndexedPapers : ReverseAuthorPaperMap(p) = {}
    /\ step = "done" => paper_tree = TreeOfPapers

CrawlInv == TypeInv /\ QueueInv /\ CreditsInv /\ ManagerInv /\ ReadInv /\ MergeInv /\ WrittenInv

-----------------------------------------------------------------------------
(* The order of std::map.                                                  *)

\* taken[k]: what is in S of the first k spellings
Taken(taken, S) ==
    /\ taken[0] = <<>>
    /\ \A k \in 1 .. Len(Names) :
          taken[k] = IF Names[k] \in S THEN Append(taken[k - 1], Names[k]) ELSE taken[k - 1]
    /\ InNameOrder(S) = taken[Len(Names)]

\* InNameOrder goes through the spellings one by one.
LEMMA InNameOrderIsTaken ==
    ASSUME NEW S
    PROVE  \E taken : Taken(taken, S)
<1>. DEFINE N == Len(Names)
            V == Seq(Range(Names))
            next(k, y) == IF Names[k] \in S THEN Append(y, Names[k]) ELSE y
            advance == [z \in (1 .. N) \X V |-> next(z[1], z[2])]
            Solves(y) == y = [k \in 0 .. N |-> IF k = 0 THEN <<>> ELSE next(k, y[k - 1])]
<1>1. N \in Nat /\ \A k \in 1 .. N : Names[k] \in Range(Names)
  BY CrawlAssumption DEF Range
<1>2. advance \in [(1 .. N) \X V -> V]
  BY <1>1
<1>3. <<>> \in V
  BY EmptySeq
<1>4. PICK g \in [0 .. N -> V] : Recursive(g, N, <<>>, advance)
  <2>. HIDE DEF N, V, advance
  <2>. QED BY <1>1, <1>2, <1>3, Recursion
<1>5. ASSUME NEW k \in 1 .. N PROVE k - 1 \in 0 .. N /\ k # 0 /\ g[k] = next(k, g[k - 1])
  <2>1. k - 1 \in 0 .. N /\ k # 0 /\ g[k - 1] \in V
    BY <1>1
  <2>2. g[k] = advance[<<k, g[k - 1]>>]
    BY <1>4 DEF Recursive
  <2>. QED BY <2>1, <2>2
<1>6. Solves(g)
  <2>1. \A k \in 0 .. N : k = 0 \/ k \in 1 .. N
    BY <1>1
  <2>. QED BY <1>4, <1>5, <2>1 DEF Recursive
<1>. DEFINE taken == CHOOSE y : Solves(y)
<1>7. Solves(taken)
  BY <1>6
<1>8. InNameOrder(S) = taken[N]
  BY DEF InNameOrder
<1>9. /\ taken[0] = <<>>
      /\ \A k \in 1 .. N : taken[k] = next(k, taken[k - 1])
  <2>1. 0 \in 0 .. N /\ \A k \in 1 .. N : k \in 0 .. N /\ k # 0
    BY <1>1
  <2>. HIDE DEF taken
  <2>. QED BY <1>7, <2>1
<1>10. Taken(taken, S)
  <2>. HIDE DEF taken
  <2>. QED BY <1>8, <1>9 DEF Taken
<1>. QED BY <1>10

\* It gives each spelling of the set once.
LEMMA InNameOrderHasAll ==
    ASSUME NEW S
    PROVE  /\ InNameOrder(S) \in Seq(S \cap Range(Names))
           /\ Range(InNameOrder(S)) = S \cap Range(Names)
           /\ IsInjective(InNameOrder(S))
<1>. DEFINE N == Len(Names)
            First(k) == {Names[l] : l \in 1 .. k}
            Good(s, k) == /\ s \in Seq(S \cap First(k)) /\ Range(s) = S \cap First(k)
                          /\ IsInjective(s)
<1>1. N \in Nat /\ DOMAIN Names = 1 .. N /\ \A k, l \in 1 .. N : Names[k] = Names[l] => k = l
  BY CrawlAssumption DEF IsInjective
<1>2. PICK taken : Taken(taken, S)
  BY InNameOrderIsTaken
<1>. DEFINE T == {k \in Nat : k <= N => Good(taken[k], k)}
<1>3. 0 \in T
  <2>1. taken[0] = <<>> /\ DOMAIN <<>> = {} /\ <<>> \in Seq(S \cap First(0)) /\ First(0) = {}
    BY <1>2, EmptySeq DEF Taken
  <2>2. Range(<<>>) = {} /\ IsInjective(<<>>)
    BY <2>1 DEF Range, IsInjective
  <2>. QED BY <2>1, <2>2
<1>4. ASSUME NEW k \in Nat, k \in T PROVE k + 1 \in T
  <2>1. SUFFICES ASSUME k + 1 <= N PROVE Good(taken[k + 1], k + 1)
    OBVIOUS
  <2>. DEFINE n == Names[k + 1]
              s == taken[k]
              t == taken[k + 1]
  <2>2. k <= N /\ k + 1 \in 1 .. N /\ k + 1 - 1 = k
    BY <1>1, <2>1
  <2>3. t = IF n \in S THEN Append(s, n) ELSE s
    BY <1>2, <2>2 DEF Taken
  <2>4. Good(s, k)
    BY <1>4, <2>2
  <2>5. First(k + 1) = First(k) \cup {n}
    <3>1. 1 .. k + 1 = 1 .. k \cup {k + 1}
      OBVIOUS
    <3>. QED BY <3>1
  <2>6. n \notin First(k)
    BY <1>1, <2>2
  <2>. HIDE DEF First, n, s, t
  <2>7. CASE n \notin S
    <3>1. t = s /\ S \cap First(k + 1) = S \cap First(k)
      BY <2>3, <2>5, <2>7
    <3>. QED BY <2>4, <3>1 DEF t
  <2>8. CASE n \in S
    <3>1. t = Append(s, n) /\ S \cap First(k + 1) = (S \cap First(k)) \cup {n}
      BY <2>3, <2>5, <2>8
    <3>2. s \in Seq(S \cap First(k + 1)) /\ n \in S \cap First(k + 1)
      BY <2>4, <3>1
    <3>3. /\ t \in Seq(S \cap First(k + 1)) /\ Len(t) = Len(s) + 1 /\ Len(s) \in Nat
          /\ DOMAIN t = 1 .. Len(s) + 1 /\ DOMAIN s = 1 .. Len(s)
          /\ t[Len(s) + 1] = n /\ \A j \in 1 .. Len(s) : t[j] = s[j]
      BY <3>1, <3>2
    <3>4. Range(t) = Range(s) \cup {n}
      BY <3>3 DEF Range
    <3>5. IsInjective(t)
      <4>1. \A j \in 1 .. Len(s) : s[j] # n
        BY <2>4, <2>6, <3>3 DEF Range
      <4>2. \A a, b \in 1 .. Len(s) : s[a] = s[b] => a = b
        BY <2>4, <3>3 DEF IsInjective
      <4>3. \A a \in 1 .. Len(s) + 1 : a = Len(s) + 1 \/ a \in 1 .. Len(s)
        BY <3>3
      <4>. QED BY <3>3, <4>1, <4>2, <4>3 DEF IsInjective
    <3>. QED BY <2>4, <3>1, <3>3, <3>4, <3>5 DEF t
  <2>. QED BY <2>7, <2>8
<1>5. Nat \subseteq T
  <2>. HIDE DEF T
  <2>. QED BY <1>3, <1>4, Induction
<1>6. Good(InNameOrder(S), N)
  <2>1. N \in T /\ N <= N
    <3>1. N \in Nat /\ N <= N
      BY <1>1
    <3>. HIDE DEF N, T
    <3>. QED BY <1>5, <3>1
  <2>2. InNameOrder(S) = taken[N]
    BY <1>2 DEF Taken
  <2>. HIDE DEF N
  <2>3. Good(taken[N], N)
    BY <2>1
  <2>. QED BY <2>2, <2>3
<1>7. First(N) = Range(Names)
  BY <1>1 DEF Range
<1>. QED BY <1>6, <1>7

-----------------------------------------------------------------------------
(* What the actions do to the papers of the spellings.                     *)

\* The names of an entry are finitely many, and spellings of the map.
LEMMA NamesAreFinite ==
    /\ IsFiniteSet(Range(Names))
    /\ \A authors \in AuthorSquares : authors \subseteq Range(Names) /\ IsFiniteSet(authors)
<1>1. Names \in [1 .. Len(Names) -> Range(Names)] /\ Len(Names) \in Nat
  BY CrawlAssumption, LenProperties
<1>2. Names \in Surjection(1 .. Len(Names), Range(Names))
  BY <1>1 DEF Surjection, Range
<1>3. IsFiniteSet(Range(Names))
  BY <1>1, <1>2, FS_Interval, FS_Surjection
<1>4. \A authors \in AuthorSquares : authors \subseteq Range(Names)
  BY CrawlAssumption
<1>. QED BY <1>3, <1>4, FS_Subset

\* The first element of a sequence without repetition is not in the rest.
LEMMA HeadIsTaken ==
    ASSUME NEW S, NEW q \in Seq(S), q # <<>>, IsInjective(q)
    PROVE  /\ Head(q) \in Range(q) /\ Head(q) \in S
           /\ Tail(q) \in Seq(S \ {Head(q)}) /\ IsInjective(Tail(q))
           /\ Range(Tail(q)) = Range(q) \ {Head(q)}
<1>. DEFINE n == Len(q)
            t == Tail(q)
<1>1. n \in Nat /\ n >= 1 /\ DOMAIN q = 1 .. n /\ \A k \in 1 .. n : q[k] \in S
  BY EmptySeq, LenProperties
<1>2. /\ Head(q) = q[1] /\ t \in Seq(S) /\ Len(t) = n - 1 /\ DOMAIN t = 1 .. n - 1
      /\ \A k \in 1 .. n - 1 : t[k] = q[k + 1]
  BY <1>1
<1>3. \A a, b \in 1 .. n : q[a] = q[b] => a = b
  BY <1>1 DEF IsInjective
<1>4. \A k \in 1 .. n - 1 : k + 1 \in 1 .. n /\ k + 1 # 1
  BY <1>1
<1>5. \A k \in 1 .. n : k = 1 \/ (k - 1 \in 1 .. n - 1 /\ (k - 1) + 1 = k)
  BY <1>1
<1>6. \A k \in 1 .. n - 1 : t[k] \in S \ {q[1]}
  BY <1>1, <1>2, <1>3, <1>4
<1>7. t \in Seq(S \ {Head(q)})
  <2>1. t = [k \in 1 .. n - 1 |-> t[k]] /\ n - 1 \in Nat
    <3>1. t \in [1 .. Len(t) -> S]
      BY <1>2, LenProperties
    <3>2. n - 1 \in Nat /\ t \in [1 .. n - 1 -> S]
      BY <1>1, <1>2, <3>1
    <3>. HIDE DEF t, n
    <3>. QED BY <3>2
  <2>2. [k \in 1 .. n - 1 |-> t[k]] \in Seq(S \ {q[1]})
    <3>. HIDE DEF t, n
    <3>. QED BY <1>6, <2>1, IsASeq
  <2>. QED BY <1>2, <2>1, <2>2
<1>8. IsInjective(t)
  <2>1. ASSUME NEW a \in 1 .. n - 1, NEW b \in 1 .. n - 1, t[a] = t[b] PROVE a = b
    <3>1. a + 1 = b + 1
      BY <1>2, <1>3, <1>4, <2>1
    <3>. QED BY <3>1
  <2>. QED BY <1>2, <2>1 DEF IsInjective
<1>9. Range(t) = Range(q) \ {q[1]}
  <2>1. ASSUME NEW x \in Range(t) PROVE x \in Range(q) \ {q[1]}
    <3>1. PICK k \in 1 .. n - 1 : x = t[k]
      BY <1>2, <2>1 DEF Range
    <3>. QED BY <1>1, <1>2, <1>4, <1>6, <3>1 DEF Range
  <2>2. ASSUME NEW x \in Range(q) \ {q[1]} PROVE x \in Range(t)
    <3>1. PICK k \in 1 .. n : x = q[k]
      BY <1>1, <2>2 DEF Range
    <3>2. k - 1 \in 1 .. n - 1 /\ x = t[k - 1]
      BY <1>2, <1>5, <2>2, <3>1
    <3>. QED BY <1>2, <3>2 DEF Range
  <2>. QED BY <2>1, <2>2
<1>10. Head(q) \in Range(q) /\ Head(q) \in S
  BY <1>1, <1>2 DEF Range
<1>. QED BY <1>2, <1>7, <1>8, <1>9, <1>10

\* A sequence is one over every set that has its elements.
LEMMA SeqOverRange ==
    ASSUME NEW S, NEW q \in Seq(S), NEW T, Range(q) \subseteq T
    PROVE  q \in Seq(T)
<1>1. q = [k \in 1 .. Len(q) |-> q[k]] /\ Len(q) \in Nat /\ DOMAIN q = 1 .. Len(q)
  BY LenProperties
<1>2. \A k \in 1 .. Len(q) : q[k] \in T
  BY <1>1 DEF Range
<1>3. [k \in 1 .. Len(q) |-> q[k]] \in Seq(T)
  BY <1>1, <1>2, IsASeq
<1>. QED BY <1>1, <1>3

\* An entry gives its paper to its authors.
LEMMA CreditGives ==
    ASSUME TypeInv, NEW paper \in Papers, NEW authors \in AuthorSquares,
           ReadEntry(paper, authors)
    PROVE  /\ DOMAIN g_names' = DOMAIN g_names \cup authors
           /\ \A n \in DOMAIN g_names' :
                 /\ PapersOf(g_names, n) \in Seq(Papers) /\ g_names'[n] \in Seq(Papers)
                 /\ g_names'[n] = IF n \in authors THEN Append(PapersOf(g_names, n), paper)
                                  ELSE g_names[n]
           /\ index \in Seq([paper : Papers, authors : AuthorSquares])
           /\ index' \in Seq([paper : Papers, authors : AuthorSquares])
           /\ DOMAIN index = 1 .. Len(index) /\ Len(index) \in Nat
           /\ DOMAIN index' = 1 .. Len(index) + 1
           /\ \A k \in DOMAIN index : index'[k] = index[k] /\ k # Len(index) + 1
           /\ index'[Len(index) + 1] = [paper |-> paper, authors |-> authors]
<1>. DEFINE e == [paper |-> paper, authors |-> authors]
            n0 == Len(index)
<1>1. e \in [paper : Papers, authors : AuthorSquares]
  OBVIOUS
<1>2. index \in Seq([paper : Papers, authors : AuthorSquares]) /\ index' = Append(index, e)
  BY DEF TypeInv, ReadEntry
<1>3. /\ index' \in Seq([paper : Papers, authors : AuthorSquares])
      /\ DOMAIN index = 1 .. n0 /\ n0 \in Nat /\ DOMAIN index' = 1 .. n0 + 1
      /\ \A k \in 1 .. n0 : index'[k] = index[k]
      /\ index'[n0 + 1] = e
  <2>. HIDE DEF e
  <2>. QED BY <1>1, <1>2, LenProperties, AppendProperties
<1>4. g_names' = Credit(g_names, paper, authors)
  BY DEF ReadEntry
<1>5. DOMAIN g_names' = DOMAIN g_names \cup authors
  BY <1>4 DEF Credit
<1>6. ASSUME NEW n \in DOMAIN g_names'
      PROVE  /\ PapersOf(g_names, n) \in Seq(Papers) /\ g_names'[n] \in Seq(Papers)
             /\ g_names'[n] = IF n \in authors THEN Append(PapersOf(g_names, n), paper)
                              ELSE g_names[n]
  <2>1. PapersOf(g_names, n) \in Seq(Papers)
    BY EmptySeq DEF PapersOf, TypeInv
  <2>2. g_names'[n] = PapersOf(g_names, n) \o (IF n \in authors THEN <<paper>> ELSE <<>>)
    BY <1>4, <1>5 DEF Credit
  <2>3. CASE n \in authors
    <3>1. PapersOf(g_names, n) \o <<paper>> = Append(PapersOf(g_names, n), paper)
      BY <2>1
    <3>. QED BY <2>1, <2>2, <2>3, <3>1, AppendProperties
  <2>4. CASE n \notin authors
    <3>1. n \in DOMAIN g_names /\ PapersOf(g_names, n) = g_names[n]
      BY <1>5, <2>4 DEF PapersOf
    <3>. QED BY <2>1, <2>2, <2>4, <3>1, ConcatEmptySeq
  <2>. QED BY <2>3, <2>4, <2>1
<1>7. \A k \in 1 .. n0 : k # n0 + 1
  BY <1>3
<1>. QED BY <1>2, <1>3, <1>5, <1>6, <1>7

\* What is known of the merge of one alternative
Moves(alt, primary) ==
    /\ alt \in DOMAIN g_names /\ alt \in Range(to_merge) /\ g_names[alt] \in Seq(Papers)
    /\ DOMAIN g_names' = (DOMAIN g_names \cup {primary}) \ {alt}
    /\ \A n \in DOMAIN g_names' :
          /\ n = primary => /\ g_names'[n] = PapersOf(g_names, n) \o g_names[alt]
                            /\ PapersOf(g_names, n) \in Seq(Papers)
          /\ n # primary => n \in DOMAIN g_names /\ g_names'[n] = g_names[n]
          /\ g_names'[n] \in Seq(Papers)
    /\ to_merge' \in Seq(DOMAIN g_names') /\ IsInjective(to_merge')
    /\ Range(to_merge') = Range(to_merge) \ {alt}

\* One turn of MergeAlternativeNames merges the first alternative that is left.
LEMMA MergeMoves ==
    ASSUME TypeInv, MergeNext
    PROVE  \E alt : Moves(alt, P(alt))
<1>. DEFINE alt == Head(to_merge)
            primary == P(alt)
<1>1. to_merge \in Seq(DOMAIN g_names) /\ to_merge # <<>> /\ IsInjective(to_merge)
  BY DEF TypeInv, MergeNext
<1>2. /\ alt \in Range(to_merge) /\ alt \in DOMAIN g_names
      /\ Tail(to_merge) \in Seq(DOMAIN g_names \ {alt}) /\ IsInjective(Tail(to_merge))
      /\ Range(Tail(to_merge)) = Range(to_merge) \ {alt}
  BY <1>1, HeadIsTaken
<1>3. /\ to_merge' = Tail(to_merge)
      /\ g_names' = [n \in (DOMAIN g_names \cup {primary}) \ {alt} |->
                        IF n = primary THEN PapersOf(g_names, n) \o g_names[alt] ELSE g_names[n]]
  BY DEF MergeNext, P
<1>. HIDE DEF alt, primary
<1>4. DOMAIN g_names' = (DOMAIN g_names \cup {primary}) \ {alt}
  BY <1>3
<1>5. g_names[alt] \in Seq(Papers)
  BY <1>2 DEF TypeInv
<1>6. ASSUME NEW n \in DOMAIN g_names'
      PROVE  /\ n = primary => /\ g_names'[n] = PapersOf(g_names, n) \o g_names[alt]
                               /\ PapersOf(g_names, n) \in Seq(Papers)
             /\ n # primary => n \in DOMAIN g_names /\ g_names'[n] = g_names[n]
             /\ g_names'[n] \in Seq(Papers)
  <2>1. CASE n = primary
    <3>1. PapersOf(g_names, n) \in Seq(Papers)
      BY EmptySeq DEF PapersOf, TypeInv
    <3>2. g_names'[n] = PapersOf(g_names, n) \o g_names[alt]
      BY <1>3, <1>4, <2>1
    <3>. QED BY <1>5, <2>1, <3>1, <3>2, ConcatProperties
  <2>2. CASE n # primary
    <3>1. n \in DOMAIN g_names /\ g_names'[n] = g_names[n]
      BY <1>3, <1>4, <2>2
    <3>. QED BY <2>2, <3>1 DEF TypeInv
  <2>. QED BY <2>1, <2>2
<1>7. to_merge' \in Seq(DOMAIN g_names')
  <2>1. Range(to_merge') \subseteq DOMAIN g_names \ {alt}
    <3>1. \A k \in DOMAIN to_merge' : to_merge'[k] \in DOMAIN g_names \ {alt}
      BY <1>2, <1>3
    <3>. QED BY <3>1 DEF Range
  <2>2. Range(to_merge') \subseteq DOMAIN g_names'
    BY <1>4, <2>1
  <2>. QED BY <1>2, <1>3, <2>2, SeqOverRange
<1>8. Moves(alt, primary)
  BY <1>2, <1>3, <1>4, <1>5, <1>6, <1>7 DEF Moves
<1>. QED BY <1>8 DEF primary

-----------------------------------------------------------------------------
(* The type invariant.                                                     *)

\* Nothing but papers is in the lists of papers, and what is left to merge is a
\* spelling that has such a list, each at most once: MergeAlternativeNames never
\* looks for one that is gone.
THEOREM TypeCorrect == Spec => []TypeInv
<1>1. ASSUME Init PROVE TypeInv
  <2>1. index = <<>> /\ g_names = <<>> /\ to_merge = <<>> /\ step = "read" /\ DOMAIN <<>> = {}
    BY <1>1 DEF Init
  <2>. QED BY <2>1, EmptySeq, FS_EmptySet DEF TypeInv, IsInjective
<1>2. ASSUME TypeInv, [Next]_vars PROVE TypeInv'
  <2>1. CASE UNCHANGED vars
    BY <1>2, <2>1 DEF TypeInv, vars
  <2>2. ASSUME NEW paper \in Papers, NEW authors \in AuthorSquares, ReadEntry(paper, authors)
        PROVE  TypeInv'
    <3>1. DOMAIN g_names' = DOMAIN g_names \cup authors
      BY <1>2, <2>2, CreditGives
    <3>2. /\ \A n \in DOMAIN g_names' : g_names'[n] \in Seq(Papers)
          /\ index' \in Seq([paper : Papers, authors : AuthorSquares])
      BY <1>2, <2>2, CreditGives
    <3>3. IsFiniteSet(DOMAIN g_names')
      BY <1>2, <3>1, NamesAreFinite, FS_Union DEF TypeInv
    <3>4. step' = step /\ to_merge' = to_merge
      BY <2>2 DEF ReadEntry
    <3>5. to_merge \in Seq(DOMAIN g_names')
      <4>1. \A k \in DOMAIN to_merge : to_merge[k] \in DOMAIN g_names'
        BY <1>2, <3>1 DEF TypeInv
      <4>2. Range(to_merge) \subseteq DOMAIN g_names'
        BY <4>1 DEF Range
      <4>. QED BY <1>2, <4>2, SeqOverRange DEF TypeInv
    <3>. QED BY <1>2, <3>2, <3>3, <3>4, <3>5 DEF TypeInv
  <2>3. CASE AddNames
    <3>1. step' = "unite" /\ UNCHANGED <<index, g_names, to_merge>>
      BY <2>3 DEF AddNames
    <3>. QED BY <1>2, <3>1 DEF TypeInv
  <2>4. CASE Compare
    <3>1. UNCHANGED <<step, index, g_names, to_merge>>
      BY <2>4 DEF Compare
    <3>. QED BY <1>2, <3>1 DEF TypeInv
  <2>5. CASE WriteHeaders
    <3>1. step' = "merge" /\ to_merge' = ToMerge /\ UNCHANGED <<index, g_names>>
      BY <2>5 DEF WriteHeaders
    <3>. DEFINE S == {n \in DOMAIN g_names : GetPrimaryName(m_names, m_parent, n) # n}
    <3>2. ToMerge = InNameOrder(S)
      BY DEF ToMerge
    <3>3. ToMerge \in Seq(S \cap Range(Names)) /\ IsInjective(ToMerge)
      BY <3>2, InNameOrderHasAll
    <3>4. \A k \in DOMAIN ToMerge : ToMerge[k] \in DOMAIN g_names
      BY <3>3
    <3>5. Range(ToMerge) \subseteq DOMAIN g_names
      BY <3>4 DEF Range
    <3>6. ToMerge \in Seq(DOMAIN g_names)
      BY <3>3, <3>5, SeqOverRange
    <3>. QED BY <1>2, <3>1, <3>3, <3>6 DEF TypeInv
  <2>6. CASE MergeNext
    <3>1. step' = step /\ index' = index
      BY <2>6 DEF MergeNext
    <3>2. PICK alt : Moves(alt, P(alt))
      BY <1>2, <2>6, MergeMoves
    <3>3. IsFiniteSet(DOMAIN g_names')
      <4>1. IsFiniteSet(DOMAIN g_names \cup {P(alt)})
        BY <1>2, FS_AddElement DEF TypeInv
      <4>. QED BY <3>2, <4>1, FS_Subset DEF Moves
    <3>. QED BY <1>2, <3>1, <3>2, <3>3 DEF TypeInv, Moves
  <2>7. CASE WriteTrees
    <3>1. step' \in {"threw", "done"} /\ UNCHANGED <<index, g_names, to_merge>>
      BY <2>7 DEF WriteTrees
    <3>. QED BY <1>2, <3>1 DEF TypeInv
  <2>. QED BY <1>2, <2>1, <2>2, <2>3, <2>4, <2>5, <2>6, <2>7 DEF Next
<1>. QED BY <1>1, <1>2, PTL DEF Spec

\* The list of what to merge is made once and only gets shorter.
LEMMA QueueStep ==
    ASSUME TypeInv, QueueInv, [Next]_vars
    PROVE  QueueInv'
<1>1. CASE UNCHANGED vars
  BY <1>1 DEF QueueInv, P, vars
<1>2. ASSUME NEW paper \in Papers, NEW authors \in AuthorSquares, ReadEntry(paper, authors)
      PROVE  QueueInv'
  BY <1>2 DEF ReadEntry, QueueInv, P
<1>3. CASE AddNames
  <2>1. to_merge' = <<>> /\ step' = "unite"
    BY <1>3 DEF AddNames, QueueInv
  <2>2. Range(to_merge') = {}
    BY <2>1 DEF Range
  <2>. QED BY <2>1, <2>2 DEF QueueInv
<1>4. CASE Compare
  <2>1. to_merge' = <<>> /\ step' = "unite"
    BY <1>4 DEF Compare, QueueInv
  <2>2. Range(to_merge') = {}
    BY <2>1 DEF Range
  <2>. QED BY <2>1, <2>2 DEF QueueInv
<1>5. CASE WriteHeaders
  <2>1. step' = "merge" /\ to_merge' = ToMerge /\ UNCHANGED <<m_names, m_parent>>
    BY <1>5 DEF WriteHeaders
  <2>. DEFINE S == {n \in DOMAIN g_names : GetPrimaryName(m_names, m_parent, n) # n}
  <2>2. Range(ToMerge) = S \cap Range(Names)
    BY InNameOrderHasAll DEF ToMerge
  <2>3. \A n \in Range(to_merge') : P(n)' # n
    BY <2>1, <2>2 DEF P
  <2>. QED BY <2>1, <2>3 DEF QueueInv
<1>6. CASE MergeNext
  <2>1. step' = "merge" /\ UNCHANGED <<m_names, m_parent>>
    BY <1>6 DEF MergeNext
  <2>2. PICK alt : Moves(alt, P(alt))
    BY <1>6, MergeMoves
  <2>3. Range(to_merge') \subseteq Range(to_merge)
    BY <2>2 DEF Moves
  <2>. QED BY <2>1, <2>3 DEF QueueInv, P
<1>7. CASE WriteTrees
  <2>1. step' \notin {"read", "unite"} /\ UNCHANGED <<to_merge, m_names, m_parent>>
    BY <1>7 DEF WriteTrees
  <2>. QED BY <2>1 DEF QueueInv, P
<1>. QED BY <1>1, <1>2, <1>3, <1>4, <1>5, <1>6, <1>7 DEF Next

\* MergeAlternativeNames never merges a name into itself.
LEMMA QueueCorrect == Spec => []QueueInv
<1>1. ASSUME Init PROVE QueueInv
  <2>1. to_merge = <<>>
    BY <1>1 DEF Init
  <2>. QED BY <2>1 DEF QueueInv, Range
<1>2. QueueInv /\ TypeInv /\ [Next]_vars => QueueInv'
  BY QueueStep
<1>. QED BY <1>1, <1>2, TypeCorrect, PTL DEF Spec

-----------------------------------------------------------------------------
(* No paper is lost and none is doubled.                                   *)

\* The credits and the mentions of a paper, one by one, before and after a step.
LEMMA CreditsAre ==
    ASSUME NEW p
    PROVE  /\ \A c : c \in Credits(p) <=>
                 \E n \in DOMAIN g_names : \E k \in DOMAIN g_names[n] :
                    c = <<n, k>> /\ g_names[n][k] = p
           /\ \A c : c \in Credits(p)' <=>
                 \E n \in DOMAIN g_names' : \E k \in DOMAIN g_names'[n] :
                    c = <<n, k>> /\ g_names'[n][k] = p
           /\ \A c : c \in Mentions(p) <=>
                 \E k \in DOMAIN index : \E a \in index[k].authors :
                    c = <<k, a>> /\ index[k].paper = p
           /\ \A c : c \in Mentions(p)' <=>
                 \E k \in DOMAIN index' : \E a \in index'[k].authors :
                    c = <<k, a>> /\ index'[k].paper = p
<1>1. \A c : c \in Credits(p) <=>
          \E n \in DOMAIN g_names : c \in {n} \X {k \in DOMAIN g_names[n] : g_names[n][k] = p}
  BY DEF Credits
<1>2. \A c : c \in Credits(p)' <=>
          \E n \in DOMAIN g_names' : c \in {n} \X {k \in DOMAIN g_names'[n] : g_names'[n][k] = p}
  BY DEF Credits
<1>3. \A c : c \in Mentions(p) <=>
          \E k \in DOMAIN index : index[k].paper = p /\ c \in {k} \X index[k].authors
  BY DEF Mentions
<1>4. \A c : c \in Mentions(p)' <=>
          \E k \in DOMAIN index' : index'[k].paper = p /\ c \in {k} \X index'[k].authors
  BY DEF Mentions
<1>5. \A n, S, c : c \in {n} \X S <=> \E k \in S : c = <<n, k>>
  OBVIOUS
<1>6. \A c : c \in Credits(p) <=>
          \E n \in DOMAIN g_names : \E k \in DOMAIN g_names[n] : c = <<n, k>> /\ g_names[n][k] = p
  BY <1>1, <1>5
<1>7. \A c : c \in Credits(p)' <=>
          \E n \in DOMAIN g_names' : \E k \in DOMAIN g_names'[n] :
             c = <<n, k>> /\ g_names'[n][k] = p
  BY <1>2, <1>5
<1>8. \A c : c \in Mentions(p) <=>
          \E k \in DOMAIN index : \E a \in index[k].authors : c = <<k, a>> /\ index[k].paper = p
  BY <1>3, <1>5
<1>9. \A c : c \in Mentions(p)' <=>
          \E k \in DOMAIN index' : \E a \in index'[k].authors :
             c = <<k, a>> /\ index'[k].paper = p
  BY <1>4, <1>5
<1>. QED BY <1>6, <1>7, <1>8, <1>9

\* The members of S with a mark of their own are as many as S.
LEMMA MarkedAreAsMany ==
    ASSUME NEW S, IsFiniteSet(S), NEW f, DOMAIN f = S,
           \A x, y \in S : f[x] = f[y] => x = y
    PROVE  /\ IsFiniteSet({f[x] : x \in S})
           /\ Cardinality({f[x] : x \in S}) = Cardinality(S)
<1>. DEFINE T == {f[x] : x \in S}
            g == [x \in S |-> f[x]]
<1>1. g \in Bijection(S, T)
  BY DEF Bijection, Injection, Surjection, IsInjective
<1>2. ExistsBijection(S, T)
  BY <1>1 DEF ExistsBijection
<1>. QED
  <2>. HIDE DEF T
  <2>1. IsFiniteSet(T) /\ Cardinality(T) = Cardinality(S)
    BY <1>2, FS_Bijection
  <2>. QED BY <2>1 DEF T

\* What joins two finite sets to disjoint ones of equal size keeps the sizes equal.
LEMMA BothGrow ==
    ASSUME NEW A, NEW B, NEW C, NEW D, NEW E, IsFiniteSet(A), IsFiniteSet(B),
           IsFiniteSet(C), IsFiniteSet(D), A \cap C = {}, B \cap D = {},
           Cardinality(A) = Cardinality(B), Cardinality(C) = E, Cardinality(D) = E
    PROVE  /\ IsFiniteSet(A \cup C) /\ IsFiniteSet(B \cup D)
           /\ Cardinality(A \cup C) = Cardinality(B \cup D)
<1>1. IsFiniteSet(A \cup C) /\ IsFiniteSet(B \cup D)
  BY FS_Union
<1>2. /\ Cardinality(A \cup C) = Cardinality(A) + Cardinality(C) - Cardinality(A \cap C)
      /\ Cardinality(B \cup D) = Cardinality(B) + Cardinality(D) - Cardinality(B \cap D)
  BY FS_Union
<1>3. Cardinality(A \cap C) = 0 /\ Cardinality(B \cap D) = 0
  BY FS_EmptySet
<1>. QED BY <1>1, <1>2, <1>3

\* The credits and the mentions grow by the authors of the entry.
LEMMA ReadCredits ==
    ASSUME TypeInv, CreditsInv, NEW paper \in Papers, NEW authors \in AuthorSquares,
           ReadEntry(paper, authors)
    PROVE  CreditsInv'
<1>. DEFINE L(n) == Len(PapersOf(g_names, n))
            at == Len(index) + 1
<1>1. /\ DOMAIN g_names' = DOMAIN g_names \cup authors
      /\ \A n \in DOMAIN g_names' :
            /\ PapersOf(g_names, n) \in Seq(Papers) /\ g_names'[n] \in Seq(Papers)
            /\ g_names'[n] = IF n \in authors THEN Append(PapersOf(g_names, n), paper)
                             ELSE g_names[n]
  BY CreditGives
<1>2. /\ DOMAIN index = 1 .. Len(index) /\ Len(index) \in Nat /\ DOMAIN index' = 1 .. at
      /\ \A k \in DOMAIN index : index'[k] = index[k] /\ k # at
      /\ index'[at] = [paper |-> paper, authors |-> authors]
  BY CreditGives
<1>3. IsFiniteSet(authors)
  BY NamesAreFinite
<1>4. ASSUME NEW n \in DOMAIN g_names'
      PROVE  /\ L(n) \in Nat /\ DOMAIN PapersOf(g_names, n) = 1 .. L(n)
             /\ n \in authors =>
                  /\ DOMAIN g_names'[n] = 1 .. L(n) + 1 /\ g_names'[n][L(n) + 1] = paper
                  /\ \A k \in 1 .. L(n) : g_names'[n][k] = PapersOf(g_names, n)[k]
  <2>1. /\ PapersOf(g_names, n) \in Seq(Papers) /\ L(n) \in Nat
        /\ DOMAIN PapersOf(g_names, n) = 1 .. L(n)
    BY <1>1, LenProperties
  <2>. DEFINE q == PapersOf(g_names, n)
  <2>2. CASE n \in authors
    <3>1. g_names'[n] = Append(q, paper) /\ q \in Seq(Papers)
      BY <1>1, <2>2
    <3>. HIDE DEF q
    <3>2. /\ DOMAIN Append(q, paper) = 1 .. Len(q) + 1 /\ Append(q, paper)[Len(q) + 1] = paper
          /\ \A k \in 1 .. Len(q) : Append(q, paper)[k] = q[k]
      BY <3>1
    <3>. QED BY <2>1, <3>1, <3>2 DEF q
  <2>. QED BY <2>1, <2>2
<1>5. \A n : n \in DOMAIN g_names => PapersOf(g_names, n) = g_names[n]
  BY DEF PapersOf
<1>6. \A n : n \notin DOMAIN g_names => PapersOf(g_names, n) = <<>>
  BY DEF PapersOf
<1>7. SUFFICES ASSUME NEW p \in Papers
               PROVE  /\ IsFiniteSet(Credits(p)') /\ IsFiniteSet(Mentions(p)')
                      /\ Cardinality(Credits(p)') = Cardinality(Mentions(p)')
  BY DEF CreditsInv
<1>8. /\ IsFiniteSet(Credits(p)) /\ IsFiniteSet(Mentions(p))
      /\ Cardinality(Credits(p)) = Cardinality(Mentions(p))
  BY DEF CreditsInv
<1>. DEFINE new == [n \in authors |-> <<n, L(n) + 1>>]
            New == {new[n] : n \in authors}
            entry == [a \in authors |-> <<at, a>>]
            Entry == {entry[a] : a \in authors}
<1>9. /\ IsFiniteSet(New) /\ Cardinality(New) = Cardinality(authors)
      /\ IsFiniteSet(Entry) /\ Cardinality(Entry) = Cardinality(authors)
  <2>1. \A x, y \in authors : new[x] = new[y] => x = y
    OBVIOUS
  <2>2. \A x, y \in authors : entry[x] = entry[y] => x = y
    OBVIOUS
  <2>3. DOMAIN new = authors /\ DOMAIN entry = authors
    OBVIOUS
  <2>. HIDE DEF new, entry
  <2>. QED BY <1>3, <2>1, <2>2, <2>3, MarkedAreAsMany
<1>10. \A c : c \in New <=> \E n \in authors : c = <<n, L(n) + 1>>
  OBVIOUS
<1>11. \A c : c \in Entry <=> \E a \in authors : c = <<at, a>>
  OBVIOUS
<1>. HIDE DEF New, Entry, new, entry
<1>12. ASSUME NEW n, NEW k
       PROVE  <<n, k>> \in Credits(p)' <=>
                 \/ <<n, k>> \in Credits(p)
                 \/ p = paper /\ n \in authors /\ k = L(n) + 1
  <2>1. <<n, k>> \in Credits(p)' <=>
            n \in DOMAIN g_names' /\ k \in DOMAIN g_names'[n] /\ g_names'[n][k] = p
    BY CreditsAre
  <2>2. <<n, k>> \in Credits(p) <=>
            n \in DOMAIN g_names /\ k \in DOMAIN g_names[n] /\ g_names[n][k] = p
    BY CreditsAre
  <2>3. CASE n \notin DOMAIN g_names'
    BY <1>1, <2>1, <2>2, <2>3
  <2>4. CASE n \in DOMAIN g_names' /\ n \notin authors
    BY <1>1, <2>1, <2>2, <2>4
  <2>5. CASE n \in authors /\ n \in DOMAIN g_names
    <3>1. /\ L(n) \in Nat /\ DOMAIN g_names[n] = 1 .. L(n) /\ DOMAIN g_names'[n] = 1 .. L(n) + 1
          /\ g_names'[n][L(n) + 1] = paper
          /\ \A j \in 1 .. L(n) : g_names'[n][j] = g_names[n][j]
      BY <1>1, <1>4, <1>5, <2>5
    <3>2. k \in 1 .. L(n) + 1 <=> k \in 1 .. L(n) \/ k = L(n) + 1
      BY <3>1
    <3>. QED BY <1>1, <2>1, <2>2, <2>5, <3>1, <3>2
  <2>6. CASE n \in authors /\ n \notin DOMAIN g_names
    <3>1. PapersOf(g_names, n) = <<>> /\ L(n) = 0
      BY <1>6, <2>6, EmptySeq
    <3>2. DOMAIN g_names'[n] = 1 .. 1 /\ g_names'[n][1] = paper
      BY <1>1, <1>4, <2>6, <3>1
    <3>3. k \in 1 .. 1 <=> k = 1
      OBVIOUS
    <3>. QED BY <1>1, <2>1, <2>2, <2>6, <3>1, <3>2, <3>3
  <2>. QED BY <2>3, <2>4, <2>5, <2>6
<1>13. ASSUME NEW k, NEW a
       PROVE  <<k, a>> \in Mentions(p)' <=>
                 \/ <<k, a>> \in Mentions(p)
                 \/ p = paper /\ k = at /\ a \in authors
  <2>1. <<k, a>> \in Mentions(p)' <=>
            k \in DOMAIN index' /\ a \in index'[k].authors /\ index'[k].paper = p
    BY CreditsAre
  <2>2. <<k, a>> \in Mentions(p) <=>
            k \in DOMAIN index /\ a \in index[k].authors /\ index[k].paper = p
    BY CreditsAre
  <2>3. k \in DOMAIN index' <=> k \in DOMAIN index \/ k = at
    BY <1>2
  <2>. QED BY <1>2, <2>1, <2>2, <2>3
<1>14. /\ \A c \in Credits(p)' \cup Credits(p) \cup New : \E n, k : c = <<n, k>>
       /\ \A c \in Mentions(p)' \cup Mentions(p) \cup Entry : \E k, a : c = <<k, a>>
  BY <1>10, <1>11, CreditsAre
<1>15. CASE p # paper
  <2>1. \A c : c \in Credits(p)' <=> c \in Credits(p)
    <3>1. \A n, k : <<n, k>> \in Credits(p)' <=> <<n, k>> \in Credits(p)
      BY <1>12, <1>15
    <3>. QED BY <1>14, <3>1
  <2>2. \A c : c \in Mentions(p)' <=> c \in Mentions(p)
    <3>1. \A k, a : <<k, a>> \in Mentions(p)' <=> <<k, a>> \in Mentions(p)
      BY <1>13, <1>15
    <3>. QED BY <1>14, <3>1
  <2>3. Credits(p)' = Credits(p) /\ Mentions(p)' = Mentions(p)
    BY <2>1, <2>2
  <2>. QED BY <1>8, <2>3
<1>16. CASE p = paper
  <2>1. Credits(p)' = Credits(p) \cup New
    BY <1>10, <1>12, <1>14, <1>16
  <2>2. Mentions(p)' = Mentions(p) \cup Entry
    BY <1>11, <1>13, <1>14, <1>16
  <2>3. Credits(p) \cap New = {}
    <3>1. SUFFICES ASSUME NEW n \in authors, <<n, L(n) + 1>> \in Credits(p) PROVE FALSE
      BY <1>10
    <3>2. n \in DOMAIN g_names /\ L(n) + 1 \in DOMAIN g_names[n]
      BY <3>1, CreditsAre
    <3>3. L(n) \in Nat /\ L(n) + 1 \in 1 .. L(n)
      BY <1>1, <1>4, <1>5, <3>2
    <3>. QED BY <3>3
  <2>4. Mentions(p) \cap Entry = {}
    <3>1. SUFFICES ASSUME NEW a \in authors, <<at, a>> \in Mentions(p) PROVE FALSE
      BY <1>11
    <3>2. at \in DOMAIN index
      BY <3>1, CreditsAre
    <3>. QED BY <1>2, <3>2
  <2>. QED BY <1>8, <1>9, <2>1, <2>2, <2>3, <2>4, BothGrow
<1>. QED BY <1>15, <1>16

\* The credits of an alternative become credits of its primary.
LEMMA MergeCredits ==
    ASSUME TypeInv, QueueInv, CreditsInv, MergeNext
    PROVE  CreditsInv'
<1>1. PICK alt : Moves(alt, P(alt))
  BY MergeMoves
<1>. DEFINE q == P(alt)
            Q == PapersOf(g_names, q)
            A == g_names[alt]
            L == Len(Q)
<1>2. q # alt
  BY <1>1 DEF Moves, QueueInv
<1>3. /\ DOMAIN g_names' = (DOMAIN g_names \cup {q}) \ {alt} /\ alt \in DOMAIN g_names
      /\ g_names'[q] = Q \o A /\ Q \in Seq(Papers) /\ A \in Seq(Papers)
      /\ \A n \in DOMAIN g_names' : n # q => n \in DOMAIN g_names /\ g_names'[n] = g_names[n]
  BY <1>1, <1>2 DEF Moves
<1>4. q \in DOMAIN g_names => Q = g_names[q]
  BY DEF PapersOf
<1>5. q \notin DOMAIN g_names => Q = <<>>
  BY DEF PapersOf
<1>. HIDE DEF q, Q, A
<1>6. /\ L \in Nat /\ Len(A) \in Nat /\ DOMAIN Q = 1 .. L /\ DOMAIN A = 1 .. Len(A)
      /\ DOMAIN g_names'[q] = 1 .. L + Len(A)
      /\ \A k \in 1 .. L : g_names'[q][k] = Q[k]
      /\ \A k \in 1 .. Len(A) : g_names'[q][L + k] = A[k]
  BY <1>3
<1>7. q \in DOMAIN g_names \/ L = 0
  BY <1>5, EmptySeq
<1>8. SUFFICES ASSUME NEW p \in Papers
               PROVE  /\ IsFiniteSet(Credits(p)') /\ IsFiniteSet(Mentions(p)')
                      /\ Cardinality(Credits(p)') = Cardinality(Mentions(p)')
  BY DEF CreditsInv
<1>9. /\ IsFiniteSet(Credits(p)) /\ IsFiniteSet(Mentions(p))
      /\ Cardinality(Credits(p)) = Cardinality(Mentions(p))
  BY DEF CreditsInv
<1>10. Mentions(p)' = Mentions(p)
  BY DEF MergeNext, Mentions
<1>. DEFINE C == Credits(p)
            moved == [c \in C |-> IF c[1] = alt THEN <<q, L + c[2]>> ELSE c]
<1>11. /\ \A n, k : <<n, k>> \in C <=>
             n \in DOMAIN g_names /\ k \in DOMAIN g_names[n] /\ g_names[n][k] = p
       /\ \A n, k : <<n, k>> \in Credits(p)' <=>
             n \in DOMAIN g_names' /\ k \in DOMAIN g_names'[n] /\ g_names'[n][k] = p
       /\ \A c \in C \cup Credits(p)' : \E n, k : c = <<n, k>>
  BY CreditsAre
<1>12. ASSUME NEW n, NEW k, <<n, k>> \in C
       PROVE  /\ n = alt => moved[<<n, k>>] = <<q, L + k>> /\ k \in 1 .. Len(A) /\ A[k] = p
              /\ n # alt => moved[<<n, k>>] = <<n, k>>
              /\ n = q => k \in 1 .. L /\ Q[k] = p
  <2>1. <<n, k>>[1] = n /\ <<n, k>>[2] = k
    OBVIOUS
  <2>2. n = alt => moved[<<n, k>>] = <<q, L + k>>
    BY <1>12, <2>1
  <2>3. n # alt => moved[<<n, k>>] = <<n, k>>
    BY <1>12, <2>1
  <2>4. n \in DOMAIN g_names /\ k \in DOMAIN g_names[n] /\ g_names[n][k] = p
    BY <1>11, <1>12
  <2>5. n = alt => k \in 1 .. Len(A) /\ A[k] = p
    BY <1>6, <2>4 DEF A
  <2>6. n = q => k \in 1 .. L /\ Q[k] = p
    BY <1>4, <1>6, <2>4
  <2>. QED BY <2>2, <2>3, <2>5, <2>6
<1>13. ASSUME NEW c \in C PROVE moved[c] \in Credits(p)'
  <2>1. PICK n, k : c = <<n, k>>
    BY <1>11
  <2>2. n \in DOMAIN g_names /\ k \in DOMAIN g_names[n] /\ g_names[n][k] = p
    BY <1>11, <2>1
  <2>3. CASE n = alt
    <3>1. moved[c] = <<q, L + k>> /\ k \in 1 .. Len(A) /\ A[k] = p
      BY <1>12, <2>1, <2>3
    <3>2. L + k \in 1 .. L + Len(A) /\ g_names'[q][L + k] = p /\ q \in DOMAIN g_names'
      BY <1>2, <1>3, <1>6, <3>1
    <3>. QED BY <1>6, <1>11, <3>1, <3>2
  <2>4. CASE n = q
    <3>1. moved[c] = <<q, k>> /\ k \in 1 .. L /\ Q[k] = p
      BY <1>2, <1>12, <2>1, <2>4
    <3>2. k \in 1 .. L + Len(A) /\ g_names'[q][k] = p /\ q \in DOMAIN g_names'
      BY <1>2, <1>3, <1>6, <3>1
    <3>. QED BY <1>6, <1>11, <3>1, <3>2
  <2>5. CASE n # alt /\ n # q
    <3>1. moved[c] = <<n, k>>
      BY <1>12, <2>1, <2>5
    <3>. QED BY <1>3, <1>11, <2>2, <2>5, <3>1
  <2>. QED BY <2>3, <2>4, <2>5
<1>14. ASSUME NEW d \in Credits(p)' PROVE \E c \in C : d = moved[c]
  <2>1. PICK n, k : d = <<n, k>>
    BY <1>11
  <2>2. n \in DOMAIN g_names' /\ k \in DOMAIN g_names'[n] /\ g_names'[n][k] = p
    BY <1>11, <2>1
  <2>3. CASE n # q
    <3>1. n # alt /\ <<n, k>> \in C
      BY <1>3, <1>11, <2>2, <2>3
    <3>2. moved[<<n, k>>] = d
      BY <1>12, <2>1, <3>1
    <3>. QED BY <3>1, <3>2
  <2>4. CASE n = q /\ k \in 1 .. L
    <3>1. q \in DOMAIN g_names /\ k \in DOMAIN g_names[q] /\ g_names[q][k] = p
      BY <1>4, <1>6, <1>7, <2>2, <2>4
    <3>2. <<q, k>> \in C
      BY <1>11, <3>1
    <3>3. moved[<<q, k>>] = d
      BY <1>2, <1>12, <2>1, <2>4, <3>2
    <3>. QED BY <3>2, <3>3
  <2>5. CASE n = q /\ k \notin 1 .. L
    <3>1. k \in 1 .. L + Len(A) /\ k - L \in 1 .. Len(A) /\ L + (k - L) = k
      BY <1>6, <2>2, <2>5
    <3>2. A[k - L] = p /\ k - L \in DOMAIN A
      BY <1>6, <2>2, <2>5, <3>1
    <3>3. <<alt, k - L>> \in C
      BY <1>3, <1>11, <3>2 DEF A
    <3>4. moved[<<alt, k - L>>] = d
      BY <1>12, <2>1, <2>5, <3>1, <3>3
    <3>. QED BY <3>3, <3>4
  <2>. QED BY <2>3, <2>4, <2>5
<1>15. ASSUME NEW c \in C, NEW d \in C, moved[c] = moved[d] PROVE c = d
  <2>1. PICK n, k : c = <<n, k>>
    BY <1>11
  <2>2. PICK m, j : d = <<m, j>>
    BY <1>11
  <2>3. CASE n = alt /\ m = alt
    <3>1. <<q, L + k>> = <<q, L + j>> /\ k \in 1 .. Len(A) /\ j \in 1 .. Len(A)
      BY <1>12, <1>15, <2>1, <2>2, <2>3
    <3>2. L + k = L + j
      BY <3>1
    <3>. QED BY <1>6, <2>1, <2>2, <2>3, <3>1, <3>2
  <2>4. CASE n = alt /\ m # alt
    <3>1. <<q, L + k>> = <<m, j>> /\ k \in 1 .. Len(A)
      BY <1>12, <1>15, <2>1, <2>2, <2>4
    <3>2. m = q /\ j = L + k
      BY <3>1
    <3>3. j \in 1 .. L
      BY <1>12, <2>2, <3>2
    <3>. QED BY <1>6, <3>1, <3>2, <3>3
  <2>5. CASE n # alt /\ m = alt
    <3>1. <<n, k>> = <<q, L + j>> /\ j \in 1 .. Len(A)
      BY <1>12, <1>15, <2>1, <2>2, <2>5
    <3>2. n = q /\ k = L + j
      BY <3>1
    <3>3. k \in 1 .. L
      BY <1>12, <2>1, <3>2
    <3>. QED BY <1>6, <3>1, <3>2, <3>3
  <2>6. CASE n # alt /\ m # alt
    BY <1>12, <1>15, <2>1, <2>2, <2>6
  <2>. QED BY <2>3, <2>4, <2>5, <2>6
<1>. HIDE DEF C
<1>16. DOMAIN moved = C
  OBVIOUS
<1>. HIDE DEF moved
<1>17. Credits(p)' = {moved[c] : c \in C}
  BY <1>13, <1>14
<1>18. IsFiniteSet(Credits(p)') /\ Cardinality(Credits(p)') = Cardinality(C)
  BY <1>9, <1>15, <1>16, <1>17, MarkedAreAsMany DEF C
<1>. QED BY <1>9, <1>10, <1>18 DEF C

\* crawl.cpp credits every author of an entry with its paper, and merging the
\* spellings of a person passes the credits on: there are always as many as the
\* index has mentions of the paper.
THEOREM CreditsKept == Spec => []CreditsAreKept
<1>1. ASSUME Init PROVE CreditsInv
  <2>1. g_names = <<>> /\ index = <<>> /\ DOMAIN <<>> = {}
    BY <1>1 DEF Init
  <2>2. \A p : Credits(p) = {} /\ Mentions(p) = {}
    BY <2>1, CreditsAre
  <2>. QED BY <2>2, FS_EmptySet DEF CreditsInv
<1>2. ASSUME TypeInv, QueueInv, CreditsInv, [Next]_vars PROVE CreditsInv'
  <2>1. CASE UNCHANGED <<index, g_names>>
    BY <1>2, <2>1 DEF CreditsInv, Credits, Mentions
  <2>2. ASSUME NEW paper \in Papers, NEW authors \in AuthorSquares, ReadEntry(paper, authors)
        PROVE  CreditsInv'
    BY <1>2, <2>2, ReadCredits
  <2>3. CASE MergeNext
    BY <1>2, <2>3, MergeCredits
  <2>. QED BY <1>2, <2>1, <2>2, <2>3
           DEF Next, vars, AddNames, Compare, WriteHeaders, WriteTrees
<1>3. CreditsInv => CreditsAreKept
  BY DEF CreditsInv, CreditsAreKept
<1>. QED BY <1>1, <1>2, <1>3, TypeCorrect, QueueCorrect, PTL DEF Spec

-----------------------------------------------------------------------------
(* What is read.                                                           *)

\* What the entries of the index are made of.
LEMMA AuthorsAreNames ==
    ASSUME TypeInv
    PROVE  /\ AllAuthors \subseteq Range(Names)
           /\ \A k \in DOMAIN index :
                 index[k].paper \in Papers /\ index[k].authors \in AuthorSquares
<1>1. \A k \in DOMAIN index : index[k] \in [paper : Papers, authors : AuthorSquares]
  <2>. DEFINE S == [paper : Papers, authors : AuthorSquares]
  <2>1. index \in Seq(S)
    BY DEF TypeInv
  <2>. HIDE DEF S
  <2>2. \A k \in DOMAIN index : index[k] \in S
    BY <2>1, LenProperties
  <2>. QED BY <2>2 DEF S
<1>2. \A k \in DOMAIN index : index[k].paper \in Papers /\ index[k].authors \in AuthorSquares
  BY <1>1
<1>3. \A k \in DOMAIN index : index[k].authors \subseteq Range(Names)
  BY <1>2, NamesAreFinite
<1>. QED BY <1>2, <1>3 DEF AllAuthors

\* Reading an entry keeps the lists of the authors and the index in agreement.
LEMMA ReadStep ==
    ASSUME TypeInv, ReadInv, [Next]_vars
    PROVE  ReadInv'
<1>1. ASSUME NEW paper \in Papers, NEW authors \in AuthorSquares, ReadEntry(paper, authors)
      PROVE  ReadInv'
  <2>1. /\ DOMAIN g_names' = DOMAIN g_names \cup authors
        /\ \A n \in DOMAIN g_names' :
              /\ PapersOf(g_names, n) \in Seq(Papers)
              /\ g_names'[n] = IF n \in authors THEN Append(PapersOf(g_names, n), paper)
                               ELSE g_names[n]
    BY <1>1, CreditGives
  <2>2. /\ DOMAIN index = 1 .. Len(index) /\ Len(index) \in Nat
        /\ DOMAIN index' = 1 .. Len(index) + 1
        /\ \A k \in DOMAIN index : index'[k] = index[k]
        /\ index'[Len(index) + 1] = [paper |-> paper, authors |-> authors]
    BY <1>1, CreditGives
  <2>. DEFINE at == Len(index) + 1
  <2>3. DOMAIN index' = DOMAIN index \cup {at}
    BY <2>2
  <2>4. index'[at].authors = authors /\ index'[at].paper = paper
    BY <2>2
  <2>. HIDE DEF at
  <2>5. AllAuthors' = AllAuthors \cup authors
    BY <2>2, <2>3, <2>4 DEF AllAuthors
  <2>6. DOMAIN g_names = AllAuthors /\ \A p \in Papers : ReverseAuthorPaperMap(p) = AuthorsOf(p)
    BY <1>1 DEF ReadEntry, ReadInv
  <2>7. ASSUME NEW p \in Papers PROVE ReverseAuthorPaperMap(p)' = AuthorsOf(p)'
    <3>1. ASSUME NEW n
          PROVE  n \in AuthorsOf(p)' <=> n \in AuthorsOf(p) \/ (p = paper /\ n \in authors)
      <4>1. n \in AuthorsOf(p)' <=>
                \E k \in DOMAIN index' : index'[k].paper = p /\ n \in index'[k].authors
        BY DEF AuthorsOf
      <4>2. n \in AuthorsOf(p) <=>
                \E k \in DOMAIN index : index[k].paper = p /\ n \in index[k].authors
        BY DEF AuthorsOf
      <4>. QED BY <2>2, <2>3, <2>4, <4>1, <4>2
    <3>2. ASSUME NEW n
          PROVE  n \in ReverseAuthorPaperMap(p)' <=>
                    n \in ReverseAuthorPaperMap(p) \/ (p = paper /\ n \in authors)
      <4>1. n \in ReverseAuthorPaperMap(p)' <=> n \in DOMAIN g_names' /\ p \in Range(g_names'[n])
        BY DEF ReverseAuthorPaperMap
      <4>2. n \in ReverseAuthorPaperMap(p) <=> n \in DOMAIN g_names /\ p \in Range(g_names[n])
        BY DEF ReverseAuthorPaperMap
      <4>3. CASE n \notin authors
        BY <2>1, <4>1, <4>2, <4>3
      <4>4. CASE n \in authors
        <5>. DEFINE q == PapersOf(g_names, n)
        <5>1. q \in Seq(Papers) /\ g_names'[n] = Append(q, paper)
          BY <2>1, <4>4
        <5>2. n \in DOMAIN g_names => q = g_names[n]
          BY DEF PapersOf
        <5>3. n \notin DOMAIN g_names => Range(q) = {}
          BY DEF PapersOf, Range
        <5>. HIDE DEF q
        <5>4. /\ DOMAIN q = 1 .. Len(q) /\ DOMAIN Append(q, paper) = 1 .. Len(q) + 1
              /\ Append(q, paper)[Len(q) + 1] = paper /\ Len(q) \in Nat
              /\ \A k \in 1 .. Len(q) : Append(q, paper)[k] = q[k]
          BY <5>1
        <5>5. Range(Append(q, paper)) = Range(q) \cup {paper}
          BY <5>4 DEF Range
        <5>. QED BY <2>1, <4>1, <4>2, <4>4, <5>1, <5>2, <5>3, <5>5
      <4>. QED BY <4>3, <4>4
    <3>3. \A n : n \in ReverseAuthorPaperMap(p)' <=> n \in AuthorsOf(p)'
      BY <2>6, <3>1, <3>2
    <3>. QED BY <3>3 DEF ReverseAuthorPaperMap, AuthorsOf
  <2>. QED BY <2>1, <2>5, <2>6, <2>7 DEF ReadInv
<1>2. CASE UNCHANGED <<step, index, g_names>>
  BY <1>2 DEF ReadInv, AllAuthors, ReverseAuthorPaperMap, AuthorsOf
<1>3. CASE AddNames
  <2>1. step = "read" /\ UNCHANGED <<index, g_names>>
    BY <1>3 DEF AddNames
  <2>. QED BY <2>1 DEF ReadInv, AllAuthors, ReverseAuthorPaperMap, AuthorsOf
<1>4. CASE WriteHeaders \/ MergeNext \/ WriteTrees
  BY <1>4 DEF WriteHeaders, MergeNext, WriteTrees, ReadInv
<1>. QED BY <1>1, <1>2, <1>3, <1>4 DEF Next, vars, Compare

\* Until the merge, a spelling has exactly the papers whose entries give it.
LEMMA ReadCorrect == Spec => []ReadInv
<1>1. ASSUME Init PROVE ReadInv
  <2>1. g_names = <<>> /\ index = <<>> /\ DOMAIN <<>> = {}
    BY <1>1 DEF Init
  <2>2. AllAuthors = {} /\ \A p : AuthorsOf(p) = {} /\ ReverseAuthorPaperMap(p) = {}
    BY <2>1 DEF AllAuthors, AuthorsOf, ReverseAuthorPaperMap
  <2>. QED BY <2>1, <2>2 DEF ReadInv
<1>2. ReadInv /\ TypeInv /\ [Next]_vars => ReadInv'
  BY ReadStep
<1>. QED BY <1>1, <1>2, TypeCorrect, PTL DEF Spec

-----------------------------------------------------------------------------
(* The clusters.                                                           *)

\* AddNames starts with every name alone in its tree, and nothing compared.
LEMMA AddNamesManages ==
    ASSUME TypeInv, ReadInv, AddNames
    PROVE  ManagerInv'
<1>. DEFINE S == DOMAIN g_names \ DOMAIN hardcoded_alternatives
            n == Len(m_names')
<1>1. /\ step = "read" /\ step' = "unite" /\ m_names' = InNameOrder(S)
      /\ m_parent' = [i \in DOMAIN m_names' |-> i] /\ pair' = <<1, 2>> /\ index' = index
  BY DEF AddNames
<1>2. DOMAIN g_names = AllAuthors /\ AllAuthors \subseteq Range(Names)
  BY <1>1, AuthorsAreNames DEF ReadInv
<1>3. S \cap Range(Names) = S
  BY <1>2
<1>4. m_names' \in Seq(S) /\ Range(m_names') = S /\ IsInjective(m_names')
  <2>. HIDE DEF S
  <2>. QED BY <1>1, <1>3, InNameOrderHasAll
<1>5. m_names' \in Seq(Range(Names))
  BY <1>2, <1>4, SeqOverRange
<1>6. Range(m_names') = (AllAuthors \ DOMAIN hardcoded_alternatives)'
  BY <1>1, <1>2, <1>4 DEF AllAuthors
<1>7. n \in Nat /\ DOMAIN m_names' = 1 .. n
  BY <1>5, LenProperties
<1>8. m_parent' = [i \in 1 .. n |-> i] /\ Len(m_parent') = n /\ DOMAIN m_parent' = 1 .. n
  <2>1. m_parent' = [i \in 1 .. n |-> i]
    BY <1>1, <1>7
  <2>. HIDE DEF n
  <2>2. [i \in 1 .. n |-> i] \in Seq(Nat) /\ DOMAIN [i \in 1 .. n |-> i] = 1 .. n
    BY <1>7, IsASeq
  <2>3. Len([i \in 1 .. n |-> i]) = n
    BY <1>7, <2>2
  <2>. QED BY <2>1, <2>2, <2>3
<1>9. Forest(m_parent') /\ \A i \in 1 .. n : Root(m_parent', i) = i
  <2>. HIDE DEF n
  <2>. QED BY <1>7, <1>8, LoneNames
<1>10. pair'[1] = 1 /\ pair'[2] = 2 /\ pair' \in Nat \X Nat
  BY <1>1
<1>11. \A i, j \in DOMAIN m_names' : ~Compared(i, j)'
  BY <1>7, <1>10 DEF Compared
<1>12. \A i, j \in DOMAIN m_names' : SameTree(i, j)' => i = j
  BY <1>7, <1>9 DEF SameTree
<1>13. \A C \in SUBSET DOMAIN m_names' :
          \A i \in C, j \in DOMAIN m_names' : SameTree(i, j)' => j \in C
  BY <1>12
<1>14. pair' \in Nat \X Nat /\ 1 <= pair'[1] /\ pair'[1] < pair'[2] /\ pair'[2] = pair'[1] + 1
  BY <1>10
<1>15. Forest(m_parent') /\ DOMAIN m_parent' = DOMAIN m_names'
  BY <1>7, <1>8, <1>9
<1>. QED BY <1>1, <1>4, <1>5, <1>6, <1>11, <1>13, <1>14, <1>15 DEF ManagerInv

\* One comparison joins two trees if, and only if, the two names are similar.
LEMMA CompareManages ==
    ASSUME ManagerInv, Compare
    PROVE  ManagerInv'
<1>. DEFINE i == pair[1]
            j == pair[2]
            n == Len(m_names)
            similar == IsSamePerson(m_names[i], m_names[j])
<1>1. /\ step = "unite" /\ j <= n /\ UNCHANGED <<step, index, m_names>>
      /\ m_parent' = IF similar THEN Unite(m_parent, i, j) ELSE m_parent
      /\ pair' = IF j < n THEN <<i, j + 1>> ELSE <<i + 1, i + 2>>
  BY DEF Compare
<1>2. /\ m_names \in Seq(Range(Names)) /\ IsInjective(m_names)
      /\ Range(m_names) = AllAuthors \ DOMAIN hardcoded_alternatives
      /\ Forest(m_parent) /\ DOMAIN m_parent = DOMAIN m_names
      /\ pair \in Nat \X Nat /\ 1 <= i /\ i < j
  BY <1>1 DEF ManagerInv
<1>3. \A a, b \in DOMAIN m_names :
          Compared(a, b) /\ IsSamePerson(m_names[a], m_names[b]) => SameTree(a, b)
  BY <1>1 DEF ManagerInv
<1>4. \A C \in SUBSET DOMAIN m_names :
          IsClosed(C) => \A a \in C, b \in DOMAIN m_names : SameTree(a, b) => b \in C
  BY <1>1 DEF ManagerInv
<1>5. n \in Nat /\ DOMAIN m_names = 1 .. n /\ i \in Nat /\ j \in Nat
  BY <1>2, LenProperties
<1>6. i \in DOMAIN m_names /\ j \in DOMAIN m_names
  BY <1>1, <1>2, <1>5
<1>7. AllAuthors' = AllAuthors /\ \A C : IsClosed(C)' <=> IsClosed(C)
  BY <1>1 DEF AllAuthors, IsClosed
<1>8. \A a, b : SameTree(a, b) <=> Root(m_parent, a) = Root(m_parent, b)
  BY DEF SameTree
<1>9. \A a, b : SameTree(a, b)' <=> Root(m_parent', a) = Root(m_parent', b)
  BY DEF SameTree
<1>10. similar => /\ Forest(m_parent') /\ DOMAIN m_parent' = DOMAIN m_parent
                  /\ \A a \in DOMAIN m_names :
                        Root(m_parent', a) =
                            IF Root(m_parent, a) = Root(m_parent, i) THEN Root(m_parent, j)
                            ELSE Root(m_parent, a)
  BY <1>1, <1>2, <1>6, UniteJoins
<1>. HIDE DEF similar
<1>11. ~similar => m_parent' = m_parent
  BY <1>1
<1>12. Forest(m_parent') /\ DOMAIN m_parent' = DOMAIN m_names
  BY <1>2, <1>10, <1>11
<1>13. \A a, b \in DOMAIN m_names : SameTree(a, b) => SameTree(a, b)'
  BY <1>8, <1>9, <1>10, <1>11
<1>14. similar => Root(m_parent', i) = Root(m_parent', j)
  BY <1>6, <1>10
<1>15. ASSUME NEW a \in DOMAIN m_names, NEW b \in DOMAIN m_names, Compared(a, b)'
       PROVE  Compared(a, b) \/ (a = i /\ b = j)
  <2>1. a \in 1 .. n /\ b \in 1 .. n /\ a < b
    BY <1>5, <1>15 DEF Compared
  <2>2. CASE j < n
    <3>1. pair'[1] = i /\ pair'[2] = j + 1
      BY <1>1, <2>2
    <3>2. a < i \/ (a = i /\ b < j + 1)
      BY <1>15, <3>1 DEF Compared
    <3>. QED BY <1>5, <2>1, <3>2 DEF Compared
  <2>3. CASE ~(j < n)
    <3>1. pair'[1] = i + 1 /\ pair'[2] = i + 2
      BY <1>1, <2>3
    <3>2. a < i + 1 \/ (a = i + 1 /\ b < i + 2)
      BY <1>15, <3>1 DEF Compared
    <3>. QED BY <1>1, <1>5, <2>1, <2>3, <3>2 DEF Compared
  <2>. QED BY <2>2, <2>3
<1>16. ASSUME NEW a \in DOMAIN m_names, NEW b \in DOMAIN m_names, Compared(a, b)',
              IsSamePerson(m_names[a], m_names[b])
       PROVE  SameTree(a, b)'
  <2>1. CASE Compared(a, b)
    BY <1>3, <1>13, <1>16, <2>1
  <2>2. CASE a = i /\ b = j
    BY <1>9, <1>14, <1>16, <2>2 DEF similar
  <2>. QED BY <1>15, <1>16, <2>1, <2>2
<1>17. ASSUME NEW C \in SUBSET DOMAIN m_names, IsClosed(C),
              NEW a \in C, NEW b \in DOMAIN m_names, SameTree(a, b)'
       PROVE  b \in C
  <2>1. \A x \in C, y \in DOMAIN m_names : SameTree(x, y) => y \in C
    BY <1>4, <1>17
  <2>2. CASE SameTree(a, b)
    BY <2>1, <2>2
  <2>3. CASE ~SameTree(a, b)
    <3>1. similar /\ ~(Root(m_parent, a) = Root(m_parent, b))
      BY <1>8, <1>9, <1>11, <1>17, <2>3
    <3>2. \/ SameTree(a, i) /\ SameTree(j, b)
          \/ SameTree(a, j) /\ SameTree(i, b)
      BY <1>8, <1>9, <1>10, <1>17, <3>1
    <3>3. i \in C <=> j \in C
      <4>1. IsSamePerson(m_names[i], m_names[j])
        BY <3>1 DEF similar
      <4>2. IsSamePerson(m_names[j], m_names[i])
        BY <4>1, SamePersonIsMutual
      <4>. QED BY <1>6, <1>17, <4>1, <4>2 DEF IsClosed
    <3>. QED BY <1>6, <2>1, <3>2, <3>3
  <2>. QED BY <2>2, <2>3
<1>18. /\ pair' \in Nat \X Nat /\ 1 <= pair'[1] /\ pair'[1] < pair'[2]
       /\ pair'[2] > n => pair'[2] = pair'[1] + 1
  <2>1. CASE j < n
    <3>1. pair' = <<i, j + 1>> /\ pair'[1] = i /\ pair'[2] = j + 1
      BY <1>1, <2>1
    <3>2. i \in Nat /\ j + 1 \in Nat /\ 1 <= i /\ i < j + 1 /\ ~(j + 1 > n)
      BY <1>2, <1>5, <2>1
    <3>. HIDE DEF i, j, n
    <3>. QED BY <3>1, <3>2
  <2>2. CASE ~(j < n)
    <3>1. pair' = <<i + 1, i + 2>> /\ pair'[1] = i + 1 /\ pair'[2] = i + 2
      BY <1>1, <2>2
    <3>2. i + 1 \in Nat /\ i + 2 \in Nat /\ 1 <= i + 1 /\ i + 1 < i + 2 /\ i + 2 = (i + 1) + 1
      BY <1>5
    <3>. HIDE DEF i, j, n
    <3>. QED BY <3>1, <3>2
  <2>. QED BY <2>1, <2>2
<1>. HIDE DEF i, j, n
<1>19. /\ step' = "unite" /\ m_names' = m_names /\ Len(m_names') = n
  BY <1>1 DEF n
<1>. QED BY <1>2, <1>7, <1>12, <1>16, <1>17, <1>18, <1>19 DEF ManagerInv

\* No other step changes the forest.
LEMMA ManagerStep ==
    ASSUME TypeInv, ReadInv, ManagerInv, [Next]_vars
    PROVE  ManagerInv'
<1>1. CASE /\ UNCHANGED <<index, m_names, m_parent, pair>>
           /\ step # "read" /\ step # "unite" /\ step' # "unite"
  BY <1>1 DEF ManagerInv, AllAuthors, Compared, SameTree, IsClosed
<1>2. CASE UNCHANGED vars
  BY <1>2 DEF vars, ManagerInv, AllAuthors, Compared, SameTree, IsClosed
<1>3. ASSUME NEW paper \in Papers, NEW authors \in AuthorSquares, ReadEntry(paper, authors)
      PROVE  ManagerInv'
  BY <1>3 DEF ReadEntry, ManagerInv
<1>4. CASE AddNames
  BY <1>4, AddNamesManages
<1>5. CASE Compare
  BY <1>5, CompareManages
<1>6. CASE WriteHeaders
  <2>1. /\ step = "unite" /\ step' = "merge" /\ UNCHANGED <<index, m_names, m_parent, pair>>
        /\ pair[2] > Len(m_names)
    BY <1>6 DEF WriteHeaders
  <2>. QED BY <2>1 DEF ManagerInv, AllAuthors, Compared, SameTree, IsClosed
<1>7. CASE MergeNext \/ WriteTrees
  <2>1. step = "merge" /\ step' # "unite" /\ UNCHANGED <<index, m_names, m_parent, pair>>
    BY <1>7 DEF MergeNext, WriteTrees
  <2>. QED BY <1>1, <2>1
<1>. QED BY <1>2, <1>3, <1>4, <1>5, <1>6, <1>7 DEF Next

\* The forest joins what has been compared and is similar, and nothing else.
LEMMA ManagerCorrect == Spec => []ManagerInv
<1>1. Init => ManagerInv
  BY DEF Init, ManagerInv
<1>2. ManagerInv /\ TypeInv /\ ReadInv /\ [Next]_vars => ManagerInv'
  BY ManagerStep
<1>. QED BY <1>1, <1>2, TypeCorrect, ReadCorrect, PTL DEF Spec

\* When all names are compared, the forest is what the tables are made from.
LEMMA NamesAreManaged ==
    ASSUME TypeInv, ManagerInv, step # "read"
    PROVE  Managed(m_names, m_parent) /\ AllAuthors \subseteq Known(m_names)
<1>1. /\ m_names \in Seq(Range(Names)) /\ IsInjective(m_names)
      /\ Range(m_names) = AllAuthors \ DOMAIN hardcoded_alternatives
      /\ Forest(m_parent) /\ DOMAIN m_parent = DOMAIN m_names
  BY DEF ManagerInv
<1>2. \A C \in SUBSET DOMAIN m_names :
          IsClosed(C) => \A i \in C, j \in DOMAIN m_names : SameTree(i, j) => j \in C
  BY DEF ManagerInv
<1>3. \A i, j \in DOMAIN m_names : m_names[i] = m_names[j] => i = j
  BY <1>1 DEF IsInjective
<1>4. ASSUME NEW i \in DOMAIN m_names
      PROVE  m_names[i] \in Range(Names) /\ m_names[i] \notin DOMAIN hardcoded_alternatives
  <2>1. m_names[i] \in Range(m_names)
    BY DEF Range
  <2>. QED BY <1>1, <2>1, AuthorsAreNames
<1>5. \A i \in DOMAIN m_names : SortKey[m_names[i]] \in SortKeys
  BY <1>4, CrawlAssumption DEF SortKeys
<1>6. ASSUME NEW i \in DOMAIN m_names, m_names[i] \in hardcoded_primaries
      PROVE  Cluster(m_names, m_parent, i) = {m_names[i]}
  <2>1. \A j \in DOMAIN m_names : IsSamePerson(m_names[i], m_names[j]) => m_names[i] = m_names[j]
    BY <1>6 DEF IsSamePerson
  <2>2. IsClosed({i})
    BY <1>3, <2>1 DEF IsClosed
  <2>3. \A j \in DOMAIN m_names : SameTree(i, j) => j = i
    BY <1>2, <2>2
  <2>4. \A j \in DOMAIN m_names : Root(m_parent, j) = Root(m_parent, i) <=> j = i
    BY <2>3 DEF SameTree
  <2>. QED BY <2>4 DEF Cluster
<1>. QED BY <1>1, <1>3, <1>4, <1>5, <1>6 DEF Managed, Known

\* All pairs of similar names are in one cluster, once all are compared.
LEMMA SimilarNamesMeet ==
    ASSUME TypeInv, ManagerInv, step \notin {"read", "unite"},
           NEW i \in DOMAIN m_names, NEW j \in DOMAIN m_names, IsSamePerson(m_names[i], m_names[j])
    PROVE  Root(m_parent, j) = Root(m_parent, i)
<1>1. /\ DOMAIN m_names = 1 .. Len(m_names) /\ Len(m_names) \in Nat
      /\ pair[1] \in Nat /\ pair[2] \in Nat /\ pair[2] > Len(m_names) /\ pair[2] = pair[1] + 1
  BY LenProperties DEF ManagerInv
<1>2. \A a, b \in DOMAIN m_names :
          Compared(a, b) /\ IsSamePerson(m_names[a], m_names[b]) => SameTree(a, b)
  BY DEF ManagerInv
<1>3. \A a, b \in DOMAIN m_names : a < b => Compared(a, b)
  BY <1>1 DEF Compared
<1>4. i < j \/ i = j \/ j < i
  BY <1>1
<1>5. CASE i < j
  BY <1>2, <1>3, <1>5 DEF SameTree
<1>6. CASE j < i
  BY <1>2, <1>3, <1>6, SamePersonIsMutual DEF SameTree
<1>. QED BY <1>4, <1>5, <1>6

\* AddNames of NameManager.hpp: after all comparisons the clusters are exactly the
\* components of the relation "taken for the same person".
THEOREM ClustersCorrect == Spec => []ClustersAreComponents
<1>1. TypeInv /\ ManagerInv => ClustersAreComponents
  <2>1. SUFFICES ASSUME TypeInv, ManagerInv, step = "merge", NEW i \in DOMAIN m_names
                 PROVE  LET cluster == Cluster(m_names, m_parent, i)
                        IN  /\ \A n \in Range(m_names) :
                                  <<m_names[i], n>> \in Similar => n \in cluster
                            /\ \A part \in (SUBSET cluster) \ {{}, cluster} :
                                  \E m \in part, n \in cluster \ part : <<m, n>> \in Similar
    BY DEF ClustersAreComponents
  <2>. DEFINE cluster == Cluster(m_names, m_parent, i)
  <2>2. Managed(m_names, m_parent)
    BY <2>1, NamesAreManaged
  <2>3. \A a, b \in DOMAIN m_names : IsSamePerson(m_names[a], m_names[b]) =>
            Root(m_parent, b) = Root(m_parent, a)
    BY <2>1, SimilarNamesMeet
  <2>4. /\ m_names[i] \in cluster
        /\ \A j \in DOMAIN m_names :
              m_names[j] \in cluster <=> Root(m_parent, j) = Root(m_parent, i)
        /\ \A n \in cluster : \E j \in DOMAIN m_names : n = m_names[j]
    BY <2>2, ClustersArePartition
  <2>. HIDE DEF cluster
  <2>5. \A m, n : <<m, n>> \in Similar <=>
            m \in Range(Names) /\ n \in Range(Names) /\ IsSamePerson(m, n)
    BY DEF Similar
  <2>6. ASSUME NEW n \in Range(m_names), <<m_names[i], n>> \in Similar PROVE n \in cluster
    <3>1. PICK j \in DOMAIN m_names : n = m_names[j]
      BY <2>6 DEF Range
    <3>. QED BY <2>3, <2>4, <2>5, <2>6, <3>1
  <2>7. ASSUME NEW part \in SUBSET cluster, part # {}, part # cluster,
               \A m \in part, n \in cluster \ part : <<m, n>> \notin Similar
        PROVE  FALSE
    <3>. DEFINE C == {j \in DOMAIN m_names : m_names[j] \in part}
    <3>1. \A j \in DOMAIN m_names : m_names[j] \in Range(Names)
      BY <2>1, LenProperties DEF ManagerInv
    <3>2. ASSUME NEW a \in C, NEW j \in DOMAIN m_names, IsSamePerson(m_names[a], m_names[j])
          PROVE  j \in C
      <4>1. m_names[a] \in part /\ m_names[a] \in cluster /\ <<m_names[a], m_names[j]>> \in Similar
        BY <2>5, <3>1, <3>2
      <4>2. Root(m_parent, j) = Root(m_parent, i)
        BY <2>3, <2>4, <3>2, <4>1
      <4>. QED BY <2>4, <2>7, <4>1, <4>2
    <3>3. IsClosed(C)
      BY <3>2 DEF IsClosed
    <3>4. PICK a \in C : TRUE
      BY <2>4, <2>7
    <3>5. \A b \in DOMAIN m_names : SameTree(a, b) => b \in C
      <4>1. C \in SUBSET DOMAIN m_names
        OBVIOUS
      <4>. HIDE DEF C
      <4>. QED BY <2>1, <3>3, <4>1 DEF ManagerInv
    <3>6. Root(m_parent, a) = Root(m_parent, i)
      BY <2>4
    <3>7. ASSUME NEW n \in cluster PROVE n \in part
      <4>1. PICK j \in DOMAIN m_names : n = m_names[j]
        BY <2>4
      <4>2. SameTree(a, j)
        BY <2>4, <3>6, <4>1 DEF SameTree
      <4>. QED BY <3>5, <4>1, <4>2
    <3>. QED BY <2>7, <3>7
  <2>8. ASSUME NEW part \in (SUBSET cluster) \ {{}, cluster}
        PROVE  \E m \in part, n \in cluster \ part : <<m, n>> \in Similar
    BY <2>7
  <2>. QED BY <2>6, <2>8 DEF cluster
<1>. QED BY <1>1, TypeCorrect, ManagerCorrect, PTL

-----------------------------------------------------------------------------
(* The merge.                                                              *)

\* A merge takes the papers of the alternative to its primary.
LEMMA MergeHolders ==
    ASSUME TypeInv, QueueInv, NEW alt, Moves(alt, P(alt)), NEW p
    PROVE  ReverseAuthorPaperMap(p)' =
              IF alt \in ReverseAuthorPaperMap(p)
              THEN (ReverseAuthorPaperMap(p) \ {alt}) \cup {P(alt)}
              ELSE ReverseAuthorPaperMap(p)
<1>. DEFINE q == P(alt)
            Q == PapersOf(g_names, q)
            A == g_names[alt]
            R == ReverseAuthorPaperMap(p)
<1>1. q # alt
  BY DEF Moves, QueueInv
<1>2. /\ DOMAIN g_names' = (DOMAIN g_names \cup {q}) \ {alt} /\ alt \in DOMAIN g_names
      /\ g_names'[q] = Q \o A /\ Q \in Seq(Papers) /\ A \in Seq(Papers)
      /\ \A n \in DOMAIN g_names' : n # q => n \in DOMAIN g_names /\ g_names'[n] = g_names[n]
  BY <1>1 DEF Moves
<1>3. q \in DOMAIN g_names => Q = g_names[q]
  BY DEF PapersOf
<1>4. q \notin DOMAIN g_names => Range(Q) = {}
  BY DEF PapersOf, Range
<1>. HIDE DEF q, Q, A
<1>5. Range(Q \o A) = Range(Q) \cup Range(A)
  <2>1. /\ Len(Q) \in Nat /\ Len(A) \in Nat /\ DOMAIN Q = 1 .. Len(Q) /\ DOMAIN A = 1 .. Len(A)
        /\ DOMAIN (Q \o A) = 1 .. Len(Q) + Len(A)
        /\ \A k \in 1 .. Len(Q) : (Q \o A)[k] = Q[k]
        /\ \A k \in 1 .. Len(A) : (Q \o A)[Len(Q) + k] = A[k]
    BY <1>2
  <2>2. \A k \in 1 .. Len(Q) + Len(A) :
            k \in 1 .. Len(Q) \/ (k - Len(Q) \in 1 .. Len(A) /\ Len(Q) + (k - Len(Q)) = k)
    BY <2>1
  <2>3. \A k \in 1 .. Len(Q) : k \in 1 .. Len(Q) + Len(A)
    BY <2>1
  <2>4. \A k \in 1 .. Len(A) : Len(Q) + k \in 1 .. Len(Q) + Len(A)
    BY <2>1
  <2>5. \A x \in Range(Q \o A) : x \in Range(Q) \cup Range(A)
    <3>1. SUFFICES ASSUME NEW k \in 1 .. Len(Q) + Len(A)
                   PROVE  (Q \o A)[k] \in Range(Q) \cup Range(A)
      BY <2>1 DEF Range
    <3>2. CASE k \in 1 .. Len(Q)
      BY <2>1, <3>2 DEF Range
    <3>3. CASE k - Len(Q) \in 1 .. Len(A) /\ Len(Q) + (k - Len(Q)) = k
      <4>1. (Q \o A)[k] = A[k - Len(Q)]
        BY <2>1, <3>3
      <4>. QED BY <2>1, <3>3, <4>1 DEF Range
    <3>. QED BY <2>2, <3>2, <3>3
  <2>6. \A x \in Range(Q) : x \in Range(Q \o A)
    BY <2>1, <2>3 DEF Range
  <2>7. \A x \in Range(A) : x \in Range(Q \o A)
    BY <2>1, <2>4 DEF Range
  <2>. QED BY <2>5, <2>6, <2>7
<1>6. \A n : n \in ReverseAuthorPaperMap(p)' <=> n \in DOMAIN g_names' /\ p \in Range(g_names'[n])
  BY DEF ReverseAuthorPaperMap
<1>7. \A n : n \in R <=> n \in DOMAIN g_names /\ p \in Range(g_names[n])
  BY DEF ReverseAuthorPaperMap
<1>. HIDE DEF R
<1>8. q \in ReverseAuthorPaperMap(p)' <=> q \in R \/ alt \in R
  <2>1. q \in ReverseAuthorPaperMap(p)' <=> p \in Range(Q) \/ p \in Range(A)
    BY <1>1, <1>2, <1>5, <1>6
  <2>2. p \in Range(Q) <=> q \in R
    BY <1>3, <1>4, <1>7
  <2>3. p \in Range(A) <=> alt \in R
    BY <1>2, <1>7 DEF A
  <2>. QED BY <2>1, <2>2, <2>3
<1>9. \A n : n # q => (n \in ReverseAuthorPaperMap(p)' <=> n \in R /\ n # alt)
  BY <1>1, <1>2, <1>6, <1>7
<1>. QED BY <1>1, <1>8, <1>9 DEF q, R

\* When the headers are written, the papers are still with their spellings.
LEMMA HeadersMerge ==
    ASSUME TypeInv, ReadInv, WriteHeaders
    PROVE  MergeInv'
<1>1. /\ step = "unite" /\ header' = Headers(m_names, m_parent) /\ to_merge' = ToMerge
      /\ UNCHANGED <<index, g_names, m_names, m_parent>>
  BY DEF WriteHeaders
<1>2. DOMAIN g_names = AllAuthors /\ \A p \in Papers : ReverseAuthorPaperMap(p) = AuthorsOf(p)
  BY <1>1 DEF ReadInv
<1>3. /\ AllAuthors' = AllAuthors /\ \A n : P(n)' = P(n)
      /\ \A p : AuthorsOf(p)' = AuthorsOf(p) /\ ReverseAuthorPaperMap(p)' = ReverseAuthorPaperMap(p)
  BY <1>1 DEF AllAuthors, AuthorsOf, ReverseAuthorPaperMap, P
<1>. DEFINE S == {n \in DOMAIN g_names : GetPrimaryName(m_names, m_parent, n) # n}
<1>4. Range(ToMerge) = S \cap Range(Names)
  BY InNameOrderHasAll DEF ToMerge
<1>5. ASSUME NEW a \in AllAuthors PROVE Now(a)' = a
  <2>1. a \in Range(to_merge') \/ P(a) = a
    BY <1>1, <1>2, <1>4, AuthorsAreNames DEF P
  <2>. QED BY <1>3, <2>1 DEF Now
<1>6. \A p : AuthorsOf(p) \subseteq AllAuthors
  BY DEF AuthorsOf, AllAuthors
<1>7. DOMAIN g_names' = {Now(a) : a \in AllAuthors}'
  <2>1. {Now(a) : a \in AllAuthors}' = {Now(a)' : a \in AllAuthors}
    BY <1>3
  <2>. QED BY <1>1, <1>2, <1>5, <2>1
<1>8. ASSUME NEW p \in Papers PROVE ReverseAuthorPaperMap(p)' = {Now(a) : a \in AuthorsOf(p)}'
  <2>1. {Now(a) : a \in AuthorsOf(p)}' = {Now(a)' : a \in AuthorsOf(p)}
    BY <1>3
  <2>. QED BY <1>2, <1>3, <1>5, <1>6, <2>1
<1>. QED BY <1>1, <1>2, <1>3, <1>7, <1>8 DEF MergeInv

\* One merge moves the papers of the spelling that it merges, and of no other.
LEMMA MergeMerges ==
    ASSUME TypeInv, QueueInv, ManagerInv, MergeInv, MergeNext
    PROVE  MergeInv'
<1>1. step = "merge" /\ UNCHANGED <<step, index, m_names, m_parent, header>>
  BY DEF MergeNext
<1>2. PICK alt : Moves(alt, P(alt))
  BY MergeMoves
<1>. DEFINE q == P(alt)
<1>3. /\ AllAuthors' = AllAuthors /\ \A n : P(n)' = P(n)
      /\ \A p : AuthorsOf(p)' = AuthorsOf(p)
  BY <1>1 DEF AllAuthors, AuthorsOf, P
<1>4. \A p : ReverseAuthorPaperMap(p)' =
              IF alt \in ReverseAuthorPaperMap(p)
              THEN (ReverseAuthorPaperMap(p) \ {alt}) \cup {q}
              ELSE ReverseAuthorPaperMap(p)
  BY <1>2, MergeHolders
<1>5. /\ alt \in DOMAIN g_names /\ alt \in Range(to_merge) /\ q # alt
      /\ DOMAIN g_names' = (DOMAIN g_names \cup {q}) \ {alt}
      /\ Range(to_merge') = Range(to_merge) \ {alt}
  BY <1>2 DEF Moves, QueueInv
<1>6. /\ header = Headers(m_names, m_parent)
      /\ \A p \in Papers : AuthorsOf(p) # {} => ReverseAuthorPaperMap(p) # {}
      /\ TableIsFlat(header) =>
           /\ DOMAIN g_names = {Now(a) : a \in AllAuthors}
           /\ \A p \in Papers : ReverseAuthorPaperMap(p) = {Now(a) : a \in AuthorsOf(p)}
  BY <1>1 DEF MergeInv
<1>7. \A p \in Papers : AuthorsOf(p)' # {} => ReverseAuthorPaperMap(p)' # {}
  BY <1>3, <1>4, <1>6
<1>8. ASSUME TableIsFlat(header)
      PROVE  /\ DOMAIN g_names' = {Now(a) : a \in AllAuthors}'
             /\ \A p \in Papers : ReverseAuthorPaperMap(p)' = {Now(a) : a \in AuthorsOf(p)}'
  <2>1. Managed(m_names, m_parent) /\ AllAuthors \subseteq Known(m_names)
    BY <1>1, NamesAreManaged
  <2>2. \A a \in AllAuthors : P(P(a)) = P(a)
    BY <1>6, <1>8, <2>1, FlatTablesSettle DEF P
  <2>3. Now(alt)' = q /\ Now(alt) = alt
    BY <1>3, <1>5 DEF Now
  <2>. HIDE DEF q
  <2>4. ASSUME NEW a \in AllAuthors, a # alt PROVE Now(a)' = Now(a) /\ Now(a) # alt
    <3>1. Now(a)' = Now(a)
      BY <1>3, <1>5, <2>4 DEF Now
    <3>2. CASE a \in Range(to_merge)
      BY <2>4, <3>1, <3>2 DEF Now
    <3>3. CASE a \notin Range(to_merge)
      <4>1. Now(a) = P(a) /\ P(P(a)) = P(a)
        BY <2>2, <3>3 DEF Now
      <4>. QED BY <1>5, <3>1, <4>1 DEF q
    <3>. QED BY <3>2, <3>3
  <2>5. ASSUME NEW S, S \subseteq AllAuthors
        PROVE  /\ alt \in {Now(a) : a \in S} <=> alt \in S
               /\ {Now(a)' : a \in S} = IF alt \in S THEN ({Now(a) : a \in S} \ {alt}) \cup {q}
                                        ELSE {Now(a) : a \in S}
    <3>. DEFINE T == {Now(a) : a \in S}
                U == {Now(a)' : a \in S}
    <3>1. \A x : x \in T <=> \E a \in S : x = Now(a)
      OBVIOUS
    <3>2. \A x : x \in U <=> \E a \in S : x = Now(a)'
      OBVIOUS
    <3>3. \A a \in S : a # alt => Now(a)' = Now(a) /\ Now(a) # alt
      BY <2>4, <2>5
    <3>. HIDE DEF T, U
    <3>4. alt \in T <=> alt \in S
      BY <2>3, <3>1, <3>3
    <3>5. CASE alt \in S
      <4>1. \A x : x \in U <=> x = q \/ (x \in T /\ x # alt)
        BY <2>3, <3>1, <3>2, <3>3, <3>5
      <4>2. U = (T \ {alt}) \cup {q}
        BY <4>1
      <4>. QED BY <3>4, <3>5, <4>2 DEF T, U
    <3>6. CASE alt \notin S
      <4>1. \A x : x \in U <=> x \in T
        BY <3>1, <3>2, <3>3, <3>6
      <4>. QED BY <3>4, <3>6, <4>1 DEF T, U
    <3>. QED BY <3>5, <3>6
  <2>6. DOMAIN g_names' = {Now(a)' : a \in AllAuthors}
    <3>1. DOMAIN g_names = {Now(a) : a \in AllAuthors} /\ alt \in AllAuthors
      BY <1>5, <1>6, <1>8, <2>5
    <3>2. {Now(a)' : a \in AllAuthors} = ({Now(a) : a \in AllAuthors} \ {alt}) \cup {q}
      BY <2>5, <3>1
    <3>. QED BY <1>5, <3>1, <3>2 DEF q
  <2>7. ASSUME NEW p \in Papers PROVE ReverseAuthorPaperMap(p)' = {Now(a)' : a \in AuthorsOf(p)}
    <3>1. AuthorsOf(p) \subseteq AllAuthors
      BY DEF AuthorsOf, AllAuthors
    <3>2. ReverseAuthorPaperMap(p) = {Now(a) : a \in AuthorsOf(p)}
      BY <1>6, <1>8
    <3>3. /\ alt \in {Now(a) : a \in AuthorsOf(p)} <=> alt \in AuthorsOf(p)
          /\ {Now(a)' : a \in AuthorsOf(p)} =
                IF alt \in AuthorsOf(p) THEN ({Now(a) : a \in AuthorsOf(p)} \ {alt}) \cup {q}
                ELSE {Now(a) : a \in AuthorsOf(p)}
      BY <2>5, <3>1
    <3>. QED BY <1>4, <3>2, <3>3 DEF q
  <2>8. {Now(a) : a \in AllAuthors}' = {Now(a)' : a \in AllAuthors}
    BY <1>3
  <2>9. \A p : {Now(a) : a \in AuthorsOf(p)}' = {Now(a)' : a \in AuthorsOf(p)}
    BY <1>3
  <2>. QED BY <2>6, <2>7, <2>8, <2>9
<1>. QED BY <1>1, <1>6, <1>7, <1>8 DEF MergeInv

\* Every step keeps the papers where the table says they are by then.
LEMMA MergeStep ==
    ASSUME TypeInv, QueueInv, ManagerInv, ReadInv, MergeInv, [Next]_vars
    PROVE  MergeInv'
<1>1. CASE /\ UNCHANGED <<index, g_names, m_names, m_parent, header, to_merge>>
           /\ step \in {"merge", "done", "threw"}
  BY <1>1 DEF MergeInv, AllAuthors, AuthorsOf, ReverseAuthorPaperMap, Now, P
<1>2. CASE UNCHANGED vars
  BY <1>2 DEF vars, MergeInv, AllAuthors, AuthorsOf, ReverseAuthorPaperMap, Now, P
<1>3. CASE step' \in {"read", "unite"}
  BY <1>3 DEF MergeInv
<1>4. CASE WriteHeaders
  BY <1>4, HeadersMerge
<1>5. CASE MergeNext
  BY <1>5, MergeMerges
<1>6. CASE WriteTrees
  BY <1>1, <1>6 DEF WriteTrees
<1>. QED BY <1>2, <1>3, <1>4, <1>5, <1>6 DEF Next, ReadEntry, AddNames, Compare

\* At any time of the merge, the papers of a spelling are with it or its primary.
LEMMA MergeCorrect == Spec => []MergeInv
<1>1. Init => MergeInv
  BY DEF Init, MergeInv
<1>2. MergeInv /\ ManagerInv /\ ReadInv /\ QueueInv /\ TypeInv /\ [Next]_vars => MergeInv'
  BY MergeStep
<1>. QED BY <1>1, <1>2, TypeCorrect, QueueCorrect, ReadCorrect, ManagerCorrect, PTL DEF Spec

\* What main has written is what it has computed when it ends.
LEMMA WrittenCorrect == Spec => []WrittenInv
<1>1. Init => WrittenInv
  BY DEF Init, WrittenInv
<1>2. ASSUME WrittenInv, [Next]_vars PROVE WrittenInv'
  <2>1. CASE UNCHANGED vars
    <3>1. UNCHANGED <<step, index, g_names, to_merge, paper_tree>>
      BY <2>1 DEF vars
    <3>2. /\ IndexedPapers' = IndexedPapers /\ TreeOfPapers' = TreeOfPapers
          /\ \A p : ReverseAuthorPaperMap(p)' = ReverseAuthorPaperMap(p)
      BY <3>1 DEF IndexedPapers, ReverseAuthorPaperMap, TreeOfPapers, GetPaperLatestRev
    <3>. QED BY <1>2, <3>1, <3>2 DEF WrittenInv
  <2>2. CASE step' \in {"read", "unite", "merge"}
    BY <2>2 DEF WrittenInv
  <2>3. CASE WriteTrees
    <3>1. /\ to_merge' = <<>> /\ UNCHANGED <<index, g_names>>
          /\ \/ step' = "threw" /\ \E p \in IndexedPapers : ReverseAuthorPaperMap(p) = {}
             \/ step' = "done" /\ paper_tree' = TreeOfPapers
      BY <2>3 DEF WriteTrees, TreeOfPapers
    <3>2. /\ IndexedPapers' = IndexedPapers /\ TreeOfPapers' = TreeOfPapers
          /\ \A p : ReverseAuthorPaperMap(p)' = ReverseAuthorPaperMap(p)
      BY <3>1 DEF IndexedPapers, ReverseAuthorPaperMap, TreeOfPapers, GetPaperLatestRev
    <3>. QED BY <3>1, <3>2 DEF WrittenInv
  <2>. QED BY <1>2, <2>1, <2>2, <2>3 DEF Next, ReadEntry, AddNames, Compare, WriteHeaders, MergeNext
<1>. QED BY <1>1, <1>2, PTL DEF Spec

-----------------------------------------------------------------------------
(* What is written.                                                        *)

\* debug tab, GUI_Dialog_Main_Debug_Tab.cpp lines 352-407: what it looks for in the
\* tables holds of all tables the crawler writes in which no hard-coded primary is
\* an alternative of another name.
THEOREM NamesConsistent == Spec => []NamesAreConsistent
<1>1. ASSUME TypeInv, ManagerInv, MergeInv, WrittenInv PROVE NamesAreConsistent
  <2>1. SUFFICES ASSUME step = "done", TableIsFlat(header)
                 PROVE  /\ \A alt \in header.alternatives : /\ alt[1] \notin header.primaries
                                                            /\ alt[2] \in header.primaries
                        /\ DOMAIN g_names \subseteq header.primaries
    BY DEF NamesAreConsistent
  <2>2. /\ header = Headers(m_names, m_parent) /\ to_merge = <<>>
        /\ DOMAIN g_names = {Now(a) : a \in AllAuthors}
    BY <1>1, <2>1 DEF MergeInv, WrittenInv
  <2>3. Managed(m_names, m_parent) /\ AllAuthors \subseteq Known(m_names)
    BY <1>1, <2>1, NamesAreManaged
  <2>4. /\ \A alt \in header.alternatives : /\ alt[1] \notin header.primaries
                                            /\ alt[2] \in header.primaries
        /\ \A n \in Known(m_names) : P(n) \in header.primaries
    BY <2>1, <2>2, <2>3, FlatTablesAreConsistent DEF P
  <2>5. \A a : Now(a) = P(a)
    BY <2>2 DEF Now, Range
  <2>6. DOMAIN g_names \subseteq header.primaries
    BY <2>2, <2>3, <2>4, <2>5
  <2>. QED BY <2>4, <2>6
<1>. QED BY <1>1, TypeCorrect, ManagerCorrect, MergeCorrect, WrittenCorrect, PTL

\* A finite set of numbers has a greatest one.
LEMMA MaxIsThere ==
    ASSUME NEW S, IsFiniteSet(S), S # {}, S \subseteq Nat
    PROVE  Max(S) \in S /\ \A n \in S : n <= Max(S)
<1>. DEFINE same == [n \in S |-> n]
<1>1. same \in [S -> Nat]
  OBVIOUS
<1>2. PICK m \in S : \A n \in S : same[n] <= same[m]
  <2>. HIDE DEF same
  <2>. QED BY <1>1, GreatestValue
<1>3. \E x \in S : \A y \in S : x >= y
  BY <1>2
<1>4. Max(S) \in S /\ \A y \in S : Max(S) >= y
  BY <1>3 DEF Max
<1>. QED BY <1>4

\* The latest revision of an indexed paper is one of its revisions, and none is later.
LEMMA LatestRevIsThere ==
    ASSUME TypeInv, NEW p \in IndexedPapers
    PROVE  /\ p.rev <= GetPaperLatestRev(p.name)
           /\ \E q \in IndexedPapers : q.name = p.name /\ q.rev = GetPaperLatestRev(p.name)
<1>. DEFINE same == {q \in IndexedPapers : q.name = p.name}
            revs == {q.rev : q \in same}
<1>1. DOMAIN index = 1 .. Len(index) /\ Len(index) \in Nat
  BY LenProperties DEF TypeInv
<1>2. \A q \in IndexedPapers : q \in Papers
  BY AuthorsAreNames DEF IndexedPapers
<1>3. IsFiniteSet(IndexedPapers)
  <2>. DEFINE f == [k \in DOMAIN index |-> index[k].paper]
  <2>1. f \in Surjection(DOMAIN index, IndexedPapers)
    BY DEF Surjection, IndexedPapers
  <2>2. IsFiniteSet(DOMAIN index)
    BY <1>1, FS_Interval
  <2>. HIDE DEF f
  <2>. QED BY <2>1, <2>2, FS_Surjection
<1>4. IsFiniteSet(same)
  BY <1>3, FS_Subset
<1>5. IsFiniteSet(revs)
  <2>. DEFINE g == [q \in same |-> q.rev]
  <2>1. g \in Surjection(same, revs)
    BY DEF Surjection
  <2>. HIDE DEF g, same, revs
  <2>. QED BY <1>4, <2>1, FS_Surjection
<1>6. revs \subseteq Nat /\ p.rev \in revs
  BY <1>2, CrawlAssumption
<1>7. GetPaperLatestRev(p.name) = Max(revs)
  BY DEF GetPaperLatestRev
<1>8. Max(revs) \in revs /\ \A n \in revs : n <= Max(revs)
  <2>. HIDE DEF revs
  <2>. QED BY <1>5, <1>6, MaxIsThere
<1>. QED BY <1>6, <1>7, <1>8

\* Each paper of the tree is given by exactly those who wrote it, under the names
\* that names.hpp finds for the spellings of the index, and with a latest revision
\* that is in the tree; and the crawler throws only for a paper without an author.
THEOREM PapersNamed == Spec => []PapersNameTheirAuthors
<1>1. ASSUME TypeInv, ManagerInv, MergeInv, WrittenInv PROVE PapersNameTheirAuthors
  <2>1. ASSUME step = "threw" PROVE \E k \in DOMAIN index : index[k].authors = {}
    <3>1. PICK p \in IndexedPapers : ReverseAuthorPaperMap(p) = {}
      BY <1>1, <2>1 DEF WrittenInv
    <3>2. PICK k \in DOMAIN index : p = index[k].paper
      BY DEF IndexedPapers
    <3>3. p \in Papers
      BY <1>1, <3>2, AuthorsAreNames
    <3>4. AuthorsOf(p) = {}
      BY <1>1, <2>1, <3>1, <3>3 DEF MergeInv
    <3>. QED BY <3>2, <3>4 DEF AuthorsOf
  <2>2. ASSUME step = "done", TableIsFlat(header), NEW p \in IndexedPapers
        PROVE  \E e \in paper_tree :
                  /\ e.name = p.name /\ p.rev <= e.latest_rev
                  /\ \E r \in e.revs : r.rev = e.latest_rev
                  /\ [rev |-> p.rev,
                      authors |-> {Primary(header, a) : a \in UNION {index[k].authors :
                          k \in {l \in DOMAIN index : index[l].paper = p}}}] \in e.revs
    <3>. DEFINE entry(q) == [rev |-> q.rev, authors |-> ReverseAuthorPaperMap(q)]
                revs == {entry(q) : q \in {r \in IndexedPapers : r.name = p.name}}
                e == [name |-> p.name, latest_rev |-> GetPaperLatestRev(p.name), revs |-> revs]
    <3>1. /\ header = Headers(m_names, m_parent) /\ to_merge = <<>> /\ paper_tree = TreeOfPapers
          /\ \A q \in Papers : ReverseAuthorPaperMap(q) = {Now(a) : a \in AuthorsOf(q)}
      BY <1>1, <2>2 DEF MergeInv, WrittenInv
    <3>2. e \in paper_tree
      BY <3>1 DEF TreeOfPapers
    <3>3. p \in Papers
      BY <1>1, AuthorsAreNames DEF IndexedPapers
    <3>4. Managed(m_names, m_parent)
      BY <1>1, <2>2, NamesAreManaged
    <3>5. \A a : Primary(header, a) = Now(a)
      <4>1. \A a : Primary(header, a) = P(a)
        BY <3>1, <3>4, TableSaysPrimary DEF P
      <4>. QED BY <3>1, <4>1 DEF Now, Range
    <3>6. ReverseAuthorPaperMap(p) = {Primary(header, a) : a \in AuthorsOf(p)}
      BY <3>1, <3>3, <3>5
    <3>7. entry(p) \in revs
      OBVIOUS
    <3>8. PICK q \in IndexedPapers : q.name = p.name /\ q.rev = GetPaperLatestRev(p.name)
      BY <1>1, LatestRevIsThere
    <3>9. entry(q) \in revs /\ entry(q).rev = GetPaperLatestRev(p.name)
      BY <3>8
    <3>10. p.rev <= GetPaperLatestRev(p.name)
      BY <1>1, LatestRevIsThere
    <3>11. entry(p) = [rev |-> p.rev,
               authors |-> {Primary(header, a) : a \in UNION
                   {index[k].authors : k \in {l \in DOMAIN index : index[l].paper = p}}}]
      BY <3>6 DEF AuthorsOf
    <3>12. e.name = p.name /\ e.latest_rev = GetPaperLatestRev(p.name) /\ e.revs = revs
      OBVIOUS
    <3>. HIDE DEF e, revs, entry
    <3>. QED BY <3>2, <3>7, <3>9, <3>10, <3>11, <3>12
  <2>. QED BY <2>1, <2>2 DEF PapersNameTheirAuthors
<1>. QED BY <1>1, TypeCorrect, ManagerCorrect, MergeCorrect, WrittenCorrect, PTL

-----------------------------------------------------------------------------
(* The matchers, for words of any length.                                  *)

\* A word of m letters, the domain spelt out.
LEMMA WordLength ==
    ASSUME NEW L, NEW m \in Nat, NEW w \in [1 .. m -> L]
    PROVE  w \in Seq(L) /\ DOMAIN w = 1 .. m /\ Len(w) = m
<1>1. w \in Seq(L) /\ DOMAIN w = 1 .. m
  OBVIOUS
<1>. QED BY <1>1, LenProperties

\* What is left of a word of m letters without its i-th
Without(w, m, i) == [k \in 1 .. m - 1 |-> IF k < i THEN w[k] ELSE w[k + 1]]

LEMMA RemovedLetter ==
    ASSUME NEW L, NEW m \in Nat, NEW w \in [1 .. m -> L], NEW i \in 1 .. m
    PROVE  RemoveAt(w, i) = Without(w, m, i)
<1>. DEFINE front == SubSeq(w, 1, i - 1)
            back == SubSeq(w, i + 1, m)
            both == [k \in 1 .. m - 1 |-> IF k < i THEN w[k] ELSE w[k + 1]]
<1>1. w \in Seq(L) /\ Len(w) = m
  BY WordLength
<1>2. /\ front \in Seq(L) /\ Len(front) = i - 1
      /\ \A k \in 1 .. i - 1 : front[k] = w[k]
  <2>1. \A k \in 1 .. i - 1 : w[k] \in L
    BY <1>1
  <2>. QED BY <1>1, <2>1, SubSeqProperties
<1>3. /\ back \in Seq(L) /\ Len(back) = m - i
      /\ \A k \in 1 .. m - i : back[k] = w[i + k]
  <2>1. \A k \in i + 1 .. m : w[k] \in L
    BY <1>1
  <2>. QED BY <1>1, <2>1, SubSeqProperties
<1>4. RemoveAt(w, i) = front \o back
  BY <1>1 DEF RemoveAt
<1>. HIDE DEF front, back
<1>5. /\ front \o back \in Seq(L) /\ Len(front \o back) = m - 1
      /\ \A k \in 1 .. m - 1 : (front \o back)[k] = both[k]
  <2>1. Len(front) + Len(back) = m - 1
    BY <1>2, <1>3
  <2>2. front \o back \in Seq(L) /\ Len(front \o back) = m - 1
    BY <1>2, <1>3, <2>1, ConcatProperties
  <2>3. ASSUME NEW k \in 1 .. m - 1 PROVE (front \o back)[k] = both[k]
    <3>1. CASE k < i
      <4>1. k \in 1 .. i - 1 /\ (front \o back)[k] = front[k]
        BY <1>2, <1>3, <2>1, <3>1, ConcatProperties
      <4>. QED BY <1>2, <3>1, <4>1
    <3>2. CASE ~(k < i)
      <4>1. (front \o back)[k] = back[k - (i - 1)]
        BY <1>2, <1>3, <2>1, <3>2, ConcatProperties
      <4>2. k - (i - 1) \in 1 .. m - i /\ i + (k - (i - 1)) = k + 1
        BY <3>2
      <4>. QED BY <1>3, <3>2, <4>1, <4>2
    <3>. QED BY <3>1, <3>2
  <2>. QED BY <2>2, <2>3
<1>. DEFINE s == front \o back
<1>6. s \in Seq(L) /\ Len(s) = m - 1 /\ \A k \in 1 .. m - 1 : s[k] = both[k]
  BY <1>5
<1>7. s = both
  <2>. HIDE DEF s
  <2>1. s \in [1 .. m - 1 -> L]
    BY <1>6, LenProperties
  <2>. QED BY <1>6, <2>1
<1>. QED BY <1>4, <1>7 DEF Without

\* The loop that skips one letter of the longer word succeeds exactly if the
\* shorter one is left when that letter is taken out.
LEMMA OneSkippedIsRemoval ==
    ASSUME NEW L, NEW m \in Nat, NEW a \in [1 .. m -> L], NEW b \in [1 .. m + 1 -> L]
    PROVE  /\ OneSkipped(a, b) => \E i \in 1 .. m + 1 : a = RemoveAt(b, i)
           /\ (\E i \in 1 .. m + 1 : a = RemoveAt(b, i)) => OneSkipped(a, b)
<1>1. ASSUME NEW i \in 1 .. m + 1
      PROVE  a = RemoveAt(b, i) <=> \A k \in 1 .. m : a[k] = IF k < i THEN b[k] ELSE b[k + 1]
  <2>1. RemoveAt(b, i) = [k \in 1 .. m |-> IF k < i THEN b[k] ELSE b[k + 1]]
    <3>1. m + 1 \in Nat /\ m + 1 - 1 = m
      OBVIOUS
    <3>2. RemoveAt(b, i) = Without(b, m + 1, i)
      BY <3>1, RemovedLetter
    <3>. QED BY <3>1, <3>2 DEF Without
  <2>2. a = [k \in 1 .. m |-> a[k]]
    OBVIOUS
  <2>. QED BY <2>1, <2>2
<1>2. ASSUME OneSkipped(a, b) PROVE \E i \in 1 .. m + 1 : a = RemoveAt(b, i)
  <2>. DEFINE wrong == {k \in 1 .. m : a[k] # b[k]} \cup {m + 1}
  <2>1. wrong \subseteq Nat /\ wrong # {}
    OBVIOUS
  <2>2. PICK i \in wrong : \A n \in wrong : i <= n
    BY <2>1, LowestNumber
  <2>3. ASSUME NEW k \in 1 .. m PROVE a[k] = IF k < i THEN b[k] ELSE b[k + 1]
    <3>1. CASE k < i
      BY <2>2, <3>1
    <3>2. CASE ~(k < i)
      <4>1. i \in 1 .. k /\ a[i] # b[i]
        BY <2>2, <3>2
      <4>. QED BY <1>2, <3>2, <4>1 DEF OneSkipped
    <3>. QED BY <3>1, <3>2
  <2>. QED BY <1>1, <2>2, <2>3
<1>3. ASSUME NEW i \in 1 .. m + 1, a = RemoveAt(b, i) PROVE OneSkipped(a, b)
  <2>1. \A k \in 1 .. m : a[k] = IF k < i THEN b[k] ELSE b[k + 1]
    BY <1>1, <1>3
  <2>2. ASSUME NEW j \in 1 .. m, NEW k \in 1 .. j, a[k] # b[k]
        PROVE  a[j] = b[j + 1]
    <3>1. k \in 1 .. m /\ ~(k < i)
      BY <2>1, <2>2
    <3>. QED BY <2>1, <3>1
  <2>. QED BY <2>2 DEF OneSkipped
<1>. QED BY <1>2, <1>3

\* Two words of one length that differ in one place.
Mismatches(a, b, m) == {i \in 1 .. m : a[i] # b[i]}

LEMMA OneDiffersIsReplacement ==
    ASSUME NEW L, NEW m \in Nat, NEW a \in [1 .. m -> L], NEW b \in [1 .. m -> L]
    PROVE  /\ Cardinality(Mismatches(a, b, m)) = 1
                  => a # b /\ \E i \in 1 .. m, x \in L : b = ReplaceAt(a, i, x)
           /\ a # b /\ (\E i \in 1 .. m, x \in L : b = ReplaceAt(a, i, x))
                  => Cardinality(Mismatches(a, b, m)) = 1
<1>. DEFINE D == {i \in 1 .. m : a[i] # b[i]}
<1>0. Mismatches(a, b, m) = D
  BY DEF Mismatches
<1>1. IsFiniteSet(D)
  <2>1. IsFiniteSet(1 .. m)
    BY FS_Interval
  <2>. QED BY <2>1, FS_Subset
<1>2. Cardinality(D) = 1 <=> \E x : D = {x}
  <2>. HIDE DEF D
  <2>. QED BY <1>1, FS_Singleton
<1>3. ASSUME NEW i, D = {i}
      PROVE  a # b /\ \E j \in 1 .. m, x \in L : b = ReplaceAt(a, j, x)
  <2>1. i \in 1 .. m /\ a[i] # b[i] /\ b[i] \in L
    BY <1>3
  <2>2. b = ReplaceAt(a, i, b[i])
    BY <1>3, <2>1 DEF ReplaceAt
  <2>. QED BY <2>1, <2>2
<1>4. ASSUME a # b, NEW i \in 1 .. m, NEW x \in L, b = ReplaceAt(a, i, x)
      PROVE  D = {i}
  <2>1. \A k \in 1 .. m : k # i => a[k] = b[k]
    BY <1>4 DEF ReplaceAt
  <2>2. a[i] # b[i]
    BY <1>4, <2>1
  <2>. QED BY <2>1, <2>2
<1>. HIDE DEF D
<1>. QED BY <1>0, <1>2, <1>3, <1>4

\* One typo is one letter replaced, left out or put in.
OneChange(a, b, m, n, L) ==
    \/ \E i \in 1 .. n : a = RemoveAt(b, i)
    \/ \E i \in 1 .. m : b = RemoveAt(a, i)
    \/ a # b /\ \E i \in 1 .. m, x \in L : b = ReplaceAt(a, i, x)

LEMMA TypoIsOneChange ==
    ASSUME NEW L, NEW m \in Nat, NEW n \in Nat,
           NEW a \in [1 .. m -> L], NEW b \in [1 .. n -> L]
    PROVE  IsOneTypoApart(a, b) <=> OneChange(a, b, m, n, L)
<1>1. DOMAIN a = 1 .. m /\ Len(a) = m /\ DOMAIN b = 1 .. n /\ Len(b) = n
  BY WordLength
<1>2. ASSUME NEW i \in 1 .. n, a = RemoveAt(b, i) PROVE n = m + 1
  <2>1. a = Without(b, n, i)
    BY <1>2, RemovedLetter
  <2>2. 1 .. m = 1 .. n - 1 /\ n - 1 \in Nat
    BY <1>1, <2>1 DEF Without
  <2>3. m = n - 1
    BY <2>2
  <2>. QED BY <2>3
<1>3. ASSUME NEW i \in 1 .. m, b = RemoveAt(a, i) PROVE m = n + 1
  <2>1. b = Without(a, m, i)
    BY <1>3, RemovedLetter
  <2>2. 1 .. n = 1 .. m - 1 /\ m - 1 \in Nat
    BY <1>1, <2>1 DEF Without
  <2>3. n = m - 1
    BY <2>2
  <2>. QED BY <2>3
<1>4. ASSUME NEW i \in 1 .. m, NEW x \in L, b = ReplaceAt(a, i, x) PROVE m = n
  <2>1. 1 .. n = 1 .. m
    BY <1>1, <1>4 DEF ReplaceAt
  <2>. QED BY <2>1
<1>. DEFINE Out == \E i \in 1 .. n : a = RemoveAt(b, i)
            In == \E i \in 1 .. m : b = RemoveAt(a, i)
            Replaced == a # b /\ \E i \in 1 .. m, x \in L : b = ReplaceAt(a, i, x)
            Differ == Cardinality(Mismatches(a, b, m)) = 1
<1>5. (Out => n = m + 1) /\ (In => m = n + 1) /\ (Replaced => m = n)
  BY <1>2, <1>3, <1>4
<1>6. ASSUME m = n PROVE (Differ => Replaced) /\ (Replaced => Differ)
  <2>1. b \in [1 .. m -> L]
    BY <1>6
  <2>. QED BY <2>1, OneDiffersIsReplacement
<1>7. ASSUME n = m + 1 PROVE (OneSkipped(a, b) => Out) /\ (Out => OneSkipped(a, b))
  <2>1. b \in [1 .. m + 1 -> L]
    BY <1>7
  <2>2. /\ OneSkipped(a, b) => \E i \in 1 .. m + 1 : a = RemoveAt(b, i)
        /\ (\E i \in 1 .. m + 1 : a = RemoveAt(b, i)) => OneSkipped(a, b)
    BY <2>1, OneSkippedIsRemoval
  <2>. QED BY <1>7, <2>2
<1>8. ASSUME m = n + 1 PROVE (OneSkipped(b, a) => In) /\ (In => OneSkipped(b, a))
  <2>1. a \in [1 .. n + 1 -> L]
    BY <1>8
  <2>2. /\ OneSkipped(b, a) => \E i \in 1 .. n + 1 : b = RemoveAt(a, i)
        /\ (\E i \in 1 .. n + 1 : b = RemoveAt(a, i)) => OneSkipped(b, a)
    BY <2>1, OneSkippedIsRemoval
  <2>. QED BY <1>8, <2>2
<1>9. Mismatches(a, b, m) = {i \in 1 .. m : a[i] # b[i]}
  BY DEF Mismatches
<1>10. ASSUME IsOneTypoApart(a, b) PROVE Out \/ In \/ Replaced
  <2>1. \/ m = n /\ Differ
        \/ m + 1 = n /\ OneSkipped(a, b)
        \/ n + 1 = m /\ OneSkipped(b, a)
    BY <1>1, <1>9, <1>10 DEF IsOneTypoApart
  <2>. HIDE DEF Out, In, Replaced, Differ
  <2>. QED BY <2>1, <1>6, <1>7, <1>8
<1>11. ASSUME Out \/ In \/ Replaced PROVE IsOneTypoApart(a, b)
  <2>1. \/ m = n /\ Differ
        \/ m + 1 = n /\ OneSkipped(a, b)
        \/ n + 1 = m /\ OneSkipped(b, a)
    <3>. HIDE DEF Out, In, Replaced, Differ
    <3>. QED BY <1>5, <1>6, <1>7, <1>8, <1>11
  <2>. QED BY <2>1, <1>1, <1>9 DEF IsOneTypoApart
<1>. QED BY <1>10, <1>11 DEF OneChange

\* matched[j]: how many letters of s the first j of l have matched
MatchedUpTo(matched, s, l) ==
    /\ matched[0] = 0
    /\ \A j \in 1 .. Len(l) :
          matched[j] = IF matched[j - 1] < Len(s) /\ s[matched[j - 1] + 1] = l[j]
                       THEN matched[j - 1] + 1 ELSE matched[j - 1]
    /\ IsSubsequence(s, l) => matched[Len(l)] = Len(s)
    /\ matched[Len(l)] = Len(s) => IsSubsequence(s, l)

\* IsSubsequence goes through the letters one by one.
LEMMA LettersAreMatched ==
    ASSUME NEW s, NEW l, Len(s) \in Nat, Len(l) \in Nat
    PROVE  \E matched : MatchedUpTo(matched, s, l)
<1>. DEFINE N == Len(l)
            next(j, i) == IF i < Len(s) /\ s[i + 1] = l[j] THEN i + 1 ELSE i
            advance == [z \in (1 .. N) \X Nat |-> next(z[1], z[2])]
            Solves(y) == y = [j \in 0 .. N |-> IF j = 0 THEN 0 ELSE next(j, y[j - 1])]
<1>1. N \in Nat
  OBVIOUS
<1>2. advance \in [(1 .. N) \X Nat -> Nat]
  OBVIOUS
<1>3. PICK g \in [0 .. N -> Nat] : Recursive(g, N, 0, advance)
  <2>. HIDE DEF N, advance
  <2>. QED BY <1>1, <1>2, Recursion
<1>4. ASSUME NEW k \in 1 .. N PROVE k - 1 \in 0 .. N /\ k # 0 /\ g[k] = next(k, g[k - 1])
  <2>1. k - 1 \in 0 .. N /\ k # 0 /\ g[k - 1] \in Nat
    BY <1>1
  <2>2. g[k] = advance[<<k, g[k - 1]>>]
    BY <1>3 DEF Recursive
  <2>. QED BY <2>1, <2>2
<1>5. Solves(g)
  <2>1. \A k \in 0 .. N : k = 0 \/ k \in 1 .. N
    BY <1>1
  <2>. QED BY <1>3, <1>4, <2>1 DEF Recursive
<1>. DEFINE matched == CHOOSE y : Solves(y)
<1>6. Solves(matched)
  BY <1>5
<1>7. /\ IsSubsequence(s, l) => matched[N] = Len(s)
      /\ matched[N] = Len(s) => IsSubsequence(s, l)
  BY DEF IsSubsequence
<1>8. /\ matched[0] = 0
      /\ \A j \in 1 .. N : matched[j] = next(j, matched[j - 1])
  <2>1. 0 \in 0 .. N /\ \A k \in 1 .. N : k \in 0 .. N /\ k # 0
    BY <1>1
  <2>. HIDE DEF matched
  <2>. QED BY <1>6, <2>1
<1>9. MatchedUpTo(matched, s, l)
  <2>. HIDE DEF matched
  <2>. QED BY <1>7, <1>8 DEF MatchedUpTo
<1>. QED BY <1>9

\* The letters of s up to the k-th stand in l up to the j-th, in their order.
StandIn(at, s, k, l, j) ==
    /\ at \in [1 .. k -> 1 .. j]
    /\ \A i \in 1 .. k : s[i] = l[at[i]]
    /\ \A i, h \in 1 .. k : i < h => at[i] < at[h]

\* What has been matched is there.
LEMMA MatchedStand ==
    ASSUME NEW s, NEW l, Len(s) \in Nat, Len(l) \in Nat,
           NEW matched, MatchedUpTo(matched, s, l)
    PROVE  \A j \in 0 .. Len(l) : matched[j] \in 0 .. Len(s)
                                  /\ \E at : StandIn(at, s, matched[j], l, j)
<1>. DEFINE Good(j) == matched[j] \in 0 .. Len(s) /\ \E at : StandIn(at, s, matched[j], l, j)
            T == {j \in Nat : j <= Len(l) => Good(j)}
<1>1. 0 \in T
  <2>1. matched[0] = 0
    BY DEF MatchedUpTo
  <2>2. StandIn([i \in 1 .. 0 |-> i], s, 0, l, 0)
    BY DEF StandIn
  <2>. QED BY <2>1, <2>2
<1>2. ASSUME NEW j \in Nat, j \in T PROVE j + 1 \in T
  <2>1. SUFFICES ASSUME j + 1 <= Len(l) PROVE Good(j + 1)
    OBVIOUS
  <2>2. Good(j) /\ j + 1 \in 1 .. Len(l) /\ j + 1 - 1 = j
    BY <1>2, <2>1
  <2>. DEFINE k == matched[j]
  <2>3. k \in Nat /\ k <= Len(s)
    BY <2>2
  <2>4. PICK at : StandIn(at, s, k, l, j)
    BY <2>2
  <2>5. matched[j + 1] = IF k < Len(s) /\ s[k + 1] = l[j + 1] THEN k + 1 ELSE k
    BY <2>2 DEF MatchedUpTo
  <2>6. CASE k < Len(s) /\ s[k + 1] = l[j + 1]
    <3>. DEFINE wider == [i \in 1 .. k + 1 |-> IF i = k + 1 THEN j + 1 ELSE at[i]]
    <3>. HIDE DEF k
    <3>1. at \in [1 .. k -> 1 .. j] /\ \A i \in 1 .. k : at[i] \in 1 .. j /\ at[i] < j + 1
      BY <2>4 DEF StandIn
    <3>2. \A i \in 1 .. k + 1 : i = k + 1 \/ i \in 1 .. k
      BY <2>3
    <3>3. wider \in [1 .. k + 1 -> 1 .. j + 1]
      <4>1. \A i \in 1 .. k + 1 : (IF i = k + 1 THEN j + 1 ELSE at[i]) \in 1 .. j + 1
        BY <3>1, <3>2
      <4>. QED BY <4>1
    <3>4. \A i \in 1 .. k + 1 : wider[i] = IF i = k + 1 THEN j + 1 ELSE at[i]
      OBVIOUS
    <3>. HIDE DEF wider
    <3>5. \A i \in 1 .. k + 1 : s[i] = l[wider[i]]
      BY <2>4, <2>6, <3>2, <3>4 DEF StandIn
    <3>6. \A i, h \in 1 .. k + 1 : i < h => wider[i] < wider[h]
      <4>1. ASSUME NEW i \in 1 .. k + 1, NEW h \in 1 .. k + 1, i < h PROVE wider[i] < wider[h]
        <5>1. i \in 1 .. k /\ i # k + 1
          BY <2>3, <4>1
        <5>2. CASE h = k + 1
          BY <3>1, <3>4, <5>1, <5>2
        <5>3. CASE h # k + 1
          BY <2>4, <3>2, <3>4, <4>1, <5>1, <5>3 DEF StandIn
        <5>. QED BY <5>2, <5>3
      <4>. QED BY <4>1
    <3>7. StandIn(wider, s, k + 1, l, j + 1)
      BY <3>3, <3>5, <3>6 DEF StandIn
    <3>. QED BY <2>3, <2>5, <2>6, <3>7
  <2>7. CASE ~(k < Len(s) /\ s[k + 1] = l[j + 1])
    <3>1. 1 .. j \subseteq 1 .. j + 1
      OBVIOUS
    <3>2. StandIn(at, s, k, l, j + 1)
      BY <2>4, <3>1 DEF StandIn
    <3>. QED BY <2>3, <2>5, <2>7, <3>2
  <2>. QED BY <2>6, <2>7
<1>3. Nat \subseteq T
  <2>. HIDE DEF T
  <2>. QED BY <1>1, <1>2, Induction
<1>4. \A j \in 0 .. Len(l) : j \in T
  BY <1>3
<1>. QED BY <1>4

\* Whatever stands in the longer word is matched no later than where it stands.
LEMMA StandingAreMatched ==
    ASSUME NEW s, NEW l, Len(s) \in Nat, Len(l) \in Nat,
           NEW matched, MatchedUpTo(matched, s, l),
           NEW at, StandIn(at, s, Len(s), l, Len(l))
    PROVE  \A j \in 0 .. Len(l) : \A i \in 1 .. Len(s) : at[i] <= j => i <= matched[j]
<1>. DEFINE T == {j \in Nat : j <= Len(l) => \A i \in 1 .. Len(s) : at[i] <= j => i <= matched[j]}
<1>1. 0 \in T
  BY DEF StandIn
<1>2. ASSUME NEW j \in Nat, j \in T PROVE j + 1 \in T
  <2>1. SUFFICES ASSUME j + 1 <= Len(l), NEW i \in 1 .. Len(s), at[i] <= j + 1
                 PROVE  i <= matched[j + 1]
    OBVIOUS
  <2>2. /\ \A h \in 1 .. Len(s) : at[h] <= j => h <= matched[j]
        /\ j + 1 \in 1 .. Len(l) /\ j + 1 - 1 = j /\ j \in 0 .. Len(l)
    BY <1>2, <2>1
  <2>. DEFINE k == matched[j]
  <2>3. k \in 0 .. Len(s)
    BY <2>2, MatchedStand
  <2>4. matched[j + 1] = IF k < Len(s) /\ s[k + 1] = l[j + 1] THEN k + 1 ELSE k
    BY <2>2 DEF MatchedUpTo
  <2>5. at[i] \in 1 .. Len(l) /\ s[i] = l[at[i]]
    BY DEF StandIn
  <2>6. CASE at[i] <= j
    BY <2>2, <2>3, <2>4, <2>6
  <2>7. CASE at[i] = j + 1
    <3>1. i - 1 <= k
      <4>1. CASE i = 1
        BY <2>3, <4>1
      <4>2. CASE i # 1
        <5>1. i - 1 \in 1 .. Len(s) /\ i - 1 < i
          BY <4>2
        <5>2. at[i - 1] \in 1 .. Len(l) /\ at[i - 1] < at[i]
          BY <5>1 DEF StandIn
        <5>. QED BY <2>2, <2>7, <5>1, <5>2
      <4>. QED BY <4>1, <4>2
    <3>2. k = i - 1 => k < Len(s) /\ s[k + 1] = l[j + 1]
      BY <2>5, <2>7
    <3>. QED BY <2>3, <2>4, <3>1, <3>2
  <2>. QED BY <2>1, <2>5, <2>6, <2>7
<1>3. Nat \subseteq T
  <2>. HIDE DEF T
  <2>. QED BY <1>1, <1>2, Induction
<1>4. \A j \in 0 .. Len(l) : j \in T
  BY <1>3
<1>. QED BY <1>4

\* Although it never goes back, the loop finds a subsequence exactly if there is
\* one.
LEMMA GreedyIsEnough ==
    ASSUME NEW s, NEW l, Len(s) \in Nat, Len(l) \in Nat
    PROVE  /\ IsSubsequence(s, l) => \E at : StandIn(at, s, Len(s), l, Len(l))
           /\ (\E at : StandIn(at, s, Len(s), l, Len(l))) => IsSubsequence(s, l)
<1>1. PICK matched : MatchedUpTo(matched, s, l)
  BY LettersAreMatched
<1>2. Len(l) \in 0 .. Len(l)
  OBVIOUS
<1>3. matched[Len(l)] \in 0 .. Len(s) /\ \E at : StandIn(at, s, matched[Len(l)], l, Len(l))
  BY <1>1, <1>2, MatchedStand
<1>4. ASSUME NEW at, StandIn(at, s, Len(s), l, Len(l)) PROVE IsSubsequence(s, l)
  <2>1. \A i \in 1 .. Len(s) : at[i] <= Len(l) => i <= matched[Len(l)]
    BY <1>1, <1>2, <1>4, StandingAreMatched
  <2>2. Len(s) <= matched[Len(l)]
    <3>1. CASE Len(s) = 0
      BY <1>3, <3>1
    <3>2. CASE Len(s) # 0
      <4>1. Len(s) \in 1 .. Len(s)
        BY <3>2
      <4>2. at[Len(s)] \in 1 .. Len(l)
        BY <1>4, <4>1 DEF StandIn
      <4>. QED BY <2>1, <4>1, <4>2
    <3>. QED BY <3>1, <3>2
  <2>3. matched[Len(l)] = Len(s)
    BY <1>3, <2>2
  <2>. QED BY <1>1, <2>3 DEF MatchedUpTo
<1>5. ASSUME IsSubsequence(s, l) PROVE \E at : StandIn(at, s, Len(s), l, Len(l))
  <2>1. matched[Len(l)] = Len(s)
    BY <1>1, <1>5 DEF MatchedUpTo
  <2>. QED BY <1>3, <2>1
<1>. QED BY <1>4, <1>5

\* On words of any letters and any length the matchers do what they are for: one
\* typo is one letter replaced, left out or put in, and a subsequence is what is
\* left when letters are left out.
THEOREM MatchersExact ==
    ASSUME NEW letters, NEW length \in Nat
    PROVE  MatchersAreExact(letters, length)
<1>1. ASSUME NEW a \in BoundedSeq(letters, length), NEW b \in BoundedSeq(letters, length)
      PROVE
      /\ IsOneTypoApart(a, b) <=>
            \/ \E i \in DOMAIN b : a = RemoveAt(b, i)
            \/ \E i \in DOMAIN a : b = RemoveAt(a, i)
            \/ a # b /\ \E i \in DOMAIN a, x \in letters : b = ReplaceAt(a, i, x)
      /\ IsSubsequence(a, b) <=>
            \E at \in [DOMAIN a -> DOMAIN b] :
               /\ \A i \in DOMAIN a : a[i] = b[at[i]]
               /\ \A i, k \in DOMAIN a : i < k => at[i] < at[k]
  <2>1. PICK m \in Nat, n \in Nat : a \in [1 .. m -> letters] /\ b \in [1 .. n -> letters]
    <3>1. PICK m \in 0 .. length : a \in [1 .. m -> letters]
      BY DEF BoundedSeq, SeqOf
    <3>2. PICK n \in 0 .. length : b \in [1 .. n -> letters]
      BY DEF BoundedSeq, SeqOf
    <3>3. m \in Nat /\ n \in Nat
      OBVIOUS
    <3>. QED BY <3>1, <3>2, <3>3
  <2>2. DOMAIN a = 1 .. m /\ Len(a) = m /\ DOMAIN b = 1 .. n /\ Len(b) = n
    BY <2>1, WordLength
  <2>3. IsOneTypoApart(a, b) <=> OneChange(a, b, m, n, letters)
    BY <2>1, TypoIsOneChange
  <2>. DEFINE Stands == \E at : StandIn(at, a, m, b, n)
              Subsequence == \E at \in [1 .. m -> 1 .. n] :
                                /\ \A i \in 1 .. m : a[i] = b[at[i]]
                                /\ \A i, k \in 1 .. m : i < k => at[i] < at[k]
  <2>4. (IsSubsequence(a, b) => Stands) /\ (Stands => IsSubsequence(a, b))
    <3>1. Len(a) \in Nat /\ Len(b) \in Nat
      BY <2>1, <2>2
    <3>2. /\ IsSubsequence(a, b) => \E at : StandIn(at, a, Len(a), b, Len(b))
          /\ (\E at : StandIn(at, a, Len(a), b, Len(b))) => IsSubsequence(a, b)
      BY <3>1, GreedyIsEnough
    <3>. QED BY <2>2, <3>2
  <2>5. (Stands => Subsequence) /\ (Subsequence => Stands)
    BY DEF StandIn
  <2>6. (IsSubsequence(a, b) => Subsequence) /\ (Subsequence => IsSubsequence(a, b))
    <3>. HIDE DEF Stands, Subsequence
    <3>. QED BY <2>4, <2>5
  <2>7. IsSubsequence(a, b) <=> Subsequence
    BY <2>6
  <2>. QED BY <2>2, <2>3, <2>7 DEF OneChange
<1>. QED BY <1>1 DEF MatchersAreExact

=============================================================================
