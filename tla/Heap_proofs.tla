------------------------------ MODULE Heap_proofs ------------------------------
(***************************************************************************)
(* Proofs about Heap, for any number of pools, blocks and traps.           *)
(*                                                                         *)
(* Nothing the runs check of the lists is inductive by itself.  What is,   *)
(* is that the links represent one sequence of nodes per list, no node on  *)
(* two of them, that the elements and the trap list's nodes agree about    *)
(* who has a block, and that no trap has two nodes: HeapInv.  Each list    *)
(* operation is first shown to do to the sequences what its name says and  *)
(* to leave all other links alone (PushBackAppends, EraseTakes, ...), then *)
(* each operation of the heap is put together from these (AllocStep,       *)
(* FreeStep, RegisterStep, RemoveStep), and the theorems follow from what  *)
(* those four say.                                                         *)
(*                                                                         *)
(* A walk over a list is a recursive function and a choice of the first    *)
(* null pointer.  That it finds the list's sequence, and that there is a   *)
(* smallest pool to serve a request, needs least elements of sets of       *)
(* naturals; LeastNat gets them from the pigeonhole principle.             *)
(***************************************************************************)
EXTENDS Heap, FiniteSetTheorems, SequenceTheorems, TLAPS

-----------------------------------------------------------------------------
(* Naturals. *)

\* A set of naturals has a least element, by the pigeonhole principle: otherwise adding one
\* would map the numbers below all of them into themselves without zero.
LEMMA LeastNat ==
    ASSUME NEW T, T \subseteq Nat, T # {}
    PROVE  \E x \in T: \A y \in T: x <= y
<1>1. SUFFICES ASSUME \A x \in T: \E y \in T: y < x PROVE FALSE
  <2>1. PICK x \in T : TRUE
    OBVIOUS
  <2> QED
    BY <2>1
<1>2. PICK x \in T : TRUE
  OBVIOUS
<1> DEFINE Below == {n \in 0 .. x : \A y \in T: n < y}
<1>3. 0 \in Below
  BY <1>1, <1>2
<1>4. ASSUME NEW n \in Below PROVE n + 1 \in Below \ {0}
  <2>1. n + 1 \in T => \E y \in T: y < n + 1
    BY <1>1
  <2>2. \A y \in T: n < y /\ y \in Nat
    OBVIOUS
  <2>3. n + 1 \notin T
    BY <2>1, <2>2
  <2>4. \A y \in T: n + 1 < y
    BY <2>2, <2>3
  <2> QED
    BY <2>4, <1>2
<1>5. IsFiniteSet(Below) /\ IsFiniteSet(Below \ {0})
      /\ Cardinality(Below \ {0}) = Cardinality(Below) - 1
  <2>1. IsFiniteSet(0 .. x)
    BY <1>2, FS_Interval
  <2>2. IsFiniteSet(Below)
    BY <2>1, FS_Subset
  <2> QED
    BY <2>2, <1>3, FS_RemoveElement
<1>6. Cardinality(Below) \in Nat
  BY <1>5, FS_CardinalityType
<1> DEFINE succ == [n \in Below |-> n + 1]
<1>7. succ \in [Below -> Below \ {0}]
  BY <1>4
<1>8. \E m, n \in Below: m # n /\ succ[m] = succ[n]
  <2> HIDE DEF Below, succ
  <2> QED
    BY <1>5, <1>6, <1>7, FS_PigeonHole
<1> QED
  BY <1>8

-----------------------------------------------------------------------------
(* Nodes. *)

\* The null pointer points to no node.
LEMMA NullIsNoNode == Null \notin Nodes
  BY DEF Null, Nodes

\* A node can be on a list without repetitions at one place only.
LEMMA NodesFinite == IsFiniteSet(Nodes) /\ NrNodes \in Nat
<1>1. IsFiniteSet(Blocks)
  <2>1. IsFiniteSet(Pools) /\ IsFiniteSet(1 .. PagePool)
    BY HeapSizes, FS_Interval DEF Pools
  <2>2. IsFiniteSet(Pools \X (1 .. PagePool))
    BY <2>1, FS_Product
  <2> QED
    BY <2>2, FS_Subset DEF Blocks
<1> DEFINE Pairs == Blocks \X {"element", "data"}
<1>2. IsFiniteSet(Pairs)
  <2>1. IsFiniteSet({"element"} \union {"data"})
    BY FS_Singleton, FS_Union
  <2>2. {"element"} \union {"data"} = {"element", "data"}
    OBVIOUS
  <2> QED
    BY <1>1, <2>1, <2>2, FS_Product
<1> DEFINE f == [n \in Nodes |-> <<n.of, n.at>>]
<1>3. f \in Injection(Nodes, Pairs)
  <2>1. f \in [Nodes -> Pairs]
    BY DEF Nodes
  <2>2. ASSUME NEW m \in Nodes, NEW n \in Nodes, f[m] = f[n] PROVE m = n
    BY <2>2 DEF Nodes
  <2> QED
    BY <2>1, <2>2 DEF Injection, IsInjective
<1>4. IsFiniteSet(Nodes)
  <2> HIDE DEF Pairs, f
  <2> QED
    BY <1>2, <1>3, FS_Injection
<1> QED
  BY <1>4, FS_CardinalityType DEF NrNodes

\* A list of nodes without repetitions is no longer than their number.
LEMMA NoLongerThanNodes ==
    ASSUME NEW w \in Seq(Nodes), \A i, j \in 1 .. Len(w): w[i] = w[j] => i = j
    PROVE  Len(w) <= NrNodes
<1>1. w \in Injection(1 .. Len(w), Nodes)
  <2>1. w \in [1 .. Len(w) -> Nodes] /\ DOMAIN w = 1 .. Len(w)
    OBVIOUS
  <2> QED
    BY <2>1 DEF Injection, IsInjective
<1>2. Cardinality(1 .. Len(w)) <= Cardinality(Nodes)
  BY <1>1, NodesFinite, FS_Injection
<1>3. Cardinality(1 .. Len(w)) = Len(w)
  <2>1. Len(w) \in Nat
    OBVIOUS
  <2>2. PICK n \in Nat : n = Len(w)
    BY <2>1
  <2>3. Cardinality(1 .. n) = IF 1 > n THEN 0 ELSE n - 1 + 1
    BY FS_Interval
  <2> QED
    BY <2>2, <2>3
<1> QED
  BY <1>2, <1>3 DEF NrNodes

-----------------------------------------------------------------------------
(* Walking a list. *)

\* The links of g chain the nodes of w, one after the other, from the head of l on.
Chain(g, l, w) ==
    /\ w \in Seq(Nodes)
    /\ \A i, j \in 1 .. Len(w): w[i] = w[j] => i = j
    /\ g.first[l] = IF w = <<>> THEN Null ELSE w[1]
    /\ g.last[l] = IF w = <<>> THEN Null ELSE w[Len(w)]
    /\ g.sz[l] = Len(w)
    /\ \A i \in 1 .. Len(w): g.next[w[i]] = IF i = Len(w) THEN Null ELSE w[i + 1]
    /\ \A i \in 1 .. Len(w): g.prev[w[i]] = IF i = 1 THEN Null ELSE w[i - 1]

\* The walk over a list of which w is the chain finds the nodes of w.
LEMMA WalkOfChain ==
    ASSUME NEW g, NEW l, NEW w, Chain(g, l, w)
    PROVE  Walk(g, l) = w
<1> DEFINE N == NrNodes
           at == CHOOSE at: at = [n \in 0 .. N |->
                    IF n = 0 THEN g.first[l]
                    ELSE IF at[n - 1] = Null THEN Null ELSE g.next[at[n - 1]]]
           ended(n) == (at[n] = Null \/ n = N) /\ \A m \in 0 .. n - 1: at[m] # Null
           length == CHOOSE n \in 0 .. N: ended(n)
           f == [n \in 0 .. N |-> IF n < Len(w) THEN w[n + 1] ELSE Null]
<1>1. Walk(g, l) = [i \in 1 .. length |-> at[i - 1]]
  BY DEF Walk
<1>2. N \in Nat /\ Len(w) \in 0 .. N /\ w \in Seq(Nodes)
  BY NodesFinite, NoLongerThanNodes DEF Chain
<1>3. f = [n \in 0 .. N |->
              IF n = 0 THEN g.first[l]
              ELSE IF f[n - 1] = Null THEN Null ELSE g.next[f[n - 1]]]
  <2>1. ASSUME NEW n \in 0 .. N
        PROVE  f[n] = IF n = 0 THEN g.first[l]
                      ELSE IF f[n - 1] = Null THEN Null ELSE g.next[f[n - 1]]
    <3>1. CASE n = 0
      BY <3>1, <1>2 DEF Chain
    <3>2. CASE n # 0 /\ n - 1 < Len(w)
      <4>1. f[n - 1] = w[n] /\ w[n] \in Nodes /\ n \in DOMAIN w
        BY <3>2, <1>2
      <4>2. g.next[w[n]] = IF n = Len(w) THEN Null ELSE w[n + 1]
        BY <4>1 DEF Chain
      <4>3. n \in 1 .. Len(w) /\ w[n] # Null
        BY <3>2, <4>1, <1>2, NullIsNoNode
      <4>4. f[n] = IF n = Len(w) THEN Null ELSE w[n + 1]
        BY <4>3, <1>2
      <4> QED
        BY <3>2, <4>1, <4>2, <4>3, <4>4
    <3>3. CASE n # 0 /\ n - 1 >= Len(w)
      <4>1. f[n - 1] = Null /\ f[n] = Null
        BY <3>3, <1>2
      <4> QED
        BY <4>1, <3>3
    <3> QED
      BY <3>1, <3>2, <3>3, <1>2
  <2> HIDE DEF N
  <2>2. f = [n \in 0 .. N |-> f[n]]
    BY SMTT(20)
  <2> HIDE DEF f
  <2> QED
    BY <2>1, <2>2
<1>4. at = [n \in 0 .. N |->
              IF n = 0 THEN g.first[l]
              ELSE IF at[n - 1] = Null THEN Null ELSE g.next[at[n - 1]]]
  <2> HIDE DEF f, N
  <2> QED
    BY <1>3
<1> HIDE DEF at
<1>5. \A n \in 0 .. N: at[n] = f[n]
  <2> DEFINE Wrong == {n \in 0 .. N : at[n] # f[n]}
  <2>1. SUFFICES ASSUME Wrong # {} PROVE FALSE
    OBVIOUS
  <2> HIDE DEF f, N
  <2>2. PICK n \in Wrong : \A m \in Wrong: n <= m
    <3>1. Wrong \subseteq Nat
      BY <1>2
    <3> HIDE DEF Wrong
    <3> QED
      BY <2>1, <3>1, LeastNat
  <2>3. n = 0 \/ (n - 1 \in 0 .. N /\ at[n - 1] = f[n - 1])
    BY <2>2, <1>2
  <2>4. at[n] = f[n]
    BY <1>3, <1>4, <2>3
  <2> QED
    BY <2>2, <2>4
<1>6. ended(Len(w)) /\ \A n \in 0 .. N: ended(n) => n = Len(w)
  <2>1. \A n \in 0 .. Len(w) - 1: at[n] # Null
    BY <1>2, <1>5, NullIsNoNode
  <2>2. Len(w) < N => at[Len(w)] = Null
    BY <1>2, <1>5
  <2> HIDE DEF f, N
  <2>3. ended(Len(w))
    BY <1>2, <2>1, <2>2
  <2>4. ASSUME NEW n \in 0 .. N, ended(n) PROVE n = Len(w)
    <3>1. ~ (n < Len(w))
      BY <2>1, <2>4, <1>2
    <3>2. ~ (Len(w) < n)
      BY <2>2, <2>4, <1>2
    <3> QED
      BY <3>1, <3>2, <1>2
  <2> QED
    BY <2>3, <2>4
<1>7. length = Len(w)
  <2> HIDE DEF ended, N
  <2> QED
    BY <1>2, <1>6
<1>8. \A i \in 1 .. Len(w): at[i - 1] = w[i]
  BY <1>2, <1>5
<1> HIDE DEF length
<1> QED
  BY <1>1, <1>2, <1>7, <1>8

-----------------------------------------------------------------------------
(* All lists. *)

\* What the record of all links and heads is.
HeapType == [next : [Nodes -> Links], prev : [Nodes -> Links],
             first : [Lists -> Links], last : [Lists -> Links],
             sz : [Lists -> Nat], trap : [Blocks -> Traps \union {"none"}]]

\* The lists of g are the sequences of W, and no node is on two of them.
Represents(g, W) ==
    /\ W \in [Lists -> Seq(Nodes)]
    /\ \A l \in Lists: Chain(g, l, W[l])
    /\ \A l, k \in Lists: \A i \in 1 .. Len(W[l]), j \in 1 .. Len(W[k]):
           W[l][i] = W[k][j] => l = k

\* The node is on no list of W.
Loose(e, W) == \A l \in Lists: \A i \in 1 .. Len(W[l]): W[l][i] # e

\* Walking any list of g finds its sequence.
LEMMA WalkOfRepresented ==
    ASSUME NEW g, NEW W, Represents(g, W), NEW l \in Lists
    PROVE  Walk(g, l) = W[l]
BY WalkOfChain DEF Represents

\* What a chain is worth at each of its places.
LEMMA ChainPlaces ==
    ASSUME NEW g, NEW l, NEW w, Chain(g, l, w)
    PROVE  /\ Len(w) \in Nat /\ DOMAIN w = 1 .. Len(w) /\ (w = <<>> <=> Len(w) = 0)
           /\ \A i \in 1 .. Len(w): w[i] \in Nodes /\ w[i] # Null
<1>1. w \in Seq(Nodes)
  BY DEF Chain
<1>2. /\ Len(w) \in Nat /\ DOMAIN w = 1 .. Len(w) /\ (w = <<>> <=> Len(w) = 0)
      /\ \A i \in 1 .. Len(w): w[i] \in Nodes
  BY <1>1
<1> QED
  BY <1>2, NullIsNoNode

\* A chain is kept by whatever does not change its list and the links of its nodes.
LEMMA ChainFrame ==
    ASSUME NEW g, NEW l, NEW w, Chain(g, l, w), NEW f,
           f.first[l] = g.first[l], f.last[l] = g.last[l], f.sz[l] = g.sz[l],
           \A i \in 1 .. Len(w): f.next[w[i]] = g.next[w[i]] /\ f.prev[w[i]] = g.prev[w[i]]
    PROVE  Chain(f, l, w)
BY DEF Chain

\* push_back appends a node that is on no list.
LEMMA PushBackAppends ==
    ASSUME NEW g \in HeapType, NEW W, Represents(g, W),
           NEW l \in Lists, NEW e \in Nodes, Loose(e, W)
    PROVE  /\ PushBack(g, l, e) \in HeapType
           /\ Represents(PushBack(g, l, e), [W EXCEPT ![l] = Append(W[l], e)])
           /\ PushBack(g, l, e).trap = g.trap
           /\ \A n \in Nodes: n # e /\ (\A i \in 1 .. Len(W[l]): W[l][i] # n)
                  => /\ PushBack(g, l, e).next[n] = g.next[n]
                     /\ PushBack(g, l, e).prev[n] = g.prev[n]
<1> DEFINE G == PushBack(g, l, e)
           old == g.last[l]
           V == [W EXCEPT ![l] = Append(W[l], e)]
<1>1. /\ G.next = [n \in Nodes |-> IF n = e THEN Null ELSE IF n = old THEN e ELSE g.next[n]]
      /\ G.prev = [g.prev EXCEPT ![e] = old]
      /\ G.first = [g.first EXCEPT ![l] = IF g.first[l] = Null THEN e ELSE g.first[l]]
      /\ G.last = [g.last EXCEPT ![l] = e]
      /\ G.sz = [g.sz EXCEPT ![l] = g.sz[l] + 1]
      /\ G.trap = g.trap
  BY DEF PushBack, HeapType
<1>2. G \in HeapType
  BY DEF PushBack, HeapType, Links
<1> HIDE DEF G
<1>3. PICK w : w = W[l]
  OBVIOUS
<1>4. PICK v : v = Append(w, e)
  OBVIOUS
<1>5. w \in Seq(Nodes) /\ Chain(g, l, w) /\ \A i \in 1 .. Len(w): w[i] # e
  BY <1>3 DEF Represents, Loose
<1>6. /\ Len(w) \in Nat /\ (w = <<>> <=> Len(w) = 0)
      /\ \A i \in 1 .. Len(w): w[i] \in Nodes /\ w[i] # Null
  BY <1>5, ChainPlaces
<1>7. /\ v \in Seq(Nodes) /\ Len(v) = Len(w) + 1 /\ v # <<>>
      /\ v[Len(w) + 1] = e /\ \A i \in 1 .. Len(w): v[i] = w[i]
  BY <1>4, <1>5
<1>8. old = (IF Len(w) = 0 THEN Null ELSE w[Len(w)]) /\ e # Null /\ old # e
  BY <1>5, <1>6, NullIsNoNode DEF Chain
<1>9. V \in [Lists -> Seq(Nodes)] /\ V[l] = v /\ \A k \in Lists: k # l => V[k] = W[k]
  BY <1>3, <1>4, <1>7 DEF Represents
<1> HIDE DEF V, old
<1>10. Chain(G, l, v)
  <2>1. ASSUME NEW i \in 1 .. Len(v), NEW j \in 1 .. Len(v), v[i] = v[j] PROVE i = j
    <3>1. \A m \in 1 .. Len(v): m = Len(w) + 1 \/ (m \in 1 .. Len(w) /\ v[m] = w[m] /\ w[m] # e)
      BY <1>5, <1>6, <1>7
    <3>2. \A m, n \in 1 .. Len(w): w[m] = w[n] => m = n
      BY <1>5 DEF Chain
    <3> QED
      BY <2>1, <3>1, <3>2, <1>7
  <2>2. G.first[l] = v[1]
    BY <1>1, <1>5, <1>6, <1>7, <1>8 DEF Chain, HeapType
  <2>3. G.last[l] = v[Len(v)] /\ G.sz[l] = Len(v)
    BY <1>1, <1>5, <1>7 DEF Chain, HeapType
  <2>4. ASSUME NEW i \in 1 .. Len(v)
        PROVE  /\ G.next[v[i]] = IF i = Len(v) THEN Null ELSE v[i + 1]
               /\ G.prev[v[i]] = IF i = 1 THEN Null ELSE v[i - 1]
    <3>1. CASE i = Len(w) + 1
      BY <3>1, <1>1, <1>6, <1>7, <1>8 DEF HeapType
    <3>2. CASE i # Len(w) + 1
      <4>1. i \in 1 .. Len(w) /\ v[i] = w[i] /\ w[i] \in Nodes /\ w[i] # e
        BY <3>2, <1>5, <1>6, <1>7
      <4>2. w[i] = old <=> i = Len(w)
        BY <4>1, <1>5, <1>6, <1>8 DEF Chain
      <4>3. /\ g.next[w[i]] = IF i = Len(w) THEN Null ELSE w[i + 1]
            /\ g.prev[w[i]] = IF i = 1 THEN Null ELSE w[i - 1]
        BY <4>1, <1>5 DEF Chain
      <4>4. G.next[w[i]] = (IF i = Len(w) THEN e ELSE w[i + 1]) /\ G.prev[w[i]] = g.prev[w[i]]
        BY <4>1, <4>2, <4>3, <1>1 DEF HeapType
      <4> QED
        BY <3>2, <4>1, <4>3, <4>4, <1>6, <1>7
    <3> QED
      BY <3>1, <3>2
  <2> QED
    BY <1>7, <2>1, <2>2, <2>3, <2>4 DEF Chain
<1>11. ASSUME NEW k \in Lists, k # l PROVE Chain(G, k, W[k])
  <2>1. Chain(g, k, W[k])
    BY DEF Represents
  <2>2. \A i \in 1 .. Len(W[k]): W[k][i] \in Nodes /\ W[k][i] # Null /\ W[k][i] # e
    BY <2>1, ChainPlaces DEF Loose
  <2>3. \A i \in 1 .. Len(W[k]): W[k][i] # old
    BY <1>3, <1>6, <1>8, <1>11, <2>2 DEF Represents
  <2>4. \A i \in 1 .. Len(W[k]): G.next[W[k][i]] = g.next[W[k][i]] /\ G.prev[W[k][i]] = g.prev[W[k][i]]
    BY <1>1, <2>2, <2>3 DEF HeapType
  <2>5. G.first[k] = g.first[k] /\ G.last[k] = g.last[k] /\ G.sz[k] = g.sz[k]
    BY <1>1, <1>11 DEF HeapType
  <2> QED
    BY <2>1, <2>4, <2>5, ChainFrame
<1>12. ASSUME NEW j \in Lists, NEW k \in Lists, NEW m \in 1 .. Len(V[j]), NEW n \in 1 .. Len(V[k]),
              V[j][m] = V[k][n]
       PROVE  j = k
  <2>1. ASSUME NEW q \in Lists, NEW i \in 1 .. Len(V[q])
        PROVE  (i \in 1 .. Len(W[q]) /\ V[q][i] = W[q][i]) \/ (q = l /\ V[q][i] = e)
    <3>1. CASE q = l
      BY <3>1, <2>1, <1>3, <1>6, <1>7, <1>9, SMTT(20)
    <3>2. CASE q # l
      BY <3>2, <1>9
    <3> QED
      BY <3>1, <3>2
  <2>2. (m \in 1 .. Len(W[j]) /\ V[j][m] = W[j][m]) \/ (j = l /\ V[j][m] = e)
    BY <2>1
  <2>3. (n \in 1 .. Len(W[k]) /\ V[k][n] = W[k][n]) \/ (k = l /\ V[k][n] = e)
    BY <2>1
  <2> QED
    BY <1>12, <2>2, <2>3 DEF Represents, Loose
<1>13. Represents(G, V)
  BY <1>9, <1>10, <1>11, <1>12 DEF Represents
<1>14. ASSUME NEW n \in Nodes, n # e, \A i \in 1 .. Len(w): w[i] # n
       PROVE  G.next[n] = g.next[n] /\ G.prev[n] = g.prev[n]
  <2>1. n # old
    BY <1>6, <1>8, <1>14, NullIsNoNode
  <2> QED
    BY <1>1, <1>14, <2>1 DEF HeapType
<1> QED
  BY <1>1, <1>2, <1>3, <1>13, <1>14 DEF G, V

\* A sequence without the element at a place.
Without(w, k) == [i \in 1 .. Len(w) - 1 |-> IF i < k THEN w[i] ELSE w[i + 1]]

\* erase takes the node at place k.
LEMMA EraseTakes ==
    ASSUME NEW g \in HeapType, NEW W, Represents(g, W),
           NEW l \in Lists, NEW k \in 1 .. Len(W[l]), NEW e, e = W[l][k]
    PROVE  /\ Erase(g, l, e) \in HeapType
           /\ Represents(Erase(g, l, e), [W EXCEPT ![l] = Without(W[l], k)])
           /\ Erase(g, l, e).trap = g.trap
           /\ \A n \in Nodes: (\A i \in 1 .. Len(W[l]): W[l][i] # n)
                  => /\ Erase(g, l, e).next[n] = g.next[n]
                     /\ Erase(g, l, e).prev[n] = g.prev[n]
<1> DEFINE G == Erase(g, l, e)
           p == g.prev[e]
           f == g.next[e]
           V == [W EXCEPT ![l] = Without(W[l], k)]
<1>1. PICK w : w = W[l]
  OBVIOUS
<1>2. PICK v : v = Without(w, k)
  OBVIOUS
<1>3. w \in Seq(Nodes) /\ Chain(g, l, w) /\ k \in 1 .. Len(w) /\ e = w[k]
  BY <1>1 DEF Represents
<1>4. Len(w) \in Nat /\ \A i \in 1 .. Len(w): w[i] \in Nodes /\ w[i] # Null
  BY <1>3, ChainPlaces
<1>5. /\ v \in Seq(Nodes) /\ Len(v) = Len(w) - 1 /\ (v = <<>> <=> Len(w) = 1)
      /\ \A i \in 1 .. Len(w) - 1: v[i] = IF i < k THEN w[i] ELSE w[i + 1]
  <2>1. \A i \in 1 .. Len(w) - 1: (IF i < k THEN w[i] ELSE w[i + 1]) \in Nodes
    BY <1>3, <1>4
  <2>2. v \in [1 .. Len(w) - 1 -> Nodes] /\ Len(w) - 1 \in Nat
    BY <1>2, <1>3, <1>4, <2>1 DEF Without
  <2>3. v \in Seq(Nodes) /\ Len(v) = Len(w) - 1
    BY <2>2
  <2>4. v = <<>> <=> Len(w) = 1
    BY <1>4, <2>3
  <2>5. \A i \in 1 .. Len(w) - 1: v[i] = IF i < k THEN w[i] ELSE w[i + 1]
    BY <1>2 DEF Without
  <2> QED
    BY <2>3, <2>4, <2>5
<1>6. /\ p = IF k = 1 THEN Null ELSE w[k - 1]
      /\ f = IF k = Len(w) THEN Null ELSE w[k + 1]
  BY <1>3 DEF Chain
<1>7. e \in Nodes /\ p \in Links /\ f \in Links /\ Null \in Links /\ e # p /\ e # f
  <2>1. \A i, j \in 1 .. Len(w): w[i] = w[j] => i = j
    BY <1>3 DEF Chain
  <2>2. k # 1 => k - 1 \in 1 .. Len(w)
    BY <1>3, <1>4
  <2>3. k # Len(w) => k + 1 \in 1 .. Len(w)
    BY <1>3, <1>4
  <2> HIDE DEF p, f
  <2> QED
    BY <1>3, <1>4, <1>6, <2>1, <2>2, <2>3 DEF Links
<1>8. /\ G.next = [m \in Nodes |-> IF m = p THEN f ELSE IF m = e THEN Null ELSE g.next[m]]
      /\ G.prev = [m \in Nodes |-> IF m = f THEN p ELSE IF m = e THEN Null ELSE g.prev[m]]
      /\ G.first = [g.first EXCEPT ![l] = IF p = Null THEN f ELSE g.first[l]]
      /\ G.last = [g.last EXCEPT ![l] = IF f = Null THEN p ELSE g.last[l]]
      /\ G.sz = [g.sz EXCEPT ![l] = g.sz[l] - 1]
      /\ G.trap = g.trap
  BY <1>7 DEF Erase, Unlink, HeapType
<1>9. G = [next |-> G.next, prev |-> G.prev, first |-> G.first, last |-> G.last,
           sz |-> G.sz, trap |-> G.trap]
  BY DEF Erase, Unlink
<1> HIDE DEF G, p, f
<1>10. G \in HeapType
  <2>1. g.sz[l] = Len(w) /\ g.sz[l] - 1 \in Nat
    BY <1>3, <1>4 DEF Chain
  <2>2. /\ G.next \in [Nodes -> Links] /\ G.prev \in [Nodes -> Links]
        /\ G.first \in [Lists -> Links] /\ G.last \in [Lists -> Links]
        /\ G.sz \in [Lists -> Nat] /\ G.trap \in [Blocks -> Traps \union {"none"}]
    BY <1>7, <1>8, <2>1 DEF HeapType
  <2> QED
    BY <1>9, <2>2 DEF HeapType
<1>11. V \in [Lists -> Seq(Nodes)] /\ V[l] = v /\ \A q \in Lists: q # l => V[q] = W[q]
  BY <1>1, <1>2, <1>5 DEF Represents
<1> HIDE DEF V
<1>12. Chain(G, l, v)
  <2>1. \A i, j \in 1 .. Len(w): w[i] = w[j] => i = j
    BY <1>3 DEF Chain
  <2>2. ASSUME NEW i \in 1 .. Len(v), NEW j \in 1 .. Len(v), v[i] = v[j] PROVE i = j
    BY <1>3, <1>4, <1>5, <2>1, <2>2, SMTT(20)
  <2>3. \A i \in 1 .. Len(w): (w[i] = p <=> i = k - 1) /\ (w[i] = f <=> i = k + 1)
    <3>1. k # 1 => k - 1 \in 1 .. Len(w)
      BY <1>3, <1>4
    <3>2. k # Len(w) => k + 1 \in 1 .. Len(w)
      BY <1>3, <1>4
    <3>3. \A i \in 1 .. Len(w): w[i] = p <=> i = k - 1
      BY <1>3, <1>4, <1>6, <2>1, <3>1
    <3>4. \A i \in 1 .. Len(w): w[i] = f <=> i = k + 1
      BY <1>3, <1>4, <1>6, <2>1, <3>2
    <3> QED
      BY <3>3, <3>4
  <2>4. \A i \in 1 .. Len(w): /\ g.next[w[i]] = IF i = Len(w) THEN Null ELSE w[i + 1]
                              /\ g.prev[w[i]] = IF i = 1 THEN Null ELSE w[i - 1]
    BY <1>3 DEF Chain
  <2>5. G.first[l] = IF v = <<>> THEN Null ELSE v[1]
    <3>1. g.first[l] = w[1]
      BY <1>3, <1>4 DEF Chain
    <3>2. p = Null <=> k = 1
      BY <1>3, <1>4, <1>6
    <3>3. G.first[l] = IF k = 1 THEN f ELSE w[1]
      BY <1>8, <3>1, <3>2 DEF HeapType
    <3>4. CASE k = 1
      BY <1>3, <1>4, <1>5, <1>6, <3>3, <3>4
    <3>5. CASE k # 1
      <4>1. v # <<>> /\ 1 \in 1 .. Len(w) - 1 /\ 1 < k
        BY <1>3, <1>4, <1>5, <3>5
      <4> QED
        BY <1>5, <3>3, <3>5, <4>1
    <3> QED
      BY <3>4, <3>5
  <2>6. G.last[l] = (IF v = <<>> THEN Null ELSE v[Len(v)]) /\ G.sz[l] = Len(v)
    <3>1. g.last[l] = w[Len(w)] /\ g.sz[l] = Len(w)
      BY <1>3, <1>4 DEF Chain
    <3>2. f = Null <=> k = Len(w)
      BY <1>3, <1>4, <1>6
    <3> QED
      BY <1>3, <1>4, <1>5, <1>6, <1>8, <3>1, <3>2 DEF HeapType
  <2>7. ASSUME NEW i \in 1 .. Len(v)
        PROVE  /\ G.next[v[i]] = IF i = Len(v) THEN Null ELSE v[i + 1]
               /\ G.prev[v[i]] = IF i = 1 THEN Null ELSE v[i - 1]
    <3>1. PICK j \in 1 .. Len(w) : j = IF i < k THEN i ELSE i + 1
      BY <1>4, <1>5
    <3>2. v[i] = w[j] /\ w[j] \in Nodes /\ w[j] # e
      BY <1>3, <1>4, <1>5, <2>1, <3>1
    <3>3. /\ G.next[w[j]] = IF j = k - 1 THEN f ELSE IF j = Len(w) THEN Null ELSE w[j + 1]
          /\ G.prev[w[j]] = IF j = k + 1 THEN p ELSE IF j = 1 THEN Null ELSE w[j - 1]
      <4>1. G.next[w[j]] = IF w[j] = p THEN f ELSE g.next[w[j]]
        BY <1>8, <3>2
      <4>2. G.prev[w[j]] = IF w[j] = f THEN p ELSE g.prev[w[j]]
        BY <1>8, <3>2
      <4> QED
        BY <2>3, <2>4, <4>1, <4>2
    <3>4. G.next[w[j]] = IF i = Len(v) THEN Null ELSE v[i + 1]
      <4>1. CASE i = Len(v)
        <5>1. j = Len(w) \/ (j = k - 1 /\ k = Len(w))
          BY <1>3, <1>4, <1>5, <3>1, <4>1
        <5> QED
          BY <1>3, <1>4, <1>6, <3>3, <4>1, <5>1
      <4>2. CASE i # Len(v)
        <5>1. i + 1 \in 1 .. Len(w) - 1 /\ v[i + 1] = IF i + 1 < k THEN w[i + 1] ELSE w[i + 2]
          <6>1. i + 1 \in 1 .. Len(w) - 1 /\ (i + 1) + 1 = i + 2
            BY <1>4, <1>5, <4>2
          <6> QED
            BY <1>5, <6>1
        <5>2. j # Len(w) /\ (j = k - 1 => k # Len(w))
          BY <1>3, <1>4, <1>5, <3>1, <4>2
        <5>3. j = k - 1 => i + 1 = k
          BY <1>3, <3>1
        <5>4. j # k - 1 => w[j + 1] = v[i + 1]
          BY <1>3, <3>1, <5>1
        <5> QED
          BY <1>3, <1>6, <3>3, <4>2, <5>1, <5>2, <5>3, <5>4
      <4> QED
        BY <4>1, <4>2
    <3>5. G.prev[w[j]] = IF i = 1 THEN Null ELSE v[i - 1]
      <4>1. CASE i = 1
        <5>1. (j = 1 /\ j # k + 1) \/ (j = k + 1 /\ k = 1)
          BY <1>3, <1>4, <3>1, <4>1
        <5> QED
          BY <1>6, <3>3, <4>1, <5>1
      <4>2. CASE i # 1
        <5>1. i - 1 \in 1 .. Len(w) - 1 /\ i \in 1 .. Len(w) - 1 /\ (i - 1) + 1 = i
          BY <1>4, <1>5, <4>2
        <5>2. v[i - 1] = IF i - 1 < k THEN w[i - 1] ELSE w[i]
          <6>1. v[i - 1] = IF i - 1 < k THEN w[i - 1] ELSE w[(i - 1) + 1]
            BY <1>5, <5>1
          <6> QED
            BY <5>1, <6>1
        <5>3. CASE j = k + 1
          <6>1. i = k /\ i - 1 < k /\ k # 1
            BY <1>3, <3>1, <4>2, <5>1, <5>3
          <6> QED
            BY <1>6, <3>3, <4>2, <5>2, <5>3, <6>1
        <5>4. CASE j # k + 1
          <6>1. j # 1 /\ (IF i - 1 < k THEN i - 1 ELSE i) = j - 1
            BY <1>3, <3>1, <4>2, <5>1, <5>4
          <6>2. v[i - 1] = w[j - 1]
            BY <5>2, <6>1
          <6> QED
            BY <3>3, <4>2, <5>4, <6>1, <6>2
        <5> QED
          BY <5>3, <5>4
      <4> QED
        BY <4>1, <4>2
    <3> QED
      BY <3>2, <3>4, <3>5
  <2> QED
    BY <1>5, <2>2, <2>5, <2>6, <2>7 DEF Chain
<1>13. ASSUME NEW q \in Lists, q # l PROVE Chain(G, q, W[q])
  <2>1. Chain(g, q, W[q])
    BY DEF Represents
  <2>2. \A i \in 1 .. Len(W[q]): W[q][i] \in Nodes /\ W[q][i] # Null
    BY <2>1, ChainPlaces
  <2>3. \A i \in 1 .. Len(W[q]), j \in 1 .. Len(w): W[q][i] # w[j]
    BY <1>1, <1>13 DEF Represents
  <2>4. \A i \in 1 .. Len(W[q]): W[q][i] # e /\ W[q][i] # p /\ W[q][i] # f
    BY <1>3, <1>4, <1>6, <2>2, <2>3
  <2>5. \A i \in 1 .. Len(W[q]): G.next[W[q][i]] = g.next[W[q][i]] /\ G.prev[W[q][i]] = g.prev[W[q][i]]
    BY <1>8, <2>2, <2>4
  <2>6. G.first[q] = g.first[q] /\ G.last[q] = g.last[q] /\ G.sz[q] = g.sz[q]
    BY <1>8, <1>13 DEF HeapType
  <2> QED
    BY <2>1, <2>5, <2>6, ChainFrame
<1>14. ASSUME NEW j \in Lists, NEW q \in Lists, NEW m \in 1 .. Len(V[j]), NEW n \in 1 .. Len(V[q]),
              V[j][m] = V[q][n]
       PROVE  j = q
  <2>1. \A r \in Lists: \A i \in 1 .. Len(V[r]): \E x \in 1 .. Len(W[r]): V[r][i] = W[r][x]
    <3>1. ASSUME NEW i \in 1 .. Len(v) PROVE \E x \in 1 .. Len(w): v[i] = w[x]
      <4>1. /\ i \in 1 .. Len(w) - 1 /\ i \in 1 .. Len(w) /\ i + 1 \in 1 .. Len(w)
        BY <1>4, <1>5
      <4>2. v[i] = w[i] \/ v[i] = w[i + 1]
        BY <1>5, <4>1
      <4> QED
        BY <4>1, <4>2
    <3>2. ASSUME NEW r \in Lists, NEW i \in 1 .. Len(V[r])
          PROVE  \E x \in 1 .. Len(W[r]): V[r][i] = W[r][x]
      <4>1. CASE r = l
        BY <1>1, <1>11, <3>1, <4>1
      <4>2. CASE r # l
        BY <1>11, <4>2
      <4> QED
        BY <4>1, <4>2
    <3> QED
      BY <3>2
  <2>2. PICK x \in 1 .. Len(W[j]) : V[j][m] = W[j][x]
    BY <2>1
  <2>3. PICK y \in 1 .. Len(W[q]) : V[q][n] = W[q][y]
    BY <2>1
  <2> QED
    BY <1>14, <2>2, <2>3 DEF Represents
<1>15. Represents(G, V)
  BY <1>11, <1>12, <1>13, <1>14 DEF Represents
<1>16. ASSUME NEW n \in Nodes, \A i \in 1 .. Len(w): w[i] # n
       PROVE  G.next[n] = g.next[n] /\ G.prev[n] = g.prev[n]
  <2>1. n # e /\ n # p /\ n # f
    BY <1>3, <1>4, <1>6, <1>16, NullIsNoNode
  <2> QED
    BY <1>8, <2>1
<1> QED
  BY <1>1, <1>8, <1>10, <1>15, <1>16 DEF G, V

\* In a list that is not empty, pop_front does what erasing the first node does.
LEMMA PopFrontErases ==
    ASSUME NEW g \in HeapType, NEW W, Represents(g, W), NEW l \in Lists, W[l] # <<>>
    PROVE  /\ W[l][1] = g.first[l] /\ 1 \in 1 .. Len(W[l]) /\ W[l][1] \in Nodes
           /\ PopFront(g, l) = Erase(g, l, W[l][1])
<1> DEFINE e == W[l][1]
<1>1. Chain(g, l, W[l])
  BY DEF Represents
<1>2. e = g.first[l] /\ 1 \in 1 .. Len(W[l]) /\ e \in Nodes /\ g.prev[e] = Null
  <2>1. Len(W[l]) \in Nat /\ Len(W[l]) # 0
    BY <1>1, ChainPlaces
  <2>2. 1 \in 1 .. Len(W[l])
    BY <2>1
  <2> QED
    BY <1>1, <2>2, ChainPlaces DEF Chain
<1> DEFINE P == PopFront(g, l)
           E == Erase(g, l, e)
<1>3. g.next[e] # e
  <2>1. PICK w : w = W[l]
    OBVIOUS
  <2>2. Chain(g, l, w) /\ Len(w) \in Nat /\ 1 \in 1 .. Len(w) /\ e = w[1]
    BY <1>1, <1>2, <2>1, ChainPlaces
  <2>3. g.next[w[1]] = IF 1 = Len(w) THEN Null ELSE w[1 + 1]
    BY <2>2 DEF Chain
  <2>4. 1 # Len(w) => 1 + 1 \in 1 .. Len(w)
    <3>1. \A n \in Nat: 1 \in 1 .. n /\ 1 # n => 1 + 1 \in 1 .. n
      OBVIOUS
    <3> QED
      BY <3>1, <2>2
  <2>5. 1 + 1 \in 1 .. Len(w) => w[1] # w[1 + 1]
    BY <2>2 DEF Chain
  <2> QED
    BY <1>2, <2>2, <2>3, <2>4, <2>5, NullIsNoNode
<1>4. P.next = E.next
  BY <1>2, NullIsNoNode DEF PopFront, Erase, Unlink, HeapType
<1>5. P.prev = E.prev
  BY <1>2, <1>3 DEF PopFront, Erase, Unlink, HeapType
<1>6. P.first = E.first /\ P.last = E.last /\ P.sz = E.sz /\ P.trap = E.trap
  BY <1>2 DEF PopFront, Erase, Unlink, HeapType
<1>7. /\ P = [next |-> P.next, prev |-> P.prev, first |-> P.first, last |-> P.last,
              sz |-> P.sz, trap |-> P.trap]
      /\ E = [next |-> E.next, prev |-> E.prev, first |-> E.first, last |-> E.last,
              sz |-> E.sz, trap |-> E.trap]
  BY DEF PopFront, Erase, Unlink
<1> HIDE DEF P, E
<1>8. P = E
  BY <1>4, <1>5, <1>6, <1>7
<1> QED
  BY <1>2, <1>8 DEF P, E

\* Without its first element a sequence is its tail.
LEMMA WithoutFirst ==
    ASSUME NEW w \in Seq(Nodes), w # <<>>
    PROVE  Without(w, 1) = Tail(w)
<1>1. PICK t \in Seq(Nodes) : t = Tail(w) /\ Len(t) = Len(w) - 1
                              /\ \A i \in 1 .. Len(t): t[i] = w[i + 1]
  BY HeadTailProperties
<1>2. t = [i \in 1 .. Len(w) - 1 |-> t[i]]
  BY <1>1, LenProperties
<1>3. \A i \in 1 .. Len(w) - 1: t[i] = IF i < 1 THEN w[i] ELSE w[i + 1]
  BY <1>1
<1> QED
  BY <1>1, <1>2, <1>3 DEF Without

\* A sequence without the element at a place is the part before it and the part after it.
LEMMA WithoutSplit ==
    ASSUME NEW S, NEW w \in Seq(S), NEW k \in 1 .. Len(w)
    PROVE  Without(w, k) = SubSeq(w, 1, k - 1) \o SubSeq(w, k + 1, Len(w))
<1>1. PICK n \in Nat : n = Len(w)
  OBVIOUS
<1>2. k \in 1 .. n /\ \A i \in 1 .. n: w[i] \in S
  BY <1>1
<1>3. PICK a \in Seq(S) : /\ a = SubSeq(w, 1, k - 1) /\ Len(a) = k - 1
                          /\ \A i \in 1 .. k - 1: a[i] = w[i]
  <2>1. k - 1 \in Int /\ \A i \in 1 .. k - 1: w[i] \in S
    BY <1>2
  <2>2. PICK a : a = SubSeq(w, 1, k - 1)
    OBVIOUS
  <2>3. /\ a \in Seq(S)
        /\ Len(a) = IF 1 <= k - 1 THEN k - 1 - 1 + 1 ELSE 0
        /\ \A i \in 1 .. k - 1 - 1 + 1: a[i] = w[1 + i - 1]
    BY <2>1, <2>2, SubSeqProperties
  <2>4. Len(a) = k - 1
    BY <2>3, <1>2
  <2>5. \A i \in 1 .. k - 1: a[i] = w[i]
    BY <2>3, <1>2
  <2> QED
    BY <2>2, <2>3, <2>4, <2>5
<1>4. PICK b \in Seq(S) : /\ b = SubSeq(w, k + 1, n) /\ Len(b) = n - k
                          /\ \A i \in 1 .. n - k: b[i] = w[k + i]
  <2>1. k + 1 \in Int /\ \A i \in k + 1 .. n: w[i] \in S
    BY <1>2
  <2>2. PICK b : b = SubSeq(w, k + 1, n)
    OBVIOUS
  <2>3. /\ b \in Seq(S)
        /\ Len(b) = IF k + 1 <= n THEN n - (k + 1) + 1 ELSE 0
        /\ \A i \in 1 .. n - (k + 1) + 1: b[i] = w[k + 1 + i - 1]
    BY <2>1, <2>2, SubSeqProperties, SMTT(30)
  <2>4. Len(b) = n - k
    BY <2>3, <1>2
  <2>5. \A i \in 1 .. n - k: b[i] = w[k + i]
    BY <2>3, <1>2
  <2> QED
    BY <2>2, <2>3, <2>4, <2>5
<1>5. PICK c \in Seq(S) : /\ c = a \o b /\ Len(c) = n - 1
                          /\ \A i \in 1 .. n - 1: c[i] = IF i <= k - 1 THEN a[i] ELSE b[i - (k - 1)]
  <2>1. PICK c : c = a \o b
    OBVIOUS
  <2>2. /\ c \in Seq(S) /\ Len(c) = Len(a) + Len(b)
        /\ \A i \in 1 .. Len(a) + Len(b): c[i] = IF i <= Len(a) THEN a[i] ELSE b[i - Len(a)]
    BY <2>1, ConcatProperties
  <2>3. Len(a) = k - 1 /\ Len(a) + Len(b) = n - 1
    BY <1>2, <1>3, <1>4
  <2> QED
    BY <2>1, <2>2, <2>3
<1>6. ASSUME NEW i \in 1 .. n - 1 PROVE c[i] = IF i < k THEN w[i] ELSE w[i + 1]
  <2>1. CASE i < k
    BY <2>1, <1>2, <1>3, <1>5
  <2>2. CASE i >= k
    <3>1. i - (k - 1) \in 1 .. n - k /\ k + (i - (k - 1)) = i + 1 /\ ~ (i <= k - 1) /\ ~ (i < k)
      BY <2>2, <1>2
    <3> QED
      BY <3>1, <1>4, <1>5
  <2> QED
    BY <2>1, <2>2, <1>2
<1>7. c = [i \in 1 .. n - 1 |-> c[i]]
  BY <1>5, LenProperties
<1> QED
  BY <1>1, <1>3, <1>4, <1>5, <1>6, <1>7 DEF Without

\* A value that nothing on the list has is not found, and any other at a node that has it.
LEMMA FindPlace ==
    ASSUME NEW g, NEW W, Represents(g, W), NEW l \in Lists, NEW v
    PROVE  \/ Find(g, l, v) = Null /\ \A i \in 1 .. Len(W[l]): Value(g, W[l][i]) # v
           \/ \E i \in 1 .. Len(W[l]): Find(g, l, v) = W[l][i] /\ Value(g, W[l][i]) = v
<1>1. PICK w : w = W[l]
  OBVIOUS
<1>2. Walk(g, l) = w
  BY <1>1, WalkOfRepresented
<1>3. Len(w) \in Nat /\ DOMAIN w = 1 .. Len(w)
  BY <1>1, ChainPlaces DEF Represents
<1> DEFINE hits == {i \in 1 .. Len(w) : Value(g, w[i]) = v}
<1>4. Find(g, l, v) = IF hits = {} THEN Null
                      ELSE w[CHOOSE i \in hits: \A j \in hits: i <= j]
  BY <1>2, <1>3 DEF Find
<1>5. CASE hits = {}
  BY <1>1, <1>4, <1>5
<1>6. CASE hits # {}
  <2>1. hits \subseteq Nat
    BY <1>3
  <2>2. \E i \in hits: \A j \in hits: i <= j
    <3> HIDE DEF hits
    <3> QED
      BY <1>6, <2>1, LeastNat
  <2>3. PICK i \in hits : Find(g, l, v) = w[i]
    BY <1>4, <1>6, <2>2
  <2> QED
    BY <1>1, <2>3
<1> QED
  BY <1>5, <1>6

-----------------------------------------------------------------------------
(* Blocks and their elements. *)

\* The lists of the pools and the trap list are different lists.
LEMMA ListsApart ==
    /\ TrapList \in Lists
    /\ \A p \in Pools: /\ Available(p) \in Lists /\ Allocated(p) \in Lists
                       /\ Available(p) # TrapList /\ Allocated(p) # TrapList
                       /\ \A q \in Pools: /\ Available(p) # Allocated(q)
                                          /\ Available(p) = Available(q) => p = q
                                          /\ Allocated(p) = Allocated(q) => p = q
BY DEF Lists, Available, Allocated, TrapList

\* Every list is one of these.
LEMMA ListKinds ==
    \A l \in Lists: l = TrapList \/ \E p \in Pools: l = Available(p) \/ l = Allocated(p)
BY DEF Lists

\* The blocks the heap is given of a pool.
\* The blocks that Data_Pools_Init gives the heap of a pool.
Given(p) == {b \in Blocks : b[1] = p /\ b[2] <= HeapSize}

\* A block has two nodes, and no other block has either.
LEMMA ElementsApart ==
    \A b \in Blocks: /\ Element(b) \in Nodes /\ Data(b) \in Nodes
                     /\ Element(b).of = b /\ Data(b).of = b
                     /\ Element(b).at = "element" /\ Data(b).at = "data"
                     /\ \A c \in Blocks: /\ Element(b) # Data(c)
                                         /\ Element(b) = Element(c) => b = c
                                         /\ Data(b) = Data(c) => b = c
BY DEF Element, Data, Nodes

\* The blocks given to a pool are its first HeapSize ones.
LEMMA GivenBlocks ==
    \A p \in Pools: /\ Given(p) \subseteq Blocks
                    /\ \A i \in 1 .. HeapSize: <<p, i>> \in Given(p)
                    /\ \A b \in Given(p): \E i \in 1 .. HeapSize: b = <<p, i>>
<1>1. SUFFICES ASSUME NEW p \in Pools
               PROVE  /\ \A i \in 1 .. HeapSize: <<p, i>> \in Given(p)
                      /\ \A b \in Given(p): \E i \in 1 .. HeapSize: b = <<p, i>>
  BY DEF Given
<1>2. ASSUME NEW i \in 1 .. HeapSize PROVE <<p, i>> \in Given(p)
  <2>1. i \in 1 .. PagePool /\ i <= HeapSize
    BY HeapSizes
  <2> QED
    BY <2>1 DEF Given, Blocks
<1>3. ASSUME NEW b \in Given(p) PROVE \E i \in 1 .. HeapSize: b = <<p, i>>
  <2>1. b \in Pools \X (1 .. PagePool) /\ b[1] = p /\ b[2] <= HeapSize
    BY DEF Given, Blocks
  <2>2. b[2] \in 1 .. HeapSize /\ b = <<p, b[2]>>
    BY <2>1, HeapSizes
  <2> QED
    BY <2>2
<1> QED
  BY <1>2, <1>3

-----------------------------------------------------------------------------
(* What is on a list. *)

\* The nodes of a list.
Members(W, l) == {W[l][i] : i \in 1 .. Len(W[l])}

\* A node is on one list at most.
LEMMA MembersApart ==
    ASSUME NEW g, NEW W, Represents(g, W)
    PROVE  /\ \A l \in Lists: Members(W, l) \subseteq Nodes
           /\ \A l, k \in Lists: l # k => Members(W, l) \intersect Members(W, k) = {}
           /\ \A e: Loose(e, W) <=> \A l \in Lists: e \notin Members(W, l)
<1>1. \A l \in Lists: \A i \in 1 .. Len(W[l]): W[l][i] \in Nodes
  BY ChainPlaces DEF Represents
<1> QED
  BY <1>1 DEF Members, Represents, Loose

\* Appending a node adds it to the nodes of the list.
LEMMA MembersAppend ==
    ASSUME NEW w \in Seq(Nodes), NEW e \in Nodes, NEW W, NEW V, NEW l,
           W[l] = w, V[l] = Append(w, e)
    PROVE  Members(V, l) = Members(W, l) \union {e}
<1>1. PICK v : v = V[l]
  OBVIOUS
<1>2. PICK n \in Nat : n = Len(w)
  OBVIOUS
<1>3. Len(v) = n + 1 /\ v[n + 1] = e /\ \A i \in 1 .. n: v[i] = w[i]
  BY <1>1, <1>2
<1>4. {v[i] : i \in 1 .. n + 1} = {w[i] : i \in 1 .. n} \union {e}
  <2>1. \A i \in 1 .. n + 1: i = n + 1 \/ i \in 1 .. n
    OBVIOUS
  <2>2. n + 1 \in 1 .. n + 1 /\ \A i \in 1 .. n: i \in 1 .. n + 1
    OBVIOUS
  <2> QED
    BY <1>3, <2>1, <2>2
<1> QED
  BY <1>1, <1>2, <1>3, <1>4 DEF Members

\* Taking the node at a place removes it from the nodes of the list.
LEMMA MembersWithout ==
    ASSUME NEW w \in Seq(Nodes), NEW k \in 1 .. Len(w), NEW W, NEW V, NEW l,
           \A i, j \in 1 .. Len(w): w[i] = w[j] => i = j,
           W[l] = w, V[l] = Without(w, k)
    PROVE  Members(V, l) = Members(W, l) \ {w[k]}
<1>1. PICK v : v = V[l]
  OBVIOUS
<1>2. PICK n \in Nat : n = Len(w)
  OBVIOUS
<1>3. k \in 1 .. n /\ \A i, j \in 1 .. n: w[i] = w[j] => i = j
  BY <1>2
<1>4. Len(v) = n - 1 /\ \A i \in 1 .. n - 1: v[i] = IF i < k THEN w[i] ELSE w[i + 1]
  <2>1. n - 1 \in Nat /\ v = [i \in 1 .. n - 1 |-> IF i < k THEN w[i] ELSE w[i + 1]]
    BY <1>1, <1>2, <1>3 DEF Without
  <2> QED
    BY <2>1
<1>5. \A i \in 1 .. n - 1: v[i] \in {w[j] : j \in 1 .. n} \ {w[k]}
  <2>1. \A i \in 1 .. n - 1: /\ i \in 1 .. n /\ i + 1 \in 1 .. n
                             /\ (i < k => i # k) /\ (~ (i < k) => i + 1 # k)
    BY <1>3
  <2>2. ASSUME NEW i \in 1 .. n - 1
        PROVE  (v[i] = w[i] /\ i # k) \/ (v[i] = w[i + 1] /\ i + 1 # k)
    BY <1>4, <2>1
  <2>3. \A j \in 1 .. n: j # k => w[j] # w[k]
    BY <1>3
  <2> QED
    BY <2>1, <2>2, <2>3
<1>6. \A j \in 1 .. n: j # k => \E i \in 1 .. n - 1: v[i] = w[j]
  <2>1. \A j \in 1 .. n: j < k => j \in 1 .. n - 1 /\ v[j] = w[j]
    BY <1>3, <1>4
  <2>2. \A j \in 1 .. n: j > k => j - 1 \in 1 .. n - 1 /\ v[j - 1] = w[j]
    <3>1. ASSUME NEW j \in 1 .. n, j > k PROVE j - 1 \in 1 .. n - 1 /\ v[j - 1] = w[j]
      <4>1. j - 1 \in 1 .. n - 1 /\ ~ (j - 1 < k) /\ j - 1 + 1 = j
        BY <1>3, <3>1
      <4> QED
        BY <4>1, <1>4
    <3> QED
      BY <3>1
  <2>3. \A j \in 1 .. n: j < k \/ j = k \/ j > k
    BY <1>3
  <2> QED
    BY <2>1, <2>2, <2>3
<1>7. Members(V, l) = {v[i] : i \in 1 .. n - 1} /\ Members(W, l) = {w[j] : j \in 1 .. n}
  BY <1>1, <1>2, <1>4 DEF Members
<1>8. Members(V, l) \subseteq Members(W, l) \ {w[k]}
  BY <1>5, <1>7
<1>9. ASSUME NEW e \in Members(W, l) \ {w[k]} PROVE e \in Members(V, l)
  <2>1. PICK j \in 1 .. n : e = w[j] /\ j # k
    BY <1>7, <1>9
  <2> QED
    BY <1>6, <1>7, <2>1, SMTT(20)
<1> QED
  BY <1>8, <1>9

-----------------------------------------------------------------------------
(* Data_Pool and Heap. *)

\* From g to f, the links of the nodes outside the pool stay.
OutsideKept(g, f, W, p) ==
    \A n \in Nodes: n \notin Members(W, Available(p)) \union Members(W, Allocated(p))
                       => f.next[n] = g.next[n] /\ f.prev[n] = g.prev[n]

\* From g to f, and from W to V, the element e of the pool goes from the front of the
\* available ones to the end of the allocated ones.
Taking(W, V, p, e) ==
    /\ e \in Members(W, Available(p))
    /\ Members(W, Available(p)) \intersect Members(W, Allocated(p)) = {}
    /\ Members(V, Available(p)) = Members(W, Available(p)) \ {e}
    /\ Members(V, Allocated(p)) = Members(W, Allocated(p)) \union {e}
    /\ \A l \in Lists: l # Available(p) /\ l # Allocated(p)
           => V[l] = W[l] /\ Members(V, l) = Members(W, l)

\* The lists from g to f when the front element e of the available ones is taken.
GotBlock(g, f, W, V, p, e) ==
    /\ e \in Nodes /\ e = W[Available(p)][1] /\ e = g.first[Available(p)]
    /\ V = [W EXCEPT ![Available(p)] = Tail(W[Available(p)]),
                     ![Allocated(p)] = Append(W[Allocated(p)], e)]
    /\ f \in HeapType /\ Represents(f, V) /\ f.trap = g.trap

\* Get_Block takes the element that has been available the longest.
LEMMA Get_BlockMoves ==
    ASSUME NEW g \in HeapType, NEW W, Represents(g, W),
           NEW p \in Pools, W[Available(p)] # <<>>
    PROVE  \E e, V: /\ GotBlock(g, Get_Block(g, p), W, V, p, e)
                    /\ Taking(W, V, p, e)
                    /\ OutsideKept(g, Get_Block(g, p), W, p)
<1> DEFINE a == Available(p)
           c == Allocated(p)
           e == W[a][1]
           G == PopFront(g, a)
           U == [W EXCEPT ![a] = Without(W[a], 1)]
           V == [U EXCEPT ![c] = Append(U[c], e)]
<1>1. a \in Lists /\ c \in Lists /\ a # c
  BY ListsApart
<1>2. e = g.first[a] /\ 1 \in 1 .. Len(W[a]) /\ e \in Nodes /\ G = Erase(g, a, e)
  BY <1>1, PopFrontErases
<1> HIDE DEF a, c, G
<1>3. /\ G \in HeapType /\ Represents(G, U) /\ G.trap = g.trap
      /\ \A n \in Nodes: n \notin Members(W, a) => G.next[n] = g.next[n] /\ G.prev[n] = g.prev[n]
  <2>1. /\ Erase(g, a, e) \in HeapType
        /\ Represents(Erase(g, a, e), [W EXCEPT ![a] = Without(W[a], 1)])
        /\ Erase(g, a, e).trap = g.trap
        /\ \A n \in Nodes: (\A i \in 1 .. Len(W[a]): W[a][i] # n)
               => /\ Erase(g, a, e).next[n] = g.next[n]
                  /\ Erase(g, a, e).prev[n] = g.prev[n]
    <3>1. e = W[a][1]
      OBVIOUS
    <3> HIDE DEF e
    <3> QED
      BY <1>1, <1>2, <3>1, EraseTakes
  <2>2. \A n \in Nodes: n \notin Members(W, a) => \A i \in 1 .. Len(W[a]): W[a][i] # n
    BY DEF Members
  <2> QED
    BY <1>2, <2>1, <2>2
<1>4. W[a] \in Seq(Nodes) /\ \A i, j \in 1 .. Len(W[a]): W[a][i] = W[a][j] => i = j
  BY <1>1 DEF Represents, Chain
<1>5. /\ U[a] = Without(W[a], 1) /\ \A l \in Lists: l # a => U[l] = W[l]
      /\ V[c] = Append(U[c], e) /\ \A l \in Lists: l # c => V[l] = U[l]
  <2>1. W \in [Lists -> Seq(Nodes)] /\ U \in [Lists -> Seq(Nodes)]
    BY <1>3 DEF Represents
  <2> QED
    BY <1>1, <2>1
<1> HIDE DEF U, e
<1>6. Members(U, a) = Members(W, a) \ {e}
  <2>1. PICK w : w = W[a]
    OBVIOUS
  <2>2. /\ w \in Seq(Nodes) /\ 1 \in 1 .. Len(w) /\ U[a] = Without(w, 1) /\ W[a] = w /\ e = w[1]
        /\ \A i, j \in 1 .. Len(w): w[i] = w[j] => i = j
    BY <1>2, <1>4, <1>5, <2>1 DEF e
  <2>3. Members(U, a) = Members(W, a) \ {w[1]}
    BY <2>2, MembersWithout
  <2> QED
    BY <2>2, <2>3
<1>7. Loose(e, U)
  <2>1. e \in Members(W, a)
    BY <1>2 DEF Members, e
  <2>2. \A l \in Lists: l # a => Members(U, l) = Members(W, l) /\ e \notin Members(W, l)
    <3>1. \A l \in Lists: l # a => Members(U, l) = Members(W, l)
      BY <1>5 DEF Members
    <3>2. \A l \in Lists: l # a => Members(W, l) \intersect Members(W, a) = {}
      BY <1>1, MembersApart
    <3> QED
      BY <2>1, <3>1, <3>2
  <2> QED
    BY <1>3, <1>6, <2>2, MembersApart
<1> DEFINE P == PushBack(G, c, e)
<1>8. /\ P \in HeapType /\ Represents(P, V) /\ P.trap = G.trap
      /\ \A n \in Nodes: n # e /\ n \notin Members(U, c) => P.next[n] = G.next[n] /\ P.prev[n] = G.prev[n]
  <2>1. G \in HeapType /\ Represents(G, U) /\ c \in Lists /\ e \in Nodes
    BY <1>1, <1>2, <1>3
  <2>2. /\ PushBack(G, c, e) \in HeapType
        /\ Represents(PushBack(G, c, e), [U EXCEPT ![c] = Append(U[c], e)])
        /\ PushBack(G, c, e).trap = G.trap
        /\ \A n \in Nodes: n # e /\ (\A i \in 1 .. Len(U[c]): U[c][i] # n)
               => /\ PushBack(G, c, e).next[n] = G.next[n]
                  /\ PushBack(G, c, e).prev[n] = G.prev[n]
    BY <1>7, <2>1, PushBackAppends
  <2>3. \A n \in Nodes: n \notin Members(U, c) => \A i \in 1 .. Len(U[c]): U[c][i] # n
    BY DEF Members
  <2> QED
    BY <2>2, <2>3
<1> HIDE DEF V, P
<1>9. Get_Block(g, p) = P
  BY <1>2 DEF Get_Block, P, G, a, c
<1>10. Members(U, c) = Members(W, c) /\ Members(V, a) = Members(U, a)
  BY <1>1, <1>5 DEF Members
<1>11. Members(V, c) = Members(W, c) \union {e}
  <2>1. U[c] \in Seq(Nodes)
    BY <1>1, <1>3 DEF Represents
  <2> QED
    BY <1>2, <1>5, <1>10, <2>1, MembersAppend
<1>12. V = [W EXCEPT ![a] = Tail(W[a]), ![c] = Append(W[c], e)]
  <2>1. Without(W[a], 1) = Tail(W[a])
    BY <1>4, WithoutFirst DEF a
  <2> QED
    BY <1>1, <1>5, <2>1 DEF V, U, Represents
<1>13. e \in Members(W, a)
  BY <1>2 DEF Members, e
<1>14. Members(W, a) \intersect Members(W, c) = {}
  BY <1>1, MembersApart
<1>15. \A l \in Lists: l # a /\ l # c => V[l] = W[l] /\ Members(V, l) = Members(W, l)
  BY <1>5 DEF Members
<1>16. Taking(W, V, p, e)
  BY <1>6, <1>10, <1>11, <1>13, <1>14, <1>15 DEF Taking, a, c
<1>17. GotBlock(g, P, W, V, p, e)
  BY <1>2, <1>3, <1>8, <1>12 DEF GotBlock, a, c, e
<1>18. \A n \in Nodes: n \notin Members(W, a) \union Members(W, c)
                          => P.next[n] = g.next[n] /\ P.prev[n] = g.prev[n]
  BY <1>3, <1>8, <1>10, <1>13
<1>19. OutsideKept(g, P, W, p)
  BY <1>18 DEF OutsideKept, a, c
<1> QED
  BY <1>9, <1>16, <1>17, <1>19

\* Looking for a block among elements finds its element, when it is there.
LEMMA FindElement ==
    ASSUME NEW g, NEW W, Represents(g, W), NEW l \in Lists, NEW b \in Blocks,
           Members(W, l) \subseteq {Element(c) : c \in Blocks}
    PROVE  /\ Element(b) \in Members(W, l) => Find(g, l, b) = Element(b)
           /\ Element(b) \notin Members(W, l) => Find(g, l, b) = Null
<1>1. ASSUME NEW i \in 1 .. Len(W[l]), Value(g, W[l][i]) = b
      PROVE  W[l][i] = Element(b)
  <2>1. PICK c \in Blocks : W[l][i] = Element(c)
    BY DEF Members
  <2>2. Value(g, Element(c)) = c
    BY ElementsApart DEF Value
  <2> QED
    BY <1>1, <2>1, <2>2
<1>2. Value(g, Element(b)) = b
  BY ElementsApart DEF Value
<1>3. CASE Find(g, l, b) = Null /\ \A i \in 1 .. Len(W[l]): Value(g, W[l][i]) # b
  <2>1. Element(b) \notin Members(W, l)
    BY <1>2, <1>3 DEF Members
  <2> QED
    BY <1>3, <2>1
<1>4. CASE \E i \in 1 .. Len(W[l]): Find(g, l, b) = W[l][i] /\ Value(g, W[l][i]) = b
  <2>1. PICK i \in 1 .. Len(W[l]) : Find(g, l, b) = W[l][i] /\ Value(g, W[l][i]) = b
    BY <1>4
  <2>2. W[l][i] = Element(b) /\ Element(b) \in Members(W, l)
    BY <1>1, <2>1 DEF Members
  <2> QED
    BY <2>1, <2>2
<1> QED
  BY <1>3, <1>4, FindPlace

\* From W to V, the element of b at place k of the allocated ones goes to the end of the
\* available ones.
Returning(W, V, p, b) ==
    /\ Members(V, Allocated(p)) = Members(W, Allocated(p)) \ {Element(b)}
    /\ Members(V, Available(p)) = Members(W, Available(p)) \union {Element(b)}
    /\ \A l \in Lists: l # Available(p) /\ l # Allocated(p)
           => V[l] = W[l] /\ Members(V, l) = Members(W, l)

\* The element of b goes from its place in the allocated ones to the end of the available ones.
Moved(W, V, p, b) ==
    \E k \in 1 .. Len(W[Allocated(p)]):
        V = [W EXCEPT ![Allocated(p)] = Without(W[Allocated(p)], k),
                      ![Available(p)] = Append(W[Available(p)], Element(b))]

\* The lists from g to f when b is given back.
GaveBlock(g, f, W, V, p, b) ==
    /\ Moved(W, V, p, b)
    /\ f \in HeapType /\ Represents(f, V) /\ f.trap = g.trap

\* All nodes of the list are elements.
OfElements(W, l) == Members(W, l) \subseteq {Element(c) : c \in Blocks}

\* Free_Block returns the element of an allocated block.
LEMMA Free_BlockMoves ==
    ASSUME NEW g \in HeapType, NEW W, Represents(g, W),
           NEW p \in Pools, NEW b \in Blocks,
           OfElements(W, Allocated(p)), Element(b) \in Members(W, Allocated(p))
    PROVE  \E V: /\ GaveBlock(g, Free_Block(g, p, b), W, V, p, b)
                 /\ Returning(W, V, p, b)
                 /\ OutsideKept(g, Free_Block(g, p, b), W, p)
<1>1. PICK a \in Lists, c \in Lists : a = Available(p) /\ c = Allocated(p) /\ a # c
  BY ListsApart
<1>2. PICK e \in Nodes : e = Element(b)
  BY ElementsApart
<1>3. PICK w : w = W[c]
  OBVIOUS
<1>4. PICK k \in 1 .. Len(w) : e = w[k]
  BY <1>1, <1>2, <1>3 DEF Members
<1>5. w \in Seq(Nodes) /\ \A i, j \in 1 .. Len(w): w[i] = w[j] => i = j
  BY <1>1, <1>3 DEF Represents, Chain
<1> DEFINE U == [W EXCEPT ![c] = Without(W[c], k)]
           V == [U EXCEPT ![a] = Append(U[a], e)]
<1>6. PICK G : G = Erase(g, c, e)
  OBVIOUS
<1>7. /\ G \in HeapType /\ Represents(G, U) /\ G.trap = g.trap
      /\ \A n \in Nodes: n \notin Members(W, c) => G.next[n] = g.next[n] /\ G.prev[n] = g.prev[n]
  <2>1. /\ Erase(g, c, e) \in HeapType
        /\ Represents(Erase(g, c, e), [W EXCEPT ![c] = Without(W[c], k)])
        /\ Erase(g, c, e).trap = g.trap
        /\ \A n \in Nodes: (\A i \in 1 .. Len(W[c]): W[c][i] # n)
               => /\ Erase(g, c, e).next[n] = g.next[n]
                  /\ Erase(g, c, e).prev[n] = g.prev[n]
    BY <1>3, <1>4, EraseTakes
  <2>2. \A n \in Nodes: n \notin Members(W, c) => \A i \in 1 .. Len(W[c]): W[c][i] # n
    BY DEF Members
  <2> QED
    BY <1>6, <2>1, <2>2
<1>8. /\ U[c] = Without(w, k) /\ \A l \in Lists: l # c => U[l] = W[l]
      /\ V[a] = Append(U[a], e) /\ \A l \in Lists: l # a => V[l] = U[l]
  <2>1. W \in [Lists -> Seq(Nodes)] /\ U \in [Lists -> Seq(Nodes)]
    BY <1>7 DEF Represents
  <2> QED
    BY <1>3, <2>1
<1> HIDE DEF U
<1>9. Members(U, c) = Members(W, c) \ {e}
  <2>1. W[c] = w /\ U[c] = Without(w, k)
    BY <1>3, <1>8
  <2>2. Members(U, c) = Members(W, c) \ {w[k]}
    BY <1>5, <2>1, MembersWithout
  <2> QED
    BY <1>4, <2>2
<1>10. Loose(e, U)
  <2>1. e \in Members(W, c)
    BY <1>3, <1>4 DEF Members
  <2>2. \A l \in Lists: l # c => Members(U, l) = Members(W, l) /\ e \notin Members(W, l)
    <3>1. \A l \in Lists: l # c => Members(U, l) = Members(W, l)
      BY <1>8 DEF Members
    <3>2. \A l \in Lists: l # c => Members(W, l) \intersect Members(W, c) = {}
      BY MembersApart
    <3> QED
      BY <2>1, <3>1, <3>2
  <2> QED
    BY <1>7, <1>9, <2>2, MembersApart
<1>11. PICK P : P = PushBack(G, a, e)
  OBVIOUS
<1>12. /\ P \in HeapType /\ Represents(P, V) /\ P.trap = G.trap
       /\ \A n \in Nodes: n # e /\ n \notin Members(U, a) => P.next[n] = G.next[n] /\ P.prev[n] = G.prev[n]
  <2>1. /\ PushBack(G, a, e) \in HeapType
        /\ Represents(PushBack(G, a, e), [U EXCEPT ![a] = Append(U[a], e)])
        /\ PushBack(G, a, e).trap = G.trap
        /\ \A n \in Nodes: n # e /\ (\A i \in 1 .. Len(U[a]): U[a][i] # n)
               => /\ PushBack(G, a, e).next[n] = G.next[n]
                  /\ PushBack(G, a, e).prev[n] = G.prev[n]
    BY <1>7, <1>10, PushBackAppends
  <2>2. \A n \in Nodes: n \notin Members(U, a) => \A i \in 1 .. Len(U[a]): U[a][i] # n
    BY DEF Members
  <2> QED
    BY <1>11, <2>1, <2>2
<1> HIDE DEF V
<1>13. Free_Block(g, p, b) = P
  <2>1. Find(g, c, b) = e
    BY <1>1, <1>2, FindElement DEF OfElements
  <2> QED
    BY <1>1, <1>6, <1>11, <2>1 DEF Free_Block
<1>14. Members(U, a) = Members(W, a) /\ Members(V, c) = Members(U, c)
  BY <1>1, <1>8 DEF Members
<1>15. Members(V, a) = Members(W, a) \union {e}
  <2>1. U[a] \in Seq(Nodes)
    BY <1>7 DEF Represents
  <2> QED
    BY <1>8, <1>14, <2>1, MembersAppend
<1>16. V = [W EXCEPT ![c] = Without(W[c], k), ![a] = Append(W[a], e)]
  BY <1>1, <1>3, <1>8 DEF V, U, Represents
<1>17. \A l \in Lists: l # a /\ l # c => V[l] = W[l] /\ Members(V, l) = Members(W, l)
  BY <1>8 DEF Members
<1>18. Returning(W, V, p, b)
  BY <1>1, <1>2, <1>9, <1>14, <1>15, <1>17 DEF Returning
<1>19. GaveBlock(g, P, W, V, p, b)
  BY <1>1, <1>2, <1>3, <1>4, <1>7, <1>12, <1>16 DEF GaveBlock, Moved
<1>20. e \in Members(W, c)
  BY <1>3, <1>4 DEF Members
<1>21. OutsideKept(g, P, W, p)
  BY <1>1, <1>7, <1>12, <1>14, <1>20 DEF OutsideKept
<1> QED
  BY <1>13, <1>18, <1>19, <1>21

\* Whatever is written into a block that carries no node of a list, no list changes.
LEMMA ScrubKeepsLists ==
    ASSUME NEW g \in HeapType, NEW W, Represents(g, W),
           NEW b \in Blocks, Loose(Data(b), W)
    PROVE  /\ Scrub(g, b) \in HeapType
           /\ Represents(Scrub(g, b), W)
           /\ Scrub(g, b).trap = [g.trap EXCEPT ![b] = "none"]
           /\ \A n \in Nodes: n # Data(b) => /\ Scrub(g, b).next[n] = g.next[n]
                                             /\ Scrub(g, b).prev[n] = g.prev[n]
           /\ Scrub(g, b).next[Data(b)] = Null /\ Scrub(g, b).prev[Data(b)] = Null
<1> DEFINE S == Scrub(g, b)
<1>1. Data(b) \in Nodes
  BY ElementsApart
<1>2. /\ S.next = [g.next EXCEPT ![Data(b)] = Null] /\ S.prev = [g.prev EXCEPT ![Data(b)] = Null]
      /\ S.trap = [g.trap EXCEPT ![b] = "none"]
      /\ S.first = g.first /\ S.last = g.last /\ S.sz = g.sz
  BY DEF Scrub, HeapType
<1>3. S \in HeapType
  BY <1>1 DEF Scrub, HeapType, Links
<1> HIDE DEF S
<1>4. \A n \in Nodes: n # Data(b) => S.next[n] = g.next[n] /\ S.prev[n] = g.prev[n]
  BY <1>1, <1>2 DEF HeapType
<1>5. S.next[Data(b)] = Null /\ S.prev[Data(b)] = Null
  BY <1>1, <1>2 DEF HeapType
<1>6. ASSUME NEW l \in Lists PROVE Chain(S, l, W[l])
  <2>1. Chain(g, l, W[l])
    BY DEF Represents
  <2>2. \A i \in 1 .. Len(W[l]): W[l][i] \in Nodes /\ W[l][i] # Data(b)
    BY <2>1, ChainPlaces DEF Loose
  <2>3. \A i \in 1 .. Len(W[l]): S.next[W[l][i]] = g.next[W[l][i]] /\ S.prev[W[l][i]] = g.prev[W[l][i]]
    BY <1>4, <2>2
  <2>4. S.first[l] = g.first[l] /\ S.last[l] = g.last[l] /\ S.sz[l] = g.sz[l]
    BY <1>2
  <2> QED
    BY <2>1, <2>3, <2>4, ChainFrame
<1>7. Represents(S, W)
  BY <1>6 DEF Represents
<1> QED
  BY <1>2, <1>3, <1>4, <1>5, <1>7 DEF S

-----------------------------------------------------------------------------
(* The accounts. *)

\* The blocks in which the nodes of the trap list lie.
TrapNodes(W) == {b \in Blocks : Data(b) \in Members(W, TrapList)}

\* The given blocks of a pool, and no others, have their elements on its two lists; the
\* elements of those that somebody has are allocated; and a block that carries a node of the
\* trap list is nobody else's.
Accounts(W, H) ==
    /\ \A p \in Pools:
           Members(W, Available(p)) \union Members(W, Allocated(p)) = {Element(b) : b \in Given(p)}
    /\ Members(W, TrapList) \subseteq {Data(b) : b \in Blocks}
    /\ H \subseteq Blocks
    /\ \A b \in Blocks: Element(b) \in Members(W, Allocated(b[1])) <=> b \in H \union TrapNodes(W)
    /\ H \intersect TrapNodes(W) = {}

\* The nodes of the trap list carry different traps.
TrapsOnce(W, trap) ==
    /\ \A m \in Members(W, TrapList): trap[m.of] \in Traps
    /\ \A m, n \in Members(W, TrapList): trap[m.of] = trap[n.of] => m = n

\* No pool that has blocks large enough for a node has one to give.
Exhausted(W) == \A p \in Pools: p >= NodeClass => Members(W, Available(p)) = {}

\* The sequences of nodes that walking the lists finds.
Content(g) == [l \in Lists |-> Walk(g, l)]

\* The inductive invariant: the lists are well formed, the accounts are right, the nodes of
\* the trap list carry different traps, and a fault means that no block was left for a node.
HeapInv ==
    /\ h \in HeapType
    /\ Represents(h, Content(h))
    /\ Accounts(Content(h), held)
    /\ TrapsOnce(Content(h), h.trap)
    /\ fault \in BOOLEAN
    /\ fault => Exhausted(Content(h))

\* Walking all lists of g finds the sequences that g represents.
LEMMA ContentOf ==
    ASSUME NEW g, NEW W, Represents(g, W)
    PROVE  Content(g) = W
<1>1. W = [l \in Lists |-> W[l]]
  BY DEF Represents
<1> QED
  BY <1>1, WalkOfRepresented DEF Content

\* The first part of a block names its pool.
LEMMA PoolOfBlock ==
    \A b \in Blocks: /\ b[1] \in Pools
                     /\ \A p \in Pools: b \in Given(p) => b[1] = p
BY DEF Blocks, Given

\* Which elements are on a pool's lists.
LEMMA PoolMembers ==
    ASSUME NEW W, NEW H, Accounts(W, H), NEW p \in Pools
    PROVE  /\ Members(W, Available(p)) \subseteq {Element(b) : b \in Blocks}
           /\ Members(W, Allocated(p)) \subseteq {Element(b) : b \in Blocks}
           /\ \A b \in Blocks: Element(b) \in Members(W, Available(p)) \union Members(W, Allocated(p))
                                   <=> b \in Given(p)
<1>1. Given(p) \subseteq Blocks
  BY DEF Given
<1>2. Members(W, Available(p)) \union Members(W, Allocated(p)) = {Element(b) : b \in Given(p)}
  BY DEF Accounts
<1>3. \A b, c \in Blocks: Element(b) = Element(c) => b = c
  BY ElementsApart
<1> QED
  BY <1>1, <1>2, <1>3

\* No block's data is an element of a pool.
LEMMA DataNotInPool ==
    ASSUME NEW W, NEW H, Accounts(W, H), NEW b \in Blocks, NEW p \in Pools
    PROVE  Data(b) \notin Members(W, Available(p)) \union Members(W, Allocated(p))
BY PoolMembers, ElementsApart

\* A block that becomes somebody's.
LEMMA AccountsTaken ==
    ASSUME NEW W, NEW V, NEW H, Accounts(W, H), NEW p \in Pools, NEW e, Taking(W, V, p, e)
    PROVE  \E b: /\ b \in Given(p) /\ e = Element(b)
                 /\ b \notin H /\ b \notin TrapNodes(W)
                 /\ Accounts(V, H \union {b})
<1>0. /\ e \in Members(W, Available(p))
      /\ Members(W, Available(p)) \intersect Members(W, Allocated(p)) = {}
      /\ Members(V, Available(p)) = Members(W, Available(p)) \ {e}
      /\ Members(V, Allocated(p)) = Members(W, Allocated(p)) \union {e}
      /\ \A l \in Lists: l # Available(p) /\ l # Allocated(p) => Members(V, l) = Members(W, l)
  BY DEF Taking
<1>1. PICK b \in Given(p) : e = Element(b)
  BY <1>0 DEF Accounts
<1>2. b \in Blocks /\ b[1] = p /\ e.of = b
  BY <1>1, ElementsApart, PoolOfBlock DEF Given
<1>3. b \notin H /\ b \notin TrapNodes(W)
  BY <1>0, <1>1, <1>2 DEF Accounts
<1>4. \A q \in Pools: Members(V, Available(q)) \union Members(V, Allocated(q)) = {Element(c) : c \in Given(q)}
  <2>1. ASSUME NEW q \in Pools, q # p
        PROVE  Members(V, Available(q)) = Members(W, Available(q)) /\ Members(V, Allocated(q)) = Members(W, Allocated(q))
    BY <1>0, <2>1, ListsApart
  <2> QED
    BY <1>0, <2>1 DEF Accounts
<1>5. Members(V, TrapList) = Members(W, TrapList) /\ TrapNodes(V) = TrapNodes(W)
  BY <1>0, ListsApart DEF TrapNodes
<1>6. ASSUME NEW c \in Blocks
      PROVE  Element(c) \in Members(V, Allocated(c[1])) <=> c \in H \union {b} \union TrapNodes(V)
  <2>1. CASE c[1] = p
    BY <1>0, <1>1, <1>2, <1>5, <2>1, ElementsApart DEF Accounts
  <2>2. CASE c[1] # p
    BY <1>0, <1>2, <1>5, <2>2, ListsApart, PoolOfBlock DEF Accounts
  <2> QED
    BY <2>1, <2>2
<1>7. Accounts(V, H \union {b})
  BY <1>2, <1>3, <1>4, <1>5, <1>6 DEF Accounts
<1> QED
  BY <1>1, <1>2, <1>3, <1>7

\* A block that nobody has any more.
LEMMA AccountsReturned ==
    ASSUME NEW W, NEW V, NEW H, Accounts(W, H), NEW b \in H, NEW p, p = b[1],
           Returning(W, V, p, b)
    PROVE  Accounts(V, H \ {b})
<1>0. /\ Members(V, Allocated(p)) = Members(W, Allocated(p)) \ {Element(b)}
      /\ Members(V, Available(p)) = Members(W, Available(p)) \union {Element(b)}
      /\ \A l \in Lists: l # Available(p) /\ l # Allocated(p) => Members(V, l) = Members(W, l)
  BY DEF Returning
<1>1. b \in Blocks /\ p \in Pools /\ b \notin TrapNodes(W) /\ Element(b) \in Members(W, Allocated(p))
  BY PoolOfBlock DEF Accounts
<1>2. \A q \in Pools: Members(V, Available(q)) \union Members(V, Allocated(q)) = {Element(c) : c \in Given(q)}
  <2>1. ASSUME NEW q \in Pools, q # p
        PROVE  Members(V, Available(q)) = Members(W, Available(q)) /\ Members(V, Allocated(q)) = Members(W, Allocated(q))
    BY <1>0, <1>1, <2>1, ListsApart
  <2>2. Members(V, Available(p)) \union Members(V, Allocated(p)) = Members(W, Available(p)) \union Members(W, Allocated(p))
    BY <1>0, <1>1
  <2> QED
    BY <2>1, <2>2 DEF Accounts
<1>3. Members(V, TrapList) = Members(W, TrapList) /\ TrapNodes(V) = TrapNodes(W)
  BY <1>0, <1>1, ListsApart DEF TrapNodes
<1>4. ASSUME NEW c \in Blocks
      PROVE  Element(c) \in Members(V, Allocated(c[1])) <=> c \in (H \ {b}) \union TrapNodes(V)
  <2>1. CASE c[1] = p
    BY <1>0, <1>1, <1>3, <2>1, ElementsApart DEF Accounts
  <2>2. CASE c[1] # p
    BY <1>0, <1>1, <1>3, <2>2, ListsApart, PoolOfBlock DEF Accounts
  <2> QED
    BY <2>1, <2>2
<1> QED
  BY <1>0, <1>1, <1>2, <1>3, <1>4 DEF Accounts

\* A block that somebody has becomes a node of the trap list.
LEMMA AccountsRegistered ==
    ASSUME NEW V, NEW X, NEW H, NEW b \in Blocks, b \notin H, Accounts(V, H \union {b}),
           Members(X, TrapList) = Members(V, TrapList) \union {Data(b)},
           \A l \in Lists: l # TrapList => Members(X, l) = Members(V, l)
    PROVE  Accounts(X, H)
<1>1. \A p \in Pools: /\ Members(X, Available(p)) = Members(V, Available(p))
                      /\ Members(X, Allocated(p)) = Members(V, Allocated(p))
  BY ListsApart
<1>2. TrapNodes(X) = TrapNodes(V) \union {b} /\ b \notin TrapNodes(V)
  BY ElementsApart DEF TrapNodes, Accounts
<1>3. \A c \in Blocks: Element(c) \in Members(X, Allocated(c[1])) <=> c \in H \union TrapNodes(X)
  <2>1. \A c \in Blocks: c[1] \in Pools
    BY PoolOfBlock
  <2> QED
    BY <1>1, <1>2, <2>1 DEF Accounts
<1>4. Members(X, TrapList) \subseteq {Data(c) : c \in Blocks}
  BY DEF Accounts
<1> QED
  BY <1>1, <1>2, <1>3, <1>4 DEF Accounts

\* A node of the trap list becomes a block that somebody has.
LEMMA AccountsRemoved ==
    ASSUME NEW W, NEW X, NEW H, Accounts(W, H), NEW b \in TrapNodes(W),
           Members(X, TrapList) = Members(W, TrapList) \ {Data(b)},
           \A l \in Lists: l # TrapList => Members(X, l) = Members(W, l)
    PROVE  Accounts(X, H \union {b}) /\ b \notin H
<1>1. \A p \in Pools: /\ Members(X, Available(p)) = Members(W, Available(p))
                      /\ Members(X, Allocated(p)) = Members(W, Allocated(p))
  BY ListsApart
<1>2. TrapNodes(X) = TrapNodes(W) \ {b} /\ b \notin H /\ b \in Blocks
  BY ElementsApart DEF TrapNodes, Accounts
<1>3. \A c \in Blocks: Element(c) \in Members(X, Allocated(c[1])) <=> c \in H \union {b} \union TrapNodes(X)
  <2>1. \A c \in Blocks: c[1] \in Pools
    BY PoolOfBlock
  <2> QED
    BY <1>1, <1>2, <2>1 DEF Accounts
<1> QED
  BY <1>1, <1>2, <1>3 DEF Accounts

\* A pool is a candidate for a request when it is large enough and not empty, and the first
\* candidate is the smallest.
LEMMA CandidateLists ==
    ASSUME NEW g, NEW W, Represents(g, W), NEW n \in Pools
    PROVE  /\ Candidates(g, n) = {p \in Pools : n <= p /\ W[Available(p)] # <<>>}
           /\ Candidates(g, n) # {} => /\ FirstCandidate(g, n) \in Candidates(g, n)
                                       /\ \A q \in Candidates(g, n): FirstCandidate(g, n) <= q
<1>1. \A p \in Pools: g.sz[Available(p)] > 0 <=> W[Available(p)] # <<>>
  <2>1. ASSUME NEW p \in Pools PROVE g.sz[Available(p)] > 0 <=> W[Available(p)] # <<>>
    <3>1. PICK w : w = W[Available(p)]
      OBVIOUS
    <3>2. Chain(g, Available(p), w)
      BY <3>1, ListsApart DEF Represents
    <3>3. w \in Seq(Nodes) /\ g.sz[Available(p)] = Len(w)
      BY <3>2 DEF Chain
    <3> QED
      BY <3>1, <3>3
  <2> QED
    BY <2>1
<1>2. Candidates(g, n) \subseteq Nat
  BY DEF Candidates, Pools
<1>3. Candidates(g, n) # {} => \E p \in Candidates(g, n): \A q \in Candidates(g, n): p <= q
  BY <1>2, LeastNat
<1>4. Candidates(g, n) # {} => /\ FirstCandidate(g, n) \in Candidates(g, n)
                               /\ \A q \in Candidates(g, n): FirstCandidate(g, n) <= q
  BY <1>3 DEF FirstCandidate
<1> QED
  BY <1>1, <1>4 DEF Candidates

\* A served request of class n turns g into f: it takes the block b that has been available
\* the longest from the smallest pool p that has one large enough.
Served(g, f, W, V, n, p, b) ==
    /\ p = FirstCandidate(g, n) /\ n <= p /\ W[Available(p)] # <<>>
    /\ \A q \in Pools: n <= q /\ q < p => W[Available(q)] = <<>>
    /\ b = g.first[Available(p)].of
    /\ GotBlock(g, f, W, V, p, Element(b))
    /\ Taking(W, V, p, Element(b))
    /\ OutsideKept(g, f, W, p)

\* A request with a candidate gets a block that was nobody's.
LEMMA RequestServed ==
    ASSUME NEW g \in HeapType, NEW W, Represents(g, W), NEW H, Accounts(W, H),
           NEW n \in Pools, Candidates(g, n) # {}
    PROVE  \E p, b, V:
              /\ p \in Pools /\ b \in Given(p)
              /\ Served(g, Get_Block(g, p), W, V, n, p, b)
              /\ b \notin H /\ b \notin TrapNodes(W) /\ Accounts(V, H \union {b})
<1>1. PICK p \in Pools : /\ p = FirstCandidate(g, n) /\ n <= p /\ W[Available(p)] # <<>>
                         /\ \A q \in Pools: n <= q /\ q < p => W[Available(q)] = <<>>
  BY CandidateLists DEF Pools
<1>2. PICK e, V : /\ GotBlock(g, Get_Block(g, p), W, V, p, e)
                  /\ Taking(W, V, p, e)
                  /\ OutsideKept(g, Get_Block(g, p), W, p)
  BY <1>1, Get_BlockMoves
<1>3. PICK b : /\ b \in Given(p) /\ e = Element(b)
               /\ b \notin H /\ b \notin TrapNodes(W)
               /\ Accounts(V, H \union {b})
  <2>1. Taking(W, V, p, e)
    BY <1>2
  <2> QED
    BY <2>1, AccountsTaken
<1>4. b = g.first[Available(p)].of
  BY <1>2, <1>3, ElementsApart DEF GotBlock, Given
<1>5. Served(g, Get_Block(g, p), W, V, n, p, b)
  BY <1>1, <1>2, <1>3, <1>4 DEF Served
<1> QED
  BY <1>3, <1>5

\* A block b that somebody has: Heap::Free finds its pool, and returns its element there.
Released(g, f, W, V, b) ==
    /\ GaveBlock(g, f, W, V, b[1], b)
    /\ Returning(W, V, b[1], b)
    /\ OutsideKept(g, f, W, b[1])

\* Heap::Free finds the pool of a block that somebody has, and only that one.
LEMMA BlockReleased ==
    ASSUME NEW g \in HeapType, NEW W, Represents(g, W), NEW H, Accounts(W, H),
           NEW b \in H \union TrapNodes(W)
    PROVE  /\ b \in Blocks /\ b[1] \in Pools
           /\ FreeIn(g, b) = Scrub(Free_Block(g, b[1], b), b)
           /\ \E V: Released(g, Free_Block(g, b[1], b), W, V, b)
<1>1. b \in Blocks /\ b[1] \in Pools /\ Element(b) \in Members(W, Allocated(b[1]))
  BY PoolOfBlock DEF Accounts, TrapNodes
<1>2. PICK p \in Pools : p = b[1]
  BY <1>1
<1> DEFINE owners == {q \in Pools : Find(g, Allocated(q), b) # Null}
<1>3. ASSUME NEW q \in Pools PROVE Find(g, Allocated(q), b) # Null <=> q = p
  <2>1. Allocated(q) \in Lists /\ Members(W, Allocated(q)) \subseteq {Element(c) : c \in Blocks}
    BY ListsApart, PoolMembers
  <2>2. Element(b) \in Members(W, Allocated(q)) <=> q = p
    BY <1>1, <1>2, PoolMembers, PoolOfBlock
  <2>3. Element(b) # Null
    BY <1>1, ElementsApart, NullIsNoNode
  <2> QED
    BY <1>1, <2>1, <2>2, <2>3, FindElement
<1>4. owners = {p}
  BY <1>3
<1>5. FreeIn(g, b) = Scrub(Free_Block(g, p, b), b)
  BY <1>4 DEF FreeIn
<1>6. OfElements(W, Allocated(p)) /\ Element(b) \in Members(W, Allocated(p))
  BY <1>1, <1>2, PoolMembers DEF OfElements
<1>7. PICK V : /\ GaveBlock(g, Free_Block(g, p, b), W, V, p, b)
               /\ Returning(W, V, p, b)
               /\ OutsideKept(g, Free_Block(g, p, b), W, p)
  BY <1>1, <1>6, Free_BlockMoves
<1>8. Released(g, Free_Block(g, p, b), W, V, b)
  BY <1>2, <1>7 DEF Released
<1> QED
  BY <1>1, <1>2, <1>5, <1>8

-----------------------------------------------------------------------------
(* The heap at the start. *)

\* What Data_Pools_Init leaves: all given blocks of a pool are available, in their order.
NewHeap(W) ==
    /\ \A p \in Pools: W[Available(p)] = [i \in 1 .. HeapSize |-> Element(<<p, i>>)]
    /\ W[TrapList] = <<>>

\* Data_Pools_Init chains the elements and cuts the chain of the longer array.
LEMMA InitHeap == Init => HeapInv /\ NewHeap(Content(h))
<1> SUFFICES ASSUME Init PROVE HeapInv /\ NewHeap(Content(h))
  OBVIOUS
<1> DEFINE First(p) == [i \in 1 .. HeapSize |-> Element(<<p, i>>)]
           W == [l \in Lists |-> IF l[1] = "available" THEN First(l[2]) ELSE <<>>]
<1>1. \A p \in Pools, i \in 1 .. HeapSize: <<p, i>> \in Blocks /\ Element(<<p, i>>) \in Nodes
  BY GivenBlocks, ElementsApart
<1>2. ASSUME NEW n \in Nodes, n.at = "element", n.of[2] \notin {HeapSize, Length(n.of[1])}
      PROVE  Element(<<n.of[1], n.of[2] + 1>>) \in Nodes
  <2>1. PICK b : b = n.of /\ b \in Blocks
    BY DEF Nodes
  <2>2. /\ b[1] \in Pools /\ b[2] \in 1 .. PagePool
        /\ b[2] <= HeapSize \/ b[1] = NrPools
        /\ b[2] # HeapSize /\ b[2] # Length(b[1])
    BY <1>2, <2>1 DEF Blocks
  <2>3. /\ b[2] + 1 \in 1 .. PagePool
        /\ b[2] + 1 <= HeapSize \/ b[1] = NrPools
    BY <2>2, HeapSizes DEF Length
  <2>4. <<b[1], b[2] + 1>> \in Blocks
    BY <2>2, <2>3 DEF Blocks
  <2> QED
    BY <2>1, <2>4, ElementsApart
<1>3. ASSUME NEW n \in Nodes, n.at = "element", n.of[2] > 1
      PROVE  Element(<<n.of[1], n.of[2] - 1>>) \in Nodes
  <2>1. PICK b : b = n.of /\ b \in Blocks
    BY DEF Nodes
  <2>2. /\ b[1] \in Pools /\ b[2] \in 1 .. PagePool /\ b[2] > 1
        /\ b[2] <= HeapSize \/ b[1] = NrPools
    BY <1>3, <2>1 DEF Blocks
  <2>3. /\ b[2] - 1 \in 1 .. PagePool
        /\ b[2] - 1 <= HeapSize \/ b[1] = NrPools
    BY <2>2, HeapSizes
  <2>4. <<b[1], b[2] - 1>> \in Blocks
    BY <2>2, <2>3 DEF Blocks
  <2> QED
    BY <2>1, <2>4, ElementsApart
<1>4. \A l \in Lists: l[1] = "available" => l[2] \in Pools /\ l = Available(l[2])
  BY DEF Lists, Available, Allocated, TrapList
<1>5. h \in HeapType
  <2>1. \A l \in Lists: l[1] = "available" => Element(<<l[2], 1>>) \in Nodes /\ Element(<<l[2], HeapSize>>) \in Nodes
    BY <1>1, <1>4, HeapSizes
  <2>2. h.next \in [Nodes -> Links] /\ h.prev \in [Nodes -> Links]
    BY <1>2, <1>3 DEF Init, Links
  <2>3. /\ h.first \in [Lists -> Links] /\ h.last \in [Lists -> Links]
        /\ h.sz \in [Lists -> Nat] /\ h.trap \in [Blocks -> Traps \union {"none"}]
    BY <2>1, HeapSizes DEF Init, Links
  <2>4. h = [next |-> h.next, prev |-> h.prev, first |-> h.first, last |-> h.last,
             sz |-> h.sz, trap |-> h.trap]
    BY DEF Init
  <2> QED
    BY <2>2, <2>3, <2>4 DEF HeapType
<1>6. ASSUME NEW p \in Pools
      PROVE  /\ First(p) \in Seq(Nodes) /\ Len(First(p)) = HeapSize
             /\ \A i \in 1 .. HeapSize: First(p)[i] = Element(<<p, i>>)
             /\ Chain(h, Available(p), First(p))
  <2>1. PICK w : w = First(p)
    OBVIOUS
  <2>2. w \in [1 .. HeapSize -> Nodes] /\ \A i \in 1 .. HeapSize: w[i] = Element(<<p, i>>)
    BY <1>1, <2>1
  <2>3. w \in Seq(Nodes) /\ Len(w) = HeapSize /\ w # <<>>
    BY <2>2, HeapSizes
  <2>4. \A i, j \in 1 .. HeapSize: w[i] = w[j] => i = j
    <3>1. ASSUME NEW i \in 1 .. HeapSize, NEW j \in 1 .. HeapSize, w[i] = w[j] PROVE i = j
      <4>1. PICK b \in Blocks, c \in Blocks : b = <<p, i>> /\ c = <<p, j>>
        BY <1>1
      <4>2. Element(b) = Element(c)
        BY <2>2, <3>1, <4>1
      <4>3. b = c
        BY <4>2, ElementsApart
      <4> QED
        BY <4>1, <4>3
    <3> QED
      BY <3>1
  <2>5. Available(p) \in Lists /\ Available(p)[1] = "available" /\ Available(p)[2] = p
    BY DEF Lists, Available
  <2>6. /\ h.first[Available(p)] = Element(<<p, 1>>) /\ h.last[Available(p)] = Element(<<p, HeapSize>>)
        /\ h.sz[Available(p)] = HeapSize
    BY <2>5 DEF Init
  <2>7. ASSUME NEW i \in 1 .. HeapSize
        PROVE  /\ h.next[w[i]] = IF i = HeapSize THEN Null ELSE w[i + 1]
               /\ h.prev[w[i]] = IF i = 1 THEN Null ELSE w[i - 1]
    <3>1. PICK n \in Nodes : n = w[i] /\ n.at = "element" /\ n.of = <<p, i>>
      BY <1>1, <2>2, ElementsApart
    <3>2. /\ h.next[n] = IF i \notin {HeapSize, Length(p)} THEN Element(<<p, i + 1>>) ELSE Null
          /\ h.prev[n] = IF i > 1 THEN Element(<<p, i - 1>>) ELSE Null
      BY <3>1 DEF Init
    <3>3. i \in {HeapSize, Length(p)} <=> i = HeapSize
      BY HeapSizes DEF Length
    <3>4. i # HeapSize => i + 1 \in 1 .. HeapSize
      BY HeapSizes
    <3>5. (i > 1 <=> i # 1) /\ (i # 1 => i - 1 \in 1 .. HeapSize)
      BY HeapSizes
    <3> QED
      BY <2>2, <3>1, <3>2, <3>3, <3>4, <3>5
  <2>8. Chain(h, Available(p), w)
    BY <2>2, <2>3, <2>4, <2>6, <2>7, HeapSizes DEF Chain
  <2> QED
    BY <2>1, <2>2, <2>3, <2>8
<1> HIDE DEF First
<1>7. /\ \A p \in Pools: W[Available(p)] = First(p) /\ W[Allocated(p)] = <<>>
      /\ W[TrapList] = <<>>
  BY DEF Lists, Available, Allocated, TrapList
<1>8. W \in [Lists -> Seq(Nodes)]
  BY <1>4, <1>6
<1> HIDE DEF W
<1>9. \A l \in Lists: l[1] # "available" => W[l] = <<>> /\ Chain(h, l, W[l])
  BY DEF Init, Chain, W
<1>10. ASSUME NEW l \in Lists PROVE Chain(h, l, W[l])
  <2>1. CASE l[1] = "available"
    BY <1>4, <1>6, <1>7, <2>1
  <2> QED
    BY <1>9, <2>1
<1>11. ASSUME NEW l \in Lists, NEW k \in Lists, NEW i \in 1 .. Len(W[l]), NEW j \in 1 .. Len(W[k]),
              W[l][i] = W[k][j]
       PROVE  l = k
  <2>1. ASSUME NEW q \in Lists, NEW m \in 1 .. Len(W[q])
        PROVE  q[1] = "available" /\ m \in 1 .. HeapSize /\ W[q][m] = Element(<<q[2], m>>)
    <3>1. q[1] = "available"
      BY <1>9, <2>1
    <3> QED
      BY <1>4, <1>6, <1>7, <2>1, <3>1
  <2>2. <<l[2], i>> \in Blocks /\ <<k[2], j>> \in Blocks
    BY <1>1, <1>4, <2>1
  <2>3. <<l[2], i>> = <<k[2], j>>
    BY <1>11, <2>1, <2>2, ElementsApart
  <2>4. l = Available(l[2]) /\ k = Available(k[2])
    BY <1>4, <2>1
  <2> QED
    BY <2>3, <2>4
<1>12. Represents(h, W)
  BY <1>8, <1>10, <1>11 DEF Represents
<1>13. Members(W, TrapList) = {} /\ \A p \in Pools: Members(W, Allocated(p)) = {}
  BY <1>7 DEF Members
<1>14. ASSUME NEW p \in Pools PROVE Members(W, Available(p)) = {Element(b) : b \in Given(p)}
  <2>1. Members(W, Available(p)) = {Element(<<p, i>>) : i \in 1 .. HeapSize}
    BY <1>6, <1>7 DEF Members
  <2>2. Given(p) = {<<p, i>> : i \in 1 .. HeapSize}
    BY GivenBlocks
  <2> QED
    BY <2>1, <2>2
<1>15. Accounts(W, held)
  <2>1. held = {} /\ TrapNodes(W) = {}
    BY <1>13 DEF Init, TrapNodes
  <2>2. \A b \in Blocks: Element(b) \notin Members(W, Allocated(b[1]))
    BY <1>13, PoolOfBlock
  <2> QED
    BY <1>13, <1>14, <2>1, <2>2 DEF Accounts
<1>16. TrapsOnce(W, h.trap)
  BY <1>13 DEF TrapsOnce
<1>17. Content(h) = W
  BY <1>12, ContentOf
<1>18. fault = FALSE
  BY DEF Init
<1>19. NewHeap(W)
  BY <1>7 DEF NewHeap, First
<1> QED
  BY <1>5, <1>12, <1>15, <1>16, <1>17, <1>18, <1>19 DEF HeapInv

-----------------------------------------------------------------------------
(* The operations. *)

\* The trap of a block that carries no node of the trap list does not matter.
LEMMA TrapsOnceFrame ==
    ASSUME NEW W, NEW V, NEW H, Accounts(W, H), NEW s, NEW t, TrapsOnce(W, s),
           Members(V, TrapList) = Members(W, TrapList),
           NEW b, b \notin TrapNodes(W), \A c \in Blocks: c # b => t[c] = s[c]
    PROVE  TrapsOnce(V, t)
<1>1. \A m \in Members(W, TrapList): m.of \in Blocks /\ m.of # b
  BY ElementsApart DEF Accounts, TrapNodes
<1>2. \A m \in Members(W, TrapList): t[m.of] = s[m.of]
  BY <1>1
<1> QED
  BY <1>2 DEF TrapsOnce

\* A request that is served.
LEMMA AllocStep ==
    ASSUME HeapInv, NEW n \in Pools, ~fault, Candidates(h, n) # {}, Alloc(n)
    PROVE  \E p, b, V: /\ p \in Pools /\ b \in Given(p)
                       /\ Served(h, h', Content(h), V, n, p, b)
                       /\ Content(h)' = V /\ held' = held \union {b} /\ UNCHANGED fault
                       /\ HeapInv'
<1>1. PICK W : W = Content(h)
  OBVIOUS
<1>2. /\ h \in HeapType /\ Represents(h, W) /\ Accounts(W, held)
      /\ TrapsOnce(W, h.trap) /\ fault \in BOOLEAN
  BY <1>1 DEF HeapInv
<1>3. PICK p, b, V : /\ p \in Pools /\ b \in Given(p)
                     /\ Served(h, Get_Block(h, p), W, V, n, p, b)
                     /\ b \notin held /\ b \notin TrapNodes(W) /\ Accounts(V, held \union {b})
  BY <1>2, RequestServed
<1>4. /\ h' = Get_Block(h, p) /\ held' = held \union {b} /\ UNCHANGED fault
  BY <1>3 DEF Alloc, Served
<1>5. h' \in HeapType /\ Represents(h', V) /\ h'.trap = h.trap
  BY <1>3, <1>4 DEF Served, GotBlock
<1>6. Content(h)' = V
  <2>1. Content(h') = V
    BY <1>5, ContentOf
  <2> QED
    BY <2>1 DEF Content, Walk, Lists
<1>7. Members(V, TrapList) = Members(W, TrapList)
  BY <1>3, ListsApart DEF Served, Taking
<1>8. TrapsOnce(V, h'.trap)
  BY <1>2, <1>3, <1>5, <1>7, TrapsOnceFrame
<1>9. HeapInv'
  BY <1>2, <1>3, <1>4, <1>5, <1>6, <1>8 DEF HeapInv
<1> QED
  BY <1>1, <1>3, <1>4, <1>6, <1>9

\* A block that somebody had is free again: from g to f, and from W to V, its element goes
\* to the end of the available ones, and what it held is forgotten.
Freed(g, f, W, V, b) ==
    /\ b \in Blocks /\ b[1] \in Pools
    /\ Moved(W, V, b[1], b)
    /\ Returning(W, V, b[1], b)
    /\ f \in HeapType /\ Represents(f, V)
    /\ f.trap = [g.trap EXCEPT ![b] = "none"]
    /\ f.next[Data(b)] = Null /\ f.prev[Data(b)] = Null
    /\ \A n \in Nodes:
           n \notin Members(W, Available(b[1])) \union Members(W, Allocated(b[1])) \union {Data(b)}
               => f.next[n] = g.next[n] /\ f.prev[n] = g.prev[n]

\* Heap::Free of a block that a caller has.
LEMMA FreeInFreed ==
    ASSUME NEW g \in HeapType, NEW W, Represents(g, W), NEW H, Accounts(W, H), NEW b \in H
    PROVE  \E V: Freed(g, FreeIn(g, b), W, V, b) /\ Accounts(V, H \ {b})
                 /\ Members(V, TrapList) = Members(W, TrapList)
<1>1. /\ b \in Blocks /\ b[1] \in Pools
      /\ FreeIn(g, b) = Scrub(Free_Block(g, b[1], b), b)
      /\ \E V: Released(g, Free_Block(g, b[1], b), W, V, b)
  BY BlockReleased
<1>2. PICK f : f = Free_Block(g, b[1], b)
  OBVIOUS
<1>3. PICK V : Released(g, f, W, V, b)
  BY <1>1, <1>2
<1>4. /\ GaveBlock(g, f, W, V, b[1], b) /\ Returning(W, V, b[1], b)
      /\ OutsideKept(g, f, W, b[1])
  BY <1>3 DEF Released
<1>5. f \in HeapType /\ Represents(f, V) /\ f.trap = g.trap
  BY <1>4 DEF GaveBlock
<1>6. Accounts(V, H \ {b})
  BY <1>4, AccountsReturned
<1>7. Members(V, TrapList) = Members(W, TrapList)
  BY <1>1, <1>4, ListsApart DEF Returning
<1>8. Data(b) \notin Members(V, TrapList)
  BY <1>1, <1>7 DEF Accounts, TrapNodes
<1>9. Loose(Data(b), V)
  <2>1. ASSUME NEW l \in Lists PROVE Data(b) \notin Members(V, l)
    BY <1>1, <1>6, <1>8, ListKinds, DataNotInPool
  <2> QED
    BY <1>5, <2>1, MembersApart
<1>10. PICK s : s = Scrub(f, b)
  OBVIOUS
<1>11. /\ s \in HeapType /\ Represents(s, V) /\ s.trap = [f.trap EXCEPT ![b] = "none"]
       /\ \A n \in Nodes: n # Data(b) => s.next[n] = f.next[n] /\ s.prev[n] = f.prev[n]
       /\ s.next[Data(b)] = Null /\ s.prev[Data(b)] = Null
  <2>1. /\ Scrub(f, b) \in HeapType /\ Represents(Scrub(f, b), V)
        /\ Scrub(f, b).trap = [f.trap EXCEPT ![b] = "none"]
        /\ \A n \in Nodes: n # Data(b) => /\ Scrub(f, b).next[n] = f.next[n]
                                          /\ Scrub(f, b).prev[n] = f.prev[n]
        /\ Scrub(f, b).next[Data(b)] = Null /\ Scrub(f, b).prev[Data(b)] = Null
    BY <1>1, <1>5, <1>9, ScrubKeepsLists
  <2> QED
    BY <1>10, <2>1
<1>12. s = FreeIn(g, b)
  BY <1>1, <1>2, <1>10
<1>13. Freed(g, s, W, V, b)
  BY <1>1, <1>4, <1>5, <1>11 DEF Freed, GaveBlock, OutsideKept
<1> QED
  BY <1>6, <1>7, <1>12, <1>13

\* A block is released.
LEMMA FreeStep ==
    ASSUME HeapInv, NEW b \in Blocks, Free(b)
    PROVE  \E V: /\ Freed(h, h', Content(h), V, b)
                 /\ Members(V, TrapList) = Members(Content(h), TrapList)
                 /\ Content(h)' = V /\ b \in held /\ held' = held \ {b} /\ UNCHANGED fault
                 /\ HeapInv'
<1>1. PICK W : W = Content(h)
  OBVIOUS
<1>2. /\ h \in HeapType /\ Represents(h, W) /\ Accounts(W, held)
      /\ TrapsOnce(W, h.trap) /\ fault \in BOOLEAN
  BY <1>1 DEF HeapInv
<1>3. ~fault /\ b \in held /\ h' = FreeIn(h, b) /\ held' = held \ {b} /\ UNCHANGED fault
  BY DEF Free
<1>4. PICK V : /\ Freed(h, h', W, V, b) /\ Accounts(V, held \ {b})
               /\ Members(V, TrapList) = Members(W, TrapList)
  BY <1>2, <1>3, FreeInFreed
<1>5. h' \in HeapType /\ Represents(h', V) /\ h'.trap = [h.trap EXCEPT ![b] = "none"]
  BY <1>4 DEF Freed
<1>6. Content(h)' = V
  <2>1. Content(h') = V
    BY <1>5, ContentOf
  <2> QED
    BY <2>1 DEF Content, Walk, Lists
<1>7. TrapsOnce(V, h'.trap)
  <2>1. b \notin TrapNodes(W)
    BY <1>2, <1>3 DEF Accounts
  <2>2. \A c \in Blocks: c # b => h'.trap[c] = h.trap[c]
    BY <1>2, <1>5 DEF HeapType
  <2> QED
    BY <1>2, <1>4, <2>1, <2>2, TrapsOnceFrame
<1>8. HeapInv'
  BY <1>2, <1>3, <1>4, <1>5, <1>6, <1>7 DEF HeapInv
<1> QED
  BY <1>1, <1>3, <1>4, <1>6, <1>8

\* A trap is written into a block.
WithTrap(g, b, t) == [g EXCEPT !.trap[b] = t]

\* Writing a trap into a block changes no list.
LEMMA TrapKeepsLists ==
    ASSUME NEW g \in HeapType, NEW W, Represents(g, W), NEW b \in Blocks,
           NEW t \in Traps \union {"none"}, NEW f, f = WithTrap(g, b, t)
    PROVE  /\ f \in HeapType /\ Represents(f, W) /\ f.trap = [g.trap EXCEPT ![b] = t]
           /\ f.next = g.next /\ f.prev = g.prev
<1>1. /\ f.next = g.next /\ f.prev = g.prev /\ f.trap = [g.trap EXCEPT ![b] = t]
      /\ f.first = g.first /\ f.last = g.last /\ f.sz = g.sz
  BY DEF HeapType, WithTrap
<1>2. f \in HeapType
  BY DEF HeapType, WithTrap
<1>3. ASSUME NEW l \in Lists PROVE Chain(f, l, W[l])
  BY <1>1, ChainFrame DEF Represents
<1>4. Represents(f, W)
  BY <1>3 DEF Represents
<1> QED
  BY <1>1, <1>2, <1>4

\* A node of the trap list stands for the trap written in its block.
LEMMA TrapOfNode ==
    ASSUME NEW W, NEW H, Accounts(W, H), NEW g, NEW i \in 1 .. Len(W[TrapList])
    PROVE  /\ W[TrapList][i].of \in TrapNodes(W) /\ W[TrapList][i] = Data(W[TrapList][i].of)
           /\ Value(g, W[TrapList][i]) = g.trap[W[TrapList][i].of]
<1>1. PICK m : m = W[TrapList][i]
  OBVIOUS
<1>2. m \in Members(W, TrapList)
  BY <1>1 DEF Members
<1>3. PICK b \in Blocks : m = Data(b)
  BY <1>2 DEF Accounts
<1>4. m.of = b /\ m.at = "data"
  BY <1>3, ElementsApart
<1> QED
  BY <1>1, <1>2, <1>3, <1>4 DEF Value, TrapNodes

\* From h to h', and from W to X, a trap gets the block b for its node, which goes to the
\* end of the trap list.
Listed(t, W, V, X, p, b) ==
    /\ p \in Pools /\ b \in Given(p) /\ b \notin held /\ b \notin TrapNodes(W)
    /\ Served(h, Get_Block(h, p), W, V, NodeClass, p, b)
    /\ X = [V EXCEPT ![TrapList] = Append(W[TrapList], Data(b))]
    /\ Represents(h', X)
    /\ Members(X, TrapList) = Members(W, TrapList) \union {Data(b)}
    /\ h'.trap = [h.trap EXCEPT ![b] = t]
    /\ \A n \in Nodes:
           n \notin Members(W, Available(p)) \union Members(W, Allocated(p))
                       \union Members(W, TrapList) \union {Data(b)}
               => h'.next[n] = h.next[n] /\ h'.prev[n] = h.prev[n]

\* A trap is registered, with a block for its node.
LEMMA RegisterStep ==
    ASSUME HeapInv, NEW t \in Traps, Register_Trap_Region(t), Candidates(h, NodeClass) # {}
    PROVE  \E V, X, p, b: /\ Listed(t, Content(h), V, X, p, b)
                          /\ Content(h)' = X /\ UNCHANGED <<held, fault>>
                          /\ HeapInv'
<1>1. PICK W : W = Content(h)
  OBVIOUS
<1>2. /\ h \in HeapType /\ Represents(h, W) /\ Accounts(W, held)
      /\ TrapsOnce(W, h.trap) /\ fault \in BOOLEAN
  BY <1>1 DEF HeapInv
<1>3. NodeClass \in Pools
  BY HeapSizes
<1>4. PICK p, b, V : /\ p \in Pools /\ b \in Given(p)
                     /\ Served(h, Get_Block(h, p), W, V, NodeClass, p, b)
                     /\ b \notin held /\ b \notin TrapNodes(W) /\ Accounts(V, held \union {b})
  BY <1>2, <1>3, RequestServed
<1>5. PICK k : k = Get_Block(h, p)
  OBVIOUS
<1>6. PICK g : g = WithTrap(k, b, t)
  OBVIOUS
<1>7. h' = PushBack(g, TrapList, Data(b)) /\ UNCHANGED <<held, fault>> /\ ~fault /\ ~Registered(t)
  BY <1>4, <1>5, <1>6 DEF Register_Trap_Region, Served, WithTrap
<1>8. /\ k \in HeapType /\ Represents(k, V) /\ k.trap = h.trap
      /\ Taking(W, V, p, Element(b)) /\ OutsideKept(h, k, W, p)
  BY <1>4, <1>5 DEF Served, GotBlock
<1>9. b \in Blocks /\ Data(b) \in Nodes
  BY <1>4, ElementsApart DEF Given
<1>10. /\ g \in HeapType /\ Represents(g, V) /\ g.trap = [h.trap EXCEPT ![b] = t]
       /\ g.next = k.next /\ g.prev = k.prev
  <2>1. t \in Traps \union {"none"}
    OBVIOUS
  <2>2. /\ g \in HeapType /\ Represents(g, V) /\ g.trap = [k.trap EXCEPT ![b] = t]
        /\ g.next = k.next /\ g.prev = k.prev
    BY <1>6, <1>8, <1>9, <2>1, TrapKeepsLists
  <2> QED
    BY <1>8, <2>2
<1>11. V[TrapList] = W[TrapList] /\ Members(V, TrapList) = Members(W, TrapList)
  BY <1>4, <1>8, ListsApart DEF Taking
<1>12. Loose(Data(b), V)
  <2>1. Data(b) \notin Members(V, TrapList)
    BY <1>4, <1>9, <1>11 DEF TrapNodes
  <2>2. ASSUME NEW l \in Lists PROVE Data(b) \notin Members(V, l)
    BY <1>4, <1>9, <2>1, ListKinds, DataNotInPool
  <2> QED
    BY <1>8, <2>2, MembersApart
<1>13. PICK X : X = [V EXCEPT ![TrapList] = Append(V[TrapList], Data(b))]
  OBVIOUS
<1>14. /\ h' \in HeapType /\ Represents(h', X) /\ h'.trap = g.trap
       /\ \A n \in Nodes: n # Data(b) /\ (\A i \in 1 .. Len(V[TrapList]): V[TrapList][i] # n)
              => h'.next[n] = g.next[n] /\ h'.prev[n] = g.prev[n]
  <2>1. PICK l \in Lists : l = TrapList
    BY ListsApart
  <2>2. PICK e \in Nodes : e = Data(b)
    BY <1>9
  <2>3. PICK f : f = PushBack(g, l, e)
    OBVIOUS
  <2>4. /\ f \in HeapType /\ Represents(f, [V EXCEPT ![l] = Append(V[l], e)]) /\ f.trap = g.trap
        /\ \A n \in Nodes: n # e /\ (\A i \in 1 .. Len(V[l]): V[l][i] # n)
              => f.next[n] = g.next[n] /\ f.prev[n] = g.prev[n]
    <3>1. g \in HeapType /\ Represents(g, V) /\ Loose(e, V)
      BY <1>10, <1>12, <2>2
    <3>2. /\ PushBack(g, l, e) \in HeapType
          /\ Represents(PushBack(g, l, e), [V EXCEPT ![l] = Append(V[l], e)])
          /\ PushBack(g, l, e).trap = g.trap
          /\ \A n \in Nodes: n # e /\ (\A i \in 1 .. Len(V[l]): V[l][i] # n)
                 => /\ PushBack(g, l, e).next[n] = g.next[n]
                    /\ PushBack(g, l, e).prev[n] = g.prev[n]
      BY <3>1, PushBackAppends
    <3> QED
      BY <2>3, <3>2
  <2>5. h' = f /\ X = [V EXCEPT ![l] = Append(V[l], e)]
    BY <1>7, <1>13, <2>1, <2>2, <2>3
  <2> QED
    BY <2>1, <2>2, <2>4, <2>5
<1>15. V \in [Lists -> Seq(Nodes)]
  BY <1>10 DEF Represents
<1>16. X[TrapList] = Append(V[TrapList], Data(b)) /\ \A l \in Lists: l # TrapList => X[l] = V[l]
  BY <1>13, <1>15, ListsApart
<1>17. Members(X, TrapList) = Members(V, TrapList) \union {Data(b)}
  <2>1. PICK w \in Seq(Nodes) : w = V[TrapList]
    BY <1>15, ListsApart
  <2>2. X[TrapList] = Append(w, Data(b))
    BY <1>16, <2>1
  <2> QED
    BY <1>9, <2>1, <2>2, MembersAppend
<1>18. \A l \in Lists: l # TrapList => Members(X, l) = Members(V, l)
  BY <1>16 DEF Members
<1>19. Accounts(X, held)
  BY <1>4, <1>9, <1>17, <1>18, AccountsRegistered
<1>20. TrapsOnce(X, h'.trap)
  <2>1. h'.trap = [h.trap EXCEPT ![b] = t] /\ h'.trap[b] = t
    BY <1>2, <1>9, <1>10, <1>14 DEF HeapType
  <2>2. ASSUME NEW m \in Members(W, TrapList)
        PROVE  m.of # b /\ h'.trap[m.of] = h.trap[m.of] /\ h'.trap[m.of] # t
    <3>1. PICK i \in 1 .. Len(W[TrapList]) : m = W[TrapList][i]
      BY DEF Members
    <3>2. m.of \in TrapNodes(W) /\ Value(h, m) = h.trap[m.of]
      BY <1>2, <3>1, TrapOfNode
    <3>3. Find(h, TrapList, t) = Null
      BY <1>7 DEF Registered
    <3>4. Value(h, m) # t
      <4>1. PICK l \in Lists : l = TrapList
        BY ListsApart
      <4>2. \A j \in 1 .. Len(W[l]): W[l][j] # Null
        BY <1>2, ChainPlaces DEF Represents
      <4>3. Find(h, l, t) = Null => \A j \in 1 .. Len(W[l]): Value(h, W[l][j]) # t
        BY <1>2, <4>2, FindPlace
      <4> QED
        BY <3>1, <3>3, <4>1, <4>3
    <3>5. m.of # b /\ m.of \in Blocks
      BY <1>4, <3>2 DEF TrapNodes
    <3> QED
      BY <1>2, <1>9, <2>1, <3>2, <3>4, <3>5 DEF HeapType
  <2>3. Data(b).of = b
    BY <1>9, ElementsApart
  <2>4. ASSUME NEW m \in Members(X, TrapList) PROVE h'.trap[m.of] \in Traps
    BY <1>2, <1>11, <1>17, <2>1, <2>2, <2>3 DEF TrapsOnce
  <2>5. ASSUME NEW m \in Members(X, TrapList), NEW n \in Members(X, TrapList),
               h'.trap[m.of] = h'.trap[n.of]
        PROVE  m = n
    BY <1>2, <1>11, <1>17, <2>1, <2>2, <2>3, <2>5 DEF TrapsOnce
  <2> QED
    BY <2>4, <2>5 DEF TrapsOnce
<1>21. Content(h)' = X
  <2>1. Content(h') = X
    BY <1>14, ContentOf
  <2> QED
    BY <2>1 DEF Content, Walk, Lists
<1>22. HeapInv'
  BY <1>2, <1>7, <1>14, <1>19, <1>20, <1>21 DEF HeapInv
<1>23. ASSUME NEW n \in Nodes,
              n \notin Members(W, Available(p)) \union Members(W, Allocated(p))
                          \union Members(W, TrapList) \union {Data(b)}
       PROVE  h'.next[n] = h.next[n] /\ h'.prev[n] = h.prev[n]
  <2>1. \A i \in 1 .. Len(V[TrapList]): V[TrapList][i] # n
    BY <1>11, <1>23 DEF Members
  <2>2. h'.next[n] = k.next[n] /\ h'.prev[n] = k.prev[n]
    BY <1>10, <1>14, <1>23, <2>1
  <2> QED
    BY <1>8, <1>23, <2>2 DEF OutsideKept
<1>24. Listed(t, W, V, X, p, b)
  <2>1. h'.trap = [h.trap EXCEPT ![b] = t]
    BY <1>10, <1>14
  <2> QED
    BY <1>4, <1>11, <1>13, <1>14, <1>17, <1>23, <2>1 DEF Listed
<1> QED
  BY <1>1, <1>7, <1>21, <1>22, <1>24

\* Registering a trap goes wrong when no block is large enough.
LEMMA RegisterFaults ==
    ASSUME HeapInv, NEW t \in Traps, Register_Trap_Region(t), Candidates(h, NodeClass) = {}
    PROVE  HeapInv' /\ UNCHANGED <<h, held>>
<1>1. PICK W : W = Content(h)
  OBVIOUS
<1>2. Represents(h, W)
  BY <1>1 DEF HeapInv
<1>3. NodeClass \in Pools
  BY HeapSizes
<1>4. \A p \in Pools: p >= NodeClass => W[Available(p)] = <<>>
  BY <1>2, <1>3, CandidateLists DEF Pools
<1>5. Exhausted(W)
  <2>1. \A p \in Pools: W[Available(p)] = <<>> => Members(W, Available(p)) = {}
    BY DEF Members
  <2> QED
    BY <1>4, <2>1 DEF Exhausted
<1>6. UNCHANGED <<h, held>> /\ fault' = TRUE
  BY DEF Register_Trap_Region
<1>7. Content(h)' = Content(h)
  BY <1>6 DEF Content, Walk, Lists
<1> QED
  BY <1>1, <1>5, <1>6, <1>7 DEF HeapInv

\* No node of a list is its own neighbour.
LEMMA NeighboursDiffer ==
    ASSUME NEW g, NEW W, Represents(g, W), NEW l \in Lists, NEW k \in 1 .. Len(W[l]),
           NEW e, e = W[l][k]
    PROVE  g.next[e] # e /\ g.prev[e] # e
<1>1. PICK w : w = W[l]
  OBVIOUS
<1>2. Chain(g, l, w)
  BY <1>1 DEF Represents
<1>3. PICK n \in Nat : n = Len(w)
  BY <1>2, ChainPlaces
<1>4. k \in 1 .. n /\ e = w[k] /\ w[k] # Null
  BY <1>1, <1>2, <1>3, ChainPlaces
<1>5. g.next[e] = (IF k = n THEN Null ELSE w[k + 1]) /\ g.prev[e] = (IF k = 1 THEN Null ELSE w[k - 1])
  BY <1>1, <1>2, <1>3, <1>4 DEF Chain
<1>6. k # n => k + 1 \in 1 .. n /\ k + 1 # k
  BY <1>3, <1>4
<1>7. k # 1 => k - 1 \in 1 .. n /\ k - 1 # k
  BY <1>3, <1>4
<1>8. \A i, j \in 1 .. n: w[i] = w[j] => i = j
  BY <1>2, <1>3 DEF Chain
<1> QED
  BY <1>4, <1>5, <1>6, <1>7, <1>8

\* Forgetting what a block held and closing the gap its node leaves is erasing the node and
\* forgetting its trap: the node's old neighbours have been read before.
LEMMA ScrubThenUnlink ==
    ASSUME NEW g \in HeapType, NEW b \in Blocks, NEW l \in Lists, NEW p, NEW n,
           p = g.prev[Data(b)], n = g.next[Data(b)]
    PROVE  /\ Unlink(Scrub(g, b), l, p, n) = WithTrap(Erase(g, l, Data(b)), b, "none")
           /\ p # Data(b) => Unlink(Scrub(g, b), l, p, n).next[Data(b)] = Null
           /\ n # Data(b) => Unlink(Scrub(g, b), l, p, n).prev[Data(b)] = Null
<1>1. PICK e \in Nodes : e = Data(b)
  BY ElementsApart
<1>2. PICK u : u = [g EXCEPT !.next[e] = Null, !.prev[e] = Null]
  OBVIOUS
<1>3. PICK s : s = Scrub(g, b)
  OBVIOUS
<1>4. /\ u.next = [g.next EXCEPT ![e] = Null] /\ u.prev = [g.prev EXCEPT ![e] = Null]
      /\ u.first = g.first /\ u.last = g.last /\ u.sz = g.sz /\ u.trap = g.trap
  BY <1>2 DEF HeapType
<1>5. /\ s.next = [g.next EXCEPT ![e] = Null] /\ s.prev = [g.prev EXCEPT ![e] = Null]
      /\ s.first = g.first /\ s.last = g.last /\ s.sz = g.sz
      /\ s.trap = [g.trap EXCEPT ![b] = "none"]
  BY <1>1, <1>3 DEF Scrub, HeapType
<1>6. Erase(g, l, e) = Unlink(u, l, p, n)
  BY <1>1, <1>2 DEF Erase
<1>7. Unlink(s, l, p, n) = WithTrap(Unlink(u, l, p, n), b, "none")
  <2>1. PICK A : A = [m \in Nodes |-> IF m = p THEN n ELSE u.next[m]]
    OBVIOUS
  <2>2. PICK B : B = [m \in Nodes |-> IF m = n THEN p ELSE u.prev[m]]
    OBVIOUS
  <2>3. PICK C : C = [u.first EXCEPT ![l] = IF p = Null THEN n ELSE @]
    OBVIOUS
  <2>4. PICK D : D = [u.last EXCEPT ![l] = IF n = Null THEN p ELSE @]
    OBVIOUS
  <2>5. PICK E : E = [u.sz EXCEPT ![l] = @ - 1]
    OBVIOUS
  <2>6. Unlink(u, l, p, n)
            = [next |-> A, prev |-> B, first |-> C, last |-> D, sz |-> E, trap |-> u.trap]
    BY <2>1, <2>2, <2>3, <2>4, <2>5 DEF Unlink
  <2>7. Unlink(s, l, p, n)
            = [next |-> A, prev |-> B, first |-> C, last |-> D, sz |-> E,
               trap |-> [u.trap EXCEPT ![b] = "none"]]
    BY <1>4, <1>5, <2>1, <2>2, <2>3, <2>4, <2>5 DEF Unlink
  <2> QED
    BY <2>6, <2>7 DEF WithTrap
<1>8. s.next[e] = Null /\ s.prev[e] = Null
  BY <1>1, <1>5 DEF HeapType
<1>9. /\ p # e => Unlink(s, l, p, n).next[e] = Null
      /\ n # e => Unlink(s, l, p, n).prev[e] = Null
  BY <1>1, <1>8 DEF Unlink
<1> QED
  BY <1>1, <1>3, <1>6, <1>7, <1>9

\* From h to h', and from W to X, a trap loses its node, the one at place k of the trap list,
\* and the block b of the node is free again.
Unlisted(t, W, V, X, k, b) ==
    /\ b \in TrapNodes(W) /\ b \notin held /\ b[1] \in Pools
    /\ k \in 1 .. Len(W[TrapList]) /\ W[TrapList][k] = Data(b) /\ h.trap[b] = t
    /\ Moved(W, V, b[1], b)
    /\ Returning(W, V, b[1], b)
    /\ X = [V EXCEPT ![TrapList] = Without(W[TrapList], k)]
    /\ Represents(h', X)
    /\ Members(X, TrapList) = Members(W, TrapList) \ {Data(b)}
    /\ h'.trap = [h.trap EXCEPT ![b] = "none"]
    /\ h'.next[Data(b)] = Null /\ h'.prev[Data(b)] = Null
    /\ \A n \in Nodes:
           n \notin Members(W, Available(b[1])) \union Members(W, Allocated(b[1]))
                       \union Members(W, TrapList)
               => h'.next[n] = h.next[n] /\ h'.prev[n] = h.prev[n]

\* A trap is removed, and its node's block released.
LEMMA RemoveStep ==
    ASSUME HeapInv, NEW t \in Traps, Remove_Trap_Region(t)
    PROVE  \E V, X, k, b: /\ Unlisted(t, Content(h), V, X, k, b)
                          /\ Content(h)' = X /\ UNCHANGED <<held, fault>>
                          /\ HeapInv'
<1>1. PICK W : W = Content(h)
  OBVIOUS
<1>2. /\ h \in HeapType /\ Represents(h, W) /\ Accounts(W, held)
      /\ TrapsOnce(W, h.trap) /\ fault \in BOOLEAN
  BY <1>1 DEF HeapInv
<1>3. PICK l \in Lists : l = TrapList
  BY ListsApart
<1>4. PICK e : e = Find(h, l, t)
  OBVIOUS
<1>5. /\ ~fault /\ e # Null /\ UNCHANGED <<held, fault>>
      /\ h' = Unlink(FreeIn(h, e.of), l, h.prev[e], h.next[e])
  BY <1>3, <1>4 DEF Remove_Trap_Region, Registered
<1>6. PICK k \in 1 .. Len(W[l]) : e = W[l][k] /\ Value(h, e) = t
  BY <1>2, <1>4, <1>5, FindPlace
<1>7. PICK b \in TrapNodes(W) : b = e.of /\ e = Data(b) /\ h.trap[b] = t
  <2>1. k \in 1 .. Len(W[TrapList]) /\ e = W[TrapList][k]
    BY <1>3, <1>6
  <2>2. e.of \in TrapNodes(W) /\ e = Data(e.of) /\ Value(h, e) = h.trap[e.of]
    BY <1>2, <2>1, TrapOfNode
  <2> QED
    BY <1>6, <2>2
<1>8. b \in Blocks /\ b[1] \in Pools /\ b \in held \union TrapNodes(W) /\ b \notin held
  BY <1>2, PoolOfBlock DEF TrapNodes, Accounts
<1>9. PICK g : g = Free_Block(h, b[1], b)
  OBVIOUS
<1>10. PICK V : Released(h, g, W, V, b)
  BY <1>2, <1>8, <1>9, BlockReleased
<1>11. FreeIn(h, b) = Scrub(g, b)
  BY <1>2, <1>8, <1>9, BlockReleased
<1>12. /\ g \in HeapType /\ Represents(g, V) /\ g.trap = h.trap
       /\ Returning(W, V, b[1], b) /\ OutsideKept(h, g, W, b[1])
       /\ Moved(W, V, b[1], b)
  BY <1>10 DEF Released, GaveBlock
<1>13. e \in Nodes /\ g.prev[e] = h.prev[e] /\ g.next[e] = h.next[e]
  BY <1>2, <1>7, <1>8, <1>12, DataNotInPool, ElementsApart DEF OutsideKept
<1>14. V[l] = W[l] /\ Members(V, l) = Members(W, l)
  BY <1>3, <1>8, <1>12, ListsApart DEF Returning
<1>15. PICK G : G = Erase(g, l, e)
  OBVIOUS
<1>16. PICK X : X = [V EXCEPT ![l] = Without(V[l], k)]
  OBVIOUS
<1>17. /\ G \in HeapType /\ Represents(G, X) /\ G.trap = g.trap
       /\ \A n \in Nodes: (\A i \in 1 .. Len(V[l]): V[l][i] # n)
              => G.next[n] = g.next[n] /\ G.prev[n] = g.prev[n]
  <2>1. k \in 1 .. Len(V[l]) /\ e = V[l][k]
    BY <1>6, <1>14
  <2>2. /\ Erase(g, l, e) \in HeapType
        /\ Represents(Erase(g, l, e), [V EXCEPT ![l] = Without(V[l], k)])
        /\ Erase(g, l, e).trap = g.trap
        /\ \A n \in Nodes: (\A i \in 1 .. Len(V[l]): V[l][i] # n)
               => /\ Erase(g, l, e).next[n] = g.next[n]
                  /\ Erase(g, l, e).prev[n] = g.prev[n]
    <3>1. PICK i \in 1 .. Len(V[l]) : i = k /\ e = V[l][i]
      BY <2>1
    <3>2. g \in HeapType /\ Represents(g, V)
      BY <1>12
    <3>3. /\ Erase(g, l, e) \in HeapType
          /\ Represents(Erase(g, l, e), [V EXCEPT ![l] = Without(V[l], i)])
          /\ Erase(g, l, e).trap = g.trap
          /\ \A n \in Nodes: (\A j \in 1 .. Len(V[l]): V[l][j] # n)
                 => /\ Erase(g, l, e).next[n] = g.next[n]
                    /\ Erase(g, l, e).prev[n] = g.prev[n]
      BY <3>1, <3>2, EraseTakes
    <3> QED
      BY <3>1, <3>3
  <2> QED
    BY <1>15, <1>16, <2>2
<1>18. /\ h' = WithTrap(G, b, "none")
       /\ h'.next[e] = Null /\ h'.prev[e] = Null
  <2>1. h.prev[e] # e /\ h.next[e] # e
    BY <1>2, <1>6, NeighboursDiffer
  <2>2. PICK p : p = h.prev[e]
    OBVIOUS
  <2>3. PICK n : n = h.next[e]
    OBVIOUS
  <2>4. h' = Unlink(Scrub(g, b), l, p, n)
    BY <1>5, <1>7, <1>11, <2>2, <2>3
  <2>5. p = g.prev[Data(b)] /\ n = g.next[Data(b)] /\ p # Data(b) /\ n # Data(b)
    BY <1>7, <1>13, <2>1, <2>2, <2>3
  <2>6. /\ Unlink(Scrub(g, b), l, p, n) = WithTrap(Erase(g, l, Data(b)), b, "none")
        /\ Unlink(Scrub(g, b), l, p, n).next[Data(b)] = Null
        /\ Unlink(Scrub(g, b), l, p, n).prev[Data(b)] = Null
    BY <1>8, <1>12, <2>5, ScrubThenUnlink
  <2> QED
    BY <1>7, <1>15, <2>4, <2>6
<1>19. /\ h' \in HeapType /\ Represents(h', X) /\ h'.trap = [G.trap EXCEPT ![b] = "none"]
       /\ h'.next = G.next /\ h'.prev = G.prev
  BY <1>8, <1>17, <1>18, TrapKeepsLists
<1>20. h'.trap = [h.trap EXCEPT ![b] = "none"]
  BY <1>12, <1>17, <1>19
<1>21. \A n \in Nodes:
           n \notin Members(W, Available(b[1])) \union Members(W, Allocated(b[1]))
                       \union Members(W, l)
               => h'.next[n] = h.next[n] /\ h'.prev[n] = h.prev[n]
  BY <1>12, <1>14, <1>17, <1>19 DEF OutsideKept, Members
<1>22. PICK Y : Y = [W EXCEPT ![l] = Without(W[l], k)]
  OBVIOUS
<1>23. W \in [Lists -> Seq(Nodes)] /\ V \in [Lists -> Seq(Nodes)]
  BY <1>2, <1>12 DEF Represents
<1>24. /\ X[l] = Without(W[l], k) /\ Y[l] = Without(W[l], k)
       /\ \A m \in Lists: m # l => X[m] = V[m] /\ Y[m] = W[m]
  BY <1>14, <1>16, <1>22, <1>23
<1>25. Members(Y, l) = Members(W, l) \ {Data(b)} /\ Members(X, l) = Members(W, l) \ {Data(b)}
  <2>1. PICK w \in Seq(Nodes) : w = W[l]
    BY <1>23
  <2>2. Chain(h, l, w)
    BY <1>2, <2>1 DEF Represents
  <2>3. \A i, j \in 1 .. Len(w): w[i] = w[j] => i = j
    BY <2>2 DEF Chain
  <2>4. k \in 1 .. Len(w) /\ w[k] = Data(b) /\ W[l] = w
    BY <1>6, <1>7, <2>1
  <2>5. Y[l] = Without(w, k) /\ X[l] = Without(w, k)
    BY <1>24, <2>1
  <2>6. Members(Y, l) = Members(W, l) \ {w[k]}
    <3>1. PICK i \in 1 .. Len(w) : i = k
      BY <2>4
    <3>2. PICK Z : Z = Y
      OBVIOUS
    <3>3. /\ w \in Seq(Nodes) /\ W[l] = w /\ Z[l] = Without(w, i)
          /\ \A m, n \in 1 .. Len(w): w[m] = w[n] => m = n
      BY <2>1, <2>3, <2>4, <2>5, <3>1, <3>2
    <3>4. Members(Z, l) = Members(W, l) \ {w[i]}
      BY <3>3, MembersWithout
    <3> QED
      BY <3>1, <3>2, <3>4
  <2>7. Members(X, l) = Members(Y, l)
    BY <2>5 DEF Members
  <2> QED
    BY <2>4, <2>6, <2>7
<1>26. \A m \in Lists: m # l => Members(X, m) = Members(V, m) /\ Members(Y, m) = Members(W, m)
  BY <1>24 DEF Members
<1>27. Accounts(Y, held \union {b})
  <2>1. /\ Members(Y, TrapList) = Members(W, TrapList) \ {Data(b)}
        /\ \A m \in Lists: m # TrapList => Members(Y, m) = Members(W, m)
    BY <1>3, <1>25, <1>26
  <2> QED
    BY <1>2, <1>7, <2>1, AccountsRemoved
<1>28. Returning(Y, X, b[1], b)
  <2>1. /\ Available(b[1]) \in Lists /\ Allocated(b[1]) \in Lists
        /\ Available(b[1]) # l /\ Allocated(b[1]) # l
    BY <1>3, <1>8, ListsApart
  <2>2. \A m \in Lists: m # Available(b[1]) /\ m # Allocated(b[1])
            => X[m] = Y[m] /\ Members(X, m) = Members(Y, m)
    BY <1>12, <1>24, <1>25, <1>26 DEF Returning
  <2> QED
    BY <1>12, <1>26, <2>1, <2>2 DEF Returning
<1>29. Accounts(X, held)
  <2>1. Accounts(X, (held \union {b}) \ {b})
    BY <1>27, <1>28, AccountsReturned
  <2>2. (held \union {b}) \ {b} = held
    BY <1>8
  <2> QED
    BY <2>1, <2>2
<1>30. TrapsOnce(X, h'.trap)
  <2>1. ASSUME NEW m \in Members(X, TrapList)
        PROVE  m \in Members(W, TrapList) /\ h'.trap[m.of] = h.trap[m.of]
    <3>1. m \in Members(W, TrapList) /\ m # Data(b)
      BY <1>3, <1>25
    <3>2. PICK c \in Blocks : m = Data(c)
      BY <1>2, <3>1 DEF Accounts
    <3>3. m.of = c /\ c # b
      BY <3>1, <3>2, ElementsApart
    <3> QED
      BY <1>2, <1>20, <3>1, <3>2, <3>3 DEF HeapType
  <2> QED
    BY <1>2, <2>1 DEF TrapsOnce
<1>31. Content(h)' = X
  <2>1. Content(h') = X
    BY <1>19, ContentOf
  <2> QED
    BY <2>1 DEF Content, Walk, Lists
<1>32. HeapInv'
  BY <1>2, <1>5, <1>19, <1>29, <1>30, <1>31 DEF HeapInv
<1>33. Unlisted(t, W, V, X, k, b)
  <2>1. /\ k \in 1 .. Len(W[TrapList]) /\ W[TrapList][k] = Data(b)
        /\ X = [V EXCEPT ![TrapList] = Without(W[TrapList], k)]
        /\ Members(X, TrapList) = Members(W, TrapList) \ {Data(b)}
    BY <1>3, <1>6, <1>7, <1>14, <1>16, <1>25
  <2>2. h'.next[Data(b)] = Null /\ h'.prev[Data(b)] = Null
    BY <1>7, <1>18
  <2> QED
    BY <1>3, <1>7, <1>8, <1>12, <1>19, <1>20, <1>21, <2>1, <2>2 DEF Unlisted
<1> QED
  BY <1>1, <1>5, <1>31, <1>32, <1>33

\* Nothing happens.
LEMMA StutterKeepsInv == HeapInv /\ UNCHANGED vars => HeapInv' /\ Content(h)' = Content(h)
<1> SUFFICES ASSUME HeapInv, UNCHANGED vars PROVE HeapInv' /\ Content(h)' = Content(h)
  OBVIOUS
<1>1. h' = h /\ held' = held /\ fault' = fault
  BY DEF vars
<1>2. Content(h)' = Content(h)
  BY <1>1 DEF Content, Walk, Lists
<1> QED
  BY <1>1, <1>2 DEF HeapInv

\* Every operation keeps the lists, the accounts and the traps right.
LEMMA NextHeapInv == HeapInv /\ [Next]_vars => HeapInv'
<1> SUFFICES ASSUME HeapInv, [Next]_vars PROVE HeapInv'
  OBVIOUS
<1>1. ASSUME NEW n \in Pools, Alloc(n) PROVE HeapInv'
  <2>1. CASE Candidates(h, n) = {}
    BY <1>1, <2>1, StutterKeepsInv DEF Alloc
  <2>2. CASE Candidates(h, n) # {}
    BY <1>1, <2>2, AllocStep DEF Alloc
  <2> QED
    BY <2>1, <2>2
<1>2. ASSUME NEW b \in Blocks, Free(b) PROVE HeapInv'
  BY <1>2, FreeStep
<1>3. ASSUME NEW t \in Traps, Register_Trap_Region(t) PROVE HeapInv'
  <2>1. CASE Candidates(h, NodeClass) = {}
    BY <1>3, <2>1, RegisterFaults
  <2>2. CASE Candidates(h, NodeClass) # {}
    BY <1>3, <2>2, RegisterStep
  <2> QED
    BY <2>1, <2>2
<1>4. ASSUME NEW t \in Traps, Remove_Trap_Region(t) PROVE HeapInv'
  BY <1>4, RemoveStep
<1>5. CASE Halted
  BY <1>5, StutterKeepsInv DEF Halted
<1>6. CASE UNCHANGED vars
  BY <1>6, StutterKeepsInv
<1> QED
  BY <1>1, <1>2, <1>3, <1>4, <1>5, <1>6 DEF Next

\* At every moment the lists are chains of nodes of which none is on two lists, every block
\* is where its accounts say, the trap list holds a trap once, and a fault means that no
\* block large enough for a node was free.
THEOREM HeapAlwaysSound == Spec => []HeapInv
<1>1. Init => HeapInv
  BY InitHeap
<1>2. HeapInv /\ [Next]_vars => HeapInv'
  BY NextHeapInv
<1> QED
  BY <1>1, <1>2, PTL DEF Spec

-----------------------------------------------------------------------------
(* What the checked properties say of the lists. *)

\* No more blocks of a pool are on one of its lists than it has been given.
LEMMA PoolListShort ==
    ASSUME NEW g, NEW W, Represents(g, W), NEW H, Accounts(W, H), NEW p \in Pools,
           NEW l \in {Available(p), Allocated(p)}
    PROVE  Len(W[l]) <= HeapSize
<1>1. PICK w : w = W[l]
  OBVIOUS
<1>2. l \in Lists /\ Chain(g, l, w)
  BY <1>1, ListsApart DEF Represents
<1>3. PICK n \in Nat : n = Len(w)
  BY <1>2, ChainPlaces
<1>4. \A i, j \in 1 .. n: w[i] = w[j] => i = j
  BY <1>2, <1>3 DEF Chain
<1>5. \A i \in 1 .. n: \E c \in Given(p): w[i] = Element(c)
  <2>1. \A i \in 1 .. n: w[i] \in Members(W, l)
    BY <1>1, <1>3 DEF Members
  <2> QED
    BY <2>1 DEF Accounts
<1>6. ASSUME NEW i \in 1 .. n
      PROVE  w[i].of[2] \in 1 .. HeapSize /\ w[i] = Element(<<p, w[i].of[2]>>)
  <2>1. PICK c \in Given(p) : w[i] = Element(c)
    BY <1>5
  <2>2. PICK k \in 1 .. HeapSize : c = <<p, k>>
    BY <2>1, GivenBlocks
  <2>3. w[i].of = c
    BY <2>1, ElementsApart DEF Given
  <2> QED
    BY <2>1, <2>2, <2>3
<1> DEFINE f == [i \in 1 .. n |-> w[i].of[2]]
<1>7. f \in Injection(1 .. n, 1 .. HeapSize)
  <2>1. f \in [1 .. n -> 1 .. HeapSize]
    BY <1>6
  <2>2. ASSUME NEW i \in 1 .. n, NEW j \in 1 .. n, f[i] = f[j] PROVE i = j
    <3>1. w[i].of[2] = w[j].of[2]
      BY <2>2
    <3>2. w[i] = w[j]
      BY <1>6, <3>1
    <3> QED
      BY <1>4, <3>2
  <2> QED
    BY <2>1, <2>2 DEF Injection, IsInjective
<1> HIDE DEF f
<1>8. /\ IsFiniteSet(1 .. n) /\ Cardinality(1 .. n) = n
      /\ IsFiniteSet(1 .. HeapSize) /\ Cardinality(1 .. HeapSize) = HeapSize
  <2>1. \A m \in Nat: IsFiniteSet(1 .. m) /\ Cardinality(1 .. m) = IF 1 > m THEN 0 ELSE m - 1 + 1
    BY FS_Interval
  <2>2. \A m \in Nat: (IF 1 > m THEN 0 ELSE m - 1 + 1) = m
    OBVIOUS
  <2> QED
    BY <2>1, <2>2, HeapSizes
<1>9. Cardinality(1 .. n) <= Cardinality(1 .. HeapSize)
  BY <1>7, <1>8, FS_Injection
<1> QED
  BY <1>1, <1>3, <1>8, <1>9

\* The trap list is no longer than there are traps.
LEMMA TrapListShort ==
    ASSUME NEW g, NEW W, Represents(g, W), NEW H, Accounts(W, H), NEW s, TrapsOnce(W, s)
    PROVE  Len(W[TrapList]) <= Cardinality(Traps)
<1>1. PICK w : w = W[TrapList]
  OBVIOUS
<1>2. Chain(g, TrapList, w)
  BY <1>1, ListsApart DEF Represents
<1>3. PICK n \in Nat : n = Len(w)
  BY <1>2, ChainPlaces
<1>4. \A i, j \in 1 .. n: w[i] = w[j] => i = j
  BY <1>2, <1>3 DEF Chain
<1>5. \A i \in 1 .. n: w[i] \in Members(W, TrapList)
  BY <1>1, <1>3 DEF Members
<1> DEFINE f == [i \in 1 .. n |-> s[w[i].of]]
<1>6. f \in Injection(1 .. n, Traps)
  <2>1. f \in [1 .. n -> Traps]
    BY <1>5 DEF TrapsOnce
  <2>2. ASSUME NEW i \in 1 .. n, NEW j \in 1 .. n, f[i] = f[j] PROVE i = j
    BY <1>4, <1>5, <2>2 DEF TrapsOnce
  <2> QED
    BY <2>1, <2>2 DEF Injection, IsInjective
<1> HIDE DEF f
<1>7. IsFiniteSet(1 .. n) /\ Cardinality(1 .. n) = n
  <2>1. IsFiniteSet(1 .. n) /\ Cardinality(1 .. n) = IF 1 > n THEN 0 ELSE n - 1 + 1
    BY FS_Interval
  <2>2. (IF 1 > n THEN 0 ELSE n - 1 + 1) = n
    OBVIOUS
  <2> QED
    BY <2>1, <2>2
<1>8. Cardinality(1 .. n) <= Cardinality(Traps)
  BY <1>6, <1>7, HeapRegions, FS_Injection
<1> QED
  BY <1>1, <1>3, <1>7, <1>8

\* The lists are as long as their counters say: never longer than what there is to list.
THEOREM TypeAlwaysOK == Spec => []TypeOK
<1>1. HeapInv => TypeOK
  <2> SUFFICES ASSUME HeapInv PROVE TypeOK
    OBVIOUS
  <2>1. PICK W : W = Content(h)
    OBVIOUS
  <2>2. /\ h \in HeapType /\ Represents(h, W) /\ Accounts(W, held) /\ TrapsOnce(W, h.trap)
        /\ fault \in BOOLEAN
    BY <2>1 DEF HeapInv
  <2>3. ASSUME NEW l \in Lists
        PROVE  h.sz[l] <= IF l = TrapList THEN Cardinality(Traps) ELSE HeapSize
    <3>1. h.sz[l] = Len(W[l])
      BY <2>2 DEF Represents, Chain
    <3>2. l = TrapList => Len(W[l]) <= Cardinality(Traps)
      BY <2>2, TrapListShort
    <3>3. l # TrapList => Len(W[l]) <= HeapSize
      BY <2>2, ListKinds, PoolListShort
    <3> QED
      BY <3>1, <3>2, <3>3
  <2> QED
    BY <2>2, <2>3 DEF TypeOK, HeapType, Accounts
<1> QED
  BY <1>1, HeapAlwaysSound, PTL

\* The nodes that a walk finds.
LEMMA OnIsMembers ==
    ASSUME NEW W, Represents(h, W), NEW l \in Lists
    PROVE  Walk(h, l) = W[l] /\ On(l) = Members(W, l) /\ DOMAIN W[l] = 1 .. Len(W[l])
<1>1. Walk(h, l) = W[l]
  BY WalkOfRepresented
<1>2. DOMAIN W[l] = 1 .. Len(W[l])
  BY DEF Represents
<1>3. On(l) = {W[l][i] : i \in DOMAIN W[l]}
  BY <1>1 DEF On
<1> QED
  BY <1>1, <1>2, <1>3 DEF Members

\* The inductive invariant implies each part of BlocksAccounted: the lists,
LEMMA InvListsWellFormed == HeapInv => ListsWellFormed
<1> SUFFICES ASSUME HeapInv PROVE ListsWellFormed
  OBVIOUS
<1>1. PICK W : W = Content(h) /\ Represents(h, W)
  BY DEF HeapInv
<1> DEFINE on == [l \in Lists |-> On(l)]
<1>2. ASSUME NEW l \in Lists, NEW w, w = Walk(h, l), NEW n, n = Len(w)
      PROVE  /\ h.sz[l] = n
             /\ h.last[l] = IF n = 0 THEN Null ELSE w[n]
             /\ n > 0 => h.prev[w[1]] = Null /\ h.next[w[n]] = Null
             /\ \A i \in 2 .. n: h.prev[w[i]] = w[i - 1]
             /\ \A k \in Lists \ {l}: on[l] \intersect on[k] = {}
  <2>1. w = W[l]
    BY <1>1, <1>2, WalkOfRepresented
  <2>2. Chain(h, l, w)
    BY <1>1, <2>1 DEF Represents
  <2>3. n \in Nat /\ (w = <<>> <=> n = 0)
    BY <1>2, <2>2, ChainPlaces
  <2>4. h.sz[l] = n /\ h.last[l] = IF n = 0 THEN Null ELSE w[n]
    BY <1>2, <2>2, <2>3 DEF Chain
  <2>5. /\ \A i \in 1 .. n: h.next[w[i]] = IF i = n THEN Null ELSE w[i + 1]
        /\ \A i \in 1 .. n: h.prev[w[i]] = IF i = 1 THEN Null ELSE w[i - 1]
    BY <1>2, <2>2 DEF Chain
  <2>6. n > 0 => 1 \in 1 .. n /\ n \in 1 .. n
    BY <2>3
  <2>7. \A i \in 2 .. n: i \in 1 .. n /\ i # 1
    BY <2>3
  <2>8. \A k \in Lists \ {l}: on[l] \intersect on[k] = {}
    BY <1>1, OnIsMembers, MembersApart
  <2> QED
    BY <2>4, <2>5, <2>6, <2>7, <2>8
<1> QED
  BY <1>2 DEF ListsWellFormed

\* The blocks of the trap list's nodes.
LEMMA TrapBlocksAreNodes ==
    ASSUME NEW W, Represents(h, W), NEW H, Accounts(W, H)
    PROVE  TrapBlocks = TrapNodes(W)
<1>1. On(TrapList) = Members(W, TrapList)
  BY OnIsMembers, ListsApart
<1>2. \A e \in Members(W, TrapList): \E b \in Blocks: e = Data(b) /\ e.of = b
  BY ElementsApart DEF Accounts
<1>3. \A b \in Blocks: Data(b).of = b
  BY ElementsApart
<1> QED
  BY <1>1, <1>2, <1>3 DEF TrapBlocks, TrapNodes

\* the blocks,
LEMMA InvBlocksConserved == HeapInv => BlocksConserved
<1> SUFFICES ASSUME HeapInv PROVE BlocksConserved
  OBVIOUS
<1>1. PICK W : W = Content(h) /\ Represents(h, W) /\ Accounts(W, held)
  BY DEF HeapInv
<1>2. TrapBlocks = TrapNodes(W)
  BY <1>1, TrapBlocksAreNodes
<1>3. ASSUME NEW p \in Pools, NEW i \in 1 .. HeapSize
      PROVE  /\ Element(<<p, i>>) \in On(Available(p)) <=> <<p, i>> \notin held \union TrapBlocks
             /\ Element(<<p, i>>) \in On(Allocated(p)) <=> <<p, i>> \in held \union TrapBlocks
             /\ <<p, i>> \notin held \intersect TrapBlocks
  <2>1. PICK b \in Given(p) : b = <<p, i>>
    BY GivenBlocks
  <2>2. b \in Blocks /\ b[1] = p
    BY <2>1, PoolOfBlock, GivenBlocks
  <2>3. /\ On(Available(p)) = Members(W, Available(p))
        /\ On(Allocated(p)) = Members(W, Allocated(p))
        /\ Members(W, Available(p)) \intersect Members(W, Allocated(p)) = {}
    BY <1>1, OnIsMembers, ListsApart, MembersApart
  <2>4. Element(b) \in Members(W, Available(p)) \union Members(W, Allocated(p))
    BY <1>1, <2>1, <2>2, PoolMembers
  <2>5. Element(b) \in Members(W, Allocated(p)) <=> b \in held \union TrapNodes(W)
    BY <1>1, <2>2 DEF Accounts
  <2>6. b \notin held \intersect TrapNodes(W)
    BY <1>1 DEF Accounts
  <2> QED
    BY <1>2, <2>1, <2>3, <2>4, <2>5, <2>6
<1> QED
  BY <1>3 DEF BlocksConserved

\* and the fault.
LEMMA InvFaultMeansExhausted == HeapInv => FaultMeansExhausted
<1> SUFFICES ASSUME HeapInv, fault, NEW p \in Pools, p >= NodeClass, NEW i \in 1 .. HeapSize
             PROVE  <<p, i>> \in held \union TrapBlocks
  BY DEF FaultMeansExhausted
<1>1. PICK W : W = Content(h) /\ Represents(h, W) /\ Exhausted(W)
  BY DEF HeapInv
<1>2. Element(<<p, i>>) \notin On(Available(p))
  BY <1>1, OnIsMembers, ListsApart DEF Exhausted
<1> QED
  BY <1>2, InvBlocksConserved DEF BlocksConserved

\* After any sequence of allocations, releases and trap changes every list can be walked in
\* both directions and ends where its head says, no node is on two lists, no block leaks or
\* is given out twice, and registering a trap goes wrong only when no pool has a block.
THEOREM BlocksAlwaysAccounted == Spec => []BlocksAccounted
<1>1. HeapInv => BlocksAccounted
  BY InvListsWellFormed, InvBlocksConserved, InvFaultMeansExhausted DEF BlocksAccounted
<1> QED
  BY <1>1, HeapAlwaysSound, PTL

-----------------------------------------------------------------------------
(* Nobody writes into a block that somebody else holds. *)

\* A block without a node of the trap list carries no links and no trap.
Clean(g, W) ==
    \A b \in Blocks: b \notin TrapNodes(W) =>
        g.next[Data(b)] = Null /\ g.prev[Data(b)] = Null /\ g.trap[b] = "none"

\* Strengthens HeapInv for NoWriteAfterFree.
CleanInv == Clean(h, Content(h))

\* A step that takes the lists from W to X concerns what lies in the block b only, which is
\* not a block that somebody goes on holding.
Concerns(b, W, X) ==
    /\ \A c \in Blocks: c # b => (c \in TrapNodes(X) <=> c \in TrapNodes(W))
    /\ \A c \in Blocks: c # b /\ c \notin TrapNodes(W) =>
           /\ h'.next[Data(c)] = h.next[Data(c)]
           /\ h'.prev[Data(c)] = h.prev[Data(c)]
           /\ h'.trap[c] = h.trap[c]
    /\ b \notin TrapNodes(X) =>
           h'.next[Data(b)] = Null /\ h'.prev[Data(b)] = Null /\ h'.trap[b] = "none"
    /\ b \in held => b \notin TrapNodes(X)

\* A request concerns the block it takes,
LEMMA AllocConcerns ==
    ASSUME HeapInv, CleanInv, NEW n \in Pools, ~fault, Candidates(h, n) # {}, Alloc(n)
    PROVE  \E b \in Blocks: Concerns(b, Content(h), Content(h)')
<1>1. PICK W : W = Content(h) /\ h \in HeapType /\ Accounts(W, held)
  BY DEF HeapInv
<1>2. PICK p, b, V : p \in Pools /\ b \in Given(p) /\ Served(h, h', W, V, n, p, b) /\ Content(h)' = V
  BY <1>1, AllocStep
<1>3. b \in Blocks /\ h'.trap = h.trap /\ OutsideKept(h, h', W, p) /\ Taking(W, V, p, Element(b))
  BY <1>2 DEF Given, Served, GotBlock
<1>4. TrapNodes(V) = TrapNodes(W)
  BY <1>2, <1>3, ListsApart DEF Taking, TrapNodes
<1>5. \A c \in Blocks: h'.next[Data(c)] = h.next[Data(c)] /\ h'.prev[Data(c)] = h.prev[Data(c)]
  BY <1>1, <1>2, <1>3, DataNotInPool, ElementsApart DEF OutsideKept
<1>6. b \notin held
  <2>1. Element(b) \notin Members(W, Allocated(p))
    BY <1>3 DEF Taking
  <2>2. b[1] = p
    BY <1>2, <1>3, PoolOfBlock
  <2> QED
    BY <1>1, <1>3, <2>1, <2>2 DEF Accounts
<1>7. b \notin TrapNodes(V) =>
          h'.next[Data(b)] = Null /\ h'.prev[Data(b)] = Null /\ h'.trap[b] = "none"
  BY <1>1, <1>3, <1>4, <1>5 DEF CleanInv, Clean
<1>8. Concerns(b, W, V)
  BY <1>3, <1>4, <1>5, <1>6, <1>7 DEF Concerns
<1> QED
  BY <1>1, <1>2, <1>3, <1>8

\* a release the block released,
LEMMA FreeConcerns ==
    ASSUME HeapInv, NEW b \in Blocks, Free(b)
    PROVE  Concerns(b, Content(h), Content(h)')
<1>1. PICK W : W = Content(h) /\ h \in HeapType /\ Accounts(W, held)
  BY DEF HeapInv
<1>2. PICK V : /\ Freed(h, h', W, V, b) /\ Members(V, TrapList) = Members(W, TrapList)
               /\ Content(h)' = V /\ b \in held
  BY <1>1, FreeStep
<1>3. TrapNodes(V) = TrapNodes(W)
  BY <1>2 DEF TrapNodes
<1>4. b[1] \in Pools /\ b \notin TrapNodes(W)
  BY <1>1, <1>2 DEF Freed, Accounts
<1>5. h'.trap = [h.trap EXCEPT ![b] = "none"] /\ h'.next[Data(b)] = Null /\ h'.prev[Data(b)] = Null
  BY <1>2 DEF Freed
<1>6. ASSUME NEW c \in Blocks, c # b
      PROVE  /\ h'.next[Data(c)] = h.next[Data(c)] /\ h'.prev[Data(c)] = h.prev[Data(c)]
             /\ h'.trap[c] = h.trap[c]
  <2>1. Data(c) \in Nodes /\ Data(c) # Data(b)
    BY <1>6, ElementsApart
  <2>2. Data(c) \notin Members(W, Available(b[1])) \union Members(W, Allocated(b[1]))
    BY <1>1, <1>4, DataNotInPool
  <2> QED
    BY <1>1, <1>2, <1>5, <1>6, <2>1, <2>2 DEF Freed, HeapType
<1>7. h'.trap[b] = "none"
  BY <1>1, <1>5 DEF HeapType
<1>8. Concerns(b, W, V)
  BY <1>3, <1>4, <1>5, <1>6, <1>7 DEF Concerns
<1> QED
  BY <1>1, <1>2, <1>8

\* and a change of the traps the block of the node.
LEMMA RegisterConcerns ==
    ASSUME HeapInv, NEW t \in Traps, Register_Trap_Region(t), Candidates(h, NodeClass) # {}
    PROVE  \E b \in Blocks: Concerns(b, Content(h), Content(h)')
<1>1. PICK W : W = Content(h) /\ h \in HeapType /\ Accounts(W, held)
  BY DEF HeapInv
<1>2. PICK V, X, p, b : Listed(t, W, V, X, p, b) /\ Content(h)' = X
  BY <1>1, RegisterStep
<1>3. /\ p \in Pools /\ b \in Blocks /\ b \notin held
      /\ Members(X, TrapList) = Members(W, TrapList) \union {Data(b)}
      /\ h'.trap = [h.trap EXCEPT ![b] = t]
  BY <1>2 DEF Listed, Given
<1>4. \A c \in Blocks: c # b => (c \in TrapNodes(X) <=> c \in TrapNodes(W))
  BY <1>3, ElementsApart DEF TrapNodes
<1>5. b \in TrapNodes(X)
  BY <1>3 DEF TrapNodes
<1>6. ASSUME NEW c \in Blocks, c # b, c \notin TrapNodes(W)
      PROVE  /\ h'.next[Data(c)] = h.next[Data(c)] /\ h'.prev[Data(c)] = h.prev[Data(c)]
             /\ h'.trap[c] = h.trap[c]
  <2>1. Data(c) \in Nodes /\ Data(c) # Data(b) /\ Data(c) \notin Members(W, TrapList)
    BY <1>3, <1>6, ElementsApart DEF TrapNodes
  <2>2. Data(c) \notin Members(W, Available(p)) \union Members(W, Allocated(p))
    BY <1>1, <1>3, DataNotInPool
  <2> QED
    BY <1>1, <1>2, <1>3, <1>6, <2>1, <2>2 DEF Listed, HeapType
<1>7. Concerns(b, W, X)
  BY <1>3, <1>4, <1>5, <1>6 DEF Concerns
<1> QED
  BY <1>1, <1>2, <1>3, <1>7

\* The destructor of a trap writes to its node's neighbours, which are on the trap list too.
LEMMA RemoveConcerns ==
    ASSUME HeapInv, NEW t \in Traps, Remove_Trap_Region(t)
    PROVE  \E b \in Blocks: Concerns(b, Content(h), Content(h)')
<1>1. PICK W : W = Content(h) /\ h \in HeapType /\ Accounts(W, held)
  BY DEF HeapInv
<1>2. PICK V, X, k, b : Unlisted(t, W, V, X, k, b) /\ Content(h)' = X
  BY <1>1, RemoveStep
<1>3. /\ b \in Blocks /\ b[1] \in Pools /\ b \notin held
      /\ Members(X, TrapList) = Members(W, TrapList) \ {Data(b)}
      /\ h'.trap = [h.trap EXCEPT ![b] = "none"]
      /\ h'.next[Data(b)] = Null /\ h'.prev[Data(b)] = Null
  BY <1>2 DEF Unlisted, TrapNodes
<1>4. \A c \in Blocks: c # b => (c \in TrapNodes(X) <=> c \in TrapNodes(W))
  BY <1>3, ElementsApart DEF TrapNodes
<1>5. h'.trap[b] = "none"
  BY <1>1, <1>3 DEF HeapType
<1>6. ASSUME NEW c \in Blocks, c # b, c \notin TrapNodes(W)
      PROVE  /\ h'.next[Data(c)] = h.next[Data(c)] /\ h'.prev[Data(c)] = h.prev[Data(c)]
             /\ h'.trap[c] = h.trap[c]
  <2>1. Data(c) \in Nodes /\ Data(c) \notin Members(W, TrapList)
    BY <1>6, ElementsApart DEF TrapNodes
  <2>2. Data(c) \notin Members(W, Available(b[1])) \union Members(W, Allocated(b[1]))
    BY <1>1, <1>3, DataNotInPool
  <2> QED
    BY <1>1, <1>2, <1>3, <1>6, <2>1, <2>2 DEF Unlisted, HeapType
<1>7. Concerns(b, W, X)
  BY <1>3, <1>4, <1>5, <1>6 DEF Concerns
<1> QED
  BY <1>1, <1>2, <1>3, <1>7

\* A step leaves the lists alone or concerns what lies in one block.
LEMMA StepConcerns ==
    ASSUME HeapInv, CleanInv, [Next]_vars
    PROVE  h' = h \/ \E b \in Blocks: Concerns(b, Content(h), Content(h)')
<1>1. ASSUME NEW n \in Pools, Alloc(n), h' # h
      PROVE  \E b \in Blocks: Concerns(b, Content(h), Content(h)')
  BY <1>1, AllocConcerns DEF Alloc, vars
<1>2. ASSUME NEW t \in Traps, Register_Trap_Region(t), h' # h
      PROVE  \E b \in Blocks: Concerns(b, Content(h), Content(h)')
  BY <1>2, RegisterConcerns, RegisterFaults
<1> QED
  BY <1>1, <1>2, FreeConcerns, RemoveConcerns DEF Next, Halted, vars

\* At the start no block carries anything,
LEMMA InitClean == Init => CleanInv
<1> SUFFICES ASSUME Init, NEW b \in Blocks
             PROVE  h.next[Data(b)] = Null /\ h.prev[Data(b)] = Null /\ h.trap[b] = "none"
  BY DEF CleanInv, Clean
<1>1. Data(b) \in Nodes /\ Data(b).at # "element"
  BY ElementsApart
<1>2. /\ h.next[Data(b)] = (IF Data(b).at = "element" /\ Data(b).of[2] \notin {HeapSize, Length(Data(b).of[1])}
                            THEN Element(<<Data(b).of[1], Data(b).of[2] + 1>>) ELSE Null)
      /\ h.prev[Data(b)] = (IF Data(b).at = "element" /\ Data(b).of[2] > 1
                            THEN Element(<<Data(b).of[1], Data(b).of[2] - 1>>) ELSE Null)
      /\ h.trap[b] = "none"
  BY <1>1 DEF Init
<1> QED
  BY <1>1, <1>2

\* and a block that loses its node is scrubbed.
LEMMA NextClean == HeapInv /\ CleanInv /\ [Next]_vars => CleanInv'
<1> SUFFICES ASSUME HeapInv, CleanInv, [Next]_vars PROVE CleanInv'
  OBVIOUS
<1>1. CASE h' = h
  <2>1. Content(h)' = Content(h)
    BY <1>1 DEF Content, Walk, Lists
  <2> QED
    BY <1>1, <2>1 DEF CleanInv, Clean, TrapNodes, Members
<1>2. ASSUME NEW b \in Blocks, Concerns(b, Content(h), Content(h)') PROVE CleanInv'
  <2>1. PICK X : X = Content(h)'
    OBVIOUS
  <2>2. ASSUME NEW c \in Blocks, c \notin TrapNodes(X)
        PROVE  h'.next[Data(c)] = Null /\ h'.prev[Data(c)] = Null /\ h'.trap[c] = "none"
    BY <1>2, <2>1, <2>2 DEF Concerns, CleanInv, Clean
  <2>3. Clean(h', X)
    BY <2>2 DEF Clean
  <2> QED
    BY <2>1, <2>3 DEF CleanInv, Clean, TrapNodes, Members
<1> QED
  BY <1>1, <1>2, StepConcerns

\* Nobody writes into a block that somebody else holds: no list keeps a pointer to a node
\* that lies in a block given away.
THEOREM NeverWritesAfterFree == Spec => NoWriteAfterFree
<1>1. Init => HeapInv /\ CleanInv
  BY InitHeap, InitClean
<1>2. (HeapInv /\ CleanInv) /\ [Next]_vars => (HeapInv /\ CleanInv)'
  BY NextHeapInv, NextClean
<1>3. HeapInv /\ CleanInv /\ [Next]_vars
          => [\A b \in held:
                 /\ h'.next[Data(b)] = h.next[Data(b)]
                 /\ h'.prev[Data(b)] = h.prev[Data(b)]
                 /\ h'.trap[b] = h.trap[b]]_vars
  <2> SUFFICES ASSUME HeapInv, CleanInv, [Next]_vars, NEW b \in held
               PROVE  /\ h'.next[Data(b)] = h.next[Data(b)]
                      /\ h'.prev[Data(b)] = h.prev[Data(b)]
                      /\ h'.trap[b] = h.trap[b]
    OBVIOUS
  <2>1. b \in Blocks /\ b \notin TrapNodes(Content(h))
    BY DEF HeapInv, Accounts
  <2>2. ASSUME NEW c \in Blocks, Concerns(c, Content(h), Content(h)')
        PROVE  /\ h'.next[Data(b)] = h.next[Data(b)]
               /\ h'.prev[Data(b)] = h.prev[Data(b)]
               /\ h'.trap[b] = h.trap[b]
    BY <2>1, <2>2 DEF Concerns, CleanInv, Clean
  <2> QED
    BY <2>2, StepConcerns
<1> QED
  BY <1>1, <1>2, <1>3, PTL DEF Spec, NoWriteAfterFree

-----------------------------------------------------------------------------
(* The dispatch of a guest's access. *)

\* An aligned access that starts below a multiple of eight ends at it or below, and so does
\* one of as many bytes as Do_Memory_Trap asks for.
LEMMA AlignedFits ==
    ASSUME NEW a \in Nat, NEW sas \in 0 .. 3, a % Bytes[sas] = 0,
           NEW end \in Nat, end % 8 = 0, a < end
    PROVE  a + (sas + 1) <= end
<1>1. CASE sas = 0
  BY <1>1
<1>2. CASE sas = 1
  <2>1. Bytes[sas] = 2
    BY <1>2 DEF Bytes
  <2>2. a % 2 = 0
    BY <2>1
  <2> QED
    BY <1>2, <2>2
<1>3. CASE sas = 2
  <2>1. Bytes[sas] = 4
    BY <1>3 DEF Bytes
  <2>2. a % 4 = 0
    BY <2>1
  <2> QED
    BY <1>3, <2>2
<1>4. CASE sas = 3
  <2>1. Bytes[sas] = 8
    BY <1>4 DEF Bytes
  <2>2. a % 8 = 0
    BY <2>1
  <2> QED
    BY <1>4, <2>2
<1> QED
  BY <1>1, <1>2, <1>3, <1>4

\* For an aligned access, what InRange asks is whether the first byte is inside.
LEMMA InRangeIsInside ==
    ASSUME NEW t \in Traps, NEW a \in Addresses, NEW sas \in 0 .. 3, a % Bytes[sas] = 0
    PROVE  InRange(t, a, sas + 1) <=> Inside(t, a)
<1>1. /\ Region[t].base \in Nat /\ Region[t].size \in Nat /\ a \in Nat
      /\ Region[t].base % 8 = 0 /\ Region[t].size % 8 = 0
  BY HeapRegions, HeapConfiguration
<1>2. PICK base \in Nat, size \in Nat : base = Region[t].base /\ size = Region[t].size
  BY <1>1
<1>3. base + size \in Nat /\ (base + size) % 8 = 0
  BY <1>1, <1>2
<1>4. a < base + size => a + (sas + 1) <= base + size
  BY <1>1, <1>3, AlignedFits
<1>5. a + (sas + 1) <= base + size => a < base + size
  BY <1>1, <1>2
<1> QED
  BY <1>1, <1>2, <1>4, <1>5 DEF InRange, Inside

\* Registered traps whose regions hold the address.
Covering(list, a) == {list[i] : i \in {j \in DOMAIN list : Inside(list[j], a)}}

\* The first registered trap whose region has room for the access is found.
LEMMA DispatchFindsCovering ==
    ASSUME NEW n \in Nat, NEW list \in [1 .. n -> Traps],
           NEW a \in Addresses, NEW sas \in 0 .. 3, a % Bytes[sas] = 0
    PROVE  IF Covering(list, a) = {} THEN Find_Trap_Node(list, a, sas) = "none"
           ELSE Find_Trap_Node(list, a, sas) \in Covering(list, a)
<1>1. PICK C : C = Covering(list, a) /\ C = {list[i] : i \in {j \in DOMAIN list : Inside(list[j], a)}}
  BY DEF Covering
<1> DEFINE hits == {i \in DOMAIN list : InRange(list[i], a, sas + 1)}
<1>2. hits = {i \in DOMAIN list : Inside(list[i], a)}
  BY InRangeIsInside
<1>3. hits \subseteq Nat
  OBVIOUS
<1>4. CASE hits = {}
  <2>1. C = {}
    BY <1>1, <1>2, <1>4
  <2>2. Find_Trap_Node(list, a, sas) = "none"
    BY <1>4 DEF Find_Trap_Node
  <2> QED
    BY <1>1, <2>1, <2>2
<1>5. CASE hits # {}
  <2>1. \E i \in hits: \A j \in hits: i <= j
    BY <1>3, <1>5, LeastNat
  <2>2. Find_Trap_Node(list, a, sas) = list[CHOOSE i \in hits: \A j \in hits: i <= j]
    BY <1>5 DEF Find_Trap_Node
  <2>3. PICK i \in hits : Find_Trap_Node(list, a, sas) = list[i]
    BY <2>1, <2>2
  <2>4. list[i] \in C
    BY <1>1, <1>2, <2>3
  <2> QED
    BY <1>1, <2>3, <2>4
<1> QED
  BY <1>1, <1>4, <1>5

\* The registered traps, in the order of the list.
LEMMA RegisteredList ==
    ASSUME NEW W, Represents(h, W), NEW H, Accounts(W, H), TrapsOnce(W, h.trap)
    PROVE  /\ RegisteredTraps = [i \in 1 .. Len(W[TrapList]) |-> h.trap[W[TrapList][i].of]]
           /\ RegisteredTraps \in [1 .. Len(W[TrapList]) -> Traps]
           /\ Len(W[TrapList]) \in Nat
<1>1. PICK w : w = W[TrapList]
  OBVIOUS
<1>2. Walk(h, TrapList) = w /\ DOMAIN w = 1 .. Len(w) /\ Len(w) \in Nat
  BY <1>1, OnIsMembers, ListsApart DEF Represents
<1>3. RegisteredTraps = [i \in 1 .. Len(w) |-> Value(h, w[i])]
  BY <1>2 DEF RegisteredTraps
<1>4. ASSUME NEW i \in 1 .. Len(w)
      PROVE  Value(h, w[i]) = h.trap[w[i].of] /\ h.trap[w[i].of] \in Traps
  <2>1. Value(h, w[i]) = h.trap[w[i].of]
    BY <1>1, TrapOfNode
  <2>2. w[i] \in Members(W, TrapList)
    BY <1>1 DEF Members
  <2> QED
    BY <2>1, <2>2 DEF TrapsOnce
<1>5. RegisteredTraps = [i \in 1 .. Len(w) |-> h.trap[w[i].of]]
  BY <1>3, <1>4
<1>6. RegisteredTraps \in [1 .. Len(w) -> Traps]
  BY <1>4, <1>5
<1> QED
  BY <1>1, <1>2, <1>5, <1>6

\* An aligned access to a registered device's region reaches that device, whatever was
\* registered and removed before it, and any other access reaches none.
THEOREM TrapsAlwaysDispatched == Spec => []TrapDispatch
<1>1. HeapInv => TrapDispatch
  <2> SUFFICES ASSUME HeapInv PROVE TrapDispatch
    OBVIOUS
  <2>1. PICK W : W = Content(h) /\ Represents(h, W) /\ Accounts(W, held) /\ TrapsOnce(W, h.trap)
    BY DEF HeapInv
  <2>2. PICK n \in Nat : RegisteredTraps \in [1 .. n -> Traps]
    BY <2>1, RegisteredList
  <2>3. PICK list \in [1 .. n -> Traps] : list = RegisteredTraps
    BY <2>2
  <2>4. ASSUME NEW a \in Addresses, NEW sas \in 0 .. 3, a % Bytes[sas] = 0
        PROVE  IF Covering(list, a) = {} THEN Find_Trap_Node(list, a, sas) = "none"
               ELSE Find_Trap_Node(list, a, sas) \in Covering(list, a)
    BY <2>4, DispatchFindsCovering
  <2> QED
    BY <2>3, <2>4 DEF TrapDispatch, Covering
<1> QED
  BY <1>1, HeapAlwaysSound, PTL

-----------------------------------------------------------------------------
(* The lists implement the queues and the sequence of the contract. *)

\* The blocks of a pool's list, and the traps of the trap list.
BlocksOf(w) == [i \in 1 .. Len(w) |-> w[i].of]
\* The traps of a list's nodes.
TrapsOf(w, trap) == [i \in 1 .. Len(w) |-> trap[w[i].of]]

\* A sequence's tail, place by place.
LEMMA TailPlaces ==
    ASSUME NEW S, NEW s \in Seq(S), s # <<>>, NEW n, n = Len(s), NEW t, t = Tail(s)
    PROVE  t \in Seq(S) /\ Len(t) = n - 1 /\ \A i \in 1 .. n - 1: t[i] = s[i + 1]
<1>1. t \in Seq(S) /\ Len(t) = n - 1 /\ \A i \in 1 .. Len(t): t[i] = s[i + 1]
  BY HeadTailProperties
<1> QED
  BY <1>1

\* A sequence with one more element, place by place.
LEMMA AppendPlaces ==
    ASSUME NEW S, NEW s \in Seq(S), NEW e \in S, NEW n, n = Len(s), NEW t, t = Append(s, e)
    PROVE  t \in Seq(S) /\ Len(t) = n + 1 /\ t[n + 1] = e /\ \A i \in 1 .. n: t[i] = s[i]
BY AppendProperties

\* The sequence of blocks is as long as the list.
LEMMA EmptyBlocksOf ==
    ASSUME NEW w \in Seq(Nodes)
    PROVE  /\ Len(BlocksOf(w)) = Len(w) /\ BlocksOf(w) \in Seq(Blocks)
           /\ BlocksOf(w) = <<>> <=> w = <<>>
<1>1. Len(w) \in Nat /\ \A i \in 1 .. Len(w): w[i].of \in Blocks
  <2>1. \A i \in 1 .. Len(w): w[i] \in Nodes
    OBVIOUS
  <2>2. \A e \in Nodes: e.of \in Blocks
    BY DEF Nodes
  <2> QED
    BY <2>1, <2>2
<1>2. BlocksOf(w) \in [1 .. Len(w) -> Blocks]
  BY <1>1 DEF BlocksOf
<1> QED
  BY <1>1, <1>2

\* Taking the first node takes the first block,
LEMMA HeadBlocksOf ==
    ASSUME NEW w \in Seq(Nodes), w # <<>>
    PROVE  Head(BlocksOf(w)) = w[1].of /\ BlocksOf(Tail(w)) = Tail(BlocksOf(w))
<1>1. PICK n \in Nat : n = Len(w) /\ n > 0
  OBVIOUS
<1>2. PICK s \in Seq(Blocks) : s = BlocksOf(w) /\ Len(s) = n /\ s # <<>>
  BY <1>1, EmptyBlocksOf
<1>3. \A i \in 1 .. n: s[i] = w[i].of
  BY <1>1, <1>2 DEF BlocksOf
<1>4. Head(s) = w[1].of
  BY <1>1, <1>2, <1>3
<1>5. PICK v : v = Tail(w)
  OBVIOUS
<1>6. PICK t : t = Tail(s)
  OBVIOUS
<1>7. v \in Seq(Nodes) /\ Len(v) = n - 1 /\ \A i \in 1 .. n - 1: v[i] = w[i + 1]
  BY <1>1, <1>5, TailPlaces
<1>8. t \in Seq(Blocks) /\ Len(t) = n - 1 /\ \A i \in 1 .. n - 1: t[i] = s[i + 1]
  BY <1>1, <1>2, <1>6, TailPlaces
<1>9. \A i \in 1 .. n - 1: i + 1 \in 1 .. n
  BY <1>1
<1>10. BlocksOf(v) = [i \in 1 .. n - 1 |-> w[i + 1].of]
  BY <1>7 DEF BlocksOf
<1>11. t = [i \in 1 .. n - 1 |-> t[i]]
  BY <1>8
<1>12. t = [i \in 1 .. n - 1 |-> w[i + 1].of]
  BY <1>3, <1>8, <1>9, <1>11
<1> QED
  BY <1>2, <1>4, <1>5, <1>6, <1>10, <1>12

\* and appending an element appends its block.
LEMMA AppendBlocksOf ==
    ASSUME NEW w \in Seq(Nodes), NEW b \in Blocks
    PROVE  BlocksOf(Append(w, Element(b))) = Append(BlocksOf(w), b)
<1>1. PICK n \in Nat : n = Len(w)
  OBVIOUS
<1>2. Element(b) \in Nodes /\ Element(b).of = b
  BY ElementsApart
<1>3. PICK v : v = Append(w, Element(b))
  OBVIOUS
<1>4. /\ v \in Seq(Nodes) /\ Len(v) = n + 1
      /\ v[n + 1] = Element(b) /\ \A i \in 1 .. n: v[i] = w[i]
  BY <1>1, <1>2, <1>3, AppendPlaces
<1>5. PICK s \in Seq(Blocks) : s = BlocksOf(w) /\ Len(s) = n
  BY <1>1, EmptyBlocksOf
<1>6. \A i \in 1 .. n: s[i] = w[i].of
  BY <1>1, <1>5 DEF BlocksOf
<1>7. PICK u : u = Append(s, b)
  OBVIOUS
<1>8. u \in Seq(Blocks) /\ Len(u) = n + 1 /\ u[n + 1] = b /\ \A i \in 1 .. n: u[i] = s[i]
  BY <1>5, <1>7, AppendPlaces
<1>9. \A i \in 1 .. n + 1: i \in 1 .. n \/ i = n + 1
  BY <1>1
<1>10. \A i \in 1 .. n + 1: u[i] = v[i].of
  BY <1>2, <1>4, <1>6, <1>8, <1>9
<1>11. u = [i \in 1 .. n + 1 |-> u[i]]
  BY <1>8
<1>12. BlocksOf(v) = [i \in 1 .. n + 1 |-> v[i].of]
  BY <1>4 DEF BlocksOf
<1> QED
  BY <1>3, <1>5, <1>7, <1>10, <1>11, <1>12

\* What the variables of the contract stand for.
LEMMA MappedState ==
    HeapInv => /\ FreeBlocks = [p \in Pools |-> BlocksOf(Content(h)[Available(p)])]
               /\ TakenBlocks = held \union TrapNodes(Content(h))
               /\ RegisteredTraps = TrapsOf(Content(h)[TrapList], h.trap)
<1> SUFFICES ASSUME HeapInv
             PROVE  /\ FreeBlocks = [p \in Pools |-> BlocksOf(Content(h)[Available(p)])]
                    /\ TakenBlocks = held \union TrapNodes(Content(h))
                    /\ RegisteredTraps = TrapsOf(Content(h)[TrapList], h.trap)
  OBVIOUS
<1>1. PICK W : /\ W = Content(h) /\ Represents(h, W) /\ Accounts(W, held)
               /\ TrapsOnce(W, h.trap)
  BY DEF HeapInv
<1>2. FreeBlocks = [p \in Pools |-> BlocksOf(W[Available(p)])]
  <2>1. ASSUME NEW p \in Pools
        PROVE  Walk(h, Available(p)) = W[Available(p)]
               /\ DOMAIN W[Available(p)] = 1 .. Len(W[Available(p)])
    BY <1>1, OnIsMembers, ListsApart
  <2> QED
    BY <2>1 DEF FreeBlocks, BlocksOf
<1>3. TakenBlocks = held \union TrapNodes(W)
  <2>1. \A p \in Pools: On(Allocated(p)) = Members(W, Allocated(p))
    BY <1>1, OnIsMembers, ListsApart
  <2>2. ASSUME NEW b \in TakenBlocks PROVE b \in held \union TrapNodes(W)
    <3>1. PICK p \in Pools, e \in Nodes : e \in Members(W, Allocated(p)) /\ b = e.of
      BY <1>1, <2>1, ListsApart, MembersApart DEF TakenBlocks
    <3>2. PICK c \in Blocks : e = Element(c) /\ c \in Given(p)
      BY <1>1, <3>1, PoolMembers
    <3>3. c = b /\ b[1] = p
      BY <3>1, <3>2, ElementsApart, PoolOfBlock
    <3> QED
      BY <1>1, <3>1, <3>2, <3>3 DEF Accounts
  <2>3. ASSUME NEW b \in held \union TrapNodes(W) PROVE b \in TakenBlocks
    <3>1. b \in Blocks /\ b[1] \in Pools /\ Element(b) \in Members(W, Allocated(b[1]))
      BY <1>1, PoolOfBlock DEF Accounts, TrapNodes
    <3>2. Element(b).of = b
      BY <3>1, ElementsApart
    <3> QED
      BY <2>1, <3>1, <3>2 DEF TakenBlocks
  <2> QED
    BY <2>2, <2>3
<1>4. RegisteredTraps = TrapsOf(W[TrapList], h.trap)
  BY <1>1, RegisteredList DEF TrapsOf
<1> QED
  BY <1>1, <1>2, <1>3, <1>4

\* The same of the next state.
LEMMA MappedNext ==
    HeapInv' => /\ FreeBlocks' = [p \in Pools |-> BlocksOf(Content(h)'[Available(p)])]
                /\ TakenBlocks' = held' \union TrapNodes(Content(h)')
                /\ RegisteredTraps' = TrapsOf(Content(h)'[TrapList], h'.trap)
<1>1. (HeapInv => /\ FreeBlocks = [p \in Pools |-> BlocksOf(Content(h)[Available(p)])]
                  /\ TakenBlocks = held \union TrapNodes(Content(h))
                  /\ RegisteredTraps = TrapsOf(Content(h)[TrapList], h.trap))'
  BY MappedState, PTL
<1> QED
  BY <1>1 DEF TrapNodes, Members, TrapsOf, BlocksOf

\* The queues that the contract sees.
Queues(W) == [p \in Pools |-> BlocksOf(W[Available(p)])]

\* A served request takes a block from the contract's queues.
LEMMA TakeStep ==
    ASSUME NEW W, NEW V, Represents(h, W), FreeBlocks = Queues(W), FreeBlocks' = Queues(V),
           NEW g, NEW n \in Pools, NEW p \in Pools, NEW b \in Blocks, Served(h, g, W, V, n, p, b),
           TakenBlocks' = TakenBlocks \union {b}
    PROVE  Contract!Take(n)
<1>1. ASSUME NEW q \in Pools PROVE W[Available(q)] \in Seq(Nodes)
  BY ListsApart DEF Represents
<1>2. /\ n <= p /\ W[Available(p)] # <<>>
      /\ \A q \in Pools: n <= q /\ q < p => W[Available(q)] = <<>>
      /\ Element(b) = W[Available(p)][1]
      /\ V = [W EXCEPT ![Available(p)] = Tail(W[Available(p)]),
                       ![Allocated(p)] = Append(W[Allocated(p)], Element(b))]
  BY DEF Served, GotBlock
<1>3. \A q \in Pools: FreeBlocks[q] = <<>> <=> W[Available(q)] = <<>>
  BY <1>1, EmptyBlocksOf DEF Queues
<1>4. p >= n /\ FreeBlocks[p] # <<>> /\ \A q \in Pools: n <= q /\ q < p => FreeBlocks[q] = <<>>
  BY <1>2, <1>3 DEF Pools
<1>5. PICK w \in Seq(Nodes) : w = W[Available(p)] /\ w # <<>> /\ w[1].of = b
  BY <1>1, <1>2, ElementsApart
<1>6. Head(FreeBlocks[p]) = b /\ Tail(FreeBlocks[p]) = BlocksOf(Tail(w))
  BY <1>5, HeadBlocksOf DEF Queues
<1>7. V[Available(p)] = Tail(w) /\ \A q \in Pools: q # p => V[Available(q)] = W[Available(q)]
  BY <1>2, <1>5, ListsApart DEF Represents
<1>8. FreeBlocks' = [FreeBlocks EXCEPT ![p] = Tail(FreeBlocks[p])]
  BY <1>6, <1>7 DEF Queues
<1> QED
  BY <1>4, <1>6, <1>8 DEF Contract!Take

\* A released block goes back to its queue.
LEMMA ReturnStep ==
    ASSUME NEW W, NEW V, Represents(h, W), FreeBlocks = Queues(W), FreeBlocks' = Queues(V),
           NEW b, b \in Given(b[1]), b[1] \in Pools,
           V[Available(b[1])] = Append(W[Available(b[1])], Element(b)),
           \A q \in Pools: q # b[1] => V[Available(q)] = W[Available(q)],
           TakenBlocks' = TakenBlocks \ {b}
    PROVE  Contract!Return(b)
<1>1. PICK p \in Pools : p = b[1]
  OBVIOUS
<1>2. PICK w \in Seq(Nodes) : w = W[Available(p)]
  BY ListsApart DEF Represents
<1>3. b \in Blocks
  BY DEF Given
<1>4. BlocksOf(Append(w, Element(b))) = Append(BlocksOf(w), b)
  BY <1>2, <1>3, AppendBlocksOf
<1>5. V[Available(p)] = Append(w, Element(b)) /\ \A q \in Pools: q # p => V[Available(q)] = W[Available(q)]
  BY <1>1, <1>2
<1>6. FreeBlocks' = [FreeBlocks EXCEPT ![p] = Append(FreeBlocks[p], b)]
  BY <1>2, <1>4, <1>5 DEF Queues
<1>7. \E i \in 1 .. Len(AllBlocks[p]): AllBlocks[p][i] = b
  <2>1. PICK i \in 1 .. HeapSize : b = <<p, i>>
    BY <1>1, GivenBlocks
  <2>2. AllBlocks[p] = [j \in 1 .. HeapSize |-> <<p, j>>]
    BY DEF AllBlocks
  <2>3. Len(AllBlocks[p]) = HeapSize /\ AllBlocks[p][i] = b
    BY <2>1, <2>2, HeapSizes
  <2> QED
    BY <2>1, <2>3
<1> QED
  BY <1>6, <1>7 DEF Contract!Return

\* Traps change only in blocks without a node of the trap list.
LEMMA SameTraps ==
    ASSUME NEW W, NEW H, Accounts(W, H), NEW s, NEW t,
           \A c \in TrapNodes(W): t[c] = s[c]
    PROVE  TrapsOf(W[TrapList], t) = TrapsOf(W[TrapList], s)
<1>1. \A i \in 1 .. Len(W[TrapList]): W[TrapList][i].of \in TrapNodes(W)
  BY TrapOfNode
<1> QED
  BY <1>1 DEF TrapsOf

\* The state of h and of h' as the contract sees it.
Seen(W, X) ==
    /\ Represents(h, W) /\ h \in HeapType /\ Accounts(W, held)
    /\ FreeBlocks = Queues(W) /\ FreeBlocks' = Queues(X)
    /\ TakenBlocks = held \union TrapNodes(W) /\ TakenBlocks' = held' \union TrapNodes(X)
    /\ RegisteredTraps = TrapsOf(W[TrapList], h.trap)
    /\ RegisteredTraps' = TrapsOf(X[TrapList], h'.trap)

\* Before and after a step the contract's variables are what the lists hold.
LEMMA StepSeen == HeapInv /\ HeapInv' => Seen(Content(h), Content(h)')
BY MappedState, MappedNext DEF Seen, Queues, HeapInv

\* A request that is served is the contract's AllocC,
LEMMA AllocRefines ==
    ASSUME HeapInv, NEW n \in Pools, ~fault, Candidates(h, n) # {}, Alloc(n)
    PROVE  Contract!AllocC
<1>1. PICK W : W = Content(h)
  OBVIOUS
<1>2. PICK p, b, V : /\ p \in Pools /\ b \in Given(p) /\ Served(h, h', W, V, n, p, b)
                     /\ Content(h)' = V /\ held' = held \union {b} /\ HeapInv'
  BY <1>1, AllocStep
<1>3. Seen(W, V)
  BY <1>1, <1>2, StepSeen
<1>4. b \in Blocks /\ V[TrapList] = W[TrapList] /\ TrapNodes(V) = TrapNodes(W) /\ h'.trap = h.trap
  BY <1>2, ListsApart DEF Given, Served, Taking, GotBlock, TrapNodes
<1>5. TakenBlocks' = TakenBlocks \union {b} /\ RegisteredTraps' = RegisteredTraps
  BY <1>2, <1>3, <1>4 DEF Seen
<1>6. Contract!Take(n)
  BY <1>2, <1>3, <1>4, <1>5, TakeStep DEF Seen
<1> QED
  BY <1>5, <1>6 DEF Contract!AllocC

\* Where a block that is returned comes from and goes to.
LEMMA ReturnedLists ==
    ASSUME NEW W, NEW V, NEW H, Accounts(W, H), W \in [Lists -> Seq(Nodes)],
           NEW b \in H \union TrapNodes(W), Moved(W, V, b[1], b)
    PROVE  /\ b \in Given(b[1]) /\ b[1] \in Pools
           /\ V[Available(b[1])] = Append(W[Available(b[1])], Element(b))
           /\ \A q \in Pools: q # b[1] => V[Available(q)] = W[Available(q)]
           /\ V[TrapList] = W[TrapList]
<1>1. b \in Blocks /\ b[1] \in Pools /\ Element(b) \in Members(W, Allocated(b[1]))
  BY PoolOfBlock DEF Accounts, TrapNodes
<1>2. PICK p \in Pools : p = b[1]
  BY <1>1
<1>3. b \in Given(p)
  BY <1>1, <1>2, PoolMembers
<1>4. /\ Available(p) \in Lists /\ Allocated(p) \in Lists /\ Available(p) # Allocated(p)
      /\ TrapList \in Lists /\ TrapList # Available(p) /\ TrapList # Allocated(p)
      /\ \A q \in Pools: /\ Available(q) \in Lists /\ Available(q) # Allocated(p)
                         /\ q # p => Available(q) # Available(p)
  BY ListsApart
<1>5. PICK k : V = [W EXCEPT ![Allocated(p)] = Without(W[Allocated(p)], k),
                             ![Available(p)] = Append(W[Available(p)], Element(b))]
  BY <1>2 DEF Moved
<1> QED
  BY <1>2, <1>3, <1>4, <1>5

\* a release its FreeC,
LEMMA FreeRefines ==
    ASSUME HeapInv, NEW b \in Blocks, Free(b)
    PROVE  Contract!FreeC
<1>1. PICK W : W = Content(h)
  OBVIOUS
<1>2. PICK V : /\ Freed(h, h', W, V, b) /\ Members(V, TrapList) = Members(W, TrapList)
               /\ Content(h)' = V /\ b \in held /\ held' = held \ {b} /\ HeapInv'
  BY <1>1, FreeStep
<1>3. Seen(W, V)
  BY <1>1, <1>2, StepSeen
<1>4. /\ b \in Given(b[1]) /\ b[1] \in Pools
      /\ V[Available(b[1])] = Append(W[Available(b[1])], Element(b))
      /\ \A q \in Pools: q # b[1] => V[Available(q)] = W[Available(q)]
      /\ V[TrapList] = W[TrapList]
  <2>1. Moved(W, V, b[1], b)
    BY <1>2 DEF Freed
  <2>2. Accounts(W, held) /\ W \in [Lists -> Seq(Nodes)] /\ b \in held \union TrapNodes(W)
    BY <1>2, <1>3 DEF Seen, Represents
  <2> QED
    BY <2>1, <2>2, ReturnedLists
<1>5. TrapNodes(V) = TrapNodes(W) /\ b \notin TrapNodes(W)
  BY <1>2, <1>3 DEF Seen, Accounts, TrapNodes
<1>6. TakenBlocks' = TakenBlocks \ {b} /\ b \in TakenBlocks
  BY <1>2, <1>3, <1>5 DEF Seen
<1>7. RegisteredTraps' = RegisteredTraps
  <2>1. \A c \in TrapNodes(W): h'.trap[c] = h.trap[c]
    BY <1>2, <1>3, <1>5 DEF Seen, Freed, HeapType, TrapNodes
  <2>2. TrapsOf(W[TrapList], h'.trap) = TrapsOf(W[TrapList], h.trap)
    BY <1>3, <2>1, SameTraps DEF Seen
  <2> QED
    BY <1>3, <1>4, <2>2 DEF Seen
<1>8. Contract!Return(b)
  BY <1>3, <1>4, <1>6, ReturnStep DEF Seen
<1> QED
  BY <1>6, <1>7, <1>8 DEF Contract!FreeC

\* a trap registered its RegisterC: it costs the block that a request for a node would get,
LEMMA RegisterRefines ==
    ASSUME HeapInv, NEW t \in Traps, Register_Trap_Region(t), Candidates(h, NodeClass) # {}
    PROVE  Contract!RegisterC
<1>1. PICK W : W = Content(h)
  OBVIOUS
<1>2. PICK V, X, p, b : Listed(t, W, V, X, p, b) /\ Content(h)' = X /\ held' = held /\ HeapInv'
  BY <1>1, RegisterStep
<1>3. Seen(W, X)
  BY <1>1, <1>2, StepSeen
<1>4. /\ p \in Pools /\ b \in Blocks /\ b \notin TrapNodes(W)
      /\ Served(h, Get_Block(h, p), W, V, NodeClass, p, b)
      /\ X = [V EXCEPT ![TrapList] = Append(W[TrapList], Data(b))]
      /\ Members(X, TrapList) = Members(W, TrapList) \union {Data(b)}
      /\ h'.trap = [h.trap EXCEPT ![b] = t]
  BY <1>2 DEF Listed, Given
<1>5. TrapNodes(X) = TrapNodes(W) \union {b}
  <2>1. \A c \in Blocks: Data(c) = Data(b) <=> c = b
    BY <1>4, ElementsApart
  <2>2. \A c \in Blocks: Data(c) \in Members(X, TrapList) <=> Data(c) \in Members(W, TrapList) \/ c = b
    BY <1>4, <2>1
  <2> QED
    BY <1>4, <2>2 DEF TrapNodes
<1>6. TakenBlocks' = TakenBlocks \union {b}
  BY <1>2, <1>3, <1>5 DEF Seen
<1>7. V \in [Lists -> Seq(Nodes)] /\ W \in [Lists -> Seq(Nodes)]
  BY <1>3, <1>4 DEF Served, GotBlock, Represents, Seen
<1>8. \A q \in Pools: X[Available(q)] = V[Available(q)]
  BY <1>4, <1>7, ListsApart
<1>9. FreeBlocks' = Queues(V)
  BY <1>3, <1>8 DEF Seen, Queues
<1>10. Contract!Take(NodeClass)
  BY <1>3, <1>4, <1>6, <1>9, HeapSizes, TakeStep DEF Seen
<1>11. RegisteredTraps' = Append(RegisteredTraps, t)
  <2>1. PICK w \in Seq(Nodes) : w = W[TrapList]
    BY <1>7, ListsApart
  <2>2. PICK n \in Nat : n = Len(w)
    BY <2>1
  <2>3. PICK s \in Seq(Traps) : s = RegisteredTraps /\ Len(s) = n
    <3>1. RegisteredTraps \in [1 .. Len(w) -> Traps]
      BY <1>1, <2>1, RegisteredList DEF HeapInv
    <3> QED
      BY <2>2, <3>1
  <2>4. \A i \in 1 .. n: s[i] = h.trap[w[i].of] /\ w[i].of \in TrapNodes(W)
    BY <1>3, <2>1, <2>2, <2>3, TrapOfNode DEF Seen, TrapsOf
  <2>5. PICK x : x = X[TrapList]
    OBVIOUS
  <2>6. x = Append(w, Data(b)) /\ Data(b) \in Nodes /\ Data(b).of = b
    BY <1>4, <1>7, <2>1, <2>5, ListsApart, ElementsApart
  <2>7. x \in Seq(Nodes) /\ Len(x) = n + 1 /\ x[n + 1] = Data(b) /\ \A i \in 1 .. n: x[i] = w[i]
    BY <2>1, <2>2, <2>6, AppendPlaces
  <2>8. PICK u : u = Append(s, t)
    OBVIOUS
  <2>9. u \in Seq(Traps) /\ Len(u) = n + 1 /\ u[n + 1] = t /\ \A i \in 1 .. n: u[i] = s[i]
    BY <2>3, <2>8, AppendPlaces
  <2>10. h'.trap[b] = t /\ \A c \in TrapNodes(W): h'.trap[c] = h.trap[c]
    BY <1>3, <1>4 DEF Seen, HeapType, TrapNodes
  <2>11. \A i \in 1 .. n + 1: i \in 1 .. n \/ i = n + 1
    BY <2>2
  <2>12. \A i \in 1 .. n + 1: u[i] = h'.trap[x[i].of]
    <3>1. ASSUME NEW i \in 1 .. n PROVE u[i] = h'.trap[x[i].of]
      <4>1. x[i] = w[i] /\ u[i] = s[i] /\ s[i] = h.trap[w[i].of] /\ w[i].of \in TrapNodes(W)
        BY <2>4, <2>7, <2>9
      <4> QED
        BY <2>10, <4>1
    <3>2. u[n + 1] = h'.trap[x[n + 1].of]
      BY <2>6, <2>7, <2>9, <2>10
    <3> QED
      BY <2>11, <3>1, <3>2
  <2>13. u = [i \in 1 .. n + 1 |-> u[i]]
    BY <2>9
  <2>14. RegisteredTraps' = [i \in 1 .. n + 1 |-> h'.trap[x[i].of]]
    BY <1>3, <2>5, <2>7 DEF Seen, TrapsOf
  <2> QED
    BY <2>3, <2>8, <2>12, <2>13, <2>14
<1> QED
  BY <1>10, <1>11 DEF Contract!RegisterC

\* and a trap removed its RemoveC, although the links are joined after the release.
LEMMA RemoveRefines ==
    ASSUME HeapInv, NEW t \in Traps, Remove_Trap_Region(t)
    PROVE  Contract!RemoveC
<1>1. PICK W : W = Content(h)
  OBVIOUS
<1>2. PICK V, X, k, b : Unlisted(t, W, V, X, k, b) /\ Content(h)' = X /\ held' = held /\ HeapInv'
  BY <1>1, RemoveStep
<1>3. Seen(W, X)
  BY <1>1, <1>2, StepSeen
<1>4. /\ b \in TrapNodes(W) /\ b \notin held /\ k \in 1 .. Len(W[TrapList])
      /\ W[TrapList][k] = Data(b) /\ Moved(W, V, b[1], b) /\ Returning(W, V, b[1], b)
      /\ X = [V EXCEPT ![TrapList] = Without(W[TrapList], k)]
      /\ Members(X, TrapList) = Members(W, TrapList) \ {Data(b)}
      /\ h'.trap = [h.trap EXCEPT ![b] = "none"]
  BY <1>2 DEF Unlisted
<1>5. b \in Blocks /\ TrapNodes(X) = TrapNodes(W) \ {b}
  <2>1. b \in Blocks
    BY <1>4 DEF TrapNodes
  <2>2. \A c \in Blocks: Data(c) = Data(b) <=> c = b
    BY <2>1, ElementsApart
  <2>3. \A c \in Blocks: Data(c) \in Members(X, TrapList) <=> Data(c) \in Members(W, TrapList) /\ c # b
    BY <1>4, <2>2
  <2> QED
    BY <2>1, <2>3 DEF TrapNodes
<1>6. TakenBlocks' = TakenBlocks \ {b} /\ b \in TakenBlocks
  BY <1>2, <1>3, <1>4, <1>5 DEF Seen
<1>7. W \in [Lists -> Seq(Nodes)] /\ Accounts(W, held) /\ b \in held \union TrapNodes(W)
  BY <1>3, <1>4 DEF Seen, Represents
<1>8. /\ b \in Given(b[1]) /\ b[1] \in Pools
      /\ V[Available(b[1])] = Append(W[Available(b[1])], Element(b))
      /\ \A q \in Pools: q # b[1] => V[Available(q)] = W[Available(q)]
  BY <1>4, <1>7, ReturnedLists
<1>9. V \in [Lists -> Seq(Nodes)]
  <2>1. PICK p \in Pools : p = b[1]
    BY <1>8
  <2>2. PICK j \in 1 .. Len(W[Allocated(p)]) :
            V = [W EXCEPT ![Allocated(p)] = Without(W[Allocated(p)], j),
                          ![Available(p)] = Append(W[Available(p)], Element(b))]
    BY <1>4, <2>1 DEF Moved
  <2>3. Append(W[Available(p)], Element(b)) \in Seq(Nodes)
    BY <1>5, <1>7, ListsApart, ElementsApart
  <2>4. Without(W[Allocated(p)], j) \in Seq(Nodes)
    <3>1. PICK w \in Seq(Nodes) : w = W[Allocated(p)] /\ j \in 1 .. Len(w)
      BY <1>7, ListsApart
    <3>2. Without(w, j) = SubSeq(w, 1, j - 1) \o SubSeq(w, j + 1, Len(w))
      BY <3>1, WithoutSplit
    <3> QED
      BY <3>1, <3>2
  <2> QED
    BY <1>7, <2>2, <2>3, <2>4
<1>10. /\ X[TrapList] = Without(W[TrapList], k)
       /\ \A q \in Pools: X[Available(q)] = V[Available(q)]
  BY <1>4, <1>9, ListsApart
<1>11. FreeBlocks' = Queues(V)
  BY <1>3, <1>10 DEF Seen, Queues
<1>12. Contract!Return(b)
  BY <1>3, <1>6, <1>8, <1>11, ReturnStep DEF Seen
<1>13. /\ k \in 1 .. Len(RegisteredTraps)
       /\ RegisteredTraps' = SubSeq(RegisteredTraps, 1, k - 1)
                             \o SubSeq(RegisteredTraps, k + 1, Len(RegisteredTraps))
  <2>1. PICK w \in Seq(Nodes) : w = W[TrapList]
    BY <1>7, ListsApart
  <2>2. PICK n \in Nat : n = Len(w) /\ k \in 1 .. n
    BY <1>4, <2>1
  <2>3. PICK s \in Seq(Traps) : s = RegisteredTraps /\ Len(s) = n
    <3>1. RegisteredTraps \in [1 .. Len(w) -> Traps]
      BY <1>1, <2>1, RegisteredList DEF HeapInv
    <3> QED
      BY <2>2, <3>1
  <2>4. \A i \in 1 .. n: s[i] = h.trap[w[i].of] /\ w[i].of \in TrapNodes(W) /\ w[i] = Data(w[i].of)
    BY <1>3, <2>1, <2>2, <2>3, TrapOfNode DEF Seen, TrapsOf
  <2>5. \A i \in 1 .. n: i # k => w[i].of # b
    <3>1. Chain(h, TrapList, w)
      BY <1>3, <2>1, ListsApart DEF Seen, Represents
    <3>2. \A i, j \in 1 .. n: w[i] = w[j] => i = j
      BY <2>2, <3>1 DEF Chain
    <3>3. w[k] = Data(b)
      BY <1>4, <2>1
    <3> QED
      BY <2>2, <2>4, <3>2, <3>3
  <2>6. \A c \in TrapNodes(W): c # b => h'.trap[c] = h.trap[c]
    BY <1>3, <1>4 DEF Seen, HeapType, TrapNodes
  <2>7. PICK x : x = Without(w, k)
    OBVIOUS
  <2>8. x = [i \in 1 .. n - 1 |-> IF i < k THEN w[i] ELSE w[i + 1]]
    BY <2>2, <2>7 DEF Without
  <2>9. Len(x) = n - 1 /\ \A i \in 1 .. n - 1: x[i] = IF i < k THEN w[i] ELSE w[i + 1]
    BY <2>2, <2>8
  <2>10. \A i \in 1 .. n - 1: /\ i \in 1 .. n /\ i + 1 \in 1 .. n
                              /\ i < k => i # k
                              /\ ~(i < k) => i + 1 # k
    BY <2>2
  <2>11. \A i \in 1 .. n - 1: h'.trap[x[i].of] = IF i < k THEN s[i] ELSE s[i + 1]
    <3>1. \A i \in 1 .. n: i # k => h'.trap[w[i].of] = s[i]
      BY <2>4, <2>5, <2>6
    <3> QED
      BY <2>9, <2>10, <3>1
  <2>12. RegisteredTraps' = [i \in 1 .. n - 1 |-> h'.trap[x[i].of]]
    BY <1>3, <1>10, <2>1, <2>7, <2>9 DEF Seen, TrapsOf
  <2>13. Without(s, k) = [i \in 1 .. n - 1 |-> IF i < k THEN s[i] ELSE s[i + 1]]
    BY <2>3 DEF Without
  <2>14. RegisteredTraps' = Without(s, k)
    BY <2>11, <2>12, <2>13
  <2>15. Without(s, k) = SubSeq(s, 1, k - 1) \o SubSeq(s, k + 1, Len(s))
    BY <2>2, <2>3, WithoutSplit
  <2> QED
    BY <2>2, <2>3, <2>14, <2>15
<1> QED
  BY <1>6, <1>12, <1>13 DEF Contract!RemoveC

\* A step of the lists is a step of the contract or none.
LEMMA StepRefines ==
    HeapInv /\ [Next]_vars => [Contract!NextC]_<<FreeBlocks, TakenBlocks, RegisteredTraps>>
<1> SUFFICES ASSUME HeapInv, [Next]_vars
             PROVE  Contract!NextC \/ UNCHANGED <<FreeBlocks, TakenBlocks, RegisteredTraps>>
  OBVIOUS
<1>1. ASSUME h' = h PROVE UNCHANGED <<FreeBlocks, TakenBlocks, RegisteredTraps>>
  BY <1>1 DEF FreeBlocks, TakenBlocks, RegisteredTraps, On, Walk, Value
<1>2. ASSUME NEW n \in Pools, Alloc(n) PROVE Contract!NextC \/ h' = h
  BY <1>2, AllocRefines DEF Alloc, vars, Contract!NextC
<1>3. ASSUME NEW b \in Blocks, Free(b) PROVE Contract!NextC
  BY <1>3, FreeRefines DEF Contract!NextC
<1>4. ASSUME NEW t \in Traps, Register_Trap_Region(t) PROVE Contract!NextC \/ h' = h
  BY <1>4, RegisterRefines, RegisterFaults DEF Contract!NextC
<1>5. ASSUME NEW t \in Traps, Remove_Trap_Region(t) PROVE Contract!NextC
  BY <1>5, RemoveRefines DEF Contract!NextC
<1> QED
  BY <1>1, <1>2, <1>3, <1>4, <1>5 DEF Next, Halted, vars

\* A new heap is a new heap of the contract.
LEMMA InitRefines == Init => Contract!InitC
<1> SUFFICES ASSUME Init PROVE Contract!InitC
  OBVIOUS
<1>1. HeapInv /\ NewHeap(Content(h)) /\ held = {}
  BY InitHeap DEF Init
<1>2. PICK W : W = Content(h)
  OBVIOUS
<1>3. ASSUME NEW p \in Pools PROVE BlocksOf(W[Available(p)]) = AllBlocks[p]
  <2>1. PICK w : w = W[Available(p)] /\ w = [i \in 1 .. HeapSize |-> Element(<<p, i>>)]
    BY <1>1, <1>2 DEF NewHeap
  <2>2. Len(w) = HeapSize
    BY <2>1, HeapSizes
  <2>3. \A i \in 1 .. HeapSize: w[i].of = <<p, i>>
    BY <2>1 DEF Element
  <2> QED
    BY <2>1, <2>2, <2>3 DEF BlocksOf, AllBlocks
<1>4. W[TrapList] = <<>>
  BY <1>1, <1>2 DEF NewHeap
<1>5. TrapNodes(W) = {} /\ TrapsOf(W[TrapList], h.trap) = <<>>
  BY <1>4 DEF TrapNodes, Members, TrapsOf
<1>6. FreeBlocks = AllBlocks
  BY <1>1, <1>2, <1>3, MappedState DEF AllBlocks
<1>7. TakenBlocks = {} /\ RegisteredTraps = <<>>
  BY <1>1, <1>2, <1>5, MappedState
<1> QED
  BY <1>6, <1>7 DEF Contract!InitC

\* The lists implement the contract: a pool is a queue of blocks, from which a request takes
\* the one that has been free the longest, from the smallest pool that has one large enough,
\* and to which a block comes back; the registered traps are a sequence, each with one block.
THEOREM HeapImplementsContract == Spec => ContractSpec
<1>1. Init => Contract!InitC
  BY InitRefines
<1>2. HeapInv /\ [Next]_vars => [Contract!NextC]_<<FreeBlocks, TakenBlocks, RegisteredTraps>>
  BY StepRefines
<1> QED
  BY <1>1, <1>2, HeapAlwaysSound, PTL DEF Spec, ContractSpec, Contract!SpecC
=============================================================================
