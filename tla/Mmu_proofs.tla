------------------------------ MODULE Mmu_proofs ------------------------------
(***************************************************************************)
(* The two sets of tables, for every size of a table, every pool and every *)
(* configuration of a board: the tables form one forest and all of them    *)
(* are accounted for, a call changes no page outside its region, and       *)
(* between calls every page translates to what is configured.              *)
(*                                                                         *)
(* Each of these needs the ones before it, as one inductive invariant:     *)
(*   Shape    what the variables hold;                                     *)
(*   Calls    a call stays inside its region, which spares Saturn's page;  *)
(*   Forest   TableForest, said of single references, which a step can be  *)
(*            argued about as counts cannot, with Saturn's own chain in    *)
(*            place (the static tables are never taken for empty ones);    *)
(*   Owned    the pages of a block belong to one region, also between the  *)
(*            steps of a call;                                             *)
(*   Content  what each page translates to in the middle of a call;        *)
(*   Needed   a table is only where no block fits;                         *)
(*   Pruned   where an empty table can be.                                 *)
(***************************************************************************)
EXTENDS Mmu, TLAPS, FiniteSetTheorems

-----------------------------------------------------------------------------
(* Arithmetic of the indices. *)

LEMMA DivMod ==
    ASSUME NEW a \in Nat, NEW n \in Nat \ {0}
    PROVE  /\ a \div n \in Nat
           /\ a % n \in 0 .. n - 1
           /\ a = n * (a \div n) + (a % n)
<1>1. a \div n \in Nat
    OBVIOUS
<1>2. a % n \in 0 .. n - 1
    OBVIOUS
<1>3. a = n * (a \div n) + (a % n)
    OBVIOUS
<1> QED BY <1>1, <1>2, <1>3

LEMMA SameDivMod ==
    ASSUME NEW n \in Nat \ {0}, NEW a \in Nat, NEW b \in Nat,
           a \div n = b \div n, a % n = b % n
    PROVE  a = b
<1>1. a = n * (a \div n) + (a % n)
    BY DivMod
<1>2. b = n * (b \div n) + (b % n)
    BY DivMod
<1> QED BY <1>1, <1>2

LEMMA DivUnique ==
    ASSUME NEW n \in Nat \ {0}, NEW q \in Nat, NEW r \in 0 .. n - 1
    PROVE  (n * q + r) \div n = q
OBVIOUS

LEMMA ModUnique ==
    ASSUME NEW n \in Nat \ {0}, NEW q \in Nat, NEW r \in 0 .. n - 1
    PROVE  (n * q + r) % n = r
<1>1. PICK x \in Nat: x = n * q
    OBVIOUS
<1>2. PICK a \in Nat: a = x + r
    <2>1. x + r \in Nat
        BY <1>1
    <2> QED BY <2>1
<1>3. a \div n = q /\ a = n * q + r
    BY <1>1, <1>2, DivUnique
<1>4. a = n * (a \div n) + (a % n) /\ a % n \in 0 .. n - 1
    BY <1>2, DivMod
<1>5. a % n = r
    <2>1. PICK s \in 0 .. n - 1: s = a % n
        BY <1>4
    <2>2. x + r = x + s
        BY <1>1, <1>2, <1>3, <1>4, <2>1
    <2> QED BY <1>1, <2>1, <2>2
<1> QED BY <1>3, <1>5

LEMMA DivDiv ==
    ASSUME NEW a \in Nat, NEW n \in Nat \ {0}
    PROVE  (a \div n) \div n = a \div (n * n)
<1>1. PICK q \in Nat, r \in 0 .. n - 1: a = n * q + r /\ q = a \div n
    BY DivMod
<1>2. PICK p \in Nat, s \in 0 .. n - 1: q = n * p + s /\ p = q \div n
    BY DivMod
<1>3. a = (n * n) * p + (n * s + r)
    <2>1. n * q = n * (n * p) + n * s
        BY <1>2
    <2>2. n * (n * p) = (n * n) * p
        OBVIOUS
    <2> QED BY <1>1, <2>1, <2>2
<1>4. n * s + r \in 0 .. n * n - 1
    <2>1. n * s <= n * (n - 1)
        OBVIOUS
    <2>2. n * (n - 1) = n * n - n
        OBVIOUS
    <2>3. n * s \in Nat /\ n * n \in Nat
        OBVIOUS
    <2> QED BY <2>1, <2>2, <2>3
<1>5. n * n \in Nat \ {0}
    OBVIOUS
<1>6. a \div (n * n) = p
    BY <1>3, <1>4, <1>5, DivUnique
<1> QED BY <1>1, <1>2, <1>6

(* The three indices of a page are indices, and tell it from every other page. *)
LEMMA IndexType ==
    ASSUME NEW p \in Nat
    PROVE  Index1(p) \in Index /\ Index2(p) \in Index /\ Index3(p) \in Index
<1>1. Entries \in Nat \ {0} /\ Entries * Entries \in Nat \ {0}
    BY MmuSizes
<1>2. p \div L1Pages \in Nat /\ p \div L2Pages \in Nat
    BY <1>1, DivMod DEF L1Pages, L2Pages
<1> QED BY <1>1, <1>2, DivMod DEF Index1, Index2, Index3, Index

(* Pages with the same indices lie in the same block. *)
LEMMA IndexBlocks ==
    ASSUME NEW p \in Pages, NEW q \in Pages
    PROVE  /\ p \in Nat /\ q \in Nat
           /\ Index1(p) = Index1(q) <=> p \div L1Pages = q \div L1Pages
           /\ Index1(p) = Index1(q) /\ Index2(p) = Index2(q) <=> p \div L2Pages = q \div L2Pages
           /\ Index1(p) = Index1(q) /\ Index2(p) = Index2(q) /\ Index3(p) = Index3(q) <=> p = q
<1>1. Entries \in Nat \ {0} /\ Entries * Entries \in Nat \ {0} /\ p \in Nat /\ q \in Nat
      /\ p < Entries * (Entries * Entries) /\ q < Entries * (Entries * Entries)
    BY MmuSizes DEF Pages, L1Pages
<1>2. ASSUME NEW a \in Nat, a < Entries * (Entries * Entries)
      PROVE  a \div (Entries * Entries) \in 0 .. Entries - 1
    <2>1. PICK c \in Nat, s \in 0 .. Entries * Entries - 1:
              a = (Entries * Entries) * c + s /\ c = a \div (Entries * Entries)
        BY <1>1, DivMod
    <2>2. (Entries * Entries) * c < (Entries * Entries) * Entries
        BY <1>1, <1>2, <2>1
    <2>3. c < Entries
        BY <1>1, <2>2
    <2> QED BY <1>1, <2>1, <2>3
<1>3. ASSUME NEW a \in 0 .. Entries - 1 PROVE a % Entries = a
    BY <1>1, <1>3
<1>4. Index1(p) = Index1(q) <=> p \div L1Pages = q \div L1Pages
    BY <1>1, <1>2, <1>3 DEF Index1, L1Pages
<1>5. p \div Entries \in Nat /\ q \div Entries \in Nat
    BY <1>1, DivMod
<1>6. (p \div Entries) \div Entries = p \div L1Pages /\ (q \div Entries) \div Entries = q \div L1Pages
    BY <1>1, DivDiv DEF L1Pages
<1>7. Index1(p) = Index1(q) /\ Index2(p) = Index2(q) <=> p \div L2Pages = q \div L2Pages
    BY <1>1, <1>4, <1>5, <1>6, SameDivMod DEF Index2, L2Pages
<1>8. Index1(p) = Index1(q) /\ Index2(p) = Index2(q) /\ Index3(p) = Index3(q) <=> p = q
    BY <1>1, <1>7, SameDivMod DEF Index3, L2Pages
<1> QED BY <1>1, <1>4, <1>7, <1>8

(* The first page of the block of n pages that p is in. *)
First(p, n) == n * (p \div n)

LEMMA BlockOf ==
    ASSUME NEW n \in Nat \ {0}, NEW p \in Nat, NEW q \in Nat
    PROVE  /\ First(p, n) \in Nat /\ First(p, n) <= p /\ p < First(p, n) + n
           /\ p - First(p, n) = p % n
           /\ First(p, n) \div n = p \div n /\ First(p, n) % n = 0
           /\ p \div n = q \div n <=> First(p, n) <= q /\ q < First(p, n) + n
           /\ p % n = 0 => First(p, n) = p
<1> DEFINE a == p \div n
           b == q \div n
<1>1. a \in Nat /\ p % n \in 0 .. n - 1 /\ p = n * a + (p % n)
    BY DivMod
<1>2. b \in Nat /\ q % n \in 0 .. n - 1 /\ q = n * b + (q % n)
    BY DivMod
<1>3. First(p, n) = n * a
    BY DEF First
<1>4. n * a \in Nat /\ n * b \in Nat /\ n * (a + 1) = n * a + n /\ n * (b + 1) = n * b + n
    BY <1>1, <1>2
<1>5. (n * a) \div n = a /\ (n * a) % n = 0
    <2>1. n * a = n * a + 0
        BY <1>4
    <2>2. (n * a + 0) \div n = a
        BY <1>1, DivUnique
    <2>3. n * a = n * ((n * a) \div n) + ((n * a) % n)
        BY <1>4, DivMod
    <2> QED BY <1>4, <2>1, <2>2, <2>3
<1>6. ASSUME n * a <= q, q < n * a + n PROVE a = b
    <2>1. n * a < n * (b + 1) /\ n * b < n * (a + 1)
        BY <1>2, <1>4, <1>6
    <2>2. a < b + 1 /\ b < a + 1
        BY <1>1, <1>2, <2>1
    <2> QED BY <1>1, <1>2, <2>2
<1>7. ASSUME a = b PROVE n * a <= q /\ q < n * a + n
    BY <1>2, <1>4, <1>7
<1>8. /\ n * a <= p /\ p < n * a + n
      /\ p - n * a = p % n
      /\ p % n = 0 => n * a = p
    BY <1>1, <1>4
<1> HIDE DEF a, b
<1> QED BY <1>3, <1>4, <1>5, <1>6, <1>7, <1>8 DEF a, b

(* The blocks of a page lie inside the address space, a small one inside the large one. *)
LEMMA BlockPages ==
    ASSUME NEW p \in Pages, NEW n \in {L1Pages, L2Pages}
    PROVE  /\ n \in Nat \ {0}
           /\ \A q \in Nat: p \div n = q \div n => q \in Pages
           /\ \A q \in Pages: p \div L2Pages = q \div L2Pages => p \div L1Pages = q \div L1Pages
<1>1. /\ Entries \in Nat \ {0} /\ L1Pages \in Nat \ {0} /\ L2Pages \in Nat \ {0}
      /\ p \in Nat /\ p < L1Pages * Entries /\ L1Pages = Entries * L2Pages
      /\ Pages = {q \in Nat : q < L1Pages * Entries}
    BY MmuSizes DEF Pages, L1Pages, L2Pages
<1>2. \A q \in Pages: p \div L2Pages = q \div L2Pages => p \div L1Pages = q \div L1Pages
    BY IndexBlocks
<1>3. \A q \in Nat: p \div n = q \div n => q \in Pages
    <2>1. PICK k \in Nat: L1Pages * Entries = n * k
        <3>1. CASE n = L1Pages
            BY <1>1, <3>1
        <3>2. CASE n = L2Pages
            <4>1. L1Pages * Entries = n * (Entries * Entries)
                BY <1>1, <3>2
            <4>2. Entries * Entries \in Nat
                BY <1>1
            <4> QED BY <4>1, <4>2
        <3> QED BY <3>1, <3>2
    <2> SUFFICES ASSUME NEW q \in Nat, p \div n = q \div n PROVE q < n * k
        BY <1>1, <2>1
    <2>2. n \in Nat \ {0}
        BY <1>1
    <2>3. First(p, n) = n * (p \div n) /\ First(p, n) <= p /\ q < First(p, n) + n /\ p \div n \in Nat
        BY <1>1, <2>2, BlockOf, DivMod DEF First
    <2>4. n * (p \div n) < n * k
        BY <1>1, <2>1, <2>2, <2>3
    <2>5. p \div n + 1 <= k
        BY <2>2, <2>3, <2>4
    <2>6. n * (p \div n + 1) <= n * k
        BY <2>2, <2>3, <2>5
    <2>7. n * (p \div n + 1) = n * (p \div n) + n
        BY <2>2, <2>3
    <2> QED BY <2>1, <2>2, <2>3, <2>6, <2>7
<1> QED BY <1>1, <1>2, <1>3

(* Every three indices are those of a page. *)
LEMMA PageAt ==
    ASSUME NEW i \in Index, NEW j \in Index, NEW k \in Index
    PROVE  \E p \in Pages: Index1(p) = i /\ Index2(p) = j /\ Index3(p) = k
<1>1. Entries \in Nat \ {0} /\ i \in 0 .. Entries - 1 /\ j \in 0 .. Entries - 1 /\ k \in 0 .. Entries - 1
    BY MmuSizes DEF Index
<1> DEFINE n == Entries
           b == n * i + j
           p == n * b + k
<1>2. b \in Nat /\ p \in Nat /\ n \in Nat \ {0}
    BY <1>1
<1>3. b \div n = i /\ b % n = j
    <2>1. b \div n = i
        BY <1>1, DivUnique
    <2> QED BY <1>1, <2>1, ModUnique
<1>4. p \div n = b /\ p % n = k
    <2>1. p \div n = b
        <3> HIDE DEF b
        <3> QED BY <1>1, <1>2, DivUnique
    <2>2. p % n = k
        <3> HIDE DEF b
        <3> QED BY <1>1, <1>2, ModUnique
    <2> QED BY <2>1, <2>2
<1>5. p \div (n * n) = i
    BY <1>2, <1>3, <1>4, DivDiv
<1>6. i % n = i
    BY <1>1
<1>7. p \in Pages
    <2>1. b <= n * (n - 1) + (n - 1)
        <3>1. n * i <= n * (n - 1)
            BY <1>1
        <3> QED BY <1>1, <3>1
    <2>2. n * (n - 1) = n * n - n /\ n * n \in Nat
        BY <1>1
    <2>3. b <= n * n - 1
        BY <1>1, <1>2, <2>1, <2>2
    <2>4. n * b <= n * (n * n - 1)
        BY <1>2, <2>2, <2>3
    <2>5. n * (n * n - 1) = n * (n * n) - n /\ n * (n * n) \in Nat
        BY <1>2, <2>2
    <2>6. p <= n * (n * n) - 1
        BY <1>1, <1>2, <2>4, <2>5
    <2> HIDE DEF p
    <2> QED BY <1>2, <2>5, <2>6 DEF Pages, L1Pages
<1> HIDE DEF p, b
<1> QED BY <1>3, <1>4, <1>5, <1>6, <1>7 DEF Index1, Index2, Index3, L1Pages, L2Pages

-----------------------------------------------------------------------------
(* Entries, and the arrays they are in. *)

Entry == {None} \union {Block(a) : a \in Nat} \union {Page(a) : a \in Nat}
         \union {Table(t) : t \in AllTables}

LEMMA EntryKinds ==
    ASSUME NEW e \in Entry
    PROVE  /\ e.kind = "table" => e.addr \in AllTables /\ e = Table(e.addr)
           /\ e.kind = "none" => e = None
           /\ e.kind \in {"block", "page"} => e.addr \in Nat
           /\ e.kind \in {"none", "block", "page", "table"}
<1> USE DEF None, Block, Page, Table
<1>1. CASE e = None
    BY <1>1
<1>2. CASE \E a \in Nat: e = Block(a)
    BY <1>2
<1>3. CASE \E a \in Nat: e = Page(a)
    BY <1>3
<1>4. CASE \E t \in AllTables: e = Table(t)
    BY <1>4
<1> QED BY <1>1, <1>2, <1>3, <1>4 DEF Entry

LEMMA TableEntry ==
    ASSUME NEW t \in AllTables
    PROVE  Table(t) \in Entry /\ Table(t).kind = "table" /\ Table(t).addr = t
BY DEF Entry, Table

LEMMA LeafEntry ==
    ASSUME NEW a \in Nat
    PROVE  /\ Block(a) \in Entry /\ Block(a).kind = "block"
           /\ Page(a) \in Entry /\ Page(a).kind = "page"
           /\ None \in Entry /\ None.kind = "none"
BY DEF Entry, None, Block, Page

Shape ==
    /\ l1 \in [Mmus -> [Index -> Entry]]
    /\ mem \in [AllTables -> [Index -> Entry]]
    /\ free \subseteq Tables
    /\ op \in {"idle", "map", "unmap", "free"}
    /\ start \in Nat

(* A call is about one of the regions and stays inside it. *)
Calls ==
    /\ op # "idle" => region \in Regions
    /\ op \in {"map", "unmap"} => region.va <= start /\ start < End
    /\ mapped \subseteq Regions
    /\ op = "map" => region \notin mapped
    /\ op \in {"unmap", "free"} => region \in mapped

LEMMA RegionType ==
    ASSUME NEW r \in Regions
    PROVE  /\ r.mmu \in Mmus /\ r.va \in Nat /\ r.pa \in Nat /\ r.size \in Nat \ {0}
           /\ \A p \in Nat: Covers(r, p) => p \in Pages
<1>1. r \in [mmu : Mmus, va : Pages, pa : Pages, size : Pages \ {0}] /\ r.va + r.size - 1 \in Pages
    BY MmuRegions, MmuConfiguration
<1>2. Entries * L1Pages \in Nat
    BY MmuSizes DEF L1Pages
<1>3. \A p \in Pages: p \in Nat
    BY <1>2 DEF Pages
<1>4. \A p \in Nat: Covers(r, p) => p \in Pages
    BY <1>1, <1>2 DEF Covers, Pages
<1> QED BY <1>1, <1>3, <1>4

(* The page a call is at is one of its region, and not Saturn's. *)
LEMMA InRegion ==
    ASSUME Shape, Calls, op \in {"map", "unmap"}
    PROVE  /\ region \in Regions /\ region.mmu \in Mmus
           /\ Covers(region, start) /\ start \in Pages
           /\ ~(region.mmu = "hyp" /\ start = SaturnPage)
           /\ Index1(start) \in Index /\ Index2(start) \in Index /\ Index3(start) \in Index
           /\ Pa \in Nat
<1>1. region \in Regions /\ start \in Nat
    BY DEF Calls, Shape
<1>2. Covers(region, start)
    BY DEF Calls, Covers, End
<1>3. start \in Pages /\ ~(region.mmu = "hyp" /\ start = SaturnPage)
    BY <1>1, <1>2, RegionType, MmuConfiguration
<1>4. Pa \in Nat
    BY <1>1, <1>2, RegionType DEF Pa, Covers
<1> QED BY <1>1, <1>2, <1>3, <1>4, RegionType, IndexType

-----------------------------------------------------------------------------
(* The forest. *)

InL1(t) == \E m \in Mmus, i \in Index: l1[m][i] = Table(t)
InMem(t) == \E u \in AllTables, i \in Index: mem[u][i] = Table(t)

(* A table is referred to, unless it is in the heap. *)
Referred == \A t \in AllTables: t \notin free <=> InL1(t) \/ InMem(t)

(* No two entries refer to one table. *)
Single ==
    \A t \in AllTables:
        /\ \A m, n \in Mmus, i, j \in Index:
              l1[m][i] = Table(t) /\ l1[n][j] = Table(t) => m = n /\ i = j
        /\ \A u, v \in AllTables, i, j \in Index:
              mem[u][i] = Table(t) /\ mem[v][j] = Table(t) => u = v /\ i = j
        /\ ~(InL1(t) /\ InMem(t))

(* The tables in the heap are blank, only level 2 tables refer to tables, those hold no pages,  *)
(* and only those hold blocks. *)
Levels ==
    /\ \A t \in free: mem[t] = Blank
    /\ \A u \in AllTables, t \in AllTables, i \in Index: mem[u][i] = Table(t) => InL1(u)
    /\ \A u \in AllTables, i \in Index: InL1(u) => mem[u][i].kind # "page"
    /\ \A u \in AllTables, i \in Index: InMem(u) => mem[u][i].kind # "block"
    /\ \A m \in Mmus, i \in Index: l1[m][i].kind # "page"

(* Saturn's own chain. *)
Boot ==
    /\ l1["hyp"][Index1(SaturnPage)] = Table("core_ptable_l2")
    /\ mem["core_ptable_l2"][Index2(SaturnPage)] = Table("core_ptable_l3")
    /\ mem["core_ptable_l3"][Index3(SaturnPage)].kind = "page"

Forest == Referred /\ Single /\ Levels /\ Boot

LEMMA Names ==
    /\ "core_ptable_l2" \in AllTables /\ "core_ptable_l3" \in AllTables
    /\ "core_ptable_l2" \notin Tables /\ "core_ptable_l3" \notin Tables
    /\ Tables \subseteq AllTables
    /\ "hyp" \in Mmus
    /\ SaturnPage \in Nat /\ SaturnPage \in Pages
    /\ Index1(SaturnPage) \in Index /\ Index2(SaturnPage) \in Index /\ Index3(SaturnPage) \in Index
<1>1. SaturnPage \in Nat
    <2>1. Entries * L1Pages \in Nat
        BY MmuSizes DEF L1Pages
    <2> QED BY <2>1, MmuSizes DEF Pages
<1> QED BY <1>1, MmuTables, MmuSizes, IndexType DEF AllTables, BootTables, Mmus

(* An entry that refers to no table is put in the place of another, at level 1 ... *)
LEMMA L1Plain ==
    ASSUME Shape, Forest, NEW m \in Mmus, NEW i \in Index, NEW e \in Entry,
           e.kind \notin {"table", "page"}, l1[m][i].kind # "table",
           l1' = [l1 EXCEPT ![m][i] = e], UNCHANGED <<mem, free>>
    PROVE  Forest' /\ l1' \in [Mmus -> [Index -> Entry]]
<1>1. l1' \in [Mmus -> [Index -> Entry]]
    BY DEF Shape
<1>2. \A n \in Mmus, j \in Index: l1'[n][j] = IF n = m /\ j = i THEN e ELSE l1[n][j]
    BY DEF Shape
<1>3. \A n \in Mmus, j \in Index, t \in AllTables: l1'[n][j] = Table(t) <=> l1[n][j] = Table(t)
    BY <1>2, TableEntry
<1>4. \A t \in AllTables: (InL1(t)' <=> InL1(t)) /\ (InMem(t)' <=> InMem(t))
    BY <1>3 DEF InL1, InMem
<1>5. Referred' /\ Single'
    BY <1>3, <1>4 DEF Forest, Referred, Single
<1>6. Levels'
    BY <1>2, <1>4 DEF Forest, Levels
<1>7. Boot'
    BY <1>3, Names DEF Forest, Boot
<1> QED BY <1>1, <1>5, <1>6, <1>7 DEF Forest

(* ... or in a table that is in use. *)
LEMMA MemPlain ==
    ASSUME Shape, Forest, NEW u \in AllTables \ free, NEW i \in Index, NEW e \in Entry,
           e.kind # "table", mem[u][i].kind # "table", e.kind = "page" => ~InL1(u), e.kind = "block" => InL1(u),
           ~(u = "core_ptable_l3" /\ i = Index3(SaturnPage)),
           mem' = [mem EXCEPT ![u][i] = e], UNCHANGED <<l1, free>>
    PROVE  Forest' /\ mem' \in [AllTables -> [Index -> Entry]]
<1>1. mem' \in [AllTables -> [Index -> Entry]]
    BY DEF Shape
<1>2. \A v \in AllTables, j \in Index: mem'[v][j] = IF v = u /\ j = i THEN e ELSE mem[v][j]
    BY DEF Shape
<1>3. \A v \in AllTables, j \in Index, t \in AllTables: mem'[v][j] = Table(t) <=> mem[v][j] = Table(t)
    BY <1>2, TableEntry
<1>4. \A t \in AllTables: (InL1(t)' <=> InL1(t)) /\ (InMem(t)' <=> InMem(t))
    BY <1>3 DEF InL1, InMem
<1>5. Referred' /\ Single'
    BY <1>3, <1>4 DEF Forest, Referred, Single
<1>6. \A t \in free: mem'[t] = mem[t]
    BY DEF Shape
<1>7. Levels'
    <2>1. \A t \in free': mem'[t] = Blank
        BY <1>6 DEF Forest, Levels
    <2>2. \A v, t \in AllTables, j \in Index: mem'[v][j] = Table(t) => InL1(v)'
        BY <1>3, <1>4 DEF Forest, Levels
    <2>3. InMem(u) => ~InL1(u)
        BY DEF Forest, Single
    <2>4. \A v \in AllTables, j \in Index: InL1(v)' => mem'[v][j].kind # "page"
        BY <1>2, <1>4 DEF Forest, Levels
    <2>5. \A v \in AllTables, j \in Index: InMem(v)' => mem'[v][j].kind # "block"
        BY <1>2, <1>4, <2>3 DEF Forest, Levels
    <2>6. \A m \in Mmus, j \in Index: l1'[m][j].kind # "page"
        BY DEF Forest, Levels
    <2> QED BY <2>1, <2>2, <2>4, <2>5, <2>6 DEF Levels
<1>8. Boot'
    BY <1>2, <1>3, Names DEF Forest, Boot
<1> QED BY <1>1, <1>5, <1>7, <1>8 DEF Forest

(* A table from the heap is linked, at level 1 ... *)
LEMMA L1Link ==
    ASSUME Shape, Forest, NEW m \in Mmus, NEW i \in Index, NEW t \in free,
           l1[m][i].kind # "table",
           l1' = [l1 EXCEPT ![m][i] = Table(t)], free' = free \ {t}, UNCHANGED mem
    PROVE  Forest' /\ l1' \in [Mmus -> [Index -> Entry]]
<1>1. t \in AllTables /\ t \in Tables
    BY Names DEF Shape
<1>2. l1' \in [Mmus -> [Index -> Entry]]
    BY <1>1, TableEntry DEF Shape
<1>3. \A n \in Mmus, j \in Index: l1'[n][j] = IF n = m /\ j = i THEN Table(t) ELSE l1[n][j]
    BY DEF Shape
<1>4. \A n \in Mmus, j \in Index, v \in AllTables:
          l1'[n][j] = Table(v) <=> l1[n][j] = Table(v) \/ (n = m /\ j = i /\ v = t)
    BY <1>1, <1>3, TableEntry
<1>5. ~InL1(t) /\ ~InMem(t)
    BY <1>1 DEF Forest, Referred
<1>6. \A v \in AllTables: (InL1(v)' <=> InL1(v) \/ v = t) /\ (InMem(v)' <=> InMem(v))
    BY <1>4 DEF InL1, InMem
<1>7. Referred'
    BY <1>1, <1>6 DEF Forest, Referred
<1>8. Single'
    <2> SUFFICES ASSUME NEW v \in AllTables
                 PROVE  /\ \A n, k \in Mmus, j, x \in Index:
                              l1'[n][j] = Table(v) /\ l1'[k][x] = Table(v) => n = k /\ j = x
                        /\ ~(InL1(v)' /\ InMem(v)')
        BY DEF Forest, Single
    <2>1. CASE v = t
        BY <1>4, <1>5, <1>6, <2>1 DEF InL1
    <2>2. CASE v # t
        BY <1>4, <1>6, <2>2 DEF Forest, Single
    <2> QED BY <2>1, <2>2
<1>9. Levels'
    <2>1. \A j \in Index: mem[t][j] = None
        BY DEF Forest, Levels, Blank
    <2>2. \A j \in Index: mem[t][j].kind \notin {"page", "block"}
        BY <2>1 DEF None
    <2> QED BY <1>1, <1>3, <1>6, <2>2, TableEntry DEF Forest, Levels
<1>10. Boot'
    BY <1>4, Names DEF Forest, Boot
<1> QED BY <1>2, <1>7, <1>8, <1>9, <1>10 DEF Forest

(* ... or at level 2. *)
LEMMA L2Link ==
    ASSUME Shape, Forest, NEW u \in AllTables, InL1(u), NEW i \in Index, NEW t \in free,
           mem[u][i].kind # "table",
           mem' = [mem EXCEPT ![u][i] = Table(t)], free' = free \ {t}, UNCHANGED l1
    PROVE  Forest' /\ mem' \in [AllTables -> [Index -> Entry]]
<1>1. t \in AllTables /\ t \in Tables
    BY Names DEF Shape
<1>2. mem' \in [AllTables -> [Index -> Entry]]
    BY <1>1, TableEntry DEF Shape
<1>3. \A v \in AllTables, j \in Index: mem'[v][j] = IF v = u /\ j = i THEN Table(t) ELSE mem[v][j]
    BY DEF Shape
<1>4. \A v \in AllTables, j \in Index, w \in AllTables:
          mem'[v][j] = Table(w) <=> mem[v][j] = Table(w) \/ (v = u /\ j = i /\ w = t)
    BY <1>1, <1>3, TableEntry
<1>5. ~InL1(t) /\ ~InMem(t) /\ u # t /\ u \notin free
    BY <1>1 DEF Forest, Referred
<1>6. \A v \in AllTables: (InMem(v)' <=> InMem(v) \/ v = t) /\ (InL1(v)' <=> InL1(v))
    BY <1>4 DEF InL1, InMem
<1>7. Referred'
    BY <1>1, <1>6 DEF Forest, Referred
<1>8. Single'
    <2> SUFFICES ASSUME NEW v \in AllTables
                 PROVE  /\ \A n, k \in AllTables, j, x \in Index:
                              mem'[n][j] = Table(v) /\ mem'[k][x] = Table(v) => n = k /\ j = x
                        /\ ~(InL1(v)' /\ InMem(v)')
        BY DEF Forest, Single
    <2>1. CASE v = t
        BY <1>4, <1>5, <1>6, <2>1 DEF InMem
    <2>2. CASE v # t
        BY <1>4, <1>6, <2>2 DEF Forest, Single
    <2> QED BY <2>1, <2>2
<1>9. Levels'
    <2>1. \A v \in free': mem'[v] = mem[v]
        BY <1>5 DEF Shape
    <2>2. Table(t).kind \notin {"page", "block"} /\ \A j \in Index: mem[t][j].kind # "block"
        BY <1>1, TableEntry DEF Forest, Levels, Blank, None
    <2> QED BY <1>3, <1>4, <1>6, <2>1, <2>2 DEF Forest, Levels
<1>10. Boot'
    <2>1. \A j \in Index: mem'["core_ptable_l3"][j] = mem["core_ptable_l3"][j]
        <3>1. ~InL1("core_ptable_l3")
            BY Names DEF Forest, Single, Boot, InMem
        <3> QED BY <3>1, Names DEF Shape
    <2> QED BY <1>4, <2>1, Names DEF Forest, Boot
<1> QED BY <1>2, <1>7, <1>8, <1>9, <1>10 DEF Forest

-----------------------------------------------------------------------------
(***************************************************************************)
(* Free_Empty_Tables takes a reference away exactly where it frees the     *)
(* table that is referred to, and never frees one of Saturn's chain.       *)
(***************************************************************************)
L2Tables == {L2Of(i) : i \in L1Tables}

LEMMA PruneFacts ==
    ASSUME Shape, Forest, region.mmu \in Mmus
    PROVE  /\ \A i \in L1Tables: i \in Index /\ L2Of(i) \in AllTables
                                 /\ l1[region.mmu][i] = Table(L2Of(i))
           /\ \A u \in AllTables: u \in L2Tables <=> \E i \in Index: l1[region.mmu][i] = Table(u)
           /\ \A u \in AllTables: \A j \in EmptyL3(u):
                 /\ j \in Index /\ mem[u][j].addr \in AllTables
                 /\ mem[u][j] = Table(mem[u][j].addr) /\ mem[mem[u][j].addr] = Blank
           /\ \A u \in AllTables: L2After(u) \in [Index -> Entry]
           /\ \A u \in AllTables, j \in Index: L2After(u)[j] = IF j \in EmptyL3(u) THEN None ELSE mem[u][j]
<1>1. ASSUME NEW i \in L1Tables
      PROVE  i \in Index /\ L2Of(i) \in AllTables /\ l1[region.mmu][i] = Table(L2Of(i))
    <2>1. i \in Index /\ l1[region.mmu][i] \in Entry /\ l1[region.mmu][i].kind = "table"
        BY DEF L1Tables, Shape
    <2> QED BY <2>1, EntryKinds DEF L2Of
<1>2. ASSUME NEW u \in AllTables
      PROVE  u \in L2Tables <=> \E i \in Index: l1[region.mmu][i] = Table(u)
    BY <1>1, TableEntry DEF L2Tables, L2Of, L1Tables
<1>3. ASSUME NEW u \in AllTables, NEW j \in EmptyL3(u)
      PROVE  /\ j \in Index /\ mem[u][j].addr \in AllTables
             /\ mem[u][j] = Table(mem[u][j].addr) /\ mem[mem[u][j].addr] = Blank
    <2>1. j \in Index /\ mem[u][j] \in Entry /\ mem[u][j].kind = "table"
          /\ mem[mem[u][j].addr] = Blank
        BY DEF EmptyL3, Scanned, Shape
    <2> QED BY <2>1, EntryKinds
<1>4. ASSUME NEW u \in AllTables
      PROVE  /\ L2After(u) \in [Index -> Entry]
             /\ \A j \in Index: L2After(u)[j] = IF j \in EmptyL3(u) THEN None ELSE mem[u][j]
    BY LeafEntry DEF L2After, Shape
<1> QED BY <1>1, <1>2, <1>3, <1>4

LEMMA Prune ==
    ASSUME Shape, Forest, region.mmu \in Mmus, Free_Empty_Tables
    PROVE  Forest' /\ l1' \in [Mmus -> [Index -> Entry]] /\ mem' \in [AllTables -> [Index -> Entry]]
<1> DEFINE m == region.mmu
<1>1. \A n \in Mmus, i \in Index: l1'[n][i] = IF n = m /\ i \in EmptyL2 THEN None ELSE l1[n][i]
    BY DEF Free_Empty_Tables, Shape
<1>2. \A u \in AllTables: mem'[u] = IF u \in L2Tables THEN L2After(u) ELSE mem[u]
    BY DEF Free_Empty_Tables, L2Tables
<1>3. l1' \in [Mmus -> [Index -> Entry]] /\ mem' \in [AllTables -> [Index -> Entry]]
    <2>1. l1' = [l1 EXCEPT ![m] = [i \in Index |-> IF i \in EmptyL2 THEN None ELSE l1[m][i]]]
        BY DEF Free_Empty_Tables
    <2>2. l1' \in [Mmus -> [Index -> Entry]]
        BY <2>1, LeafEntry DEF Shape
    <2>3. mem' \in [AllTables -> [Index -> Entry]]
        BY PruneFacts DEF Free_Empty_Tables, Shape
    <2> QED BY <2>2, <2>3
<1>4. \A n \in Mmus, i \in Index, t \in AllTables:
          l1'[n][i] = Table(t) <=> l1[n][i] = Table(t) /\ ~(n = m /\ i \in EmptyL2)
    <2>1. \A t \in AllTables: None # Table(t)
        BY DEF None, Table
    <2> QED BY <1>1, <2>1
<1>5. \A u \in AllTables, j \in Index, t \in AllTables:
          mem'[u][j] = Table(t) <=> mem[u][j] = Table(t) /\ ~(u \in L2Tables /\ j \in EmptyL3(u))
    <2>1. \A t \in AllTables: None # Table(t)
        BY DEF None, Table
    <2> QED BY <1>2, <2>1, PruneFacts
<1>6. \A t \in AllTables:
          t \in FreedTables <=> \/ \E i \in EmptyL2: l1[m][i] = Table(t)
                                \/ \E u \in L2Tables: \E j \in EmptyL3(u): mem[u][j] = Table(t)
    <2> SUFFICES ASSUME NEW t \in AllTables
                 PROVE  t \in FreedTables <=> \/ \E i \in EmptyL2: l1[m][i] = Table(t)
                                              \/ \E u \in L2Tables: \E j \in EmptyL3(u): mem[u][j] = Table(t)
        OBVIOUS
    <2>1. ASSUME NEW i \in EmptyL2 PROVE l1[m][i] = Table(t) <=> t = L2Of(i)
        BY PruneFacts, TableEntry DEF EmptyL2
    <2>2. ASSUME NEW u \in L2Tables, NEW j \in EmptyL3(u)
          PROVE  mem[u][j] = Table(t) <=> t = mem[u][j].addr
        <3>1. u \in AllTables
            BY PruneFacts DEF L2Tables
        <3> QED BY <3>1, PruneFacts, TableEntry
    <2>3. t \in FreedTables <=> \/ \E i \in EmptyL2: t = L2Of(i)
                                \/ \E u \in L2Tables: \E j \in EmptyL3(u): t = mem[u][j].addr
        BY DEF FreedTables, L2Tables
    <2> QED BY <2>1, <2>2, <2>3
<1>7. \A i \in EmptyL2: i \in Index /\ L2After(L2Of(i)) = Blank /\ l1[m][i] = Table(L2Of(i)) /\ L2Of(i) \in L2Tables
    BY PruneFacts DEF EmptyL2, L2Tables
<1>8. L2Tables \subseteq AllTables
    BY PruneFacts DEF L2Tables
<1>9. FreedTables \subseteq AllTables
    BY <1>8, PruneFacts DEF FreedTables, EmptyL2, L2Tables
<1>10. mem["core_ptable_l3"] # Blank
    BY Names DEF Forest, Boot, Blank, None
<1>11. L2After("core_ptable_l2") # Blank
    <2> DEFINE j == Index2(SaturnPage)
    <2>1. mem["core_ptable_l2"][j] = Table("core_ptable_l3")
        BY DEF Forest, Boot
    <2>2. j \notin EmptyL3("core_ptable_l2")
        BY <1>10, <2>1, Names, TableEntry DEF EmptyL3
    <2>3. L2After("core_ptable_l2")[j].kind = "table"
        BY <2>1, <2>2, Names, PruneFacts, TableEntry
    <2> QED BY <2>3, Names DEF Blank, None
<1>12. FreedTables \subseteq Tables
    <2> SUFFICES ASSUME NEW t \in FreedTables, t \notin Tables PROVE FALSE
        OBVIOUS
    <2>1. t \in BootTables /\ t \in AllTables
        BY <1>9 DEF AllTables
    <2>2. CASE \E i \in EmptyL2: l1[m][i] = Table(t)
        <3>1. PICK i \in EmptyL2: l1[m][i] = Table(t)
            BY <2>2
        <3>2. t = L2Of(i)
            BY <1>7, <2>1, <3>1, TableEntry DEF L2Of
        <3>3. t # "core_ptable_l2"
            BY <1>7, <1>11, <3>2
        <3>4. t = "core_ptable_l3" /\ InL1(t)
            BY <1>7, <2>1, <3>1, <3>3 DEF BootTables, InL1
        <3> QED BY <3>4, Names DEF Forest, Single, Boot, InMem
    <2>3. CASE \E u \in L2Tables: \E j \in EmptyL3(u): mem[u][j] = Table(t)
        <3>1. PICK u \in L2Tables: \E j \in EmptyL3(u): mem[u][j] = Table(t)
            BY <2>3
        <3>2. mem[t] = Blank /\ InMem(t)
            BY <1>8, <2>1, <3>1, PruneFacts, TableEntry DEF InMem
        <3>3. t = "core_ptable_l2"
            BY <1>10, <2>1, <3>2 DEF BootTables
        <3> QED BY <3>2, <3>3, Names DEF Forest, Single, Boot, InL1
    <2> QED BY <1>6, <2>1, <2>2, <2>3
<1>13. free' = free \union FreedTables
    BY <1>12 DEF Free_Empty_Tables
<1>14. ASSUME NEW t \in AllTables
       PROVE  /\ InL1(t)' => InL1(t)
              /\ InMem(t)' => InMem(t)
              /\ t \in FreedTables => ~InL1(t)' /\ ~InMem(t)' /\ (InL1(t) \/ InMem(t))
              /\ t \notin FreedTables => (InL1(t)' <=> InL1(t)) /\ (InMem(t)' <=> InMem(t))
    <2>1. (InL1(t)' => InL1(t)) /\ (InMem(t)' => InMem(t))
        BY <1>4, <1>5 DEF InL1, InMem
    <2>2. ASSUME t \notin FreedTables PROVE (InL1(t)' <=> InL1(t)) /\ (InMem(t)' <=> InMem(t))
        BY <1>4, <1>5, <1>6, <2>1, <2>2 DEF InL1, InMem
    <2>3. ASSUME NEW i \in EmptyL2, l1[m][i] = Table(t)
          PROVE  ~InL1(t)' /\ ~InMem(t)' /\ InL1(t)
        <3>1. InL1(t) /\ ~InMem(t)
            BY <1>7, <2>3 DEF InL1, Forest, Single
        <3>2. ~InL1(t)'
            BY <1>4, <1>7, <2>3 DEF InL1, Forest, Single
        <3> QED BY <2>1, <3>1, <3>2
    <2>4. ASSUME NEW u \in L2Tables, NEW j \in EmptyL3(u), mem[u][j] = Table(t)
          PROVE  ~InL1(t)' /\ ~InMem(t)' /\ InMem(t)
        <3>1. u \in AllTables /\ j \in Index
            BY <1>8, PruneFacts
        <3>2. InMem(t) /\ ~InL1(t)
            BY <2>4, <3>1 DEF InMem, Forest, Single
        <3>3. ~InMem(t)'
            BY <1>5, <2>4, <3>1 DEF InMem, Forest, Single
        <3> QED BY <2>1, <3>2, <3>3
    <2> QED BY <1>6, <2>1, <2>2, <2>3, <2>4
<1>15. Referred'
    BY <1>13, <1>14 DEF Forest, Referred
<1>16. Single'
    BY <1>4, <1>5, <1>14 DEF Forest, Single
<1>17. Levels'
    <2>1. ASSUME NEW t \in free' PROVE mem'[t] = Blank
        <3>1. t \in AllTables
            BY <1>9, <1>13, Names DEF Shape
        <3>2. CASE t \in free
            <4>1. ~InL1(t) /\ mem[t] = Blank
                BY <3>1, <3>2 DEF Forest, Referred, Levels
            <4>2. t \notin L2Tables
                BY <3>1, <4>1, PruneFacts DEF InL1
            <4> QED BY <1>2, <3>1, <4>1, <4>2
        <3>3. CASE \E i \in EmptyL2: l1[m][i] = Table(t)
            <4>1. PICK i \in EmptyL2: l1[m][i] = Table(t)
                BY <3>3
            <4>2. t = L2Of(i)
                BY <1>7, <3>1, <4>1, TableEntry DEF L2Of
            <4> QED BY <1>2, <1>7, <3>1, <4>2
        <3>4. CASE \E u \in L2Tables: \E j \in EmptyL3(u): mem[u][j] = Table(t)
            <4>1. PICK u \in L2Tables: \E j \in EmptyL3(u): mem[u][j] = Table(t)
                BY <3>4
            <4>2. mem[t] = Blank /\ InMem(t)
                BY <1>8, <3>1, <4>1, PruneFacts, TableEntry DEF InMem
            <4>3. t \notin L2Tables
                BY <3>1, <4>2, PruneFacts DEF InL1, Forest, Single
            <4> QED BY <1>2, <3>1, <4>2, <4>3
        <3> QED BY <1>6, <1>13, <3>1, <3>2, <3>3, <3>4
    <2>2. ASSUME NEW u \in AllTables, NEW t \in AllTables, NEW j \in Index, mem'[u][j] = Table(t)
          PROVE  InL1(u)'
        <3>1. InL1(u)
            BY <1>5, <2>2 DEF Forest, Levels
        <3>2. u \notin FreedTables
            BY <1>9, <1>13, <2>1, <2>2 DEF Blank, None, Table
        <3> QED BY <1>14, <3>1, <3>2
    <2>3. ASSUME NEW u \in AllTables, NEW j \in Index, InL1(u)' PROVE mem'[u][j].kind # "page"
        <3>1. mem[u][j].kind # "page"
            BY <1>14, <2>3 DEF Forest, Levels
        <3>2. mem'[u][j] = mem[u][j] \/ mem'[u][j] = None
            BY <1>2, PruneFacts
        <3> QED BY <3>1, <3>2, LeafEntry
    <2>4. ASSUME NEW n \in Mmus, NEW i \in Index PROVE l1'[n][i].kind # "page"
        BY <1>1, LeafEntry DEF Forest, Levels
    <2>5. ASSUME NEW u \in AllTables, NEW j \in Index, InMem(u)' PROVE mem'[u][j].kind # "block"
        <3>1. mem[u][j].kind # "block"
            BY <1>14, <2>5 DEF Forest, Levels
        <3>2. mem'[u][j] = mem[u][j] \/ mem'[u][j] = None
            BY <1>2, PruneFacts
        <3> QED BY <3>1, <3>2, LeafEntry
    <2> QED BY <2>1, <2>2, <2>3, <2>4, <2>5 DEF Levels
<1>18. Boot'
    <2>1. "core_ptable_l2" \notin FreedTables /\ "core_ptable_l3" \notin FreedTables
        BY <1>12, Names
    <2>2. l1'["hyp"][Index1(SaturnPage)] = Table("core_ptable_l2")
        BY <1>4, <1>6, <2>1, Names DEF Forest, Boot
    <2>3. mem'["core_ptable_l2"][Index2(SaturnPage)] = Table("core_ptable_l3")
        BY <1>5, <1>6, <2>1, Names DEF Forest, Boot
    <2>4. "core_ptable_l3" \notin L2Tables
        <3>1. InMem("core_ptable_l3")
            BY Names DEF InMem, Forest, Boot
        <3>2. ~InL1("core_ptable_l3")
            BY <3>1, Names DEF Forest, Single
        <3> QED BY <3>2, Names, PruneFacts DEF InL1
    <2>5. mem'["core_ptable_l3"] = mem["core_ptable_l3"]
        BY <1>2, <2>4, Names
    <2> QED BY <2>2, <2>3, <2>5 DEF Forest, Boot
<1> QED BY <1>3, <1>15, <1>16, <1>17, <1>18 DEF Forest

-----------------------------------------------------------------------------
(* One step of each call. *)

Inv == Shape /\ Calls /\ Forest

LEMMA PageCounts == L1Pages \in Nat \ {0} /\ L2Pages \in Nat \ {0}
BY MmuSizes DEF L1Pages, L2Pages

(* A call moves on, or ends. *)
LEMMA Moves ==
    ASSUME Shape, Calls, op \in {"map", "unmap"}, NEW n \in Nat \ {0},
           (op = "map" /\ MapNext(n)) \/ (op = "unmap" /\ UnmapNext(n))
    PROVE  Calls' /\ op' \in {"idle", "map", "unmap", "free"} /\ start' \in Nat
<1> USE InRegion, RegionType
<1>1. CASE op = "map" /\ MapNext(n)
    BY <1>1 DEF MapNext, Calls, Shape, End
<1>2. CASE op = "unmap" /\ UnmapNext(n)
    BY <1>2 DEF UnmapNext, Calls, Shape, End
<1> QED BY <1>1, <1>2

(* The entries a call looks at are entries, and the tables on its way are in use. *)
LEMMA Reached ==
    ASSUME Inv, op \in {"map", "unmap"}
    PROVE  /\ region.mmu \in Mmus /\ Index1(start) \in Index
           /\ Index2(start) \in Index /\ Index3(start) \in Index /\ Pa \in Nat
           /\ L1Entry \in Entry /\ L1Entry.kind # "page"
           /\ L1Entry.kind = "table" =>
                 /\ L1Entry = Table(L1Entry.addr)
                 /\ L1Entry.addr \in AllTables \ free /\ InL1(L1Entry.addr)
                 /\ L2Entry \in Entry /\ L2Entry.kind # "page"
                 /\ L2Entry.kind = "table" =>
                       /\ L2Entry = Table(L2Entry.addr)
                       /\ L2Entry.addr \in AllTables \ free /\ ~InL1(L2Entry.addr)
                       /\ L3Entry \in Entry /\ L3Entry.kind \in {"none", "page"}
<1> USE DEF Inv, Forest
<1>1. /\ region.mmu \in Mmus /\ Index1(start) \in Index
      /\ Index2(start) \in Index /\ Index3(start) \in Index /\ Pa \in Nat
    BY InRegion
<1>2. L1Entry \in Entry /\ L1Entry.kind # "page"
    BY <1>1 DEF L1Entry, Shape, Levels
<1>3. ASSUME L1Entry.kind = "table"
      PROVE  /\ L1Entry = Table(L1Entry.addr)
             /\ L1Entry.addr \in AllTables \ free /\ InL1(L1Entry.addr)
             /\ L2Entry \in Entry /\ L2Entry.kind # "page"
    <2>1. L1Entry = Table(L1Entry.addr) /\ L1Entry.addr \in AllTables
        BY <1>2, <1>3, EntryKinds
    <2>2. InL1(L1Entry.addr)
        BY <1>1, <2>1 DEF InL1, L1Entry
    <2>3. L1Entry.addr \notin free
        BY <2>1, <2>2 DEF Referred
    <2>4. L2Entry \in Entry /\ L2Entry.kind # "page"
        BY <1>1, <2>1, <2>2 DEF L2Entry, Shape, Levels
    <2> QED BY <2>1, <2>2, <2>3, <2>4
<1>4. ASSUME L1Entry.kind = "table", L2Entry.kind = "table"
      PROVE  /\ L2Entry = Table(L2Entry.addr)
             /\ L2Entry.addr \in AllTables \ free /\ ~InL1(L2Entry.addr)
             /\ L3Entry \in Entry /\ L3Entry.kind \in {"none", "page"}
    <2>1. L2Entry = Table(L2Entry.addr) /\ L2Entry.addr \in AllTables
        BY <1>3, <1>4, EntryKinds
    <2>2. InMem(L2Entry.addr)
        BY <1>1, <1>3, <1>4, <2>1 DEF InMem, L2Entry
    <2>3. L2Entry.addr \notin free /\ ~InL1(L2Entry.addr)
        BY <2>1, <2>2 DEF Referred, Single
    <2>4. L3Entry \in Entry
        BY <1>1, <2>1 DEF L3Entry, Shape
    <2>5. ASSUME L3Entry.kind = "table" PROVE FALSE
        <3>1. L3Entry = Table(L3Entry.addr) /\ L3Entry.addr \in AllTables
            BY <2>4, <2>5, EntryKinds
        <3>2. InL1(L2Entry.addr)
            BY <1>1, <2>1, <3>1 DEF L3Entry, Levels
        <3> QED BY <2>3, <3>2
    <2>6. L3Entry.kind # "block"
        BY <1>1, <2>1, <2>2 DEF L3Entry, Levels
    <2> QED BY <2>1, <2>3, <2>4, <2>5, <2>6, EntryKinds
<1> QED BY <1>1, <1>2, <1>3, <1>4

(* The page the loop is at is not the one Saturn's chain ends in. *)
LEMMA NotSaturns ==
    ASSUME Inv, op \in {"map", "unmap"}, L1Entry.kind = "table", L2Entry.kind = "table"
    PROVE  ~(L2Entry.addr = "core_ptable_l3" /\ Index3(start) = Index3(SaturnPage))
<1> SUFFICES ASSUME L2Entry.addr = "core_ptable_l3", Index3(start) = Index3(SaturnPage) PROVE FALSE
    OBVIOUS
<1>1. L1Entry.addr = "core_ptable_l2" /\ Index2(start) = Index2(SaturnPage)
    BY Reached, Names DEF Inv, Forest, Boot, Single, L2Entry
<1>2. region.mmu = "hyp" /\ Index1(start) = Index1(SaturnPage)
    BY <1>1, Reached, Names DEF Inv, Forest, Boot, Single, L1Entry
<1>3. start \in Pages /\ ~(region.mmu = "hyp" /\ start = SaturnPage)
    BY InRegion DEF Inv
<1>4. start = SaturnPage
    BY <1>1, <1>2, <1>3, IndexBlocks, Names
<1> QED BY <1>2, <1>3, <1>4

LEMMA FailInv == ASSUME Inv, Fail PROVE Inv'
<1>1. UNCHANGED <<l1, mem, free, op, region, start, mapped>>
    BY DEF Fail, tables
<1> QED BY <1>1 DEF Inv, Shape, Calls, End, Forest, Referred, Single, Levels, Boot, InL1, InMem

LEMMA TablesKept ==
    ASSUME Inv, UNCHANGED <<l1, mem, free>>, Calls',
           op' \in {"idle", "map", "unmap", "free"}, start' \in Nat
    PROVE  Inv'
BY DEF Inv, Shape, Forest, Referred, Single, Levels, Boot, InL1, InMem

LEMMA MapInv ==
    ASSUME Inv, \/ Map_L1_Block \/ Map_L1_PTable \/ Map_L2_Block \/ Map_L2_PTable \/ Map_L3_Page
    PROVE  Inv'
<1>1. op = "map"
    BY DEF Map_L1_Block, Map_L1_PTable, Map_L2_Block, Map_L2_PTable, Map_L3_Page, L2Reached, Mapping
<1> DEFINE m == region.mmu
           i == Index1(start)
           u == L1Entry.addr
           j == Index2(start)
<1>2. CASE Fail
    BY <1>2, FailInv
<1>3. CASE UNCHANGED tables /\ \E n \in Nat \ {0}: MapNext(n)
    BY <1>1, <1>3, Moves, TablesKept DEF tables, Inv
<1>4. CASE /\ L1Entry.kind = "none" /\ SetL1(Block(Pa \div L1Pages))
           /\ UNCHANGED <<mem, free>> /\ MapNext(L1Pages)
    <2>1. Pa \div L1Pages \in Nat
        BY <1>1, Reached, PageCounts, DivMod
    <2>2. Forest' /\ l1' \in [Mmus -> [Index -> Entry]]
        <3> DEFINE e == Block(Pa \div L1Pages)
        <3>1. e \in Entry /\ e.kind = "block"
            BY <2>1, LeafEntry
        <3>2. l1' = [l1 EXCEPT ![m][i] = e] /\ l1[m][i].kind # "table"
            BY <1>4 DEF SetL1, L1Entry
        <3> HIDE DEF e
        <3> QED BY <1>1, <1>4, <3>1, <3>2, Reached, L1Plain DEF Inv
    <2>3. Calls' /\ op' \in {"idle", "map", "unmap", "free"} /\ start' \in Nat
        BY <1>1, <1>4, Moves, PageCounts DEF Inv
    <2> QED BY <1>4, <2>2, <2>3 DEF Inv, Shape
<1>5. CASE Map_L1_PTable /\ ~Fail
    <2>1. PICK t \in free: /\ L1Entry.kind = "none"
                           /\ free' = free \ {t}
                           /\ mem' = [mem EXCEPT ![t] = Blank]
                           /\ SetL1(Table(t))
                           /\ UNCHANGED <<op, region, start, mapped, fault>>
        BY <1>5 DEF Map_L1_PTable
    <2>2. mem' = mem
        BY <2>1, Names DEF Inv, Shape, Forest, Levels
    <2>3. Forest' /\ l1' \in [Mmus -> [Index -> Entry]]
        BY <1>1, <2>1, <2>2, Reached, L1Link DEF Inv, SetL1, L1Entry
    <2>4. Calls'
        BY <2>1 DEF Inv, Calls, End
    <2> QED BY <2>1, <2>2, <2>3, <2>4 DEF Inv, Shape
<1>6. CASE /\ L1Entry.kind = "table" /\ L2Entry.kind = "none" /\ SetL2(Block(Pa \div L2Pages))
           /\ UNCHANGED <<l1, free>> /\ MapNext(L2Pages)
    <2>1. Pa \div L2Pages \in Nat
        BY <1>1, Reached, PageCounts, DivMod
    <2>2. Forest' /\ mem' \in [AllTables -> [Index -> Entry]]
        <3> DEFINE e == Block(Pa \div L2Pages)
        <3>1. e \in Entry /\ e.kind = "block"
            BY <2>1, LeafEntry
        <3>2. mem' = [mem EXCEPT ![u][j] = e] /\ mem[u][j].kind # "table"
            BY <1>6 DEF SetL2, L2Entry
        <3>3. u # "core_ptable_l3"
            BY <1>1, <1>6, Reached, Names DEF Inv, Forest, Single, Boot, InMem
        <3> HIDE DEF e
        <3> QED BY <1>1, <1>6, <3>1, <3>2, <3>3, Reached, MemPlain DEF Inv
    <2>3. Calls' /\ op' \in {"idle", "map", "unmap", "free"} /\ start' \in Nat
        BY <1>1, <1>6, Moves, PageCounts DEF Inv
    <2> QED BY <1>6, <2>2, <2>3 DEF Inv, Shape
<1>7. CASE Map_L2_PTable /\ ~Fail
    <2>1. L1Entry.kind = "table"
        BY <1>7 DEF Map_L2_PTable, L2Reached
    <2>2. PICK t \in free: /\ L2Entry.kind = "none"
                           /\ free' = free \ {t}
                           /\ mem' = [mem EXCEPT ![t] = Blank, ![u][j] = Table(t)]
                           /\ UNCHANGED <<l1, op, region, start, mapped, fault>>
        BY <1>7 DEF Map_L2_PTable
    <2>3. [mem EXCEPT ![t] = Blank] = mem
        BY <2>2, Names DEF Inv, Shape, Forest, Levels
    <2>4. mem' = [mem EXCEPT ![u][j] = Table(t)]
        BY <2>2, <2>3
    <2>5. Forest' /\ mem' \in [AllTables -> [Index -> Entry]]
        BY <1>1, <2>1, <2>2, <2>4, Reached, L2Link DEF Inv, L2Entry
    <2>6. Calls'
        BY <2>2 DEF Inv, Calls, End
    <2> QED BY <2>2, <2>5, <2>6 DEF Inv, Shape
<1>8. CASE Map_L3_Page /\ L3Entry.kind = "none"
    <2> DEFINE v == L2Entry.addr
               x == Index3(start)
    <2>1. L1Entry.kind = "table" /\ L2Entry.kind = "table" /\ SetL3(Page(Pa))
          /\ UNCHANGED <<l1, free>> /\ MapNext(1)
        BY <1>8 DEF Map_L3_Page, L2Reached
    <2>2. Forest' /\ mem' \in [AllTables -> [Index -> Entry]]
        <3>1. Page(Pa) \in Entry /\ Page(Pa).kind = "page"
            BY <1>1, Reached, LeafEntry
        <3>2. mem' = [mem EXCEPT ![v][x] = Page(Pa)] /\ mem[v][x].kind # "table"
            BY <1>8, <2>1 DEF SetL3, L3Entry
        <3>3. v \in AllTables \ free /\ ~InL1(v) /\ x \in Index
            BY <1>1, <2>1, Reached
        <3>4. ~(v = "core_ptable_l3" /\ x = Index3(SaturnPage))
            BY <1>1, <2>1, NotSaturns
        <3>5. Shape /\ Forest
            BY DEF Inv
        <3> HIDE DEF v, x
        <3> QED BY <2>1, <3>1, <3>2, <3>3, <3>4, <3>5, MemPlain
    <2>3. Calls' /\ op' \in {"idle", "map", "unmap", "free"} /\ start' \in Nat
        BY <1>1, <2>1, Moves DEF Inv
    <2> QED BY <2>1, <2>2, <2>3 DEF Inv, Shape
<1>9. CASE Map_L1_Block
    BY <1>2, <1>3, <1>4, <1>9, PageCounts DEF Map_L1_Block
<1>10. CASE Map_L1_PTable
    BY <1>2, <1>5, <1>10
<1>11. CASE Map_L2_Block
    BY <1>2, <1>3, <1>6, <1>11, PageCounts DEF Map_L2_Block, L2Reached
<1>12. CASE Map_L2_PTable
    BY <1>2, <1>7, <1>12
<1>13. CASE Map_L3_Page /\ L3Entry.kind # "none"
    BY <1>3, <1>13 DEF Map_L3_Page, tables
<1> QED BY <1>8, <1>9, <1>10, <1>11, <1>12, <1>13

LEMMA UnmapInv ==
    ASSUME Inv, UnmapL1Block \/ UnmapL2Block \/ UnmapL3Page PROVE Inv'
<1>1. op = "unmap"
    BY DEF UnmapL1Block, UnmapL2Block, UnmapL3Page, Unmapping
<1>2. None \in Entry /\ None.kind = "none"
    BY LeafEntry
<1>3. CASE Fail
    BY <1>3, FailInv
<1>4. CASE /\ L1Entry.kind = "block" /\ SetL1(None) /\ UNCHANGED mem /\ UnmapNext(L1Pages)
    <2>1. Forest' /\ l1' \in [Mmus -> [Index -> Entry]]
        <3> DEFINE m == region.mmu
                   i == Index1(start)
        <3>1. l1' = [l1 EXCEPT ![m][i] = None] /\ l1[m][i].kind # "table" /\ UNCHANGED <<mem, free>>
            BY <1>4 DEF SetL1, L1Entry, UnmapNext
        <3>2. m \in Mmus /\ i \in Index
            BY <1>1, Reached
        <3>3. Shape /\ Forest
            BY DEF Inv
        <3> HIDE DEF m, i
        <3> QED BY <1>2, <3>1, <3>2, <3>3, L1Plain
    <2>2. Calls' /\ op' \in {"idle", "map", "unmap", "free"} /\ start' \in Nat
        BY <1>1, <1>4, Moves, PageCounts DEF Inv
    <2> QED BY <1>4, <2>1, <2>2 DEF Inv, Shape, UnmapNext
<1>5. CASE /\ L1Entry.kind = "table" /\ L2Entry.kind = "block"
           /\ SetL2(None) /\ UNCHANGED l1 /\ UnmapNext(L2Pages)
    <2>1. Forest' /\ mem' \in [AllTables -> [Index -> Entry]]
        <3> DEFINE u == L1Entry.addr
                   j == Index2(start)
        <3>1. mem' = [mem EXCEPT ![u][j] = None] /\ mem[u][j].kind # "table" /\ UNCHANGED <<l1, free>>
            BY <1>5 DEF SetL2, L2Entry, UnmapNext
        <3>2. u \in AllTables \ free /\ j \in Index
            BY <1>1, <1>5, Reached
        <3>3. u # "core_ptable_l3"
            BY <1>1, <1>5, Reached, Names DEF Inv, Forest, Single, Boot, InMem
        <3>4. Shape /\ Forest
            BY DEF Inv
        <3> HIDE DEF u, j
        <3> QED BY <1>2, <3>1, <3>2, <3>3, <3>4, MemPlain
    <2>2. Calls' /\ op' \in {"idle", "map", "unmap", "free"} /\ start' \in Nat
        BY <1>1, <1>5, Moves, PageCounts DEF Inv
    <2> QED BY <1>5, <2>1, <2>2 DEF Inv, Shape, UnmapNext
<1>6. CASE /\ L1Entry.kind = "table" /\ L2Entry.kind = "table"
           /\ SetL3(None) /\ UNCHANGED l1 /\ UnmapNext(1)
    <2>1. Forest' /\ mem' \in [AllTables -> [Index -> Entry]]
        <3> DEFINE v == L2Entry.addr
                   x == Index3(start)
        <3>1. mem' = [mem EXCEPT ![v][x] = None] /\ mem[v][x].kind # "table" /\ UNCHANGED <<l1, free>>
            BY <1>1, <1>6, Reached DEF SetL3, L3Entry, UnmapNext
        <3>2. v \in AllTables \ free /\ x \in Index
            BY <1>1, <1>6, Reached
        <3>3. ~(v = "core_ptable_l3" /\ x = Index3(SaturnPage))
            BY <1>1, <1>6, NotSaturns
        <3>4. Shape /\ Forest
            BY DEF Inv
        <3> HIDE DEF v, x
        <3> QED BY <1>2, <3>1, <3>2, <3>3, <3>4, MemPlain
    <2>2. Calls' /\ op' \in {"idle", "map", "unmap", "free"} /\ start' \in Nat
        BY <1>1, <1>6, Moves DEF Inv
    <2> QED BY <1>6, <2>1, <2>2 DEF Inv, Shape, UnmapNext
<1>7. CASE UnmapL1Block
    BY <1>3, <1>4, <1>7 DEF UnmapL1Block
<1>8. CASE UnmapL2Block
    BY <1>3, <1>5, <1>8 DEF UnmapL2Block
<1>9. CASE UnmapL3Page
    BY <1>3, <1>6, <1>9 DEF UnmapL3Page
<1> QED BY <1>7, <1>8, <1>9

(* The shape of the tables, a call that stays inside its region and the forest go together:  *)
(* none of them is kept by every step without the others.                                    *)
THEOREM Invariance == Spec => []Inv
<1>1. Init => Inv
    <2> SUFFICES ASSUME Init PROVE Inv
        OBVIOUS
    <2> DEFINE c2 == "core_ptable_l2"
               c3 == "core_ptable_l3"
               s1 == Index1(SaturnPage)
               s2 == Index2(SaturnPage)
               s3 == Index3(SaturnPage)
    <2>1. \A m \in Mmus, i \in Index:
              l1[m][i] = IF m = "hyp" /\ i = s1 THEN Table(c2) ELSE None
        BY Names DEF Init, Blank
    <2>2. \A t \in AllTables, i \in Index:
              mem[t][i] = IF t = c2 /\ i = s2 THEN Table(c3)
                          ELSE IF t = c3 /\ i = s3 THEN Page(SaturnPage) ELSE None
        BY Names DEF Init, Blank
    <2>3. Shape
        <3>1. Blank \in [Index -> Entry]
            BY LeafEntry DEF Blank
        <3>2. Table(c2) \in Entry /\ Table(c3) \in Entry /\ Page(SaturnPage) \in Entry
            BY Names, TableEntry, LeafEntry
        <3>3. l1 \in [Mmus -> [Index -> Entry]]
            BY <3>1, <3>2 DEF Init
        <3>4. mem \in [AllTables -> [Index -> Entry]]
            BY <3>1, <3>2 DEF Init
        <3> QED BY <3>3, <3>4 DEF Init, Shape
    <2>4. None.kind = "none" /\ Page(SaturnPage).kind = "page"
        BY Names, LeafEntry
    <2>5. \A m \in Mmus, i \in Index, t \in AllTables:
              l1[m][i] = Table(t) <=> m = "hyp" /\ i = s1 /\ t = c2
        BY <2>1, <2>4, Names, TableEntry
    <2>6. \A u \in AllTables, i \in Index, t \in AllTables:
              mem[u][i] = Table(t) <=> u = c2 /\ i = s2 /\ t = c3
        BY <2>2, <2>4, Names, TableEntry
    <2>7. \A t \in AllTables: (InL1(t) <=> t = c2) /\ (InMem(t) <=> t = c3)
        BY <2>5, <2>6, Names DEF InL1, InMem
    <2>8. Referred
        BY <2>7, Names DEF Referred, Init, AllTables, BootTables
    <2>9. Single
        BY <2>5, <2>6, <2>7 DEF Single
    <2>10. Levels
        <3>1. \A t \in free: mem[t] = Blank
            BY Names DEF Init
        <3> QED BY <2>1, <2>2, <2>4, <2>6, <2>7, <3>1, Names, TableEntry DEF Levels
    <2>11. Boot
        BY <2>1, <2>2, <2>4, Names DEF Boot
    <2>12. Calls
        BY DEF Init, Calls
    <2> QED BY <2>3, <2>8, <2>9, <2>10, <2>11, <2>12 DEF Inv, Forest
<1>2. Inv /\ [Next]_vars => Inv'
    <2> SUFFICES ASSUME Inv, [Next]_vars PROVE Inv'
        OBVIOUS
    <2>1. ASSUME NEW r \in Regions, MemoryMap(r) \/ MemoryUnmap(r) PROVE Inv'
        <3>1. UNCHANGED <<l1, mem, free, mapped>> /\ region' = r /\ start' = r.va
              /\ ((op' = "map" /\ r \notin mapped) \/ (op' = "unmap" /\ r \in mapped))
            BY <2>1 DEF MemoryMap, MemoryUnmap, tables
        <3>2. Calls' /\ start' \in Nat
            BY <3>1, RegionType DEF Inv, Calls, End
        <3> QED BY <3>1, <3>2, TablesKept
    <2>2. CASE Map_L1_Block \/ Map_L1_PTable \/ Map_L2_Block \/ Map_L2_PTable \/ Map_L3_Page
        BY <2>2, MapInv
    <2>3. CASE UnmapL1Block \/ UnmapL2Block \/ UnmapL3Page
        BY <2>3, UnmapInv
    <2>4. CASE Free_Empty_Tables
        <3>1. region.mmu \in Mmus /\ op' = "idle" /\ start' = 0
            BY <2>4, RegionType DEF Free_Empty_Tables, Inv, Calls
        <3>2. Forest' /\ l1' \in [Mmus -> [Index -> Entry]] /\ mem' \in [AllTables -> [Index -> Entry]]
            BY <2>4, <3>1, Prune DEF Inv
        <3>3. free' \subseteq Tables /\ mapped' \subseteq Regions
            BY <2>4 DEF Free_Empty_Tables, Inv, Shape, Calls
        <3> QED BY <3>1, <3>2, <3>3 DEF Inv, Shape, Calls
    <2>5. CASE Halted \/ UNCHANGED vars
        <3>1. UNCHANGED <<l1, mem, free, op, region, start, mapped>>
            BY <2>5 DEF Halted, vars, tables
        <3> QED BY <3>1, TablesKept DEF Inv, Shape, Calls, End
    <2> QED BY <2>1, <2>2, <2>3, <2>4, <2>5 DEF Next
<1> QED BY <1>1, <1>2, PTL DEF Spec

(* Every table is referred to from one entry, or is blank and in the heap, whatever is       *)
(* mapped and unmapped, for tables of every size and every configuration of a board.         *)
THEOREM TablesFormForest == Spec => []TableForest
<1>1. Inv => TableForest
    <2> SUFFICES ASSUME Inv, NEW t \in AllTables
                 PROVE  /\ Cardinality(RefsOf(t)) = IF t \in free THEN 0 ELSE 1
                        /\ t \in free => mem[t] = Blank
        BY DEF TableForest
    <2> USE DEF Inv, Forest
    <2>1. CASE t \in free
        <3>1. RefsOf(t) = {}
            BY <2>1 DEF RefsOf, Referred, InL1, InMem, L1Places, L2Places
        <3> QED BY <2>1, <3>1, FS_EmptySet DEF Levels
    <2>2. CASE InL1(t)
        <3>1. PICK m \in Mmus, i \in Index: l1[m][i] = Table(t)
            BY <2>2 DEF InL1
        <3>2. ~InMem(t) /\ t \notin free
            BY <2>2 DEF Single, Referred
        <3>3. {x \in L2Places : mem[x.t][x.i] = Table(t)} = {}
            BY <3>2 DEF InMem, L2Places
        <3>4. {x \in L1Places : l1[x.mmu][x.i] = Table(t)} = {[mmu |-> m, i |-> i]}
            BY <3>1 DEF L1Places, Single
        <3>5. RefsOf(t) = {[mmu |-> m, i |-> i]}
            BY <3>3, <3>4 DEF RefsOf
        <3> QED BY <3>2, <3>5, FS_Singleton
    <2>3. CASE InMem(t)
        <3>1. PICK u \in AllTables, i \in Index: mem[u][i] = Table(t)
            BY <2>3 DEF InMem
        <3>2. ~InL1(t) /\ t \notin free
            BY <2>3 DEF Single, Referred
        <3>3. {x \in L1Places : l1[x.mmu][x.i] = Table(t)} = {}
            BY <3>2 DEF InL1, L1Places
        <3>4. {x \in L2Places : mem[x.t][x.i] = Table(t)} = {[t |-> u, i |-> i]}
            BY <3>1 DEF L2Places, Single
        <3>5. RefsOf(t) = {[t |-> u, i |-> i]}
            BY <3>3, <3>4 DEF RefsOf
        <3> QED BY <3>2, <3>5, FS_Singleton
    <2> QED BY <2>1, <2>2, <2>3 DEF Referred
<1> QED BY <1>1, Invariance, PTL

-----------------------------------------------------------------------------
(* The walk of the hardware, over any two arrays. *)
Page1(e, p) == (e.addr \div Entries) * L1Pages + (p % L1Pages)
Page2(f, p) == f.addr * L2Pages + (p % L2Pages)

PageOf(e, f, g, p) ==
    CASE e.kind = "block" -> Page1(e, p)
      [] e.kind = "table" /\ f.kind = "block" -> Page2(f, p)
      [] e.kind = "table" /\ f.kind = "table" /\ g.kind = "page" -> g.addr
      [] OTHER -> NotMapped

E1(L, m, p)    == L[m][Index1(p)]
E2(L, M, m, p) == M[E1(L, m, p).addr][Index2(p)]
E3(L, M, m, p) == M[E2(L, M, m, p).addr][Index3(p)]

WalkOf(L, M, m, p) == PageOf(E1(L, m, p), E2(L, M, m, p), E3(L, M, m, p), p)

LEMMA PageIs ==
    ASSUME NEW e, NEW f, NEW g, NEW p
    PROVE  /\ e.kind = "none" => PageOf(e, f, g, p) = NotMapped
           /\ e.kind = "block" => PageOf(e, f, g, p) = Page1(e, p)
           /\ e.kind = "table" /\ f.kind = "none" => PageOf(e, f, g, p) = NotMapped
           /\ e.kind = "table" /\ f.kind = "block" => PageOf(e, f, g, p) = Page2(f, p)
           /\ e.kind = "table" /\ f.kind = "table" =>
                 PageOf(e, f, g, p) = IF g.kind = "page" THEN g.addr ELSE NotMapped
BY DEF PageOf

(* Two walks that meet the same entries end in the same page. *)
LEMMA PageSame ==
    ASSUME NEW e, NEW f, NEW g, NEW h, NEW q, NEW p,
           e.kind = "table" => f = h /\ (f.kind = "table" => g = q)
    PROVE  PageOf(e, f, g, p) = PageOf(e, h, q, p)
<1>1. CASE e.kind # "table"
    BY <1>1 DEF PageOf
<1>2. CASE e.kind = "table" /\ f.kind # "table"
    BY <1>2 DEF PageOf
<1>3. CASE e.kind = "table" /\ f.kind = "table"
    BY <1>3
<1> QED BY <1>1, <1>2, <1>3

(* What a walk meets on its way. *)
LEMMA PathIs ==
    ASSUME Inv, NEW m \in Mmus, NEW p \in Pages
    PROVE  /\ Index1(p) \in Index /\ Index2(p) \in Index /\ Index3(p) \in Index
           /\ E1(l1, m, p) \in Entry /\ E1(l1, m, p).kind # "page"
           /\ E1(l1, m, p).kind = "table" =>
                 /\ E1(l1, m, p).addr \in AllTables
                 /\ E1(l1, m, p) = Table(E1(l1, m, p).addr) /\ InL1(E1(l1, m, p).addr)
                 /\ E2(l1, mem, m, p) \in Entry /\ E2(l1, mem, m, p).kind # "page"
                 /\ E2(l1, mem, m, p).kind = "table" =>
                       /\ E2(l1, mem, m, p).addr \in AllTables
                       /\ E2(l1, mem, m, p) = Table(E2(l1, mem, m, p).addr)
                       /\ InMem(E2(l1, mem, m, p).addr)
<1> DEFINE e == E1(l1, m, p)
           f == E2(l1, mem, m, p)
<1> USE DEF Inv, Forest
<1>1. Index1(p) \in Index /\ Index2(p) \in Index /\ Index3(p) \in Index
    BY IndexBlocks, IndexType
<1>2. e \in Entry /\ e.kind # "page"
    BY <1>1 DEF Shape, Levels, E1
<1>3. ASSUME e.kind = "table"
      PROVE  /\ e.addr \in AllTables /\ e = Table(e.addr) /\ InL1(e.addr)
             /\ f \in Entry /\ f.kind # "page"
    <2>1. e.addr \in AllTables /\ e = Table(e.addr)
        BY <1>2, <1>3, EntryKinds
    <2>2. InL1(e.addr)
        BY <1>1, <2>1 DEF InL1, E1
    <2>3. f = mem[e.addr][Index2(p)]
        BY DEF E2
    <2> QED BY <1>1, <2>1, <2>2, <2>3 DEF Shape, Levels
<1>4. ASSUME e.kind = "table", f.kind = "table"
      PROVE  f.addr \in AllTables /\ f = Table(f.addr) /\ InMem(f.addr)
    <2>1. f.addr \in AllTables /\ f = Table(f.addr)
        BY <1>3, <1>4, EntryKinds
    <2>2. f = mem[e.addr][Index2(p)]
        BY DEF E2
    <2> QED BY <1>1, <1>3, <1>4, <2>1, <2>2 DEF InMem
<1> QED BY <1>1, <1>2, <1>3, <1>4

(* This is the walk of Mmu. *)
LEMMA WalkIs ==
    ASSUME Inv, NEW m \in Mmus, NEW p \in Pages
    PROVE  Walk(m, p) = WalkOf(l1, mem, m, p)
<1> DEFINE e == E1(l1, m, p)
           f == E2(l1, mem, m, p)
           g == E3(l1, mem, m, p)
<1>1. e.kind \in {"none", "block", "table"}
    BY PathIs, EntryKinds
<1>2. e.kind = "table" => f.kind \in {"none", "block", "table"}
    BY PathIs, EntryKinds
<1>3. Walk(m, p) = WalkL1(e, p)
    BY DEF Walk, E1
<1>4. e.kind = "table" => WalkL1(e, p) = WalkL2(f, p)
    BY DEF WalkL1, E1, E2
<1>5. f.kind = "table" => WalkL2(f, p) = IF g.kind = "page" THEN g.addr ELSE NotMapped
    BY DEF WalkL2, WalkL3, E2, E3
<1>6. /\ e.kind = "none" => WalkL1(e, p) = NotMapped
      /\ e.kind = "block" => WalkL1(e, p) = Page1(e, p)
    BY DEF WalkL1, Page1
<1>7. /\ f.kind = "none" => WalkL2(f, p) = NotMapped
      /\ f.kind = "block" => WalkL2(f, p) = Page2(f, p)
    BY DEF WalkL2, Page2
<1>8. WalkOf(l1, mem, m, p) = PageOf(e, f, g, p)
    BY DEF WalkOf
<1> HIDE DEF e, f, g
<1> QED BY <1>1, <1>2, <1>3, <1>4, <1>5, <1>6, <1>7, <1>8, PageIs

-----------------------------------------------------------------------------
(* What a step does: it sets an entry on the path of the page the call is at, puts a blank   *)
(* table in, frees the empty ones, finds an entry that is there already, or leaves the tables *)
(* alone.                                                                                     *)
SetsL1 ==
    /\ op \in {"map", "unmap"}
    /\ \E e \in Entry:
          /\ \/ /\ op = "map" /\ Fits(L1Pages) /\ MapNext(L1Pages)
                /\ e = Block(Pa \div L1Pages) /\ L1Entry.kind = "none"
             \/ op = "unmap" /\ UnmapNext(L1Pages) /\ e = None /\ L1Entry.kind = "block"
          /\ l1' = [l1 EXCEPT ![region.mmu][Index1(start)] = e]
          /\ mem' = mem

SetsL2 ==
    /\ op \in {"map", "unmap"} /\ L1Entry.kind = "table"
    /\ \E e \in Entry:
          /\ \/ /\ op = "map" /\ Fits(L2Pages) /\ MapNext(L2Pages)
                /\ e = Block(Pa \div L2Pages) /\ L2Entry.kind = "none"
             \/ op = "unmap" /\ UnmapNext(L2Pages) /\ e = None /\ L2Entry.kind = "block"
          /\ l1' = l1
          /\ mem' = [mem EXCEPT ![L1Entry.addr][Index2(start)] = e]

SetsL3 ==
    /\ op \in {"map", "unmap"} /\ L1Entry.kind = "table" /\ L2Entry.kind = "table"
    /\ \E e \in Entry:
          /\ \/ op = "map" /\ MapNext(1) /\ e = Page(Pa)
             \/ op = "unmap" /\ UnmapNext(1) /\ e = None
          /\ l1' = l1
          /\ mem' = [mem EXCEPT ![L2Entry.addr][Index3(start)] = e]

LinksL1 ==
    /\ op = "map" /\ ~Fits(L1Pages) /\ L1Entry.kind = "none"
    /\ \E t \in free: l1' = [l1 EXCEPT ![region.mmu][Index1(start)] = Table(t)]
    /\ mem' = mem
    /\ UNCHANGED <<op, region, start, mapped>>

LinksL2 ==
    /\ op = "map" /\ ~Fits(L2Pages) /\ L1Entry.kind = "table" /\ L2Entry.kind = "none"
    /\ l1' = l1
    /\ \E t \in free: mem' = [mem EXCEPT ![L1Entry.addr][Index2(start)] = Table(t)]
    /\ UNCHANGED <<op, region, start, mapped>>

Prunes == region.mmu \in Mmus /\ Free_Empty_Tables

Finds ==
    /\ op = "map" /\ UNCHANGED <<l1, mem>>
    /\ \/ L1Entry.kind = "block"
       \/ L1Entry.kind = "table" /\ L2Entry.kind = "block"
       \/ L1Entry.kind = "table" /\ L2Entry.kind = "table" /\ L3Entry.kind = "page"

Starts == \E r \in Regions: MemoryMap(r) \/ MemoryUnmap(r)

Stays == UNCHANGED <<l1, mem, free, op, region, start, mapped>>

LEMMA Steps ==
    ASSUME Inv, [Next]_vars
    PROVE  SetsL1 \/ SetsL2 \/ SetsL3 \/ LinksL1 \/ LinksL2 \/ Prunes \/ Finds \/ Starts \/ Stays
<1> USE DEF Mapping, Unmapping, L2Reached, tables
<1>1. op \in {"map", "unmap"} => Pa \in Nat
    BY Reached
<1>2. None \in Entry /\ None.kind = "none"
    BY LeafEntry
<1>3. ASSUME Fail PROVE Stays
    BY <1>3 DEF Fail, Stays
<1>4. CASE Map_L1_Block
    <2>1. op = "map" => Pa \div L1Pages \in Nat
        BY <1>1, PageCounts, DivMod
    <2> QED BY <1>3, <1>4, <2>1, LeafEntry DEF Map_L1_Block, SetL1, SetsL1, Finds
<1>5. CASE Map_L1_PTable
    <2>1. CASE L1Entry.kind = "none" /\ ~Fail
        <3>1. PICK t \in free: mem' = [mem EXCEPT ![t] = Blank] /\ SetL1(Table(t))
                               /\ UNCHANGED <<op, region, start, mapped, fault>>
            BY <1>5, <2>1 DEF Map_L1_PTable
        <3>2. mem' = mem
            BY <3>1, Names DEF Inv, Shape, Forest, Levels
        <3> QED BY <1>5, <2>1, <3>1, <3>2 DEF Map_L1_PTable, SetL1, LinksL1
    <2>2. Fail \/ L1Entry.kind = "none"
        BY <1>5 DEF Map_L1_PTable
    <2> QED BY <1>3, <2>1, <2>2
<1>6. CASE Map_L2_Block
    <2>1. op = "map" => Pa \div L2Pages \in Nat
        BY <1>1, PageCounts, DivMod
    <2> QED BY <1>3, <1>6, <2>1, LeafEntry DEF Map_L2_Block, SetL2, SetsL2, Finds
<1>7. CASE Map_L2_PTable
    <2>1. CASE L2Entry.kind = "none" /\ ~Fail
        <3>1. PICK t \in free: /\ mem' = [mem EXCEPT ![t] = Blank, ![L1Entry.addr][Index2(start)] = Table(t)]
                               /\ UNCHANGED <<l1, op, region, start, mapped, fault>>
            BY <1>7, <2>1 DEF Map_L2_PTable
        <3>2. [mem EXCEPT ![t] = Blank] = mem
            BY <3>1, Names DEF Inv, Shape, Forest, Levels
        <3>3. mem' = [mem EXCEPT ![L1Entry.addr][Index2(start)] = Table(t)]
            BY <3>1, <3>2
        <3> QED BY <1>7, <2>1, <3>1, <3>3 DEF Map_L2_PTable, LinksL2
    <2>2. Fail \/ L2Entry.kind = "none"
        BY <1>7 DEF Map_L2_PTable
    <2> QED BY <1>3, <2>1, <2>2
<1>8. CASE Map_L3_Page
    <2>1. CASE L3Entry.kind = "none"
        BY <1>1, <1>8, <2>1, LeafEntry DEF Map_L3_Page, SetL3, SetsL3
    <2>2. CASE L3Entry.kind # "none"
        <3>1. op = "map" /\ L1Entry.kind = "table" /\ L2Entry.kind = "table" /\ UNCHANGED <<l1, mem>>
            BY <1>8, <2>2 DEF Map_L3_Page
        <3>2. L3Entry.kind = "page"
            BY <2>2, <3>1, Reached, EntryKinds
        <3> QED BY <3>1, <3>2 DEF Finds
    <2> QED BY <2>1, <2>2
<1>9. CASE UnmapL1Block
    BY <1>2, <1>3, <1>9 DEF UnmapL1Block, SetL1, SetsL1
<1>10. CASE UnmapL2Block
    BY <1>2, <1>3, <1>10 DEF UnmapL2Block, SetL2, SetsL2
<1>11. CASE UnmapL3Page
    BY <1>2, <1>3, <1>11 DEF UnmapL3Page, SetL3, SetsL3
<1>12. CASE Free_Empty_Tables
    BY <1>12, RegionType DEF Free_Empty_Tables, Inv, Calls, Prunes
<1>13. CASE \E r \in Regions: MemoryMap(r) \/ MemoryUnmap(r)
    BY <1>13 DEF Starts
<1>14. CASE Halted \/ UNCHANGED vars
    BY <1>14 DEF Halted, vars, Stays
<1> QED BY <1>4, <1>5, <1>6, <1>7, <1>8, <1>9, <1>10, <1>11, <1>12, <1>13, <1>14 DEF Next

(* An entry that is set changes the walks of its block alone. *)
LEMMA WalkL1Set ==
    ASSUME Inv, SetsL1, NEW n \in Mmus, NEW p \in Pages,
           ~(n = region.mmu /\ Index1(p) = Index1(start))
    PROVE  WalkOf(l1', mem', n, p) = WalkOf(l1, mem, n, p)
<1>1. Index1(p) \in Index
    BY PathIs
<1>2. E1(l1', n, p) = E1(l1, n, p)
    BY <1>1 DEF Inv, Shape, E1, SetsL1
<1> QED BY <1>2 DEF WalkOf, E2, E3, SetsL1

LEMMA WalkL2Set ==
    ASSUME Inv, SetsL2, NEW n \in Mmus, NEW p \in Pages,
           ~(n = region.mmu /\ Index1(p) = Index1(start) /\ Index2(p) = Index2(start))
    PROVE  WalkOf(l1', mem', n, p) = WalkOf(l1, mem, n, p)
<1> DEFINE a == E1(l1, n, p)
           b == E2(l1, mem, n, p)
           m == region.mmu
           i == Index1(start)
           j == Index2(start)
           u == L1Entry.addr
<1>1. ~(n = m /\ Index1(p) = i /\ Index2(p) = j)
    OBVIOUS
<1>2. m \in Mmus /\ i \in Index /\ j \in Index /\ u \in AllTables /\ l1[m][i] = Table(u)
    BY Reached DEF SetsL2, L1Entry
<1>3. PICK e \in Entry: l1' = l1 /\ mem' = [mem EXCEPT ![u][j] = e]
    BY DEF SetsL2
<1>4. /\ Index1(p) \in Index /\ Index2(p) \in Index /\ Index3(p) \in Index
      /\ a.kind = "table" => a.addr \in AllTables /\ a = Table(a.addr)
      /\ a.kind = "table" /\ b.kind = "table" => b.addr \in AllTables /\ InMem(b.addr)
    BY PathIs
<1>5. /\ a = l1[n][Index1(p)] /\ E1(l1', n, p) = a
      /\ b = mem[a.addr][Index2(p)] /\ E2(l1', mem', n, p) = mem'[a.addr][Index2(p)]
      /\ E3(l1, mem, n, p) = mem[b.addr][Index3(p)]
      /\ E2(l1', mem', n, p) = b => E3(l1', mem', n, p) = mem'[b.addr][Index3(p)]
    <2>1. l1' = l1
        BY <1>3
    <2> QED BY <2>1, SMTT(30) DEF E1, E2, E3
<1>6. /\ WalkOf(l1', mem', n, p) = PageOf(a, E2(l1', mem', n, p), E3(l1', mem', n, p), p)
      /\ WalkOf(l1, mem, n, p) = PageOf(a, b, E3(l1, mem, n, p), p)
    BY <1>5 DEF WalkOf
<1> HIDE DEF a, b, m, i, j, u
<1>7. \A t \in AllTables, k \in Index: ~(t = u /\ k = j) => mem'[t][k] = mem[t][k]
    BY <1>2, <1>3 DEF Inv, Shape
<1>8. ~InMem(u)
    <2>1. InL1(u)
        BY <1>2, SMTT(30) DEF InL1
    <2> QED BY <1>2, <2>1 DEF Inv, Forest, Single
<1>9. a.kind = "table" => E2(l1', mem', n, p) = b
    <2> SUFFICES ASSUME a.kind = "table" PROVE E2(l1', mem', n, p) = b
        OBVIOUS
    <2>1. a.addr = u => n = m /\ Index1(p) = i
        <3>1. a.addr = u => l1[n][Index1(p)] = Table(u)
            BY <1>4, <1>5
        <3> QED BY <1>2, <1>4, <3>1 DEF Inv, Forest, Single
    <2>2. a.addr \in AllTables /\ Index2(p) \in Index /\ ~(a.addr = u /\ Index2(p) = j)
        BY <1>1, <1>4, <2>1
    <2>3. mem'[a.addr][Index2(p)] = mem[a.addr][Index2(p)]
        BY <1>7, <2>2, SMTT(30)
    <2> QED BY <1>5, <2>3
<1>10. a.kind = "table" /\ b.kind = "table" => E3(l1', mem', n, p) = E3(l1, mem, n, p)
    <2> SUFFICES ASSUME a.kind = "table", b.kind = "table"
                 PROVE  E3(l1', mem', n, p) = E3(l1, mem, n, p)
        OBVIOUS
    <2>1. b.addr \in AllTables /\ b.addr # u
        BY <1>4, <1>8
    <2>2. mem'[b.addr][Index3(p)] = mem[b.addr][Index3(p)]
        BY <1>4, <1>7, <2>1
    <2> QED BY <1>5, <1>9, <2>2
<1> QED BY <1>6, <1>9, <1>10, PageSame

LEMMA WalkL3Set ==
    ASSUME Inv, SetsL3, NEW n \in Mmus, NEW p \in Pages,
           ~(n = region.mmu /\ Index1(p) = Index1(start) /\ Index2(p) = Index2(start)
             /\ Index3(p) = Index3(start))
    PROVE  WalkOf(l1', mem', n, p) = WalkOf(l1, mem, n, p)
<1> DEFINE a == E1(l1, n, p)
           b == E2(l1, mem, n, p)
           m == region.mmu
           i == Index1(start)
           j == Index2(start)
           k == Index3(start)
           u == L1Entry.addr
           v == L2Entry.addr
<1>1. ~(n = m /\ Index1(p) = i /\ Index2(p) = j /\ Index3(p) = k)
    OBVIOUS
<1>2. /\ m \in Mmus /\ i \in Index /\ j \in Index /\ k \in Index
      /\ u \in AllTables /\ v \in AllTables
      /\ l1[m][i] = Table(u) /\ mem[u][j] = Table(v)
    <2>1. /\ m \in Mmus /\ i \in Index /\ j \in Index /\ k \in Index
          /\ u \in AllTables /\ L1Entry = Table(u) /\ v \in AllTables /\ L2Entry = Table(v)
        BY Reached DEF SetsL3
    <2> QED BY <2>1 DEF L1Entry, L2Entry
<1>3. PICK e \in Entry: l1' = l1 /\ mem' = [mem EXCEPT ![v][k] = e]
    BY DEF SetsL3
<1>4. /\ Index1(p) \in Index /\ Index2(p) \in Index /\ Index3(p) \in Index
      /\ a.kind = "table" => a.addr \in AllTables /\ a = Table(a.addr) /\ InL1(a.addr)
      /\ a.kind = "table" /\ b.kind = "table" => b.addr \in AllTables /\ b = Table(b.addr)
    BY PathIs
<1>5. /\ a = l1[n][Index1(p)] /\ E1(l1', n, p) = a
      /\ b = mem[a.addr][Index2(p)] /\ E2(l1', mem', n, p) = mem'[a.addr][Index2(p)]
      /\ E3(l1, mem, n, p) = mem[b.addr][Index3(p)]
      /\ E2(l1', mem', n, p) = b => E3(l1', mem', n, p) = mem'[b.addr][Index3(p)]
    <2>1. l1' = l1
        BY <1>3
    <2> QED BY <2>1, SMTT(30) DEF E1, E2, E3
<1>6. /\ WalkOf(l1', mem', n, p) = PageOf(a, E2(l1', mem', n, p), E3(l1', mem', n, p), p)
      /\ WalkOf(l1, mem, n, p) = PageOf(a, b, E3(l1, mem, n, p), p)
    BY <1>5 DEF WalkOf
<1> HIDE DEF a, b, m, i, j, k, u, v
<1>7. \A t \in AllTables, x \in Index: ~(t = v /\ x = k) => mem'[t][x] = mem[t][x]
    BY <1>2, <1>3 DEF Inv, Shape
<1>8. ~InL1(v)
    <2>1. InMem(v)
        BY <1>2, SMTT(30) DEF InMem
    <2> QED BY <1>2, <2>1 DEF Inv, Forest, Single
<1>9. a.kind = "table" => E2(l1', mem', n, p) = b
    <2> SUFFICES ASSUME a.kind = "table" PROVE E2(l1', mem', n, p) = b
        OBVIOUS
    <2>1. a.addr \in AllTables /\ a.addr # v /\ Index2(p) \in Index
        BY <1>4, <1>8
    <2>2. mem'[a.addr][Index2(p)] = mem[a.addr][Index2(p)]
        BY <1>7, <2>1, SMTT(30)
    <2> QED BY <1>5, <2>2
<1>10. a.kind = "table" /\ b.kind = "table" => E3(l1', mem', n, p) = E3(l1, mem, n, p)
    <2> SUFFICES ASSUME a.kind = "table", b.kind = "table"
                 PROVE  E3(l1', mem', n, p) = E3(l1, mem, n, p)
        OBVIOUS
    <2>1. b.addr = v => a.addr = u /\ Index2(p) = j
        <3>1. b.addr = v => mem[a.addr][Index2(p)] = Table(v)
            BY <1>4, <1>5
        <3> QED BY <1>2, <1>4, <3>1 DEF Inv, Forest, Single
    <2>2. a.addr = u => n = m /\ Index1(p) = i
        <3>1. a.addr = u => l1[n][Index1(p)] = Table(u)
            BY <1>4, <1>5
        <3> QED BY <1>2, <1>4, <3>1 DEF Inv, Forest, Single
    <2>3. mem'[b.addr][Index3(p)] = mem[b.addr][Index3(p)]
        BY <1>1, <1>4, <1>7, <2>1, <2>2
    <2> QED BY <1>5, <1>9, <2>3
<1> QED BY <1>6, <1>9, <1>10, PageSame

(* A blank table from the heap changes no walk. *)
LEMMA WalkL1Link ==
    ASSUME Inv, NEW m \in Mmus, NEW i \in Index, l1[m][i].kind = "none", NEW t \in free,
           l1' = [l1 EXCEPT ![m][i] = Table(t)], mem' = mem, NEW n \in Mmus, NEW p \in Pages
    PROVE  WalkOf(l1', mem', n, p) = WalkOf(l1, mem, n, p)
<1>1. Index1(p) \in Index /\ Index2(p) \in Index
    BY PathIs
<1>2. E1(l1', n, p) = IF n = m /\ Index1(p) = i THEN Table(t) ELSE E1(l1, n, p)
    BY <1>1 DEF Inv, Shape, E1
<1>3. CASE n = m /\ Index1(p) = i
    <2>1. t \in AllTables /\ mem[t] = Blank
        BY Names DEF Inv, Shape, Forest, Levels
    <2>2. E1(l1', n, p).kind = "table" /\ E1(l1', n, p).addr = t
        BY <1>2, <1>3, <2>1, TableEntry
    <2>3. E2(l1', mem', n, p).kind = "none"
        BY <1>1, <2>1, <2>2, LeafEntry DEF Blank, E2
    <2>4. E1(l1, n, p).kind = "none"
        BY <1>3 DEF E1
    <2> QED BY <2>2, <2>3, <2>4, PageIs DEF WalkOf
<1>4. CASE ~(n = m /\ Index1(p) = i)
    BY <1>2, <1>4 DEF WalkOf, E2, E3
<1> QED BY <1>3, <1>4

LEMMA WalkL2Link ==
    ASSUME Inv, NEW u \in AllTables, InL1(u), NEW j \in Index, mem[u][j].kind = "none", NEW t \in free,
           l1' = l1, mem' = [mem EXCEPT ![u][j] = Table(t)], NEW n \in Mmus, NEW p \in Pages
    PROVE  WalkOf(l1', mem', n, p) = WalkOf(l1, mem, n, p)
<1> DEFINE a == E1(l1, n, p)
           b == E2(l1, mem, n, p)
<1>1. /\ Index1(p) \in Index /\ Index2(p) \in Index /\ Index3(p) \in Index
      /\ a.kind \in {"none", "block", "table"}
      /\ a.kind = "table" => a.addr \in AllTables
      /\ a.kind = "table" => b.kind \in {"none", "block", "table"}
      /\ a.kind = "table" /\ b.kind = "table" => b.addr \in AllTables /\ InMem(b.addr)
    BY PathIs, EntryKinds
<1>2. t \in AllTables /\ mem[t] = Blank /\ u # t /\ ~InMem(u)
    BY Names DEF Inv, Shape, Forest, Levels, Referred, Single
<1>3. \A v \in AllTables, x \in Index: mem'[v][x] = IF v = u /\ x = j THEN Table(t) ELSE mem[v][x]
    BY DEF Inv, Shape
<1>4. /\ E1(l1', n, p) = a
      /\ b = mem[a.addr][Index2(p)] /\ E2(l1', mem', n, p) = mem'[a.addr][Index2(p)]
      /\ E3(l1, mem, n, p) = mem[b.addr][Index3(p)]
      /\ E3(l1', mem', n, p) = mem'[E2(l1', mem', n, p).addr][Index3(p)]
    BY DEF E1, E2, E3
<1>5. /\ WalkOf(l1', mem', n, p) = PageOf(a, E2(l1', mem', n, p), E3(l1', mem', n, p), p)
      /\ WalkOf(l1, mem, n, p) = PageOf(a, b, E3(l1, mem, n, p), p)
    BY <1>4 DEF WalkOf
<1> HIDE DEF a, b
<1>6. CASE a.kind # "table"
    BY <1>5, <1>6, PageSame
<1>7. CASE a.kind = "table" /\ a.addr = u /\ Index2(p) = j
    <2>1. E2(l1', mem', n, p) = Table(t)
        BY <1>1, <1>3, <1>4, <1>7
    <2>2. E3(l1', mem', n, p) = None
        <3>1. E3(l1', mem', n, p) = mem'[t][Index3(p)]
            BY <1>2, <1>4, <2>1, TableEntry
        <3>2. mem[t][Index3(p)] = None
            BY <1>1, <1>2 DEF Blank
        <3> QED BY <1>1, <1>2, <1>3, <3>1, <3>2
    <2>3. None.kind = "none" /\ b.kind = "none"
        BY <1>4, <1>7, LeafEntry
    <2> QED BY <1>2, <1>5, <1>7, <2>1, <2>2, <2>3, TableEntry, PageIs
<1>8. CASE a.kind = "table" /\ ~(a.addr = u /\ Index2(p) = j)
    <2>1. E2(l1', mem', n, p) = b
        BY <1>1, <1>3, <1>4, <1>8
    <2>2. b.kind = "table" => E3(l1', mem', n, p) = E3(l1, mem, n, p)
        BY <1>1, <1>2, <1>3, <1>4, <1>8, <2>1
    <2> QED BY <1>5, <1>8, <2>1, <2>2, PageSame
<1> QED BY <1>6, <1>7, <1>8

LEMMA WalkLink ==
    ASSUME Inv, LinksL1 \/ LinksL2, NEW n \in Mmus, NEW p \in Pages
    PROVE  WalkOf(l1', mem', n, p) = WalkOf(l1, mem, n, p)
<1>1. region.mmu \in Mmus /\ Index1(start) \in Index /\ Index2(start) \in Index
    BY Reached DEF LinksL1, LinksL2
<1>2. CASE LinksL1
    <2>1. l1[region.mmu][Index1(start)].kind = "none" /\ mem' = mem
        BY <1>2 DEF LinksL1, L1Entry
    <2>2. PICK t \in free: l1' = [l1 EXCEPT ![region.mmu][Index1(start)] = Table(t)]
        BY <1>2 DEF LinksL1
    <2> QED BY <1>1, <2>1, <2>2, WalkL1Link
<1>3. CASE LinksL2
    <2>1. /\ L1Entry.addr \in AllTables /\ InL1(L1Entry.addr)
          /\ mem[L1Entry.addr][Index2(start)].kind = "none" /\ l1' = l1
        BY <1>3, Reached DEF LinksL2, L2Entry
    <2>2. PICK t \in free: mem' = [mem EXCEPT ![L1Entry.addr][Index2(start)] = Table(t)]
        BY <1>3 DEF LinksL2
    <2> QED BY <1>1, <2>1, <2>2, WalkL2Link
<1> QED BY <1>2, <1>3

(* Nor does Free_Empty_Tables. *)
LEMMA WalkPrune ==
    ASSUME Inv, region.mmu \in Mmus, Free_Empty_Tables, NEW n \in Mmus, NEW p \in Pages
    PROVE  WalkOf(l1', mem', n, p) = WalkOf(l1, mem, n, p)
<1> DEFINE a == E1(l1, n, p)
           b == E2(l1, mem, n, p)
           c == E3(l1, mem, n, p)
           x == E1(l1', n, p)
           y == E2(l1', mem', n, p)
           z == E3(l1', mem', n, p)
<1>1. /\ Index1(p) \in Index /\ Index2(p) \in Index /\ Index3(p) \in Index
      /\ a.kind \in {"none", "block", "table"}
      /\ a.kind = "table" => a.addr \in AllTables /\ a = Table(a.addr)
      /\ a.kind = "table" => b.kind \in {"none", "block", "table"}
      /\ a.kind = "table" /\ b.kind = "table" => b.addr \in AllTables /\ InMem(b.addr)
    BY PathIs, EntryKinds
<1>2. \A i \in Index: l1'[n][i] = IF n = region.mmu /\ i \in EmptyL2 THEN None ELSE l1[n][i]
    BY DEF Free_Empty_Tables, Inv, Shape
<1>3. \A u \in AllTables: mem'[u] = IF u \in L2Tables THEN L2After(u) ELSE mem[u]
    BY DEF Free_Empty_Tables, L2Tables
<1>4. None.kind = "none"
    BY LeafEntry
<1>5. a = l1[n][Index1(p)] /\ x = l1'[n][Index1(p)]
    BY DEF E1
<1>6. b = mem[a.addr][Index2(p)] /\ y = mem'[x.addr][Index2(p)]
    BY DEF E2
<1>7. c = mem[b.addr][Index3(p)] /\ z = mem'[y.addr][Index3(p)]
    BY DEF E3
<1>8. WalkOf(l1, mem, n, p) = PageOf(a, b, c, p) /\ WalkOf(l1', mem', n, p) = PageOf(x, y, z, p)
    BY DEF WalkOf
<1> HIDE DEF a, b, c, x, y, z
<1>9. a.kind = "table" /\ b.kind = "table" => mem'[b.addr] = mem[b.addr]
    BY <1>1, <1>3, PruneFacts DEF InL1, Inv, Forest, Single
<1>10. a.kind = "table" =>
           \/ mem'[a.addr][Index2(p)] = b
           \/ mem'[a.addr][Index2(p)] = None /\ b.kind = "table" /\ c = None
    <2> SUFFICES ASSUME a.kind = "table", mem'[a.addr][Index2(p)] # b
                 PROVE  mem'[a.addr][Index2(p)] = None /\ b.kind = "table" /\ c = None
        OBVIOUS
    <2>1. a.addr \in AllTables
        BY <1>1
    <2>2. a.addr \in L2Tables
        BY <1>3, <1>6, <2>1
    <2>3. mem'[a.addr][Index2(p)] = IF Index2(p) \in EmptyL3(a.addr) THEN None ELSE b
        BY <1>1, <1>3, <1>6, <2>1, <2>2, PruneFacts DEF Inv
    <2>4. Index2(p) \in EmptyL3(a.addr) /\ mem'[a.addr][Index2(p)] = None
        BY <2>3
    <2>5. b.kind = "table" /\ mem[b.addr] = Blank
        BY <1>6, <2>4 DEF EmptyL3
    <2>6. c = None
        BY <1>1, <1>7, <2>5 DEF Blank
    <2> QED BY <2>4, <2>5, <2>6
<1>11. CASE ~(n = region.mmu /\ Index1(p) \in EmptyL2)
    <2>1. x = a
        BY <1>1, <1>2, <1>5, <1>11
    <2>2. CASE a.kind # "table"
        BY <1>1, <1>8, <2>1, <2>2, PageIs
    <2>3. CASE a.kind = "table" /\ mem'[a.addr][Index2(p)] = b
        <3>1. y = b
            BY <1>6, <2>1, <2>3
        <3>2. b.kind = "table" => z = c
            BY <1>7, <1>9, <2>3, <3>1
        <3> QED BY <1>1, <1>8, <2>1, <2>3, <3>1, <3>2, PageIs
    <2>4. CASE a.kind = "table" /\ mem'[a.addr][Index2(p)] = None /\ b.kind = "table" /\ c = None
        <3>1. y = None
            BY <1>6, <2>1, <2>4
        <3> QED BY <1>4, <1>8, <2>1, <2>4, <3>1, PageIs
    <2> QED BY <1>10, <2>2, <2>3, <2>4
<1>12. CASE n = region.mmu /\ Index1(p) \in EmptyL2
    <2>1. x = None
        BY <1>1, <1>2, <1>5, <1>12
    <2>2. WalkOf(l1', mem', n, p) = NotMapped
        BY <1>4, <1>8, <2>1, PageIs
    <2>3. a.kind = "table" /\ L2After(a.addr) = Blank /\ a.addr \in L2Tables
        BY <1>5, <1>12 DEF EmptyL2, L1Tables, L2Of, L2Tables
    <2>4. mem'[a.addr][Index2(p)] = None
        BY <1>1, <1>3, <2>3 DEF Blank
    <2>5. CASE b = None
        BY <1>4, <1>8, <2>2, <2>3, <2>5, PageIs
    <2>6. CASE b.kind = "table" /\ c = None
        BY <1>4, <1>8, <2>2, <2>3, <2>6, PageIs
    <2> QED BY <1>10, <2>3, <2>4, <2>5, <2>6
<1> QED BY <1>11, <1>12

-----------------------------------------------------------------------------
(***************************************************************************)
(* A call to MemoryUnmap takes away the block it finds, whatever its size: *)
(* that this stays inside its region is because a block never holds pages  *)
(* of two regions, or of none.                                             *)
(***************************************************************************)
OwnsL1(r, m, i) ==
    r.mmu = m /\ \A q \in Pages: Index1(q) = i => Covers(r, q)
OwnsL2(r, m, i, j) ==
    r.mmu = m /\ \A q \in Pages: Index1(q) = i /\ Index2(q) = j => Covers(r, q)

Owned ==
    /\ \A m \in Mmus, i \in Index:
          l1[m][i].kind = "block" => \E r \in Regions: OwnsL1(r, m, i)
    /\ \A m \in Mmus, u \in AllTables, i, j \in Index:
          l1[m][i] = Table(u) /\ mem[u][j].kind = "block" => \E r \in Regions: OwnsL2(r, m, i, j)

(* The page a call is at is in no other region. *)
LEMMA OneRegion ==
    ASSUME Inv, op \in {"map", "unmap"}, NEW r \in Regions, r.mmu = region.mmu, Covers(r, start)
    PROVE  r = region
BY InRegion, MmuConfiguration DEF Inv

(* A block that fits is inside the region. *)
LEMMA FitsWhole ==
    ASSUME Inv, op = "map", NEW n \in {L1Pages, L2Pages}, Fits(n), NEW q \in Pages,
           start \div n = q \div n
    PROVE  Covers(region, q)
<1>1. n \in Nat \ {0} /\ q \in Nat /\ start \in Nat
    BY BlockPages, IndexBlocks, InRegion DEF Inv
<1>2. First(start, n) = start
    BY <1>1, BlockOf DEF Fits
<1>3. start <= q /\ q < start + n
    <2>1. start \div n = q \div n <=> First(start, n) <= q /\ q < First(start, n) + n
        BY <1>1, BlockOf
    <2>2. First(start, n) <= q /\ q < First(start, n) + n
        BY <2>1
    <2> QED BY <1>2, <2>2
<1>4. region.va <= start /\ End - start >= n /\ region.va \in Nat /\ region.size \in Nat
    <2>1. region \in Regions /\ region.va <= start
        BY DEF Inv, Calls
    <2> QED BY <2>1, RegionType DEF Fits
<1> QED BY <1>1, <1>3, <1>4 DEF Covers, End

(* The block a call puts in or takes away is inside its region. *)
LEMMA WholeL1 == ASSUME Inv, Owned, SetsL1 PROVE OwnsL1(region, region.mmu, Index1(start))
<1>1. start \in Pages /\ Index1(start) \in Index /\ region.mmu \in Mmus
    BY InRegion DEF Inv, SetsL1
<1>2. CASE op = "map" /\ Fits(L1Pages)
    BY <1>1, <1>2, FitsWhole, IndexBlocks DEF OwnsL1
<1>3. CASE op = "unmap" /\ L1Entry.kind = "block"
    <2>1. PICK r \in Regions: OwnsL1(r, region.mmu, Index1(start))
        BY <1>1, <1>3 DEF Owned, L1Entry
    <2>2. r = region
        BY <1>1, <1>3, <2>1, OneRegion DEF OwnsL1
    <2> QED BY <2>1, <2>2
<1> QED BY <1>2, <1>3 DEF SetsL1

LEMMA WholeL2 ==
    ASSUME Inv, Owned, SetsL2 PROVE OwnsL2(region, region.mmu, Index1(start), Index2(start))
<1>1. start \in Pages /\ Index1(start) \in Index /\ Index2(start) \in Index /\ region.mmu \in Mmus
    BY InRegion DEF Inv, SetsL2
<1>2. CASE op = "map" /\ Fits(L2Pages)
    BY <1>1, <1>2, FitsWhole, IndexBlocks DEF OwnsL2
<1>3. CASE op = "unmap" /\ L2Entry.kind = "block"
    <2>1. L1Entry = Table(L1Entry.addr) /\ L1Entry.addr \in AllTables
        BY Reached DEF SetsL2
    <2>2. PICK r \in Regions: OwnsL2(r, region.mmu, Index1(start), Index2(start))
        BY <1>1, <1>3, <2>1 DEF Owned, L1Entry, L2Entry
    <2>3. r = region
        BY <1>1, <1>3, <2>2, OneRegion DEF OwnsL2
    <2> QED BY <2>2, <2>3
<1> QED BY <1>2, <1>3 DEF SetsL2

(* A block after a step was there before, or is the one that was put in. *)
LEMMA OwnedStep == ASSUME Inv, Owned, [Next]_vars PROVE Owned'
<1> SUFFICES /\ \A m \in Mmus, i \in Index:
                   l1'[m][i].kind = "block" =>
                       l1[m][i].kind = "block" \/ \E r \in Regions: OwnsL1(r, m, i)
             /\ \A m \in Mmus, u \in AllTables, i, j \in Index:
                   l1'[m][i] = Table(u) /\ mem'[u][j].kind = "block" =>
                       \/ l1[m][i] = Table(u) /\ mem[u][j].kind = "block"
                       \/ \E r \in Regions: OwnsL2(r, m, i, j)
    BY DEF Owned, OwnsL1, OwnsL2
<1>1. CASE SetsL1
    <2>1. region \in Regions /\ OwnsL1(region, region.mmu, Index1(start))
        BY <1>1, InRegion, WholeL1 DEF Inv, SetsL1
    <2>2. PICK e \in Entry: e.kind \in {"none", "block"} /\ mem' = mem
                            /\ l1' = [l1 EXCEPT ![region.mmu][Index1(start)] = e]
        BY <1>1, LeafEntry, DivMod, PageCounts, Reached DEF SetsL1
    <2>3. \A m \in Mmus, i \in Index:
              l1'[m][i] = IF m = region.mmu /\ i = Index1(start) THEN e ELSE l1[m][i]
        BY <2>2 DEF Inv, Shape
    <2> QED BY <2>1, <2>2, <2>3, TableEntry
<1>2. CASE SetsL2
    <2>1. region \in Regions /\ OwnsL2(region, region.mmu, Index1(start), Index2(start))
        BY <1>2, InRegion, WholeL2 DEF Inv, SetsL2
    <2>2. PICK e \in Entry: l1' = l1 /\ mem' = [mem EXCEPT ![L1Entry.addr][Index2(start)] = e]
        BY <1>2 DEF SetsL2
    <2>3. \A u \in AllTables, j \in Index:
              mem'[u][j] = IF u = L1Entry.addr /\ j = Index2(start) THEN e ELSE mem[u][j]
        BY <2>2 DEF Inv, Shape
    <2>4. /\ L1Entry.addr \in AllTables /\ region.mmu \in Mmus /\ Index1(start) \in Index
          /\ l1[region.mmu][Index1(start)] = Table(L1Entry.addr)
        BY <1>2, Reached DEF SetsL2, L1Entry
    <2>5. \A m \in Mmus, i \in Index:
              l1[m][i] = Table(L1Entry.addr) => m = region.mmu /\ i = Index1(start)
        BY <2>4 DEF Inv, Forest, Single
    <2> QED BY <2>1, <2>2, <2>3, <2>5
<1>3. CASE SetsL3
    <2>1. PICK e \in Entry: l1' = l1 /\ mem' = [mem EXCEPT ![L2Entry.addr][Index3(start)] = e]
        BY <1>3 DEF SetsL3
    <2>2. \A u \in AllTables, j \in Index: u # L2Entry.addr => mem'[u][j] = mem[u][j]
        BY <2>1 DEF Inv, Shape
    <2>3. ~InL1(L2Entry.addr)
        BY <1>3, Reached DEF SetsL3
    <2> QED BY <2>1, <2>2, <2>3 DEF InL1
<1>4. CASE LinksL1
    <2>1. PICK t \in free: l1' = [l1 EXCEPT ![region.mmu][Index1(start)] = Table(t)] /\ mem' = mem
        BY <1>4 DEF LinksL1
    <2>2. t \in AllTables /\ mem[t] = Blank
        BY Names DEF Inv, Shape, Forest, Levels
    <2>3. \A m \in Mmus, i \in Index: l1'[m][i] = l1[m][i] \/ l1'[m][i] = Table(t)
        BY <2>1 DEF Inv, Shape
    <2>4. \A j \in Index: mem[t][j].kind = "none"
        BY <2>2, LeafEntry DEF Blank
    <2> QED BY <2>1, <2>2, <2>3, <2>4, TableEntry
<1>5. CASE LinksL2
    <2>1. PICK t \in free: l1' = l1 /\ mem' = [mem EXCEPT ![L1Entry.addr][Index2(start)] = Table(t)]
        BY <1>5 DEF LinksL2
    <2>2. t \in AllTables
        BY Names DEF Inv, Shape
    <2>3. \A u \in AllTables, j \in Index: mem'[u][j] = mem[u][j] \/ mem'[u][j] = Table(t)
        BY <2>1 DEF Inv, Shape
    <2> QED BY <2>1, <2>2, <2>3, TableEntry
<1>6. CASE Prunes
    <2>1. None.kind = "none"
        BY LeafEntry
    <2>2. \A m \in Mmus, i \in Index: l1'[m][i] = l1[m][i] \/ l1'[m][i] = None
        BY <1>6 DEF Prunes, Free_Empty_Tables, Inv, Shape
    <2>3. \A u \in AllTables, j \in Index: mem'[u][j] = mem[u][j] \/ mem'[u][j] = None
        <3>1. \A u \in AllTables: mem'[u] = IF u \in L2Tables THEN L2After(u) ELSE mem[u]
            BY <1>6 DEF Prunes, Free_Empty_Tables, L2Tables
        <3> QED BY <1>6, <3>1, PruneFacts DEF Inv, Prunes
    <2> QED BY <2>1, <2>2, <2>3, TableEntry
<1>7. CASE Finds \/ Starts \/ Stays
    BY <1>7 DEF Finds, Starts, Stays, MemoryMap, MemoryUnmap, tables
<1> QED BY <1>1, <1>2, <1>3, <1>4, <1>5, <1>6, <1>7, Steps

(* The walks a step changes are those of pages the call's region covers. *)
LEMMA WalksStep ==
    ASSUME Inv, Owned, [Next]_vars, NEW n \in Mmus, NEW p \in Pages,
           WalkOf(l1', mem', n, p) # WalkOf(l1, mem, n, p)
    PROVE  region.mmu = n /\ Covers(region, p)
<1>1. CASE SetsL1
    BY <1>1, WalkL1Set, WholeL1 DEF OwnsL1
<1>2. CASE SetsL2
    BY <1>2, WalkL2Set, WholeL2 DEF OwnsL2
<1>3. CASE SetsL3
    <2>1. /\ n = region.mmu /\ Index1(p) = Index1(start) /\ Index2(p) = Index2(start)
          /\ Index3(p) = Index3(start)
        BY <1>3, WalkL3Set
    <2>2. Covers(region, start) /\ start \in Pages
        BY <1>3, InRegion DEF Inv, SetsL3
    <2>3. p = start
        BY <2>1, <2>2, IndexBlocks
    <2> QED BY <2>1, <2>2, <2>3
<1>4. CASE LinksL1
    BY <1>4, WalkLink
<1>5. CASE LinksL2
    BY <1>5, WalkLink
<1>6. CASE Prunes
    BY <1>6, WalkPrune DEF Prunes
<1>7. CASE Finds \/ Starts \/ Stays
    BY <1>7 DEF Finds, Starts, Stays, MemoryMap, MemoryUnmap, tables
<1> QED BY <1>1, <1>2, <1>3, <1>4, <1>5, <1>6, <1>7, Steps

(* No block reaches over the end of the region it was mapped for. *)
THEOREM BlocksOwned == Spec => []Owned
<1>1. Init => Owned
    <2> SUFFICES ASSUME Init PROVE Owned
        OBVIOUS
    <2>1. None.kind = "none" /\ Page(SaturnPage).kind = "page"
        BY Names, LeafEntry
    <2>2. \A m \in Mmus, i \in Index: l1[m][i].kind # "block"
        BY <2>1, Names, TableEntry DEF Init, Blank
    <2>3. \A u \in AllTables, i \in Index: mem[u][i].kind # "block"
        BY <2>1, Names, TableEntry DEF Init, Blank
    <2> QED BY <2>2, <2>3 DEF Owned
<1>2. Inv /\ Owned /\ [Next]_vars => Owned'
    BY OwnedStep
<1> QED BY <1>1, <1>2, Invariance, PTL DEF Spec

(* A call changes no page but those of its region, for every configuration of a board: *)
(* what is mapped for a VM reaches no memory but what the configuration gives it.      *)
THEOREM CallsKeepToTheirPages == Spec => OnlyOwnPages
<1> DEFINE Walks == \A m \in Mmus, p \in Pages: Walk(m, p) = WalkOf(l1, mem, m, p)
<1>1. Inv => Walks
    BY WalkIs
<1>2. Inv /\ Owned /\ Walks /\ Walks' /\ [Next]_vars =>
          [\A m \in Mmus, p \in Pages:
               Walk(m, p)' # Walk(m, p) => region.mmu = m /\ Covers(region, p)]_vars
    BY WalksStep
<1> QED BY <1>1, <1>2, Invariance, BlocksOwned, PTL DEF Spec, OnlyOwnPages

-----------------------------------------------------------------------------
(***************************************************************************)
(* What every page translates to, also in the middle of a call: the pages  *)
(* of a region come one after the other and go one after the other.        *)
(***************************************************************************)
Saturns(m, p) == m = "hyp" /\ p = SaturnPage

Maps(r, m, p) ==
    /\ r.mmu = m /\ Covers(r, p)
    /\ \/ r \in mapped /\ ~(r = region /\ ((op = "unmap" /\ p < start) \/ op = "free"))
       \/ r = region /\ op = "map" /\ p < start

Target(r, p) == r.pa + (p - r.va)

Content ==
    \A m \in Mmus, p \in Pages:
        /\ Saturns(m, p) => WalkOf(l1, mem, m, p) = p
        /\ \A r \in Regions: Maps(r, m, p) => WalkOf(l1, mem, m, p) = Target(r, p)
        /\ WalkOf(l1, mem, m, p) # NotMapped =>
              Saturns(m, p) \/ \E r \in Regions: Maps(r, m, p)

LEMMA Disjoint ==
    ASSUME NEW r \in Regions, NEW q \in Regions, r.mmu = q.mmu,
           NEW p \in Pages, Covers(r, p), Covers(q, p)
    PROVE  r = q
BY MmuConfiguration

(* A call maps the pages n further on ... *)
LEMMA ContentAdd ==
    ASSUME Inv, Content, op = "map", NEW n \in Nat \ {0}, start + n <= End, MapNext(n),
           \A m \in Mmus, p \in Pages:
               WalkOf(l1', mem', m, p) = IF m = region.mmu /\ start <= p /\ p < start + n
                                         THEN Target(region, p) ELSE WalkOf(l1, mem, m, p)
    PROVE  Content'
<1> DEFINE New(m, p) == m = region.mmu /\ start <= p /\ p < start + n
<1>1. /\ region \in Regions /\ region \notin mapped /\ region.va <= start /\ start \in Nat
      /\ region.va \in Nat /\ region.size \in Nat /\ start + n <= region.va + region.size
      /\ \A p \in Pages: p \in Nat
    <2>1. region \in Regions /\ region \notin mapped /\ region.va <= start /\ start \in Nat
        BY DEF Inv, Calls, Shape
    <2>2. \A p \in Pages: p \in Nat
        BY IndexBlocks
    <2> QED BY <2>1, <2>2, RegionType DEF End
<1>2. ASSUME NEW m \in Mmus, NEW p \in Pages, New(m, p) PROVE Covers(region, p)
    BY <1>1, <1>2 DEF Covers
<1>3. ASSUME NEW r \in Regions, NEW m \in Mmus, NEW p \in Pages
      PROVE  Maps(r, m, p)' <=> Maps(r, m, p) \/ (r = region /\ New(m, p))
    <2>1. CASE start + n < End
        BY <1>1, <1>2, <2>1 DEF MapNext, Maps, Covers
    <2>2. CASE ~(start + n < End)
        <3>1. start + n = region.va + region.size
            BY <1>1, <2>2 DEF End
        <3> QED BY <1>1, <1>2, <2>2, <3>1 DEF MapNext, Maps, Covers
    <2> QED BY <2>1, <2>2
<1>4. ASSUME NEW m \in Mmus, NEW p \in Pages, New(m, p), NEW r \in Regions, Maps(r, m, p)
      PROVE  FALSE
    <2>1. r = region
        BY <1>1, <1>2, <1>4, Disjoint DEF Maps
    <2> QED BY <1>1, <1>4, <2>1 DEF Maps
<1>5. ASSUME NEW m \in Mmus, NEW p \in Pages, New(m, p) PROVE ~Saturns(m, p)
    BY <1>1, <1>2, <1>5, MmuConfiguration DEF Saturns
<1>6. ASSUME NEW m \in Mmus, NEW p \in Pages
      PROVE  WalkOf(l1', mem', m, p) = IF New(m, p) THEN Target(region, p) ELSE WalkOf(l1, mem, m, p)
    OBVIOUS
<1>7. \A m \in Mmus, p \in Pages: Saturns(m, p) => WalkOf(l1', mem', m, p) = p
    BY <1>5, <1>6 DEF Content
<1> HIDE DEF New
<1>8. ASSUME NEW m \in Mmus, NEW p \in Pages, NEW r \in Regions, Maps(r, m, p)'
      PROVE  WalkOf(l1', mem', m, p) = Target(r, p)
    BY <1>3, <1>4, <1>6, <1>8 DEF Content
<1>9. ASSUME NEW m \in Mmus, NEW p \in Pages, WalkOf(l1', mem', m, p) # NotMapped
      PROVE  Saturns(m, p) \/ \E r \in Regions: Maps(r, m, p)'
    BY <1>1, <1>3, <1>6, <1>9 DEF Content
<1> QED BY <1>7, <1>8, <1>9 DEF Content, Saturns, Target

(* ... or unmaps them. *)
LEMMA ContentRemove ==
    ASSUME Inv, Content, op = "unmap", NEW n \in Nat \ {0}, UnmapNext(n),
           \A p \in Pages: start <= p /\ p < start + n => Covers(region, p),
           \A m \in Mmus, p \in Pages:
               WalkOf(l1', mem', m, p) = IF m = region.mmu /\ start <= p /\ p < start + n
                                         THEN NotMapped ELSE WalkOf(l1, mem, m, p)
    PROVE  Content'
<1> DEFINE Old(m, p) == m = region.mmu /\ start <= p /\ p < start + n
<1>1. /\ region \in Regions /\ region \in mapped /\ start \in Nat
      /\ region.va \in Nat /\ region.size \in Nat
      /\ \A p \in Pages: p \in Nat
    <2>1. region \in Regions /\ region \in mapped /\ start \in Nat
        BY DEF Inv, Calls, Shape
    <2>2. \A p \in Pages: p \in Nat
        BY IndexBlocks
    <2> QED BY <2>1, <2>2, RegionType
<1>2. ASSUME NEW m \in Mmus, NEW p \in Pages, Old(m, p) PROVE Covers(region, p)
    BY <1>2
<1>3. ASSUME NEW r \in Regions, NEW m \in Mmus, NEW p \in Pages
      PROVE  Maps(r, m, p)' <=> Maps(r, m, p) /\ ~(r = region /\ p < start + n)
    <2>1. CASE start + n < End
        BY <1>1, <2>1 DEF UnmapNext, Maps, Covers
    <2>2. CASE ~(start + n < End)
        BY <1>1, <2>2 DEF UnmapNext, Maps, Covers, End
    <2> QED BY <2>1, <2>2
<1>4. ASSUME NEW m \in Mmus, NEW p \in Pages, Old(m, p), NEW r \in Regions, Maps(r, m, p)
      PROVE  r = region
    BY <1>1, <1>2, <1>4, Disjoint DEF Maps
<1>5. ASSUME NEW m \in Mmus, NEW p \in Pages, Maps(region, m, p), ~Old(m, p)
      PROVE  ~(p < start + n)
    BY <1>1, <1>5 DEF Maps
<1>6. ASSUME NEW m \in Mmus, NEW p \in Pages, Old(m, p) PROVE ~Saturns(m, p) /\ p < start + n
    BY <1>1, <1>2, <1>6, MmuConfiguration DEF Saturns
<1>7. ASSUME NEW m \in Mmus, NEW p \in Pages
      PROVE  WalkOf(l1', mem', m, p) = IF Old(m, p) THEN NotMapped ELSE WalkOf(l1, mem, m, p)
    OBVIOUS
<1> HIDE DEF Old
<1>8. \A m \in Mmus, p \in Pages: Saturns(m, p) => WalkOf(l1', mem', m, p) = p
    BY <1>6, <1>7 DEF Content
<1>9. ASSUME NEW m \in Mmus, NEW p \in Pages, NEW r \in Regions, Maps(r, m, p)'
      PROVE  WalkOf(l1', mem', m, p) = Target(r, p)
    <2>1. Maps(r, m, p) /\ ~(r = region /\ p < start + n)
        BY <1>3, <1>9
    <2>2. ~Old(m, p)
        BY <1>4, <1>6, <2>1
    <2> QED BY <1>7, <2>1, <2>2 DEF Content
<1>10. ASSUME NEW m \in Mmus, NEW p \in Pages, WalkOf(l1', mem', m, p) # NotMapped
       PROVE  Saturns(m, p) \/ \E r \in Regions: Maps(r, m, p)'
    <2>1. ~Old(m, p) /\ WalkOf(l1, mem, m, p) # NotMapped
        BY <1>7, <1>10
    <2>2. CASE Saturns(m, p)
        BY <2>2
    <2>3. CASE ~Saturns(m, p)
        <3>1. PICK r \in Regions: Maps(r, m, p)
            BY <2>1, <2>3 DEF Content
        <3>2. ~(r = region /\ p < start + n)
            BY <1>5, <2>1, <3>1
        <3> QED BY <1>3, <3>1, <3>2
    <2> QED BY <2>2, <2>3
<1> QED BY <1>8, <1>9, <1>10 DEF Content, Saturns, Target

(* Where no walk changes, no region does. *)
LEMMA ContentSame ==
    ASSUME Inv, Content, Starts \/ Stays \/ LinksL1 \/ LinksL2 \/ Prunes,
           \A m \in Mmus, p \in Pages: WalkOf(l1', mem', m, p) = WalkOf(l1, mem, m, p)
    PROVE  Content'
<1>1. \A p \in Pages: p \in Nat
    BY IndexBlocks
<1>2. ASSUME NEW r \in Regions, NEW m \in Mmus, NEW p \in Pages
      PROVE  Maps(r, m, p)' <=> Maps(r, m, p)
    <2>1. CASE Stays \/ LinksL1 \/ LinksL2
        BY <2>1 DEF Stays, LinksL1, LinksL2, Maps
    <2>2. CASE Prunes
        BY <2>2 DEF Prunes, Free_Empty_Tables, Maps, Inv, Calls
    <2>3. CASE Starts
        <3>1. PICK q \in Regions: MemoryMap(q) \/ MemoryUnmap(q)
            BY <2>3 DEF Starts
        <3>2. q.va \in Nat /\ (Covers(q, p) => ~(p < q.va))
            BY <1>1, RegionType DEF Covers
        <3> QED BY <3>1, <3>2 DEF MemoryMap, MemoryUnmap, Maps
    <2> QED BY <2>1, <2>2, <2>3
<1>3. ASSUME NEW m \in Mmus, NEW p \in Pages, NEW r \in Regions, Maps(r, m, p)'
      PROVE  WalkOf(l1', mem', m, p) = Target(r, p)
    BY <1>2, <1>3 DEF Content
<1>4. ASSUME NEW m \in Mmus, NEW p \in Pages, WalkOf(l1', mem', m, p) # NotMapped
      PROVE  Saturns(m, p) \/ \E r \in Regions: Maps(r, m, p)'
    BY <1>2, <1>4 DEF Content
<1>5. \A m \in Mmus, p \in Pages: Saturns(m, p) => WalkOf(l1', mem', m, p) = p
    BY DEF Content
<1> QED BY <1>3, <1>4, <1>5 DEF Content, Saturns, Target

(* The pages of a block, from its first. *)
LEMMA AlignedBlock ==
    ASSUME NEW n \in {L1Pages, L2Pages}, NEW q \in Pages, q % n = 0, NEW p \in Pages
    PROVE  /\ p \div n = q \div n <=> q <= p /\ p < q + n
           /\ p \div n = q \div n => p % n = p - q
<1>1. n \in Nat \ {0} /\ q \in Nat /\ p \in Nat
    BY BlockPages, IndexBlocks
<1>2. First(q, n) = q
    BY <1>1, BlockOf
<1>3. q \div n = p \div n <=> First(q, n) <= p /\ p < First(q, n) + n
    BY <1>1, BlockOf
<1>4. p - First(p, n) = p % n
    BY <1>1, BlockOf
<1>5. p \div n = q \div n => First(p, n) = First(q, n)
    BY DEF First
<1> QED BY <1>2, <1>3, <1>4, <1>5

(* The pages whose path goes through the entry of the page the call is at. *)
LEMMA BlockOfStart ==
    ASSUME Inv, op \in {"map", "unmap"}, NEW p \in Pages
    PROVE  /\ start % L1Pages = 0 =>
                 (Index1(p) = Index1(start) <=> start <= p /\ p < start + L1Pages)
           /\ start % L2Pages = 0 =>
                 (Index1(p) = Index1(start) /\ Index2(p) = Index2(start)
                      <=> start <= p /\ p < start + L2Pages)
           /\ Index1(p) = Index1(start) /\ Index2(p) = Index2(start) /\ Index3(p) = Index3(start)
                 <=> start <= p /\ p < start + 1
<1>1. start \in Pages /\ start \in Nat /\ p \in Nat
    BY InRegion, IndexBlocks DEF Inv
<1>2. /\ Index1(p) = Index1(start) <=> p \div L1Pages = start \div L1Pages
      /\ Index1(p) = Index1(start) /\ Index2(p) = Index2(start) <=> p \div L2Pages = start \div L2Pages
      /\ Index1(p) = Index1(start) /\ Index2(p) = Index2(start) /\ Index3(p) = Index3(start) <=> p = start
    BY <1>1, IndexBlocks
<1>3. /\ start % L1Pages = 0 => (p \div L1Pages = start \div L1Pages <=> start <= p /\ p < start + L1Pages)
      /\ start % L2Pages = 0 => (p \div L2Pages = start \div L2Pages <=> start <= p /\ p < start + L2Pages)
    BY <1>1, AlignedBlock
<1>4. p = start <=> start <= p /\ p < start + 1
    BY <1>1
<1> QED BY <1>2, <1>3, <1>4

(* What a block translates its pages to. *)
LEMMA BlockTarget ==
    ASSUME Inv, op = "map", NEW p \in Pages
    PROVE  /\ Fits(L1Pages) /\ start <= p /\ p < start + L1Pages =>
                 Page1(Block(Pa \div L1Pages), p) = Target(region, p)
           /\ Fits(L2Pages) /\ start <= p /\ p < start + L2Pages =>
                 Page2(Block(Pa \div L2Pages), p) = Target(region, p)
<1>1. /\ start \in Pages /\ start \in Nat /\ p \in Nat /\ Pa \in Nat /\ region \in Regions
      /\ Entries \in Nat \ {0} /\ L1Pages \in Nat \ {0} /\ L2Pages \in Nat \ {0}
      /\ region.pa \in Nat /\ region.va \in Nat /\ region.size \in Nat
      /\ region.va <= start /\ Covers(region, start)
    BY InRegion, IndexBlocks, PageCounts, MmuSizes, RegionType DEF Inv, Calls
<1>2. Target(region, p) = Pa + (p - start)
    BY <1>1 DEF Target, Pa
<1>3. \A a: Block(a).addr = a
    BY DEF Block
<1>4. ASSUME Fits(L2Pages), start <= p, p < start + L2Pages
      PROVE  Page2(Block(Pa \div L2Pages), p) = Target(region, p)
    <2>1. start % L2Pages = 0 /\ Pa % L2Pages = 0
        BY <1>4 DEF Fits
    <2>2. p % L2Pages = p - start
        BY <1>1, <1>4, <2>1, AlignedBlock
    <2>3. PICK a \in Nat: a = Pa \div L2Pages
        BY <1>1, DivMod
    <2>4. Pa = L2Pages * a
        BY <1>1, <2>1, <2>3, DivMod
    <2>5. L2Pages * a = a * L2Pages
        BY <1>1
    <2> QED BY <1>2, <1>3, <2>2, <2>3, <2>4, <2>5 DEF Page2
<1>5. ASSUME Fits(L1Pages), start <= p, p < start + L1Pages
      PROVE  Page1(Block(Pa \div L1Pages), p) = Target(region, p)
    <2>1. start % L1Pages = 0 /\ Pa % L1Pages = 0 /\ End - start >= L1Pages
        BY <1>5 DEF Fits
    <2>2. p % L1Pages = p - start
        BY <1>1, <1>5, <2>1, AlignedBlock
    <2>3. Covers(region, start + L1Pages - 1)
        BY <1>1, <2>1 DEF Covers, End
    <2>4. Pa = 0
        BY <1>1, <2>1, <2>3, MmuL1Blocks DEF Pa
    <2>5. 0 \div L1Pages = 0 /\ 0 \div Entries = 0
        BY <1>1
    <2>6. 0 * L1Pages = 0
        BY <1>1
    <2> QED BY <1>1, <1>2, <1>3, <2>2, <2>4, <2>5, <2>6 DEF Page1
<1> QED BY <1>4, <1>5

(* The walks of a block after its entry is set. *)
LEMMA WalkL1New ==
    ASSUME Inv, SetsL1, NEW p \in Pages, Index1(p) = Index1(start)
    PROVE  WalkOf(l1', mem', region.mmu, p) =
               IF op = "map" THEN Page1(Block(Pa \div L1Pages), p) ELSE NotMapped
<1>1. PICK e \in Entry:
          /\ \/ op = "map" /\ e = Block(Pa \div L1Pages)
             \/ op = "unmap" /\ e = None
          /\ l1' = [l1 EXCEPT ![region.mmu][Index1(start)] = e]
    BY DEF SetsL1
<1>2. region.mmu \in Mmus /\ Index1(start) \in Index /\ Pa \in Nat
    BY Reached DEF SetsL1
<1>3. E1(l1', region.mmu, p) = e
    BY <1>1, <1>2 DEF Inv, Shape, E1
<1>4. (op = "map" => e.kind = "block") /\ (op = "unmap" => e.kind = "none")
    <2>1. Pa \div L1Pages \in Nat
        BY <1>2, PageCounts, DivMod
    <2> QED BY <1>1, <2>1, LeafEntry
<1> QED BY <1>1, <1>3, <1>4, PageIs DEF WalkOf

LEMMA WalkL2New ==
    ASSUME Inv, SetsL2, NEW p \in Pages, Index1(p) = Index1(start), Index2(p) = Index2(start)
    PROVE  WalkOf(l1', mem', region.mmu, p) =
               IF op = "map" THEN Page2(Block(Pa \div L2Pages), p) ELSE NotMapped
<1>1. PICK e \in Entry:
          /\ \/ op = "map" /\ e = Block(Pa \div L2Pages)
             \/ op = "unmap" /\ e = None
          /\ l1' = l1
          /\ mem' = [mem EXCEPT ![L1Entry.addr][Index2(start)] = e]
    BY DEF SetsL2
<1>2. /\ Index2(start) \in Index /\ Pa \in Nat
      /\ L1Entry.kind = "table" /\ L1Entry.addr \in AllTables
    BY Reached DEF SetsL2
<1>3. E1(l1', region.mmu, p) = L1Entry
    BY <1>1 DEF E1, L1Entry
<1>4. mem'[L1Entry.addr][Index2(start)] = e
    BY <1>1, <1>2 DEF Inv, Shape
<1>5. E2(l1', mem', region.mmu, p) = e
    BY <1>3, <1>4 DEF E2
<1>6. (op = "map" => e.kind = "block") /\ (op = "unmap" => e.kind = "none")
    <2>1. Pa \div L2Pages \in Nat
        BY <1>2, PageCounts, DivMod
    <2> QED BY <1>1, <2>1, LeafEntry
<1> QED BY <1>1, <1>2, <1>3, <1>5, <1>6, PageIs DEF WalkOf

LEMMA WalkL3New ==
    ASSUME Inv, SetsL3
    PROVE  WalkOf(l1', mem', region.mmu, start) = IF op = "map" THEN Pa ELSE NotMapped
<1>1. PICK e \in Entry:
          /\ \/ op = "map" /\ e = Page(Pa)
             \/ op = "unmap" /\ e = None
          /\ l1' = l1
          /\ mem' = [mem EXCEPT ![L2Entry.addr][Index3(start)] = e]
    BY DEF SetsL3
<1>2. /\ Index2(start) \in Index /\ Index3(start) \in Index /\ Pa \in Nat
      /\ L1Entry.kind = "table" /\ L1Entry.addr \in AllTables /\ InL1(L1Entry.addr)
      /\ L2Entry.kind = "table" /\ L2Entry.addr \in AllTables /\ ~InL1(L2Entry.addr)
    BY Reached DEF SetsL3
<1>3. E1(l1', region.mmu, start) = L1Entry
    BY <1>1 DEF E1, L1Entry
<1>4. \A t \in AllTables, x \in Index:
          mem'[t][x] = IF t = L2Entry.addr /\ x = Index3(start) THEN e ELSE mem[t][x]
    BY <1>1 DEF Inv, Shape
<1>5. E2(l1', mem', region.mmu, start) = L2Entry
    BY <1>2, <1>3, <1>4 DEF E2, L2Entry
<1>6. E3(l1', mem', region.mmu, start) = e
    BY <1>2, <1>4, <1>5 DEF E3
<1>7. /\ op = "map" => e.kind = "page" /\ e.addr = Pa
      /\ op = "unmap" => e.kind = "none"
    <2>1. Page(Pa).addr = Pa
        BY DEF Page
    <2> QED BY <1>1, <1>2, <2>1, LeafEntry
<1> QED BY <1>1, <1>2, <1>3, <1>5, <1>6, <1>7, PageIs DEF WalkOf

(* An unmap that finds a block is at its first page: the pages before it would be gone. *)
LEMMA UnmapFirst ==
    ASSUME Inv, Content, op = "unmap", NEW n \in {L1Pages, L2Pages},
           \A q \in Pages: q \div n = start \div n =>
               Covers(region, q) /\ WalkOf(l1, mem, region.mmu, q) # NotMapped
    PROVE  start % n = 0
<1>1. n \in Nat \ {0} /\ start \in Pages /\ start \in Nat /\ region \in Regions /\ region.mmu \in Mmus
    BY InRegion, BlockPages, IndexBlocks DEF Inv
<1> DEFINE q == First(start, n)
<1>2. q \in Nat /\ q <= start /\ q \div n = start \div n /\ q % n = 0
    BY <1>1, BlockOf
<1>3. q \in Pages
    BY <1>1, <1>2, BlockPages
<1> HIDE DEF q
<1>4. Covers(region, q) /\ WalkOf(l1, mem, region.mmu, q) # NotMapped
    BY <1>2, <1>3
<1>5. ~Saturns(region.mmu, q)
    BY <1>1, <1>4, MmuConfiguration DEF Saturns
<1>6. PICK r \in Regions: Maps(r, region.mmu, q)
    BY <1>1, <1>3, <1>4, <1>5 DEF Content
<1>7. r = region
    BY <1>1, <1>3, <1>4, <1>6, Disjoint DEF Maps
<1>8. ~(q < start)
    BY <1>1, <1>6, <1>7 DEF Maps
<1>9. q = start
    BY <1>1, <1>2, <1>8
<1> QED BY <1>2, <1>9

(* What the walk of the page a call is at meets. *)
LEMMA StartsWalk ==
    ASSUME Inv, op \in {"map", "unmap"}
    PROVE  /\ E1(l1, region.mmu, start) = L1Entry
           /\ E2(l1, mem, region.mmu, start) = L2Entry
           /\ E3(l1, mem, region.mmu, start) = L3Entry
           /\ WalkOf(l1, mem, region.mmu, start) = PageOf(L1Entry, L2Entry, L3Entry, start)
BY DEF E1, E2, E3, L1Entry, L2Entry, L3Entry, WalkOf

LEMMA BlockMaps ==
    ASSUME NEW e \in Entry, e.kind = "block", NEW p \in Pages
    PROVE  Page1(e, p) \in Nat /\ Page2(e, p) \in Nat
<1>1. e.addr \in Nat /\ p \in Nat /\ Entries \in Nat \ {0}
    BY EntryKinds, IndexBlocks, MmuSizes
<1>2. e.addr \div Entries \in Nat /\ p % L1Pages \in Nat /\ p % L2Pages \in Nat
    BY <1>1, DivMod, PageCounts
<1> QED BY <1>1, <1>2, PageCounts DEF Page1, Page2

(* MemoryMap never comes to a page that is mapped already, MemoryUnmap only to such pages. *)
LEMMA StartsPage ==
    ASSUME Inv, Content, op \in {"map", "unmap"}
    PROVE  WalkOf(l1, mem, region.mmu, start) = NotMapped <=> op = "map"
<1>1. /\ region \in Regions /\ region.mmu \in Mmus /\ start \in Pages /\ start \in Nat
      /\ Covers(region, start) /\ ~Saturns(region.mmu, start)
    BY InRegion, IndexBlocks DEF Inv, Saturns
<1>2. CASE op = "map"
    <2> SUFFICES ASSUME WalkOf(l1, mem, region.mmu, start) # NotMapped PROVE FALSE
        BY <1>2
    <2>1. PICK r \in Regions: Maps(r, region.mmu, start)
        BY <1>1 DEF Content
    <2>2. r = region
        BY <1>1, <2>1, Disjoint DEF Maps
    <2> QED BY <1>1, <1>2, <2>1, <2>2 DEF Maps, Inv, Calls
<1>3. CASE op = "unmap"
    <2>1. Maps(region, region.mmu, start)
        BY <1>1, <1>3 DEF Maps, Inv, Calls
    <2>2. WalkOf(l1, mem, region.mmu, start) = Target(region, start)
        BY <1>1, <2>1 DEF Content
    <2>3. Target(region, start) \in Nat
        BY <1>1, RegionType DEF Target, Covers
    <2> QED BY <1>3, <2>2, <2>3 DEF NotMapped
<1> QED BY <1>2, <1>3

LEMMA Met ==
    ASSUME Inv, Content
    PROVE  /\ op = "map" =>
                 /\ L1Entry.kind # "block"
                 /\ L1Entry.kind = "table" =>
                       /\ L2Entry.kind # "block"
                       /\ L2Entry.kind = "table" => L3Entry.kind = "none"
           /\ op = "unmap" =>
                 /\ L1Entry.kind # "none"
                 /\ L1Entry.kind = "table" =>
                       /\ L2Entry.kind # "none"
                       /\ L2Entry.kind = "table" => L3Entry.kind = "page"
<1> SUFFICES ASSUME op \in {"map", "unmap"}
             PROVE  /\ op = "map" =>
                          /\ L1Entry.kind # "block"
                          /\ L1Entry.kind = "table" =>
                                /\ L2Entry.kind # "block"
                                /\ L2Entry.kind = "table" => L3Entry.kind = "none"
                    /\ op = "unmap" =>
                          /\ L1Entry.kind # "none"
                          /\ L1Entry.kind = "table" =>
                                /\ L2Entry.kind # "none"
                                /\ L2Entry.kind = "table" => L3Entry.kind = "page"
    OBVIOUS
<1>1. PageOf(L1Entry, L2Entry, L3Entry, start) = NotMapped <=> op = "map"
    BY StartsWalk, StartsPage
<1>2. start \in Pages
    BY InRegion DEF Inv
<1>3. CASE op = "map"
    <2>1. ASSUME L1Entry.kind = "block" PROVE FALSE
        <3>1. Page1(L1Entry, start) \in Nat
            BY <1>2, <2>1, Reached, BlockMaps
        <3> QED BY <1>1, <1>3, <2>1, <3>1, PageIs DEF NotMapped
    <2>2. ASSUME L1Entry.kind = "table", L2Entry.kind = "block" PROVE FALSE
        <3>1. Page2(L2Entry, start) \in Nat
            BY <1>2, <2>2, Reached, BlockMaps
        <3> QED BY <1>1, <1>3, <2>2, <3>1, PageIs DEF NotMapped
    <2>3. ASSUME L1Entry.kind = "table", L2Entry.kind = "table" PROVE L3Entry.kind = "none"
        <3>1. L3Entry \in Entry /\ L3Entry.kind \in {"none", "page"}
            BY <2>3, Reached
        <3>2. L3Entry.kind = "page" => L3Entry.addr \in Nat
            BY <3>1, EntryKinds
        <3> QED BY <1>1, <1>3, <2>3, <3>1, <3>2, PageIs DEF NotMapped
    <2> QED BY <1>3, <2>1, <2>2, <2>3
<1>4. CASE op = "unmap"
    <2>1. L1Entry.kind # "none"
        BY <1>1, <1>4, PageIs
    <2>2. ASSUME L1Entry.kind = "table" PROVE L2Entry.kind # "none"
        BY <1>1, <1>4, <2>2, PageIs
    <2>3. ASSUME L1Entry.kind = "table", L2Entry.kind = "table" PROVE L3Entry.kind = "page"
        BY <1>1, <1>4, <2>3, PageIs
    <2> QED BY <1>4, <2>1, <2>2, <2>3
<1> QED BY <1>3, <1>4

(* A block that is unmapped is unmapped from its first page. *)
LEMMA UnmapAligned ==
    ASSUME Inv, Owned, Content, op = "unmap"
    PROVE  /\ SetsL1 => start % L1Pages = 0
           /\ SetsL2 => start % L2Pages = 0
<1>1. start \in Pages
    BY InRegion DEF Inv
<1>2. ASSUME SetsL1 PROVE start % L1Pages = 0
    <2>1. L1Entry.kind = "block" /\ L1Entry \in Entry /\ OwnsL1(region, region.mmu, Index1(start))
        BY <1>2, Reached, WholeL1 DEF SetsL1
    <2>2. ASSUME NEW q \in Pages, q \div L1Pages = start \div L1Pages
          PROVE  Covers(region, q) /\ WalkOf(l1, mem, region.mmu, q) # NotMapped
        <3>1. Index1(q) = Index1(start)
            BY <1>1, <2>2, IndexBlocks
        <3>2. E1(l1, region.mmu, q) = L1Entry
            BY <3>1 DEF E1, L1Entry
        <3>3. WalkOf(l1, mem, region.mmu, q) = Page1(L1Entry, q)
            BY <2>1, <3>2, PageIs DEF WalkOf
        <3>4. Page1(L1Entry, q) \in Nat
            BY <2>1, BlockMaps
        <3> QED BY <2>1, <3>1, <3>3, <3>4 DEF OwnsL1, NotMapped
    <2> QED BY <2>2, UnmapFirst
<1>3. ASSUME SetsL2 PROVE start % L2Pages = 0
    <2>1. /\ L1Entry.kind = "table" /\ L2Entry.kind = "block" /\ L2Entry \in Entry
          /\ OwnsL2(region, region.mmu, Index1(start), Index2(start))
        BY <1>3, Reached, WholeL2 DEF SetsL2
    <2>2. ASSUME NEW q \in Pages, q \div L2Pages = start \div L2Pages
          PROVE  Covers(region, q) /\ WalkOf(l1, mem, region.mmu, q) # NotMapped
        <3>1. Index1(q) = Index1(start) /\ Index2(q) = Index2(start)
            BY <1>1, <2>2, IndexBlocks
        <3>2. E1(l1, region.mmu, q) = L1Entry /\ E2(l1, mem, region.mmu, q) = L2Entry
            BY <3>1 DEF E1, E2, L1Entry, L2Entry
        <3>3. WalkOf(l1, mem, region.mmu, q) = Page2(L2Entry, q)
            BY <2>1, <3>2, PageIs DEF WalkOf
        <3>4. Page2(L2Entry, q) \in Nat
            BY <2>1, BlockMaps
        <3> QED BY <2>1, <3>1, <3>3, <3>4 DEF OwnsL2, NotMapped
    <2> QED BY <2>2, UnmapFirst
<1> QED BY <1>2, <1>3

LEMMA ContentStep == ASSUME Inv, Owned, Content, [Next]_vars PROVE Content'
<1>1. CASE SetsL1
    <2>1. /\ region \in Regions /\ region.mmu \in Mmus /\ start \in Pages /\ start \in Nat
          /\ L1Pages \in Nat \ {0} /\ OwnsL1(region, region.mmu, Index1(start))
        BY <1>1, InRegion, IndexBlocks, PageCounts, WholeL1 DEF Inv, SetsL1
    <2>2. ASSUME start % L1Pages = 0, NEW m \in Mmus, NEW p \in Pages
          PROVE  /\ m = region.mmu /\ start <= p /\ p < start + L1Pages =>
                       WalkOf(l1', mem', m, p) =
                           IF op = "map" THEN Page1(Block(Pa \div L1Pages), p) ELSE NotMapped
                 /\ ~(m = region.mmu /\ start <= p /\ p < start + L1Pages) =>
                       WalkOf(l1', mem', m, p) = WalkOf(l1, mem, m, p)
        <3>1. Index1(p) = Index1(start) <=> start <= p /\ p < start + L1Pages
            BY <1>1, <2>2, BlockOfStart DEF SetsL1
        <3> QED BY <1>1, <3>1, WalkL1New, WalkL1Set
    <2>3. CASE op = "map"
        <3>1. Fits(L1Pages) /\ MapNext(L1Pages)
            BY <1>1, <2>3 DEF SetsL1
        <3>2. start % L1Pages = 0 /\ start + L1Pages <= End
            BY <2>1, <3>1, RegionType DEF Fits, End
        <3>3. \A m \in Mmus, p \in Pages:
                  WalkOf(l1', mem', m, p) = IF m = region.mmu /\ start <= p /\ p < start + L1Pages
                                            THEN Target(region, p) ELSE WalkOf(l1, mem, m, p)
            BY <2>2, <2>3, <3>1, <3>2, BlockTarget
        <3> QED BY <2>1, <2>3, <3>1, <3>2, <3>3, ContentAdd
    <2>4. CASE op = "unmap"
        <3>1. L1Entry.kind = "block" /\ L1Entry \in Entry /\ UnmapNext(L1Pages)
            BY <1>1, <2>4, Reached DEF SetsL1
        <3>3. start % L1Pages = 0
            BY <1>1, <2>4, UnmapAligned
        <3>4. \A p \in Pages: start <= p /\ p < start + L1Pages => Covers(region, p)
            BY <2>1, <2>4, <3>3, BlockOfStart DEF OwnsL1
        <3>5. \A m \in Mmus, p \in Pages:
                  WalkOf(l1', mem', m, p) = IF m = region.mmu /\ start <= p /\ p < start + L1Pages
                                            THEN NotMapped ELSE WalkOf(l1, mem, m, p)
            BY <2>2, <2>4, <3>3
        <3> QED BY <2>1, <2>4, <3>1, <3>4, <3>5, ContentRemove
    <2> QED BY <1>1, <2>3, <2>4 DEF SetsL1
<1>2. CASE SetsL2
    <2>1. /\ region \in Regions /\ region.mmu \in Mmus /\ start \in Pages /\ start \in Nat
          /\ L2Pages \in Nat \ {0} /\ OwnsL2(region, region.mmu, Index1(start), Index2(start))
        BY <1>2, InRegion, IndexBlocks, PageCounts, WholeL2 DEF Inv, SetsL2
    <2>2. ASSUME start % L2Pages = 0, NEW m \in Mmus, NEW p \in Pages
          PROVE  /\ m = region.mmu /\ start <= p /\ p < start + L2Pages =>
                       WalkOf(l1', mem', m, p) =
                           IF op = "map" THEN Page2(Block(Pa \div L2Pages), p) ELSE NotMapped
                 /\ ~(m = region.mmu /\ start <= p /\ p < start + L2Pages) =>
                       WalkOf(l1', mem', m, p) = WalkOf(l1, mem, m, p)
        <3>1. Index1(p) = Index1(start) /\ Index2(p) = Index2(start) <=> start <= p /\ p < start + L2Pages
            BY <1>2, <2>2, BlockOfStart DEF SetsL2
        <3> QED BY <1>2, <3>1, WalkL2New, WalkL2Set
    <2>3. CASE op = "map"
        <3>1. Fits(L2Pages) /\ MapNext(L2Pages)
            BY <1>2, <2>3 DEF SetsL2
        <3>2. start % L2Pages = 0 /\ start + L2Pages <= End
            BY <2>1, <3>1, RegionType DEF Fits, End
        <3>3. \A m \in Mmus, p \in Pages:
                  WalkOf(l1', mem', m, p) = IF m = region.mmu /\ start <= p /\ p < start + L2Pages
                                            THEN Target(region, p) ELSE WalkOf(l1, mem, m, p)
            BY <2>2, <2>3, <3>1, <3>2, BlockTarget
        <3> QED BY <2>1, <2>3, <3>1, <3>2, <3>3, ContentAdd
    <2>4. CASE op = "unmap"
        <3>1. /\ L1Entry.kind = "table" /\ L2Entry.kind = "block" /\ L2Entry \in Entry
              /\ UnmapNext(L2Pages)
            BY <1>2, <2>4, Reached DEF SetsL2
        <3>3. start % L2Pages = 0
            BY <1>2, <2>4, UnmapAligned
        <3>4. \A p \in Pages: start <= p /\ p < start + L2Pages => Covers(region, p)
            BY <2>1, <2>4, <3>3, BlockOfStart DEF OwnsL2
        <3>5. \A m \in Mmus, p \in Pages:
                  WalkOf(l1', mem', m, p) = IF m = region.mmu /\ start <= p /\ p < start + L2Pages
                                            THEN NotMapped ELSE WalkOf(l1, mem, m, p)
            BY <2>2, <2>4, <3>3
        <3> QED BY <2>1, <2>4, <3>1, <3>4, <3>5, ContentRemove
    <2> QED BY <1>2, <2>3, <2>4 DEF SetsL2
<1>3. CASE SetsL3
    <2>1. /\ region \in Regions /\ region.mmu \in Mmus /\ start \in Pages /\ start \in Nat
          /\ Covers(region, start) /\ region.va <= start /\ start < End
        BY <1>3, InRegion, IndexBlocks DEF Inv, SetsL3, Calls
    <2>2. ASSUME NEW m \in Mmus, NEW p \in Pages
          PROVE  /\ m = region.mmu /\ start <= p /\ p < start + 1 =>
                       p = start /\ WalkOf(l1', mem', m, p) = IF op = "map" THEN Pa ELSE NotMapped
                 /\ ~(m = region.mmu /\ start <= p /\ p < start + 1) =>
                       WalkOf(l1', mem', m, p) = WalkOf(l1, mem, m, p)
        <3>1. /\ Index1(p) = Index1(start) /\ Index2(p) = Index2(start) /\ Index3(p) = Index3(start)
                    <=> start <= p /\ p < start + 1
              /\ p \in Nat
            BY <1>3, BlockOfStart, IndexBlocks DEF SetsL3
        <3>2. start <= p /\ p < start + 1 => p = start
            BY <2>1, <3>1
        <3> QED BY <1>3, <3>1, <3>2, WalkL3New, WalkL3Set
    <2>3. CASE op = "map"
        <3>1. MapNext(1)
            BY <1>3, <2>3 DEF SetsL3
        <3>2. start + 1 <= End
            BY <2>1, RegionType DEF End
        <3>3. Pa = Target(region, start)
            BY DEF Pa, Target
        <3>4. \A m \in Mmus, p \in Pages:
                  WalkOf(l1', mem', m, p) = IF m = region.mmu /\ start <= p /\ p < start + 1
                                            THEN Target(region, p) ELSE WalkOf(l1, mem, m, p)
            BY <2>2, <2>3, <3>3
        <3> QED BY <2>3, <3>1, <3>2, <3>4, ContentAdd
    <2>4. CASE op = "unmap"
        <3>1. UnmapNext(1)
            BY <1>3, <2>4 DEF SetsL3
        <3>2. \A p \in Pages: start <= p /\ p < start + 1 => Covers(region, p)
            BY <2>1, <2>2
        <3>3. \A m \in Mmus, p \in Pages:
                  WalkOf(l1', mem', m, p) = IF m = region.mmu /\ start <= p /\ p < start + 1
                                            THEN NotMapped ELSE WalkOf(l1, mem, m, p)
            BY <2>2, <2>4
        <3> QED BY <2>4, <3>1, <3>2, <3>3, ContentRemove
    <2> QED BY <1>3, <2>3, <2>4 DEF SetsL3
<1>4. CASE LinksL1
    BY <1>4, WalkLink, ContentSame
<1>5. CASE LinksL2
    BY <1>5, WalkLink, ContentSame
<1>6. CASE Prunes
    BY <1>6, WalkPrune, ContentSame DEF Prunes
<1>7. CASE Finds
    BY <1>7, Met DEF Finds
<1>8. CASE Starts \/ Stays
    <2>1. UNCHANGED <<l1, mem>>
        BY <1>8 DEF Starts, Stays, MemoryMap, MemoryUnmap, tables
    <2> QED BY <1>8, <2>1, ContentSame
<1> QED BY <1>1, <1>2, <1>3, <1>4, <1>5, <1>6, <1>7, <1>8, Steps

(* A page is mapped from the moment its region's MemoryMap passes it until MemoryUnmap does, *)
(* and translates to its place in that region.                                               *)
THEOREM PagesAreRegions == Spec => []Content
<1>1. Init => Content
    <2> SUFFICES ASSUME Init PROVE Content
        OBVIOUS
    <2> SUFFICES ASSUME NEW m \in Mmus, NEW p \in Pages
                 PROVE  WalkOf(l1, mem, m, p) = IF Saturns(m, p) THEN p ELSE NotMapped
        <3>1. \A r \in Regions, m \in Mmus, p \in Pages: ~Maps(r, m, p)
            BY DEF Init, Maps
        <3>2. \A p \in Pages: p # NotMapped
            BY IndexBlocks DEF NotMapped
        <3> QED BY <3>1, <3>2 DEF Content
    <2> DEFINE c2 == "core_ptable_l2"
               c3 == "core_ptable_l3"
               s1 == Index1(SaturnPage)
               s2 == Index2(SaturnPage)
               s3 == Index3(SaturnPage)
               a == E1(l1, m, p)
               b == E2(l1, mem, m, p)
               c == E3(l1, mem, m, p)
    <2>1. Index1(p) \in Index /\ Index2(p) \in Index /\ Index3(p) \in Index
        BY IndexBlocks, IndexType
    <2>2. a = IF m = "hyp" /\ Index1(p) = s1 THEN Table(c2) ELSE None
        BY <2>1, Names DEF Init, Blank, E1
    <2>3. mem[c2][Index2(p)] = IF Index2(p) = s2 THEN Table(c3) ELSE None
        BY <2>1, Names DEF Init, Blank
    <2>4. mem[c3][Index3(p)] = IF Index3(p) = s3 THEN Page(SaturnPage) ELSE None
        BY <2>1, Names DEF Init, Blank
    <2>5. None.kind = "none" /\ Page(SaturnPage).kind = "page" /\ Page(SaturnPage).addr = SaturnPage
        BY Names, LeafEntry DEF Page
    <2>6. /\ Table(c2).kind = "table" /\ Table(c2).addr = c2
          /\ Table(c3).kind = "table" /\ Table(c3).addr = c3
        BY Names, TableEntry
    <2>7. Index1(p) = s1 /\ Index2(p) = s2 /\ Index3(p) = s3 <=> p = SaturnPage
        BY IndexBlocks, Names
    <2>8. b = mem[a.addr][Index2(p)] /\ c = mem[b.addr][Index3(p)]
          /\ WalkOf(l1, mem, m, p) = PageOf(a, b, c, p)
        BY DEF E2, E3, WalkOf
    <2> HIDE DEF c2, c3, s1, s2, s3, a, b, c
    <2>9. CASE ~(m = "hyp" /\ Index1(p) = s1)
        <3>1. a.kind = "none" /\ ~Saturns(m, p)
            BY <2>2, <2>5, <2>7, <2>9 DEF Saturns
        <3>2. PageOf(a, b, c, p) = NotMapped
            BY <3>1, PageIs
        <3> QED BY <2>8, <3>1, <3>2
    <2>10. CASE m = "hyp" /\ Index1(p) = s1 /\ Index2(p) # s2
        <3>1. a.kind = "table" /\ a.addr = c2 /\ ~Saturns(m, p)
            BY <2>2, <2>6, <2>7, <2>10 DEF Saturns
        <3>2. b.kind = "none"
            BY <2>3, <2>5, <2>8, <2>10, <3>1
        <3>3. PageOf(a, b, c, p) = NotMapped
            BY <3>1, <3>2, PageIs
        <3> QED BY <2>8, <3>1, <3>3
    <2>11. CASE m = "hyp" /\ Index1(p) = s1 /\ Index2(p) = s2
        <3>1. a = Table(c2) /\ b = Table(c3)
            BY <2>2, <2>3, <2>6, <2>8, <2>11, SMTT(30)
        <3>2. c = IF Index3(p) = s3 THEN Page(SaturnPage) ELSE None
            BY <2>4, <2>6, <2>8, <3>1, SMTT(30)
        <3>3. WalkOf(l1, mem, m, p) = IF c.kind = "page" THEN c.addr ELSE NotMapped
            <4>1. a.kind = "table" /\ b.kind = "table"
                BY <2>6, <3>1
            <4>2. PageOf(a, b, c, p) = IF c.kind = "page" THEN c.addr ELSE NotMapped
                BY <4>1, PageIs
            <4> QED BY <2>8, <4>2
        <3>4. CASE Index3(p) = s3
            BY <2>5, <2>7, <2>11, <3>2, <3>3, <3>4 DEF Saturns
        <3>5. CASE Index3(p) # s3
            <4>1. p # SaturnPage /\ c = None
                BY <2>7, <3>2, <3>5
            <4> QED BY <2>5, <3>3, <4>1 DEF Saturns
        <3> QED BY <3>4, <3>5
    <2> QED BY <2>9, <2>10, <2>11
<1>2. Inv /\ Owned /\ Content /\ [Next]_vars => Content'
    BY ContentStep
<1> QED BY <1>1, <1>2, Invariance, BlocksOwned, PTL DEF Spec

(* Between calls both address spaces are exactly what the mapped regions say, for every      *)
(* configuration whose level 1 blocks are at physical address 0.                             *)
THEOREM AddressSpacesAreConfigured == Spec => []TranslationIsConfigured
<1>1. Inv /\ Content => TranslationIsConfigured
    <2> SUFFICES ASSUME Inv, Content, op = "idle", NEW m \in Mmus, NEW p \in Pages
                 PROVE  Walk(m, p) = Configured(m, p)
        BY DEF TranslationIsConfigured
    <2>1. \A r \in Regions: Maps(r, m, p) <=> r \in mapped /\ r.mmu = m /\ Covers(r, p)
        BY DEF Maps
    <2>2. mapped \subseteq Regions
        BY DEF Inv, Calls
    <2>3. CASE Saturns(m, p)
        BY <2>3, WalkIs DEF Content, Saturns, Configured
    <2>4. CASE ~Saturns(m, p) /\ \E r \in mapped: r.mmu = m /\ Covers(r, p)
        <3> DEFINE r == CHOOSE r \in mapped: r.mmu = m /\ Covers(r, p)
        <3>1. r \in mapped /\ r.mmu = m /\ Covers(r, p)
            BY <2>4
        <3>2. Configured(m, p) = Target(r, p)
            BY <2>4 DEF Configured, Saturns, Target
        <3> HIDE DEF r
        <3>3. WalkOf(l1, mem, m, p) = Target(r, p)
            BY <2>1, <2>2, <3>1 DEF Content
        <3> QED BY <3>2, <3>3, WalkIs
    <2>5. CASE ~Saturns(m, p) /\ ~\E r \in mapped: r.mmu = m /\ Covers(r, p)
        BY <2>1, <2>2, <2>5, WalkIs DEF Content, Configured, Saturns
    <2> QED BY <2>3, <2>4, <2>5
<1> QED BY <1>1, Invariance, PagesAreRegions, PTL

-----------------------------------------------------------------------------
(***************************************************************************)
(* Tables are where they are needed: where pages do not make up a block of *)
(* one region.  So a block that fits never finds a table in its place.     *)
(***************************************************************************)
Whole(r, p, n) ==
    /\ \A q \in Pages: q \div n = p \div n => Covers(r, q)
    /\ Target(r, First(p, n)) % n = 0

Needs(m, p, n) ==
    \E q \in Pages:
        /\ q \div n = p \div n
        /\ Saturns(m, q) \/ \E r \in Regions: r.mmu = m /\ Covers(r, q) /\ ~Whole(r, q, n)

Needed ==
    \A m \in Mmus, p \in Pages:
        E1(l1, m, p).kind = "table" =>
            /\ Needs(m, p, L1Pages)
            /\ E2(l1, mem, m, p).kind = "table" => Needs(m, p, L2Pages)

LEMMA FitsNotNeeded ==
    ASSUME Inv, op = "map", NEW n \in {L1Pages, L2Pages}, Fits(n)
    PROVE  ~Needs(region.mmu, start, n)
<1> SUFFICES ASSUME Needs(region.mmu, start, n) PROVE FALSE
    OBVIOUS
<1>1. region \in Regions /\ start \in Pages /\ start \in Nat /\ n \in Nat \ {0}
    BY InRegion, IndexBlocks, BlockPages DEF Inv
<1>2. PICK q \in Pages:
          /\ q \div n = start \div n
          /\ \/ Saturns(region.mmu, q)
             \/ \E r \in Regions: r.mmu = region.mmu /\ Covers(r, q) /\ ~Whole(r, q, n)
    BY DEF Needs
<1>3. Covers(region, q)
    BY <1>2, FitsWhole
<1>4. ~Saturns(region.mmu, q)
    BY <1>1, <1>3, MmuConfiguration DEF Saturns
<1>5. ~Whole(region, q, n)
    <2>1. PICK r \in Regions: r.mmu = region.mmu /\ Covers(r, q) /\ ~Whole(r, q, n)
        BY <1>2, <1>4
    <2>2. r = region
        BY <1>1, <1>3, <2>1, Disjoint
    <2> QED BY <2>1, <2>2
<1>6. \A x \in Pages: x \div n = q \div n => Covers(region, x)
    BY <1>2, FitsWhole
<1>7. First(q, n) = start
    <2>1. First(q, n) = First(start, n)
        BY <1>2 DEF First
    <2>2. start % n = 0
        BY DEF Fits
    <2> QED BY <1>1, <2>1, <2>2, BlockOf
<1>8. Target(region, start) = Pa /\ Pa % n = 0
    BY DEF Target, Pa, Fits
<1> QED BY <1>5, <1>6, <1>7, <1>8 DEF Whole

(* A table is put in only where a block of the region does not fit. *)
LEMMA LinkNeeded ==
    ASSUME Inv, Content, op = "map", NEW n \in {L1Pages, L2Pages}, ~Fits(n),
           \A q \in Pages: q \div n = start \div n => WalkOf(l1, mem, region.mmu, q) = NotMapped
    PROVE  \A p \in Pages: p \div n = start \div n => Needs(region.mmu, p, n)
<1>1. /\ region \in Regions /\ region.mmu \in Mmus /\ start \in Pages /\ start \in Nat
      /\ n \in Nat \ {0} /\ Covers(region, start) /\ region.va \in Nat /\ region.size \in Nat
      /\ region.pa \in Nat
    BY InRegion, IndexBlocks, BlockPages, RegionType DEF Inv
<1> SUFFICES ASSUME Whole(region, start, n) PROVE FALSE
    BY <1>1 DEF Needs
<1> DEFINE q == First(start, n)
<1>2. q \in Nat /\ q <= start /\ q \div n = start \div n /\ q % n = 0
    BY <1>1, BlockOf
<1>3. q \in Pages
    BY <1>1, <1>2, BlockPages
<1> HIDE DEF q
<1>4. Covers(region, q)
    BY <1>2, <1>3 DEF Whole
<1>5. q = start
    <2> SUFFICES ASSUME q < start PROVE FALSE
        BY <1>1, <1>2
    <2>1. Maps(region, region.mmu, q)
        BY <1>4 DEF Maps
    <2>2. WalkOf(l1, mem, region.mmu, q) = Target(region, q)
        BY <1>1, <1>3, <2>1 DEF Content
    <2>3. Target(region, q) \in Nat
        BY <1>1, <1>2, <1>4 DEF Target, Covers
    <2> QED BY <1>2, <1>3, <2>2, <2>3 DEF NotMapped
<1>6. start % n = 0 /\ Pa % n = 0
    <2>1. Target(region, q) % n = 0
        BY DEF Whole, q
    <2> QED BY <1>2, <1>5, <2>1 DEF Target, Pa
<1>7. End - start >= n
    <2> DEFINE x == start + n - 1
    <2>1. x \in Nat /\ start <= x /\ x < start + n
        BY <1>1
    <2> HIDE DEF x
    <2>2. start \div n = x \div n <=> First(start, n) <= x /\ x < First(start, n) + n
        BY <1>1, <2>1, BlockOf
    <2>3. start \div n = x \div n
        BY <1>5, <2>1, <2>2 DEF q
    <2>4. x \in Pages
        BY <1>1, <2>1, <2>3, BlockPages
    <2>5. Covers(region, x)
        BY <2>3, <2>4 DEF Whole
    <2>6. x < End /\ End \in Nat
        BY <1>1, <2>5 DEF Covers, End
    <2>7. x = start + n - 1
        BY DEF x
    <2> QED BY <1>1, <2>6, <2>7
<1> QED BY <1>6, <1>7 DEF Fits

LEMMA NeededStep == ASSUME Inv, Content, Needed, [Next]_vars PROVE Needed'
<1> SUFFICES ASSUME NEW m \in Mmus, NEW p \in Pages, E1(l1', m, p).kind = "table"
             PROVE  /\ E1(l1, m, p).kind = "table" \/ Needs(m, p, L1Pages)
                    /\ E2(l1', mem', m, p).kind = "table" =>
                          \/ E1(l1, m, p).kind = "table" /\ E2(l1, mem, m, p).kind = "table"
                          \/ Needs(m, p, L2Pages)
    BY DEF Needed
<1> DEFINE a == E1(l1, m, p)
           b == E2(l1, mem, m, p)
           x == E1(l1', m, p)
           y == E2(l1', mem', m, p)
<1>1. /\ Index1(p) \in Index /\ Index2(p) \in Index
      /\ a.kind = "table" => a = Table(a.addr) /\ a.addr \in AllTables /\ InL1(a.addr)
    BY PathIs
<1>2. a = l1[m][Index1(p)] /\ x = l1'[m][Index1(p)]
    BY DEF E1
<1>3. b = mem[a.addr][Index2(p)] /\ y = mem'[x.addr][Index2(p)]
    BY DEF E2
<1>4. x.kind = "table"
    OBVIOUS
<1>5. None.kind = "none"
    BY LeafEntry
<1> HIDE DEF a, b, x, y
<1> SUFFICES /\ a.kind = "table" \/ Needs(m, p, L1Pages)
             /\ y.kind = "table" => (a.kind = "table" /\ b.kind = "table") \/ Needs(m, p, L2Pages)
    BY DEF a, b, x, y
<1>6. CASE SetsL1
    <2>1. PICK e \in Entry: /\ e.kind # "table" /\ mem' = mem
                            /\ l1' = [l1 EXCEPT ![region.mmu][Index1(start)] = e]
        BY <1>6, LeafEntry, DivMod, PageCounts, Reached DEF SetsL1
    <2>2. x = IF m = region.mmu /\ Index1(p) = Index1(start) THEN e ELSE a
        BY <1>1, <1>2, <2>1 DEF Inv, Shape
    <2> QED BY <1>3, <1>4, <2>1, <2>2
<1>7. CASE SetsL2
    <2>1. PICK e \in Entry: /\ e.kind # "table" /\ l1' = l1
                            /\ mem' = [mem EXCEPT ![L1Entry.addr][Index2(start)] = e]
        BY <1>7, LeafEntry, DivMod, PageCounts, Reached DEF SetsL2
    <2>2. x = a
        BY <1>2, <2>1
    <2>3. y = b \/ y = e
        BY <1>1, <1>3, <1>4, <2>1, <2>2 DEF Inv, Shape
    <2> QED BY <1>4, <2>1, <2>2, <2>3
<1>8. CASE SetsL3
    <2>1. PICK e \in Entry: /\ e.kind # "table" /\ l1' = l1
                            /\ mem' = [mem EXCEPT ![L2Entry.addr][Index3(start)] = e]
        BY <1>8, LeafEntry, Reached DEF SetsL3
    <2>2. x = a
        BY <1>2, <2>1
    <2>3. y = b \/ y = e
        BY <1>1, <1>3, <1>4, <2>1, <2>2 DEF Inv, Shape
    <2> QED BY <1>4, <2>1, <2>2, <2>3
<1>9. CASE LinksL1
    <2>1. PICK t \in free: l1' = [l1 EXCEPT ![region.mmu][Index1(start)] = Table(t)] /\ mem' = mem
        BY <1>9 DEF LinksL1
    <2>2. t \in AllTables /\ mem[t] = Blank
        BY Names DEF Inv, Shape, Forest, Levels
    <2>3. x = IF m = region.mmu /\ Index1(p) = Index1(start) THEN Table(t) ELSE a
        BY <1>1, <1>2, <2>1 DEF Inv, Shape
    <2>4. CASE m = region.mmu /\ Index1(p) = Index1(start)
        <3>1. y = None
            BY <1>1, <1>3, <2>1, <2>2, <2>3, <2>4, TableEntry DEF Blank
        <3>2. start \in Pages
            BY <1>9, InRegion DEF Inv, LinksL1
        <3>3. ASSUME NEW q \in Pages, q \div L1Pages = start \div L1Pages
              PROVE  WalkOf(l1, mem, region.mmu, q) = NotMapped
            <4>1. E1(l1, region.mmu, q).kind = "none"
                BY <1>9, <3>2, <3>3, IndexBlocks DEF E1, LinksL1, L1Entry
            <4> QED BY <4>1, PageIs DEF WalkOf
        <3>4. p \div L1Pages = start \div L1Pages
            BY <2>4, <3>2, IndexBlocks
        <3>5. Needs(m, p, L1Pages)
            BY <1>9, <2>4, <3>3, <3>4, LinkNeeded DEF LinksL1
        <3> QED BY <1>5, <3>1, <3>5
    <2>5. CASE ~(m = region.mmu /\ Index1(p) = Index1(start))
        BY <1>3, <1>4, <2>1, <2>3, <2>5
    <2> QED BY <2>4, <2>5
<1>10. CASE LinksL2
    <2>1. PICK t \in free: l1' = l1 /\ mem' = [mem EXCEPT ![L1Entry.addr][Index2(start)] = Table(t)]
        BY <1>10 DEF LinksL2
    <2>2. x = a
        BY <1>2, <2>1
    <2>3. CASE a.addr = L1Entry.addr /\ Index2(p) = Index2(start)
        <3>1. /\ start \in Pages /\ region.mmu \in Mmus /\ Index1(start) \in Index
              /\ l1[region.mmu][Index1(start)] = Table(L1Entry.addr)
            BY <1>10, InRegion, Reached DEF Inv, LinksL2, L1Entry
        <3>2. m = region.mmu /\ Index1(p) = Index1(start)
            BY <1>1, <1>2, <1>4, <2>2, <2>3, <3>1 DEF Inv, Forest, Single
        <3>3. ASSUME NEW q \in Pages, q \div L2Pages = start \div L2Pages
              PROVE  WalkOf(l1, mem, region.mmu, q) = NotMapped
            <4>1. Index1(q) = Index1(start) /\ Index2(q) = Index2(start)
                BY <3>1, <3>3, IndexBlocks
            <4>2. E1(l1, region.mmu, q) = L1Entry /\ E2(l1, mem, region.mmu, q) = L2Entry
                BY <4>1 DEF E1, E2, L1Entry, L2Entry
            <4> QED BY <1>10, <4>2, PageIs DEF WalkOf, LinksL2
        <3>4. p \div L2Pages = start \div L2Pages
            BY <2>3, <3>1, <3>2, IndexBlocks
        <3>5. Needs(m, p, L2Pages)
            BY <1>10, <3>2, <3>3, <3>4, LinkNeeded DEF LinksL2
        <3> QED BY <1>4, <2>2, <3>5
    <2>4. CASE ~(a.addr = L1Entry.addr /\ Index2(p) = Index2(start))
        <3>1. y = b
            BY <1>1, <1>3, <1>4, <2>1, <2>2, <2>4 DEF Inv, Shape
        <3> QED BY <1>4, <2>2, <3>1
    <2> QED BY <2>3, <2>4
<1>11. CASE Prunes
    <2>1. x = a
        <3>1. x = a \/ x = None
            BY <1>1, <1>2, <1>11 DEF Prunes, Free_Empty_Tables, Inv, Shape
        <3> QED BY <1>4, <1>5, <3>1
    <2>2. y = b \/ y = None
        <3>1. \A u \in AllTables: mem'[u] = IF u \in L2Tables THEN L2After(u) ELSE mem[u]
            BY <1>11 DEF Prunes, Free_Empty_Tables, L2Tables
        <3> QED BY <1>1, <1>3, <1>4, <1>11, <2>1, <3>1, PruneFacts DEF Inv, Prunes
    <2> QED BY <1>4, <1>5, <2>1, <2>2
<1>12. CASE Finds \/ Starts \/ Stays
    <2>1. UNCHANGED <<l1, mem>>
        BY <1>12 DEF Finds, Starts, Stays, MemoryMap, MemoryUnmap, tables
    <2> QED BY <1>2, <1>3, <1>4, <2>1
<1> QED BY <1>6, <1>7, <1>8, <1>9, <1>10, <1>11, <1>12, Steps

(* No call finds anything in its way: execution stops for want of tables alone. *)
LEMMA FaultStep ==
    ASSUME Inv, Content, Needed, FaultMeansNoTables, [Next]_vars PROVE FaultMeansNoTables'
<1> USE DEF Mapping, Unmapping, L2Reached, MapNext, UnmapNext, tables, FaultMeansNoTables
<1>1. op \in {"map", "unmap"} => region.mmu \in Mmus /\ start \in Pages
    BY InRegion DEF Inv
<1>2. /\ op = "map" /\ Fits(L1Pages) => L1Entry.kind # "table"
      /\ op = "map" /\ Fits(L2Pages) /\ L1Entry.kind = "table" => L2Entry.kind # "table"
    BY <1>1, StartsWalk, FitsNotNeeded DEF Needed
<1>3. CASE Map_L1_Block
    BY <1>2, <1>3 DEF Map_L1_Block
<1>4. CASE Map_L1_PTable
    BY <1>4, Met DEF Map_L1_PTable, Fail
<1>5. CASE Map_L2_Block
    BY <1>2, <1>5 DEF Map_L2_Block
<1>6. CASE Map_L2_PTable
    BY <1>6, Met DEF Map_L2_PTable, Fail
<1>7. CASE Map_L3_Page
    BY <1>7 DEF Map_L3_Page
<1>8. op = "unmap" => L1Entry \in Entry /\ (L1Entry.kind = "table" => L2Entry \in Entry)
    BY Reached
<1>9. CASE UnmapL1Block
    BY <1>8, <1>9, Met, Reached, EntryKinds DEF UnmapL1Block
<1>10. CASE UnmapL2Block
    BY <1>8, <1>10, Met, Reached, EntryKinds DEF UnmapL2Block
<1>11. CASE UnmapL3Page
    BY <1>11, Met DEF UnmapL3Page
<1>12. CASE Free_Empty_Tables
    BY <1>12 DEF Free_Empty_Tables
<1>13. CASE Halted \/ UNCHANGED vars \/ \E r \in Regions: MemoryMap(r) \/ MemoryUnmap(r)
    BY <1>13 DEF Halted, vars, MemoryMap, MemoryUnmap
<1> QED BY <1>3, <1>4, <1>5, <1>6, <1>7, <1>9, <1>10, <1>11, <1>12, <1>13 DEF Next

(* MemoryMap and MemoryUnmap stop at nothing but an empty heap: a block that fits finds no   *)
(* table in its place, and MemoryUnmap finds every entry it comes for.                       *)
THEOREM TablesAreNeeded == Spec => [](Needed /\ FaultMeansNoTables)
<1>1. Init => Needed /\ FaultMeansNoTables
    <2> SUFFICES ASSUME Init PROVE Needed
        BY DEF Init, FaultMeansNoTables
    <2> SUFFICES ASSUME NEW m \in Mmus, NEW p \in Pages, E1(l1, m, p).kind = "table"
                 PROVE  /\ Needs(m, p, L1Pages)
                        /\ E2(l1, mem, m, p).kind = "table" => Needs(m, p, L2Pages)
        BY DEF Needed
    <2>1. None.kind = "none"
        BY LeafEntry
    <2>2. Index1(p) \in Index /\ Index2(p) \in Index
        BY IndexBlocks, IndexType
    <2>3. /\ m = "hyp" /\ Index1(p) = Index1(SaturnPage)
          /\ E1(l1, m, p) = Table("core_ptable_l2")
        BY <2>1, <2>2, Names DEF Init, Blank, E1
    <2>4. SaturnPage \div L1Pages = p \div L1Pages
        BY <2>3, IndexBlocks, Names
    <2>5. ASSUME E2(l1, mem, m, p).kind = "table" PROVE SaturnPage \div L2Pages = p \div L2Pages
        <3>1. E2(l1, mem, m, p) = mem["core_ptable_l2"][Index2(p)]
            BY <2>3, Names, TableEntry DEF E2
        <3>2. Index2(p) = Index2(SaturnPage)
            BY <2>1, <2>2, <2>5, <3>1, Names DEF Init, Blank
        <3> QED BY <2>3, <3>2, IndexBlocks, Names
    <2>6. Saturns(m, SaturnPage)
        BY <2>3 DEF Saturns
    <2> QED BY <2>4, <2>5, <2>6, Names DEF Needs
<1>2. Inv /\ Content /\ Needed /\ FaultMeansNoTables /\ [Next]_vars
          => (Needed /\ FaultMeansNoTables)'
    BY NeededStep, FaultStep
<1> QED BY <1>1, <1>2, Invariance, PagesAreRegions, PTL DEF Spec

-----------------------------------------------------------------------------
(***************************************************************************)
(* No empty table is left, but for one on the way of the page that is      *)
(* being mapped, those of the tables a call is taking pages from, and      *)
(* level 3 tables that Free_Empty_Tables does not see behind a block.      *)
(***************************************************************************)
Used(u) == \E k \in Index: mem[u][k].kind # "none"

OnPath1(m, i)    == op = "map" /\ m = region.mmu /\ i = Index1(start)
OnPath2(m, i, j) == OnPath1(m, i) /\ j = Index2(start)
Emptying(m)      == op \in {"unmap", "free"} /\ m = region.mmu

Pruned ==
    \A m \in Mmus, i \in Index, u \in AllTables:
        l1[m][i] = Table(u) /\ ~Emptying(m) =>
            /\ Used(u) \/ OnPath1(m, i)
            /\ \A j \in Index, v \in AllTables: mem[u][j] = Table(v) =>
                  \/ Used(v)
                  \/ \E k \in Index: k < j /\ mem[u][k].kind = "block"
                  \/ OnPath2(m, i, j)

LEMMA BlankIs ==
    ASSUME NEW f \in [Index -> Entry]
    PROVE  f = Blank <=> ~\E k \in Index: f[k].kind # "none"
<1>1. None.kind = "none"
    BY LeafEntry
<1>2. \A k \in Index: f[k].kind = "none" => f[k] = None
    BY EntryKinds
<1> QED BY <1>1, <1>2 DEF Blank

LEMMA PrunedStep == ASSUME Inv, Content, Pruned, [Next]_vars PROVE Pruned'
<1> SUFFICES ASSUME NEW m \in Mmus, NEW i \in Index, NEW u \in AllTables,
                    l1'[m][i] = Table(u), ~Emptying(m)'
             PROVE  /\ Used(u)' \/ OnPath1(m, i)'
                    /\ \A j \in Index, v \in AllTables: mem'[u][j] = Table(v) =>
                          \/ Used(v)'
                          \/ \E k \in Index: k < j /\ mem'[u][k].kind = "block"
                          \/ OnPath2(m, i, j)'
    BY DEF Pruned
<1> DEFINE Kept == l1[m][i] = Table(u) /\ ~Emptying(m)
           m0 == region.mmu
           i0 == Index1(start)
           j0 == Index2(start)
           u0 == L1Entry.addr
           v0 == L2Entry.addr
<1>1. Kept => /\ Used(u) \/ OnPath1(m, i)
              /\ \A j \in Index, v \in AllTables: mem[u][j] = Table(v) =>
                    \/ Used(v)
                    \/ \E k \in Index: k < j /\ mem[u][k].kind = "block"
                    \/ OnPath2(m, i, j)
    BY DEF Pruned
<1>2. Kept => InL1(u) /\ ~InMem(u)
    BY DEF InL1, Inv, Forest, Single
<1>3. ASSUME NEW j \in Index, NEW v \in AllTables, mem[u][j] = Table(v)
      PROVE  InMem(v) /\ ~InL1(v)
    <2>1. InMem(v)
        BY <1>3, SMTT(30) DEF InMem
    <2> QED BY <2>1 DEF Inv, Forest, Single
<1>4. op \in {"map", "unmap"} => /\ m0 \in Mmus /\ i0 \in Index /\ j0 \in Index
                                 /\ L1Entry = l1[m0][i0] /\ L1Entry \in Entry
                                 /\ L1Entry.kind = "table" =>
                                       /\ L1Entry = Table(u0) /\ u0 \in AllTables
                                       /\ L2Entry = mem[u0][j0] /\ InL1(u0)
    BY Reached DEF L1Entry, L2Entry
<1>5. op \in {"map", "unmap"} /\ L1Entry.kind = "table" /\ l1[m][i] = Table(u) =>
          (u = u0 <=> m = m0 /\ i = i0)
    BY <1>4, TableEntry DEF Inv, Forest, Single
<1>6. CASE SetsL1
    <2>1. PICK e \in Entry: /\ e.kind # "table" /\ mem' = mem
                            /\ l1' = [l1 EXCEPT ![m0][i0] = e]
        BY <1>6, LeafEntry, DivMod, PageCounts, Reached DEF SetsL1
    <2>2. l1[m][i] = Table(u) /\ ~(m = m0 /\ i = i0)
        BY <2>1, TableEntry DEF Inv, Shape
    <2>3. ~Emptying(m)
        BY <1>6 DEF SetsL1, UnmapNext, MapNext, Emptying
    <2>4. ~OnPath1(m, i)
        BY <2>2 DEF OnPath1
    <2> QED BY <1>1, <2>1, <2>2, <2>3, <2>4 DEF Used, OnPath2
<1>7. CASE SetsL2
    <2>1. PICK e \in Entry: /\ l1' = l1 /\ mem' = [mem EXCEPT ![u0][j0] = e]
                            /\ op = "map" => e.kind = "block" /\ L2Entry.kind = "none"
        BY <1>7, LeafEntry, DivMod, PageCounts, Reached DEF SetsL2
    <2>2. /\ op \in {"map", "unmap"} /\ L1Entry.kind = "table"
          /\ Kept /\ (op = "unmap" => m # m0)
        BY <1>7, <2>1 DEF SetsL2, UnmapNext, MapNext, Emptying
    <2>3. \A t \in AllTables, x \in Index: mem'[t][x] = IF t = u0 /\ x = j0 THEN e ELSE mem[t][x]
        BY <2>1 DEF Inv, Shape
    <2>4. \A j \in Index, v \in AllTables: mem[u][j] = Table(v) => v # u0
        BY <1>3, <1>4, <2>2
    <2>5. CASE u = u0
        <3>1. m = m0 /\ i = i0 /\ op = "map" /\ e.kind = "block" /\ mem[u0][j0].kind = "none"
            BY <1>4, <1>5, <2>1, <2>2, <2>5
        <3>2. Used(u)'
            BY <1>4, <2>2, <2>3, <2>5, <3>1 DEF Used
        <3>3. ASSUME NEW j \in Index, NEW v \in AllTables, mem'[u][j] = Table(v)
              PROVE  Used(v)' \/ \E k \in Index: k < j /\ mem'[u][k].kind = "block"
            <4>1. j # j0 /\ mem[u][j] = Table(v) /\ v # u0
                BY <2>3, <2>4, <2>5, <3>1, <3>3, TableEntry
            <4>2. Used(v) => Used(v)'
                BY <2>3, <4>1 DEF Used
            <4>3. \A k \in Index: mem[u][k].kind = "block" => mem'[u][k].kind = "block"
                BY <2>3, <3>1
            <4>4. ~OnPath2(m, i, j)
                BY <4>1 DEF OnPath2
            <4> QED BY <1>1, <2>2, <4>1, <4>2, <4>3, <4>4
        <3> QED BY <3>2, <3>3
    <2>6. CASE u # u0
        <3>1. ~OnPath1(m, i)
            BY <1>5, <2>2, <2>6 DEF OnPath1
        <3>2. \A x \in Index: mem'[u][x] = mem[u][x]
            BY <2>3, <2>6
        <3>3. ASSUME NEW v \in AllTables, v # u0, Used(v) PROVE Used(v)'
            BY <2>3, <3>3 DEF Used
        <3> QED BY <1>1, <2>2, <2>4, <2>6, <3>1, <3>2, <3>3 DEF OnPath2
    <2> QED BY <2>5, <2>6
<1>8. CASE SetsL3
    <2> DEFINE k0 == Index3(start)
    <2>1. PICK e \in Entry: /\ l1' = l1 /\ mem' = [mem EXCEPT ![v0][k0] = e]
                            /\ op = "map" => e.kind = "page"
        BY <1>8, LeafEntry, Reached DEF SetsL3
    <2>2. /\ op \in {"map", "unmap"} /\ L1Entry.kind = "table" /\ L2Entry.kind = "table"
          /\ Kept /\ (op = "unmap" => m # m0)
        BY <1>8, <2>1 DEF SetsL3, UnmapNext, MapNext, Emptying
    <2>3. /\ v0 \in AllTables /\ ~InL1(v0) /\ k0 \in Index /\ mem[u0][j0] = Table(v0)
        BY <1>4, <2>2, Reached
    <2>4. \A t \in AllTables, x \in Index: mem'[t][x] = IF t = v0 /\ x = k0 THEN e ELSE mem[t][x]
        BY <2>1 DEF Inv, Shape
    <2>5. u # v0
        BY <1>2, <2>2, <2>3
    <2>6. \A x \in Index: mem'[u][x] = mem[u][x]
        BY <2>4, <2>5
    <2>7. Used(u)'
        <3>1. CASE m = m0 /\ i = i0
            <4>1. u = u0 /\ mem[u][j0].kind = "table"
                BY <1>5, <2>2, <2>3, <3>1, TableEntry
            <4> QED BY <1>4, <2>2, <2>6, <4>1 DEF Used
        <3>2. CASE ~(m = m0 /\ i = i0)
            <4>1. Used(u)
                BY <1>1, <2>2, <3>2 DEF OnPath1
            <4> QED BY <2>6, <4>1 DEF Used
        <3> QED BY <3>1, <3>2
    <2>8. ASSUME NEW j \in Index, NEW v \in AllTables, mem'[u][j] = Table(v)
          PROVE  Used(v)' \/ \E k \in Index: k < j /\ mem'[u][k].kind = "block"
        <3>1. mem[u][j] = Table(v)
            BY <2>6, <2>8
        <3>2. CASE v = v0
            <4>1. u = u0 /\ j = j0
                BY <1>4, <2>2, <2>3, <3>1, <3>2 DEF Inv, Forest, Single
            <4>2. op = "map"
                BY <1>5, <2>2, <4>1
            <4> QED BY <2>1, <2>3, <2>4, <3>2, <4>2 DEF Used
        <3>3. CASE v # v0
            <4>1. Used(v) => Used(v)'
                BY <2>4, <3>3 DEF Used
            <4>2. ~OnPath2(m, i, j)
                <5> SUFFICES ASSUME m = m0, i = i0, j = j0 PROVE FALSE
                    BY DEF OnPath2, OnPath1
                <5>1. Table(v) = Table(v0)
                    BY <1>5, <2>2, <2>3, <3>1
                <5> QED BY <2>3, <3>3, <5>1, TableEntry
            <4> QED BY <1>1, <2>2, <2>6, <3>1, <4>1, <4>2
        <3> QED BY <3>2, <3>3
    <2> QED BY <2>7, <2>8
<1>9. CASE LinksL1
    <2>1. PICK t \in free: l1' = [l1 EXCEPT ![m0][i0] = Table(t)] /\ mem' = mem
        BY <1>9 DEF LinksL1
    <2>2. UNCHANGED <<op, region, start>> /\ op = "map"
        BY <1>9 DEF LinksL1
    <2>3. t \in AllTables /\ mem[t] = Blank
        BY Names DEF Inv, Shape, Forest, Levels
    <2>4. l1'[m][i] = IF m = m0 /\ i = i0 THEN Table(t) ELSE l1[m][i]
        BY <1>4, <2>1, <2>2 DEF Inv, Shape
    <2>5. CASE m = m0 /\ i = i0
        <3>1. u = t
            BY <2>3, <2>4, <2>5, TableEntry
        <3>2. \A j \in Index: mem'[u][j] = None
            BY <2>1, <2>3, <3>1 DEF Blank
        <3>3. \A v \in AllTables: None # Table(v)
            BY LeafEntry, TableEntry
        <3>4. OnPath1(m, i)'
            BY <2>2, <2>5 DEF OnPath1
        <3> QED BY <3>2, <3>3, <3>4
    <2>6. CASE ~(m = m0 /\ i = i0)
        <3>1. Kept /\ ~OnPath1(m, i)
            BY <2>2, <2>4, <2>6 DEF Emptying, OnPath1
        <3> QED BY <1>1, <2>1, <3>1 DEF Used, OnPath2
    <2> QED BY <2>5, <2>6
<1>10. CASE LinksL2
    <2>1. PICK t \in free: l1' = l1 /\ mem' = [mem EXCEPT ![u0][j0] = Table(t)]
        BY <1>10 DEF LinksL2
    <2>2. /\ UNCHANGED <<op, region, start>> /\ op = "map" /\ Kept
          /\ L1Entry.kind = "table" /\ mem[u0][j0].kind = "none"
        BY <1>4, <1>10, <2>1 DEF LinksL2, Emptying
    <2>3. t \in AllTables
        BY Names DEF Inv, Shape
    <2>4. \A w \in AllTables, x \in Index: mem'[w][x] = IF w = u0 /\ x = j0 THEN Table(t) ELSE mem[w][x]
        BY <2>1 DEF Inv, Shape
    <2>5. \A j \in Index, v \in AllTables: mem[u][j] = Table(v) => v # u0
        BY <1>3, <1>4, <2>2
    <2>6. ASSUME NEW v \in AllTables, v # u0, Used(v) PROVE Used(v)'
        BY <2>4, <2>6 DEF Used
    <2>7. CASE u = u0
        <3>1. m = m0 /\ i = i0
            BY <1>5, <2>2, <2>7
        <3>2. Used(u)'
            BY <1>4, <2>2, <2>3, <2>4, <2>7, TableEntry DEF Used
        <3>3. ASSUME NEW j \in Index, NEW v \in AllTables, mem'[u][j] = Table(v)
              PROVE  \/ Used(v)'
                     \/ \E k \in Index: k < j /\ mem'[u][k].kind = "block"
                     \/ OnPath2(m, i, j)'
            <4>1. CASE j = j0
                BY <2>2, <3>1, <4>1 DEF OnPath1, OnPath2
            <4>2. CASE j # j0
                <5>1. mem[u][j] = Table(v) /\ v # u0
                    BY <2>4, <2>5, <3>3, <4>2
                <5>2. \A k \in Index: mem[u][k].kind = "block" => mem'[u][k].kind = "block"
                    BY <2>2, <2>4
                <5>3. ~OnPath2(m, i, j)
                    BY <4>2 DEF OnPath2
                <5> QED BY <1>1, <2>2, <2>6, <5>1, <5>2, <5>3
            <4> QED BY <4>1, <4>2
        <3> QED BY <3>2, <3>3
    <2>8. CASE u # u0
        <3>1. ~OnPath1(m, i)
            BY <1>5, <2>2, <2>8 DEF OnPath1
        <3>2. \A x \in Index: mem'[u][x] = mem[u][x]
            BY <2>4, <2>8
        <3> QED BY <1>1, <2>2, <2>5, <2>6, <2>8, <3>1, <3>2 DEF OnPath2
    <2> QED BY <2>7, <2>8
<1>11. CASE Prunes
    <2>1. op = "free" /\ m0 \in Mmus
        BY <1>11 DEF Prunes, Free_Empty_Tables
    <2>2. \A w \in AllTables: mem'[w] = IF w \in L2Tables THEN L2After(w) ELSE mem[w]
        BY <1>11 DEF Prunes, Free_Empty_Tables, L2Tables
    <2>3. l1'[m][i] = IF m = m0 /\ i \in EmptyL2 THEN None ELSE l1[m][i]
        BY <1>11 DEF Prunes, Free_Empty_Tables, Inv, Shape
    <2>4. l1[m][i] = Table(u) /\ ~(m = m0 /\ i \in EmptyL2)
        BY <2>3, LeafEntry, TableEntry
    <2>5. \A v \in AllTables: ~InL1(v) => mem'[v] = mem[v]
        BY <2>1, <2>2, PruneFacts DEF InL1, Inv
    <2>6. ASSUME NEW v \in AllTables, ~InL1(v), Used(v) PROVE Used(v)'
        BY <2>5, <2>6 DEF Used
    <2>7. ~OnPath1(m, i)
        BY <2>1 DEF OnPath1
    <2>8. CASE m # m0
        <3>1. Kept
            BY <2>4, <2>8 DEF Emptying
        <3>2. u \notin L2Tables
            BY <2>1, <2>4, <2>8, PruneFacts DEF Inv, Forest, Single
        <3>3. mem'[u] = mem[u]
            BY <2>2, <3>2
        <3>4. Used(u)'
            BY <1>1, <2>7, <3>1, <3>3 DEF Used
        <3> QED BY <1>1, <1>3, <2>6, <2>7, <3>1, <3>3, <3>4 DEF OnPath2
    <2>9. CASE m = m0
        <3>1. u = L2Of(i) /\ i \in L1Tables /\ u \in L2Tables
            BY <2>4, <2>9, TableEntry DEF L2Of, L1Tables, L2Tables
        <3>2. mem'[u] = L2After(u) /\ L2After(u) # Blank /\ L2After(u) \in [Index -> Entry]
            BY <2>1, <2>2, <2>4, <2>9, <3>1, PruneFacts DEF EmptyL2, Inv
        <3>3. Used(u)'
            BY <3>2, BlankIs DEF Used
        <3>4. \A j \in Index: mem'[u][j] = IF j \in EmptyL3(u) THEN None ELSE mem[u][j]
            BY <2>1, <3>2, PruneFacts DEF Inv
        <3>5. ASSUME NEW j \in Index, NEW v \in AllTables, mem'[u][j] = Table(v)
              PROVE  Used(v)' \/ \E k \in Index: k < j /\ mem'[u][k].kind = "block"
            <4>1. j \notin EmptyL3(u) /\ mem[u][j] = Table(v)
                BY <3>4, <3>5, LeafEntry, TableEntry
            <4>2. mem[u][j].kind = "table" /\ mem[u][j].addr = v /\ ~InL1(v)
                BY <1>3, <4>1, TableEntry
            <4>3. CASE mem[v] # Blank
                <5>1. Used(v)
                    BY <4>3, BlankIs DEF Used, Inv, Shape
                <5> QED BY <2>6, <4>2, <5>1
            <4>4. CASE mem[v] = Blank
                <5>1. j \notin Scanned(u)
                    BY <4>1, <4>2, <4>4 DEF EmptyL3
                <5>2. PICK k \in Index: mem[u][k].kind = "block" /\ ~(j < k)
                    BY <5>1 DEF Scanned
                <5>3. k # j /\ k \notin EmptyL3(u)
                    BY <4>2, <5>2 DEF EmptyL3
                <5>4. k < j
                    BY <5>2, <5>3, MmuSizes DEF Index
                <5> QED BY <3>4, <5>2, <5>3, <5>4
            <4> QED BY <4>3, <4>4
        <3> QED BY <3>3, <3>5
    <2> QED BY <2>8, <2>9
<1>12. CASE Finds
    BY <1>12, Met DEF Finds
<1>13. CASE Starts
    <2>1. UNCHANGED <<l1, mem>> /\ op = "idle"
        BY <1>13 DEF Starts, MemoryMap, MemoryUnmap, tables
    <2>2. Kept /\ ~OnPath1(m, i)
        BY <2>1 DEF Emptying, OnPath1
    <2> QED BY <1>1, <2>1, <2>2 DEF Used, OnPath2
<1>14. CASE Stays
    BY <1>1, <1>14 DEF Stays, Emptying, Used, OnPath1, OnPath2
<1> QED BY <1>6, <1>7, <1>8, <1>9, <1>10, <1>11, <1>12, <1>13, <1>14, Steps

(* Free_Empty_Tables keeps no empty table but those it does not see behind a block. *)
THEOREM NoEmptyTables == Spec => []Pruned
<1>1. Init => Pruned
    <2> SUFFICES ASSUME Init PROVE Pruned
        OBVIOUS
    <2> SUFFICES ASSUME NEW m \in Mmus, NEW i \in Index, NEW u \in AllTables, l1[m][i] = Table(u)
                 PROVE  Used(u) /\ \A j \in Index, v \in AllTables: mem[u][j] = Table(v) => Used(v)
        BY DEF Pruned
    <2> DEFINE c2 == "core_ptable_l2"
               c3 == "core_ptable_l3"
               s2 == Index2(SaturnPage)
               s3 == Index3(SaturnPage)
    <2>1. None.kind = "none" /\ Page(SaturnPage).kind = "page"
        BY Names, LeafEntry
    <2>2. Index2(SaturnPage) \in Index /\ Index3(SaturnPage) \in Index
        BY Names, IndexType
    <2>3. u = c2
        BY <2>1, Names, TableEntry DEF Init, Blank
    <2>4. mem[c2][s2] = Table(c3) /\ mem[c3][s3] = Page(SaturnPage)
        BY <2>2, Names DEF Init, Blank
    <2>5. Used(c2) /\ Used(c3)
        BY <2>1, <2>2, <2>4, Names, TableEntry DEF Used
    <2>6. \A j \in Index, v \in AllTables: mem[c2][j] = Table(v) => v = c3
        BY <2>1, Names, TableEntry DEF Init, Blank
    <2> QED BY <2>3, <2>5, <2>6
<1>2. Inv /\ Content /\ Pruned /\ [Next]_vars => Pruned'
    BY PrunedStep
<1> QED BY <1>1, <1>2, Invariance, PagesAreRegions, PTL DEF Spec

(* With nothing mapped, only the chain that leads to Saturn's page is left. *)
LEMMA OnlySaturnLeft ==
    ASSUME Inv, Content, op = "idle", mapped = {}, NEW m \in Mmus, NEW i \in Index,
           NEW u \in AllTables, l1[m][i] = Table(u), NEW j \in Index
    PROVE  /\ mem[u][j].kind # "block"
           /\ \A v \in AllTables: mem[u][j] = Table(v) /\ Used(v) =>
                 u = "core_ptable_l2" /\ v = "core_ptable_l3"
<1>1. \A p \in Pages: WalkOf(l1, mem, m, p) # NotMapped /\ Index1(p) = i /\ Index2(p) = j =>
          u = "core_ptable_l2" /\ mem[u][j] = Table("core_ptable_l3")
    <2> SUFFICES ASSUME NEW p \in Pages, WalkOf(l1, mem, m, p) # NotMapped,
                        Index1(p) = i, Index2(p) = j
                 PROVE  u = "core_ptable_l2" /\ mem[u][j] = Table("core_ptable_l3")
        OBVIOUS
    <2>1. \A r \in Regions: ~Maps(r, m, p)
        BY DEF Maps
    <2>2. m = "hyp" /\ p = SaturnPage
        BY <2>1 DEF Content, Saturns
    <2>3. Table(u) = Table("core_ptable_l2")
        BY <2>2 DEF Inv, Forest, Boot
    <2>4. u = "core_ptable_l2"
        BY <2>3, Names, TableEntry
    <2> QED BY <2>2, <2>4 DEF Inv, Forest, Boot
<1>2. InL1(u)
    BY DEF InL1
<1>3. \A p \in Pages: Index1(p) = i /\ Index2(p) = j =>
          /\ E1(l1, m, p) = Table(u) /\ E2(l1, mem, m, p) = mem[u][j]
          /\ E3(l1, mem, m, p) = mem[mem[u][j].addr][Index3(p)]
    BY TableEntry DEF E1, E2, E3
<1>4. mem[u][j] \in Entry
    BY DEF Inv, Shape
<1>5. ASSUME mem[u][j].kind = "block" PROVE FALSE
    <2>1. PICK p \in Pages: Index1(p) = i /\ Index2(p) = j
        BY PageAt
    <2>2. WalkOf(l1, mem, m, p) = Page2(mem[u][j], p)
        BY <1>3, <1>5, <2>1, PageIs, TableEntry DEF WalkOf
    <2>3. WalkOf(l1, mem, m, p) # NotMapped
        BY <1>4, <1>5, <2>2, BlockMaps DEF NotMapped
    <2> QED BY <1>1, <1>5, <2>1, <2>3, Names, TableEntry
<1>6. ASSUME NEW v \in AllTables, mem[u][j] = Table(v), Used(v)
      PROVE  u = "core_ptable_l2" /\ v = "core_ptable_l3"
    <2>1. PICK k \in Index: mem[v][k].kind # "none"
        BY <1>6 DEF Used
    <2>2. InMem(v) /\ ~InL1(v)
        BY <1>6 DEF InMem, Inv, Forest, Single
    <2>3. mem[v][k] \in Entry
        BY DEF Inv, Shape
    <2>4. mem[v][k].kind = "page" /\ mem[v][k].addr \in Nat
        BY <2>1, <2>2, <2>3, EntryKinds DEF Inv, Forest, Levels
    <2>5. PICK p \in Pages: Index1(p) = i /\ Index2(p) = j /\ Index3(p) = k
        BY PageAt
    <2>6. E1(l1, m, p).kind = "table" /\ E2(l1, mem, m, p).kind = "table" /\ E3(l1, mem, m, p) = mem[v][k]
        BY <1>3, <1>6, <2>5, TableEntry
    <2>7. WalkOf(l1, mem, m, p) = mem[v][k].addr
        BY <2>4, <2>6, PageIs DEF WalkOf
    <2>8. WalkOf(l1, mem, m, p) # NotMapped
        BY <2>4, <2>7 DEF NotMapped
    <2>9. u = "core_ptable_l2" /\ Table(v) = Table("core_ptable_l3")
        BY <1>1, <1>6, <2>5, <2>8
    <2> QED BY <2>9, Names, TableEntry
<1> QED BY <1>5, <1>6

LEMMA TablesReturn == ASSUME Inv, Content, Pruned PROVE AllTablesReturn
<1> SUFFICES ASSUME op = "idle", mapped = {} PROVE free = Tables
    BY DEF AllTablesReturn
<1>1. \A m \in Mmus, i \in Index: ~OnPath1(m, i) /\ ~Emptying(m)
    BY DEF OnPath1, Emptying
<1>2. ASSUME NEW v \in AllTables, InMem(v) PROVE Used(v) /\ v = "core_ptable_l3"
    <2>1. PICK u \in AllTables, j \in Index: mem[u][j] = Table(v)
        BY <1>2 DEF InMem
    <2>2. PICK m \in Mmus, i \in Index: l1[m][i] = Table(u)
        BY <2>1 DEF Inv, Forest, Levels, InL1
    <2>3. Used(v)
        BY <1>1, <2>1, <2>2, OnlySaturnLeft DEF Pruned, OnPath2
    <2> QED BY <2>1, <2>2, <2>3, OnlySaturnLeft
<1>3. ASSUME NEW u \in AllTables, InL1(u) PROVE u = "core_ptable_l2"
    <2>1. PICK m \in Mmus, i \in Index: l1[m][i] = Table(u)
        BY <1>3 DEF InL1
    <2>2. PICK j \in Index: mem[u][j].kind # "none"
        BY <1>1, <2>1 DEF Pruned, Used
    <2>3. mem[u][j] \in Entry
        BY DEF Inv, Shape
    <2>4. mem[u][j].kind = "table"
        BY <1>3, <2>1, <2>2, <2>3, EntryKinds, OnlySaturnLeft DEF Inv, Forest, Levels
    <2>5. PICK v \in AllTables: mem[u][j] = Table(v)
        BY <2>3, <2>4, EntryKinds
    <2>6. Used(v)
        BY <1>2, <2>5 DEF InMem
    <2> QED BY <2>1, <2>5, <2>6, OnlySaturnLeft
<1>4. \A t \in Tables: t \in AllTables /\ t \notin BootTables
    BY Names DEF BootTables
<1>5. \A t \in Tables: t \in free
    BY <1>2, <1>3, <1>4 DEF Inv, Forest, Referred, BootTables
<1> QED BY <1>5 DEF Inv, Shape

(* No table is shared, lost or handed out twice, none is kept once everything is unmapped,   *)
(* and mapping fails for want of tables only: for tables of every size, every pool and every *)
(* configuration of a board.                                                                 *)
THEOREM AllTablesAccounted == Spec => []TablesAccounted
<1>1. Inv /\ Content /\ Pruned => AllTablesReturn
    BY TablesReturn
<1>2. TableForest /\ AllTablesReturn /\ FaultMeansNoTables => TablesAccounted
    BY DEF TablesAccounted
<1> QED BY <1>1, <1>2, TablesFormForest, TablesAreNeeded, NoEmptyTables, Invariance,
           PagesAreRegions, PTL

-----------------------------------------------------------------------------
(* The rest of the types: no address in a table, and no page a call is at, is beyond the end *)
(* of memory.  A region ends inside it, and an aligned block that begins in it ends in it.   *)
Addressed(e) == e.kind \in {"block", "page"} => e.addr \in Pages

Addresses ==
    /\ \A m \in Mmus, i \in Index: Addressed(l1[m][i])
    /\ \A t \in AllTables, i \in Index:
          /\ Addressed(mem[t][i])
          /\ mem[t][i].kind = "block" => mem[t][i].addr * L2Pages \in Pages

Position ==
    /\ region \in Regions \union {NoRegion}
    /\ start \in 0 .. Entries * L1Pages
    /\ fault \in BOOLEAN

LEMMA SmallerPage ==
    ASSUME NEW p \in Pages, NEW n \in Nat \ {0}
    PROVE  p \div n \in Pages
<1>1. Entries * L1Pages \in Nat /\ p \in Nat /\ p < Entries * L1Pages
    BY MmuSizes DEF Pages, L1Pages
<1>2. PICK a \in Nat, r \in 0 .. n - 1: a = p \div n /\ p = n * a + r
    <2>1. p \div n \in Nat /\ p % n \in 0 .. n - 1 /\ p = n * (p \div n) + (p % n)
        BY <1>1, DivMod
    <2> QED BY <2>1
<1>3. a <= n * a
    OBVIOUS
<1>4. n * a <= p
    BY <1>2
<1> QED BY <1>1, <1>2, <1>3, <1>4 DEF Pages

LEMMA AddressesStep == ASSUME Inv, Addresses, [Next]_vars PROVE Addresses'
<1>1. op = "map" => Pa \in Pages
    <2> SUFFICES ASSUME op = "map" PROVE Pa \in Pages
        OBVIOUS
    <2>1. region \in Regions /\ Covers(region, start) /\ start \in Nat
        BY InRegion, IndexBlocks DEF Inv
    <2>2. region.pa + region.size - 1 \in Pages /\ Entries * L1Pages \in Nat
        BY <2>1, MmuConfiguration, MmuSizes DEF L1Pages
    <2> QED BY <2>1, <2>2, RegionType DEF Pa, Covers, Pages
<1>2. None.kind = "none" /\ \A t \in AllTables: Table(t).kind = "table"
    BY LeafEntry, TableEntry
<1>3. Addressed(None) /\ \A t \in AllTables: Addressed(Table(t))
    BY <1>2 DEF Addressed
<1>4. op \in {"map", "unmap"} =>
          /\ region.mmu \in Mmus /\ Index1(start) \in Index
          /\ Index2(start) \in Index /\ Index3(start) \in Index
    BY Reached
<1>5. free \subseteq AllTables
    BY Names DEF Inv, Shape
<1>6. CASE SetsL1
    <2>1. PICK e \in Entry: /\ l1' = [l1 EXCEPT ![region.mmu][Index1(start)] = e] /\ mem' = mem
                            /\ (op = "map" /\ e = Block(Pa \div L1Pages)) \/ e = None
        BY <1>6 DEF SetsL1
    <2>2. Addressed(e)
        BY <1>1, <1>3, <2>1, SmallerPage, PageCounts DEF Addressed, Block
    <2>3. \A m \in Mmus, i \in Index: l1'[m][i] \in {e, l1[m][i]}
        BY <2>1 DEF Inv, Shape
    <2> QED BY <2>1, <2>2, <2>3 DEF Addresses
<1>7. CASE SetsL2
    <2>1. PICK e \in Entry: /\ mem' = [mem EXCEPT ![L1Entry.addr][Index2(start)] = e] /\ l1' = l1
                            /\ \/ op = "map" /\ Fits(L2Pages) /\ e = Block(Pa \div L2Pages)
                               \/ e = None
        BY <1>7 DEF SetsL2
    <2>2. Addressed(e)
        BY <1>1, <1>3, <2>1, SmallerPage, PageCounts DEF Addressed, Block
    <2>3. ASSUME e.kind = "block" PROVE e.addr * L2Pages \in Pages
        <3>1. op = "map" /\ Pa % L2Pages = 0 /\ e.addr = Pa \div L2Pages
            BY <1>2, <2>1, <2>3 DEF Fits, Block
        <3>2. Pa \in Nat /\ L2Pages \in Nat \ {0}
            BY <1>1, <3>1, IndexBlocks, PageCounts
        <3>3. PICK a \in Nat: a = Pa \div L2Pages
            BY <3>2, DivMod
        <3>4. Pa = L2Pages * a
            BY <3>1, <3>2, <3>3, DivMod
        <3>5. L2Pages * a = a * L2Pages
            BY <3>2
        <3> QED BY <1>1, <3>1, <3>3, <3>4, <3>5
    <2>4. \A t \in AllTables, i \in Index: mem'[t][i] \in {e, mem[t][i]}
        BY <2>1 DEF Inv, Shape
    <2> QED BY <2>1, <2>2, <2>3, <2>4 DEF Addresses
<1>8. CASE SetsL3
    <2>1. PICK e \in Entry: /\ mem' = [mem EXCEPT ![L2Entry.addr][Index3(start)] = e] /\ l1' = l1
                            /\ (op = "map" /\ e = Page(Pa)) \/ e = None
        BY <1>8 DEF SetsL3
    <2>2. Addressed(e) /\ e.kind # "block"
        BY <1>1, <1>2, <2>1 DEF Addressed, Page
    <2>3. \A t \in AllTables, i \in Index: mem'[t][i] \in {e, mem[t][i]}
        BY <2>1 DEF Inv, Shape
    <2> QED BY <2>1, <2>2, <2>3 DEF Addresses
<1>9. CASE LinksL1
    <2>1. PICK t \in free: l1' = [l1 EXCEPT ![region.mmu][Index1(start)] = Table(t)] /\ mem' = mem
        BY <1>9 DEF LinksL1
    <2>2. \A m \in Mmus, i \in Index: l1'[m][i] \in {Table(t), l1[m][i]}
        BY <2>1 DEF Inv, Shape
    <2> QED BY <1>3, <1>5, <2>1, <2>2 DEF Addresses
<1>10. CASE LinksL2
    <2>1. PICK t \in free: /\ mem' = [mem EXCEPT ![L1Entry.addr][Index2(start)] = Table(t)]
                           /\ l1' = l1
        BY <1>10 DEF LinksL2
    <2>2. \A u \in AllTables, i \in Index: mem'[u][i] \in {Table(t), mem[u][i]}
        BY <2>1 DEF Inv, Shape
    <2> QED BY <1>2, <1>3, <1>5, <2>1, <2>2 DEF Addresses
<1>11. CASE Prunes
    <2>1. \A m \in Mmus, i \in Index: l1'[m][i] \in {None, l1[m][i]}
        BY <1>11 DEF Prunes, Free_Empty_Tables, Inv, Shape
    <2>2. \A u \in AllTables, i \in Index: mem'[u][i] \in {None, mem[u][i]}
        BY <1>11, PruneFacts DEF Prunes, Free_Empty_Tables, Inv
    <2> QED BY <1>2, <1>3, <2>1, <2>2 DEF Addresses
<1>12. CASE UNCHANGED <<l1, mem>>
    BY <1>12 DEF Addresses
<1>13. Finds \/ Starts \/ Stays => UNCHANGED <<l1, mem>>
    BY DEF Finds, Starts, Stays, MemoryMap, MemoryUnmap, tables
<1> QED BY <1>6, <1>7, <1>8, <1>9, <1>10, <1>11, <1>12, <1>13, Steps

LEMMA PositionStep ==
    ASSUME Inv, Inv', Owned, Content, Position, [Next]_vars
    PROVE  Position'
<1>1. \A p \in Pages: p \in Nat /\ p \in 0 .. Entries * L1Pages /\ p + 1 \in 0 .. Entries * L1Pages
    BY MmuSizes DEF Pages, L1Pages
<1>2. 0 \in 0 .. Entries * L1Pages
    BY MmuSizes DEF L1Pages
<1>3. region' \in Regions \union {NoRegion} /\ fault' \in BOOLEAN
    <2> USE DEF Position, Fail, MapNext, UnmapNext
    <2>1. CASE \E r \in Regions: MemoryMap(r) \/ MemoryUnmap(r)
        BY <2>1 DEF MemoryMap, MemoryUnmap
    <2>2. CASE Map_L1_Block \/ Map_L1_PTable \/ Map_L2_Block \/ Map_L2_PTable \/ Map_L3_Page
        BY <2>2 DEF Map_L1_Block, Map_L1_PTable, Map_L2_Block, Map_L2_PTable, Map_L3_Page
    <2>3. CASE UnmapL1Block \/ UnmapL2Block \/ UnmapL3Page
        BY <2>3 DEF UnmapL1Block, UnmapL2Block, UnmapL3Page
    <2>4. CASE Free_Empty_Tables
        BY <2>4 DEF Free_Empty_Tables
    <2>5. CASE Halted \/ UNCHANGED vars
        BY <2>5 DEF Halted, vars
    <2> QED BY <2>1, <2>2, <2>3, <2>4, <2>5 DEF Next
<1>4. CASE op' \in {"map", "unmap"}
    <2>1. region' \in Regions /\ start' \in Nat /\ region'.va <= start' /\ start' < region'.va + region'.size
        BY <1>4 DEF Inv, Shape, Calls, End
    <2>2. start' \in Pages
        BY <2>1, RegionType DEF Covers
    <2> QED BY <1>1, <1>3, <2>2 DEF Position
<1>5. CASE op' = "free"
    <2>1. CASE start' = start
        BY <1>3, <2>1 DEF Position
    <2>2. CASE start' # start
        <3>1. op = "unmap" /\ (UnmapL1Block \/ UnmapL2Block \/ UnmapL3Page)
            BY <1>5, <2>2
            DEF Next, vars, Halted, Fail, MemoryMap, MemoryUnmap, MapNext, Free_Empty_Tables, Mapping,
                L2Reached, Map_L1_Block, Map_L1_PTable, Map_L2_Block, Map_L2_PTable, Map_L3_Page,
                Unmapping, UnmapL1Block, UnmapL2Block, UnmapL3Page
        <3>2. /\ start \in Pages /\ None \in Entry
              /\ L1Pages \in {L1Pages, L2Pages} /\ L2Pages \in {L1Pages, L2Pages}
            BY <3>1, InRegion, LeafEntry DEF Inv
        <3>3. ASSUME NEW n \in {L1Pages, L2Pages}, start % n = 0 PROVE start + n \in 0 .. Entries * L1Pages
            <4>1. n \in Nat \ {0} /\ start \in Nat
                BY <1>1, <3>2, BlockPages
            <4>2. First(start, n) = start
                BY <3>3, <4>1, BlockOf
            <4>3. start + n - 1 \in Nat /\ start \div n = (start + n - 1) \div n
                <5>1. PICK q \in Nat: q = start + n - 1 /\ First(start, n) <= q /\ q < First(start, n) + n
                    BY <4>1, <4>2
                <5>2. start \div n = q \div n
                    BY <4>1, <5>1, BlockOf
                <5> QED BY <5>1, <5>2
            <4>4. start + n - 1 \in Pages
                BY <3>2, <4>3, BlockPages
            <4>5. (start + n - 1) + 1 \in 0 .. Entries * L1Pages
                BY <1>1, <4>4
            <4> QED BY <4>1, <4>5
        <3>4. CASE UnmapL1Block
            <4>1. SetsL1 /\ start' = start + L1Pages
                BY <2>2, <3>1, <3>2, <3>4 DEF UnmapL1Block, SetL1, UnmapNext, Fail, SetsL1
            <4> QED BY <1>3, <3>1, <3>2, <3>3, <4>1, UnmapAligned DEF Position
        <3>5. CASE UnmapL2Block
            <4>1. SetsL2 /\ start' = start + L2Pages
                BY <2>2, <3>1, <3>2, <3>5 DEF UnmapL2Block, SetL2, UnmapNext, Fail, SetsL2
            <4> QED BY <1>3, <3>1, <3>2, <3>3, <4>1, UnmapAligned DEF Position
        <3>6. CASE UnmapL3Page
            <4>1. start' = start + 1
                BY <2>2, <3>6 DEF UnmapL3Page, UnmapNext, Fail
            <4> QED BY <1>1, <1>3, <3>2, <4>1 DEF Position
        <3> QED BY <3>1, <3>4, <3>5, <3>6
    <2> QED BY <2>1, <2>2
<1>6. CASE op' = "idle"
    <2>1. start' \in {start, 0}
        BY <1>6
        DEF Next, vars, Halted, Fail, MemoryMap, MemoryUnmap, MapNext, UnmapNext, Free_Empty_Tables,
            Mapping, L2Reached, Map_L1_Block, Map_L1_PTable, Map_L2_Block, Map_L2_PTable,
            Map_L3_Page, Unmapping, UnmapL1Block, UnmapL2Block, UnmapL3Page
    <2> QED BY <1>2, <1>3, <2>1 DEF Position
<1> QED BY <1>4, <1>5, <1>6 DEF Inv, Shape

(* The tables hold entries for pages that exist, and a call stays inside the address space. *)
THEOREM TypeCorrect == Spec => []TypeOK
<1>1. Init => Addresses /\ Position
    <2> SUFFICES ASSUME Init PROVE Addresses /\ Position
        OBVIOUS
    <2>1. /\ None.kind = "none" /\ \A t \in AllTables: Table(t).kind = "table"
          /\ Page(SaturnPage).kind = "page" /\ Page(SaturnPage).addr = SaturnPage
        BY Names, LeafEntry, TableEntry DEF Page
    <2>2. \A m \in Mmus, i \in Index: l1[m][i] \in {None, Table("core_ptable_l2")}
        BY Names DEF Init, Blank
    <2>3. \A t \in AllTables, i \in Index:
              mem[t][i] \in {None, Table("core_ptable_l3"), Page(SaturnPage)}
        BY Names DEF Init, Blank
    <2>4. 0 \in 0 .. Entries * L1Pages
        BY MmuSizes DEF L1Pages
    <2>5. Addresses
        BY <2>1, <2>2, <2>3, Names DEF Addresses, Addressed
    <2> QED BY <2>4, <2>5 DEF Init, Position
<1>2. Inv /\ Inv' /\ Owned /\ Content /\ Addresses /\ Position /\ [Next]_vars
          => Addresses' /\ Position'
    BY AddressesStep, PositionStep
<1>3. Inv /\ Addresses /\ Position => TypeOK
    <2> SUFFICES ASSUME Inv, Addresses, Position PROVE TypeOK
        OBVIOUS
    <2>1. ASSUME NEW e \in Entry, Addressed(e) PROVE e \in EntryType
        <3>1. CASE e = None \/ \E t \in AllTables: e = Table(t)
            BY <3>1 DEF EntryType
        <3>2. CASE \E a \in Nat: e = Block(a)
            BY <2>1, <3>2 DEF EntryType, Addressed, Block
        <3>3. CASE \E a \in Nat: e = Page(a)
            BY <2>1, <3>3 DEF EntryType, Addressed, Page
        <3> QED BY <3>1, <3>2, <3>3 DEF Entry
    <2>2. l1 \in [Mmus -> [Index -> EntryType]]
        <3>1. \A m \in Mmus, i \in Index: l1[m][i] \in EntryType
            BY <2>1 DEF Inv, Shape, Addresses
        <3> QED BY <3>1 DEF Inv, Shape
    <2>3. mem \in [AllTables -> [Index -> EntryType]]
        <3>1. \A t \in AllTables, i \in Index: mem[t][i] \in EntryType
            BY <2>1 DEF Inv, Shape, Addresses
        <3> QED BY <3>1 DEF Inv, Shape
    <2> QED BY <2>2, <2>3 DEF Inv, Shape, Calls, Addresses, Position, TypeOK
<1> QED BY <1>1, <1>2, <1>3, Invariance, BlocksOwned, PagesAreRegions, PTL DEF Spec
=============================================================================
