---------------------------------- MODULE Mmu ----------------------------------
(***************************************************************************)
(* Saturn's two sets of translation tables, its own (EL2) and the guest's  *)
(* (stage 2), and the pool of heap pages both take their tables from.      *)
(*                                                                         *)
(* MemoryMap covers a region with the largest blocks that fit, one round   *)
(* of its loop after another; MemoryUnmap takes them away and frees the    *)
(* tables that became empty.  Here an address is the number of a 4 KB page *)
(* and a table has Entries entries (512 in the hardware), so a level 2     *)
(* block is Entries pages and a level 1 block Entries * Entries.  A call   *)
(* runs to its end: nothing that can interrupt it touches a table.         *)
(*                                                                         *)
(* An operator whose name starts with Bug is not part of the model: it is  *)
(* the definition after it with a mistake the code could have, and shows   *)
(* that a property would notice.                                           *)
(***************************************************************************)
EXTENDS Integers, FiniteSets

CONSTANTS
    Entries,    \* entries in a table, _ptable_size
    Tables,     \* pages of the heap that can become tables
    Regions,    \* what is ever mapped: [mmu, va, pa, size], in pages
    SaturnPage  \* the page of Saturn's own image, mapped at boot

Mmus    == {"hyp", "guest"}
L2Pages == Entries
L1Pages == Entries * Entries
Pages   == 0 .. Entries * L1Pages - 1
Index   == 0 .. Entries - 1

\* core_ptable_l2 and core_ptable_l3, statically allocated.
BootTables == {"core_ptable_l2", "core_ptable_l3"}
AllTables  == Tables \union BootTables

ASSUME MmuSizes == Entries \in Nat \ {0, 1} /\ SaturnPage \in Pages
ASSUME MmuTables == Tables \intersect (BootTables \union Nat) = {}
ASSUME MmuRegions ==
    Regions \subseteq [mmu : Mmus, va : Pages, pa : Pages, size : Pages \ {0}]

Covers(r, p) == r.va <= p /\ p < r.va + r.size

\* A board's configuration: regions lie inside the address space, those of one set of
\* tables do not overlap, and none of them covers Saturn itself.
ASSUME MmuConfiguration ==
    \A r \in Regions:
        /\ r.va + r.size - 1 \in Pages /\ r.pa + r.size - 1 \in Pages
        /\ ~(r.mmu = "hyp" /\ Covers(r, SaturnPage))
        /\ \A s \in Regions \ {r}:
              r.mmu = s.mmu => ~\E p \in Pages: Covers(r, p) /\ Covers(s, p)

\* Map_L1_Block puts the number of the 1 GB block where the hardware expects one in 2 MB
\* units, so a level 1 block is right at physical address 0 only, and is used only there.
ASSUME MmuL1Blocks ==
    \A r \in Regions, p \in Pages:
        p % L1Pages = 0 /\ Covers(r, p) /\ Covers(r, p + L1Pages - 1)
            => r.pa + (p - r.va) = 0 \/ (r.pa + (p - r.va)) % L1Pages # 0

VARIABLES
    l1,         \* the level 1 table of each MMU, PTable1
    mem,        \* contents of every other table
    free,       \* tables in the heap
    op,         \* the call in progress: "idle", "map", "unmap", or "free" at its end
    region,     \* its region
    start,      \* the page its loop has reached
    mapped,     \* the regions whose MemoryMap is complete
    fault       \* Fault() was called: execution stopped

tables == <<l1, mem, free>>
vars   == <<tables, op, region, start, mapped, fault>>

NoRegion == [mmu |-> "hyp", va |-> 0, pa |-> 0, size |-> 0]

None      == [kind |-> "none", addr |-> 0]
Block(a)  == [kind |-> "block", addr |-> a]
Page(a)   == [kind |-> "page", addr |-> a]
Table(t)  == [kind |-> "table", addr |-> t]
EntryType == {None} \union {Block(a) : a \in Pages} \union {Page(a) : a \in Pages}
             \union {Table(t) : t \in AllTables}

Blank == [i \in Index |-> None]

Index1(p) == (p \div L1Pages) % Entries
Index2(p) == (p \div L2Pages) % Entries
Index3(p) == p % Entries

\* head.S: one chain of static tables maps Saturn's image onto itself.
Init ==
    /\ l1 = [m \in Mmus |-> IF m = "hyp"
                            THEN [Blank EXCEPT ![Index1(SaturnPage)] = Table("core_ptable_l2")]
                            ELSE Blank]
    /\ mem = [t \in AllTables |->
                 CASE t = "core_ptable_l2" ->
                          [Blank EXCEPT ![Index2(SaturnPage)] = Table("core_ptable_l3")]
                   [] t = "core_ptable_l3" ->
                          [Blank EXCEPT ![Index3(SaturnPage)] = Page(SaturnPage)]
                   [] OTHER -> Blank]
    /\ free = Tables
    /\ op = "idle"
    /\ region = NoRegion
    /\ start = 0
    /\ mapped = {}
    /\ fault = FALSE

-----------------------------------------------------------------------------
(* The entries the loop of the call in progress looks at. *)

Pa      == region.pa + (start - region.va)
End     == region.va + region.size
L1Entry == l1[region.mmu][Index1(start)]
L2Entry == mem[L1Entry.addr][Index2(start)]
L3Entry == mem[L2Entry.addr][Index3(start)]

SetL1(e) == l1' = [l1 EXCEPT ![region.mmu][Index1(start)] = e]
SetL2(e) == mem' = [mem EXCEPT ![L1Entry.addr][Index2(start)] = e]
SetL3(e) == mem' = [mem EXCEPT ![L2Entry.addr][Index3(start)] = e]

\* Fault() leaves the call in the middle of a region.
Fail == fault' = TRUE /\ UNCHANGED <<tables, op, region, start, mapped>>

-----------------------------------------------------------------------------
(* MemoryMap. *)

MemoryMap(r) ==
    /\ op = "idle" /\ ~fault
    /\ r \notin mapped
    /\ op' = "map"
    /\ region' = r
    /\ start' = r.va
    /\ UNCHANGED <<tables, mapped, fault>>

Mapping == op = "map" /\ ~fault

\* A block of n pages fits when both addresses are aligned and enough is left.
BugFitsIgnoresSize(n) == start % n = 0 /\ Pa % n = 0

BugFitsIgnoresPa(n) == start % n = 0 /\ End - start >= n

Fits(n) == start % n = 0 /\ Pa % n = 0 /\ End - start >= n

MapNext(n) ==
    /\ UNCHANGED fault
    /\ IF start + n < End
       THEN start' = start + n /\ UNCHANGED <<op, region, mapped>>
       ELSE /\ op' = "idle"
            /\ region' = NoRegion
            /\ start' = 0
            /\ mapped' = mapped \union {region}

\* Map_L1_Block; the address field counts 2 MB units, and gets the number of the 1 GB block.
Map_L1_Block ==
    /\ Mapping /\ Fits(L1Pages)
    /\ \/ L1Entry.kind = "none" /\ SetL1(Block(Pa \div L1Pages))
          /\ UNCHANGED <<mem, free>> /\ MapNext(L1Pages)
       \/ L1Entry.kind = "block" /\ UNCHANGED tables /\ MapNext(L1Pages)
       \/ L1Entry.kind = "table" /\ Fail

\* Map_L1_PTable: a level 2 table where there is none; the heap may be out of pages.
Map_L1_PTable ==
    /\ Mapping /\ ~Fits(L1Pages)
    /\ \/ /\ L1Entry.kind = "none"
          /\ \E t \in free:
                /\ free' = free \ {t}
                /\ mem' = [mem EXCEPT ![t] = Blank]
                /\ SetL1(Table(t))
          /\ UNCHANGED <<op, region, start, mapped, fault>>
       \/ L1Entry.kind = "none" /\ free = {} /\ Fail
       \/ L1Entry.kind = "block" /\ Fail

L2Reached == Mapping /\ ~Fits(L1Pages) /\ L1Entry.kind = "table"

BugMap_L2_BlockUnshifted ==
    /\ L2Reached /\ Fits(L2Pages)
    /\ \/ L2Entry.kind = "none" /\ SetL2(Block(Pa))
          /\ UNCHANGED <<l1, free>> /\ MapNext(L2Pages)
       \/ L2Entry.kind = "block" /\ UNCHANGED tables /\ MapNext(L2Pages)
       \/ L2Entry.kind = "table" /\ Fail

Map_L2_Block ==
    /\ L2Reached /\ Fits(L2Pages)
    /\ \/ L2Entry.kind = "none" /\ SetL2(Block(Pa \div L2Pages))
          /\ UNCHANGED <<l1, free>> /\ MapNext(L2Pages)
       \/ L2Entry.kind = "block" /\ UNCHANGED tables /\ MapNext(L2Pages)
       \/ L2Entry.kind = "table" /\ Fail

\* Map_L2_PTable, on the way to a page: a level 3 table where there is none.
Map_L2_PTable ==
    /\ L2Reached /\ ~Fits(L2Pages)
    /\ \/ /\ L2Entry.kind = "none"
          /\ \E t \in free:
                /\ free' = free \ {t}
                /\ mem' = [mem EXCEPT ![t] = Blank,
                                      ![L1Entry.addr][Index2(start)] = Table(t)]
          /\ UNCHANGED <<l1, op, region, start, mapped, fault>>
       \/ L2Entry.kind = "none" /\ free = {} /\ Fail
       \/ L2Entry.kind = "block" /\ Fail

\* Map_L3_Page; a page that is mapped already keeps its mapping.
Map_L3_Page ==
    /\ L2Reached /\ ~Fits(L2Pages)
    /\ L2Entry.kind = "table"
    /\ IF L3Entry.kind = "none" THEN SetL3(Page(Pa)) ELSE UNCHANGED mem
    /\ UNCHANGED <<l1, free>>
    /\ MapNext(1)

-----------------------------------------------------------------------------
(* MemoryUnmap. *)

MemoryUnmap(r) ==
    /\ op = "idle" /\ ~fault
    /\ r \in mapped
    /\ op' = "unmap"
    /\ region' = r
    /\ start' = r.va
    /\ UNCHANGED <<tables, mapped, fault>>

Unmapping == op = "unmap" /\ ~fault

UnmapNext(n) ==
    /\ UNCHANGED <<free, region, mapped, fault>>
    /\ start' = start + n
    /\ op' = IF start + n < End THEN op ELSE "free"

\* One round per level: an entry that is not there, "attempt to free non-mapped level ...".
UnmapL1Block ==
    /\ Unmapping
    /\ L1Entry.kind # "table"
    /\ IF L1Entry.kind = "block"
       THEN SetL1(None) /\ UNCHANGED mem /\ UnmapNext(L1Pages)
       ELSE Fail

UnmapL2Block ==
    /\ Unmapping
    /\ L1Entry.kind = "table" /\ L2Entry.kind # "table"
    /\ IF L2Entry.kind = "block"
       THEN SetL2(None) /\ UNCHANGED l1 /\ UnmapNext(L2Pages)
       ELSE Fail

UnmapL3Page ==
    /\ Unmapping
    /\ L1Entry.kind = "table" /\ L2Entry.kind = "table"
    /\ IF L3Entry.kind = "page"
       THEN SetL3(None) /\ UNCHANGED l1 /\ UnmapNext(1)
       ELSE Fail

(***************************************************************************)
(* Free_Empty_Tables.  The scan of a level 2 table ends at its first       *)
(* block, so an empty level 3 table behind a block is kept.                *)
(***************************************************************************)
Scanned(t)  == {i \in Index : \A j \in Index: mem[t][j].kind = "block" => i < j}
EmptyL3(t)  == {i \in Scanned(t) : mem[t][i].kind = "table" /\ mem[mem[t][i].addr] = Blank}
L2After(t)  == [i \in Index |-> IF i \in EmptyL3(t) THEN None ELSE mem[t][i]]

L1Tables == {i \in Index : l1[region.mmu][i].kind = "table"}
L2Of(i)  == l1[region.mmu][i].addr
EmptyL2  == {i \in L1Tables : L2After(L2Of(i)) = Blank}
FreedTables ==
    {L2Of(i) : i \in EmptyL2} \union
    UNION {{mem[L2Of(i)][j].addr : j \in EmptyL3(L2Of(i))} : i \in L1Tables}

BugFree_Empty_TablesKeepsEntry ==
    /\ op = "free" /\ ~fault
    /\ UNCHANGED l1
    /\ mem' = [t \in AllTables |-> IF t \in {L2Of(i) : i \in L1Tables} THEN L2After(t) ELSE mem[t]]
    /\ free' = free \union (FreedTables \intersect Tables)
    /\ op' = "idle"
    /\ region' = NoRegion
    /\ start' = 0
    /\ mapped' = mapped \ {region}
    /\ UNCHANGED fault

\* Free_Table hands a page back; the heap ignores one that is not its own.
Free_Empty_Tables ==
    /\ op = "free" /\ ~fault
    /\ l1' = [l1 EXCEPT ![region.mmu] = [i \in Index |-> IF i \in EmptyL2 THEN None ELSE @[i]]]
    /\ mem' = [t \in AllTables |-> IF t \in {L2Of(i) : i \in L1Tables} THEN L2After(t) ELSE mem[t]]
    /\ free' = free \union (FreedTables \intersect Tables)
    /\ op' = "idle"
    /\ region' = NoRegion
    /\ start' = 0
    /\ mapped' = mapped \ {region}
    /\ UNCHANGED fault

Halted == fault /\ UNCHANGED vars

-----------------------------------------------------------------------------
Next ==
    \/ \E r \in Regions: MemoryMap(r) \/ MemoryUnmap(r)
    \/ Map_L1_Block \/ Map_L1_PTable \/ Map_L2_Block \/ Map_L2_PTable \/ Map_L3_Page
    \/ UnmapL1Block \/ UnmapL2Block \/ UnmapL3Page
    \/ Free_Empty_Tables
    \/ Halted

Spec == Init /\ [][Next]_vars

-----------------------------------------------------------------------------
(***************************************************************************)
(* What the hardware makes of the tables: the output address field of a    *)
(* block counts 2 MB units, of which a 1 GB block ignores the low bits.    *)
(***************************************************************************)
NotMapped == -1

WalkL3(e, p) == IF e.kind = "page" THEN e.addr ELSE NotMapped

WalkL2(e, p) ==
    CASE e.kind = "none"  -> NotMapped
      [] e.kind = "block" -> e.addr * L2Pages + (p % L2Pages)
      [] e.kind = "table" -> WalkL3(mem[e.addr][Index3(p)], p)

WalkL1(e, p) ==
    CASE e.kind = "none"  -> NotMapped
      [] e.kind = "block" -> (e.addr \div Entries) * L1Pages + (p % L1Pages)
      [] e.kind = "table" -> WalkL2(mem[e.addr][Index2(p)], p)

Walk(m, p) == WalkL1(l1[m][Index1(p)], p)

\* What a page should translate to, given the regions that are mapped.
Configured(m, p) ==
    IF m = "hyp" /\ p = SaturnPage THEN p
    ELSE IF \E r \in mapped: r.mmu = m /\ Covers(r, p)
         THEN LET r == CHOOSE r \in mapped: r.mmu = m /\ Covers(r, p) IN r.pa + (p - r.va)
         ELSE NotMapped

TypeOK ==
    /\ l1 \in [Mmus -> [Index -> EntryType]]
    /\ mem \in [AllTables -> [Index -> EntryType]]
    /\ \A t \in AllTables, i \in Index:
          mem[t][i].kind = "block" => mem[t][i].addr * L2Pages \in Pages
    /\ free \subseteq Tables
    /\ op \in {"idle", "map", "unmap", "free"}
    /\ region \in Regions \union {NoRegion}
    /\ start \in 0 .. Entries * L1Pages
    /\ mapped \subseteq Regions
    /\ fault \in BOOLEAN

\* The places that can refer to a table.
L1Places == [mmu : Mmus, i : Index]
L2Places == [t : AllTables, i : Index]
RefsOf(t) ==
    {x \in L1Places : l1[x.mmu][x.i] = Table(t)} \union
    {x \in L2Places : mem[x.t][x.i] = Table(t)}

TableForest ==
    \A t \in AllTables:
        /\ Cardinality(RefsOf(t)) = IF t \in free THEN 0 ELSE 1
        /\ t \in free => mem[t] = Blank

AllTablesReturn == op = "idle" /\ mapped = {} => free = Tables

FaultMeansNoTables == fault => op = "map" /\ free = {}

\* The tables of both MMUs form one forest over one pool: a table is referred to from one
\* entry if it is in use and from none if it is free, and a free table is blank.  Once
\* everything of an MMU is unmapped, all its tables are back in the heap, also those
\* Free_Empty_Tables had kept behind a block; and regions that do not overlap never get in
\* each other's way: the only fault is running out of tables while mapping.
TablesAccounted == TableForest /\ AllTablesReturn /\ FaultMeansNoTables

\* Between calls both address spaces are exactly what the mapped regions say, Saturn's own
\* page included, in whatever order regions came and went.
TranslationIsConfigured ==
    op = "idle" /\ ~fault => \A m \in Mmus, p \in Pages: Walk(m, p) = Configured(m, p)

\* A call never changes, not even for a moment, what a page outside its region translates to.
OnlyOwnPages ==
    [][\A m \in Mmus, p \in Pages:
           Walk(m, p)' # Walk(m, p) => region.mmu = m /\ Covers(region, p)]_vars
=============================================================================
