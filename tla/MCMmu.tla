-------------------------------- MODULE MCMmu --------------------------------
(***************************************************************************)
(* Regions for Mmu.tla, with three entries in a table: 27 pages, level 2   *)
(* blocks of 3 and level 1 blocks of 9.                                    *)
(***************************************************************************)
EXTENDS Mmu, TLC

R(m, v, p, n) == [mmu |-> m, va |-> v, pa |-> p, size |-> n]

\* The guest: pages before a block and the block, in one level 2 table; pages that cannot
\* use blocks and span two level 1 entries; a level 1 block of physical address 0, the one
\* address a level 1 block gets right.  Saturn: a block and pages next to its own image, in
\* the level 2 table built at boot.
SmallRegions == {
    R("guest", 1, 1, 2), R("guest", 3, 6, 3), R("guest", 7, 2, 5), R("guest", 18, 0, 9),
    R("hyp", 9, 9, 3), R("hyp", 12, 12, 2) }

TableSymmetry == Permutations(Tables)
=============================================================================
