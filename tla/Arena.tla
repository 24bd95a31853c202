------------------------------- MODULE Arena -------------------------------
(***************************************************************************)
(* What the interface Allocator (include/core/allocator.h) promises: alloc *)
(* hands out memory nobody else holds, clear takes all of it back at once, *)
(* and there is no other way to give memory back.                          *)
(***************************************************************************)
EXTENDS Integers

CONSTANTS Blocks,        \* addresses of heap blocks
          Offsets,       \* positions in a block
          Sizes          \* sizes asked for

VARIABLE regions         \* what is handed out: bytes lo .. hi - 1 of a block

Region == [block: Blocks, lo: Offsets, hi: Offsets]

Apart(r, s) == r.block # s.block \/ r.hi <= s.lo \/ s.hi <= r.lo

Init == regions = {}

Alloc == \E n \in Sizes : \E r \in Region :
           /\ r.hi = r.lo + n
           /\ \A s \in regions : Apart(r, s)
           /\ regions' = regions \cup {r}

Clear == regions' = {}

Next == Alloc \/ Clear

Spec == Init /\ [][Next]_regions
=============================================================================
