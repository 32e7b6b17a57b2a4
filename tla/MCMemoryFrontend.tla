------------------------- MODULE MCMemoryFrontend ---------------------------
(* Instances of MemoryFrontend for TLC: a page that software turns        *)
(* read-only by a store to the page table, or that maps a device.           *)
EXTENDS MemoryFrontend

Page(v, w, ad, to) == [v |-> v, w |-> w, ad |-> ad, to |-> to]
Closure(ps) == {[p EXCEPT !.ad = p.ad \cup b] : p \in ps, b \in SUBSET Bits}
WritablePage == Page(TRUE, TRUE, {}, "ddr")
ReadOnlyPage == Page(TRUE, FALSE, {"A"}, "ddr")
DevicePage == Page(TRUE, TRUE, {"A"}, "io")
TwoPages == {WritablePage, ReadOnlyPage}
TwoPagePte == Closure(TwoPages)
OnePage == {DevicePage}
OnePagePte == Closure(OnePage)

Fetches == {[bare |-> FALSE, canon |-> TRUE, to |-> "ddr"],
            [bare |-> TRUE, canon |-> TRUE, to |-> "rom"]}

Operation(op, bare, to, new) ==
  [op |-> op, bare |-> bare, canon |-> TRUE, to |-> to, new |-> new]
Bare(op, to) == Operation(op, TRUE, to, WritablePage)
Translated(op) == Operation(op, FALSE, "ddr", WritablePage)
Fence == [op |-> "FENCE"]
\* Software makes the page read-only with an M-mode or direct-mapped store.
Remaps == {Operation("STORE", TRUE, "pt", ReadOnlyPage)}

CoreOps == Remaps \cup {Translated("STORE"), Bare("LOAD", "io"), Bare("AMO", "io"),
                        Bare("CBO", "ddr"), Fence}
AmoOps == {Translated("AMO")}
FenceOps == {Fence}
=============================================================================
