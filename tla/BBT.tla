-------------------------------- MODULE BBT --------------------------------
(***************************************************************************)
(* The bad-block table back end of the NAND bad-block layer                 *)
(* (mtk_bmt_bbt.c), with the calls of the MTD front end (mtk_bmt.c) that     *)
(* lead to it.  One bit per block says whether it is bad; within a remap     *)
(* range the logical blocks lie on the good blocks in order, so that a block *)
(* that goes bad moves those behind it.  The table lives in one block at the *)
(* end of the chip, which is erased to be written again.                     *)
(*                                                                          *)
(* A block is the unit of data; a step is one operation on the chip, and the *)
(* power may be cut between any two.                                         *)
(***************************************************************************)
EXTENDS Integers, FiniteSets

CONSTANTS
    TotalBlks,   \* bmtd.total_blks
    Ranges,      \* mediatek,bmt-remap-range, as <<first block, end>>
    Homes,       \* the blocks where the factory may have put the table
    MaxFaults,   \* bound: operations that fail, blocks that decay, requests of debugfs
    MaxCuts      \* bound: power cuts

Blocks  == 0..(TotalBlks - 1)
Logical == 0..(TotalBlks - 5)      \* mtd->size shrinks by four blocks
Scanned == (TotalBlks - 5)..(TotalBlks - 1)

ASSUME SizeAssumption  == TotalBlks \in Nat /\ TotalBlks > 5
ASSUME RangeAssumption ==
    /\ Ranges # {}
    /\ \A r \in Ranges : r[1] \in Logical /\ r[2] \in Nat /\ r[1] < r[2] /\ r[2] <= TotalBlks - 4
    /\ \A r, q \in Ranges : r # q => r[2] <= q[1] \/ q[2] <= r[1]
\* The scan reaches the last block of MTD users too; a table there is left out.
ASSUME HomeAssumption  == Homes # {} /\ Homes \subseteq Scanned \ Logical
ASSUME BoundAssumption == MaxFaults \in Nat /\ MaxCuts \in Nat

VARIABLES
    cells,      \* the chip: what a block holds
    marked,     \* the chip: blocks with the bad-block marker
    bad,        \* bmtd.bbt_buf
    home,       \* bmtd.bmt_blk_idx
    pc, req,    \* the request under way, and where it is
    kept,       \* history: logical blocks whose data the driver has to keep
    spoiled,    \* history: what happened to the table on the chip
    faults, cuts

flash == <<cells, marked>>
mem   == <<bad, home>>
vars  == <<flash, mem, pc, req, kept, spoiled, faults, cuts>>

Erased    == [k |-> "erased"]
Torn      == [k |-> "torn"]
Data(lb)  == [k |-> "data", lb |-> lb]
Table(bb) == [k |-> "table", bad |-> bb]

Labels == {"off", "plain", "ready", "save_erase", "save_write", "erase_new", "copy_new",
           "mark_src"}
Kinds  == {"remap", "mark", "unmap", "repair", "debug"}
NoReq  == [kind |-> "remap", lb |-> 0, src |-> 0, copy |-> FALSE]

----------------------------------------------------------------------------
(* The mapping.                                                             *)

\* mapping_block_in_range
InRange(lb) == \E r \in Ranges : r[1] <= lb /\ lb < r[2]
RangeOf(lb) == CHOOSE r \in Ranges : r[1] <= lb /\ lb < r[2]
BlocksOf(r) == r[1]..(r[2] - 1)

Below(S, b) == Cardinality({x \in S : x < b})

\* Mutant: a bad block is skipped, and what overflows stays where it is.
Mapped_Overflow(bb, lb) ==
    IF ~InRange(lb) THEN lb
    ELSE LET all == BlocksOf(RangeOf(lb))
             ofs == lb - RangeOf(lb)[1]
         IN  IF ofs < Cardinality(all \ bb)
             THEN CHOOSE b \in all \ bb : Below(all \ bb, b) = ofs
             ELSE lb
\* get_mapping_block_index_bbt: the good blocks of the range in order, then its
\* bad ones for the logical blocks that are left over.
Mapped(bb, lb) ==
    IF ~InRange(lb) THEN lb
    ELSE LET all == BlocksOf(RangeOf(lb))
             ofs == lb - RangeOf(lb)[1]
             num == Cardinality(all \ bb)
         IN  IF ofs < num
             THEN CHOOSE b \in all \ bb : Below(all \ bb, b) = ofs
             ELSE CHOOSE b \in all \cap bb : Below(all \cap bb, b) = ofs - num
At(lb) == Mapped(bad, lb)

\* The data that a new table leaves where it is: that of the blocks that do not
\* move, and of the block that is copied if a good block is left for it: one of the
\* bad ones could be the block it comes from.
KeptWith(bb, lb) == {x \in kept : IF x = lb THEN Mapped(bb, x) \notin bb
                                  ELSE Mapped(bb, x) = At(x)}

----------------------------------------------------------------------------
(* Power.                                                                   *)

\* mtk_bmt_read_bbt: the first block from the end that is readable and signed.
Signed == {b \in Scanned : b \notin marked /\ cells[b].k = "table"}
Found(b) == b \in Signed /\ \A x \in Signed : x <= b

\* mtk_bmt_attach; without a table the chip is used without the layer, since
\* nobody looks at the result.
Attach ==
    /\ pc = "off"
    /\ \/ \E b \in Scanned :
             Found(b) /\ home' = b /\ bad' = cells[b].bad /\ pc' = "ready"
       \/ Signed = {} /\ pc' = "plain" /\ UNCHANGED mem
    /\ UNCHANGED <<flash, req, kept, spoiled, faults, cuts>>

\* The next start looks for the data where the saved table says.
Cut ==
    /\ pc \notin {"off", "plain"}
    /\ cuts > 0
    /\ cuts' = cuts - 1
    /\ pc' = "off"
    /\ req' = NoReq
    /\ kept' = IF pc = "ready" /\ spoiled = {} THEN kept ELSE {}
    /\ spoiled' = IF pc = "save_write" THEN spoiled \cup {"cut"} ELSE spoiled
    /\ UNCHANGED <<flash, mem, faults>>

----------------------------------------------------------------------------
(* The front end on top of a chip that does what it is told.                 *)

Fault == faults > 0 /\ faults' = faults - 1

Erase(lb) ==
    /\ pc = "ready"
    /\ cells' = [cells EXCEPT ![At(lb)] = Erased]
    /\ kept' = kept \ {lb}
    /\ UNCHANGED <<marked, mem, pc, req, spoiled, faults, cuts>>

Write(lb) ==
    /\ pc = "ready"
    /\ cells[At(lb)] = Erased
    /\ cells' = [cells EXCEPT ![At(lb)] = Data(lb)]
    /\ kept' = kept \cup {lb}
    /\ UNCHANGED <<marked, mem, pc, req, spoiled, faults, cuts>>

----------------------------------------------------------------------------
(* What makes the front end remap a block: remap_block_bbt.                 *)

\* Mutant: the logical number is marked.
Remap_Logical(kind, lb, copy) ==
    /\ InRange(lb)
    /\ bad' = bad \cup {lb}
    /\ req' = [kind |-> kind, lb |-> lb, src |-> At(lb), copy |-> copy]
    /\ kept' = KeptWith(bad', lb)
    /\ pc' = "save_erase"
    /\ UNCHANGED home
Remap(kind, lb, copy) ==
    /\ InRange(lb)
    /\ bad' = bad \cup {At(lb)}
    /\ req' = [kind |-> kind, lb |-> lb, src |-> At(lb), copy |-> copy]
    /\ kept' = KeptWith(bad', lb)
    /\ pc' = "save_erase"
    /\ UNCHANGED home

\* A read with bitflips over the threshold, debugfs mark_bad: the data is good.
RemapGood(lb) ==
    /\ pc = "ready"
    /\ Fault
    /\ Remap("remap", lb, TRUE)
    /\ UNCHANGED <<flash, spoiled, cuts>>

\* A block decays; it is remapped when a read fails.
Decay(b) ==
    /\ pc = "ready"
    /\ Fault
    /\ b \notin Scanned
    /\ cells' = [cells EXCEPT ![b] = Torn]
    /\ kept' = {x \in kept : At(x) # b}
    /\ UNCHANGED <<marked, mem, pc, req, spoiled, cuts>>

ReadFails(lb) ==
    /\ pc = "ready"
    /\ cells[At(lb)] = Torn
    /\ Remap("remap", lb, TRUE)
    /\ UNCHANGED <<flash, spoiled, faults, cuts>>

\* An erase that fails, and a write that fails with its first page.
EraseOrWriteFails(lb) ==
    /\ pc = "ready"
    /\ Fault
    /\ lb \notin kept
    /\ Remap("remap", lb, FALSE)
    /\ UNCHANGED <<flash, spoiled, cuts>>

\* mtk_bmt_block_markbad, and mtk_bmt_block_isbad of a block with the marker.
MarkBad(lb) ==
    /\ pc = "ready"
    /\ Fault
    /\ IF InRange(lb)
       THEN Remap("mark", lb, TRUE)
       ELSE /\ pc' = "mark_src"
            /\ req' = [kind |-> "mark", lb |-> lb, src |-> lb, copy |-> FALSE]
            /\ kept' = kept \ {lb}
            /\ UNCHANGED mem
    /\ UNCHANGED <<flash, spoiled, cuts>>

IsBad(lb) ==
    /\ pc = "ready"
    /\ At(lb) \in marked
    /\ Remap("remap", lb, TRUE)
    /\ UNCHANGED <<flash, spoiled, faults, cuts>>

\* debugfs mark_good, and repair, which copies the data back.
Unmap(lb, kind) ==
    /\ pc = "ready"
    /\ Fault
    /\ bad' = bad \ {lb}
    /\ req' = [kind |-> kind, lb |-> lb, src |-> At(lb), copy |-> TRUE]
    /\ kept' = {x \in kept : (x = lb /\ kind = "repair") \/ Mapped(bad', x) = At(x)}
    /\ pc' = "save_erase"
    /\ UNCHANGED <<flash, home, spoiled, cuts>>

\* Mutant: the last block is total_blks.
MoveTable_PastEnd ==
    /\ pc = "ready"
    /\ Fault
    /\ home' = TotalBlks
    /\ req' = [NoReq EXCEPT !.kind = "debug"]
    /\ pc' = "save_erase"
    /\ UNCHANGED <<flash, bad, kept, spoiled, cuts>>
\* debugfs "debug", 100: the table moves to the last block.
MoveTable ==
    /\ pc = "ready"
    /\ Fault
    /\ home' = TotalBlks - 1
    /\ req' = [NoReq EXCEPT !.kind = "debug"]
    /\ pc' = "save_erase"
    /\ UNCHANGED <<flash, bad, kept, spoiled, cuts>>

----------------------------------------------------------------------------
(* bbt_set_block_state, and what follows it.                                *)

TableFault == Fault /\ spoiled' = spoiled \cup {"fault"}

\* Nobody looks at the results.
SaveErase ==
    /\ pc = "save_erase"
    /\ pc' = "save_write"
    /\ \/ cells' = [cells EXCEPT ![home] = Erased] /\ UNCHANGED <<spoiled, faults>>
       \/ TableFault /\ UNCHANGED cells
    /\ UNCHANGED <<marked, mem, req, kept, cuts>>

AfterSave ==
    CASE req.kind \in {"remap", "mark"} -> "erase_new"
      [] req.kind = "repair" /\ At(req.lb) # req.src -> "erase_new"
      [] OTHER -> "ready"

\* Mutant: the table is written as it was before the block went bad.
SaveWrite_Old ==
    /\ pc = "save_write"
    /\ pc' = AfterSave
    /\ \/ /\ cells' = [cells EXCEPT ![home] = Table(bad \ {req.src})]
          /\ UNCHANGED <<spoiled, faults>>
       \/ TableFault /\ cells' = [cells EXCEPT ![home] = Torn]
    /\ UNCHANGED <<marked, mem, req, kept, cuts>>
SaveWrite ==
    /\ pc = "save_write"
    /\ pc' = AfterSave
    /\ \/ cells' = [cells EXCEPT ![home] = Table(bad)] /\ UNCHANGED <<spoiled, faults>>
       \/ TableFault /\ cells' = [cells EXCEPT ![home] = Torn]
    /\ UNCHANGED <<marked, mem, req, kept, cuts>>

AfterNew == IF req.kind = "mark" THEN "mark_src" ELSE "ready"

EraseNew ==
    /\ pc = "erase_new"
    /\ \/ cells' = [cells EXCEPT ![At(req.lb)] = Erased] /\ UNCHANGED <<kept, faults>>
       \/ Fault /\ kept' = kept \ {req.lb} /\ UNCHANGED cells
    /\ pc' = IF req.copy THEN "copy_new" ELSE AfterNew
    /\ UNCHANGED <<marked, mem, req, spoiled, cuts>>

\* bbt_nand_copy stops at a page that cannot be read, and writes to pages that
\* were erased.
CopyNew ==
    /\ pc = "copy_new"
    /\ LET new == At(req.lb)
           result == IF cells[new] # Erased THEN Torn
                     ELSE IF cells[req.src] = Torn THEN Erased ELSE cells[req.src]
       IN  \/ cells' = [cells EXCEPT ![new] = result] /\ UNCHANGED <<kept, faults>>
           \/ Fault /\ cells' = [cells EXCEPT ![new] = Torn] /\ kept' = kept \ {req.lb}
    /\ pc' = AfterNew
    /\ UNCHANGED <<marked, mem, req, spoiled, cuts>>

MarkSrc ==
    /\ pc = "mark_src"
    /\ marked' = marked \cup {req.src}
    /\ pc' = "ready"
    /\ UNCHANGED <<cells, mem, req, kept, spoiled, faults, cuts>>

----------------------------------------------------------------------------
\* A chip with the table that the factory wrote.
Init ==
    /\ home \in Homes
    /\ bad \in {{}} \cup {{b} : b \in Logical}
    /\ cells = [b \in Blocks |-> IF b = home THEN Table(bad) ELSE Erased]
    /\ marked = {}
    /\ pc = "ready" /\ req = NoReq /\ kept = {} /\ spoiled = {}
    /\ faults = MaxFaults /\ cuts = MaxCuts

Next ==
    \/ Attach \/ Cut
    \/ \E lb \in Logical :
          \/ Erase(lb) \/ Write(lb)
          \/ RemapGood(lb) \/ ReadFails(lb) \/ EraseOrWriteFails(lb)
          \/ MarkBad(lb) \/ IsBad(lb)
          \/ \E kind \in {"unmap", "repair"} : Unmap(lb, kind)
    \/ \E b \in Blocks : Decay(b)
    \/ MoveTable
    \/ SaveErase \/ SaveWrite \/ EraseNew \/ CopyNew \/ MarkSrc

Spec == Init /\ [][Next]_vars

----------------------------------------------------------------------------
(* Properties.                                                              *)

Contents == {Erased, Torn} \cup {Data(lb) : lb \in Logical}
                \cup {Table(bb) : bb \in SUBSET Blocks}

\* The variables hold what struct bmt_desc and the chip can hold.
TypeOK ==
    /\ cells \in [Blocks -> Contents]
    /\ marked \subseteq Blocks /\ bad \subseteq Blocks /\ home \in Scanned
    /\ pc \in Labels
    /\ req \in [kind : Kinds, lb : Logical, src : Blocks, copy : BOOLEAN]
    /\ kept \subseteq Logical /\ spoiled \subseteq {"cut", "fault"}
    /\ faults \in 0..MaxFaults /\ cuts \in 0..MaxCuts

\* Whatever is marked bad, the logical blocks of a range share no block and stay
\* within it, even when there are not enough good blocks left
\* (get_mapping_block_index_bbt, "when overflowing").
MappingPermutes ==
    \A lb \in Logical :
        /\ InRange(lb) => At(lb) \in BlocksOf(RangeOf(lb))
        /\ \A x \in Logical : At(x) = At(lb) => x = lb

\* A remap costs the data of those blocks only that it moves along: every other
\* block, and the remapped one if a good block was left for it, is read back as
\* it was written (remap_block_bbt, mtk_bmt_debug_repair).
DataStays == pc = "ready" => \A lb \in kept : cells[At(lb)] = Data(lb)

\* A start finds the table that the driver works with, in the block where the
\* driver last wrote it, whatever was left over at other places; failed and torn
\* writes of the table apart.
TableSaved ==
    pc = "ready" /\ spoiled = {} => Found(home) /\ cells[home].bad = bad
=============================================================================
