------------------------------- MODULE BMTv2 -------------------------------
(***************************************************************************)
(* BMT v2: the bad-block mapping of mtk_bmt_v2.c, driven by mtk_bmt.c.     *)
(* Every logical block below pool_lba has an entry in bb_tbl.  Behind the  *)
(* blocks first used lies a pool (bmt_tbl) of replacements, whose last     *)
(* valid block holds the only copy of both tables:                         *)
(*                                                                         *)
(*    data, then 2 PMT blocks    | pool of replacements          | BMT     *)
(*    0 ..                       ^pool_pba                 bmt_blk_idx^    *)
(*                                                                         *)
(* One action is one flash operation with the computation up to the next   *)
(* one.  Flash operations may fail, and power may go at any of them.       *)
(***************************************************************************)
EXTENDS Integers

CONSTANTS
    TotalBlks,     \* bmtd.total_blks
    PoolLba,       \* bmtd.pool_lba
    BbMax,         \* bmtd.bb_max, the bad blocks the vendor allows for
    FactoryBads,   \* the possible sets of blocks marked bad by the factory
    MaxFaults,     \* bound: failing flash operations, remaps and debug requests
    MaxCuts        \* bound: power cuts

ASSUME TotalAssumption   == TotalBlks \in Nat
ASSUME PoolAssumption    == PoolLba \in 3..(TotalBlks - 3)
ASSUME BbMaxAssumption   == BbMax \in Nat
ASSUME FactoryAssumption == FactoryBads \subseteq SUBSET (1..(TotalBlks - 1))
ASSUME BoundsAssumption  == MaxFaults \in Nat /\ MaxCuts \in Nat

Blocks  == 0..(TotalBlks - 1)
Logical == 0..(PoolLba - 1)
\* What mtd->size leaves to the user: not the two PMT blocks.
User    == 0..(PoolLba - 3)
None    == -1                \* (u16)-1 as an index

\* struct bbmt: the entries of bmt_tbl; block = 0 (BMT_TBL_DEF_VAL) is no entry.
Entry == [block : Blocks, mapped : {"no", "normal", "bmt"}]
Pool  == [Blocks -> Entry]
Empty == [i \in Blocks |-> [block |-> 0, mapped |-> "no"]]
Table == [bb : [Logical -> Blocks], pool : Pool]
NoTable == [bb |-> [lb \in Logical |-> 0], pool |-> Empty]

\* What an erase block holds: nothing, a partial erase or program, part of a table,
\* a table, the last data of a logical block, earlier data.
Content == [k : {"erased", "torn", "half", "table", "data", "old"},
            lb : Logical, t : Table]
Holds(kind) == [k |-> kind, lb |-> 0, t |-> NoTable]
DataOf(lb)  == [k |-> "data", lb |-> lb, t |-> NoTable]
TableOf(t)  == [k |-> "table", lb |-> 0, t |-> t]

VARIABLES
    content, marked,         \* the flash: blocks, and bad marks in their spare area
    bb_tbl, bmt_tbl, bmt_blk_idx,
    pc,                      \* what the driver does next
    n,                       \* the index that upload_bmt tries
    req,                     \* the remap or repair being carried out
    intact,                  \* history: logical blocks written and not since lost
    weak,                    \* history: what happened that voids the promises
    faults, cuts             \* what is left of the two bounds

flash == <<content, marked>>
bbt   == <<bb_tbl, bmt_tbl>>
vars  == <<flash, bbt, bmt_blk_idx, pc, n, req, intact, weak, faults, cuts>>

Labels == {"off", "dead", "wild", "ready", "init_erase", "init_write",
           "erase", "write", "remap_erase", "remap_copy"}
Request == [lb : Logical, old : Blocks, new : Blocks, copy : BOOLEAN, mark : BOOLEAN,
            repair : BOOLEAN]
NoReq == [lb |-> 0, old |-> 0, new |-> 0, copy |-> FALSE, mark |-> FALSE, repair |-> FALSE]

Uploading == pc \in {"init_erase", "init_write", "erase", "write"}

InitWith(c, m, bb, i) ==
    /\ content = c /\ marked = m
    /\ bb_tbl = bb /\ bmt_tbl = Empty /\ bmt_blk_idx = 0
    /\ pc = "off" /\ n = 0 /\ req = NoReq
    /\ intact = i /\ weak = {}
    /\ faults = MaxFaults /\ cuts = MaxCuts

\* A chip as it comes from the factory.
Init == \E f \in FactoryBads :
            InitWith([b \in Blocks |-> Holds("erased")], f, NoTable.bb, {})

Fault == faults > 0 /\ faults' = faults - 1 /\ UNCHANGED cuts
Ruin(b) == [content EXCEPT ![b] = Holds("torn")]

----------------------------------------------------------------------------
(* Scanning the chip.                                                        *)

\* Mutant: block > total_blks as the end of the chip.
FindValid_PastEnd(b, found) ==
    IF \E x \in b..TotalBlks : x \notin found /\ x - b <= BbMax
    THEN CHOOSE x \in b..TotalBlks : x \notin found /\ \A y \in b..(x - 1) : y \in found
    ELSE 0
\* find_valid_block: the first good block from b, if at most BbMax are bad; or 0.
FindValid(b, found) ==
    IF \E x \in b..(TotalBlks - 1) : x \notin found /\ x - b <= BbMax
    THEN CHOOSE x \in b..(TotalBlks - 1) : x \notin found /\ \A y \in b..(x - 1) : y \in found
    ELSE 0

\* scan_bad_blocks: bb_tbl, with 0 (past the first entry) where no block was found.
ScannedMap(found) ==
    LET f[lb \in Logical] == IF lb = 0 THEN 0 ELSE FindValid(f[lb - 1] + 1, found)
    IN  f

\* And bmt_tbl, the good blocks from pool_pba on.
ScannedPool(pba, found) ==
    LET f[i \in Blocks] ==
            IF i = 0 THEN FindValid(pba, found)
            ELSE IF f[i - 1] = 0 THEN 0 ELSE FindValid(f[i - 1] + 1, found)
    IN  f

----------------------------------------------------------------------------
(* upload_bmt: write the table to the block of bmt_tbl[n], or to one before.  *)

\* Mutant: a block that is in use does as well.
NoRoom_Ignored == n \notin Blocks
\* "no space to store BMT"
NoRoom == n \notin {i \in Blocks : bmt_tbl[i].mapped # "normal"}

\* Upload from bmt_blk_idx, after what voids some promises.  When that is (u16)-1,
\* the code reads behind the table what block to erase.
Upload(voids) ==
    /\ n' = bmt_blk_idx
    /\ pc' = IF bmt_blk_idx = None THEN "wild" ELSE "erase"
    /\ weak' = weak \cup voids \cup IF bmt_blk_idx = None THEN {"wild"} ELSE {}

UploadErase ==
    /\ pc \in {"init_erase", "erase"}
    /\ ~NoRoom
    /\ content' = [content EXCEPT ![bmt_tbl[n].block] = Holds("erased")]
    /\ pc' = IF pc = "erase" THEN "write" ELSE "init_write"
    /\ UNCHANGED <<marked, bbt, bmt_blk_idx, n, req, intact, weak, faults, cuts>>

\* The table is complete on the flash.  upload_bmt returns to init, to
\* remap_block_v2 or to unmap_block_v2, of which a repair goes on.
UploadWrite ==
    /\ pc \in {"init_write", "write"}
    /\ content' = [content EXCEPT ![bmt_tbl[n].block] = TableOf([bb |-> bb_tbl, pool |-> bmt_tbl])]
    /\ bmt_blk_idx' = n
    /\ pc' = IF req.repair THEN "remap_erase" ELSE "ready"
    /\ marked' = IF req.mark THEN marked \cup {req.old} ELSE marked
    /\ req' = IF req.repair THEN req ELSE NoReq
    /\ UNCHANGED <<bbt, n, intact, weak, faults, cuts>>

\* The block is given up and the one before it is tried.  An erase that fails may
\* leave the old table, a write that fails part of the new one, or all of it.
UploadFails ==
    /\ Uploading
    /\ ~NoRoom
    /\ LET b == bmt_tbl[n].block
       IN  content' \in IF pc \in {"init_erase", "erase"}
                        THEN {content, Ruin(b)}
                        ELSE {Ruin(b), [content EXCEPT ![b] = Holds("half")],
                              [content EXCEPT ![b] = TableOf([bb |-> bb_tbl, pool |-> bmt_tbl])]}
    /\ bmt_tbl' = [bmt_tbl EXCEPT ![n].block = 0]
    /\ n' = n - 1
    /\ pc' = IF pc \in {"erase", "write"} THEN "erase" ELSE "init_erase"
    /\ weak' = weak \cup {"moved"}
    /\ Fault
    /\ UNCHANGED <<marked, bb_tbl, bmt_blk_idx, req, intact>>

\* upload_bmt returns (u16)-1, which nobody but init looks at.
UploadNoRoom ==
    /\ pc \in {"init_erase", "erase"}
    /\ NoRoom
    /\ bmt_blk_idx' = None
    /\ pc' = IF pc = "init_erase" THEN "dead"
             ELSE IF req.repair THEN "remap_erase" ELSE "ready"
    /\ marked' = IF req.mark THEN marked \cup {req.old} ELSE marked
    /\ req' = IF req.repair THEN req ELSE NoReq
    /\ weak' = weak \cup {"full"}
    /\ UNCHANGED <<content, bbt, n, intact, faults, cuts>>

----------------------------------------------------------------------------
(* mtk_bmt_init_v2 *)

\* get_bmt_index: 0 when no entry before the first empty one is the BMT.
IsIndex(i, pool) ==
    LET before == {j \in Blocks : \A x \in 0..j : pool[x].block # 0}
    IN  \/ i \in before /\ pool[i].mapped = "bmt" /\ \A j \in 0..(i - 1) : pool[j].mapped # "bmt"
        \/ i = 0 /\ \A j \in before : pool[j].mapped # "bmt"

\* What passes for a table: part of one does, there is no checksum.
Signed == {b \in PoolLba..(TotalBlks - 1) : content[b].k \in {"table", "half"}}
\* The search goes down from the last block, to the first that passes.
Top == {b \in Signed : \A x \in Signed : x <= b}

\* What a start would load: one table, or none.  An index of 0 is an error.
Restart == {t \in {content[b].t : b \in {x \in Top : content[x].k = "table"}} :
               \E i \in Blocks \ {0} : IsIndex(i, t.pool)}

AttachFound ==
    /\ pc = "off"
    /\ \E t \in Restart, i \in Blocks \ {0} :
          /\ IsIndex(i, t.pool)
          /\ bb_tbl' = t.bb
          /\ bmt_tbl' = t.pool
          /\ bmt_blk_idx' = i
    /\ pc' = "ready"
    /\ UNCHANGED <<flash, n, req, intact, weak, faults, cuts>>

\* The search for the index of half a table goes on in the memory behind it: to a
\* zero, which makes the index 0 (AttachScan), or to anything else.
AttachHalf ==
    /\ pc = "off"
    /\ \E b \in Top : content[b].k = "half"
    /\ pc' = "wild"
    /\ weak' = weak \cup {"wild"}
    /\ UNCHANGED <<flash, bbt, bmt_blk_idx, n, req, intact, faults, cuts>>

\* A table that is left on the flash may still be loaded one day.
Leftover == IF \E b \in Blocks : content[b].k = "table" THEN weak \cap {"unmap", "freed"} ELSE {}

\* No table: build new ones from what is marked or cannot be read.
AttachScan ==
    /\ pc = "off"
    /\ Restart = {}
    /\ \E ecc \in SUBSET {b \in Blocks : content[b].k = "torn"} :
       LET map   == ScannedMap(marked \cup ecc)
           pba   == map[PoolLba - 1] + 1
           pool  == ScannedPool(pba, marked \cup ecc)
           valid == {i \in Blocks : pool[i] # 0}
           none  == UNCHANGED <<bbt, bmt_blk_idx, n>>
       IN  \/ /\ (\E lb \in 1..(PoolLba - 1) : map[lb] = 0) \/ pba >= TotalBlks - 2
              /\ pc' = "dead" /\ weak' = Leftover /\ none
           \/ \* Entry (u16)-1 is written before the check that there is one.
              /\ \A lb \in 1..(PoolLba - 1) : map[lb] # 0
              /\ pba < TotalBlks - 2 /\ valid = {}
              /\ pc' = "wild" /\ weak' = Leftover \cup {"wild"} /\ none
           \/ /\ \A lb \in 1..(PoolLba - 1) : map[lb] # 0
              /\ pba < TotalBlks - 2
              /\ \E last \in valid :
                    /\ \A i \in valid : i <= last
                    /\ bb_tbl' = map
                    /\ bmt_tbl' = [i \in Blocks |->
                                      [block  |-> pool[i],
                                       mapped |-> IF i = last THEN "bmt" ELSE "no"]]
                    /\ bmt_blk_idx' = last
                    /\ n' = last
                    \* What passes for a table above it is what the next start meets.
                    /\ weak' = Leftover \cup (IF last = 0 THEN {"full"} ELSE {})
                                      \cup (IF \E b \in Signed : b > pool[last]
                                            THEN {"shadow"} ELSE {})
              /\ pc' = "init_erase"
    /\ intact' = {}
    /\ UNCHANGED <<flash, req, faults, cuts>>

----------------------------------------------------------------------------
(* remap_block_v2, unmap_block_v2 and the debugfs file, and the front end of   *)
(* mtk_bmt.c at the granularity of a block.                                    *)

Ready == pc = "ready"

\* mtk_bmt_mtd_erase and mtk_bmt_write
UserWrite(lb) ==
    /\ Ready
    /\ content' = [b \in Blocks |-> IF b = bb_tbl[lb] THEN DataOf(lb)
                                    ELSE IF content[b] = DataOf(lb) THEN Holds("old")
                                    ELSE content[b]]
    /\ intact' = intact \cup {lb}
    /\ UNCHANGED <<marked, bbt, bmt_blk_idx, pc, n, req, weak, faults, cuts>>

\* find_valid_block_in_pool: the first entry below bmt_blk_idx that is not mapped.
\* Mutant: it is not marked.
Take_Unmarked(i) == bmt_tbl
Take(i) == [bmt_tbl EXCEPT ![i].mapped = "normal"]

Available == {i \in Blocks : /\ bmt_blk_idx # None => i < bmt_blk_idx
                             /\ bmt_tbl[i].block # 0 /\ bmt_tbl[i].mapped = "no"}

\* remap_block_v2 up to its first flash operation.  A search with no index to stop at
\* runs off the table.
RemapBlock(lb, copy, mark) ==
    \/ \E i \in Available :
          /\ \A j \in Available : i <= j
          /\ bmt_tbl' = Take(i)
          /\ bb_tbl' = [bb_tbl EXCEPT ![lb] = bmt_tbl[i].block]
          /\ req' = [lb |-> lb, old |-> bb_tbl[lb], new |-> bmt_tbl[i].block, copy |-> copy,
                     mark |-> mark, repair |-> FALSE]
          /\ pc' = "remap_erase"
          /\ UNCHANGED <<marked, weak>>
    \/ /\ Available = {}
       /\ bmt_blk_idx # None
       /\ marked' = IF mark THEN marked \cup {bb_tbl[lb]} ELSE marked
       /\ UNCHANGED <<bbt, req, pc, weak>>
    \/ /\ Available = {}
       /\ bmt_blk_idx = None
       /\ pc' = "wild"
       /\ weak' = weak \cup {"wild"}
       /\ UNCHANGED <<marked, bbt, req>>

\* A read, program or erase fails for good, and what the block held is lost.
UserFault(lb) ==
    /\ Ready
    /\ content' = Ruin(bb_tbl[lb])
    /\ intact' = intact \ {lb}
    /\ \E copy \in BOOLEAN : RemapBlock(lb, copy, FALSE)
    /\ Fault
    /\ UNCHANGED <<bmt_blk_idx, n>>

\* Bitflips up to the threshold, debugfs mark_bad, or (mark) a block declared bad.
UserRemap(lb) ==
    /\ Ready
    /\ \E mark \in BOOLEAN : RemapBlock(lb, TRUE, mark)
    /\ Fault
    /\ UNCHANGED <<content, bmt_blk_idx, n, intact>>

\* mtk_bmt_block_isbad meets a mark.
UserIsBad(lb) ==
    /\ Ready
    /\ bb_tbl[lb] \in marked
    /\ RemapBlock(lb, TRUE, FALSE)
    /\ UNCHANGED <<content, bmt_blk_idx, n, intact, faults, cuts>>

EraseNew ==
    \/ content' = [content EXCEPT ![req.new] = Holds("erased")] /\ UNCHANGED <<faults, cuts>>
    \/ content' \in {content, Ruin(req.new)} /\ Fault

\* Mutant: without the copy.
RemapErase_NoCopy ==
    /\ pc = "remap_erase"
    /\ EraseNew
    /\ Upload({})
    /\ UNCHANGED <<marked, bbt, bmt_blk_idx, req, intact>>

\* Mutant: the table is saved only if there is something to copy.
RemapErase_NoUpload ==
    /\ pc = "remap_erase"
    /\ EraseNew
    /\ pc' = IF req.copy THEN "remap_copy" ELSE "ready"
    /\ UNCHANGED <<marked, bbt, bmt_blk_idx, n, req, intact, weak>>

\* The results of bbt_nand_erase and bbt_nand_copy are ignored.
RemapErase ==
    /\ pc = "remap_erase"
    /\ EraseNew
    /\ IF req.copy
       THEN pc' = "remap_copy" /\ UNCHANGED <<n, weak>>
       ELSE Upload({})
    /\ UNCHANGED <<marked, bbt, bmt_blk_idx, req, intact>>

RemapCopy ==
    /\ pc = "remap_copy"
    /\ \/ /\ content[req.new].k = "erased"
          /\ content' = [content EXCEPT ![req.new] = content[req.old]]
          /\ intact' = IF req.repair /\ content[req.old] = DataOf(req.lb)
                       THEN intact \cup {req.lb} ELSE intact
          /\ UNCHANGED <<faults, cuts>>
       \/ /\ content' = Ruin(req.new)
          /\ intact' = intact \ {req.lb}
          /\ IF content[req.new].k = "erased" THEN Fault ELSE UNCHANGED <<faults, cuts>>
    /\ IF req.repair
       THEN pc' = "ready" /\ req' = NoReq /\ UNCHANGED <<n, weak>>
       ELSE Upload({}) /\ UNCHANGED req
    /\ UNCHANGED <<marked, bbt, bmt_blk_idx>>

\* unmap_block_v2, from the files mark_good and repair: lb goes to the block of its
\* own number, which is the one it had only if no block before it was bad.
UserUnmap(lb, repair) ==
    /\ Ready
    /\ bb_tbl' = [bb_tbl EXCEPT ![lb] = lb]
    /\ req' = [lb |-> lb, old |-> bb_tbl[lb], new |-> lb, copy |-> TRUE, mark |-> FALSE,
               repair |-> repair /\ bb_tbl[lb] # lb]
    /\ intact' = IF bb_tbl[lb] = lb THEN intact ELSE intact \ {lb}
    /\ Upload(IF \E x \in Logical \ {lb} : bb_tbl[x] = lb THEN {"unmap"} ELSE {})
    /\ Fault
    /\ UNCHANGED <<flash, bmt_tbl, bmt_blk_idx>>

\* mtk_bmt_get_mapping_mask: what the user's blocks but the first are mapped to.
InUse == {bb_tbl[lb] : lb \in {x \in User \ {0} : bb_tbl[x] # x}}

\* mtk_bmt_debug_v2 with the value 100: entries that nothing maps to are available
\* again.
UserFree ==
    LET free == {i \in Blocks : /\ bmt_blk_idx # None => i <= bmt_blk_idx
                                /\ bmt_tbl[i].mapped = "normal"
                                /\ bmt_tbl[i].block \notin InUse}
    IN  /\ Ready
        /\ free # {}
        /\ bmt_tbl' = [i \in Blocks |-> IF i \in free THEN [bmt_tbl[i] EXCEPT !.mapped = "no"]
                                        ELSE bmt_tbl[i]]
        /\ Upload(IF \E i \in free, lb \in Logical : bb_tbl[lb] = bmt_tbl[i].block
                  THEN {"freed"} ELSE {})
        /\ Fault
        /\ UNCHANGED <<flash, bb_tbl, bmt_blk_idx, req, intact>>

----------------------------------------------------------------------------
(* Power.                                                                     *)

InFlight ==
    CASE pc \in {"remap_erase", "remap_copy"} -> {req.new}
      [] Uploading /\ ~NoRoom                 -> {bmt_tbl[n].block}
      [] OTHER                                -> {}

PowerCut ==
    /\ pc # "off"
    /\ cuts > 0
    /\ cuts' = cuts - 1
    /\ \/ UNCHANGED content
       \/ \E b \in InFlight :
             content' \in {Ruin(b)} \cup
                          IF pc \in {"init_write", "write"}
                          THEN {[content EXCEPT ![b] = Holds("half")],
                                [content EXCEPT ![b] = TableOf([bb |-> bb_tbl, pool |-> bmt_tbl])]}
                          ELSE {}
    /\ weak' = IF Uploading \/ weak # {} THEN weak \cup {"cut"} ELSE {}
    /\ bb_tbl' = NoTable.bb /\ bmt_tbl' = Empty /\ bmt_blk_idx' = 0
    /\ pc' = "off" /\ n' = 0 /\ req' = NoReq
    /\ UNCHANGED <<marked, intact, faults>>

----------------------------------------------------------------------------

UploadStep == UploadErase \/ UploadWrite \/ UploadFails \/ UploadNoRoom
AttachStep == AttachFound \/ AttachHalf \/ AttachScan
RemapStep  == RemapErase \/ RemapCopy
DriverStep == UploadStep \/ AttachStep \/ RemapStep

UserStep ==
    \/ UserFree
    \/ \E lb \in User :
          \/ UserWrite(lb) \/ UserFault(lb) \/ UserRemap(lb) \/ UserIsBad(lb)
          \/ \E repair \in BOOLEAN : UserUnmap(lb, repair)

Next == DriverStep \/ UserStep \/ PowerCut

Spec == Init /\ [][Next]_vars

----------------------------------------------------------------------------
(* Properties. *)

\* Type invariant.  While the driver uploads, n is an index of bmt_tbl or just
\* before the first, and bmt_blk_idx is an index or (u16)-1.
TypeOK ==
    /\ content \in [Blocks -> Content]
    /\ marked \subseteq Blocks
    /\ bb_tbl \in [Logical -> Blocks]
    /\ bmt_tbl \in Pool
    /\ bmt_blk_idx \in Blocks \cup {None}
    /\ pc \in Labels
    /\ n \in Blocks \cup {None}
    /\ req \in Request
    /\ intact \subseteq Logical
    /\ weak \subseteq {"moved", "cut", "full", "wild", "unmap", "freed", "shadow"}
    /\ faults \in 0..MaxFaults
    /\ cuts \in 0..MaxCuts

Up == pc \notin {"off", "dead", "wild"}
\* Nothing was mapped or freed by way of debugfs that should not have been.
Sound == weak \cap {"unmap", "freed", "wild"} = {}

\* Two logical blocks never share a physical one: whatever find_valid_block_in_pool
\* hands out, though the table that a start loads may be an old one, or one that was
\* built again from the marks after the only copy was lost.
MappingInjective ==
    Up /\ Sound => \A x, y \in Logical : bb_tbl[x] = bb_tbl[y] => x = y

\* The table is never written over data: upload_bmt, which walks down the pool when
\* a block fails, and find_valid_block_in_pool, which walks up, do not cross.
TableApart ==
    Up /\ Sound =>
        /\ Uploading /\ ~NoRoom => \A lb \in Logical : bb_tbl[lb] # bmt_tbl[n].block
        /\ Ready /\ bmt_blk_idx # None =>
              \A lb \in Logical : bb_tbl[lb] # bmt_tbl[bmt_blk_idx].block

\* When no table is being written and none ever failed to be, and none of before a scan
\* is left above the one that it wrote, a start finds the data: the map that
\* mtk_bmt_init_v2 would load points to what mtk_bmt_write wrote, at every flash
\* operation of a remap.
RestartFindsData ==
    weak = {} /\ ~Uploading /\ intact # {} =>
        \E t \in Restart : \A lb \in intact : content[t.bb[lb]] = DataOf(lb)

\* And so does the running driver, even when the table could not be saved.
DataReachable ==
    Ready /\ Sound /\ "cut" \notin weak =>
        \A lb \in intact : content[bb_tbl[lb]] = DataOf(lb)
=============================================================================
