-------------------------------- MODULE NMBM --------------------------------
(***************************************************************************)
(* NMBM: the NAND bad-block mapping kept by mtk_bmt_nmbm.c for the flash   *)
(* of a filogic router, driven by mtk_bmt.c.  Logical blocks are mapped to *)
(* physical ones; the map and the list of bad blocks live in an "info      *)
(* table", of which the flash holds a main and a backup copy in a          *)
(* management area that starts at mgmt_start_ba and also supplies the      *)
(* replacement blocks:                                                     *)
(*                                                                         *)
(*   data | main  spares  backup | unmapped blocks | remapped | signature  *)
(*        ^mgmt_start_ba         ^mapping_blocks_ba ^mapping_blocks_top_ba *)
(*                                                                         *)
(* One action is one flash operation of the driver with the computation    *)
(* up to the next one.  Flash operations may fail, and power may go at any *)
(* of them: the device then restarts from what the flash holds.            *)
(*                                                                         *)
(* Granularity is the erase block, and an info table fits in one block     *)
(* (size2blk(info_table_size) = 1: a table is some 4 bytes per block of    *)
(* the chip, a block 128 KiB or more).                                     *)
(***************************************************************************)
EXTENDS Integers, FiniteSets

CONSTANTS
    BlockCount,    \* ni->block_count, the erase blocks of the chip
    MgmtStart,     \* ni->mgmt_start_ba
    FactoryBads,   \* the possible sets of blocks marked bad by the factory
    ForceCreate,   \* the device-tree property mediatek,bmt-force-create
    MaxFaults,     \* bound: erase or program failures, remaps and repairs asked for
    MaxCuts        \* bound: power cuts (and orderly restarts)

ASSUME BlockCountAssumption == BlockCount \in Nat
ASSUME MgmtStartAssumption  == MgmtStart \in 1..(BlockCount - 1)
ASSUME FactoryAssumption    == FactoryBads \subseteq SUBSET (0..(BlockCount - 1))
ASSUME ForceAssumption      == ForceCreate \in BOOLEAN
ASSUME BoundsAssumption     == MaxFaults \in Nat /\ MaxCuts \in Nat

Blocks  == 0..(BlockCount - 1)
Logical == 0..(MgmtStart - 1)
NoBlock == -1
MaybeBlock == Blocks \cup {NoBlock}

\* nmbm_get_spare_block_count(1): NMBM_SPARE_BLOCK_MIN.
SpareBlocks == 2

\* struct nmbm_info_table_header with the state and the mapping table behind it.
Table   == [wc : Nat, bad : SUBSET Blocks, map : [Logical -> MaybeBlock]]
NoTable == [wc |-> 0, bad |-> {}, map |-> [lb \in Logical |-> NoBlock]]

\* What an erase block holds: nothing, a partial erase or program, the
\* signature, the last data written to a logical block, earlier data, a table.
Content == [k  : {"erased", "torn", "sig", "data", "old", "table"},
            lb : Logical \cup {NoBlock}, t : Table]
Holds(kind) == [k |-> kind, lb |-> NoBlock, t |-> NoTable]
DataOf(lb)  == [k |-> "data", lb |-> lb, t |-> NoTable]
TableOf(t)  == [k |-> "table", lb |-> NoBlock, t |-> t]

VARIABLES
    \* The flash.
    content,               \* what each block holds
    marked,                \* blocks whose out-of-band area says "bad"
    \* struct nmbm_instance, lost with the power.
    bad,                   \* block_state: the blocks in state BLOCK_ST_BAD
    block_mapping,
    block_state_changed,   \* the counter is > 0
    block_mapping_changed, \* the counter is > 0
    data_block_count,
    signature_ba,
    main_table_ba,         \* 0: no such table
    backup_table_ba,       \* 0: no such table
    mapping_blocks_ba,
    mapping_blocks_top_ba,
    write_count,
    info_table_cache,
    protected,
    \* Where the driver is.
    pc,
    caller,                \* where nmbm_update_info_table returns to
    w,                     \* the block range being written or erased
    at,                    \* where the last table was written, or NoBlock
    req,                   \* the remap being carried out
    \* The environment, and history that the properties speak about.
    intact,                \* logical blocks written and not since lost
    weak,                  \* what happened that voids the promises
    faults, cuts           \* what is left of the two bounds

flash == <<content, marked>>
state == <<bad, block_state_changed>>
maps  == <<block_mapping, block_mapping_changed, data_block_count>>
tabs  == <<main_table_ba, backup_table_ba, mapping_blocks_ba>>
tops  == <<signature_ba, mapping_blocks_top_ba>>
cache == <<write_count, info_table_cache>>
hist  == <<intact, weak>>
env   == <<faults, cuts>>
ctl   == <<pc, caller, w, at, req>>
vars  == <<flash, state, maps, tabs, tops, cache, protected, ctl, hist, env>>

\* Where the driver can be.  A label names the work that comes next: "w_" and
\* "e_" write a table and erase a range, the others are where nmbm_write_info_table
\* or nmbm_erase_range return to, or stand for a point of a function.
Labels == {"off", "dead", "ready", "w_erase", "w_program", "e_erase", "update",
           "once_backup", "once_main", "rebuild_main", "rebuild_backup",
           "rescue_tmp", "rescue_main", "rescue_front", "rescue_back", "rescue_adopt",
           "load_ok", "older_main", "older_backup", "sig_erase", "sig_program",
           "map_loop", "create_full", "create_ret",
           "remap_erase", "remap_copy", "remap_full", "remap_ret", "unmap_ret"}

Range == [start : Int, ba : Int, limit : Int, cont : Labels]
Request == [lb : Logical, old : Blocks, new : Blocks, copy : BOOLEAN, mark : BOOLEAN,
            repair : BOOLEAN]

NoRange == [start |-> 0, ba |-> 0, limit |-> 0, cont |-> "off"]
NoReq   == [lb |-> 0, old |-> 0, new |-> 0, copy |-> FALSE, mark |-> FALSE,
            repair |-> FALSE]

----------------------------------------------------------------------------
(* Walking over good blocks. *)

IsFirst(b, S) == b \in S /\ \A x \in S : b <= x
IsLast(b, S)  == b \in S /\ \A x \in S : x <= b

\* nmbm_try_reserve_blocks(ba, SpareBlocks, 0, limit) stops at b: it skips two
\* good blocks, or as many as leave one to stop at.
IsReserved(b, ba, limit) ==
    LET good == {x \in ba..(limit - 1) : x \in Blocks \ bad}
    IN  /\ b \in good
        /\ \/ Cardinality({x \in good : x < b}) = SpareBlocks
           \/ Cardinality(good) <= SpareBlocks /\ IsLast(b, good)

\* nmbm_build_mapping_table: the first n logical blocks go to the good blocks of
\* the data area in order; the others stay unmapped.
IsInitialMap(map, n, found) ==
    /\ {map[lb] : lb \in 0..(n - 1)} = Logical \ found
    /\ \A x, y \in 0..(n - 1) : x < y => map[x] < map[y]
    /\ \A lb \in n..(MgmtStart - 1) : map[lb] = NoBlock

----------------------------------------------------------------------------
(* Finding tables at a restart (nmbm_try_load_info_table and its checks). *)

\* nmbm_check_info_table: a table in block b is rejected when it maps into the
\* management area below its own end, or to the signature, or calls b bad.
Plausible(b, t, sig) ==
    /\ \A lb \in Logical : t.map[lb] \notin (MgmtStart..b) \cup {sig}
    /\ b \notin t.bad

\* Blocks from which nmbm_search_info_table(from, sig) can take a table.
Loadable(from, sig, skip) ==
    {b \in from..(sig - 2) : /\ b \in Blocks \ (marked \cup skip)
                             /\ content[b].k = "table"
                             /\ Plausible(b, content[b].t, sig)}

First(S) == {b \in S : IsFirst(b, S)}
Last(S)  == {b \in S : IsLast(b, S)}

\* nmbm_find_signature: the last block that holds one.
Signature == Last({b \in Blocks \ marked : content[b].k = "sig"})

\* The block of the first table a restart finds, and given that one of the
\* second: NoBlock when there is none.
FirstTable(sig) == First(Loadable(MgmtStart, sig, {}))
SecondTable(sig, m) ==
    LET seconds == Loadable(m + 1, sig, content[m].t.bad)
    IN  IF seconds = {} THEN {NoBlock} ELSE First(seconds)

\* The second table wins only when it is strictly newer.
Newest(m, s) == IF s # NoBlock /\ content[s].t.wc > content[m].t.wc THEN s ELSE m

\* The table that a restart would load from the flash: one, or none.
Restart ==
    UNION {{content[Newest(m, s)].t : s \in SecondTable(sig, m)} :
           m \in UNION {FirstTable(sig) : sig \in Signature}, sig \in Signature}

----------------------------------------------------------------------------
(* Pieces of steps. *)

\* nmbm_set_block_state(ba, BLOCK_ST_BAD) for every ba of S.
SetBad(S) ==
    /\ bad' = bad \cup S
    /\ block_state_changed' = (block_state_changed \/ ~(S \subseteq bad))

\* nmbm_mark_tables_clean
MarkTablesClean ==
    /\ block_state_changed' = FALSE
    /\ block_mapping_changed' = FALSE
    /\ UNCHANGED <<bad, block_mapping, data_block_count>>

\* Mutant: the mapping table is not copied.
GenerateCache_OldMap(b, map, count, changed) ==
    LET wc == IF changed THEN count + 1 ELSE count
    IN  /\ write_count' = wc
        /\ info_table_cache' = [wc |-> wc, bad |-> b, map |-> info_table_cache.map]

\* nmbm_generate_info_table_cache: the count grows only when there is a change.
GenerateCache(b, map, count, changed) ==
    LET wc == IF changed THEN count + 1 ELSE count
    IN  /\ write_count' = wc
        /\ info_table_cache' = [wc |-> wc, bad |-> b, map |-> map]

Goto(label) == pc' = label /\ UNCHANGED <<caller, w, at, req>>

WorkOn(label, start, limit, cont) ==
    /\ pc' = label
    /\ w' = [start |-> start, ba |-> start, limit |-> limit, cont |-> cont]
    /\ UNCHANGED <<at, req>>

\* nmbm_write_info_table(start, limit): write the cache to the first block of
\* the range that takes it, then go on at cont with the block in at.
WriteTable(start, limit, cont) == WorkOn("w_erase", start, limit, cont) /\ UNCHANGED caller

\* nmbm_erase_range(start, limit)
EraseRange(start, limit, cont) == WorkOn("e_erase", start, limit, cont) /\ UNCHANGED caller

\* Mutant: the tables are not saved.
UpdateTables_Skipped(ret) == pc' = ret /\ caller' = ret /\ UNCHANGED <<w, at, req>>

\* nmbm_update_info_table, to return to ret.
UpdateTables(ret) == pc' = "update" /\ caller' = ret /\ UNCHANGED <<w, at, req>>

\* Where nmbm_rebuild_info_table and nmbm_update_info_table_once return to:
\* nmbm_create_info_table calls the former by itself, the loop of
\* nmbm_update_info_table the latter.
OnceDone   == IF caller = "map_loop" THEN "map_loop" ELSE "update"
OnceFailed == CASE caller = "map_loop"   -> "dead"
                [] caller = "create_ret" -> "dead"
                [] OTHER                 -> caller

\* A flash operation that fails (a budgeted event).
Fault == faults > 0 /\ faults' = faults - 1 /\ UNCHANGED cuts

\* A failed erase or program leaves a block half changed; a failed erase may
\* also leave it as it was.
Ruin(b)      == [content EXCEPT ![b] = Holds("torn")]
FailErase(b) == content' \in {content, Ruin(b)}

\* nmbm_mark_phys_bad_block and nmbm_set_block_state, on top of the blocks S
\* found marked on the way.
MarkBad(b, S) == marked' = marked \cup {b} /\ SetBad(S \cup {b})

\* The range from w.ba that is neither known bad nor marked.
Usable == {x \in w.ba..(w.limit - 1) : x \in Blocks \ (bad \cup marked)}
\* Blocks below b in the range that turn out to be marked.
FoundMarked(b) == {x \in w.ba..(b - 1) : x \in marked}

\* Powered off, with flash content c, marks m and the data of the blocks i.
InitOff(c, m, i) ==
    /\ content = c
    /\ marked = m
    /\ intact = i
    /\ bad = {}
    /\ block_mapping = [lb \in Logical |-> 0]
    /\ block_state_changed = FALSE
    /\ block_mapping_changed = FALSE
    /\ data_block_count = 0
    /\ signature_ba = 0
    /\ main_table_ba = 0
    /\ backup_table_ba = 0
    /\ mapping_blocks_ba = 0
    /\ mapping_blocks_top_ba = 0
    /\ write_count = 0
    /\ info_table_cache = NoTable
    /\ protected = FALSE
    /\ pc = "off"
    /\ caller = "off"
    /\ w = NoRange
    /\ at = NoBlock
    /\ req = NoReq
    /\ weak = {}

\* ... with all of the bounds still to use.
InitWith(c, m, i) ==
    /\ InitOff(c, m, i)
    /\ faults = MaxFaults
    /\ cuts = MaxCuts

\* A chip as it comes from the factory.
Init == \E f \in FactoryBads : InitWith([b \in Blocks |-> Holds("erased")], f, {})

----------------------------------------------------------------------------
(* Writing an info table: nmbm_write_mgmt_range. *)

WriteErase ==
    /\ pc = "w_erase"
    /\ \E b \in Usable :
          /\ IsFirst(b, Usable)
          /\ SetBad(FoundMarked(b))
          /\ content' = [content EXCEPT ![b] = Holds("erased")]
          /\ w' = [w EXCEPT !.ba = b]
          /\ pc' = "w_program"
    /\ UNCHANGED <<marked, maps, tabs, tops, cache, protected, caller, at, req, hist, env>>

WriteProgram ==
    /\ pc = "w_program"
    /\ content' = [content EXCEPT ![w.ba] = TableOf(info_table_cache)]
    /\ at' = w.ba
    /\ pc' = w.cont
    /\ UNCHANGED <<marked, state, maps, tabs, tops, cache, protected, caller, w, req, hist, env>>

WriteProgramFails ==
    /\ pc = "w_program"
    /\ content' = Ruin(w.ba)
    /\ MarkBad(w.ba, {})
    /\ w' = [w EXCEPT !.ba = @ + 1]
    /\ pc' = "w_erase"
    /\ Fault
    /\ UNCHANGED <<maps, tabs, tops, cache, protected, caller, at, req, hist>>

\* No block of the range takes the table.
WriteNoRoom ==
    /\ pc = "w_erase"
    /\ Usable = {}
    /\ SetBad(FoundMarked(w.limit))
    /\ at' = NoBlock
    /\ pc' = w.cont
    /\ UNCHANGED <<flash, maps, tabs, tops, cache, protected, caller, w, req, hist, env>>

(* Erasing what may be left between two tables: nmbm_erase_range. *)

\* Mutant: the loop does not move on.
NextBlock_Same(b) == b
NextBlock(b) == b + 1

EraseNext ==
    /\ pc = "e_erase"
    /\ \E b \in Usable :
          /\ IsFirst(b, Usable)
          /\ SetBad(FoundMarked(b))
          /\ content' = [content EXCEPT ![b] = Holds("erased")]
          /\ w' = [w EXCEPT !.ba = NextBlock(b)]
    /\ UNCHANGED <<marked, maps, tabs, tops, cache, protected, pc, caller, at, req, hist, env>>

\* In both: the block is marked, the next one is tried.
EraseFails ==
    /\ pc \in {"w_erase", "e_erase"}
    /\ \E b \in Usable :
          /\ IsFirst(b, Usable)
          /\ FailErase(b)
          /\ MarkBad(b, FoundMarked(b))
          /\ w' = [w EXCEPT !.ba = b + 1]
    /\ Fault
    /\ UNCHANGED <<maps, tabs, tops, cache, protected, pc, caller, at, req, hist>>

EraseDone ==
    /\ pc = "e_erase"
    /\ Usable = {}
    /\ SetBad(FoundMarked(w.limit))
    /\ pc' = w.cont
    /\ UNCHANGED <<flash, maps, tabs, tops, cache, protected, caller, w, at, req, hist, env>>

----------------------------------------------------------------------------
(* nmbm_update_info_table and nmbm_update_info_table_once: while something   *)
(* has changed, write the backup table, then the main one.                   *)

UpdateDone ==
    /\ pc = "update"
    /\ protected \/ ~(block_state_changed \/ block_mapping_changed)
    /\ Goto(caller)
    /\ UNCHANGED <<flash, state, maps, tabs, tops, cache, protected, hist, env>>

UpdateOnce ==
    /\ pc = "update"
    /\ ~protected
    /\ block_state_changed \/ block_mapping_changed
    /\ GenerateCache(bad, block_mapping, write_count, TRUE)
    /\ IF backup_table_ba # 0
       THEN WriteTable(backup_table_ba, mapping_blocks_top_ba, "once_backup")
       ELSE WriteTable(main_table_ba, mapping_blocks_top_ba, "once_main")
    /\ UNCHANGED <<flash, state, maps, tabs, tops, protected, hist, env>>

\* Mutant: the main table may run into the backup.
MainLimit_Top(backup) == mapping_blocks_top_ba
\* main_table_limit
MainLimit(backup) == backup

BackupWritten ==
    /\ pc = "once_backup"
    /\ at # NoBlock
    /\ backup_table_ba' = at
    /\ mapping_blocks_ba' = at + 1
    /\ MarkTablesClean
    /\ WriteTable(main_table_ba, MainLimit(at), "once_main")
    /\ UNCHANGED <<flash, main_table_ba, tops, cache, protected, hist, env>>

BackupFailed ==
    /\ pc = "once_backup"
    /\ at = NoBlock
    /\ mapping_blocks_ba' = backup_table_ba
    /\ backup_table_ba' = 0
    /\ WriteTable(main_table_ba, mapping_blocks_top_ba, "once_main")
    /\ UNCHANGED <<flash, state, maps, main_table_ba, tops, cache, protected, hist, env>>

MainWritten ==
    /\ pc = "once_main"
    /\ at # NoBlock
    /\ main_table_ba' = at
    /\ mapping_blocks_ba' = IF backup_table_ba = 0 THEN at + 1 ELSE mapping_blocks_ba
    /\ MarkTablesClean
    /\ Goto(OnceDone)
    /\ UNCHANGED <<flash, backup_table_ba, tops, cache, protected, hist, env>>

(* nmbm_rebuild_info_table: both tables from scratch.                        *)

\* Called for itself (ret = "map_loop") or within an update.
RebuildTables(ret) ==
    /\ main_table_ba' = 0
    /\ backup_table_ba' = 0
    /\ mapping_blocks_ba' = mapping_blocks_top_ba'
    /\ WorkOn("w_erase", MgmtStart, mapping_blocks_top_ba', "rebuild_main")
    /\ caller' = ret

\* The only table could not be written where it was.
MainFailedAlone ==
    /\ pc = "once_main"
    /\ at = NoBlock
    /\ backup_table_ba = 0
    /\ UNCHANGED tops
    /\ RebuildTables(caller)
    /\ UNCHANGED <<flash, state, maps, cache, protected, hist, env>>

RebuildMainFailed ==
    /\ pc = "rebuild_main"
    /\ at = NoBlock
    /\ protected' = TRUE
    /\ weak' = weak \cup {"unsaved"}
    /\ Goto(OnceFailed)
    /\ UNCHANGED <<flash, state, maps, tabs, tops, cache, intact, env>>

\* With no room for a backup table the main one is left alone.
RebuildMainWritten ==
    /\ pc = "rebuild_main"
    /\ at # NoBlock
    /\ main_table_ba' = at
    /\ mapping_blocks_ba' = at + 1
    /\ MarkTablesClean
    /\ \/ \E b \in Blocks :
             /\ IsReserved(b, at + 1, mapping_blocks_top_ba - 1)
             /\ WriteTable(b, mapping_blocks_top_ba, "rebuild_backup")
       \/ /\ \A b \in Blocks : ~IsReserved(b, at + 1, mapping_blocks_top_ba - 1)
          /\ Goto(OnceDone)
    /\ UNCHANGED <<flash, backup_table_ba, tops, cache, protected, hist, env>>

RebuildBackupWritten ==
    /\ pc = "rebuild_backup"
    /\ at # NoBlock
    /\ backup_table_ba' = at
    /\ mapping_blocks_ba' = at + 1
    /\ EraseRange(main_table_ba + 1, at, OnceDone)
    /\ UNCHANGED <<flash, state, maps, main_table_ba, tops, cache, protected, hist, env>>

RebuildBackupFailed ==
    /\ pc = "rebuild_backup"
    /\ at = NoBlock
    /\ Goto(OnceDone)
    /\ UNCHANGED <<flash, state, maps, tabs, tops, cache, protected, hist, env>>

----------------------------------------------------------------------------
(* nmbm_rescue_main_info_table: the main table cannot be written in place but *)
(* the backup exists.  A temporary table goes behind the backup, then a new   *)
(* main table to the start of the area; the temporary one becomes the backup. *)

BackupBecomesMain ==
    /\ main_table_ba' = backup_table_ba
    /\ backup_table_ba' = 0

RescueMain ==
    /\ pc = "once_main"
    /\ at = NoBlock
    /\ backup_table_ba # 0
    /\ \/ \E b \in Blocks :
             /\ IsReserved(b, mapping_blocks_ba, mapping_blocks_top_ba - 1)
             /\ WriteTable(b, mapping_blocks_top_ba, "rescue_tmp")
             /\ UNCHANGED tabs
       \/ /\ \A b \in Blocks : ~IsReserved(b, mapping_blocks_ba, mapping_blocks_top_ba - 1)
          /\ BackupBecomesMain
          /\ Goto("update")
          /\ UNCHANGED mapping_blocks_ba
    /\ UNCHANGED <<flash, state, maps, tops, cache, protected, hist, env>>

\* Retried one block lower, down to mapping_blocks_ba.
RescueTmpFailed ==
    /\ pc = "rescue_tmp"
    /\ at = NoBlock
    /\ \/ /\ w.start > mapping_blocks_ba
          /\ WriteTable(w.start - 1, mapping_blocks_top_ba, "rescue_tmp")
          /\ UNCHANGED tabs
       \/ /\ w.start <= mapping_blocks_ba
          /\ BackupBecomesMain
          /\ Goto("update")
          /\ UNCHANGED mapping_blocks_ba
    /\ UNCHANGED <<flash, state, maps, tops, cache, protected, hist, env>>

RescueTmpWritten ==
    /\ pc = "rescue_tmp"
    /\ at # NoBlock
    /\ mapping_blocks_ba' = at + 1
    /\ WriteTable(MgmtStart, at, "rescue_main")
    /\ UNCHANGED <<flash, state, maps, main_table_ba, backup_table_ba, tops, cache, protected,
                   hist, env>>

\* The main table was limited by the temporary one, at w.limit.
RescueMainDone ==
    /\ pc = "rescue_main"
    /\ IF at # NoBlock
       THEN main_table_ba' = at /\ backup_table_ba' = w.limit
       ELSE main_table_ba' = w.limit /\ backup_table_ba' = 0
    /\ MarkTablesClean
    /\ Goto("update")
    /\ UNCHANGED <<flash, mapping_blocks_ba, tops, cache, protected, hist, env>>

----------------------------------------------------------------------------
(* After a restart that found one table (nmbm_rescue_single_info_table) or    *)
(* two of different age (nmbm_update_single_info_table).                      *)

\* The end of nmbm_load_info_table.  ok: there are two tables of one age.
LoadDone(ok) ==
    /\ protected' = (mapping_blocks_ba' = mapping_blocks_top_ba' \/ ~ok)
    /\ pc' = "ready"
    /\ caller' = "off" /\ w' = NoRange /\ at' = NoBlock /\ req' = NoReq

\* A new table in front of the one there is.
RescueFrontWritten ==
    /\ pc = "rescue_front"
    /\ at # NoBlock
    /\ backup_table_ba' = main_table_ba
    /\ main_table_ba' = at
    /\ MarkTablesClean
    /\ EraseRange(at + 1, main_table_ba, "load_ok")
    /\ UNCHANGED <<flash, mapping_blocks_ba, tops, cache, protected, hist, env>>

\* No room in front: behind it, with spare blocks in between if there are any.
RescueFrontFailed ==
    /\ pc = "rescue_front"
    /\ at = NoBlock
    /\ \/ \E b \in Blocks :
             /\ IsReserved(b, mapping_blocks_ba, mapping_blocks_top_ba - 1)
             /\ WriteTable(b, mapping_blocks_top_ba, "rescue_back")
             /\ UNCHANGED <<protected, tabs, tops>>
       \/ /\ \A b \in Blocks : ~IsReserved(b, mapping_blocks_ba, mapping_blocks_top_ba - 1)
          /\ UNCHANGED <<tabs, tops>>
          /\ LoadDone(FALSE)
    /\ UNCHANGED <<flash, state, maps, cache, hist, env>>

RescueBackFailed ==
    /\ pc = "rescue_back"
    /\ at = NoBlock
    /\ \/ /\ w.start > mapping_blocks_ba
          /\ WriteTable(w.start - 1, mapping_blocks_top_ba, "rescue_back")
          /\ UNCHANGED <<protected, tabs, tops>>
       \/ /\ w.start <= mapping_blocks_ba
          /\ UNCHANGED <<tabs, tops>>
          /\ LoadDone(FALSE)
    /\ UNCHANGED <<flash, state, maps, cache, hist, env>>

RescueBackWritten ==
    /\ pc = "rescue_back"
    /\ at # NoBlock
    /\ EraseRange(mapping_blocks_ba, at, "rescue_adopt")
    /\ UNCHANGED <<flash, state, maps, tabs, tops, cache, protected, hist, env>>

RescueBackAdopted ==
    /\ pc = "rescue_adopt"
    /\ backup_table_ba' = at
    /\ mapping_blocks_ba' = at + 1
    /\ MarkTablesClean
    /\ UNCHANGED tops
    /\ LoadDone(TRUE)
    /\ UNCHANGED <<flash, main_table_ba, cache, hist, env>>

LoadOk ==
    /\ pc = "load_ok"
    /\ UNCHANGED <<tabs, tops>>
    /\ LoadDone(TRUE)
    /\ UNCHANGED <<flash, state, maps, cache, hist, env>>

\* The older of two tables, the main one or the backup, was written again.
OlderWritten ==
    /\ pc \in {"older_main", "older_backup"}
    /\ at # NoBlock
    /\ IF pc = "older_main"
       THEN main_table_ba' = at /\ UNCHANGED <<backup_table_ba, mapping_blocks_ba>>
       ELSE backup_table_ba' = at /\ mapping_blocks_ba' = at + 1 /\ UNCHANGED main_table_ba
    /\ MarkTablesClean
    /\ UNCHANGED tops
    /\ LoadDone(TRUE)
    /\ UNCHANGED <<flash, cache, hist, env>>

OlderMainFailed ==
    /\ pc = "older_main"
    /\ at = NoBlock
    /\ BackupBecomesMain
    /\ WriteTable(MgmtStart, backup_table_ba, "rescue_front")
    /\ UNCHANGED <<flash, state, maps, mapping_blocks_ba, tops, cache, protected, hist, env>>

OlderBackupFailed ==
    /\ pc = "older_backup"
    /\ at = NoBlock
    /\ mapping_blocks_ba' = backup_table_ba
    /\ backup_table_ba' = 0
    /\ UNCHANGED <<main_table_ba, tops>>
    /\ LoadDone(FALSE)
    /\ UNCHANGED <<flash, state, maps, cache, hist, env>>

----------------------------------------------------------------------------
(* Attaching: nmbm_attach, nmbm_load_existing, nmbm_load_info_table.         *)

\* Blocks with a read error that the ECC may report while tables are searched.
EccErrors == SUBSET {b \in Blocks : content[b].k = "torn"}

\* Mutant: the lowest block in use counts as unmapped.
IsTop_Used(top, map, e, sig) ==
    LET used == {map[lb] : lb \in Logical} \cap (e..(sig - 1))
    IN  top \in used \cup {sig} /\ \A y \in used : top <= y
\* top is just below the lowest block that map puts into e..(sig - 1), or else
\* below the signature.
IsTop(top, map, e, sig) ==
    LET used == {map[lb] : lb \in Logical} \cap (e..(sig - 1))
    IN  top + 1 \in used \cup {sig} /\ \A y \in used : top < y

\* The final data_block_count: up to the last logical block with a mapping.
IsDataCount(n, map) ==
    \/ (\A lb \in Logical : map[lb] = NoBlock) /\ n = MgmtStart
    \/ n > 0 /\ map[n - 1] # NoBlock /\ \A lb \in n..(MgmtStart - 1) : map[lb] = NoBlock

\* The table that nmbm_update_single_info_table writes: the older one.
WritesMain(m, s) == Newest(m, s) # m

\* Tables m and s are found.  Blocks that are marked, or unreadable (ecc), on
\* the way to m and from there to s (or to the end) count as newly bad.
LoadTables(sig, m, s, ecc) ==
    LET newest  == Newest(m, s)
        t       == content[newest].t
        last    == IF s = NoBlock THEN m ELSE s
        found1  == {b \in MgmtStart..(m - 1) : b \in marked \cup ecc}
        found2  == {b \in (m + 1)..((IF s = NoBlock THEN sig - 1 ELSE s) - 1) :
                      b \in (marked \cup ecc) \ content[m].t.bad}
        changed == found1 \cup found2 # {}
        differ  == s # NoBlock /\ content[m].t.wc # content[s].t.wc
    IN  /\ bad' = IF newest = m THEN t.bad \cup found2 ELSE t.bad
        /\ block_state_changed' = (changed \/ differ)
        /\ block_mapping_changed' = differ
        /\ block_mapping' = t.map
        /\ \E n \in 0..MgmtStart : IsDataCount(n, t.map) /\ data_block_count' = n
        /\ signature_ba' = sig
        /\ main_table_ba' = m
        /\ backup_table_ba' = IF s = NoBlock THEN 0 ELSE s
        /\ mapping_blocks_ba' = last + 1
        /\ \E top \in Blocks :
              /\ IsTop(top, t.map, newest + 1, sig)
              /\ mapping_blocks_top_ba' = top
              /\ weak' = weak \cup (IF top <= last THEN {"overlap"} ELSE {})
        /\ GenerateCache(bad', t.map, t.wc, changed)
        /\ IF s = NoBlock
           THEN WriteTable(MgmtStart, m, "rescue_front") /\ UNCHANGED protected
           ELSE IF ~differ THEN LoadDone(TRUE)
           ELSE /\ UNCHANGED protected
                /\ IF WritesMain(m, s)
                   THEN WriteTable(m, s, "older_main")
                   ELSE WriteTable(s, mapping_blocks_top_ba', "older_backup")

AttachLoad ==
    /\ pc = "off"
    /\ \E sig \in Signature : \E m \in FirstTable(sig) :
          \E s \in SecondTable(sig, m), ecc \in EccErrors : LoadTables(sig, m, s, ecc)
    /\ UNCHANGED <<flash, intact, env>>

\* The device does not attach.
AttachRefused ==
    /\ pc = "off"
    /\ ~ForceCreate
    /\ Restart = {}
    /\ Goto("dead")
    /\ UNCHANGED <<flash, state, maps, tabs, tops, cache, protected, hist, env>>

(* Creating: nmbm_create_new, nmbm_write_signature, nmbm_create_info_table.  *)

\* nmbm_scan_badblocks and nmbm_build_mapping_table
ScanAndMap(found) ==
    /\ bad' = found
    /\ block_state_changed' = (found # {})
    /\ \E map \in [Logical -> Logical \cup {NoBlock}], n \in 0..MgmtStart :
          IsInitialMap(map, n, found) /\ block_mapping' = map /\ data_block_count' = n
    /\ UNCHANGED block_mapping_changed
    /\ intact' = {}

\* The start of nmbm_create_info_table, with b and map in memory: the second
\* good block from the signature downwards is the top of the area.
BeginTables(sig, b, map, changed) ==
    /\ signature_ba' = sig
    /\ \/ \E top \in Blocks :
             /\ IsLast(top, {x \in Blocks : MgmtStart < x /\ x < sig /\ x \notin b})
             /\ mapping_blocks_top_ba' = top
             /\ GenerateCache(b, map, write_count, changed)
             /\ RebuildTables("map_loop")
       \/ /\ \A x \in Blocks : MgmtStart < x /\ x < sig => x \in b
          /\ Goto("dead")
          /\ UNCHANGED <<tabs, mapping_blocks_top_ba, cache>>

\* nmbm_load_existing without a table.
AttachCreate ==
    /\ pc = "off"
    /\ ForceCreate
    /\ Restart = {}
    /\ \E sig \in Signature, ecc \in EccErrors :
          /\ ScanAndMap(marked \cup {b \in ecc : MgmtStart <= b /\ b < sig - 1})
          /\ BeginTables(sig, bad', block_mapping', block_state_changed')
    /\ UNCHANGED <<flash, protected, weak, env>>

\* nmbm_create_new: first the signature, from the last block downwards.
AttachNew ==
    /\ pc = "off"
    /\ ForceCreate
    /\ Signature = {}
    /\ ScanAndMap(marked)
    /\ w' = [start |-> BlockCount - 1, ba |-> BlockCount - 1, limit |-> MgmtStart, cont |-> "dead"]
    /\ pc' = "sig_erase"
    /\ UNCHANGED <<flash, tabs, tops, cache, protected, caller, at, req, weak, env>>

\* nmbm_write_signature
UsableDown == {x \in (w.limit + 1)..w.ba : x \in Blocks \ (bad \cup marked)}

SignatureErase ==
    /\ pc = "sig_erase"
    /\ \E b \in UsableDown :
          /\ IsLast(b, UsableDown)
          /\ content' = [content EXCEPT ![b] = Holds("erased")]
          /\ w' = [w EXCEPT !.ba = b]
    /\ pc' = "sig_program"
    /\ UNCHANGED <<marked, state, maps, tabs, tops, cache, protected, caller, at, req, hist, env>>

SignatureEraseFails ==
    /\ pc = "sig_erase"
    /\ \E b \in UsableDown :
          /\ IsLast(b, UsableDown)
          /\ FailErase(b)
          /\ MarkBad(b, {})
          /\ w' = [w EXCEPT !.ba = b - 1]
    /\ Fault
    /\ UNCHANGED <<maps, tabs, tops, cache, protected, pc, caller, at, req, hist>>

SignatureProgram ==
    /\ pc = "sig_program"
    /\ content' = [content EXCEPT ![w.ba] = Holds("sig")]
    /\ BeginTables(w.ba, bad, block_mapping, block_state_changed)
    /\ UNCHANGED <<marked, state, maps, protected, hist, env>>

SignatureProgramFails ==
    /\ pc = "sig_program"
    /\ content' = Ruin(w.ba)
    /\ MarkBad(w.ba, {})
    /\ w' = [w EXCEPT !.ba = @ - 1]
    /\ pc' = "sig_erase"
    /\ Fault
    /\ UNCHANGED <<maps, tabs, tops, cache, protected, caller, at, req, hist>>

SignatureNoRoom ==
    /\ pc = "sig_erase"
    /\ UsableDown = {}
    /\ Goto("dead")
    /\ UNCHANGED <<flash, state, maps, tabs, tops, cache, protected, hist, env>>

----------------------------------------------------------------------------
(* nmbm_map_block: the highest good block of the unmapped ones replaces the   *)
(* block of lb.                                                               *)

\* What the walk down from mapping_blocks_top_ba can stop at.
Unmapped == {x \in (mapping_blocks_ba + 1)..mapping_blocks_top_ba : x \in Blocks \ bad}

\* Mutant: the block stays among the unmapped ones.
TopAfterMap_Same(pb) == mapping_blocks_top_ba
\* mapping_blocks_top_ba goes down by one, whichever block was taken.
TopAfterMap(pb) == mapping_blocks_top_ba - 1

MapTo(lb, pb) ==
    /\ block_mapping' = [block_mapping EXCEPT ![lb] = pb]
    /\ block_mapping_changed' = TRUE
    /\ mapping_blocks_top_ba' = TopAfterMap(pb)
    /\ UNCHANGED signature_ba

\* Blocks that turned bad before they were used were passed over.
Skipped(pb) == IF pb # mapping_blocks_top_ba THEN {"skip"} ELSE {}

\* Mutant: one too many.
LeftToMap_TooMany == data_block_count <= MgmtStart
LeftToMap == data_block_count < MgmtStart

\* nmbm_create_info_table: replace what the data area has no good block for.
MapNext ==
    /\ pc = "map_loop"
    /\ LeftToMap
    /\ mapping_blocks_ba # mapping_blocks_top_ba
    /\ \E pb \in Unmapped :
          /\ IsLast(pb, Unmapped)
          /\ MapTo(data_block_count, pb)
          /\ weak' = weak \cup Skipped(pb)
    /\ data_block_count' = data_block_count + 1
    /\ UNCHANGED <<flash, state, tabs, cache, protected, ctl, intact, env>>

MapLoopDone ==
    /\ pc = "map_loop"
    /\ ~LeftToMap \/ mapping_blocks_ba = mapping_blocks_top_ba
    /\ UpdateTables("create_ret")
    /\ UNCHANGED <<flash, state, maps, tabs, tops, cache, protected, hist, env>>

\* No good block is left: save the tables, then give the range up.
MapLoopFull ==
    /\ pc = "map_loop"
    /\ LeftToMap
    /\ mapping_blocks_ba # mapping_blocks_top_ba
    /\ Unmapped = {}
    /\ UpdateTables("create_full")
    /\ UNCHANGED <<flash, state, maps, tabs, tops, cache, protected, hist, env>>

CreateFull ==
    /\ pc = "create_full"
    /\ mapping_blocks_top_ba' = mapping_blocks_ba
    /\ UpdateTables("create_ret")
    /\ UNCHANGED <<flash, state, maps, tabs, signature_ba, cache, protected, hist, env>>

CreateDone ==
    /\ pc = "create_ret"
    /\ pc' = "ready"
    /\ caller' = "off" /\ w' = NoRange /\ at' = NoBlock /\ req' = NoReq
    /\ UNCHANGED <<flash, state, maps, tabs, tops, cache, protected, hist, env>>

----------------------------------------------------------------------------
(* The front end of mtk_bmt.c, at the granularity of a block, and             *)
(* remap_block_nmbm.                                                          *)

Ready == pc = "ready"
Reachable(lb) == lb < data_block_count /\ block_mapping[lb] >= 0

\* A block is erased and written: mtk_bmt_mtd_erase and mtk_bmt_write.  Other
\* copies of what lb held are out of date from now on.
UserWrite(lb) ==
    /\ Ready
    /\ Reachable(lb)
    /\ content' = [b \in Blocks |-> IF b = block_mapping[lb] THEN DataOf(lb)
                                    ELSE IF content[b] = DataOf(lb) THEN Holds("old")
                                    ELSE content[b]]
    /\ intact' = intact \cup {lb}
    /\ UNCHANGED <<marked, state, maps, tabs, tops, cache, protected, ctl, weak, env>>

\* remap_block_nmbm up to its first flash operation.
RemapBlock(lb, copy, mark) ==
    LET old == block_mapping[lb]
        now == [lb |-> lb, old |-> old, new |-> old, copy |-> copy, mark |-> mark,
                repair |-> FALSE]
        spare == {x \in Unmapped : x # old}
    IN  /\ SetBad({old})
        /\ UNCHANGED data_block_count
        /\ \/ /\ mapping_blocks_ba = mapping_blocks_top_ba
              /\ req' = now
              /\ pc' = "remap_ret"
              /\ UNCHANGED <<block_mapping, block_mapping_changed, tops, caller, weak>>
           \/ /\ mapping_blocks_ba # mapping_blocks_top_ba
              /\ spare = {}
              /\ req' = now
              /\ pc' = "update"
              /\ caller' = "remap_full"
              /\ UNCHANGED <<block_mapping, block_mapping_changed, tops, weak>>
           \/ /\ mapping_blocks_ba # mapping_blocks_top_ba
              /\ \E pb \in spare :
                    /\ IsLast(pb, spare)
                    /\ MapTo(lb, pb)
                    /\ weak' = weak \cup Skipped(pb)
                                    \cup (IF protected THEN {"unsaved"} ELSE {})
                    /\ req' = [now EXCEPT !.new = pb]
              /\ pc' = "remap_erase"
              /\ UNCHANGED caller
        /\ UNCHANGED <<w, at>>

\* A read, program or erase of the user fails for good: what the block held is
\* lost.  A failed erase asks for no copy.
UserFault(lb) ==
    /\ Ready
    /\ Reachable(lb)
    /\ content' = Ruin(block_mapping[lb])
    /\ intact' = intact \ {lb}
    /\ \E copy \in BOOLEAN : RemapBlock(lb, copy, FALSE)
    /\ Fault
    /\ UNCHANGED <<marked, tabs, cache, protected>>

\* A read corrects as many bitflips as bitflip_threshold (mtk_bmt_read), or the
\* file mark_bad of debugfs is written, or (mark) the user declares the block bad
\* (mtk_bmt_block_markbad).
UserRemap(lb) ==
    /\ Ready
    /\ Reachable(lb)
    /\ \E mark \in BOOLEAN : RemapBlock(lb, TRUE, mark)
    /\ Fault
    /\ UNCHANGED <<flash, tabs, cache, protected, intact>>

\* mtk_bmt_block_isbad meets a mark: a remap that failed before is tried again.
UserIsBad(lb) ==
    /\ Ready
    /\ Reachable(lb)
    /\ block_mapping[lb] \in marked
    /\ RemapBlock(lb, TRUE, FALSE)
    /\ UNCHANGED <<flash, tabs, cache, protected, intact, env>>

\* unmap_block_nmbm, from the files mark_good and repair of debugfs: lb goes back
\* to where it lies relative to the last logical block before it that is not
\* remapped.  What is there is known only after a repair has copied the data.
UnmapTarget(lb, new) ==
    \E s \in 0..(lb - 1) :
        /\ block_mapping[s] \in 0..(mapping_blocks_ba - 1)
        /\ \A x \in (s + 1)..lb : block_mapping[x] \notin 0..(mapping_blocks_ba - 1)
        /\ new = block_mapping[s] + (lb - s)

\* The block belongs to something else, or is bad for a reason.
Misplaced(lb, new) ==
    \/ new >= MgmtStart
    \/ new \in marked
    \/ \E x \in Logical \ {lb} : x < data_block_count /\ block_mapping[x] = new

\* The map below data_block_count.
Used(map) == [lb \in Logical |-> IF lb < data_block_count THEN map[lb] ELSE NoBlock]

\* Mutant: all blocks up to the signature count as unmapped.
IsTopAfterUnmap_Sig(top, map) == top = signature_ba - 1
\* unmap_block_nmbm looks for the lowest block in use again.
IsTopAfterUnmap(top, map) == IsTop(top, Used(map), mapping_blocks_ba, signature_ba)

UserUnmap(lb, repair) ==
    /\ Ready
    /\ Reachable(lb)
    /\ \E new \in Blocks :
          /\ UnmapTarget(lb, new)
          /\ bad' = bad \ {new}
          /\ block_state_changed' = (block_state_changed \/ new \in bad)
          /\ block_mapping' = [block_mapping EXCEPT ![lb] = new]
          /\ \E top \in MaybeBlock : /\ IsTopAfterUnmap(top, block_mapping')
                                     /\ mapping_blocks_top_ba' = top
          /\ weak' = weak \cup (IF Misplaced(lb, new) THEN {"unmap"} ELSE {})
                          \cup (IF protected THEN {"unsaved"} ELSE {})
          /\ req' = [lb |-> lb, old |-> block_mapping[lb], new |-> new, copy |-> TRUE,
                     mark |-> FALSE, repair |-> repair]
    /\ block_mapping_changed' = TRUE
    /\ intact' = intact \ {lb}
    /\ pc' = "update"
    /\ caller' = "unmap_ret"
    /\ Fault
    /\ UNCHANGED <<flash, data_block_count, tabs, signature_ba, cache, protected, w, at>>

UnmapDone ==
    /\ pc = "unmap_ret"
    /\ Goto(IF req.repair /\ req.new # req.old THEN "remap_erase" ELSE "remap_ret")
    /\ UNCHANGED <<flash, state, maps, tabs, tops, cache, protected, hist, env>>

\* What a repair copies may have become a table when the map was saved.
Overwritten == IF req.repair /\ content[req.old].k = "table" THEN {"unmap"} ELSE {}

\* bbt_nand_erase and bbt_nand_copy: nobody looks at their results.  A repair has
\* saved its map before, a remap does so now.
RemapErase ==
    /\ pc = "remap_erase"
    /\ \/ content' = [content EXCEPT ![req.new] = Holds("erased")] /\ UNCHANGED env
       \/ FailErase(req.new) /\ Fault
    /\ IF req.copy
       THEN Goto("remap_copy")
       ELSE UpdateTables("remap_ret")
    /\ UNCHANGED <<marked, state, maps, tabs, tops, cache, protected, hist>>

RemapCopy ==
    /\ pc = "remap_copy"
    /\ \/ /\ content[req.new].k = "erased"
          /\ content' = [content EXCEPT ![req.new] = content[req.old]]
          /\ intact' = IF req.repair /\ content[req.old] = DataOf(req.lb)
                       THEN intact \cup {req.lb} ELSE intact
          /\ weak' = weak \cup Overwritten
          /\ UNCHANGED env
       \/ /\ content[req.new].k # "erased"
          /\ content' = Ruin(req.new)
          /\ intact' = intact \ {req.lb}
          /\ UNCHANGED <<weak, env>>
       \/ /\ content' = Ruin(req.new)
          /\ intact' = intact \ {req.lb}
          /\ Fault
          /\ UNCHANGED weak
    /\ IF req.repair
       THEN Goto("remap_ret")
       ELSE UpdateTables("remap_ret")
    /\ UNCHANGED <<marked, state, maps, tabs, tops, cache, protected>>

\* nmbm_map_block found no good block.
RemapFull ==
    /\ pc = "remap_full"
    /\ mapping_blocks_top_ba' = mapping_blocks_ba
    /\ Goto("remap_ret")
    /\ UNCHANGED <<flash, state, maps, tabs, signature_ba, cache, protected, hist, env>>

\* Back in the front end: mtk_bmt_block_markbad marks the block remapped or not.
RemapDone ==
    /\ pc = "remap_ret"
    /\ marked' = IF req.mark THEN marked \cup {req.old} ELSE marked
    /\ pc' = "ready"
    /\ caller' = "off" /\ w' = NoRange /\ at' = NoBlock /\ req' = NoReq
    /\ UNCHANGED <<content, state, maps, tabs, tops, cache, protected, hist, env>>

----------------------------------------------------------------------------
(* Power.                                                                     *)

\* Blocks a power cut can catch half changed.
InFlight ==
    CASE pc \in {"w_erase", "e_erase"}          -> First(Usable)
      [] pc = "sig_erase"                       -> Last(UsableDown)
      [] pc \in {"w_program", "sig_program"}    -> {w.ba}
      [] pc \in {"remap_erase", "remap_copy"}   -> {req.new}
      [] OTHER                                  -> {}

\* What is being programmed may be complete though not yet verified.
Programmed == CASE pc = "w_program"   -> TableOf(info_table_cache)
                [] pc = "sig_program" -> Holds("sig")
                [] OTHER              -> Holds("torn")

PowerCut ==
    /\ pc # "off"
    /\ cuts > 0
    /\ cuts' = cuts - 1
    /\ \/ UNCHANGED content
       \/ \E b \in InFlight, c \in {Holds("torn"), Programmed} :
             content' = [content EXCEPT ![b] = c]
    /\ bad' = {}
    /\ block_mapping' = [lb \in Logical |-> 0]
    /\ block_state_changed' = FALSE
    /\ block_mapping_changed' = FALSE
    /\ data_block_count' = 0
    /\ signature_ba' = 0
    /\ main_table_ba' = 0
    /\ backup_table_ba' = 0
    /\ mapping_blocks_ba' = 0
    /\ mapping_blocks_top_ba' = 0
    /\ write_count' = 0
    /\ info_table_cache' = NoTable
    /\ protected' = FALSE
    /\ pc' = "off"
    /\ caller' = "off" /\ w' = NoRange /\ at' = NoBlock /\ req' = NoReq
    /\ UNCHANGED <<marked, hist, faults>>

----------------------------------------------------------------------------

WriteStep  == WriteErase \/ WriteProgram \/ WriteProgramFails \/ WriteNoRoom
EraseStep  == EraseNext \/ EraseFails \/ EraseDone
UpdateStep == UpdateDone \/ UpdateOnce \/ BackupWritten \/ BackupFailed \/ MainWritten
RebuildStep ==
    \/ MainFailedAlone \/ RebuildMainFailed \/ RebuildMainWritten
    \/ RebuildBackupWritten \/ RebuildBackupFailed
RescueStep ==
    \/ RescueMain \/ RescueTmpFailed \/ RescueTmpWritten \/ RescueMainDone
    \/ RescueFrontWritten \/ RescueFrontFailed
    \/ RescueBackFailed \/ RescueBackWritten \/ RescueBackAdopted
    \/ LoadOk \/ OlderWritten \/ OlderMainFailed \/ OlderBackupFailed
AttachStep ==
    \/ AttachLoad \/ AttachRefused \/ AttachCreate \/ AttachNew
    \/ SignatureErase \/ SignatureEraseFails \/ SignatureProgram
    \/ SignatureProgramFails \/ SignatureNoRoom
MapStep   == MapNext \/ MapLoopDone \/ MapLoopFull \/ CreateFull \/ CreateDone
RemapStep == UnmapDone \/ RemapErase \/ RemapCopy \/ RemapFull \/ RemapDone

\* What the driver does by itself, once called.
DriverStep ==
    \/ WriteStep \/ EraseStep \/ UpdateStep \/ RebuildStep
    \/ RescueStep \/ AttachStep \/ MapStep \/ RemapStep

UserStep ==
    \E lb \in Logical :
        \/ UserWrite(lb) \/ UserFault(lb) \/ UserRemap(lb) \/ UserIsBad(lb)
        \/ \E repair \in BOOLEAN : UserUnmap(lb, repair)

Next == DriverStep \/ UserStep \/ PowerCut

Spec == Init /\ [][Next]_vars

----------------------------------------------------------------------------
(* Properties. *)

\* Type invariant.  struct nmbm_instance: data_block_count stays within the data
\* area, what block_mapping holds is a block or -1, and the addresses of the
\* signature and the two tables stay on the chip.
TypeOK ==
    /\ content \in [Blocks -> Content]
    /\ marked \subseteq Blocks
    /\ bad \subseteq Blocks
    /\ block_mapping \in [Logical -> MaybeBlock]
    /\ block_state_changed \in BOOLEAN
    /\ block_mapping_changed \in BOOLEAN
    /\ data_block_count \in 0..MgmtStart
    /\ {signature_ba, main_table_ba, backup_table_ba} \subseteq Blocks
    /\ {mapping_blocks_ba, mapping_blocks_top_ba} \subseteq Int
    /\ write_count \in Nat
    /\ info_table_cache \in Table
    /\ protected \in BOOLEAN
    /\ pc \in Labels /\ caller \in Labels
    /\ w \in Range
    /\ at \in MaybeBlock
    /\ req \in Request
    /\ intact \subseteq Logical
    /\ weak \subseteq {"skip", "unmap", "overlap", "unsaved"}
    /\ faults \in 0..MaxFaults
    /\ cuts \in 0..MaxCuts

\* nmbm_attach has succeeded, no call of the front end is under way, and nothing
\* voids the promises.
Quiet == pc = "ready" /\ weak = {}

\* What mtk_bmt_write put into a logical block, and no fault has destroyed, is
\* where get_mapping_block_index_nmbm sends the next mtk_bmt_read: through
\* remaps, table updates, restarts and everything nmbm_erase_range erases.
DataReachable ==
    Quiet => \A lb \in intact : /\ Reachable(lb)
                                /\ content[block_mapping[lb]] = DataOf(lb)

\* At every flash operation: the table that nmbm_load_info_table would choose if
\* power went now maps every logical block to its data, though remap_block_nmbm
\* copies the data before nmbm_update_info_table writes the two tables in place.
RestartFindsData ==
    weak = {} => \A t \in Restart : \A lb \in intact :
                    /\ t.map[lb] >= 0
                    /\ content[t.map[lb]] = DataOf(lb)

\* No two logical blocks share a physical block.
OneToOne(map) ==
    \A x, y \in Logical : x # y /\ map[x] = map[y] => map[x] = NoBlock
\* "Map a bad block to a unused spare block" (nmbm_map_block): a spare block is
\* handed out once.
Injective == pc \notin {"off", "dead"} => OneToOne(block_mapping)

\* The map is void once a bad block was skipped, or a repair went astray or copied a
\* table, or a restart took a remapped block for a table.
Sound == weak \cap {"skip", "unmap", "overlap"} = {}
\* Otherwise no two logical blocks share a physical one, after nmbm_map_block,
\* unmap_block_nmbm and a reload of whatever table a power cut left.
MappingInjective == Sound => Injective

\* nmbm_load_info_table never takes as a table what lies above the block it then
\* finds to be the lowest remapped one (mapping_blocks_top_ba): erasing, copying
\* over or abandoning spare blocks leaves no stale table in the mapped blocks.
NoOverlap == weak \cap {"skip", "unmap"} = {} => "overlap" \notin weak

\* No logical block is mapped to the signature, a table, a spare block or one
\* that nmbm_map_block may still hand out: mapping_blocks_top_ba, lowered by
\* nmbm_map_block and recomputed by nmbm_load_info_table and unmap_block_nmbm,
\* stays below every block in use.
AreaDisjoint ==
    pc = "ready" /\ Sound =>
        \A lb \in Logical :
            lb < data_block_count =>
                /\ block_mapping[lb] # signature_ba
                /\ block_mapping[lb] \notin MgmtStart..mapping_blocks_top_ba

\* nmbm_update_info_table commits, nmbm_load_info_table reloads: over all the
\* erases and programs of the two tables, their failures, rescues and power cuts,
\* the flash is a store whose map goes in one step from the previous one to the one
\* in use, never back, and which is empty only when the only table is rewritten.
Store == INSTANCE MapStore WITH
    Map    <- [Logical -> MaybeBlock],
    NoMap  <- <<>>,
    saved  <- {t.map : t \in Restart},
    memory <- IF pc \in {"off", "dead"} THEN <<>> ELSE block_mapping,
    spare  <- backup_table_ba # 0,
    void   <- weak # {}
StoresMap == Store!Spec

\* The driver is called synchronously and runs on: no step waits for anybody.
Fairness == WF_vars(DriverStep)
FairSpec == Spec /\ Fairness

\* Every call returns and every attach succeeds or gives up: the loops of
\* nmbm_update_info_table, nmbm_erase_range, nmbm_write_mgmt_range and of the
\* rescue functions end, whatever fails on the way.
Settles  == pc \notin {"ready", "dead"} ~> pc \in {"ready", "dead"}

=============================================================================
