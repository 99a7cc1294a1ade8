---------------------------- MODULE NMBM_proofs ----------------------------
(***************************************************************************)
(* What the info tables of NMBM promise, proved with TLAPS for every chip, *)
(* every management area and every set of factory marks: a table that a    *)
(* restart could find is never taken for a block in use, nor a block in    *)
(* use for a table; and what the user wrote is where the driver, or the    *)
(* table that a restart takes, says it is.                                 *)
(*                                                                         *)
(* The invariant has four parts.  FlashInv speaks about the tables on the  *)
(* flash alone, so that a power cut at any point leaves it true.  PathInv  *)
(* says where the driver is: which blocks it has passed and which address  *)
(* stands for which table.  TableInv relates the two: the tables on the    *)
(* flash are those of the driver, and what it forgets it will never use.   *)
(* DataInv, on top of them, says where the data is; OneMap, when all       *)
(* tables have one map, so that a step changes what is stored as a whole.  *)
(***************************************************************************)
EXTENDS NMBM_map

----------------------------------------------------------------------------
(* What the flash holds.                                                     *)

\* The blocks that hold a table: those a restart may meet, and those marked bad.
Tabled == {b \in Blocks : content[b].k = "table"}
Copies == Tabled \ marked
Stale  == Tabled \cap marked
\* The block that nmbm_find_signature meets.
Signed == {b \in Blocks : content[b].k = "sig"}

Tab(b) == content[b].t
AsNew(x, y) == Tab(x).wc >= Tab(y).wc
IsNewest(n) == n \in Copies /\ \A y \in Copies : AsNew(n, y)

\* Tables lie in front of the one signature, and at most two of them count.
PlaceInv ==
    /\ \A s, z \in Signed : s = z /\ s \notin marked
    /\ \A x \in Tabled : MgmtStart <= x /\ Signed # {}
    /\ \A x \in Tabled, s \in Signed : x + 2 <= s
    /\ \A x, y, z \in Copies : ~(x < y /\ y < z)

\* nmbm_check_info_table accepts each of them, and none calls another one bad.
CopyInv ==
    /\ \A x \in Copies, s \in Signed, lb \in Logical : Tab(x).map[lb] # s
    /\ \A x, y \in Copies : y \notin Tab(x).bad
    /\ \A x \in Copies, lb \in Logical : Tab(x).map[lb] \notin MgmtStart..(x + 1)

\* Of two tables the newer one knows more, and maps nothing to where they are.
\* That with the lower address is never the newer one of two with different maps.
AgeInv ==
    \A x, y \in Copies : AsNew(x, y) =>
        /\ \A lb \in Logical : Tab(x).map[lb] \notin MgmtStart..(y + 1)
        /\ \A b \in Tab(y).bad : b >= MgmtStart => b \in Tab(x).bad \cup marked
        /\ AsNew(y, x) => Tab(x) = Tab(y)
        /\ x < y => Tab(x).map = Tab(y).map

\* The newest one maps nothing to a block with a stale table.  When there are two,
\* it knows that nothing in front of them can be used, and the stale tables behind.
NewInv ==
    \A n \in Copies : IsNewest(n) =>
        /\ \A lb \in Logical : Tab(n).map[lb] \notin Stale
        /\ \A x, y \in Copies : x < y =>
              /\ MgmtStart..(x - 1) \subseteq marked \cup Tab(n).bad
              /\ \A r \in Stale : r < y \/ r \in Tab(n).bad

FlashInv == PlaceInv /\ CopyInv /\ AgeInv /\ NewInv

----------------------------------------------------------------------------
(* Where the driver is.                                                      *)

Unusable == bad \cup marked

\* The order of the tables, and the range in hand with respect to them.
OrderInv ==
    /\ Working => /\ main_table_ba < mapping_blocks_ba
                  /\ backup_table_ba = 0 \/ main_table_ba < backup_table_ba
                  /\ backup_table_ba < mapping_blocks_ba
    /\ pc \in {"w_erase", "w_program"} => w.start <= w.ba
    /\ Cont \in WriteConts => MgmtStart <= w.start
    /\ pc \in WriteConts =>
           at = NoBlock \/ (w.start <= at /\ at < w.limit /\ at = w.ba)
    /\ Working /\ ~(protected /\ Cont \in Calm) /\ Cont \notin {"rebuild_main", "rescue_main"} =>
           \/ mapping_blocks_ba =
                  1 + (IF backup_table_ba # 0 THEN backup_table_ba ELSE main_table_ba)
           \/ Cont = "once_main" /\ backup_table_ba = 0

SpanInv ==
    /\ Cont = "once_backup" => w.start = backup_table_ba
    /\ Cont = "once_main" => /\ w.start = main_table_ba
                             /\ w.limit = IF backup_table_ba = 0 THEN mapping_blocks_top_ba
                                          ELSE backup_table_ba
    /\ Cont = "rebuild_main" => /\ w.start = MgmtStart /\ w.limit = mapping_blocks_top_ba
                                /\ main_table_ba = 0
    /\ Cont = "rebuild_backup" => w.start > main_table_ba /\ backup_table_ba = 0
    /\ Cont = "rescue_tmp" => w.start >= mapping_blocks_ba
    /\ Cont = "rescue_main" => /\ w.start = MgmtStart /\ backup_table_ba # 0
                               /\ backup_table_ba < w.limit /\ mapping_blocks_ba = w.limit + 1
    /\ Cont = "rescue_front" => /\ w.start = MgmtStart /\ w.limit = main_table_ba
                                /\ backup_table_ba = 0
    /\ Cont = "rescue_back" => w.start >= mapping_blocks_ba /\ backup_table_ba = 0
    /\ Cont = "older_main" => w.start = main_table_ba /\ w.limit = backup_table_ba
    /\ Cont = "older_backup" => w.start = backup_table_ba
    /\ Cont \in {"once_backup", "rescue_tmp", "older_backup"} => w.limit = mapping_blocks_top_ba
    /\ Cont = "rescue_adopt" => main_table_ba < at /\ backup_table_ba = 0
    /\ pc = "e_erase" =>
           /\ w.cont = "rescue_adopt" => w.ba >= mapping_blocks_ba /\ w.limit = at
           /\ w.cont # "rescue_adopt" => /\ w.ba > main_table_ba /\ w.limit = backup_table_ba
                                         /\ backup_table_ba # 0

\* Blocks that the driver has passed are bad.
TriedInv ==
    /\ pc \in {"w_erase", "w_program"} => w.start..(w.ba - 1) \subseteq bad
    /\ pc = "w_program" => w.ba \notin Unusable
    /\ pc \in WriteConts => /\ at = NoBlock => w.start..(w.limit - 1) \subseteq bad
                            /\ at # NoBlock => w.start..(at - 1) \subseteq bad /\ at \notin Unusable

\* Those in front of the tables cannot be used.
LowInv ==
    /\ Working /\ Cont \notin {"rebuild_main", "rescue_front"} =>
           MgmtStart..(main_table_ba - 1) \subseteq Unusable
    /\ Cont \in {"rescue_tmp", "rescue_main"} =>
           MgmtStart..(backup_table_ba - 1) \subseteq Unusable
    /\ Cont = "rebuild_main" /\ caller # "map_loop" =>
           MgmtStart..(mapping_blocks_top_ba - 1) \subseteq Unusable
    /\ Cont = "rebuild_backup" => caller = "map_loop"

\* What a call has to remember.
ReqInv ==
    /\ Cont \in {"off", "sig_erase", "sig_program"} => req = NoReq
    /\ Cont \in {"off", "sig_erase", "sig_program", "ready"} => caller = "off"
    /\ Cont \in {"map_loop", "unmap_ret"} => caller = Cont
    /\ Cont = "rebuild_main" => caller # "off"
    /\ protected => Cont \in Calm \cup {"dead"}
    /\ Cont \in {"update", "once_backup", "once_main", "rescue_tmp", "rescue_main"} =>
           caller \notin {"off", "map_loop"}
    /\ caller = "unmap_ret" \/ Cont \in {"remap_erase", "remap_copy"} =>
           block_mapping[req.lb] = req.new
    /\ Cont \in {"remap_erase", "remap_copy"} =>
           req.new # req.old /\ (req.repair \/ req.old \notin Tabled)
    /\ Working => req.old # signature_ba /\ (req.mark => req.old \in bad)

PathInv == OrderInv /\ SpanInv /\ TriedInv /\ LowInv /\ ReqInv

----------------------------------------------------------------------------
(* The tables on the flash and the driver.                                   *)

\* The copies that stay during a write, and the one that is written again.
KeepsMain   == {"once_backup", "rebuild_backup", "rescue_front", "rescue_back", "older_backup"}
KeepsBackup == {"once_main", "rescue_tmp", "older_main"}
Kept ==
    IF Cont = "rescue_adopt" THEN {main_table_ba, at}
    ELSE IF Cont = "rescue_main" THEN {w.limit}
    ELSE IF Cont = "rebuild_main" THEN {}
    ELSE IF Cont \in KeepsMain THEN {main_table_ba}
    ELSE IF Cont \in KeepsBackup THEN {backup_table_ba} \ {0}
    ELSE {main_table_ba, backup_table_ba} \ {0}
Old ==
    IF Cont \in {"once_backup", "older_backup", "rescue_main"} THEN {backup_table_ba}
    ELSE IF Cont \in {"once_main", "older_main"} THEN {main_table_ba}
    ELSE {}
Extra ==
    IF pc = "w_erase" THEN {r \in Old : r >= w.ba}
    ELSE IF pc \in WriteConts THEN {at} \ {NoBlock}
    ELSE {}

\* The copies are those that the driver knows of, and the signature its own.
WhereInv ==
    /\ Cont \in {"sig_erase", "sig_program"} => Signed = {}
         /\ (pc = "sig_program" => w.ba \notin marked)
    /\ Working => /\ signature_ba \in Signed
                  /\ Kept \subseteq Copies
                  /\ Copies \subseteq Kept \cup Extra
                  /\ pc \in WriteConts /\ at # NoBlock => at \in Copies

\* Conts at which a copy that stays is the cache, or has the map in memory.
KeepsCache == {"once_main", "rebuild_backup", "rescue_tmp", "rescue_main"}
KeepsMap   == {"rescue_front", "rescue_back", "older_main", "older_backup", "load_ok",
               "rescue_adopt"}

\* No copy is newer than the cache, and the cache is what the driver knows.
CacheInv ==
    Working =>
        /\ info_table_cache.wc = write_count
        /\ \A x \in Copies : /\ Tab(x).wc <= write_count
                             /\ Tab(x).wc = write_count => Tab(x) = info_table_cache
                             /\ \A b \in Tab(x).bad : b >= MgmtStart => b \in Unusable
                             /\ x \notin bad
        /\ Cont \in WriteConts => /\ info_table_cache.map = block_mapping
                                  /\ info_table_cache.bad \subseteq bad
                                  /\ bad \subseteq info_table_cache.bad \cup marked
        /\ pc \in WriteConts /\ at # NoBlock => Tab(at) = info_table_cache
        /\ Cont \in KeepsCache => \A x \in Kept : Tab(x) = info_table_cache
        /\ Cont \in KeepsMap => \A x \in Kept : Tab(x).map = block_mapping

\* A bad block that is not used shields r from being handed out.
Shields(z, r) ==
    /\ r < z /\ z < signature_ba
    /\ \/ z <= mapping_blocks_top_ba
       \/ /\ mapping_blocks_top_ba = mapping_blocks_ba
          /\ \/ protected
             \/ mapping_blocks_ba = main_table_ba + 1
             \/ Cont = "rebuild_main" /\ caller # "map_loop"
    /\ \A lb \in Logical : block_mapping[lb] \notin MgmtStart..z
Shielded(r) == backup_table_ba = 0 /\ \E z \in bad : Shields(z, r)

\* A stale table is never handed out as a replacement block.
StaleInv ==
    Working =>
        /\ \A r \in Stale :
              r < main_table_ba \/ r < backup_table_ba \/ r \in bad \/ Shielded(r)
        /\ \A lb \in Logical : block_mapping[lb] \notin Tabled
        /\ Cont \in Calm \/ (Cont = "once_backup" /\ pc # "once_backup") =>
              \A x \in Copies, lb \in Logical : Tab(x).map[lb] \notin Tabled

\* While tables are written, the cache knows of those behind the second table to be.
Ceiling ==
    IF Cont \in {"once_backup", "older_backup"} THEN w.ba
    ELSE IF Cont = "rescue_main" THEN w.limit
    ELSE IF Cont \in {"rescue_front", "rescue_back"} THEN main_table_ba
    ELSE IF Cont \in {"rebuild_main", "rebuild_backup"} THEN 0
    ELSE backup_table_ba
Alone == \/ Cont = "once_main" /\ backup_table_ba = 0
         \/ Cont = "rebuild_main" /\ caller # "map_loop"
CeilingInv ==
    /\ Cont \in WriteConts /\ ~Alone =>
           \A r \in Stale : r < Ceiling \/ r \in info_table_cache.bad
    /\ Cont = "rescue_adopt" => \A r \in Stale : r < main_table_ba \/ r \in bad

TableInv == WhereInv /\ CacheInv /\ StaleInv /\ CeilingInv

Regular == weak \cap {"skip", "unmap"} = {}
CopiesOK == Regular => FlashInv /\ PathInv /\ TableInv

\* The types that the driver's work on its tables relies on.
LEMMA PathTypes ==
    TypeInv => /\ content \in [Blocks -> Content] /\ info_table_cache \in Table
               /\ pc \in {"w_erase", "w_program"} => w.cont \in WriteConts
               /\ pc = "e_erase" => w.cont \in EraseConts
               /\ Cont = "rescue_adopt" => at # NoBlock
               /\ caller \in Callers /\ w \in Range
               /\ bad \subseteq Blocks /\ marked \subseteq Blocks
  BY DEF TypeInv, FlashTypes, StateTypes, TableTypes, ControlTypes, ControlInv

\* nmbm_write_mgmt_range and nmbm_erase_range pass over blocks that cannot be used.
LEMMA PassedOver ==
    ASSUME TypeInv, NEW b \in Usable, IsFirst(b, Usable)
    PROVE  /\ b \in Blocks /\ w.ba <= b /\ b < w.limit /\ b \notin Unusable
           /\ w.ba >= 0 => w.ba..(b - 1) \subseteq Unusable
<1>1. b \in Blocks /\ b \in Int /\ b < BlockCount /\ BlockCount \in Int
  BY BlockCountAssumption DEF Usable, Blocks
<1>2. ASSUME w.ba >= 0, NEW x \in w.ba..(b - 1), x \notin Unusable PROVE FALSE
  <2>1. x \in Blocks /\ x < b
    BY <1>1, <1>2, Integral DEF Blocks
  <2>2. x \in Usable
    BY <1>1, <1>2, <2>1, Integral DEF Usable, Unusable
  <2> QED
    BY <1>1, <2>1, <2>2 DEF IsFirst, Blocks
<1> QED
  BY <1>1, <1>2, Integral DEF Usable, Unusable

\* ... and end when nothing of the range can be used.
LEMMA NoneUsable ==
    ASSUME TypeInv, Usable = {}, w.ba >= 0, w.limit <= BlockCount
    PROVE  w.ba..(w.limit - 1) \subseteq Unusable
  BY Integral, BlockCountAssumption DEF Usable, Unusable, Blocks

\* Writing a table: the blocks that are passed are bad, the one in hand is not.
LEMMA PathWrite == TypeInv /\ SoundInv /\ PathInv /\ WriteStep => PathInv'
<1> SUFFICES ASSUME TypeInv, SoundInv, PathInv, WriteStep PROVE PathInv'
  OBVIOUS
<1> USE PathTypes, Integral, BlockTypes
    DEF SoundInv, AreaInv, RangeInv, TablesInv, Working, Cont, PathInv,
        OrderInv, SpanInv, TriedInv, LowInv, ReqInv, Unusable,
        WriteConts, EraseConts, Callers, Calm, NoBlock, Range, NoReq
<1>1. CASE WriteErase
  <2>1. PICK b \in Usable : /\ IsFirst(b, Usable) /\ SetBad(FoundMarked(b))
                            /\ w' = [w EXCEPT !.ba = b] /\ pc' = "w_program"
    BY <1>1 DEF WriteErase
  <2>2. /\ b \in Int /\ w.ba <= b /\ b < w.limit /\ b \notin Unusable
        /\ w.ba..(b - 1) \subseteq Unusable
    BY <1>1, <2>1, PassedOver DEF WriteErase
  <2>3. /\ bad \subseteq bad' /\ bad' \subseteq Unusable /\ marked' = marked
        /\ w.ba..(b - 1) \subseteq bad'
    BY <1>1, <2>1, <2>2 DEF WriteErase, SetBad, FoundMarked
  <2>4. /\ w' \in Range /\ w'.start = w.start /\ w'.ba = b /\ w'.limit = w.limit
        /\ w'.cont = w.cont /\ pc = "w_erase"
    BY <1>1, <2>1, <2>2 DEF WriteErase
  <2>5. OrderInv' /\ SpanInv' /\ TriedInv' /\ LowInv'
    BY <1>1, <2>1, <2>2, <2>3, <2>4 DEF WriteErase, maps, tabs, tops, cache
  <2>6. ReqInv'
    BY <1>1, <2>1, <2>3, <2>4 DEF WriteErase, maps, tabs, tops, cache
  <2> QED
    BY <2>5, <2>6
<1>2. CASE WriteProgram
  BY <1>2 DEF WriteProgram, state, maps, tabs, tops, cache, hist, env
<1>3. CASE WriteProgramFails
  BY <1>3 DEF WriteProgramFails, Ruin, MarkBad, Fault, maps, tabs, tops, cache, hist, SetBad
<1>4. CASE WriteNoRoom
  <2>1. /\ w.ba..(w.limit - 1) \subseteq bad'
        /\ bad \subseteq bad' /\ bad' \subseteq Unusable /\ marked' = marked
        /\ pc = "w_erase" /\ pc' = w.cont /\ at' = NoBlock /\ w' = w
    <3>1. w.ba >= 0 /\ w.limit <= BlockCount
      BY <1>4, BlockCountAssumption DEF WriteNoRoom, TypeInv, TableTypes, Blocks
    <3>2. w.ba..(w.limit - 1) \subseteq Unusable
      BY <1>4, <3>1, NoneUsable DEF WriteNoRoom
    <3> QED
      BY <1>4, <3>2 DEF WriteNoRoom, flash, SetBad, FoundMarked
  <2>2. OrderInv' /\ SpanInv' /\ TriedInv' /\ LowInv'
    BY <1>4, <2>1 DEF WriteNoRoom, flash, maps, tabs, tops, cache
  <2>3. ReqInv'
    BY <1>4, <2>1 DEF WriteNoRoom, flash, maps, tabs, tops, cache
  <2> QED
    BY <2>2, <2>3
<1> QED
  BY <1>1, <1>2, <1>3, <1>4 DEF WriteStep

\* Failed erases are no different; erasing what is left between two tables keeps
\* to its range.
LEMMA PathErase == TypeInv /\ SoundInv /\ PathInv /\ EraseStep => PathInv'
<1> SUFFICES ASSUME TypeInv, SoundInv, PathInv, EraseStep PROVE PathInv'
  OBVIOUS
<1> USE PathTypes, Integral, BlockTypes
    DEF SoundInv, AreaInv, RangeInv, TablesInv, Working, Cont, PathInv,
        OrderInv, SpanInv, TriedInv, LowInv, ReqInv, Unusable,
        WriteConts, EraseConts, Callers, Calm, NoBlock, Range, NoReq
<1>1. CASE EraseNext
  BY <1>1 DEF EraseNext, Usable, IsFirst, SetBad, FoundMarked, NextBlock, maps, tabs, tops,
      cache, hist, env
<1>2. CASE EraseFails
  <2>1. PICK b \in Usable : /\ IsFirst(b, Usable) /\ MarkBad(b, FoundMarked(b))
                            /\ w' = [w EXCEPT !.ba = b + 1]
    BY <1>2 DEF EraseFails
  <2>2. /\ b \in Int /\ w.ba <= b /\ b < w.limit
        /\ pc = "w_erase" => w.ba..(b - 1) \subseteq Unusable
    BY <1>2, <2>1, PassedOver
  <2>3. /\ bad \subseteq bad' /\ marked \subseteq marked' /\ b \in bad'
        /\ pc = "w_erase" => w.ba..(b - 1) \subseteq bad'
    BY <2>1, <2>2 DEF SetBad, MarkBad, FoundMarked
  <2>4. /\ w' \in Range /\ w'.start = w.start /\ w'.ba = b + 1 /\ w'.limit = w.limit
        /\ w'.cont = w.cont /\ pc \in {"w_erase", "e_erase"} /\ pc' = pc
    BY <1>2, <2>1, <2>2 DEF EraseFails
  <2>5. OrderInv' /\ SpanInv' /\ TriedInv' /\ LowInv'
    BY <1>2, <2>1, <2>2, <2>3, <2>4 DEF EraseFails, maps, tabs, tops, cache
  <2>6. ReqInv'
    BY <1>2, <2>1, <2>3, <2>4 DEF EraseFails, maps, tabs, tops, cache
  <2> QED
    BY <2>5, <2>6
<1>3. CASE EraseDone
  BY <1>3 DEF EraseDone, Usable, SetBad, FoundMarked, flash, maps, tabs, tops, cache, hist, env
<1> QED
  BY <1>1, <1>2, <1>3 DEF EraseStep

\* nmbm_update_info_table and nmbm_update_info_table_once.
LEMMA PathUpdate == TypeInv /\ SoundInv /\ PathInv /\ UpdateStep => PathInv'
<1> SUFFICES ASSUME TypeInv, SoundInv, PathInv, UpdateStep PROVE PathInv'
  OBVIOUS
<1> USE PathTypes, Integral, BlockTypes
    DEF SoundInv, AreaInv, RangeInv, TablesInv, Working, Cont, PathInv,
        OrderInv, SpanInv, TriedInv, LowInv, ReqInv, Unusable,
        WriteConts, EraseConts, Callers, Calm, NoBlock, Range, NoReq
<1>1. CASE UpdateDone
  BY <1>1 DEF UpdateDone, Goto, flash, state, maps, tabs, tops, cache, hist, env
<1>2. CASE UpdateOnce
  BY <1>2 DEF UpdateOnce, GenerateCache, WriteTable, flash, state, maps, tabs, tops, hist, env,
      WorkOn
<1>3. CASE BackupWritten
  BY <1>3 DEF BackupWritten, MarkTablesClean, WriteTable, MainLimit, flash, tops, cache, hist,
      env, WorkOn
<1>4. CASE BackupFailed
  BY <1>4 DEF BackupFailed, WriteTable, flash, state, maps, tops, cache, hist, env, WorkOn
<1>5. CASE MainWritten
  BY <1>5 DEF MainWritten, MarkTablesClean, Goto, OnceDone, flash, tops, cache, hist, env
<1> QED
  BY <1>1, <1>2, <1>3, <1>4, <1>5 DEF UpdateStep

\* nmbm_rebuild_info_table.
LEMMA PathRebuild == TypeInv /\ SoundInv /\ PathInv /\ RebuildStep => PathInv'
<1> SUFFICES ASSUME TypeInv, SoundInv, PathInv, RebuildStep PROVE PathInv'
  OBVIOUS
<1> USE PathTypes, Integral, BlockTypes
    DEF SoundInv, AreaInv, RangeInv, TablesInv, Working, Cont, PathInv,
        OrderInv, SpanInv, TriedInv, LowInv, ReqInv, Unusable,
        WriteConts, EraseConts, Callers, Calm, NoBlock, Range, NoReq
<1>1. CASE MainFailedAlone
  BY <1>1 DEF MainFailedAlone, tops, RebuildTables, flash, state, maps, cache, hist, env,
      WorkOn
<1>2. CASE RebuildMainFailed
  BY <1>2 DEF RebuildMainFailed, Goto, OnceFailed, flash, state, maps, tabs, tops, cache, env
<1>3. CASE RebuildMainWritten
  BY <1>3, ReservedRange DEF RebuildMainWritten, MarkTablesClean, WriteTable, Goto, OnceDone,
      flash, tops, cache, hist, env, WorkOn
<1>4. CASE RebuildBackupWritten
  BY <1>4 DEF RebuildBackupWritten, EraseRange, OnceDone, flash, state, maps, tops, cache,
      hist, env, WorkOn
<1>5. CASE RebuildBackupFailed
  BY <1>5 DEF RebuildBackupFailed, Goto, OnceDone, flash, state, maps, tabs, tops, cache, hist,
      env
<1> QED
  BY <1>1, <1>2, <1>3, <1>4, <1>5 DEF RebuildStep

\* nmbm_rescue_main_info_table, nmbm_rescue_single_info_table and the older copy.
LEMMA PathRescue == TypeInv /\ SoundInv /\ PathInv /\ RescueStep => PathInv'
<1> SUFFICES ASSUME TypeInv, SoundInv, PathInv, RescueStep PROVE PathInv'
  OBVIOUS
<1> USE PathTypes, Integral, BlockTypes
    DEF SoundInv, AreaInv, RangeInv, TablesInv, Working, Cont, PathInv,
        OrderInv, SpanInv, TriedInv, LowInv, ReqInv, Unusable,
        WriteConts, EraseConts, Callers, Calm, NoBlock, Range, NoReq
<1>1. CASE RescueMain
  BY <1>1, ReservedRange DEF RescueMain, WriteTable, tabs, BackupBecomesMain, Goto, flash,
      state, maps, tops, cache, hist, env, WorkOn
<1>2. CASE RescueTmpFailed
  BY <1>2 DEF RescueTmpFailed, WriteTable, tabs, BackupBecomesMain, Goto, flash, state, maps,
      tops, cache, hist, env, WorkOn
<1>3. CASE RescueTmpWritten
  BY <1>3 DEF RescueTmpWritten, WriteTable, flash, state, maps, tops, cache, hist, env, WorkOn
<1>4. CASE RescueMainDone
  BY <1>4 DEF RescueMainDone, MarkTablesClean, Goto, flash, tops, cache, hist, env
<1>5. CASE RescueFrontWritten
  BY <1>5 DEF RescueFrontWritten, MarkTablesClean, EraseRange, flash, tops, cache, hist, env,
      WorkOn
<1>6. CASE RescueFrontFailed
  BY <1>6, ReservedRange DEF RescueFrontFailed, WriteTable, tabs, tops, LoadDone, flash, state,
      maps, cache, hist, env, WorkOn, NoRange
<1>7. CASE RescueBackFailed
  BY <1>7 DEF RescueBackFailed, WriteTable, tabs, tops, LoadDone, flash, state, maps, cache,
      hist, env, WorkOn, NoRange
<1>8. CASE RescueBackWritten
  BY <1>8 DEF RescueBackWritten, EraseRange, flash, state, maps, tabs, tops, cache, hist, env,
      WorkOn
<1>9. CASE RescueBackAdopted
  BY <1>9 DEF RescueBackAdopted, MarkTablesClean, tops, LoadDone, flash, cache, hist, env,
      NoRange
<1>10. CASE LoadOk
  BY <1>10 DEF LoadOk, tabs, tops, LoadDone, flash, state, maps, cache, hist, env, NoRange
<1>11. CASE OlderWritten
  BY <1>11 DEF OlderWritten, MarkTablesClean, tops, LoadDone, flash, cache, hist, env, NoRange
<1>12. CASE OlderMainFailed
  BY <1>12 DEF OlderMainFailed, BackupBecomesMain, WriteTable, flash, state, maps, tops, cache,
      hist, env, WorkOn
<1>13. CASE OlderBackupFailed
  <2>1. /\ pc = "older_backup" /\ pc' = "ready" /\ caller' = "off" /\ req' = NoReq /\ protected'
        /\ mapping_blocks_ba' = backup_table_ba /\ backup_table_ba' = 0 /\ at' = NoBlock
        /\ UNCHANGED <<main_table_ba, tops, flash, state, maps>>
    BY <1>13 DEF OlderBackupFailed, LoadDone
  <2>2. OrderInv' /\ SpanInv'
    BY <2>1 DEF tops
  <2>3. TriedInv' /\ LowInv' /\ ReqInv'
    BY <2>1 DEF tops, flash, state, maps
  <2> QED
    BY <2>2, <2>3
<1> QED
  BY <1>1, <1>2, <1>3, <1>4, <1>5, <1>6, <1>7, <1>8, <1>9, <1>10, <1>11, <1>12, <1>13 DEF
      RescueStep

\* remap_block_nmbm and unmap_block_nmbm, once the map is changed.
LEMMA PathRemap == TypeInv /\ SoundInv /\ PathInv /\ RemapStep => PathInv'
<1> SUFFICES ASSUME TypeInv, SoundInv, PathInv, RemapStep PROVE PathInv'
  OBVIOUS
<1> USE PathTypes, Integral, BlockTypes
    DEF SoundInv, AreaInv, RangeInv, TablesInv, Working, Cont, PathInv,
        OrderInv, SpanInv, TriedInv, LowInv, ReqInv, Unusable,
        WriteConts, EraseConts, Callers, Calm, NoBlock, Range, NoReq
<1>1. CASE UnmapDone
  BY <1>1 DEF UnmapDone, Goto, flash, state, maps, tabs, tops, cache, hist, env
<1>2. CASE RemapErase
  <2>1. Tabled' \subseteq Tabled
    BY <1>2 DEF RemapErase, FailErase, Ruin, Holds, Tabled
  <2>2. /\ UNCHANGED <<marked, state, maps, tabs, tops, cache, protected>>
        /\ Goto("remap_copy") \/ UpdateTables("remap_ret")
    BY <1>2 DEF RemapErase
  <2>3. pc = "remap_erase" /\ Cont = "remap_erase"
    BY <1>2 DEF RemapErase
  <2> QED
    BY <2>1, <2>2, <2>3 DEF Goto, UpdateTables, state, maps, tabs, tops, cache
<1>3. CASE RemapCopy
  BY <1>3 DEF RemapCopy, Goto, UpdateTables, Fault, state, maps, tabs, tops, cache
<1>4. CASE RemapFull
  BY <1>4 DEF RemapFull, Goto, flash, state, maps, tabs, cache, hist, env
<1>5. CASE RemapDone
  BY <1>5 DEF RemapDone, NoRange, state, maps, tabs, tops, cache, hist, env
<1> QED
  BY <1>1, <1>2, <1>3, <1>4, <1>5 DEF RemapStep

\* The loop of nmbm_create_info_table over nmbm_map_block.
LEMMA PathMap == TypeInv /\ SoundInv /\ PathInv /\ MapStep /\ Sound' => PathInv'
<1> SUFFICES ASSUME TypeInv, SoundInv, PathInv, MapStep, Sound' PROVE PathInv'
  OBVIOUS
<1> USE PathTypes, Integral, BlockTypes
    DEF SoundInv, AreaInv, RangeInv, TablesInv, Working, Cont, PathInv,
        OrderInv, SpanInv, TriedInv, LowInv, ReqInv, Unusable,
        WriteConts, EraseConts, Callers, Calm, NoBlock, Range, NoReq
<1>1. CASE MapNext
  <2>1. PICK pb \in Unmapped : MapTo(data_block_count, pb) /\ weak' = weak \cup Skipped(pb)
    BY <1>1 DEF MapNext
  <2>2. /\ mapping_blocks_top_ba' = mapping_blocks_top_ba - 1 /\ signature_ba' = signature_ba
        /\ pc = "map_loop" /\ UNCHANGED <<flash, state, tabs, cache, protected, ctl>>
    BY <1>1, <2>1 DEF MapNext, MapTo, TopAfterMap
  <2> QED
    BY <2>2 DEF flash, state, tabs, ctl
<1>2. CASE MapLoopDone
  BY <1>2 DEF MapLoopDone, UpdateTables, flash, state, maps, tabs, tops, cache
<1>3. CASE MapLoopFull
  BY <1>3 DEF MapLoopFull, UpdateTables, flash, state, maps, tabs, tops, cache
<1>4. CASE CreateFull
  BY <1>4 DEF CreateFull, UpdateTables, flash, state, maps, tabs, cache
<1>5. CASE CreateDone
  BY <1>5 DEF CreateDone, NoRange, flash, state, maps, tabs, tops, cache
<1> QED
  BY <1>1, <1>2, <1>3, <1>4, <1>5 DEF MapStep

\* remap_block_nmbm
LEMMA PathRemapBlock ==
    ASSUME TypeInv, SoundInv, PathInv, TableInv, Ready, NEW lb \in Logical, Reachable(lb),
           NEW copy \in BOOLEAN, NEW mark \in BOOLEAN, RemapBlock(lb, copy, mark),
           UNCHANGED <<marked, tabs, cache, protected>>, Tabled' \subseteq Tabled
    PROVE  PathInv'
<1>1. /\ pc = "ready" /\ Cont = "ready" /\ Working /\ caller = "off"
  BY DEF Ready, Cont, Working, PathInv, ReqInv
<1> DEFINE old == block_mapping[lb]
<1>2. /\ old \in Blocks /\ old # signature_ba /\ old \notin Tabled
  <2>1. old \notin Tabled
    BY <1>1 DEF TableInv, StaleInv
  <2>2. old \in MaybeBlock /\ old >= 0
    BY DEF Reachable, TypeInv, StateTypes
  <2>3. old # signature_ba
    BY <1>1, <2>2, Integral DEF SoundInv, AreaInv
  <2> QED
    BY <2>1, <2>2, <2>3 DEF MaybeBlock, NoBlock
<1>3. /\ UNCHANGED <<w, at, signature_ba>> /\ req'.old = old /\ bad' = bad \cup {old}
      /\ \/ pc' = "remap_ret" /\ caller' = caller /\ Cont' = "remap_ret"
         \/ pc' = "update" /\ caller' = "remap_full" /\ Cont' = "update"
         \/ /\ pc' = "remap_erase" /\ caller' = caller /\ Cont' = "remap_erase"
            /\ req'.lb = lb /\ block_mapping'[lb] = req'.new /\ req'.new # old
  <2>1. UNCHANGED <<w, at>> /\ bad' = bad \cup {old}
    BY DEF RemapBlock, SetBad
  <2>2. CASE /\ pc' = "remap_ret" /\ UNCHANGED <<tops, caller>>
             /\ req' = [lb |-> lb, old |-> old, new |-> old, copy |-> copy, mark |-> mark,
                        repair |-> FALSE]
    BY <2>1, <2>2 DEF tops, Cont
  <2>3. CASE /\ pc' = "update" /\ caller' = "remap_full" /\ UNCHANGED tops
             /\ req' = [lb |-> lb, old |-> old, new |-> old, copy |-> copy, mark |-> mark,
                        repair |-> FALSE]
    BY <2>1, <2>3 DEF tops, Cont
  <2>4. ASSUME NEW pb, pb # old, MapTo(lb, pb), pc' = "remap_erase", caller' = caller,
               req' = [lb |-> lb, old |-> old, new |-> pb, copy |-> copy, mark |-> mark,
                       repair |-> FALSE]
        PROVE  /\ signature_ba' = signature_ba /\ req'.old = old /\ req'.lb = lb
               /\ Cont' = "remap_erase" /\ block_mapping'[lb] = req'.new /\ req'.new # old
    BY <2>4 DEF MapTo, Cont, TypeInv, StateTypes
  <2> QED
    BY <2>1, <2>2, <2>3, <2>4 DEF RemapBlock
<1>4. OrderInv' /\ SpanInv' /\ TriedInv' /\ LowInv'
  BY <1>1, <1>3, PathTypes, Integral DEF PathInv, OrderInv, SpanInv, TriedInv, LowInv, Unusable,
     Working, Calm, WriteConts, tabs
<1>5. ReqInv'
  BY <1>1, <1>2, <1>3 DEF ReqInv, Working, Calm
<1> QED
  BY <1>4, <1>5 DEF PathInv

\* Calls of the front end.
LEMMA PathUser == TypeInv /\ SoundInv /\ PathInv /\ TableInv /\ UserStep /\ Sound' => PathInv'
<1> SUFFICES ASSUME TypeInv, SoundInv, PathInv, TableInv, Sound', NEW lb \in Logical,
                    \/ UserWrite(lb) \/ UserFault(lb) \/ UserRemap(lb) \/ UserIsBad(lb)
                    \/ \E repair \in BOOLEAN : UserUnmap(lb, repair)
             PROVE  PathInv'
  BY DEF UserStep
<1>1. CASE UserWrite(lb)
  <2>1. /\ pc = "ready" /\ UNCHANGED <<marked, state, maps, tabs, tops, cache, protected, ctl>>
    BY <1>1 DEF UserWrite, Ready
  <2> QED
    BY <2>1 DEF state, maps, tabs, tops, ctl, PathInv, OrderInv, SpanInv, TriedInv, LowInv,
       ReqInv, Unusable, Working, Cont, Calm, WriteConts
<1>2. CASE UserFault(lb)
  <2>1. PICK copy \in BOOLEAN : RemapBlock(lb, copy, FALSE)
    BY <1>2 DEF UserFault
  <2>2. Tabled' \subseteq Tabled
    BY <1>2, PathTypes DEF UserFault, Ruin, Holds, Tabled
  <2> QED
    BY <1>2, <2>1, <2>2, PathRemapBlock DEF UserFault
<1>3. CASE UserRemap(lb)
  BY <1>3, PathRemapBlock DEF UserRemap, flash, Tabled
<1>4. CASE UserIsBad(lb)
  BY <1>4, PathRemapBlock DEF UserIsBad, flash, Tabled
<1>5. ASSUME NEW repair \in BOOLEAN, UserUnmap(lb, repair) PROVE PathInv'
  <2>1. /\ pc = "ready" /\ Cont = "ready" /\ Working /\ lb < data_block_count
        /\ pc' = "update" /\ Cont' = "update" /\ Working' /\ caller' = "unmap_ret"
        /\ UNCHANGED <<flash, data_block_count, tabs, signature_ba, cache, protected, w, at>>
    BY <1>5 DEF UserUnmap, Ready, Reachable, Cont, Working
  <2>2. PICK new \in Blocks :
           /\ bad' = bad \ {new} /\ block_mapping' = [block_mapping EXCEPT ![lb] = new]
           /\ req' = [lb |-> lb, old |-> block_mapping[lb], new |-> new, copy |-> TRUE,
                      mark |-> FALSE, repair |-> repair]
           /\ Misplaced(lb, new) => "unmap" \in weak'
    BY <1>5 DEF UserUnmap
  <2>3. new \in Int /\ new < MgmtStart
    BY <2>2, BlockTypes, Integral DEF Misplaced, Sound
  <2>4. block_mapping[lb] # signature_ba /\ block_mapping'[lb] = new
    BY <1>5, <2>1, <2>2, Integral DEF UserUnmap, Reachable, SoundInv, AreaInv, TypeInv, StateTypes
  <2>5. OrderInv' /\ SpanInv' /\ TriedInv'
    BY <2>1 DEF PathInv, OrderInv, SpanInv, TriedInv, Unusable, Calm, WriteConts, tabs
  <2>6. LowInv'
    BY <2>1, <2>2, <2>3, Integral DEF PathInv, LowInv, Unusable, tabs, flash
  <2>7. ReqInv'
    BY <2>1, <2>2, <2>4 DEF ReqInv, Calm
  <2> QED
    BY <2>5, <2>6, <2>7 DEF PathInv
<1> QED
  BY <1>1, <1>2, <1>3, <1>4, <1>5

\* A power cut leaves nothing to keep in order.
LEMMA PathCut == PowerCut => PathInv'
<1> SUFFICES ASSUME PowerCut PROVE PathInv'
  OBVIOUS
<1>1. pc' = "off" /\ Cont' = "off" /\ req' = NoReq /\ caller' = "off" /\ ~protected'
  BY DEF PowerCut, Cont
<1> QED
  BY <1>1 DEF PathInv, OrderInv, SpanInv, TriedInv, LowInv, ReqInv, Working, Calm, WriteConts

\* nmbm_create_info_table
LEMMA PathBegin ==
    ASSUME TypeInv, NEW sig \in Blocks, NEW b, NEW changed, NEW map,
           BeginTables(sig, b, map, changed), req = NoReq, caller = "off",
           ~protected'
    PROVE  PathInv'
<1>1. CASE /\ RebuildTables("map_loop") /\ signature_ba' = sig
           /\ mapping_blocks_top_ba' \in Blocks
           /\ MgmtStart < mapping_blocks_top_ba' /\ mapping_blocks_top_ba' < sig
  <2>1. /\ pc' = "w_erase" /\ w'.cont = "rebuild_main" /\ Cont' = "rebuild_main" /\ Working'
        /\ w'.start = MgmtStart /\ w'.ba = MgmtStart /\ w'.limit = mapping_blocks_top_ba'
        /\ at' = at /\ req' = req /\ caller' = "map_loop"
        /\ main_table_ba' = 0 /\ backup_table_ba' = 0
        /\ mapping_blocks_ba' = mapping_blocks_top_ba'
    BY <1>1 DEF RebuildTables, WorkOn, Cont, Working
  <2>2. OrderInv' /\ SpanInv' /\ TriedInv' /\ LowInv'
    BY <1>1, <2>1, Integral, BlockTypes DEF OrderInv, SpanInv, TriedInv, LowInv, Calm, WriteConts
  <2>3. ReqInv'
    BY <1>1, <2>1, Integral, BlockTypes DEF ReqInv, NoReq
  <2> QED
    BY <2>2, <2>3 DEF PathInv
<1>2. CASE Goto("dead")
  <2>1. pc' = "dead" /\ Cont' = "dead" /\ req' = req /\ caller' = caller
    BY <1>2 DEF Goto, Cont
  <2> QED
    BY <2>1 DEF PathInv, OrderInv, SpanInv, TriedInv, LowInv, ReqInv, Working, Calm, WriteConts
<1> QED
  BY <1>1, <1>2 DEF BeginTables, IsLast

----------------------------------------------------------------------------
(* What a restart finds.                                                     *)

\* A table has its types.
LEMMA TabTypes ==
    TypeInv => /\ \A b \in Blocks : /\ Tab(b).wc \in Nat /\ Tab(b).wc \in Int
                                    /\ Tab(b).bad \subseteq Blocks
                                    /\ \A lb \in Logical : Tab(b).map[lb] \in Int
               /\ Tabled \subseteq Blocks /\ Signed \subseteq Blocks
               /\ Copies \subseteq Tabled /\ Stale \subseteq Tabled /\ Tabled = Copies \cup Stale
               /\ Copies \cap marked = {} /\ Stale \subseteq marked
<1> SUFFICES ASSUME TypeInv, NEW b \in Blocks
             PROVE  /\ Tab(b).wc \in Nat /\ Tab(b).bad \subseteq Blocks
                    /\ \A lb \in Logical : Tab(b).map[lb] \in Int
  BY DEF Tabled, Signed, Copies, Stale
<1>1. Tab(b) \in Table
  BY DEF Tab, TypeInv, FlashTypes, Content
<1> QED
  BY <1>1, MaybeInt DEF Table

\* nmbm_find_signature finds the one signature.
LEMMA SignatureIsSigned == TypeInv /\ FlashInv => Signature = Signed
<1> SUFFICES ASSUME TypeInv, FlashInv PROVE Signature = Signed
  OBVIOUS
<1>1. {b \in Blocks \ marked : content[b].k = "sig"} = Signed
  BY DEF Signed, FlashInv, PlaceInv
<1>2. \A s, z \in Signed : s = z /\ s \in Int
  BY BlockTypes DEF Signed, FlashInv, PlaceInv
<1> QED
  BY <1>1, <1>2 DEF Signature, Last, IsLast

\* nmbm_search_info_table takes every table there is, but those it is told to skip.
LEMMA LoadableCopies ==
    ASSUME TypeInv, FlashInv, NEW sig \in Signed, NEW from \in Int, MgmtStart <= from,
           NEW skip, skip \cap Copies = {}
    PROVE  Loadable(from, sig, skip) = {x \in Copies : from <= x}
<1>1. sig \in Int
  BY TabTypes, BlockTypes
<1>2. ASSUME NEW x \in Copies, from <= x PROVE x \in Loadable(from, sig, skip)
  <2>1. x \in Blocks \ (marked \cup skip) /\ x \in Int /\ content[x].k = "table"
    BY <1>2, BlockTypes DEF Copies, Tabled
  <2>2. x + 2 <= sig /\ x \in from..(sig - 2)
    BY <1>1, <1>2, <2>1, TabTypes DEF FlashInv, PlaceInv
  <2>3. \A lb \in Logical : Tab(x).map[lb] \notin MgmtStart..(x + 1) /\ Tab(x).map[lb] # sig
    BY <1>2 DEF FlashInv, CopyInv
  <2>4. MgmtStart..x \subseteq MgmtStart..(x + 1)
    BY <2>1, Integral
  <2>5. x \notin Tab(x).bad
    BY <1>2 DEF FlashInv, CopyInv
  <2>6. Plausible(x, content[x].t, sig)
    BY <2>3, <2>4, <2>5 DEF Plausible, Tab
  <2> QED
    BY <2>1, <2>2, <2>6 DEF Loadable
<1>3. ASSUME NEW x \in Loadable(from, sig, skip) PROVE x \in Copies /\ from <= x
  BY <1>1, <1>3, BlockTypes DEF Loadable, Copies, Tabled
<1> QED
  BY <1>2, <1>3

\* The first table is the lowest one, the second the other one, if there are two;
\* the one that is loaded is the newest.
LEMMA FoundTables ==
    ASSUME TypeInv, FlashInv, NEW sig \in Signature, NEW m \in FirstTable(sig),
           NEW s \in SecondTable(sig, m)
    PROVE  /\ sig \in Signed /\ m \in Copies
           /\ \/ s = NoBlock /\ Copies = {m}
              \/ s # NoBlock /\ s \in Copies /\ m < s /\ Copies = {m, s}
           /\ Newest(m, s) \in Copies /\ IsNewest(Newest(m, s))
<1>1. sig \in Signed
  BY SignatureIsSigned
<1>2. /\ \A x \in Copies : x \in Int /\ MgmtStart <= x /\ x # NoBlock
      /\ \A x, y, z \in Copies : ~(x < y /\ y < z)
      /\ \A x, y \in Copies : y \notin Tab(x).bad
  <2>1. \A x \in Copies : x \in Int /\ MgmtStart <= x
    BY TabTypes, BlockTypes DEF FlashInv, PlaceInv
  <2>2. \A x \in Copies : x # NoBlock
    BY <2>1, Integral DEF NoBlock
  <2> QED
    BY <2>1, <2>2 DEF FlashInv, PlaceInv, CopyInv
<1>3. m \in Copies /\ \A x \in Copies : m <= x
  <2>1. Loadable(MgmtStart, sig, {}) = {x \in Copies : MgmtStart <= x}
    BY <1>1, LoadableCopies, Integral
  <2> QED
    BY <1>2, <2>1 DEF FirstTable, First, IsFirst
<1>4. Loadable(m + 1, sig, content[m].t.bad) = {x \in Copies : m + 1 <= x}
  <2>1. content[m].t.bad \cap Copies = {}
    BY <1>2, <1>3 DEF Tab
  <2>2. m + 1 \in Int /\ MgmtStart <= m + 1
    BY <1>2, <1>3, Integral
  <2> QED
    BY <1>1, <2>1, <2>2, LoadableCopies
<1>5. CASE \A x \in Copies : ~(m + 1 <= x)
  <2>1. s = NoBlock /\ Copies = {m}
    BY <1>2, <1>3, <1>4, <1>5 DEF SecondTable
  <2>2. Newest(m, s) = m /\ IsNewest(m)
    BY <1>3, <2>1, TabTypes DEF Newest, IsNewest, AsNew
  <2> QED
    BY <1>1, <1>3, <2>1, <2>2
<1>6. CASE \E x \in Copies : m + 1 <= x
  <2>1. s \in Copies /\ m < s
    BY <1>2, <1>3, <1>4, <1>6 DEF SecondTable, First, IsFirst
  <2>2. Copies = {m, s}
    BY <1>2, <1>3, <2>1
  <2>3. Newest(m, s) \in Copies /\ IsNewest(Newest(m, s))
    BY <1>2, <1>3, <2>1, <2>2, TabTypes DEF Newest, IsNewest, AsNew, Tab
  <2> QED
    BY <1>1, <1>2, <1>3, <2>1, <2>2, <2>3
<1> QED
  BY <1>5, <1>6

\* When there is a table at all, one is loaded.
LEMMA TableIsFound ==
    ASSUME TypeInv, FlashInv, Signature # {}, Restart = {}
    PROVE  Copies = {}
<1> SUFFICES ASSUME Copies # {} PROVE FALSE
  OBVIOUS
<1>1. PICK sig \in Signature : TRUE
  OBVIOUS
<1>2. sig \in Signed
  BY SignatureIsSigned
<1>3. /\ \A x \in Copies : x \in Int /\ MgmtStart <= x
      /\ \A x, y, z \in Copies : ~(x < y /\ y < z)
      /\ \A x, y \in Copies : y \notin Tab(x).bad
  BY TabTypes, BlockTypes, Integral DEF FlashInv, PlaceInv, CopyInv
<1>4. PICK m \in Copies : \A x \in Copies : m <= x
  BY <1>3
<1>5. m \in FirstTable(sig)
  <2>1. Loadable(MgmtStart, sig, {}) = {x \in Copies : MgmtStart <= x}
    BY <1>2, LoadableCopies, Integral
  <2> QED
    BY <1>3, <1>4, <2>1 DEF FirstTable, First, IsFirst
<1>6. \E s : s \in SecondTable(sig, m)
  <2>1. content[m].t.bad \cap Copies = {}
    BY <1>3, <1>4 DEF Tab
  <2>2. Loadable(m + 1, sig, content[m].t.bad) = {x \in Copies : m + 1 <= x}
    BY <1>2, <1>3, <1>4, <2>1, LoadableCopies, Integral
  <2>3. CASE \A x \in Copies : ~(m + 1 <= x)
    BY <2>2, <2>3 DEF SecondTable
  <2>4. ASSUME NEW x \in Copies, m + 1 <= x PROVE x \in SecondTable(sig, m)
    <3>1. \A y \in Copies : m + 1 <= y => x <= y
      BY <1>3, <1>4, <2>4
    <3> QED
      BY <2>2, <2>4, <3>1 DEF SecondTable, First, IsFirst
  <2> QED
    BY <2>3, <2>4
<1> QED
  <2> DEFINE Found(z, y) == {content[Newest(y, x)].t : x \in SecondTable(z, y)}
             firsts == UNION {FirstTable(z) : z \in Signature}
  <2>1. Found(sig, m) # {}
    BY <1>6
  <2>2. m \in firsts
    BY <1>1, <1>5
  <2>3. Restart = UNION {Found(z, y) : y \in firsts, z \in Signature}
    BY DEF Restart
  <2> HIDE DEF Found, firsts
  <2>4. Found(sig, m) \in {Found(z, y) : y \in firsts, z \in Signature}
    BY <1>1, <2>2
  <2> QED
    BY <2>1, <2>3, <2>4

----------------------------------------------------------------------------
(* Steps that leave the flash alone.                                         *)

\* What the flash holds stays.
LEMMA SameFlash ==
    ASSUME UNCHANGED flash
    PROVE  /\ Copies' = Copies /\ Stale' = Stale /\ Tabled' = Tabled /\ Signed' = Signed
           /\ marked' = marked /\ \A x : Tab(x)' = Tab(x)
  BY DEF flash, Copies, Stale, Tabled, Signed, Tab

\* nmbm_update_info_table goes from one table to the other: the driver knows where
\* they are, and what they say.
LEMMA TableUpdate ==
    TypeInv /\ SoundInv /\ FlashInv /\ PathInv /\ TableInv /\ UpdateStep => TableInv'
<1> SUFFICES ASSUME TypeInv, SoundInv, FlashInv, PathInv, TableInv, UpdateStep PROVE TableInv'
  OBVIOUS
<1> USE PathTypes, Integral, BlockTypes, SameFlash, TabTypes
    DEF SoundInv, AreaInv, RangeInv, TablesInv, Working, Cont, PathInv, TableInv,
        OrderInv, SpanInv, TriedInv, LowInv, ReqInv, Unusable, WhereInv, CacheInv, StaleInv,
          CeilingInv,
        Kept, Old, Extra, Ceiling, Alone, Shields, Shielded, KeepsMain, KeepsBackup, KeepsCache,
          KeepsMap,
        WriteConts, EraseConts, Callers, Calm, NoBlock, Range, NoReq
<1>1. CASE UpdateDone
  BY <1>1 DEF UpdateDone, Goto, flash, state, maps, tabs, tops, cache, hist, env
<1>2. CASE UpdateOnce
  <2>1. /\ info_table_cache' = [wc |-> write_count + 1, bad |-> bad, map |-> block_mapping]
        /\ write_count' = write_count + 1 /\ write_count \in Int /\ pc = "update" /\ ~protected
        /\ UNCHANGED <<flash, state, maps, tabs, tops, protected, caller, at>>
        /\ \/ /\ backup_table_ba # 0 /\ Cont' = "once_backup" /\ w'.ba = backup_table_ba
           \/ /\ backup_table_ba = 0 /\ Cont' = "once_main" /\ w'.ba = main_table_ba
        /\ pc' = "w_erase"
    BY <1>2 DEF UpdateOnce, GenerateCache, WriteTable, WorkOn, TypeInv, TableTypes
  <2>2. WhereInv'
    BY <2>1 DEF tabs, tops
  <2>3. CacheInv'
    BY <2>1 DEF state, maps, tops, tabs
  <2>4. StaleInv'
    BY <2>1 DEF state, maps, tops, tabs
  <2>5. CeilingInv'
    <3>1. ASSUME backup_table_ba # 0, NEW r \in Stale PROVE r < backup_table_ba \/ r \in bad
      <4>1. r < main_table_ba \/ r < backup_table_ba \/ r \in bad
        BY <2>1, <3>1
      <4>2. main_table_ba < backup_table_ba /\ r \in Int
        BY <2>1, <3>1
      <4> QED
        BY <4>1, <4>2
    <3>2. CASE backup_table_ba # 0
      BY <2>1, <3>1, <3>2 DEF tabs
    <3>3. CASE backup_table_ba = 0
      BY <2>1, <3>3 DEF tabs
    <3> QED
      BY <3>2, <3>3
  <2> QED
    BY <2>2, <2>3, <2>4, <2>5
<1>3. CASE BackupWritten
  BY <1>3 DEF BackupWritten, MarkTablesClean, WriteTable, MainLimit, flash, tops, cache, hist,
      env, WorkOn
<1>4. CASE BackupFailed
  BY <1>4 DEF BackupFailed, WriteTable, flash, state, maps, tops, cache, hist, env, WorkOn
<1>5. CASE MainWritten
  <2>1. /\ pc = "once_main" /\ pc' = "update" /\ Cont' = "update" /\ at # NoBlock
             /\ main_table_ba' = at
        /\ mapping_blocks_ba' = IF backup_table_ba = 0 THEN at + 1 ELSE mapping_blocks_ba
        /\ UNCHANGED <<flash, bad, block_mapping, backup_table_ba, tops, cache, protected,
             caller, at, w>>
    BY <1>5 DEF MainWritten, MarkTablesClean, Goto, OnceDone
  <2>2. WhereInv'
    BY <2>1 DEF tops, cache
  <2>3. CacheInv'
    BY <2>1 DEF tops, cache
  <2>4. StaleInv'
    BY <2>1 DEF tops, cache
  <2>5. CeilingInv'
    BY <2>1 DEF tops, cache
  <2> QED
    BY <2>2, <2>3, <2>4, <2>5
<1> QED
  BY <1>1, <1>2, <1>3, <1>4, <1>5 DEF UpdateStep

\* ... and so does nmbm_rebuild_info_table, which has none in the beginning.
LEMMA TableRebuild ==
    TypeInv /\ SoundInv /\ FlashInv /\ PathInv /\ TableInv /\ RebuildStep => TableInv'
<1> SUFFICES ASSUME TypeInv, SoundInv, FlashInv, PathInv, TableInv, RebuildStep PROVE TableInv'
  OBVIOUS
<1> USE PathTypes, Integral, BlockTypes, SameFlash, TabTypes
    DEF SoundInv, AreaInv, RangeInv, TablesInv, Working, Cont, PathInv, TableInv,
        OrderInv, SpanInv, TriedInv, LowInv, ReqInv, Unusable, WhereInv, CacheInv, StaleInv,
          CeilingInv,
        Kept, Old, Extra, Ceiling, Alone, Shields, Shielded, KeepsMain, KeepsBackup, KeepsCache,
          KeepsMap,
        WriteConts, EraseConts, Callers, Calm, NoBlock, Range, NoReq
<1>1. CASE MainFailedAlone
  <2>1. /\ pc = "once_main" /\ Cont' = "rebuild_main" /\ pc' = "w_erase" /\ at = NoBlock
        /\ main_table_ba' = 0 /\ backup_table_ba = 0 /\ backup_table_ba' = 0
        /\ mapping_blocks_ba' = mapping_blocks_top_ba /\ w'.ba = MgmtStart
        /\ UNCHANGED <<flash, state, maps, tops, cache, protected, caller, at>>
    BY <1>1 DEF MainFailedAlone, RebuildTables, WorkOn, tops
  <2>2. WhereInv'
    BY <2>1 DEF tops, cache, state, maps
  <2>3. CacheInv'
    BY <2>1 DEF tops, cache, state, maps
  <2>4. StaleInv'
    <3>0. PICK z \in Blocks : z = main_table_ba
      BY DEF TypeInv, TableTypes
    <3>1. /\ main_table_ba \in bad /\ main_table_ba < mapping_blocks_top_ba
          /\ \A lb \in Logical : block_mapping[lb] \notin MgmtStart..main_table_ba
      BY <2>1
    <3>2. ASSUME NEW r \in Stale PROVE r \in bad \/ Shielded(r)'
      <4>1. r \in Int /\ MgmtStart <= r
        BY DEF FlashInv, PlaceInv
      <4>2. CASE r < main_table_ba
        <5>1. Shields(z, r)'
          BY <2>1, <3>0, <3>1, <4>1, <4>2 DEF tops, maps
        <5> QED
          BY <2>1, <3>0, <3>1, <5>1 DEF state
      <4>3. CASE r \in bad
        BY <4>3
      <4>4. ASSUME NEW x \in bad, Shields(x, r) PROVE Shields(x, r)'
        BY <2>1, <4>4 DEF tops, maps
      <4> QED
        BY <2>1, <4>1, <4>2, <4>3, <4>4 DEF state
    <3>3. \A lb \in Logical : block_mapping'[lb] \notin Tabled'
      BY <2>1 DEF maps
    <3> QED
      BY <2>1, <3>2, <3>3 DEF state
  <2>5. CeilingInv'
    BY <2>1 DEF tops, cache, state, maps
  <2> QED
    BY <2>2, <2>3, <2>4, <2>5
<1>2. CASE RebuildMainFailed
  BY <1>2 DEF RebuildMainFailed, Goto, OnceFailed, flash, state, maps, tabs, tops, cache, env
<1>3. CASE RebuildMainWritten
  BY <1>3, ReservedRange DEF RebuildMainWritten, MarkTablesClean, WriteTable, Goto, OnceDone,
      flash, tops, cache, hist, env, WorkOn
<1>4. CASE RebuildBackupWritten
  <2>1. /\ pc = "rebuild_backup" /\ Cont' = "map_loop" /\ pc' = "e_erase" /\ at # NoBlock
        /\ backup_table_ba' = at /\ mapping_blocks_ba' = at + 1
        /\ UNCHANGED <<flash, state, maps, main_table_ba, tops, cache, protected, caller, at>>
    BY <1>4 DEF RebuildBackupWritten, EraseRange, OnceDone, WorkOn
  <2>2. WhereInv'
    BY <2>1 DEF tops, cache, state, maps
  <2>3. CacheInv'
    BY <2>1 DEF tops, cache, state, maps
  <2>4. StaleInv'
    <3>1. ASSUME NEW r \in Stale PROVE r \in bad
      <4>1. r \in Int /\ MgmtStart <= r
        BY DEF FlashInv, PlaceInv
      <4>2. r < Ceiling \/ r \in info_table_cache.bad
        BY <2>1, <3>1
      <4>3. Ceiling = 0 /\ info_table_cache.bad \subseteq bad
        BY <2>1
      <4> QED
        BY <4>1, <4>2, <4>3
    <3>2. \A x \in Copies, lb \in Logical : Tab(x).map[lb] \notin Tabled
      BY <2>1
    <3>3. \A lb \in Logical : block_mapping[lb] \notin Tabled
      BY <2>1
    <3> QED
      BY <2>1, <3>1, <3>2, <3>3 DEF tops, cache, state, maps
  <2>5. CeilingInv'
    BY <2>1 DEF tops, cache, state, maps
  <2> QED
    BY <2>2, <2>3, <2>4, <2>5
<1>5. CASE RebuildBackupFailed
  BY <1>5 DEF RebuildBackupFailed, Goto, OnceDone, flash, state, maps, tabs, tops, cache, hist,
      env
<1> QED
  BY <1>1, <1>2, <1>3, <1>4, <1>5 DEF RebuildStep

\* ... and the rescue functions, which end up with two tables or give up one.
LEMMA TableRescue ==
    TypeInv /\ SoundInv /\ FlashInv /\ PathInv /\ TableInv /\ RescueStep => TableInv'
<1> SUFFICES ASSUME TypeInv, SoundInv, FlashInv, PathInv, TableInv, RescueStep PROVE TableInv'
  OBVIOUS
<1> USE PathTypes, Integral, BlockTypes, SameFlash, TabTypes
    DEF SoundInv, AreaInv, RangeInv, TablesInv, Working, Cont, PathInv, TableInv,
        OrderInv, SpanInv, TriedInv, LowInv, ReqInv, Unusable, WhereInv, CacheInv, StaleInv,
          CeilingInv,
        Kept, Old, Extra, Ceiling, Alone, Shields, Shielded, KeepsMain, KeepsBackup, KeepsCache,
          KeepsMap,
        WriteConts, EraseConts, Callers, Calm, NoBlock, Range, NoReq
<1>1. CASE RescueMain
  BY <1>1, ReservedRange DEF RescueMain, WriteTable, tabs, BackupBecomesMain, Goto, flash,
      state, maps, tops, cache, hist, env, WorkOn
<1>2. CASE RescueTmpFailed
  BY <1>2 DEF RescueTmpFailed, WriteTable, tabs, BackupBecomesMain, Goto, flash, state, maps,
      tops, cache, hist, env, WorkOn
<1>3. CASE RescueTmpWritten
  <2>1. /\ pc = "rescue_tmp" /\ Cont' = "rescue_main" /\ pc' = "w_erase" /\ at # NoBlock
        /\ mapping_blocks_ba' = at + 1 /\ w'.ba = MgmtStart /\ w'.limit = at
        /\ UNCHANGED <<flash, state, maps, main_table_ba, backup_table_ba, tops, cache, protected,
                       caller, at>>
    BY <1>3 DEF RescueTmpWritten, WriteTable, WorkOn
  <2>2. WhereInv'
    BY <2>1 DEF tops, cache, state, maps
  <2>3. CacheInv'
    BY <2>1 DEF tops, cache, state, maps
  <2>4. StaleInv'
    BY <2>1 DEF tops, cache, state, maps
  <2>5. CeilingInv'
    <3>1. ASSUME NEW r \in Stale PROVE r < at \/ r \in info_table_cache.bad
      <4>1. r < backup_table_ba \/ r \in info_table_cache.bad
        BY <2>1
      <4>2. backup_table_ba < mapping_blocks_ba /\ mapping_blocks_ba <= w.start /\ w.start <= at
        BY <2>1
      <4>3. r \in Int /\ backup_table_ba \in Int /\ mapping_blocks_ba \in Int
              /\ w.start \in Int /\ at \in Int
        BY <2>1
      <4> QED
        BY <4>1, <4>2, <4>3
    <3> QED
      BY <2>1, <3>1 DEF cache
  <2> QED
    BY <2>2, <2>3, <2>4, <2>5
<1>4. CASE RescueMainDone
  BY <1>4 DEF RescueMainDone, MarkTablesClean, Goto, flash, tops, cache, hist, env
<1>5. CASE RescueFrontWritten
  BY <1>5 DEF RescueFrontWritten, MarkTablesClean, EraseRange, flash, tops, cache, hist, env,
      WorkOn
<1>6. CASE RescueFrontFailed
  BY <1>6, ReservedRange DEF RescueFrontFailed, WriteTable, tabs, tops, LoadDone, flash, state,
      maps, cache, hist, env, WorkOn, NoRange
<1>7. CASE RescueBackFailed
  BY <1>7 DEF RescueBackFailed, WriteTable, tabs, tops, LoadDone, flash, state, maps, cache,
      hist, env, WorkOn, NoRange
<1>8. CASE RescueBackWritten
  BY <1>8 DEF RescueBackWritten, EraseRange, flash, state, maps, tabs, tops, cache, hist, env,
      WorkOn
<1>9. CASE RescueBackAdopted
  <2>1. /\ pc = "rescue_adopt" /\ Cont' = "ready" /\ pc' = "ready" /\ at # NoBlock
        /\ backup_table_ba' = at /\ mapping_blocks_ba' = at + 1
        /\ UNCHANGED <<flash, bad, block_mapping, main_table_ba, tops, cache>>
    BY <1>9 DEF RescueBackAdopted, MarkTablesClean, LoadDone, tops
  <2>2. WhereInv'
    BY <2>1 DEF tops, cache, state, maps
  <2>3. CacheInv'
    BY <2>1 DEF tops, cache, state, maps
  <2>4. StaleInv'
    BY <2>1 DEF tops, cache, state, maps
  <2>5. CeilingInv'
    BY <2>1 DEF tops, cache, state, maps
  <2> QED
    BY <2>2, <2>3, <2>4, <2>5
<1>10. CASE LoadOk
  BY <1>10 DEF LoadOk, tabs, tops, LoadDone, flash, state, maps, cache, hist, env, NoRange
<1>11. CASE OlderWritten
  BY <1>11 DEF OlderWritten, MarkTablesClean, tops, LoadDone, flash, cache, hist, env, NoRange
<1>12. CASE OlderMainFailed
  BY <1>12 DEF OlderMainFailed, BackupBecomesMain, WriteTable, flash, state, maps, tops, cache,
      hist, env, WorkOn
<1>13. CASE OlderBackupFailed
  <2>1. /\ pc = "older_backup" /\ Cont' = "ready" /\ pc' = "ready" /\ at = NoBlock /\ protected'
        /\ backup_table_ba' = 0 /\ mapping_blocks_ba' = backup_table_ba
        /\ UNCHANGED <<flash, state, maps, main_table_ba, tops, cache>>
    BY <1>13 DEF OlderBackupFailed, LoadDone, tops
  <2>2. WhereInv'
    BY <2>1 DEF tops, cache, state, maps
  <2>3. CacheInv'
    BY <2>1 DEF tops, cache, state, maps
  <2>4. StaleInv'
    <3>0. PICK z \in Blocks : z = backup_table_ba
      BY DEF TypeInv, TableTypes
    <3>1. /\ backup_table_ba \in bad /\ backup_table_ba <= mapping_blocks_top_ba
          /\ \A lb \in Logical : block_mapping[lb] \notin MgmtStart..backup_table_ba
          /\ main_table_ba < backup_table_ba /\ backup_table_ba < signature_ba
      BY <2>1
    <3>2. ASSUME NEW r \in Stale PROVE r < main_table_ba \/ r \in bad \/ Shielded(r)'
      <4>1. CASE r < backup_table_ba
        <5>1. Shields(z, r)'
          BY <2>1, <3>0, <3>1, <4>1 DEF tops, maps
        <5> QED
          BY <2>1, <3>0, <3>1, <5>1 DEF state
      <4> QED
        BY <2>1, <3>1, <4>1 DEF state
    <3>3. \A lb \in Logical : block_mapping'[lb] \notin Tabled'
      BY <2>1 DEF maps
    <3>4. \A x \in Copies, lb \in Logical : Tab(x).map[lb] \notin Tabled
      BY <2>1
    <3> QED
      BY <2>1, <3>2, <3>3, <3>4 DEF state
  <2>5. CeilingInv'
    BY <2>1 DEF tops, cache, state, maps
  <2> QED
    BY <2>2, <2>3, <2>4, <2>5
<1> QED
  BY <1>1, <1>2, <1>3, <1>4, <1>5, <1>6, <1>7, <1>8, <1>9, <1>10, <1>11, <1>12, <1>13 DEF
      RescueStep

----------------------------------------------------------------------------
(* Steps that change blocks without a table or the signature.                *)

\* Where the tables and the signature are stays: only other blocks change, and
\* only others are marked.
Aside ==
    /\ \A b \in Blocks : content'[b] # content[b] =>
          /\ b \notin Tabled \cup Signed
          /\ content'[b].k \notin {"table", "sig"}
    /\ marked \subseteq marked'
    /\ marked' \cap (Copies \cup Signed) = marked \cap (Copies \cup Signed)

\* ... so that the tables stay the same.
LEMMA AsideFlash ==
    ASSUME Aside
    PROVE  /\ Copies' = Copies /\ Stale' = Stale /\ Tabled' = Tabled /\ Signed' = Signed
           /\ marked \subseteq marked' /\ \A x \in Tabled : Tab(x)' = Tab(x)
<1>1. Tabled' = Tabled /\ Signed' = Signed
  BY DEF Aside, Tabled, Signed
<1>2. \A x \in Tabled : Tab(x)' = Tab(x)
  BY DEF Aside, Tab, Tabled
<1>3. Copies' = Copies /\ Stale' = Stale
  BY <1>1 DEF Aside, Copies, Stale
<1> QED
  BY <1>1, <1>2, <1>3 DEF Aside

\* ... so that the tables promise what they did.
LEMMA FlashAside ==
    ASSUME FlashInv, Copies' = Copies, Stale' = Stale, Tabled' = Tabled, Signed' = Signed,
           \A x \in Copies : Tab(x)' = Tab(x), marked \subseteq marked',
           marked' \cap Signed = {}
    PROVE  FlashInv'
<1>1. PlaceInv'
  BY DEF FlashInv, PlaceInv
<1>2. CopyInv'
  BY DEF FlashInv, CopyInv
<1>3. AgeInv'
  BY DEF FlashInv, AgeInv, AsNew
<1>4. NewInv'
  BY DEF FlashInv, NewInv, AsNew, IsNewest
<1> QED
  BY <1>1, <1>2, <1>3, <1>4 DEF FlashInv

\* A block that is erased behind the tables or between them holds none.
LEMMA EraseAside ==
    ASSUME TypeInv, SoundInv, FlashInv, PathInv, TableInv, pc = "e_erase",
           NEW b \in Usable
    PROVE  b \in Blocks /\ b \notin Tabled /\ b \notin Signed /\ b \in Int
<1> USE PathTypes, Integral, BlockTypes DEF EraseConts, Cont, Working
<1>1. /\ b \in Blocks /\ b \in Int /\ b \notin marked /\ w.ba <= b /\ b < w.limit /\ Cont = w.cont
      /\ w.cont \in EraseConts
  BY DEF Usable
<1>2. b \notin Copies
  <2>1. Copies \subseteq Kept
    BY <1>1 DEF TableInv, WhereInv, Extra, WriteConts
  <2>2. CASE w.cont = "rescue_adopt"
    <3>1. Kept = {main_table_ba, at} /\ w.limit = at /\ w.ba > main_table_ba
      BY <1>1, <2>2 DEF Kept, PathInv, SpanInv, OrderInv
    <3> QED
      BY <1>1, <2>1, <3>1
  <2>3. CASE w.cont # "rescue_adopt"
    <3>1. Kept \subseteq {main_table_ba, backup_table_ba}
      BY <1>1, <2>3 DEF Kept, KeepsMain, KeepsBackup
    <3>2. w.limit = backup_table_ba /\ w.ba > main_table_ba
      BY <1>1, <2>3 DEF PathInv, SpanInv
    <3> QED
      BY <1>1, <2>1, <3>1, <3>2
  <2> QED
    BY <2>2, <2>3
<1>3. b \notin Tabled
  BY <1>1, <1>2 DEF Copies
<1>4. b \notin Signed
  <2>1. w.limit < signature_ba
    <3>1. CASE w.cont = "rescue_adopt"
      BY <1>1, <3>1 DEF SoundInv, RangeInv, AreaInv, PathInv, SpanInv, NoBlock
    <3>2. CASE w.cont # "rescue_adopt"
      BY <1>1, <3>2 DEF SoundInv, TablesInv, AreaInv, PathInv, SpanInv
    <3> QED
      BY <3>1, <3>2
  <2>2. \A s \in Signed : s = signature_ba
    BY <1>1 DEF TableInv, WhereInv, FlashInv, PlaceInv
  <2> QED
    BY <1>1, <2>1, <2>2
<1> QED
  BY <1>1, <1>3, <1>4

\* nmbm_erase_range meets no table, and marks no block that holds one.
LEMMA EraseStepAside ==
    TypeInv /\ SoundInv /\ FlashInv /\ PathInv /\ TableInv /\ EraseStep /\ pc = "e_erase" => Aside
<1> SUFFICES ASSUME TypeInv, SoundInv, FlashInv, PathInv, TableInv, EraseStep, pc = "e_erase"
             PROVE  Aside
  OBVIOUS
<1>1. CASE EraseNext
  <2>1. PICK b \in Usable : content' = [content EXCEPT ![b] = Holds("erased")]
    BY <1>1 DEF EraseNext
  <2> QED
    BY <1>1, <2>1, EraseAside, PathTypes DEF Aside, EraseNext, Holds
<1>2. CASE EraseFails
  <2>1. PICK b \in Usable : FailErase(b) /\ MarkBad(b, FoundMarked(b))
    BY <1>2 DEF EraseFails
  <2> QED
    BY <2>1, EraseAside, PathTypes DEF Aside, FailErase, MarkBad, Ruin, Holds, Copies
<1>3. CASE EraseDone
  BY <1>3 DEF EraseDone, Aside, flash
<1> QED
  BY <1>1, <1>2, <1>3 DEF EraseStep

\* Nothing is lost or brought to light by nmbm_erase_range.
LEMMA TableErase ==
    TypeInv /\ SoundInv /\ FlashInv /\ PathInv /\ TableInv /\ EraseStep /\ pc = "e_erase"
    => FlashInv' /\ TableInv'
<1> SUFFICES ASSUME TypeInv, SoundInv, FlashInv, PathInv, TableInv, EraseStep, pc = "e_erase"
             PROVE  FlashInv' /\ TableInv'
  OBVIOUS
<1>1. /\ Copies' = Copies /\ Stale' = Stale /\ Tabled' = Tabled /\ Signed' = Signed
      /\ marked \subseteq marked' /\ \A x \in Tabled : Tab(x)' = Tab(x)
      /\ \A x \in Copies : Tab(x)' = Tab(x)
  BY EraseStepAside, AsideFlash, TabTypes
<1>2. FlashInv'
  <2>1. marked' \cap Signed = {}
    BY EraseStepAside DEF Aside, FlashInv, PlaceInv
  <2> QED
    BY <1>1, <2>1, FlashAside
<1>3. /\ bad \subseteq bad' /\ (Cont' # "ready") /\ Cont' = Cont /\ Working /\ Working'
      /\ bad' \subseteq Unusable' /\ Cont \in EraseConts
      /\ UNCHANGED <<maps, tabs, tops, cache, protected, caller, at>>
      /\ \A x \in Copies : x \notin bad'
  <2> USE PathTypes DEF EraseConts, Cont, Working, Unusable
  <2>1. CASE EraseNext
    BY <1>1, <2>1 DEF EraseNext, SetBad, FoundMarked, TableInv, CacheInv, Copies
  <2>2. CASE EraseFails
    <3>1. PICK b \in Usable : MarkBad(b, FoundMarked(b)) /\ w' = [w EXCEPT !.ba = b + 1]
      BY <2>2 DEF EraseFails
    <3>2. b \notin Copies
      BY <3>1, EraseAside, TabTypes
    <3> QED
      BY <1>1, <2>2, <3>1, <3>2 DEF EraseFails, MarkBad, SetBad, FoundMarked, TableInv, CacheInv,
         Copies, Range
  <2>3. CASE EraseDone
    BY <1>1, <2>3 DEF EraseDone, SetBad, FoundMarked, TableInv, CacheInv, Copies
  <2> QED
    BY <2>1, <2>2, <2>3 DEF EraseStep
<1> USE <1>1, <1>3, PathTypes, Integral, BlockTypes, TabTypes DEF Working, TableInv, Unusable,
        EraseConts, KeepsMain, KeepsBackup, KeepsCache, KeepsMap, WriteConts, Calm, maps, tabs,
        tops, cache
<1>8. /\ Extra = {} /\ Extra' = {} /\ pc \notin WriteConts /\ pc' \notin WriteConts
      /\ Kept' = Kept
  <2>1. pc = "e_erase" /\ pc' \in EraseConts \cup {"e_erase"}
    BY DEF EraseStep, EraseNext, EraseFails, EraseDone, Cont
  <2> QED
    BY <2>1 DEF Extra, Kept
<1>4. WhereInv'
  BY <1>8 DEF WhereInv
<1>5. CacheInv'
  <2>1. Kept \subseteq Copies
    BY DEF WhereInv
  <2>2. /\ Cont \notin WriteConts /\ Cont \notin KeepsCache
    BY DEF Cont
  <2>3. \A x \in Copies : \A b \in Tab(x).bad : b >= MgmtStart => b \in Unusable'
    BY DEF CacheInv
  <2> QED
    BY <1>8, <2>1, <2>2, <2>3 DEF CacheInv
<1>6. StaleInv'
  BY DEF StaleInv, Shields, Shielded
<1>7. CeilingInv'
  BY DEF CeilingInv
<1> QED
  BY <1>2, <1>4, <1>5, <1>6, <1>7

----------------------------------------------------------------------------
(* Steps that change the map.                                                *)

\* Between two calls of the driver no range is in hand.
LEMMA CalmTables ==
    ASSUME TypeInv, SoundInv, PathInv, TableInv, pc \in Calm
    PROVE  /\ Cont = pc /\ Working /\ Extra = {} /\ Cont \notin WriteConts
           /\ Kept = {main_table_ba, backup_table_ba} \ {0} /\ Copies = Kept
           /\ \A x \in Copies : x < mapping_blocks_ba
<1>1. Cont = pc /\ Working /\ Extra = {} /\ Cont \notin WriteConts
  BY DEF Cont, Working, Extra, Calm, WriteConts
<1>2. Kept = {main_table_ba, backup_table_ba} \ {0}
  BY <1>1 DEF Kept, Calm, KeepsMain, KeepsBackup
<1>3. Copies = Kept
  BY <1>1 DEF TableInv, WhereInv
<1> QED
  BY <1>1, <1>2, <1>3 DEF PathInv, OrderInv

\* The block that is handed out holds no table, and shields none.
LEMMA HandOut ==
    ASSUME TypeInv, SoundInv, FlashInv, PathInv, TableInv, pc \in Calm,
           mapping_blocks_ba < mapping_blocks_top_ba,
           mapping_blocks_top_ba \in Blocks, mapping_blocks_top_ba \notin bad
    PROVE  /\ mapping_blocks_top_ba \notin Tabled
           /\ \A z \in bad : z <= mapping_blocks_top_ba => z < mapping_blocks_top_ba
<1>1. ASSUME NEW z \in bad, z <= mapping_blocks_top_ba PROVE z < mapping_blocks_top_ba
  <2>1. z \in Int /\ mapping_blocks_top_ba \in Int /\ z # mapping_blocks_top_ba
    BY PathTypes, BlockTypes
  <2> QED
    BY <1>1, <2>1
<1> DEFINE top == mapping_blocks_top_ba
<1>2. top \notin Copies
  BY CalmTables, Integral, TabTypes, BlockTypes
<1>3. ASSUME top \in Stale PROVE FALSE
  <2>1. ~(top < main_table_ba \/ top < backup_table_ba)
    BY CalmTables, Integral DEF PathInv, OrderInv
  <2>2. Shielded(top)
    BY <1>3, <2>1, CalmTables DEF TableInv, StaleInv
  <2>3. PICK z \in bad : top < z /\ z <= top
    BY <2>2, Integral, PathTypes, BlockTypes DEF Shielded, Shields
  <2>4. z \in Int /\ top \in Int /\ z # top
    BY PathTypes, BlockTypes
  <2> QED
    BY <2>3, <2>4
<1> QED
  BY <1>1, <1>2, <1>3, TabTypes

\* What stays when the driver stays between two calls, and tables where they are.
LEMMA CalmStep ==
    ASSUME TypeInv, SoundInv, FlashInv, PathInv, TableInv, pc \in Calm, pc' \in Calm,
           Copies' = Copies, Stale' = Stale, Tabled' = Tabled, Signed' = Signed,
           marked \subseteq marked', \A x \in Tabled : Tab(x)' = Tab(x),
           UNCHANGED <<tabs, cache, protected, signature_ba>>,
           \A b \in bad : b >= MgmtStart => b \in bad',
           \A x \in Copies : x \notin bad',
           \A lb \in Logical : block_mapping'[lb] \notin Tabled,
           backup_table_ba = 0 => \A z \in bad, r \in Stale : Shields(z, r) => Shields(z, r)'
    PROVE  TableInv'
<1>1. Cont' = pc' /\ Working' /\ Cont' \notin WriteConts /\ pc' \notin WriteConts
  BY DEF Cont, Working, Calm, WriteConts
<1>2. Extra' = {} /\ Kept' = Kept
  BY <1>1, CalmTables DEF Extra, Kept, Calm, KeepsMain, KeepsBackup, tabs
<1>3. WhereInv'
  <2>1. Cont' \notin {"sig_erase", "sig_program"}
    BY <1>1 DEF Calm
  <2> QED
    BY <1>1, <1>2, <2>1, CalmTables DEF WhereInv, TableInv
<1>4. CacheInv'
  <2>1. \A x \in Copies : Tab(x)' = Tab(x)
    BY TabTypes
  <2>2. Cont' \notin KeepsCache \cup KeepsMap
    BY <1>1 DEF KeepsCache, KeepsMap, Calm
  <2>3. \A x \in Copies : \A b \in Tab(x).bad : b >= MgmtStart => b \in Unusable'
    BY CalmTables DEF TableInv, CacheInv, Unusable
  <2> QED
    BY <1>1, <2>1, <2>2, <2>3, CalmTables DEF CacheInv, TableInv, cache
<1>5. StaleInv'
  <2>1. ASSUME NEW r \in Stale, Shielded(r) PROVE Shielded(r)'
    <3>1. PICK z \in bad : backup_table_ba = 0 /\ Shields(z, r)
      BY <2>1 DEF Shielded
    <3>2. Shields(z, r)'
      BY <3>1
    <3>3. z \in bad'
      <4>1. z \in Int /\ r \in Int /\ MgmtStart \in Int /\ MgmtStart <= r /\ r < z
        BY <2>1, <3>1, Integral, PathTypes, BlockTypes, TabTypes DEF Shields, FlashInv, PlaceInv
      <4> QED
        BY <4>1
    <3> QED
      BY <2>1, <3>2, <3>3 DEF Shielded, tabs
  <2>2. \A r \in Stale : r < main_table_ba \/ r < backup_table_ba \/ r \in bad' \/ Shielded(r)'
    BY <2>1, CalmTables, TabTypes DEF TableInv, StaleInv, FlashInv, PlaceInv
  <2>3. \A x \in Copies, lb \in Logical : Tab(x).map[lb] \notin Tabled
    BY CalmTables DEF TableInv, StaleInv
  <2> QED
    BY <2>2, <2>3, TabTypes DEF StaleInv, tabs
<1>6. CeilingInv'
  BY <1>1 DEF CeilingInv, Calm
<1> QED
  BY <1>3, <1>4, <1>5, <1>6 DEF TableInv

\* nmbm_map_block never hands out a block that holds a table, old or new.
LEMMA TableMap ==
    TypeInv /\ SoundInv /\ FlashInv /\ PathInv /\ TableInv /\ MapStep /\ Sound' => TableInv'
<1> SUFFICES ASSUME TypeInv, SoundInv, FlashInv, PathInv, TableInv, MapStep, Sound'
             PROVE  TableInv'
  OBVIOUS
<1>1. pc \in Calm /\ pc' \in Calm /\ UNCHANGED <<flash, state, tabs, cache, protected,
        signature_ba>>
  <2>1. pc \in Calm /\ UNCHANGED <<flash, state, tabs, cache, protected, signature_ba>>
    BY DEF MapStep, MapNext, MapTo, MapLoopDone, MapLoopFull, CreateFull, CreateDone, Calm, tops
  <2>2. pc' \in Calm
    BY DEF MapStep, MapNext, MapLoopDone, MapLoopFull, CreateFull, CreateDone, UpdateTables,
       Calm, ctl
  <2> QED
    BY <2>1, <2>2
<1>2. \A x \in Copies : x \notin bad'
  BY <1>1, CalmTables DEF state, TableInv, CacheInv
<1>3. \A lb \in Logical : block_mapping[lb] \notin Tabled
  BY <1>1, CalmTables DEF TableInv, StaleInv
<1>4. CASE MapNext
  <2>1. /\ mapping_blocks_ba < mapping_blocks_top_ba /\ mapping_blocks_top_ba \in Blocks \ bad
        /\ block_mapping' = [block_mapping EXCEPT ![data_block_count] = mapping_blocks_top_ba]
        /\ mapping_blocks_top_ba' = mapping_blocks_top_ba - 1
    <3>1. PICK pb \in Unmapped : MapTo(data_block_count, pb) /\ weak' = weak \cup Skipped(pb)
      BY <1>4 DEF MapNext
    <3>2. pb = mapping_blocks_top_ba
      BY <3>1 DEF Skipped, Sound
    <3> QED
      BY <3>1, <3>2, Integral DEF MapTo, TopAfterMap, Unmapped
  <2>2. \A lb \in Logical : block_mapping'[lb] \in {block_mapping[lb], mapping_blocks_top_ba}
    BY <2>1 DEF TypeInv, StateTypes
  <2>3. \A lb \in Logical : block_mapping'[lb] \notin Tabled
    BY <1>1, <1>3, <2>1, <2>2, HandOut
  <2>4. ASSUME NEW z \in bad, NEW r \in Stale, Shields(z, r) PROVE Shields(z, r)'
    <3>0. z \in Int /\ mapping_blocks_ba \in Int /\ mapping_blocks_top_ba \in Int
      BY Integral, PathTypes, BlockTypes
    <3>1. z < mapping_blocks_top_ba /\ z \in Int
      <4>1. z <= mapping_blocks_top_ba
        BY <2>1, <2>4, <3>0 DEF Shields
      <4> QED
        BY <1>1, <2>1, <3>0, <4>1, HandOut
    <3>2. z <= mapping_blocks_top_ba'
      BY <2>1, <3>1, Integral
    <3>3. \A lb \in Logical : block_mapping'[lb] \notin MgmtStart..z
      BY <2>2, <2>4, <3>1, Integral DEF Shields
    <3> QED
      BY <1>1, <2>4, <3>2, <3>3 DEF Shields
  <2> QED
    BY <1>1, <1>2, <2>3, <2>4, CalmStep, SameFlash DEF state
<1>5. CASE MapLoopDone \/ MapLoopFull \/ CreateDone
  <2>1. UNCHANGED <<maps, tops>>
    BY <1>5 DEF MapLoopDone, MapLoopFull, CreateDone
  <2>2. ASSUME NEW z \in bad, NEW r \in Stale, Shields(z, r) PROVE Shields(z, r)'
    <3>1. Cont # "rebuild_main"
      BY <1>1, CalmTables DEF Calm
    <3> QED
      BY <1>1, <2>1, <2>2, <3>1 DEF Shields, maps, tops, tabs
  <2> QED
    BY <1>1, <1>2, <1>3, <2>1, <2>2, CalmStep, SameFlash DEF state, maps
<1>6. CASE CreateFull
  <2>1. UNCHANGED maps /\ mapping_blocks_top_ba' = mapping_blocks_ba /\ pc = "create_full"
    BY <1>6 DEF CreateFull
  <2>2. ASSUME NEW z \in bad, NEW r \in Stale, Shields(z, r), backup_table_ba = 0
        PROVE  Shields(z, r)'
    <3>0. z \in Int /\ r \in Int
      BY PathTypes, BlockTypes, TabTypes
    <3>1. protected \/ mapping_blocks_ba = main_table_ba + 1
      BY <1>1, <2>1, <2>2, CalmTables, Integral DEF PathInv, OrderInv
    <3> QED
      BY <1>1, <2>1, <2>2, <3>0, <3>1, Integral DEF Shields, maps, tops, tabs
  <2> QED
    BY <1>1, <1>2, <1>3, <2>1, <2>2, CalmStep, SameFlash DEF state, maps
<1> QED
  BY <1>4, <1>5, <1>6 DEF MapStep

----------------------------------------------------------------------------
(* Remaps and the calls of the front end.                                    *)

\* A mapped block holds neither a table nor the signature.
LEMMA MappedAside ==
    ASSUME TypeInv, SoundInv, FlashInv, PathInv, TableInv, pc \in Calm,
           NEW lb \in Logical
    PROVE  block_mapping[lb] \notin Tabled \cup Signed
<1>1. block_mapping[lb] \notin Tabled
  BY CalmTables DEF TableInv, StaleInv
<1>2. block_mapping[lb] # signature_ba
  BY CalmTables, Integral DEF SoundInv, AreaInv
<1> QED
  BY <1>1, <1>2, CalmTables DEF TableInv, WhereInv, FlashInv, PlaceInv

\* A remap leaves the tables alone.
LEMMA RemapAside ==
    TypeInv /\ SoundInv /\ FlashInv /\ PathInv /\ TableInv /\ RemapStep /\ Sound' => Aside
<1> SUFFICES ASSUME TypeInv, SoundInv, FlashInv, PathInv, TableInv, RemapStep, Sound'
             PROVE  Aside
  OBVIOUS
<1> USE PathTypes
<1>1. CASE UnmapDone \/ RemapFull
  BY <1>1 DEF UnmapDone, RemapFull, Aside, flash
<1>2. CASE RemapErase
  <2>1. req.new \notin Tabled \cup Signed
    <3>1. pc \in Calm /\ req.lb \in Logical /\ block_mapping[req.lb] = req.new
      BY <1>2, CalmTables DEF RemapErase, Calm, PathInv, ReqInv, TypeInv, ControlTypes, Request
    <3> QED
      BY <3>1, MappedAside
  <2>2. UNCHANGED marked
    BY <1>2 DEF RemapErase
  <2>3. \A b \in Blocks : content'[b] # content[b] =>
           b = req.new /\ content'[b].k \in {"erased", "torn"}
    BY <1>2 DEF RemapErase, FailErase, Ruin, Holds
  <2> QED
    BY <2>1, <2>2, <2>3 DEF Aside
<1>3. CASE RemapCopy
  <2>1. pc \in Calm /\ Cont = "remap_copy" /\ pc = "remap_copy"
    BY <1>3, CalmTables DEF RemapCopy, Calm
  <2>2. req.new \notin Tabled \cup Signed
    <3>1. req.lb \in Logical /\ block_mapping[req.lb] = req.new
      BY <2>1 DEF PathInv, ReqInv, TypeInv, ControlTypes, Request
    <3> QED
      BY <2>1, <3>1, MappedAside
  <2>3. req.old \in Blocks /\ req.old \notin Signed
    BY <2>1, CalmTables DEF PathInv, ReqInv, TableInv, WhereInv, FlashInv, PlaceInv, TypeInv,
       ControlTypes, Request
  <2>4. content[req.old].k # "sig"
    BY <2>3 DEF Signed
  <2>5. ASSUME content[req.old].k = "table",
          "unmap" \notin weak' PROVE weak' # weak \cup Overwritten
    <3>1. req.old \in Tabled
      BY <2>3, <2>5 DEF Tabled
    <3>2. req.repair
      BY <2>1, <3>1 DEF PathInv, ReqInv
    <3> QED
      BY <2>5, <3>2 DEF Overwritten
  <2>6. UNCHANGED marked
    BY <1>3 DEF RemapCopy
  <2>7. \A b \in Blocks : content'[b] # content[b] =>
           b = req.new /\ content'[b].k \notin {"table", "sig"}
    BY <1>3, <2>4, <2>5 DEF RemapCopy, Ruin, Holds, Sound
  <2> QED
    BY <2>2, <2>6, <2>7 DEF Aside
<1>4. CASE RemapDone
  <2>1. pc \in Calm /\ UNCHANGED content
    BY <1>4 DEF RemapDone, Calm
  <2>2. req.mark => req.old \in bad /\ req.old # signature_ba
    BY <2>1, CalmTables DEF PathInv, ReqInv
  <2>3. req.mark => req.old \notin Copies \cup Signed
    BY <2>1, <2>2, CalmTables DEF TableInv, WhereInv, CacheInv, FlashInv, PlaceInv
  <2> QED
    BY <1>4, <2>1, <2>3 DEF RemapDone, Aside
<1> QED
  BY <1>1, <1>2, <1>3, <1>4 DEF RemapStep

\* A remapped block is erased and written: it held no table, and gets none.
LEMMA TableRemap ==
    TypeInv /\ SoundInv /\ FlashInv /\ PathInv /\ TableInv /\ RemapStep /\ Sound' => FlashInv'
      /\ TableInv'
<1> SUFFICES ASSUME TypeInv, SoundInv, FlashInv, PathInv, TableInv, RemapStep, Sound'
             PROVE  FlashInv' /\ TableInv'
  OBVIOUS
<1>1. /\ Copies' = Copies /\ Stale' = Stale /\ Tabled' = Tabled /\ Signed' = Signed
      /\ marked \subseteq marked' /\ \A x \in Tabled : Tab(x)' = Tab(x)
      /\ \A x \in Copies : Tab(x)' = Tab(x)
  BY RemapAside, AsideFlash, TabTypes
<1>2. FlashInv'
  <2>1. marked' \cap Signed = {}
    BY RemapAside DEF Aside, FlashInv, PlaceInv
  <2> QED
    BY <1>1, <2>1, FlashAside
<1>3. /\ pc \in Calm /\ pc' \in Calm
      /\ UNCHANGED <<bad, block_mapping, tabs, cache, protected, signature_ba>>
      /\ \/ UNCHANGED mapping_blocks_top_ba
         \/ mapping_blocks_top_ba' = mapping_blocks_ba /\ pc = "remap_full"
  BY PathTypes DEF RemapStep, UnmapDone, RemapErase, RemapCopy, RemapFull, RemapDone, Goto,
      UpdateTables,
     Calm, state, maps, tops
<1>4. \A x \in Copies : x \notin bad'
  BY <1>3, CalmTables DEF TableInv, CacheInv
<1>5. \A lb \in Logical : block_mapping'[lb] \notin Tabled
  BY <1>3, CalmTables DEF TableInv, StaleInv
<1>6. ASSUME NEW z \in bad, NEW r \in Stale, Shields(z, r), backup_table_ba = 0
      PROVE  Shields(z, r)'
  <2>0. z \in Int /\ r \in Int /\ Cont # "rebuild_main"
    BY <1>3, PathTypes, BlockTypes, TabTypes, CalmTables DEF Calm
  <2>1. CASE UNCHANGED mapping_blocks_top_ba
    BY <1>3, <1>6, <2>0, <2>1 DEF Shields, tabs
  <2>2. CASE mapping_blocks_top_ba' = mapping_blocks_ba /\ pc = "remap_full"
    <3>1. protected \/ mapping_blocks_ba = main_table_ba + 1
      BY <1>3, <1>6, <2>2, CalmTables, Integral DEF PathInv, OrderInv
    <3> QED
      BY <1>3, <1>6, <2>0, <2>2, <3>1, Integral DEF Shields, tabs
  <2> QED
    BY <1>3, <2>1, <2>2
<1> QED
  BY <1>1, <1>2, <1>3, <1>4, <1>5, <1>6, CalmStep

\* A block that takes part in a remap is not handed out again.
LEMMA TableRemapBlock ==
    ASSUME TypeInv, SoundInv, FlashInv, PathInv, TableInv, Ready, NEW lb \in Logical,
           Reachable(lb), NEW copy \in BOOLEAN, NEW mark \in BOOLEAN,
           RemapBlock(lb, copy, mark), Sound',
           UNCHANGED <<tabs, cache, protected>>, Aside
    PROVE  TableInv'
<1>1. pc \in Calm /\ pc' \in Calm
  BY DEF Ready, RemapBlock, Calm
<1>2. /\ Copies' = Copies /\ Stale' = Stale /\ Tabled' = Tabled /\ Signed' = Signed
      /\ marked \subseteq marked' /\ \A x \in Tabled : Tab(x)' = Tab(x)
  BY AsideFlash
<1>3. /\ bad' = bad \cup {block_mapping[lb]} /\ UNCHANGED signature_ba
      /\ \/ UNCHANGED <<block_mapping, mapping_blocks_top_ba>>
         \/ /\ mapping_blocks_ba < mapping_blocks_top_ba /\ mapping_blocks_top_ba \in Blocks \ bad
            /\ block_mapping' = [block_mapping EXCEPT ![lb] = mapping_blocks_top_ba]
            /\ mapping_blocks_top_ba' = mapping_blocks_top_ba - 1
  <2>1. bad' = bad \cup {block_mapping[lb]}
    BY DEF RemapBlock, SetBad
  <2>2. ASSUME NEW pb \in Unmapped, MapTo(lb, pb), Skipped(pb) \subseteq weak'
        PROVE  /\ UNCHANGED signature_ba
               /\ mapping_blocks_ba < mapping_blocks_top_ba
                    /\ mapping_blocks_top_ba \in Blocks \ bad
               /\ block_mapping' = [block_mapping EXCEPT ![lb] = mapping_blocks_top_ba]
               /\ mapping_blocks_top_ba' = mapping_blocks_top_ba - 1
    <3>1. pb = mapping_blocks_top_ba
      BY <2>2 DEF Skipped, Sound
    <3> QED
      BY <2>2, <3>1, Integral DEF MapTo, TopAfterMap, Unmapped
  <2> QED
    BY <2>1, <2>2 DEF RemapBlock, tops
<1>4. \A x \in Copies : x \notin bad'
  BY <1>1, <1>3, CalmTables, MappedAside, TabTypes DEF TableInv, CacheInv
<1>5. \A x \in Logical : block_mapping'[x] \in {block_mapping[x], mapping_blocks_top_ba}
  BY <1>3 DEF TypeInv, StateTypes
<1>6. \A x \in Logical : block_mapping'[x] \notin Tabled
  <2>1. CASE UNCHANGED block_mapping
    BY <1>1, <2>1, MappedAside
  <2>2. CASE mapping_blocks_ba < mapping_blocks_top_ba /\ mapping_blocks_top_ba \in Blocks \ bad
    BY <1>1, <1>5, <2>2, MappedAside, HandOut
  <2> QED
    BY <1>3, <2>1, <2>2
<1>7. ASSUME NEW z \in bad, NEW r \in Stale, Shields(z, r) PROVE Shields(z, r)'
  <2>0. z \in Int /\ mapping_blocks_ba \in Int /\ mapping_blocks_top_ba \in Int
    BY Integral, PathTypes, BlockTypes
  <2>1. CASE UNCHANGED <<block_mapping, mapping_blocks_top_ba>>
    <3>1. Cont # "rebuild_main"
      BY <1>1, CalmTables DEF Calm
    <3> QED
      BY <1>3, <1>7, <2>1, <3>1 DEF Shields, tabs
  <2>2. CASE /\ mapping_blocks_ba < mapping_blocks_top_ba
             /\ mapping_blocks_top_ba \in Blocks \ bad
             /\ mapping_blocks_top_ba' = mapping_blocks_top_ba - 1
    <3>1. z < mapping_blocks_top_ba
      <4>1. z <= mapping_blocks_top_ba
        BY <1>7, <2>0, <2>2 DEF Shields
      <4> QED
        BY <1>1, <2>0, <2>2, <4>1, HandOut
    <3>2. z <= mapping_blocks_top_ba'
      BY <2>0, <2>2, <3>1
    <3>3. \A x \in Logical : block_mapping'[x] \notin MgmtStart..z
      BY <1>5, <1>7, <3>1, Integral, <2>0 DEF Shields
    <3> QED
      BY <1>3, <1>7, <3>2, <3>3 DEF Shields
  <2> QED
    BY <1>3, <2>1, <2>2
<1> QED
  BY <1>1, <1>2, <1>3, <1>4, <1>6, <1>7, CalmStep

\* What a user writes or spoils is a mapped block.
LEMMA UserAside ==
    ASSUME TypeInv, SoundInv, FlashInv, PathInv, TableInv, Ready, UNCHANGED marked,
           NEW lb \in Logical,
           \A b \in Blocks :
              \/ content'[b] = content[b]
              \/ content'[b].k \notin {"table", "sig"} /\ content[b].k \notin {"table", "sig"}
              \/ content'[b].k \notin {"table", "sig"} /\ b = block_mapping[lb]
    PROVE  Aside
<1>1. pc \in Calm
  BY DEF Ready, Calm
<1>2. block_mapping[lb] \notin Tabled \cup Signed
  BY <1>1, MappedAside
<1> QED
  BY <1>2 DEF Aside, Tabled, Signed

\* unmap_block_nmbm leaves the blocks above the range in use where they are.
LEMMA TableUnmap ==
    ASSUME TypeInv, SoundInv, FlashInv, PathInv, TableInv, NEW lb \in Logical,
           NEW repair \in BOOLEAN, UserUnmap(lb, repair), Sound'
    PROVE  TableInv'
<1>1. /\ pc \in Calm /\ pc' \in Calm
      /\ UNCHANGED <<flash, data_block_count, tabs, signature_ba, cache, protected>>
  BY DEF UserUnmap, Ready, Calm
<1>2. PICK new \in Blocks :
         /\ bad' = bad \ {new} /\ block_mapping' = [block_mapping EXCEPT ![lb] = new]
         /\ IsTopAfterUnmap(mapping_blocks_top_ba', block_mapping')
         /\ Misplaced(lb, new) => "unmap" \in weak'
  BY DEF UserUnmap
<1>3. new \in Int /\ new < MgmtStart
  BY <1>2, BlockTypes, Integral DEF Misplaced, Sound
<1>4. \A x \in Logical : block_mapping'[x] = IF x = lb THEN new ELSE block_mapping[x]
  BY <1>2 DEF TypeInv, StateTypes
<1>5. \A b \in bad : b >= MgmtStart => b \in bad'
  BY <1>2, <1>3, Integral
<1>6. \A x \in Copies : x \notin bad'
  BY <1>1, <1>2, CalmTables DEF TableInv, CacheInv
<1>7. \A x \in Logical : block_mapping'[x] \notin Tabled
  <2>1. new \notin Tabled
    BY <1>3, Integral DEF FlashInv, PlaceInv
  <2> QED
    BY <1>1, <1>4, <2>1, MappedAside
<1>8. ASSUME NEW z \in bad, NEW r \in Stale, Shields(z, r) PROVE Shields(z, r)'
  <2>1. z \in Int /\ r \in Int /\ r < z /\ MgmtStart <= r
    BY <1>8, PathTypes, BlockTypes, TabTypes DEF Shields, FlashInv, PlaceInv
  <2>2. \A x \in Logical : block_mapping'[x] \notin MgmtStart..z
    BY <1>3, <1>4, <1>8, Integral DEF Shields
  <2>3. z <= mapping_blocks_top_ba'
    <3>1. /\ mapping_blocks_top_ba' + 1 \in
                ({Used(block_mapping')[x] : x \in Logical}
                  \cap (mapping_blocks_ba..(signature_ba - 1)))
                \cup {signature_ba}
          /\ mapping_blocks_top_ba' \in Int
      <4>1. IsTop(mapping_blocks_top_ba', Used(block_mapping'), mapping_blocks_ba, signature_ba)
        BY <1>2 DEF IsTopAfterUnmap
      <4>2. mapping_blocks_top_ba' \in Int
        BY <1>1 DEF UserUnmap, IsTopAfterUnmap, MaybeBlock, Blocks, NoBlock
      <4> QED
        BY <4>1, <4>2 DEF IsTop
    <3>2. CASE mapping_blocks_top_ba' + 1 = signature_ba
      BY <1>8, <2>1, <3>1, <3>2, Integral DEF Shields
    <3>3. ASSUME NEW x \in Logical, mapping_blocks_top_ba' + 1 = Used(block_mapping')[x],
                 mapping_blocks_ba <= mapping_blocks_top_ba' + 1
          PROVE  z <= mapping_blocks_top_ba'
      <4>1. MgmtStart <= mapping_blocks_ba
        BY <1>1, CalmTables DEF SoundInv, AreaInv
      <4>2. Used(block_mapping')[x] \in {block_mapping'[x], NoBlock}
        BY DEF Used
      <4>3. mapping_blocks_top_ba' + 1 = block_mapping'[x]
        BY <3>1, <3>3, <4>1, <4>2, Integral DEF NoBlock
      <4> QED
        BY <2>1, <2>2, <3>1, <3>3, <4>1, <4>3, Integral
    <3> QED
      BY <3>1, <3>2, <3>3, Integral
  <2> QED
    BY <1>1, <1>8, <2>1, <2>2, <2>3 DEF Shields
<1> QED
  BY <1>1, <1>5, <1>6, <1>7, <1>8, CalmStep, SameFlash

\* Calls of the front end change mapped blocks and the map, never a table.
LEMMA UserStepAside ==
    ASSUME TypeInv, SoundInv, FlashInv, PathInv, TableInv, NEW lb \in Logical,
           \/ UserWrite(lb) \/ UserFault(lb) \/ UserRemap(lb) \/ UserIsBad(lb)
           \/ \E repair \in BOOLEAN : UserUnmap(lb, repair)
    PROVE  Aside
<1>1. Ready /\ UNCHANGED marked
  BY DEF UserWrite, UserFault, UserRemap, UserIsBad, UserUnmap, flash, Ready
<1>2. CASE UserWrite(lb)
  <2>1. ASSUME NEW b \in Blocks
        PROVE  \/ content'[b] = content[b]
               \/ content'[b].k \notin {"table", "sig"} /\ content[b].k \notin {"table", "sig"}
               \/ content'[b].k \notin {"table", "sig"} /\ b = block_mapping[lb]
    BY <1>2 DEF UserWrite, DataOf, Holds
  <2> QED
    BY <1>1, <2>1, UserAside
<1>3. CASE UserFault(lb)
  <2>1. ASSUME NEW b \in Blocks
        PROVE  \/ content'[b] = content[b]
               \/ content'[b].k \notin {"table", "sig"} /\ b = block_mapping[lb]
    BY <1>3, PathTypes DEF UserFault, Ruin, Holds
  <2> QED
    BY <1>1, <2>1, UserAside
<1>4. CASE UNCHANGED flash
  BY <1>4 DEF Aside, flash
<1> QED
  BY <1>2, <1>3, <1>4 DEF UserRemap, UserIsBad, UserUnmap

\* ... so what the driver and the flash know of the tables stays true.
LEMMA TableUser ==
    TypeInv /\ SoundInv /\ FlashInv /\ PathInv /\ TableInv /\ UserStep /\ Sound' => FlashInv'
      /\ TableInv'
<1> SUFFICES ASSUME TypeInv, SoundInv, FlashInv, PathInv, TableInv, Sound', NEW lb \in Logical,
                    \/ UserWrite(lb) \/ UserFault(lb) \/ UserRemap(lb) \/ UserIsBad(lb)
                    \/ \E repair \in BOOLEAN : UserUnmap(lb, repair)
             PROVE  FlashInv' /\ TableInv'
  BY DEF UserStep
<1>1. Ready /\ UNCHANGED marked /\ pc \in Calm
  BY DEF UserWrite, UserFault, UserRemap, UserIsBad, UserUnmap, flash, Ready, Calm
<1>2. Aside
  BY UserStepAside
<1>3. FlashInv'
  <2>1. marked' \cap Signed = {}
    BY <1>2 DEF Aside, FlashInv, PlaceInv
  <2> QED
    BY <1>2, <2>1, FlashAside, AsideFlash, TabTypes
<1>4. CASE UserWrite(lb)
  <2>1. UNCHANGED <<state, maps, tabs, tops, cache, protected, ctl>>
    BY <1>4 DEF UserWrite
  <2>2. \A x \in Copies : x \notin bad'
    BY <1>1, <2>1, CalmTables DEF TableInv, CacheInv, state
  <2>3. \A x \in Logical : block_mapping'[x] \notin Tabled
    BY <1>1, <2>1, MappedAside DEF maps
  <2>4. ASSUME NEW z \in bad, NEW r \in Stale, Shields(z, r) PROVE Shields(z, r)'
    <3>1. Cont # "rebuild_main"
      BY <1>1, CalmTables DEF Calm
    <3> QED
      BY <2>1, <2>4, <3>1 DEF Shields, tabs, tops, maps
  <2>5. pc' \in Calm /\ UNCHANGED <<tabs, cache, protected, signature_ba, bad>>
    BY <1>1, <2>1 DEF state, tops, ctl
  <2>6. /\ Copies' = Copies /\ Stale' = Stale /\ Tabled' = Tabled /\ Signed' = Signed
        /\ marked \subseteq marked' /\ \A x \in Tabled : Tab(x)' = Tab(x)
    BY <1>2, AsideFlash
  <2> QED
    BY <1>1, <1>3, <2>2, <2>3, <2>4, <2>5, <2>6, CalmStep
<1>5. CASE UserFault(lb) \/ UserRemap(lb) \/ UserIsBad(lb)
  <2>1. Reachable(lb) /\ UNCHANGED <<tabs, cache, protected>>
    BY <1>5 DEF UserFault, UserRemap, UserIsBad
  <2>2. PICK copy \in BOOLEAN, mark \in BOOLEAN : RemapBlock(lb, copy, mark)
    BY <1>5 DEF UserFault, UserRemap, UserIsBad
  <2> QED
    BY <1>1, <1>2, <1>3, <2>1, <2>2, TableRemapBlock
<1>6. ASSUME NEW repair \in BOOLEAN, UserUnmap(lb, repair) PROVE TableInv'
  BY <1>6, TableUnmap
<1> QED
  BY <1>3, <1>4, <1>5, <1>6

----------------------------------------------------------------------------
(* Writing a table.                                                          *)

\* At most one copy stays, in front of mapping_blocks_ba and not in the range.
LEMMA KeptOne ==
    ASSUME TypeInv, SoundInv, FlashInv, PathInv, TableInv, pc \in {"w_erase", "w_program"}
    PROVE  /\ Cont = w.cont /\ Cont \in WriteConts /\ Working
           /\ \A x, y \in Kept : x = y
           /\ \A x \in Kept : /\ x \in Copies /\ x \in Int /\ x < mapping_blocks_ba
                              /\ ~(w.start <= x /\ x < w.limit)
                              /\ \A lb \in Logical : Tab(x).map[lb] \notin Tabled
<1>1. Cont = w.cont /\ Cont \in WriteConts /\ Working /\ pc \notin WriteConts
  BY PathTypes DEF Cont, Working, WriteConts
<1>2. /\ Kept = IF Cont = "rescue_main" THEN {w.limit}
                ELSE IF Cont = "rebuild_main" THEN {}
                ELSE IF Cont \in KeepsMain THEN {main_table_ba}
                ELSE {backup_table_ba} \ {0}
      /\ Cont \in KeepsMain \cup KeepsBackup \cup {"rescue_main", "rebuild_main"}
  BY <1>1 DEF Kept, WriteConts, KeepsMain, KeepsBackup
<1>3. \A x, y \in Kept : x = y
  BY <1>2
<1>4. Kept \subseteq Copies
  BY <1>1 DEF TableInv, WhereInv
<1>5. main_table_ba < mapping_blocks_ba /\ (backup_table_ba = 0 \/ main_table_ba < backup_table_ba)
      /\ backup_table_ba < mapping_blocks_ba
  BY <1>1 DEF PathInv, OrderInv
<1>6. ASSUME NEW x \in Kept
      PROVE  x \in Int /\ x < mapping_blocks_ba /\ ~(w.start <= x /\ x < w.limit)
  <2>1. x \in Int
    BY <1>4, <1>6, TabTypes, BlockTypes
  <2>2. CASE Cont \in KeepsMain
    <3>1. x = main_table_ba
      BY <1>2, <1>6, <2>2 DEF KeepsMain
    <3>2. \/ w.limit = main_table_ba
          \/ w.start > main_table_ba
      <4>1. CASE Cont \in {"once_backup", "older_backup"}
        BY <1>1, <1>5, <4>1, Integral DEF PathInv, SpanInv, SoundInv, TablesInv
      <4>2. CASE Cont \in {"rescue_front", "rebuild_backup", "rescue_back"}
        BY <1>5, <4>2, Integral DEF PathInv, SpanInv
      <4> QED
        BY <2>2, <4>1, <4>2 DEF KeepsMain
    <3> QED
      BY <1>5, <2>1, <3>1, <3>2, Integral
  <2>3. CASE Cont \in KeepsBackup
    <3>1. x = backup_table_ba /\ backup_table_ba # 0
      BY <1>2, <1>6, <2>3 DEF KeepsMain, KeepsBackup
    <3>2. w.limit = backup_table_ba \/ w.start > backup_table_ba
      BY <1>5, <2>3, <3>1, Integral DEF PathInv, SpanInv, KeepsBackup
    <3> QED
      BY <1>5, <2>1, <3>1, <3>2, Integral
  <2>4. CASE Cont = "rescue_main"
    BY <1>2, <1>6, <2>1, <2>4, Integral DEF PathInv, SpanInv
  <2> QED
    BY <1>2, <1>6, <2>2, <2>3, <2>4
<1>7. ASSUME NEW x \in Kept, NEW lb \in Logical PROVE Tab(x).map[lb] \notin Tabled
  <2>1. CASE Cont = "once_backup"
    BY <1>1, <1>4, <1>7, <2>1 DEF TableInv, StaleInv, WriteConts
  <2>2. CASE Cont # "once_backup"
    <3>1. Cont \in KeepsCache \cup KeepsMap \cup {"rebuild_main"}
      BY <1>1, <2>2 DEF WriteConts, KeepsCache, KeepsMap
    <3>2. Tab(x).map = block_mapping
      BY <1>1, <1>2, <1>7, <3>1 DEF TableInv, CacheInv
    <3> QED
      BY <1>1, <1>7, <3>2 DEF TableInv, StaleInv
  <2> QED
    BY <2>1, <2>2
<1> QED
  BY <1>1, <1>3, <1>4, <1>6, <1>7

\* The range lies in front of the signature.
LEMMA RangeAside ==
    ASSUME TypeInv, SoundInv, FlashInv, PathInv, TableInv, pc \in {"w_erase", "w_program"},
           NEW b \in Blocks, w.ba <= b, b < w.limit
    PROVE  /\ b \notin Signed /\ b \notin Kept /\ b \in Int /\ MgmtStart <= b
           /\ b < mapping_blocks_top_ba /\ b + 2 <= signature_ba /\ w.start <= b
<1>1. b \in Int /\ w.start <= w.ba /\ w.ba >= MgmtStart /\ w.limit <= mapping_blocks_top_ba
  BY BlockTypes DEF PathInv, OrderInv, SoundInv, RangeInv
<1>2. mapping_blocks_top_ba < signature_ba
  BY KeptOne DEF SoundInv, AreaInv
<1>3. w.start <= b /\ MgmtStart <= b /\ b < mapping_blocks_top_ba /\ b + 2 <= signature_ba
  BY <1>1, <1>2, Integral
<1>4. b \notin Kept
  BY <1>3, KeptOne
<1>5. b \notin Signed
  BY <1>1, <1>3, KeptOne, Integral DEF TableInv, WhereInv, FlashInv, PlaceInv
<1> QED
  BY <1>1, <1>3, <1>4, <1>5

\* The table that is to be written again is the first block of the range to be tried.
LEMMA OldFirst ==
    ASSUME TypeInv, SoundInv, FlashInv, PathInv, TableInv, pc = "w_erase",
           NEW r \in Copies, r \notin Kept
    PROVE  r \in Usable /\ r \in Old /\ \A x \in Usable : r <= x
<1>1. r \in Old /\ r >= w.ba
  <2>1. r \in Extra
    BY KeptOne DEF TableInv, WhereInv
  <2> QED
    BY <2>1 DEF Extra
<1>2. r \in Blocks /\ r \in Int /\ r \notin marked /\ r \notin bad
  BY KeptOne, TabTypes, BlockTypes DEF TableInv, CacheInv
<1>3. w.start <= w.ba
  BY DEF PathInv, OrderInv
<1>4. mapping_blocks_ba <= mapping_blocks_top_ba /\ main_table_ba < mapping_blocks_ba
      /\ (backup_table_ba = 0 \/ main_table_ba < backup_table_ba)
      /\ backup_table_ba < mapping_blocks_ba
  BY KeptOne DEF SoundInv, AreaInv, PathInv, OrderInv
<1>5. ASSUME NEW x \in Usable PROVE x \in Blocks /\ x \in Int /\ w.ba <= x /\ x \notin Unusable
  BY <1>5, BlockTypes DEF Usable, Unusable
<1>6. CASE Cont \in {"once_backup", "older_backup"}
  <2>1. r = backup_table_ba /\ w.start = backup_table_ba /\ w.limit = mapping_blocks_top_ba
    BY <1>1, <1>6 DEF Old, PathInv, SpanInv
  <2> QED
    BY <1>1, <1>2, <1>3, <1>4, <1>5, <2>1, Integral DEF Usable
<1>7. CASE Cont \in {"once_main", "older_main"}
  <2>1. /\ r = main_table_ba /\ w.start = main_table_ba
        /\ w.limit = mapping_blocks_top_ba \/ (backup_table_ba # 0 /\ w.limit = backup_table_ba)
    BY <1>1, <1>7, KeptOne DEF Old, PathInv, SpanInv, SoundInv, TablesInv
  <2> QED
    BY <1>1, <1>2, <1>3, <1>4, <1>5, <2>1, Integral DEF Usable
<1>8. CASE Cont = "rescue_main"
  <2>1. r = backup_table_ba /\ w.start = MgmtStart /\ backup_table_ba < w.limit
        /\ MgmtStart..(backup_table_ba - 1) \subseteq Unusable
    BY <1>1, <1>8 DEF Old, PathInv, SpanInv, LowInv
  <2>2. r \in Usable
    BY <1>1, <1>2, <2>1, Integral DEF Usable
  <2>3. ASSUME NEW x \in Usable, x < r PROVE FALSE
    BY <1>2, <1>3, <1>5, <2>1, <2>3, Integral
  <2> QED
    BY <1>1, <1>2, <1>5, <2>2, <2>3
<1> QED
  BY <1>1, <1>6, <1>7, <1>8 DEF Old

\* When one table goes, and at most one is left, the promises stay.
LEMMA FlashLess ==
    ASSUME FlashInv, Copies' \subseteq Copies, Tabled' \subseteq Tabled, Signed' = Signed,
           marked \subseteq marked', marked' \cap Signed = {},
           Stale' \subseteq Tabled', 
           \A x \in Copies' : Tab(x)' = Tab(x),
           \A x, y \in Copies' : x = y /\ x \in Int,
           \A x \in Copies', lb \in Logical : Tab(x).map[lb] \notin Tabled
    PROVE  FlashInv'
<1>1. PlaceInv'
  BY DEF FlashInv, PlaceInv
<1>2. CopyInv'
  BY DEF FlashInv, CopyInv
<1>3. AgeInv'
  BY DEF FlashInv, AgeInv, AsNew
<1>4. NewInv'
  BY DEF FlashInv, NewInv
<1> QED
  BY <1>1, <1>2, <1>3, <1>4 DEF FlashInv

\* A block of the range is erased, or spoilt, or marked.
Removes(b) ==
    /\ \A x \in Blocks : content'[x] # content[x] => x = b /\ content'[x].k \notin {"table", "sig"}
    /\ b \in marked' \/ content'[b].k \notin {"table", "sig"}
    /\ marked \subseteq marked' /\ marked' \subseteq marked \cup {b}

\* ... which makes at most the table stale that is to be written again.
LEMMA RemovesOne ==
    ASSUME TypeInv, SoundInv, FlashInv, PathInv, TableInv, pc \in {"w_erase", "w_program"},
           NEW b \in Blocks, w.ba <= b, b < w.limit, Removes(b)
    PROVE  /\ Tabled' \subseteq Tabled /\ Signed' = Signed /\ marked' \cap Signed = {}
           /\ \A x \in Blocks : x # b => Tab(x)' = Tab(x)
           /\ b \notin Copies' /\ Copies' = Copies \ {b} /\ Stale' \subseteq Stale \cup {b}
           /\ b \notin marked' => Stale' \subseteq Stale
           /\ b \notin Tabled => b \notin Tabled'
<1>1. b \notin Signed
  BY RangeAside
<1>2. Tabled' \subseteq Tabled /\ Signed' = Signed
  BY <1>1 DEF Removes, Tabled, Signed
<1>3. \A x \in Blocks : x # b => Tab(x)' = Tab(x) /\ (x \in Tabled' <=> x \in Tabled)
  BY DEF Removes, Tab, Tabled
<1>4. b \notin Copies'
  BY DEF Removes, Copies, Tabled
<1>5. Copies' = Copies \ {b} /\ Stale' \subseteq Stale \cup {b}
  BY <1>2, <1>3, <1>4, TabTypes DEF Removes, Copies, Stale
<1>6. b \notin marked' => Stale' \subseteq Stale
  BY <1>2 DEF Stale, Removes
<1>7. marked' \cap Signed = {}
  BY <1>1 DEF Removes, FlashInv, PlaceInv
<1> QED
  BY <1>1, <1>2, <1>3, <1>4, <1>5, <1>6, <1>7

\* The next block to write to is erased or ruined: the tables that are left keep
\* what they promise.
LEMMA FlashRemove ==
    ASSUME TypeInv, SoundInv, FlashInv, PathInv, TableInv, pc \in {"w_erase", "w_program"},
           NEW b \in Blocks, w.ba <= b, b < w.limit, Removes(b),
           pc = "w_erase" => b \in Usable /\ IsFirst(b, Usable)
    PROVE  /\ FlashInv' /\ Copies' \subseteq Copies
           /\ pc = "w_erase" => Copies' \subseteq Kept /\ (b \in Copies => b \in Old)
<1>1. /\ b \notin Signed /\ b \notin Kept /\ b \in Int
  BY RangeAside
<1>2. ASSUME NEW r \in Copies, r \notin Kept PROVE r = b /\ b \in Old /\ pc = "w_erase"
  <2>1. pc = "w_erase"
    <3>1. pc = "w_program" => Extra = {}
      BY DEF Extra, WriteConts
    <3> QED
      BY <1>2, <3>1, KeptOne DEF TableInv, WhereInv
  <2>2. r \in Usable /\ r \in Old /\ \A x \in Usable : r <= x
    BY <1>2, <2>1, OldFirst
  <2>3. r <= b /\ b <= r /\ r \in Int
    BY <2>1, <2>2, BlockTypes DEF IsFirst, Usable
  <2> QED
    BY <1>1, <2>1, <2>2, <2>3
<1>3. Copies' \subseteq Kept
  BY <1>2, RemovesOne
<1>4. FlashInv'
  <2>1. \A x, y \in Copies' : x = y /\ x \in Int
    BY <1>3, KeptOne
  <2>2. \A x \in Copies', lb \in Logical : Tab(x).map[lb] \notin Tabled
    BY <1>3, KeptOne
  <2>3. \A x \in Copies' : Tab(x)' = Tab(x)
    BY RemovesOne, TabTypes
  <2>4. Copies' \subseteq Copies /\ Stale' \subseteq Tabled'
    BY RemovesOne DEF Stale
  <2>5. marked \subseteq marked'
    BY DEF Removes
  <2> QED
    BY <2>1, <2>2, <2>3, <2>4, <2>5, RemovesOne, FlashLess
<1> QED
  BY <1>1, <1>2, <1>3, <1>4, RemovesOne

\* When the table is programmed, at most one other is there.
LEMMA FlashProgram ==
    ASSUME TypeInv, SoundInv, FlashInv, PathInv, TableInv, pc = "w_program",
           content' = [content EXCEPT ![w.ba] = TableOf(info_table_cache)],
           UNCHANGED marked
    PROVE  /\ FlashInv' /\ Copies = Kept /\ Copies' = Kept \cup {w.ba} /\ Stale' = Stale
           /\ Tabled' = Tabled \cup {w.ba} /\ Signed' = Signed
           /\ \A x \in Copies : Tab(x)' = Tab(x) /\ x # w.ba
           /\ content'[w.ba].t = info_table_cache /\ w.ba \notin Unusable
<1>17. PICK k \in Blocks : k = w.ba
  BY DEF TypeInv, ControlInv
<1> USE <1>17
<1>0. Cont \in WriteConts /\ Working /\ \A x, y \in Kept : x = y
  BY KeptOne
<1>1. /\ k \in Blocks /\ k \in Int /\ k \notin bad /\ k \notin marked /\ k \notin Kept
           /\ k \notin Signed
      /\ MgmtStart <= k /\ k < mapping_blocks_top_ba /\ k + 2 <= signature_ba
  <2>1. k < w.limit
    BY DEF SoundInv, RangeInv
  <2>2. k \notin Unusable
    BY DEF PathInv, TriedInv
  <2> QED
    BY <2>1, <2>2, Integral, RangeAside DEF Unusable
<1>2. Copies = Kept
  BY <1>0 DEF TableInv, WhereInv, Extra, WriteConts
<1>3. k \notin Tabled /\ k \notin Copies
  BY <1>1, <1>2 DEF Copies
<1>4. /\ Tabled' = Tabled \cup {k} /\ Signed' = Signed
      /\ Copies' = Copies \cup {k} /\ Stale' = Stale
  <2>1. Tabled' = Tabled \cup {k} /\ Signed' = Signed
    BY <1>1, PathTypes DEF Tabled, Signed, TableOf
  <2> QED
    BY <1>1, <2>1 DEF Copies, Stale
<1>5. Tab(k)' = info_table_cache /\ \A x \in Tabled : Tab(x)' = Tab(x)
  BY <1>1, <1>3, PathTypes DEF Tab, TableOf, Tabled
<1>6. \A x \in Copies : Tab(x)' = Tab(x) /\ x # k /\ x \in Tabled
  BY <1>3, <1>5, TabTypes
<1> DEFINE c == info_table_cache
<1>7. /\ c.wc = write_count /\ c.wc \in Int /\ c.map = block_mapping /\ c.bad \subseteq bad
      /\ bad \subseteq c.bad \cup marked
      /\ \A x \in Copies : /\ Tab(x).wc <= c.wc /\ Tab(x).wc \in Int
                           /\ Tab(x).wc = c.wc => Tab(x) = c
                           /\ \A b \in Tab(x).bad : b >= MgmtStart => b \in Unusable
                           /\ x \notin bad
  BY <1>0, TabTypes DEF TableInv, CacheInv, TypeInv, TableTypes
<1>8. /\ \A lb \in Logical : /\ block_mapping[lb] # signature_ba /\ block_mapping[lb] \notin Tabled
                             /\ block_mapping[lb] \notin MgmtStart..mapping_blocks_top_ba
      /\ signature_ba \in Signed /\ \A s \in Signed : s = signature_ba
  BY <1>0, Integral DEF SoundInv, AreaInv, TableInv, StaleInv, WhereInv, FlashInv, PlaceInv
<1>9. \A x \in Copies' : x \in Int /\ x < mapping_blocks_top_ba /\ x \in Blocks
  <2>1. mapping_blocks_ba <= mapping_blocks_top_ba
    BY <1>0 DEF SoundInv, AreaInv
  <2> QED
    BY <1>1, <1>2, <1>4, <2>1, KeptOne, Integral, TabTypes
<1>10. \A x, y \in Copies' : x = y \/ (x = k /\ y \in Kept) \/ (x \in Kept /\ y = k)
  BY <1>0, <1>2, <1>4
<1>11. PlaceInv'
  <2>1. \A x \in Tabled' : MgmtStart <= x /\ Signed' # {}
    BY <1>1, <1>4, <1>8 DEF FlashInv, PlaceInv
  <2>2. \A x \in Tabled', s \in Signed' : x + 2 <= s
    BY <1>1, <1>4, <1>8 DEF FlashInv, PlaceInv
  <2>3. \A x, y, z \in Copies' : ~(x < y /\ y < z)
    BY <1>9, <1>10
  <2> QED
    BY <1>4, <2>1, <2>2, <2>3 DEF FlashInv, PlaceInv
<1>12. CopyInv'
  <2>1. \A x \in Copies', s \in Signed', lb \in Logical : Tab(x)'.map[lb] # s
    BY <1>4, <1>5, <1>6, <1>7, <1>8 DEF FlashInv, CopyInv
  <2>2. \A x, y \in Copies' : y \notin Tab(x)'.bad
    <3>1. k \notin c.bad /\ \A x \in Copies : x \notin c.bad
      BY <1>1, <1>7
    <3>2. \A x \in Copies : k \notin Tab(x).bad
      BY <1>1, <1>7 DEF Unusable
    <3> QED
      BY <1>4, <1>5, <1>6, <3>1, <3>2 DEF FlashInv, CopyInv
  <2>3. \A x \in Copies', lb \in Logical : Tab(x)'.map[lb] \notin MgmtStart..(x + 1)
    <3>1. \A lb \in Logical : c.map[lb] \notin MgmtStart..(k + 1)
      BY <1>1, <1>7, <1>8, Integral
    <3> QED
      BY <1>4, <1>5, <1>6, <3>1 DEF FlashInv, CopyInv
  <2> QED
    BY <2>1, <2>2, <2>3 DEF CopyInv
<1>13. \A lb \in Logical, y \in Copies' : c.map[lb] \notin MgmtStart..(y + 1)
  BY <1>7, <1>8, <1>9, Integral
<1>14. ASSUME NEW p \in Kept, k < p PROVE Tab(p).map = c.map
  <2>1. p \in Copies /\ p \in Int
    BY <1>2, <1>14, TabTypes, BlockTypes
  <2>2. CASE Cont \in KeepsCache \cup KeepsMap
    BY <1>0, <1>7, <1>14, <2>2 DEF TableInv, CacheInv
  <2>3. CASE Cont = "once_backup"
    <3>1. p = main_table_ba
      BY <1>14, <2>3 DEF Kept, KeepsMain
    <3>2. main_table_ba < k
      <4>1. w.start = backup_table_ba /\ w.start <= k
        BY <2>3 DEF PathInv, SpanInv, OrderInv
      <4> QED
        BY <1>0, <1>1, <2>3, <4>1, Integral DEF PathInv, OrderInv, SoundInv, TablesInv
    <3> QED
      BY <1>1, <1>14, <2>1, <3>1, <3>2
  <2>4. CASE Cont = "rebuild_main"
    BY <1>14, <2>4 DEF Kept
  <2> QED
    BY <1>0, <2>2, <2>3, <2>4 DEF WriteConts, KeepsCache, KeepsMap
<1>15. AgeInv'
  <2>1. ASSUME NEW x \in Copies', NEW y \in Copies', AsNew(x, y)'
        PROVE  /\ \A lb \in Logical : Tab(x)'.map[lb] \notin MgmtStart..(y + 1)
               /\ \A b \in Tab(y)'.bad : b >= MgmtStart => b \in Tab(x)'.bad \cup marked'
               /\ AsNew(y, x)' => Tab(x)' = Tab(y)'
               /\ x < y => Tab(x)'.map = Tab(y)'.map
    <3>1. CASE x \in Copies /\ y \in Copies
      <4>1. AsNew(x, y) /\ (AsNew(y, x)' => AsNew(y, x))
        BY <1>6, <2>1, <3>1 DEF AsNew
      <4> QED
        BY <1>6, <3>1, <4>1 DEF FlashInv, AgeInv
    <3>2. CASE x = k
      <4>1. Tab(x)' = c
        BY <1>5, <3>2
      <4>2. CASE y = k
        BY <1>1, <1>13, <2>1, <3>2, <4>1, <4>2
      <4>3. CASE y \in Copies
        <5>1. Tab(y)' = Tab(y)
          BY <1>6, <4>3
        <5>2. AsNew(y, x)' => Tab(y) = c
          BY <1>7, <4>1, <4>3, <5>1 DEF AsNew
        <5>3. x < y => Tab(y).map = c.map
          BY <1>2, <1>14, <3>2, <4>3
        <5>4. \A b \in Tab(y).bad : b >= MgmtStart => b \in c.bad \cup marked
          BY <1>7, <4>3 DEF Unusable
        <5> QED
          BY <1>13, <2>1, <4>1, <5>1, <5>2, <5>3, <5>4
      <4> QED
        BY <1>4, <4>2, <4>3
    <3>3. CASE x \in Copies /\ y = k
      <4>1. Tab(y)' = c /\ Tab(x)' = Tab(x)
        BY <1>5, <1>6, <3>3
      <4>2. Tab(x) = c
        BY <1>7, <2>1, <3>3, <4>1 DEF AsNew
      <4> QED
        BY <1>13, <2>1, <4>1, <4>2
    <3> QED
      BY <1>4, <2>1, <3>1, <3>2, <3>3
  <2> QED
    BY <2>1 DEF AgeInv
<1>16. NewInv'
  <2>1. ASSUME NEW n \in Copies', IsNewest(n)' PROVE Tab(n)' = c
    <3>1. CASE n = k
      BY <1>5, <3>1
    <3>2. CASE n \in Copies
      <4>1. AsNew(n, k)'
        BY <1>4, <2>1 DEF IsNewest
      <4>2. Tab(n).wc >= c.wc
        BY <1>5, <1>6, <3>2, <4>1 DEF AsNew
      <4> QED
        BY <1>6, <1>7, <3>2, <4>2
    <3> QED
      BY <1>4, <2>1, <3>1, <3>2
  <2>2. \A lb \in Logical : c.map[lb] \notin Stale
    BY <1>7, <1>8, TabTypes
  <2>3. ASSUME NEW p \in Kept
        PROVE  /\ p < k => MgmtStart..(p - 1) \subseteq marked \cup c.bad
               /\ k < p => MgmtStart..(k - 1) \subseteq marked \cup c.bad
               /\ \A r \in Stale : \/ p < k /\ r < k
                                   \/ k < p /\ r < p
                                   \/ r \in c.bad
    <3>1. p \in Int /\ p # k /\ p \in Copies
      BY <1>1, <1>2, <2>3, TabTypes, BlockTypes
    <3>2. /\ w.start <= k /\ k < w.limit /\ w.start..(k - 1) \subseteq bad
      BY DEF PathInv, OrderInv, TriedInv, SoundInv, RangeInv
    <3>3. Unusable \subseteq marked \cup c.bad /\ bad \subseteq marked \cup c.bad
      BY <1>7 DEF Unusable
    <3>4. ~Alone => \A r \in Stale : r < Ceiling \/ r \in c.bad
      BY <1>0 DEF TableInv, CeilingInv
    <3>5. \A r \in Stale : r \in Int
      BY TabTypes, BlockTypes
    <3> USE Integral, <1>1
    <3>6. CASE Cont \in {"once_backup", "rebuild_backup", "rescue_back", "older_backup"}
      <4>1. p = main_table_ba /\ p < k /\ (\A r \in Int : r < Ceiling => r < k) /\ ~Alone
        <5>1. p = main_table_ba
          BY <2>3, <3>6 DEF Kept, KeepsMain
        <5>2. Ceiling = k \/ Ceiling = p \/ Ceiling = 0
          BY <3>6, <5>1 DEF Ceiling
        <5>3. p < k
          <6>1. main_table_ba < w.start
            <7>1. /\ main_table_ba < mapping_blocks_ba
                  /\ backup_table_ba = 0 \/ main_table_ba < backup_table_ba
              BY <1>0 DEF PathInv, OrderInv
            <7>2. Cont \in {"once_backup", "older_backup"} =>
                     w.start = backup_table_ba /\ backup_table_ba # 0
              BY DEF PathInv, SpanInv, SoundInv, TablesInv
            <7>3. Cont \in {"rebuild_backup", "rescue_back"} =>
                     w.start > main_table_ba \/ w.start >= mapping_blocks_ba
              BY DEF PathInv, SpanInv
            <7> QED
              BY <3>6, <7>1, <7>2, <7>3
          <6> QED
            BY <3>1, <3>2, <5>1, <6>1
        <5>4. ~Alone
          BY <3>6 DEF Alone
        <5> QED
          BY <3>1, <5>1, <5>2, <5>3, <5>4
      <4>2. MgmtStart..(p - 1) \subseteq Unusable
        BY <1>0, <3>6, <4>1 DEF PathInv, LowInv
      <4> QED
        BY <3>1, <3>3, <3>4, <3>5, <4>1, <4>2
    <3>7. CASE Cont \in {"once_main", "older_main"}
      <4>1. p = backup_table_ba /\ backup_table_ba # 0 /\ Ceiling = p /\ ~Alone
        BY <2>3, <3>7 DEF Kept, KeepsMain, KeepsBackup, Ceiling, Alone
      <4>2. k < p /\ w.start = main_table_ba
        BY <3>2, <3>7, <4>1 DEF PathInv, SpanInv
      <4>3. MgmtStart..(main_table_ba - 1) \subseteq Unusable
        BY <1>0, <3>7 DEF PathInv, LowInv
      <4>4. MgmtStart..(k - 1) \subseteq marked \cup c.bad
        <5>1. ASSUME NEW x \in MgmtStart..(k - 1) PROVE x \in marked \cup c.bad
          <6>1. x \in MgmtStart..(main_table_ba - 1) \/ x \in w.start..(k - 1)
            BY <4>2
          <6> QED
            BY <3>2, <3>3, <4>3, <6>1
        <5> QED
          BY <5>1
      <4> QED
        BY <3>1, <3>4, <3>5, <4>1, <4>2, <4>4
    <3>8. CASE Cont = "rescue_tmp"
      <4>1. p = backup_table_ba /\ Ceiling = p /\ ~Alone
        BY <2>3, <3>8 DEF Kept, KeepsMain, KeepsBackup, Ceiling, Alone
      <4>2. p < k
        BY <3>1, <3>2, <3>8, KeptOne DEF PathInv, SpanInv
      <4>3. MgmtStart..(p - 1) \subseteq Unusable
        BY <3>8, <4>1 DEF PathInv, LowInv
      <4> QED
        BY <3>1, <3>3, <3>4, <3>5, <4>1, <4>2, <4>3
    <3>9. CASE Cont \in {"rescue_main", "rescue_front"}
      <4>1. p = w.limit /\ w.start = MgmtStart /\ Ceiling = p /\ ~Alone
        BY <2>3, <3>9 DEF Kept, KeepsMain, Ceiling, Alone, PathInv, SpanInv
      <4> QED
        BY <3>1, <3>2, <3>3, <3>4, <3>5, <4>1
    <3>10. CASE Cont = "rebuild_main"
      BY <2>3, <3>10 DEF Kept
    <3> QED
      BY <1>0, <3>6, <3>7, <3>8, <3>9, <3>10 DEF WriteConts
  <2>4. ASSUME NEW x \in Copies', NEW y \in Copies', x < y
        PROVE  /\ MgmtStart..(x - 1) \subseteq marked \cup c.bad
               /\ \A r \in Stale : r < y \/ r \in c.bad
    BY <1>9, <1>10, <2>3, <2>4
  <2> QED
    BY <1>4, <2>1, <2>2, <2>4 DEF NewInv
<1>18. w.ba \notin Unusable
  BY DEF PathInv, TriedInv
<1> QED
  BY <1>2, <1>4, <1>5, <1>6, <1>11, <1>12, <1>15, <1>16, <1>17, <1>18 DEF FlashInv, Tab

\* nmbm_write_mgmt_range keeps what the tables promise.
LEMMA RemoveStep ==
    ASSUME TypeInv, SoundInv, FlashInv, PathInv, TableInv, pc = "w_erase",
           NEW b \in Usable, IsFirst(b, Usable), Removes(b),
           UNCHANGED <<maps, tabs, tops, cache, protected, caller, at>>,
           bad \subseteq bad', bad' \subseteq Unusable', bad' \cap Copies' = {},
           b \in marked' => b \in bad', bad' \subseteq bad \cup marked',
           w' = [w EXCEPT !.ba = IF pc' = "w_program" THEN b ELSE b + 1],
           \/ pc' = "w_program" /\ UNCHANGED marked
           \/ pc' = "w_erase" /\ b \in marked'
    PROVE  FlashInv' /\ TableInv'
<1>1. /\ b \in Blocks /\ b \in Int /\ w.ba <= b /\ b < w.limit /\ b \notin bad /\ b \notin marked
      /\ b \notin Kept
  BY PassedOver, BlockTypes, RangeAside DEF Unusable
<1>2. /\ FlashInv' /\ Copies' \subseteq Copies /\ Copies' \subseteq Kept
      /\ b \in Copies => b \in Old
  BY <1>1, FlashRemove
<1>3. /\ Tabled' \subseteq Tabled /\ Signed' = Signed /\ marked' \cap Signed = {}
      /\ \A x \in Blocks : x # b => Tab(x)' = Tab(x)
      /\ b \notin Copies' /\ Copies' = Copies \ {b} /\ Stale' \subseteq Stale \cup {b}
      /\ b \notin marked' => Stale' \subseteq Stale
      /\ b \notin Tabled => b \notin Tabled'
  BY <1>1, RemovesOne
<1>4. \A x \in Copies' : Tab(x)' = Tab(x)
  BY <1>2, <1>3, TabTypes
<1>5. /\ w'.start = w.start /\ w'.limit = w.limit /\ w'.cont = w.cont /\ w' \in Range
      /\ w'.ba \in Int /\ w.ba <= w'.ba /\ (pc' = "w_erase" => w'.ba = b + 1)
  BY <1>1, Integral, PathTypes DEF Range
<1>6. /\ Cont = w.cont /\ Cont' = Cont /\ Cont \in WriteConts /\ Working /\ Working'
      /\ pc \notin WriteConts /\ pc' \notin WriteConts /\ Kept' = Kept /\ Alone' = Alone
  <2>1. Cont = w.cont /\ Cont' = Cont /\ Cont \in WriteConts /\ Working
    BY <1>5, KeptOne DEF Cont
  <2> QED
    BY <1>5, <2>1, PathTypes DEF Working, WriteConts, Kept, Alone, tabs
<1>7. WhereInv'
  <2>1. Cont' \notin {"sig_erase", "sig_program"}
    BY <1>6 DEF WriteConts
  <2>2. Kept \subseteq Copies' /\ signature_ba' \in Signed'
    BY <1>1, <1>3, <1>6 DEF TableInv, WhereInv, tops
  <2> QED
    BY <1>2, <1>6, <2>1, <2>2 DEF WhereInv
<1>8. CacheInv'
  <2>1. /\ info_table_cache.wc = write_count
        /\ \A x \in Copies : /\ Tab(x).wc <= write_count
                             /\ Tab(x).wc = write_count => Tab(x) = info_table_cache
                             /\ \A y \in Tab(x).bad : y >= MgmtStart => y \in Unusable
        /\ info_table_cache.map = block_mapping
        /\ info_table_cache.bad \subseteq bad
        /\ bad \subseteq info_table_cache.bad \cup marked
        /\ Cont \in KeepsCache => \A x \in Kept : Tab(x) = info_table_cache
        /\ Cont \in KeepsMap => \A x \in Kept : Tab(x).map = block_mapping
    BY <1>6 DEF TableInv, CacheInv
  <2>2. Unusable \subseteq Unusable' /\ marked \subseteq marked'
    BY DEF Unusable, Removes
  <2>3. Kept \subseteq Copies'
    BY <1>1, <1>3, <1>6 DEF TableInv, WhereInv
  <2>4. \A x \in Copies' : x \notin bad'
    OBVIOUS
  <2>5. info_table_cache' = info_table_cache /\ write_count' = write_count
          /\ block_mapping' = block_mapping
    BY DEF cache, maps
  <2> QED
    BY <1>2, <1>4, <1>6, <2>1, <2>2, <2>3, <2>4, <2>5 DEF CacheInv
<1>9. StaleInv'
  <2>1. ASSUME NEW r \in Stale' 
        PROVE  r < main_table_ba \/ r < backup_table_ba \/ r \in bad' \/ Shielded(r)'
    <3>1. CASE r \in Stale
      <4>1. r < main_table_ba \/ r < backup_table_ba \/ r \in bad \/ Shielded(r)
        BY <1>6, <3>1 DEF TableInv, StaleInv
      <4>2. ASSUME NEW z \in bad, Shields(z, r) PROVE Shields(z, r)'
        BY <1>6, <4>2 DEF Shields, maps, tabs, tops
      <4>3. Shielded(r) => Shielded(r)'
        BY <4>2 DEF Shielded, tabs
      <4> QED
        BY <4>1, <4>3
    <3>2. CASE r = b
      BY <1>3, <3>1, <3>2 DEF Stale
    <3> QED
      BY <1>3, <2>1, <3>1, <3>2
  <2>2. \A lb \in Logical : block_mapping'[lb] \notin Tabled'
    BY <1>3, <1>6 DEF TableInv, StaleInv, maps
  <2>3. \A x \in Copies', lb \in Logical : Tab(x)'.map[lb] \notin Tabled'
    BY <1>2, <1>3, <1>4, KeptOne
  <2> QED
    BY <2>1, <2>2, <2>3 DEF StaleInv, tabs
<1>10. CeilingInv'
  <2>1. ASSUME ~Alone, NEW r \in Stale' PROVE r < Ceiling' \/ r \in info_table_cache'.bad
    <3>1. CASE r \in Stale
      <4>1. r < Ceiling \/ r \in info_table_cache.bad
        BY <1>6, <2>1, <3>1 DEF TableInv, CeilingInv
      <4>2. r < Ceiling => r < Ceiling'
        <5>1. r \in Int
          BY <3>1, TabTypes, BlockTypes
        <5> QED
          BY <1>5, <1>6, <5>1, Integral DEF Ceiling, tabs
      <4> QED
        BY <4>1, <4>2 DEF cache
    <3>2. CASE r = b /\ b \notin Stale
      <4>1. b \in marked' /\ b \in Tabled /\ b \in Copies
        BY <1>1, <1>3, <2>1, <3>2, TabTypes DEF Stale
      <4>2. b \in Old /\ pc' = "w_erase"
        BY <1>1, <1>2, <4>1
      <4>3. w'.ba = b + 1
        BY <1>5, <4>2
      <4>4. CASE Cont \in {"once_backup", "older_backup"}
        BY <1>1, <1>6, <3>2, <4>3, <4>4 DEF Ceiling
      <4>5. CASE Cont \in {"once_main", "older_main"}
        <5>1. b = main_table_ba /\ Ceiling' = backup_table_ba
          BY <1>6, <4>2, <4>5 DEF Old, Ceiling, tabs
        <5>2. backup_table_ba # 0
          BY <2>1, <4>5 DEF Alone, SoundInv, TablesInv
        <5> QED
          BY <1>6, <3>2, <5>1, <5>2 DEF PathInv, OrderInv
      <4>6. CASE Cont = "rescue_main"
        BY <1>1, <1>5, <1>6, <3>2, <4>6 DEF Ceiling
      <4> QED
        BY <4>2, <4>4, <4>5, <4>6 DEF Old
    <3> QED
      BY <1>3, <2>1, <3>1, <3>2
  <2>2. Cont' # "rescue_adopt"
    BY <1>6 DEF WriteConts
  <2> QED
    BY <1>6, <2>1, <2>2 DEF CeilingInv
<1> QED
  BY <1>2, <1>7, <1>8, <1>9, <1>10 DEF TableInv

\* Writing a table: an older copy goes, the new one says what the driver knows.
LEMMA TableWrite ==
    TypeInv /\ SoundInv /\ FlashInv /\ PathInv /\ TableInv /\ WriteStep => FlashInv' /\ TableInv'
<1> SUFFICES ASSUME TypeInv, SoundInv, FlashInv, PathInv, TableInv, WriteStep
             PROVE  FlashInv' /\ TableInv'
  OBVIOUS
<1>0. pc \in {"w_erase", "w_program"}
  BY DEF WriteStep, WriteErase, WriteProgram, WriteProgramFails, WriteNoRoom
<1>1. CASE WriteErase
  <2>1. PICK b \in Usable : /\ IsFirst(b, Usable) /\ SetBad(FoundMarked(b))
                            /\ content' = [content EXCEPT ![b] = Holds("erased")]
                            /\ w' = [w EXCEPT !.ba = b] /\ pc' = "w_program"
    BY <1>1 DEF WriteErase
  <2>2. pc = "w_erase" /\ UNCHANGED <<marked, maps, tabs, tops, cache, protected, caller, at>>
    BY <1>1 DEF WriteErase
  <2>3. Removes(b)
    <3>1. b \in Blocks
      BY DEF Usable
    <3>2. content'[b] = Holds("erased")
      BY <2>1, <3>1, PathTypes
    <3> QED
      BY <2>1, <2>2, <3>2, PathTypes DEF Removes, Holds
  <2>4. /\ bad \subseteq bad' /\ bad' \subseteq bad \cup marked'
        /\ bad' \subseteq Unusable' /\ bad' \cap Copies' = {}
    <3>1. b \in Blocks /\ w.ba <= b /\ b < w.limit
      BY <2>1, PassedOver
    <3>2. Copies' \subseteq Copies
      BY <1>0, <2>1, <2>2, <2>3, <3>1, FlashRemove
    <3>3. Copies \cap bad = {} /\ Copies \cap marked = {}
      BY <1>0, KeptOne, TabTypes DEF TableInv, CacheInv
    <3> QED
      BY <2>1, <2>2, <3>2, <3>3 DEF SetBad, FoundMarked, Unusable
  <2>5. b \notin marked'
    BY <2>2 DEF Usable
  <2> QED
    BY <2>1, <2>2, <2>3, <2>4, <2>5, RemoveStep
<1>2. CASE WriteProgram
  <2>1. /\ pc = "w_program" /\ pc' = w.cont /\ at' = w.ba /\ w' = w
        /\ content' = [content EXCEPT ![w.ba] = TableOf(info_table_cache)]
        /\ UNCHANGED <<marked, state, maps, tabs, tops, cache, protected, caller, w>>
    BY <1>2 DEF WriteProgram
  <2>2. /\ FlashInv' /\ Copies = Kept /\ Copies' = Kept \cup {w.ba} /\ Stale' = Stale
        /\ Tabled' = Tabled \cup {w.ba} /\ Signed' = Signed
        /\ \A x \in Copies : Tab(x)' = Tab(x) /\ x # w.ba
        /\ content'[w.ba].t = info_table_cache /\ w.ba \notin Unusable
    BY <2>1, FlashProgram
  <2>3. /\ Cont = w.cont /\ Cont' = Cont /\ Cont \in WriteConts /\ Working /\ Working'
        /\ pc' = Cont
    BY <1>0, <2>1, KeptOne DEF Cont, Working, WriteConts
  <2>4. Kept' = Kept /\ Extra' = {w.ba} /\ Alone' = Alone /\ Ceiling' = Ceiling
    <3>1. w.ba # NoBlock
      BY <2>1, Integral, BlockTypes DEF TypeInv, ControlInv
    <3> QED
      BY <2>1, <2>3, <3>1 DEF Kept, Extra, Alone, Ceiling, tabs, WriteConts
  <2>5. PICK k \in Blocks : k = w.ba
    BY <2>1 DEF TypeInv, ControlInv
  <2>6. Tab(k)' = info_table_cache
    BY <2>2, <2>5 DEF Tab
  <2>7. WhereInv'
    BY <2>1, <2>2, <2>3, <2>4 DEF TableInv, WhereInv, tops, WriteConts
  <2>8. CacheInv'
    <3>1. /\ info_table_cache.wc = write_count
          /\ \A x \in Copies : /\ Tab(x).wc <= write_count
                               /\ Tab(x).wc = write_count => Tab(x) = info_table_cache
                               /\ \A y \in Tab(x).bad : y >= MgmtStart => y \in Unusable
                               /\ x \notin bad
          /\ info_table_cache.map = block_mapping
          /\ info_table_cache.bad \subseteq bad
          /\ bad \subseteq info_table_cache.bad \cup marked
          /\ Cont \in KeepsCache => \A x \in Kept : Tab(x) = info_table_cache
          /\ Cont \in KeepsMap => \A x \in Kept : Tab(x).map = block_mapping
      BY <2>3 DEF TableInv, CacheInv
    <3>2. /\ UNCHANGED <<info_table_cache, write_count, block_mapping, bad, marked>>
          /\ Unusable' = Unusable /\ write_count <= write_count
      BY <2>1, PathTypes DEF cache, maps, state, Unusable, TypeInv, TableTypes
    <3>3. ASSUME NEW x \in Copies'
          PROVE  /\ Tab(x)'.wc <= write_count
                 /\ Tab(x)'.wc = write_count => Tab(x)' = info_table_cache
                 /\ \A y \in Tab(x)'.bad : y >= MgmtStart => y \in Unusable
                 /\ x \notin bad
      <4>1. CASE x = k
        BY <2>2, <2>5, <2>6, <3>1, <3>2, <4>1 DEF Unusable
      <4>2. CASE x \in Copies
        BY <2>2, <3>1, <4>2
      <4> QED
        BY <2>2, <2>5, <4>1, <4>2
    <3>4. pc' \in WriteConts /\ at' # NoBlock => Tab(at)' = info_table_cache
      BY <2>1, <2>2 DEF Tab
    <3>5. \A x \in Kept : Tab(x)' = Tab(x)
      BY <2>2
    <3> QED
      BY <2>3, <2>4, <3>1, <3>2, <3>3, <3>4, <3>5 DEF CacheInv
  <2>9. StaleInv'
    <3>1. ASSUME NEW r \in Stale 
          PROVE  r < main_table_ba \/ r < backup_table_ba \/ r \in bad' \/ Shielded(r)'
      <4>1. r < main_table_ba \/ r < backup_table_ba \/ r \in bad \/ Shielded(r)
        BY <2>3 DEF TableInv, StaleInv
      <4>2. ASSUME NEW z \in bad, Shields(z, r) PROVE Shields(z, r)'
        BY <2>1, <2>3, <4>2 DEF Shields, maps, tabs, tops
      <4>3. Shielded(r) => Shielded(r)'
        BY <2>1, <4>2 DEF Shielded, tabs, state
      <4> QED
        BY <2>1, <4>1, <4>3 DEF state
    <3>2. \A lb \in Logical : block_mapping[lb] # w.ba /\ block_mapping[lb] \notin Tabled
      <4>1. MgmtStart <= w.ba /\ w.ba < mapping_blocks_top_ba
        BY <2>1, Integral DEF SoundInv, RangeInv
      <4> QED
        BY <2>3, <4>1, Integral DEF SoundInv, AreaInv, TableInv, StaleInv
    <3>3. ~(Cont' \in Calm \/ (Cont' = "once_backup" /\ pc' # "once_backup"))
      BY <2>3 DEF WriteConts, Calm
    <3> QED
      BY <2>1, <2>2, <3>1, <3>2, <3>3 DEF StaleInv, tabs, maps
  <2>10. CeilingInv'
    BY <2>1, <2>2, <2>3, <2>4 DEF TableInv, CeilingInv, cache, WriteConts
  <2> QED
    BY <2>2, <2>7, <2>8, <2>9, <2>10 DEF TableInv
<1>3. CASE WriteProgramFails
  <2>1. /\ pc = "w_program" /\ content' = Ruin(w.ba) /\ MarkBad(w.ba, {}) /\ pc' = "w_erase"
        /\ w' = [w EXCEPT !.ba = @ + 1]
        /\ UNCHANGED <<maps, tabs, tops, cache, protected, caller, at>>
    BY <1>3 DEF WriteProgramFails
  <2>2. /\ w.ba \in Blocks /\ w.ba \in Int /\ w.ba < w.limit /\ w.ba <= w.ba /\ w.ba \notin Unusable
    BY <2>1, Integral DEF TypeInv, ControlInv, SoundInv, RangeInv, PathInv, TriedInv
  <2>3. Copies = Kept /\ w.ba \notin Copies /\ w.ba \notin Signed /\ w.ba \notin Tabled
    <3>1. Extra = {}
      BY <2>1 DEF Extra, WriteConts
    <3>2. Copies = Kept
      BY <1>0, <3>1, KeptOne DEF TableInv, WhereInv
    <3>3. w.ba \notin Kept /\ w.ba \notin Signed
      BY <1>0, <2>2, RangeAside
    <3> QED
      BY <2>2, <3>2, <3>3 DEF Copies, Unusable
  <2>4. Aside
    BY <2>1, <2>3, PathTypes DEF Aside, Ruin, Holds, MarkBad
  <2>5. /\ Copies' = Copies /\ Stale' = Stale /\ Tabled' = Tabled /\ Signed' = Signed
        /\ marked \subseteq marked' /\ \A x \in Tabled : Tab(x)' = Tab(x)
        /\ \A x \in Copies : Tab(x)' = Tab(x)
    BY <2>4, AsideFlash, TabTypes
  <2>6. FlashInv'
    <3>1. marked' \cap Signed = {}
      BY <2>4 DEF Aside, FlashInv, PlaceInv
    <3> QED
      BY <2>5, <3>1, FlashAside
  <2>7. /\ Cont = w.cont /\ Cont' = Cont /\ Cont \in WriteConts /\ Working /\ Working'
        /\ pc \notin WriteConts /\ pc' \notin WriteConts /\ w'.limit = w.limit /\ w'.ba = w.ba + 1
        /\ w'.start = w.start /\ w'.cont = w.cont
    <3>1. w'.limit = w.limit /\ w'.ba = w.ba + 1 /\ w'.start = w.start /\ w'.cont = w.cont
      BY <2>1, PathTypes DEF Range
    <3> QED
      BY <1>0, <2>1, <3>1, KeptOne DEF Cont, Working, WriteConts
  <2>8. Kept' = Kept /\ Alone' = Alone /\ bad' = bad \cup {w.ba} /\ marked' = marked \cup {w.ba}
    BY <2>1, <2>7 DEF Kept, Alone, tabs, MarkBad, SetBad
  <2>9. WhereInv'
    BY <2>1, <2>3, <2>5, <2>7, <2>8 DEF TableInv, WhereInv, tops, WriteConts
  <2>10. CacheInv'
    <3>1. \A x \in Copies : /\ x \notin bad'
                            /\ \A y \in Tab(x).bad : y >= MgmtStart => y \in Unusable'
      BY <2>3, <2>7, <2>8 DEF TableInv, CacheInv, Unusable
    <3>2. UNCHANGED <<info_table_cache, write_count, block_mapping>>
      BY <2>1 DEF cache, maps
    <3> QED
      BY <2>3, <2>5, <2>7, <2>8, <3>1, <3>2 DEF TableInv, CacheInv
  <2>11. StaleInv'
    <3>1. ASSUME NEW r \in Stale 
          PROVE  r < main_table_ba \/ r < backup_table_ba \/ r \in bad' \/ Shielded(r)'
      <4>1. r < main_table_ba \/ r < backup_table_ba \/ r \in bad \/ Shielded(r)
        BY <2>7 DEF TableInv, StaleInv
      <4>2. ASSUME NEW z \in bad, Shields(z, r) PROVE Shields(z, r)'
        BY <2>1, <2>7, <4>2 DEF Shields, maps, tabs, tops
      <4>3. Shielded(r) => Shielded(r)'
        BY <2>1, <2>8, <4>2 DEF Shielded, tabs
      <4> QED
        BY <2>8, <4>1, <4>3
    <3>2. \A lb \in Logical : block_mapping[lb] \notin Tabled
      BY <2>7 DEF TableInv, StaleInv
    <3>3. \A x \in Copies, lb \in Logical : Tab(x).map[lb] \notin Tabled
      BY <1>0, <2>3, KeptOne
    <3> QED
      BY <2>1, <2>5, <3>1, <3>2, <3>3 DEF StaleInv, tabs, maps
  <2>12. CeilingInv'
    <3>1. ASSUME ~Alone, NEW r \in Stale PROVE r < Ceiling' \/ r \in info_table_cache.bad
      <4>1. r < Ceiling \/ r \in info_table_cache.bad
        BY <2>7, <3>1 DEF TableInv, CeilingInv
      <4>2. r \in Int
        BY TabTypes, BlockTypes
      <4>3. r < Ceiling => r < Ceiling'
        BY <2>1, <2>2, <2>7, <4>2, Integral DEF Ceiling, tabs
      <4> QED
        BY <4>1, <4>3
    <3> QED
      BY <2>1, <2>5, <2>7, <2>8, <3>1 DEF CeilingInv, cache, WriteConts
  <2> QED
    BY <2>6, <2>9, <2>10, <2>11, <2>12 DEF TableInv
<1>4. CASE WriteNoRoom
  <2>1. /\ pc = "w_erase" /\ Usable = {} /\ SetBad(FoundMarked(w.limit)) /\ at' = NoBlock
        /\ pc' = w.cont
        /\ UNCHANGED <<flash, maps, tabs, tops, cache, protected, caller, w>>
    BY <1>4 DEF WriteNoRoom
  <2>2. /\ Copies' = Copies /\ Stale' = Stale /\ Tabled' = Tabled /\ Signed' = Signed
        /\ marked' = marked /\ \A x : Tab(x)' = Tab(x)
    BY <2>1, SameFlash
  <2>3. Copies = Kept
    <3>1. Copies \subseteq Kept
      BY <2>1, OldFirst
    <3> QED
      BY <1>0, <3>1, KeptOne DEF TableInv, WhereInv
  <2>4. FlashInv'
    <3>1. marked' \cap Signed = {}
      BY <2>2 DEF FlashInv, PlaceInv
    <3> QED
      BY <2>2, <3>1, FlashAside
  <2>5. /\ Cont = w.cont /\ Cont' = Cont /\ Cont \in WriteConts /\ Working /\ Working'
        /\ pc \notin WriteConts /\ pc' = Cont /\ bad \subseteq bad'
             /\ bad' \subseteq bad \cup marked
    BY <1>0, <2>1, KeptOne DEF Cont, Working, WriteConts, SetBad, FoundMarked
  <2>6. Kept' = Kept /\ Alone' = Alone /\ Ceiling' = Ceiling /\ Extra' = {}
    BY <2>1, <2>5 DEF Kept, Alone, Ceiling, Extra, tabs, WriteConts
  <2>7. WhereInv'
    BY <2>1, <2>2, <2>3, <2>5, <2>6 DEF TableInv, WhereInv, tops, WriteConts
  <2>8. CacheInv'
    <3>1. \A x \in Copies : /\ x \notin bad'
                            /\ \A y \in Tab(x).bad : y >= MgmtStart => y \in Unusable'
      BY <2>2, <2>5, TabTypes DEF TableInv, CacheInv, Unusable
    <3>2. UNCHANGED <<info_table_cache, write_count, block_mapping>>
      BY <2>1 DEF cache, maps
    <3> QED
      BY <2>1, <2>2, <2>3, <2>5, <2>6, <3>1, <3>2 DEF TableInv, CacheInv
  <2>9. StaleInv'
    <3>1. ASSUME NEW r \in Stale 
          PROVE  r < main_table_ba \/ r < backup_table_ba \/ r \in bad' \/ Shielded(r)'
      <4>1. r < main_table_ba \/ r < backup_table_ba \/ r \in bad \/ Shielded(r)
        BY <2>5 DEF TableInv, StaleInv
      <4>2. ASSUME NEW z \in bad, Shields(z, r) PROVE Shields(z, r)'
        BY <2>1, <2>5, <4>2 DEF Shields, maps, tabs, tops
      <4>3. Shielded(r) => Shielded(r)'
        BY <2>1, <2>5, <4>2 DEF Shielded, tabs
      <4> QED
        BY <2>5, <4>1, <4>3
    <3>2. \A lb \in Logical : block_mapping[lb] \notin Tabled
      BY <2>5 DEF TableInv, StaleInv
    <3>3. \A x \in Copies, lb \in Logical : Tab(x).map[lb] \notin Tabled
      BY <1>0, <2>3, KeptOne
    <3> QED
      BY <2>1, <2>2, <3>1, <3>2, <3>3 DEF StaleInv, tabs, maps
  <2>10. CeilingInv'
    BY <2>1, <2>2, <2>5, <2>6 DEF TableInv, CeilingInv, cache, WriteConts
  <2> QED
    BY <2>4, <2>7, <2>8, <2>9, <2>10 DEF TableInv
<1> QED
  BY <1>1, <1>2, <1>3, <1>4 DEF WriteStep

\* A failed erase marks the block, whether or not its table is still readable.
LEMMA TableEraseFails ==
    TypeInv /\ SoundInv /\ FlashInv /\ PathInv /\ TableInv /\ EraseStep /\ pc = "w_erase"
    => FlashInv' /\ TableInv'
<1> SUFFICES ASSUME TypeInv, SoundInv, FlashInv, PathInv, TableInv, EraseFails, pc = "w_erase"
             PROVE  FlashInv' /\ TableInv'
  BY DEF EraseStep, EraseNext, EraseDone
<1>1. PICK b \in Usable : /\ IsFirst(b, Usable) /\ FailErase(b) /\ MarkBad(b, FoundMarked(b))
                          /\ w' = [w EXCEPT !.ba = b + 1]
  BY DEF EraseFails
<1>2. UNCHANGED <<maps, tabs, tops, cache, protected, pc, caller, at>>
  BY DEF EraseFails
<1>3. Removes(b)
  BY <1>1, PathTypes DEF Removes, FailErase, Ruin, Holds, MarkBad
<1>4. b \in marked' /\ b \in bad'
  BY <1>1 DEF MarkBad, SetBad
<1>5. /\ bad \subseteq bad' /\ bad' \subseteq bad \cup marked'
      /\ bad' \subseteq Unusable' /\ bad' \cap Copies' = {}
  <2>1. b \in Blocks /\ w.ba <= b /\ b < w.limit
    BY <1>1, PassedOver
  <2>2. Copies' \subseteq Copies /\ b \notin Copies'
    BY <1>1, <1>3, <1>4, <2>1, FlashRemove DEF Copies
  <2>3. Copies \cap bad = {} /\ Copies \cap marked = {}
    BY KeptOne, TabTypes DEF TableInv, CacheInv
  <2> QED
    BY <1>1, <2>2, <2>3 DEF MarkBad, SetBad, FoundMarked, Unusable
<1> QED
  BY <1>1, <1>2, <1>3, <1>4, <1>5, RemoveStep

----------------------------------------------------------------------------
(* A power cut.                                                              *)

\* While the signature is written there is no table.
LEMMA NoneYet ==
    ASSUME TypeInv, FlashInv, TableInv, pc \in {"sig_erase", "sig_program"}
    PROVE  Tabled = {} /\ Signed = {} /\ Copies = {} /\ Stale = {}
<1>1. Cont \in {"sig_erase", "sig_program"}
  BY DEF Cont
<1> QED
  BY <1>1, TabTypes DEF TableInv, WhereInv, FlashInv, PlaceInv

\* ... and none with it.
LEMMA FlashSign ==
    ASSUME TypeInv, FlashInv, TableInv, pc = "sig_program",
           content' = [content EXCEPT ![w.ba] = Holds("sig")], UNCHANGED marked
    PROVE  FlashInv' /\ Signed' = {w.ba} /\ Tabled' = {}
<1>1. w.ba \in Blocks /\ w.ba \notin marked
  BY DEF TypeInv, ControlInv, TableInv, WhereInv, Cont
<1>2. Signed' = {w.ba} /\ Tabled' = {}
  BY <1>1, NoneYet, PathTypes DEF Signed, Tabled, Holds
<1>3. Copies' = {}
  BY <1>2 DEF Copies
<1> QED
  BY <1>1, <1>2, <1>3 DEF FlashInv, PlaceInv, CopyInv, AgeInv, NewInv

\* What a block in flight becomes.
LEMMA FlashSpoil ==
    ASSUME TypeInv, FlashInv, NEW b \in Blocks, b \notin Tabled \cup Signed,
           content' = [content EXCEPT ![b] = Holds("torn")], UNCHANGED marked
    PROVE  FlashInv'
<1>1. Aside
  BY PathTypes DEF Aside, Holds
<1>2. marked' \cap Signed = {}
  BY <1>1 DEF Aside, FlashInv, PlaceInv
<1> QED
  BY <1>1, <1>2, AsideFlash, FlashAside, TabTypes

\* A power cut at any flash operation: the block in flight is as it was, torn, or
\* complete though nobody has verified it.
LEMMA FlashCut == TypeInv /\ SoundInv /\ FlashInv /\ PathInv /\ TableInv /\ PowerCut => FlashInv'
<1> SUFFICES ASSUME TypeInv, SoundInv, FlashInv, PathInv, TableInv, PowerCut PROVE FlashInv'
  OBVIOUS
<1>1. UNCHANGED marked
  BY DEF PowerCut
<1>2. CASE UNCHANGED content
  <2>1. UNCHANGED flash
    BY <1>1, <1>2 DEF flash
  <2>2. marked' \cap Signed = {}
    BY <1>1 DEF FlashInv, PlaceInv
  <2> QED
    BY <2>1, <2>2, SameFlash, FlashAside
<1>3. ASSUME NEW b \in InFlight, NEW c \in {Holds("torn"), Programmed},
             content' = [content EXCEPT ![b] = c]
      PROVE  FlashInv'
  <2>1. CASE pc = "w_erase"
    <3>1. b \in Usable /\ IsFirst(b, Usable) /\ c = Holds("torn")
      BY <1>3, <2>1 DEF InFlight, First, Programmed
    <3>2. b \in Blocks /\ w.ba <= b /\ b < w.limit
      BY <3>1, PassedOver
    <3>3. Removes(b)
      BY <1>1, <1>3, <3>1, <3>2, PathTypes DEF Removes, Holds
    <3> QED
      BY <2>1, <3>1, <3>2, <3>3, FlashRemove
  <2>2. CASE pc = "e_erase"
    <3>1. b \in Usable /\ c = Holds("torn")
      BY <1>3, <2>2 DEF InFlight, First, Programmed
    <3> QED
      BY <1>1, <1>3, <2>2, <3>1, EraseAside, FlashSpoil
  <2>3. CASE pc = "w_program"
    <3>1. b = w.ba /\ c \in {Holds("torn"), TableOf(info_table_cache)}
      BY <1>3, <2>3 DEF InFlight, Programmed
    <3>2. b \in Blocks /\ w.ba <= b /\ b < w.limit
      BY <2>3, <3>1, Integral DEF TypeInv, ControlInv, SoundInv, RangeInv
    <3>3. CASE c = Holds("torn")
      <4>1. Removes(b)
        BY <1>1, <1>3, <3>2, <3>3, PathTypes DEF Removes, Holds
      <4> QED
        BY <2>3, <3>2, <4>1, FlashRemove
    <3>4. CASE c = TableOf(info_table_cache)
      BY <1>1, <1>3, <2>3, <3>1, <3>4, FlashProgram
    <3> QED
      BY <3>1, <3>3, <3>4
  <2>4. CASE pc = "sig_erase"
    <3>1. b \in Blocks /\ c = Holds("torn")
      BY <1>3, <2>4 DEF InFlight, Last, UsableDown, Programmed
    <3> QED
      BY <1>1, <1>3, <2>4, <3>1, NoneYet, FlashSpoil
  <2>5. CASE pc = "sig_program"
    <3>1. b = w.ba /\ b \in Blocks /\ c \in {Holds("torn"), Holds("sig")}
      BY <1>3, <2>5 DEF InFlight, Programmed, TypeInv, ControlInv
    <3> QED
      BY <1>1, <1>3, <2>5, <3>1, NoneYet, FlashSpoil, FlashSign
  <2>6. CASE pc \in {"remap_erase", "remap_copy"}
    <3>1. b = req.new /\ c = Holds("torn") /\ pc \in Calm /\ Cont = pc
      BY <1>3, <2>6 DEF InFlight, Programmed, Calm, Cont
    <3>2. req.new \in Blocks /\ req.lb \in Logical /\ block_mapping[req.lb] = req.new
      BY <2>6, <3>1 DEF TypeInv, ControlTypes, Request, PathInv, ReqInv
    <3>3. b \notin Tabled \cup Signed
      BY <3>1, <3>2, MappedAside
    <3> QED
      BY <1>1, <1>3, <3>1, <3>2, <3>3, FlashSpoil
  <2> QED
    BY <1>3, <2>1, <2>2, <2>3, <2>4, <2>5, <2>6 DEF InFlight
<1> QED
  BY <1>2, <1>3 DEF PowerCut

\* With the power off, or given up, the driver knows nothing.
LEMMA TableIdle == pc' \in {"off", "dead"} => TableInv'
<1> SUFFICES ASSUME pc' \in {"off", "dead"} PROVE TableInv'
  OBVIOUS
<1>1. Cont' \in {"off", "dead"} /\ ~Working'
  BY DEF Cont, Working
<1> QED
  BY <1>1 DEF TableInv, WhereInv, CacheInv, StaleInv, CeilingInv, WriteConts

\* nmbm_create_info_table starts without a table.
LEMMA TableBegin ==
    ASSUME TypeInv, TypeInv', NEW sig \in Signed', FlashInv', NEW changed,
           BeginTables(sig, bad', block_mapping', changed),
           Copies' = {}, Stale' \subseteq bad',
           \A lb \in Logical : block_mapping'[lb] < MgmtStart
    PROVE  TableInv'
<1>1. CASE Goto("dead")
  BY <1>1, TableIdle DEF Goto
<1>2. CASE /\ signature_ba' = sig /\ GenerateCache(bad', block_mapping', write_count, changed)
           /\ RebuildTables("map_loop")
  <2>1. /\ pc' = "w_erase" /\ w'.cont = "rebuild_main" /\ Cont' = "rebuild_main" /\ Working'
        /\ main_table_ba' = 0 /\ backup_table_ba' = 0 /\ caller' = "map_loop"
    BY <1>2 DEF RebuildTables, WorkOn, Cont, Working
  <2>2. /\ info_table_cache'.wc = write_count' /\ info_table_cache'.bad = bad'
        /\ info_table_cache'.map = block_mapping'
    BY <1>2 DEF GenerateCache
  <2>3. WhereInv'
    BY <1>2, <2>1 DEF WhereInv, Kept, WriteConts
  <2>4. CacheInv'
    BY <2>1, <2>2 DEF CacheInv, WriteConts, KeepsCache, KeepsMap
  <2>5. StaleInv'
    <3>1. \A lb \in Logical : block_mapping'[lb] \notin Tabled'
      <4>1. \A lb \in Logical : block_mapping'[lb] \in Int
        BY MaybeInt DEF TypeInv, StateTypes
      <4>2. \A x \in Tabled' : MgmtStart <= x /\ x \in Int
        BY BlockTypes DEF FlashInv, PlaceInv, Tabled
      <4> QED
        BY <4>1, <4>2, Integral
    <3> QED
      BY <2>1, <3>1 DEF StaleInv, Calm
  <2>6. CeilingInv'
    BY <2>1, <2>2 DEF CeilingInv
  <2> QED
    BY <2>3, <2>4, <2>5, <2>6 DEF TableInv
<1> QED
  BY <1>1, <1>2 DEF BeginTables

----------------------------------------------------------------------------
(* Loading a table.                                                          *)

\* nmbm_load_info_table never takes a remapped block for a table.
LEMMA LoadTop ==
    ASSUME TypeInv, FlashInv, NEW sig \in Signature, NEW m \in FirstTable(sig),
           NEW s \in SecondTable(sig, m), NEW top \in Int,
           IsTop(top, Tab(Newest(m, s)).map, Newest(m, s) + 1, sig)
    PROVE  (IF s = NoBlock THEN m ELSE s) < top
<1> DEFINE n == Newest(m, s)
           last == IF s = NoBlock THEN m ELSE s
           used == {Tab(n).map[lb] : lb \in Logical} \cap ((n + 1)..(sig - 1))
<1>1. /\ sig \in Signed /\ n \in Copies /\ IsNewest(n) /\ last \in Copies
      /\ n \in Int /\ last \in Int /\ sig \in Int /\ MgmtStart <= n /\ last + 2 <= sig
  <2>1. sig \in Signed /\ n \in Copies /\ IsNewest(n) /\ last \in Copies
    BY FoundTables
  <2> QED
    BY <2>1, TabTypes, BlockTypes DEF FlashInv, PlaceInv
<1>2. \A lb \in Logical : Tab(n).map[lb] \notin MgmtStart..(last + 1) /\ Tab(n).map[lb] \in Int
  BY <1>1, TabTypes DEF FlashInv, AgeInv, IsNewest
<1>3. top + 1 \in used \cup {sig}
  BY DEF IsTop
<1>4. CASE top + 1 = sig
  BY <1>1, <1>4
<1>5. ASSUME NEW lb \in Logical, top + 1 = Tab(n).map[lb], n + 1 <= top + 1 PROVE last < top
  BY <1>1, <1>2, <1>5, Integral
<1> QED
  BY <1>1, <1>3, <1>4, <1>5

\* What nmbm_load_info_table has in hand afterwards.
LEMMA Loaded ==
    ASSUME TypeInv, FlashInv, UNCHANGED flash, NEW sig \in Signature, NEW m \in FirstTable(sig),
           NEW s \in SecondTable(sig, m), NEW ecc \in EccErrors, LoadTables(sig, m, s, ecc)
    PROVE  LET n == Newest(m, s)
               last == IF s = NoBlock THEN m ELSE s
           IN  /\ signature_ba' = sig /\ main_table_ba' = m
               /\ backup_table_ba' = (IF s = NoBlock THEN 0 ELSE s)
               /\ mapping_blocks_ba' = last + 1 /\ last < mapping_blocks_top_ba'
               /\ block_mapping' = Tab(n).map /\ weak' = weak
               /\ Tab(n).bad \subseteq bad' /\ bad' \cap Copies = {}
               /\ s = NoBlock => \A r \in Stale : r < m \/ r \in bad'
               /\ info_table_cache' = [wc |-> write_count', bad |-> bad', map |-> Tab(n).map]
               /\ \/ write_count' = Tab(n).wc + 1
                  \/ write_count' = Tab(n).wc /\ bad' = Tab(n).bad
               /\ \/ s = NoBlock /\ WriteTable(MgmtStart, m, "rescue_front") /\ UNCHANGED protected
                  \/ s # NoBlock /\ LoadDone(TRUE) /\ Tab(m).wc = Tab(s).wc
                  \/ s # NoBlock /\ n = s /\ WriteTable(m, s, "older_main") /\ UNCHANGED protected
                  \/ /\ s # NoBlock /\ n = m /\ UNCHANGED protected
                     /\ WriteTable(s, mapping_blocks_top_ba', "older_backup")
<1> DEFINE n == Newest(m, s)
           last == IF s = NoBlock THEN m ELSE s
           found1 == {b \in MgmtStart..(m - 1) : b \in marked \cup ecc}
           found2 == {b \in (m + 1)..((IF s = NoBlock THEN sig - 1 ELSE s) - 1) :
                          b \in (marked \cup ecc) \ Tab(m).bad}
           changed == found1 \cup found2 # {}
           differ == s # NoBlock /\ Tab(m).wc # Tab(s).wc
<1>1. /\ sig \in Signed /\ m \in Copies /\ n \in Copies /\ IsNewest(n)
      /\ \/ s = NoBlock /\ Copies = {m}
         \/ s # NoBlock /\ s \in Copies /\ m < s /\ Copies = {m, s}
  BY FoundTables
<1>2. /\ sig \in Int /\ m \in Int /\ s \in Int /\ (s = NoBlock => n = m) /\ n \in {m, s}
  <2>1. sig \in Int /\ \A x \in Copies : x \in Int
    BY <1>1, TabTypes, BlockTypes
  <2>2. NoBlock \in Int
    BY DEF NoBlock
  <2> QED
    BY <1>1, <2>1, <2>2 DEF Newest
<1>3. /\ signature_ba' = sig /\ main_table_ba' = m
      /\ backup_table_ba' = (IF s = NoBlock THEN 0 ELSE s)
      /\ mapping_blocks_ba' = last + 1 /\ block_mapping' = Tab(n).map
      /\ bad' = (IF n = m THEN Tab(n).bad \cup found2 ELSE Tab(n).bad)
      /\ GenerateCache(bad', Tab(n).map, Tab(n).wc, changed)
  BY DEF LoadTables, Tab
<1>4. last < mapping_blocks_top_ba' /\ weak' = weak
  <2>1. PICK top \in Blocks : /\ IsTop(top, Tab(n).map, n + 1, sig)
                              /\ mapping_blocks_top_ba' = top
                              /\ weak' = weak \cup (IF top <= last THEN {"overlap"} ELSE {})
    BY DEF LoadTables, Tab
  <2>2. top \in Int /\ last < top /\ last \in Int
    BY <1>2, <2>1, BlockTypes, LoadTop
  <2> QED
    BY <2>1, <2>2
<1>5. Tab(n).bad \subseteq bad' /\ bad' \cap Copies = {}
  <2>1. Tab(n).bad \cap Copies = {}
    BY <1>1 DEF FlashInv, CopyInv
  <2>2. found2 \cap Copies = {}
    BY <1>1, <1>2
  <2> QED
    BY <1>3, <2>1, <2>2
<1>6. ASSUME s = NoBlock, NEW r \in Stale PROVE r < m \/ r \in bad'
  <2>1. r \in Int /\ r \in marked /\ r # m /\ r + 2 <= sig
    BY <1>1, TabTypes, BlockTypes DEF FlashInv, PlaceInv
  <2>2. ~(r < m) => r \in found2 \/ r \in Tab(m).bad
    BY <1>2, <1>6, <2>1
  <2> QED
    BY <1>2, <1>3, <1>6, <2>2
<1>7. /\ info_table_cache' = [wc |-> write_count', bad |-> bad', map |-> Tab(n).map]
      /\ \/ write_count' = Tab(n).wc + 1
         \/ write_count' = Tab(n).wc /\ bad' = Tab(n).bad
  <2>1. ~changed => found2 = {}
    OBVIOUS
  <2>2. ~changed => bad' = Tab(n).bad
    BY <1>3, <2>1
  <2> HIDE DEF changed, found1, found2
  <2> QED
    BY <1>3, <2>2 DEF GenerateCache
<1>8. \/ s = NoBlock /\ WriteTable(MgmtStart, m, "rescue_front") /\ UNCHANGED protected
      \/ s # NoBlock /\ LoadDone(TRUE) /\ ~differ
      \/ s # NoBlock /\ n # m /\ WriteTable(m, s, "older_main") /\ UNCHANGED protected
      \/ s # NoBlock /\ n = m /\ WriteTable(s, mapping_blocks_top_ba',
           "older_backup") /\ UNCHANGED protected
  BY DEF LoadTables, WritesMain, Tab
<1> QED
  BY <1>2, <1>3, <1>4, <1>5, <1>6, <1>7, <1>8

\* What the newest table says.
LEMMA NewestSays ==
    ASSUME TypeInv, FlashInv, NEW n \in Copies, IsNewest(n)
    PROVE  /\ \A lb \in Logical : Tab(n).map[lb] \notin Tabled
           /\ \A x \in Copies : /\ Tab(x).wc <= Tab(n).wc
                                /\ Tab(x).wc = Tab(n).wc => Tab(x) = Tab(n)
                                /\ \A b \in Tab(x).bad : b >= MgmtStart
                                     => b \in Tab(n).bad \cup marked
<1>1. \A x \in Copies : Tab(x).wc \in Int /\ x \in Int /\ MgmtStart <= x
  BY TabTypes, BlockTypes DEF FlashInv, PlaceInv
<1>2. \A x \in Copies : AsNew(n, x) /\ Tab(x).wc <= Tab(n).wc
  BY <1>1 DEF IsNewest, AsNew
<1>3. \A x \in Copies, lb \in Logical : Tab(n).map[lb] # x
  BY <1>1, <1>2, Integral DEF FlashInv, AgeInv
<1>4. \A lb \in Logical : Tab(n).map[lb] \notin Tabled
  BY <1>3, TabTypes DEF FlashInv, NewInv
<1>5. ASSUME NEW x \in Copies, Tab(x).wc = Tab(n).wc PROVE Tab(x) = Tab(n)
  <2>1. AsNew(x, n) /\ AsNew(n, x)
    BY <1>1, <1>5 DEF AsNew
  <2> QED
    BY <2>1 DEF FlashInv, AgeInv
<1> QED
  BY <1>2, <1>4, <1>5 DEF FlashInv, AgeInv

\* Where the driver is after a load.
LEMMA PathLoad ==
    ASSUME TypeInv, TypeInv', FlashInv, PathInv, UNCHANGED flash, pc = "off",
           NEW sig \in Signature, NEW m \in FirstTable(sig),
           NEW s \in SecondTable(sig, m), NEW ecc \in EccErrors, LoadTables(sig, m, s, ecc)
    PROVE  PathInv'
<1> DEFINE n == Newest(m, s)
<1>1. /\ sig \in Signed /\ m \in Copies /\ n \in Copies /\ IsNewest(n)
      /\ \/ s = NoBlock /\ Copies = {m}
         \/ s # NoBlock /\ s \in Copies /\ m < s /\ Copies = {m, s}
  BY FoundTables
<1>2. /\ sig \in Int /\ m \in Int /\ MgmtStart <= m /\ m + 2 <= sig
      /\ s # NoBlock => s \in Int /\ MgmtStart <= s /\ s + 2 <= sig /\ s # 0
      /\ MgmtStart \in Int /\ MgmtStart > 0
  <2>1. sig \in Int /\ \A x \in Copies : x \in Int /\ MgmtStart <= x /\ x + 2 <= sig
    BY <1>1, TabTypes, BlockTypes DEF FlashInv, PlaceInv
  <2> QED
    BY <1>1, <2>1, Integral
<1>3. req = NoReq /\ caller = "off" /\ ~protected
  BY DEF PathInv, ReqInv, Cont, Calm
<1>4. /\ signature_ba' = sig /\ main_table_ba' = m
      /\ backup_table_ba' = (IF s = NoBlock THEN 0 ELSE s)
      /\ mapping_blocks_ba' = (IF s = NoBlock THEN m ELSE s) + 1
      /\ Tab(n).bad \subseteq bad' /\ marked' = marked
      /\ \/ s = NoBlock /\ WriteTable(MgmtStart, m, "rescue_front") /\ UNCHANGED protected
         \/ s # NoBlock /\ LoadDone(TRUE)
         \/ s # NoBlock /\ n = s /\ WriteTable(m, s, "older_main") /\ UNCHANGED protected
         \/ /\ s # NoBlock /\ n = m /\ UNCHANGED protected
            /\ WriteTable(s, mapping_blocks_top_ba', "older_backup")
  BY Loaded DEF flash
<1>5. /\ req' = NoReq /\ caller' = "off" /\ Working'
      /\ \/ /\ s = NoBlock /\ pc' = "w_erase" /\ Cont' = "rescue_front" /\ ~protected'
            /\ w'.start = MgmtStart /\ w'.ba = MgmtStart /\ w'.limit = m
         \/ s # NoBlock /\ pc' = "ready" /\ Cont' = "ready"
         \/ /\ s # NoBlock /\ pc' = "w_erase" /\ Cont' = "older_main" /\ ~protected'
            /\ w'.start = m /\ w'.ba = m /\ w'.limit = s
         \/ /\ s # NoBlock /\ pc' = "w_erase" /\ Cont' = "older_backup" /\ ~protected'
            /\ w'.start = s /\ w'.ba = s /\ w'.limit = mapping_blocks_top_ba'
  BY <1>3, <1>4 DEF LoadDone, WriteTable, WorkOn, Cont, Working
<1>6. s # NoBlock => MgmtStart..(m - 1) \subseteq Unusable'
  <2>1. s # NoBlock => MgmtStart..(m - 1) \subseteq marked \cup Tab(n).bad
    BY <1>1 DEF FlashInv, NewInv
  <2> QED
    BY <1>4, <2>1 DEF Unusable
<1>7. OrderInv'
  BY <1>1, <1>2, <1>4, <1>5 DEF OrderInv, WriteConts
<1>8. SpanInv'
  BY <1>1, <1>2, <1>4, <1>5 DEF SpanInv
<1>9. TriedInv'
  BY <1>2, <1>5 DEF TriedInv, WriteConts
<1>10. LowInv'
  BY <1>4, <1>5, <1>6 DEF LowInv
<1>11. ReqInv'
  BY <1>2, <1>4, <1>5 DEF ReqInv, NoReq, Calm
<1> QED
  BY <1>7, <1>8, <1>9, <1>10, <1>11 DEF PathInv

\* What the driver knows after a load.
LEMMA TableLoad ==
    ASSUME TypeInv, TypeInv', FlashInv, PathInv, UNCHANGED flash, pc = "off",
           NEW sig \in Signature, NEW m \in FirstTable(sig),
           NEW s \in SecondTable(sig, m), NEW ecc \in EccErrors, LoadTables(sig, m, s, ecc)
    PROVE  TableInv'
<1> DEFINE n == Newest(m, s)
<1>1. /\ sig \in Signed /\ m \in Copies /\ n \in Copies /\ IsNewest(n) /\ n \in {m, s}
      /\ \/ s = NoBlock /\ Copies = {m}
         \/ s # NoBlock /\ s \in Copies /\ m < s /\ Copies = {m, s}
  BY FoundTables DEF Newest
<1>2. /\ m \in Int /\ m # 0 /\ MgmtStart <= m /\ MgmtStart \in Int
      /\ s # NoBlock => s \in Int /\ s # 0
  <2>1. \A x \in Copies : x \in Int /\ MgmtStart <= x
    BY TabTypes, BlockTypes DEF FlashInv, PlaceInv
  <2> QED
    BY <1>1, <2>1, Integral
<1>3. /\ signature_ba' = sig /\ main_table_ba' = m
      /\ backup_table_ba' = (IF s = NoBlock THEN 0 ELSE s)
      /\ block_mapping' = Tab(n).map
      /\ Tab(n).bad \subseteq bad' /\ bad' \cap Copies = {}
      /\ s = NoBlock => \A r \in Stale : r < m \/ r \in bad'
      /\ info_table_cache' = [wc |-> write_count', bad |-> bad', map |-> Tab(n).map]
      /\ \/ write_count' = Tab(n).wc + 1
         \/ write_count' = Tab(n).wc /\ bad' = Tab(n).bad
  BY Loaded
<1>4. \/ s = NoBlock /\ WriteTable(MgmtStart, m, "rescue_front")
      \/ s # NoBlock /\ LoadDone(TRUE) /\ Tab(m).wc = Tab(s).wc
      \/ s # NoBlock /\ n = s /\ WriteTable(m, s, "older_main")
      \/ s # NoBlock /\ n = m /\ WriteTable(s, mapping_blocks_top_ba', "older_backup")
  BY Loaded
<1>5. /\ Copies' = Copies /\ Stale' = Stale /\ Tabled' = Tabled /\ Signed' = Signed
      /\ marked' = marked /\ \A x : Tab(x)' = Tab(x)
  BY SameFlash
<1>6. /\ Working'
      /\ \/ /\ s = NoBlock /\ pc' = "w_erase" /\ Cont' = "rescue_front" /\ n = m
            /\ w'.ba = MgmtStart
         \/ s # NoBlock /\ pc' = "ready" /\ Cont' = "ready" /\ Tab(m).wc = Tab(s).wc
         \/ s # NoBlock /\ pc' = "w_erase" /\ Cont' = "older_main" /\ n = s /\ w'.ba = m
         \/ s # NoBlock /\ pc' = "w_erase" /\ Cont' = "older_backup" /\ n = m /\ w'.ba = s
  BY <1>4 DEF LoadDone, WriteTable, WorkOn, Cont, Working, Newest
<1>7. /\ \A lb \in Logical : Tab(n).map[lb] \notin Tabled
      /\ \A x \in Copies : /\ Tab(x).wc <= Tab(n).wc
                           /\ Tab(x).wc = Tab(n).wc => Tab(x) = Tab(n)
                           /\ \A b \in Tab(x).bad : b >= MgmtStart => b \in Tab(n).bad \cup marked
  BY <1>1, NewestSays
<1>8. \A r \in Stale : IF s = NoBlock THEN r < m \/ r \in bad' ELSE r < s \/ r \in bad'
  <2>1. s # NoBlock => \A r \in Stale : r < s \/ r \in Tab(n).bad
    BY <1>1 DEF FlashInv, NewInv
  <2> QED
    BY <1>3, <2>1
<1>9. WhereInv'
  <2>1. CASE Cont' = "rescue_front"
    BY <1>1, <1>2, <1>3, <1>5, <1>6, <2>1 DEF WhereInv, Kept, KeepsMain, WriteConts
  <2>2. CASE Cont' = "ready"
    BY <1>1, <1>2, <1>3, <1>5, <1>6, <2>2 DEF WhereInv, Kept, KeepsMain, KeepsBackup, WriteConts
  <2>3. CASE Cont' = "older_main"
    <3>1. Kept' = {s} /\ Extra' = {m}
      BY <1>1, <1>2, <1>3, <1>6, <2>3 DEF Kept, KeepsMain, KeepsBackup, Extra, Old
    <3> QED
      BY <1>1, <1>3, <1>5, <1>6, <2>3, <3>1 DEF WhereInv, WriteConts
  <2>4. CASE Cont' = "older_backup"
    <3>1. Kept' = {m} /\ Extra' = {s}
      BY <1>1, <1>2, <1>3, <1>6, <2>4 DEF Kept, KeepsMain, KeepsBackup, Extra, Old
    <3> QED
      BY <1>1, <1>3, <1>5, <1>6, <2>4, <3>1 DEF WhereInv, WriteConts
  <2> QED
    BY <1>6, <2>1, <2>2, <2>3, <2>4
<1>10. CacheInv'
  <2>1. Tab(n) \in Table /\ Tab(n).wc \in Int /\ \A x \in Copies : Tab(x).wc \in Int
    BY <1>1, TabTypes, PathTypes DEF Tab, Content
  <2>2. info_table_cache'.wc = write_count' /\ info_table_cache'.bad = bad'
        /\ info_table_cache'.map = block_mapping'
    BY <1>3
  <2>3. write_count' = Tab(n).wc => info_table_cache' = Tab(n)
    BY <1>3, <2>1 DEF Table
  <2>4. ASSUME NEW x \in Copies
        PROVE  /\ Tab(x).wc <= write_count'
               /\ Tab(x).wc = write_count' => Tab(x) = info_table_cache'
               /\ \A b \in Tab(x).bad : b >= MgmtStart => b \in Unusable'
               /\ x \notin bad'
    BY <1>3, <1>5, <1>7, <2>1, <2>3 DEF Unusable
  <2>5. Cont' \in KeepsMap => \A x \in Kept' : Tab(x).map = block_mapping'
    BY <1>1, <1>2, <1>3, <1>6 DEF KeepsMap, KeepsMain, KeepsBackup, Kept
  <2>6. Cont' \notin KeepsCache /\ pc' \notin WriteConts
    BY <1>6 DEF KeepsCache, WriteConts
  <2> QED
    BY <1>5, <2>2, <2>4, <2>5, <2>6 DEF CacheInv
<1>11. StaleInv'
  <2>1. pc' = "ready" => \A x \in Copies : Tab(x) = Tab(n)
    BY <1>1, <1>6, <1>7
  <2> QED
    BY <1>1, <1>3, <1>5, <1>6, <1>7, <1>8, <2>1 DEF StaleInv, Calm
<1>12. CeilingInv'
  BY <1>3, <1>5, <1>6, <1>8 DEF CeilingInv, Ceiling, WriteConts
<1> QED
  BY <1>9, <1>10, <1>11, <1>12 DEF TableInv

----------------------------------------------------------------------------
(* Attaching.                                                                *)

\* While there is no signature there is nothing to promise.
LEMMA NewChip ==
    ASSUME pc' \in {"sig_erase", "sig_program"}, req' = NoReq, caller' = "off", ~protected',
           Signed' = {}, pc' = "sig_program" => w'.ba \notin marked'
    PROVE  PathInv' /\ TableInv'
<1>1. Cont' \in {"sig_erase", "sig_program"} /\ Cont' = pc' /\ ~Working'
  BY DEF Cont, Working
<1>2. PathInv'
  BY <1>1 DEF PathInv, OrderInv, SpanInv, TriedInv, LowInv, ReqInv, Calm, WriteConts
<1>3. TableInv'
  BY <1>1 DEF TableInv, WhereInv, CacheInv, StaleInv, CeilingInv, WriteConts
<1> QED
  BY <1>2, <1>3

\* Nor when the driver gives up.
LEMMA PathIdle ==
    ASSUME pc' \in {"off", "dead"}, req' = NoReq, caller' = "off", ~protected'
    PROVE  PathInv'
<1>1. Cont' \in {"off", "dead"} /\ ~Working'
  BY DEF Cont, Working
<1> QED
  BY <1>1 DEF PathInv, OrderInv, SpanInv, TriedInv, LowInv, ReqInv, Calm, WriteConts

\* The steps of nmbm_write_signature but the last one.
LEMMA SignatureSteps ==
    ASSUME TypeInv, FlashInv, PathInv, TableInv,
           SignatureErase \/ SignatureEraseFails \/ SignatureProgramFails
    PROVE  FlashInv' /\ PathInv' /\ TableInv'
<1>1. /\ pc \in {"sig_erase", "sig_program"} /\ pc' \in {"sig_erase", "sig_program"}
      /\ UNCHANGED <<req, caller, protected>>
  BY DEF SignatureErase, SignatureEraseFails, SignatureProgramFails
<1>2. req = NoReq /\ caller = "off" /\ ~protected
  BY <1>1 DEF PathInv, ReqInv, Cont, Calm
<1>3. Tabled = {} /\ Signed = {} /\ Copies = {}
  BY <1>1, NoneYet
<1>4. \E b \in Blocks : /\ \/ content' = content
                           \/ content' = [content EXCEPT ![b] = Holds("erased")]
                           \/ content' = [content EXCEPT ![b] = Holds("torn")]
                        /\ marked' \in {marked, marked \cup {b}}
                        /\ pc' = "sig_program" => b \notin marked' /\ w'.ba = b
  <2>1. CASE SignatureErase
    <3>1. PICK b \in UsableDown : /\ content' = [content EXCEPT ![b] = Holds("erased")]
                                  /\ w' = [w EXCEPT !.ba = b]
      BY <2>1 DEF SignatureErase
    <3>2. marked' = marked /\ b \in Blocks \ marked /\ w'.ba = b
      BY <2>1, <3>1 DEF SignatureErase, UsableDown, TypeInv, ControlTypes, Range
    <3> QED
      BY <3>1, <3>2
  <2>2. CASE SignatureEraseFails
    <3>1. PICK b \in UsableDown : FailErase(b) /\ MarkBad(b, {})
      BY <2>2 DEF SignatureEraseFails
    <3>2. b \in Blocks /\ pc' = "sig_erase"
      BY <2>2, <3>1 DEF UsableDown, SignatureEraseFails
    <3> QED
      BY <3>1, <3>2 DEF FailErase, Ruin, MarkBad
  <2>3. CASE SignatureProgramFails
    <3>1. w.ba \in Blocks
      BY <2>3 DEF SignatureProgramFails, TypeInv, ControlInv
    <3> QED
      BY <2>3, <3>1 DEF SignatureProgramFails, Ruin, MarkBad
  <2> QED
    BY <2>1, <2>2, <2>3
<1>5. Aside
  BY <1>3, <1>4, PathTypes DEF Aside, Holds
<1>6. FlashInv' /\ Signed' = {}
  BY <1>3, <1>5, AsideFlash, FlashAside, TabTypes
<1> QED
  BY <1>1, <1>2, <1>4, <1>6, NewChip

\* nmbm_write_signature has succeeded.
LEMMA SignatureLast ==
    ASSUME TypeInv, TypeInv', SoundInv, FlashInv, PathInv, TableInv, SignatureProgram
    PROVE  FlashInv' /\ PathInv' /\ TableInv'
<1>1. /\ pc = "sig_program" /\ Cont = "sig_program"
      /\ content' = [content EXCEPT ![w.ba] = Holds("sig")]
      /\ BeginTables(w.ba, bad, block_mapping, block_state_changed)
      /\ UNCHANGED <<marked, bad, block_mapping, protected>>
  BY DEF SignatureProgram, Cont, state, maps
<1>2. FlashInv' /\ Signed' = {w.ba} /\ Tabled' = {} /\ Copies' = {} /\ Stale' = {}
  BY <1>1, FlashSign DEF Copies, Stale
<1>3. PICK sig \in Blocks : sig = w.ba
  BY <1>1 DEF TypeInv, ControlInv
<1>4. BeginTables(sig, bad', block_mapping', block_state_changed)
  BY <1>1, <1>3
<1>5. req = NoReq /\ caller = "off" /\ ~protected'
  BY <1>1 DEF PathInv, ReqInv, Calm
<1>6. \A lb \in Logical : block_mapping'[lb] < MgmtStart
  BY <1>1 DEF SoundInv, AreaInv
<1>7. PathInv'
  BY <1>4, <1>5, PathBegin
<1>8. sig \in Signed'
  BY <1>2, <1>3
<1>9. TableInv'
  BY <1>2, <1>4, <1>6, <1>8, TableBegin
<1> QED
  BY <1>2, <1>7, <1>9

\* nmbm_attach and what it calls until the tables are written.
LEMMA TableAttach ==
    ASSUME TypeInv, TypeInv', SoundInv, FlashInv, PathInv, TableInv, AttachStep
    PROVE  FlashInv' /\ PathInv' /\ TableInv' /\ weak' = weak
<1>1. CASE AttachLoad
  <2>1. PICK sig \in Signature : \E m \in FirstTable(sig) :
           \E s \in SecondTable(sig, m), ecc \in EccErrors : LoadTables(sig, m, s, ecc)
    BY <1>1 DEF AttachLoad
  <2>2. PICK m \in FirstTable(sig) :
           \E s \in SecondTable(sig, m), ecc \in EccErrors : LoadTables(sig, m, s, ecc)
    BY <2>1
  <2>3. PICK s \in SecondTable(sig, m), ecc \in EccErrors : LoadTables(sig, m, s, ecc)
    BY <2>2
  <2>4. UNCHANGED flash /\ pc = "off"
    BY <1>1 DEF AttachLoad
  <2>5. weak' = weak
    BY <2>3, <2>4, Loaded
  <2>6. PathInv' /\ TableInv'
    BY <2>3, <2>4, PathLoad, TableLoad
  <2>7. FlashInv'
    BY <2>4, SameFlash, FlashAside DEF FlashInv, PlaceInv
  <2> QED
    BY <2>5, <2>6, <2>7
<1>2. CASE AttachRefused \/ SignatureNoRoom
  <2>1. /\ pc \in {"off", "sig_erase"} /\ pc' = "dead"
        /\ UNCHANGED <<flash, req, caller, protected, weak>>
    BY <1>2 DEF AttachRefused, SignatureNoRoom, Goto, hist
  <2>2. req = NoReq /\ caller = "off" /\ ~protected
    BY <2>1 DEF PathInv, ReqInv, Cont, Calm
  <2>3. FlashInv'
    BY <2>1, SameFlash, FlashAside DEF FlashInv, PlaceInv
  <2> QED
    BY <2>1, <2>2, <2>3, PathIdle, TableIdle
<1>3. CASE AttachCreate
  <2>1. PICK sig \in Signature, ecc \in EccErrors :
           /\ ScanAndMap(marked \cup {b \in ecc : MgmtStart <= b /\ b < sig - 1})
           /\ BeginTables(sig, bad', block_mapping', block_state_changed')
    BY <1>3 DEF AttachCreate
  <2>2. /\ pc = "off" /\ Restart = {} /\ UNCHANGED flash /\ protected' = protected
        /\ weak' = weak
    BY <1>3 DEF AttachCreate
  <2>3. req = NoReq /\ caller = "off" /\ ~protected'
    BY <2>2 DEF PathInv, ReqInv, Cont, Calm
  <2>4. /\ sig \in Blocks
        /\ marked \cup {b \in ecc : MgmtStart <= b /\ b < sig - 1} \in SUBSET Blocks
    BY DEF Signature, Last, EccErrors, TypeInv, FlashTypes
  <2>5. \A lb \in Logical : block_mapping'[lb] < MgmtStart
    BY <2>1, <2>4, ScanSound
  <2>6. FlashInv' /\ Copies' = Copies /\ Stale' = Stale /\ Signed' = Signed /\ marked' = marked
    BY <2>2, SameFlash, FlashAside DEF FlashInv, PlaceInv
  <2>7. Copies' = {} /\ sig \in Signed' /\ Stale' \subseteq bad'
    <3>1. Copies = {}
      BY <2>1, <2>2, TableIsFound
    <3>2. sig \in Signed
      BY <2>1, SignatureIsSigned
    <3>3. marked \subseteq bad'
      BY <2>1 DEF ScanAndMap
    <3> QED
      BY <2>6, <3>1, <3>2, <3>3 DEF Stale
  <2>8. PathInv'
    BY <2>1, <2>3, <2>4, PathBegin
  <2>9. TableInv'
    BY <2>1, <2>5, <2>6, <2>7, TableBegin
  <2> QED
    BY <2>2, <2>6, <2>8, <2>9
<1>4. CASE AttachNew
  <2>1. /\ pc = "off" /\ pc' = "sig_erase" /\ Signature = {}
        /\ UNCHANGED <<flash, req, caller, protected, weak>>
    BY <1>4 DEF AttachNew
  <2>2. req = NoReq /\ caller = "off" /\ ~protected
    BY <2>1 DEF PathInv, ReqInv, Cont, Calm
  <2>3. FlashInv' /\ Signed' = {}
    BY <2>1, SameFlash, FlashAside, SignatureIsSigned DEF FlashInv, PlaceInv
  <2> QED
    BY <2>1, <2>2, <2>3, NewChip
<1>5. CASE SignatureErase \/ SignatureEraseFails \/ SignatureProgramFails
  BY <1>5, SignatureSteps DEF SignatureErase, SignatureEraseFails, SignatureProgramFails, hist
<1>6. CASE SignatureProgram
  BY <1>6, SignatureLast DEF SignatureProgram, hist
<1> QED
  BY <1>1, <1>2, <1>3, <1>4, <1>5, <1>6 DEF AttachStep

----------------------------------------------------------------------------
(* All steps.                                                                *)

\* A chip from the factory holds no table.
LEMMA CopiesInit == Init => CopiesOK /\ "overlap" \notin weak
<1> SUFFICES ASSUME Init PROVE FlashInv /\ PathInv /\ TableInv /\ weak = {}
  BY DEF CopiesOK
<1>1. PICK f \in FactoryBads : InitWith([b \in Blocks |-> Holds("erased")], f, {})
  BY DEF Init
<1>2. /\ pc = "off" /\ Cont = "off" /\ ~Working /\ req = NoReq /\ caller = "off" /\ ~protected
      /\ weak = {} /\ content = [b \in Blocks |-> Holds("erased")]
  BY <1>1 DEF InitWith, InitOff, Cont, Working
<1>3. Tabled = {} /\ Signed = {} /\ Copies = {}
  BY <1>2 DEF Tabled, Signed, Copies, Holds
<1>4. FlashInv
  BY <1>3 DEF FlashInv, PlaceInv, CopyInv, AgeInv, NewInv
<1>5. PathInv
  BY <1>2 DEF PathInv, OrderInv, SpanInv, TriedInv, LowInv, ReqInv, Calm, WriteConts
<1>6. TableInv
  BY <1>2 DEF TableInv, WhereInv, CacheInv, StaleInv, CeilingInv, WriteConts
<1> QED
  BY <1>2, <1>4, <1>5, <1>6

\* Only nmbm_attach records that a table overlaps the mapped blocks.
LEMMA OverlapLoads == Next => AttachStep \/ ("overlap" \in weak' => "overlap" \in weak)
<1> SUFFICES ASSUME Next, ~AttachStep PROVE "overlap" \in weak' => "overlap" \in weak
  OBVIOUS
<1>1. WriteStep \/ EraseStep => weak' = weak
  BY DEF WriteErase, hist, WriteProgram, WriteProgramFails, WriteNoRoom, WriteStep,
      EraseNext, EraseFails, EraseDone, EraseStep
<1>2. UpdateStep \/ RebuildStep => weak' \subseteq weak \cup {"unsaved"}
  <2>1. UpdateStep => weak' = weak
    BY DEF UpdateDone, hist, UpdateOnce, BackupWritten, BackupFailed, MainWritten, UpdateStep
  <2>2. RebuildStep => weak' \subseteq weak \cup {"unsaved"}
    BY DEF MainFailedAlone, hist, RebuildMainFailed, RebuildMainWritten, RebuildBackupWritten,
        RebuildBackupFailed, RebuildStep
  <2> QED
    BY <2>1, <2>2
<1>3. RescueStep => weak' = weak
  BY DEF RescueMain, hist, RescueTmpFailed, RescueTmpWritten, RescueMainDone,
      RescueFrontWritten, RescueFrontFailed, RescueBackFailed, RescueBackWritten,
      RescueBackAdopted, LoadOk, OlderWritten, OlderMainFailed, OlderBackupFailed, RescueStep
<1>4. MapStep => weak' \subseteq weak \cup {"skip"}
  BY DEF MapNext, Skipped, MapLoopDone, hist, MapLoopFull, CreateFull, CreateDone, MapStep
<1>5. RemapStep => weak' \subseteq weak \cup {"unmap"}
  BY DEF UnmapDone, hist, RemapErase, RemapCopy, Overwritten, RemapFull, RemapDone, RemapStep
<1>6. UserStep => weak' \subseteq weak \cup {"skip", "unmap", "unsaved"}
  <2>1. ASSUME NEW lb, NEW copy, NEW mark, RemapBlock(lb, copy, mark)
        PROVE  weak' \subseteq weak \cup {"skip", "unsaved"}
    BY <2>1 DEF RemapBlock, Skipped
  <2>2. ASSUME NEW lb, NEW repair, UserUnmap(lb, repair)
        PROVE  weak' \subseteq weak \cup {"unmap", "unsaved"}
    BY <2>2 DEF UserUnmap
  <2> QED
    BY <2>1, <2>2 DEF UserStep, UserWrite, UserFault, UserRemap, UserIsBad
<1>7. PowerCut => weak' = weak
  BY DEF PowerCut, hist
<1> QED
  BY <1>1, <1>2, <1>3, <1>4, <1>5, <1>6, <1>7 DEF Next, DriverStep

\* What the tables promise is kept by every step.
LEMMA CopiesStep ==
    ASSUME TypeInv, TypeInv', SoundInv, FlashInv, PathInv, TableInv, Next, Sound'
    PROVE  FlashInv' /\ PathInv' /\ TableInv'
<1>1. CASE WriteStep
  BY <1>1, PathWrite, TableWrite
<1>2. CASE EraseStep
  <2>1. pc \in {"w_erase", "e_erase"}
    BY <1>2 DEF EraseStep, EraseNext, EraseFails, EraseDone
  <2> QED
    BY <1>2, <2>1, PathErase, TableErase, TableEraseFails
<1>3. CASE UpdateStep
  <2>1. UNCHANGED flash
    BY <1>3 DEF UpdateStep, UpdateDone, UpdateOnce, BackupWritten, BackupFailed, MainWritten
  <2> QED
    BY <1>3, <2>1, PathUpdate, TableUpdate, SameFlash, FlashAside DEF FlashInv, PlaceInv
<1>4. CASE RebuildStep
  <2>1. UNCHANGED flash
    BY <1>4 DEF RebuildStep, MainFailedAlone, RebuildMainFailed, RebuildMainWritten,
        RebuildBackupWritten, RebuildBackupFailed
  <2> QED
    BY <1>4, <2>1, PathRebuild, TableRebuild, SameFlash, FlashAside DEF FlashInv, PlaceInv
<1>5. CASE RescueStep
  <2>1. UNCHANGED flash
    BY <1>5 DEF RescueMain, RescueTmpFailed, RescueTmpWritten, RescueMainDone,
        RescueFrontWritten, RescueFrontFailed, RescueBackFailed, RescueBackWritten,
        RescueBackAdopted, LoadOk, OlderWritten, OlderMainFailed, OlderBackupFailed, RescueStep
  <2> QED
    BY <1>5, <2>1, PathRescue, TableRescue, SameFlash, FlashAside DEF FlashInv, PlaceInv
<1>6. CASE AttachStep
  BY <1>6, TableAttach
<1>7. CASE MapStep
  <2>1. UNCHANGED flash
    BY <1>7 DEF MapStep, MapNext, MapLoopDone, MapLoopFull, CreateFull, CreateDone
  <2> QED
    BY <1>7, <2>1, PathMap, TableMap, SameFlash, FlashAside DEF FlashInv, PlaceInv
<1>8. CASE RemapStep
  BY <1>8, PathRemap, TableRemap
<1>9. CASE UserStep
  BY <1>9, PathUser, TableUser
<1>10. CASE PowerCut
  <2>1. pc' = "off"
    BY <1>10 DEF PowerCut
  <2> QED
    BY <1>10, <2>1, PathCut, FlashCut, TableIdle
<1> QED
  BY <1>1, <1>2, <1>3, <1>4, <1>5, <1>6, <1>7, <1>8, <1>9, <1>10 DEF Next, DriverStep

\* A step that changes nothing.
LEMMA CopiesStutter ==
    ASSUME UNCHANGED vars, FlashInv, PathInv, TableInv
    PROVE  FlashInv' /\ PathInv' /\ TableInv'
<1>1. UNCHANGED <<flash, state, maps, tabs, tops, cache, protected, ctl>>
  BY DEF vars
<1>2. FlashInv'
  BY <1>1, SameFlash, FlashAside DEF FlashInv, PlaceInv
<1>3. Cont' = Cont /\ Working' = Working /\ Unusable' = Unusable
  BY <1>1 DEF ctl, Cont, Working, Unusable, state, flash
<1>4. PathInv'
  <2>1. OrderInv' /\ SpanInv'
    BY <1>1, <1>3 DEF PathInv, OrderInv, SpanInv, tabs, tops, ctl
  <2>2. TriedInv' /\ LowInv'
    BY <1>1, <1>3 DEF PathInv, TriedInv, LowInv, state, tabs, tops, ctl
  <2>3. ReqInv'
    BY <1>1, <1>3, SameFlash DEF PathInv, ReqInv, state, maps, tops, ctl
  <2> QED
    BY <2>1, <2>2, <2>3 DEF PathInv
<1>5. TableInv'
  <2>1. /\ Copies' = Copies /\ Stale' = Stale /\ Tabled' = Tabled /\ Signed' = Signed
        /\ \A x : Tab(x)' = Tab(x)
    BY <1>1, SameFlash
  <2>2. Kept' = Kept /\ Extra' = Extra /\ Ceiling' = Ceiling /\ Alone' = Alone
    BY <1>1, <1>3 DEF Kept, Extra, Old, Ceiling, Alone, tabs, ctl
  <2>3. WhereInv' /\ CeilingInv'
    BY <1>1, <1>3, <2>1, <2>2 DEF TableInv, WhereInv, CeilingInv, tabs, tops, ctl, cache, state,
        flash
  <2>4. CacheInv'
    BY <1>1, <1>3, <2>1, <2>2 DEF TableInv, CacheInv, ctl, cache, state, maps, flash
  <2>5. StaleInv'
    BY <1>1, <1>3, <2>1, <2>2 DEF TableInv, StaleInv, Shielded, Shields, tabs, tops, ctl, state,
        maps
  <2> QED
    BY <2>3, <2>4, <2>5 DEF TableInv
<1> QED
  BY <1>2, <1>4, <1>5

\* The tables keep what they promise as long as no bad block is passed over, and
\* no block is taken back to where it does not belong.
CopiesInv == CopiesOK /\ NoOverlap

\* Every step keeps it.
LEMMA CopiesNext ==
    TypeInv /\ MapInv /\ CopiesInv /\ [Next]_vars => CopiesInv'
<1> SUFFICES ASSUME TypeInv, MapInv, CopiesInv, [Next]_vars, Regular'
             PROVE  FlashInv' /\ PathInv' /\ TableInv' /\ "overlap" \notin weak'
  BY DEF CopiesInv, CopiesOK, NoOverlap, Regular
<1>1. CASE Next
  <2>1. Regular /\ TypeInv'
    BY <1>1, WeakGrows, TypeNext DEF Regular
  <2>2. FlashInv /\ PathInv /\ TableInv /\ "overlap" \notin weak
    BY <2>1 DEF CopiesInv, CopiesOK, NoOverlap, Regular
  <2>3. SoundInv
    BY <2>1, <2>2 DEF MapInv, Sound, Regular
  <2>4. AttachStep => weak' = weak
    BY <2>1, <2>2, <2>3, TableAttach
  <2>5. "overlap" \notin weak'
    BY <1>1, <2>2, <2>4, OverlapLoads
  <2>6. Sound'
    BY <2>5 DEF Sound, Regular
  <2> QED
    BY <1>1, <2>1, <2>2, <2>3, <2>5, <2>6, CopiesStep
<1>2. CASE UNCHANGED vars
  <2>1. weak' = weak
    BY <1>2 DEF vars, hist
  <2>2. FlashInv /\ PathInv /\ TableInv /\ "overlap" \notin weak
    BY <2>1 DEF CopiesInv, CopiesOK, NoOverlap, Regular
  <2> QED
    BY <1>2, <2>1, <2>2, CopiesStutter
<1> QED
  BY <1>1, <1>2

\* CopiesInv holds of every state.
LEMMA CopiesInvariant == Spec => []CopiesInv
<1>1. Init => CopiesInv
  BY CopiesInit DEF CopiesInv, NoOverlap
<1> QED
  BY <1>1, CopiesNext, TypeInvariant, MapInvariant, PTL DEF Spec

\* nmbm_load_info_table never takes for a table what lies among the mapped blocks.
THEOREM TablesNeverOverlap == Spec => []NoOverlap
<1>1. CopiesInv => NoOverlap
  BY DEF CopiesInv
<1> QED
  BY <1>1, CopiesInvariant, PTL

----------------------------------------------------------------------------
(* The data.                                                                 *)

\* A remap or a repair is under way.
InRemap == Cont \in {"remap_erase", "remap_copy"}

\* What was written and not lost is where each table on the flash says, ...
DataFlash ==
    \A x \in Copies, lb \in intact :
        Tab(x).map[lb] \in Blocks /\ content[Tab(x).map[lb]] = DataOf(lb)

\* ... and where the map in memory says, or still where a remap takes it from.
Moving(lb) == InRemap /\ ~req.repair /\ lb = req.lb
DataRam ==
    Working => \A lb \in intact :
        /\ ~Moving(lb) => block_mapping[lb] \in Blocks /\ content[block_mapping[lb]] = DataOf(lb)
        /\ Moving(lb) => req.copy /\ content[req.old] = DataOf(lb)

\* No table has data where tables are written or blocks are handed out, ...
Clear == \A x \in Copies, lb \in intact : Tab(x).map[lb] \notin MgmtStart..mapping_blocks_top_ba
\* ... unless it is the old one of two, and erased next; nor where data is copied to.
ClearInv ==
    Working => /\ Cont # "older_main" => Clear
               /\ InRemap => \A x \in Copies, lb \in intact : Tab(x).map[lb] # req.new

\* The tables have the map of the driver, where it relies on that.
Saved == \A x \in Copies : Tab(x).map = block_mapping
Settled == {"ready", "remap_ret", "remap_full", "unmap_ret", "create_full", "create_ret"}
MustBeSaved ==
    \/ Cont \in Settled
    \/ pc = "e_erase"
    \/ InRemap /\ req.repair
    \/ Cont \in {"update", "map_loop"} /\ (~block_mapping_changed \/ protected)
SavedInv == Working /\ MustBeSaved => Saved

\* A new chip holds no data, and what is taken back is not known until it is copied.
\* An update leaves nothing behind that has to be erased, a remap has something to save.
LostInv ==
    /\ Cont \in {"sig_erase", "sig_program"} \/ caller = "map_loop" => intact = {}
    /\ caller = "map_loop" => ~protected
    /\ caller = "unmap_ret" /\ Cont # "remap_ret" => req.lb \notin intact
    /\ InRemap /\ req.repair => caller = "unmap_ret"
    /\ pc = "e_erase" => Cont # "update"
    /\ InRemap /\ ~req.repair => block_mapping_changed /\ ~protected

DataInv == DataFlash /\ DataRam /\ ClearInv /\ SavedInv /\ LostInv
DataOK == weak = {} => DataInv

\* The types that the data relies on.
LEMMA DataTypes ==
    TypeInv => /\ intact \subseteq Logical /\ content \in [Blocks -> Content]
               /\ req.lb \in Logical /\ req.old \in Blocks /\ req.new \in Blocks
               /\ block_mapping \in [Logical -> MaybeBlock]
  BY DEF TypeInv, FlashTypes, StateTypes, ControlTypes, HistoryTypes, Request

\* The driver maps nothing to where it hands out blocks.
LEMMA MappedClear ==
    ASSUME TypeInv, SoundInv, Working, NEW lb \in Logical
    PROVE  block_mapping[lb] \notin MgmtStart..mapping_blocks_top_ba
  BY Integral DEF SoundInv, AreaInv

\* While a table is written, the one that stays has the map of the driver, unless it
\* is the main one of an update.
LEMMA SavedKept ==
    ASSUME TableInv, Cont \in WriteConts, Cont # "once_backup", NEW x \in Kept
    PROVE  Tab(x).map = block_mapping
<1>1. Working
  BY DEF Working, WriteConts
<1>2. CASE Cont \in KeepsCache
  BY <1>1, <1>2 DEF TableInv, CacheInv
<1>3. CASE Cont \in KeepsMap
  BY <1>1, <1>3 DEF TableInv, CacheInv
<1>4. CASE Cont = "rebuild_main"
  BY <1>4 DEF Kept
<1> QED
  BY <1>2, <1>3, <1>4 DEF WriteConts, KeepsCache, KeepsMap

\* ... and so has each, once it is written.
LEMMA SavedDone ==
    ASSUME TableInv, pc \in WriteConts, pc # "once_backup"
    PROVE  Saved
<1>1. Cont = pc /\ Working
  BY DEF Cont, Working, WriteConts
<1>2. Extra = {at} \ {NoBlock}
  BY DEF Extra, WriteConts
<1>3. Copies \subseteq Kept \cup Extra
  BY <1>1 DEF TableInv, WhereInv
<1>4. \A x \in Extra : Tab(x).map = block_mapping
  BY <1>1, <1>2 DEF TableInv, CacheInv
<1> QED
  BY <1>1, <1>3, <1>4, SavedKept DEF Saved

\* A load that has found or made two tables ends with the map of both.
LEMMA SavedLoad ==
    ASSUME TableInv, Cont \in {"rescue_adopt", "load_ok"}, pc \in {Cont, "e_erase"}
    PROVE  Saved
<1>1. Working /\ pc \notin WriteConts /\ pc # "w_erase"
  BY DEF Working, WriteConts
<1>2. Copies \subseteq Kept
  BY <1>1 DEF Extra, TableInv, WhereInv
<1> QED
  BY <1>1, <1>2 DEF Saved, TableInv, CacheInv, KeepsMap

\* While a table is written, the range in hand is free of what the tables say,
\* unless an old one is still there.
LEMMA ClearRange ==
    ASSUME TypeInv, SoundInv, FlashInv, PathInv, TableInv, DataInv,
           pc \in {"w_erase", "w_program"}, NEW x \in Copies, NEW lb \in intact,
           pc = "w_erase" /\ Cont = "older_main" => x \in Kept
    PROVE  Tab(x).map[lb] \notin MgmtStart..mapping_blocks_top_ba
<1>1. Cont = w.cont /\ Cont \in WriteConts /\ Working /\ lb \in Logical
  BY KeptOne, DataTypes
<1>2. CASE Cont # "older_main"
  BY <1>1, <1>2 DEF DataInv, ClearInv, Clear
<1>3. CASE Cont = "older_main"
  <2>1. pc = "w_program" => Extra = {}
    BY DEF Extra, WriteConts
  <2>2. x \in Kept
    BY <1>1, <1>3, <2>1 DEF TableInv, WhereInv
  <2> QED
    BY <1>1, <1>3, <2>2, SavedKept, MappedClear
<1> QED
  BY <1>2, <1>3

\* Erasing or spoiling the next block of the range loses no data.
LEMMA DataRemove ==
    ASSUME TypeInv, SoundInv, FlashInv, PathInv, TableInv, DataInv,
           pc \in {"w_erase", "w_program"}, UNCHANGED intact,
           NEW b \in Blocks, w.ba <= b, b < w.limit, Removes(b),
           pc = "w_erase" => b \in Usable /\ IsFirst(b, Usable)
    PROVE  /\ DataFlash'
           /\ \A x \in Copies', lb \in intact :
                 Tab(x)'.map[lb] \notin MgmtStart..mapping_blocks_top_ba
           /\ \A x \in Blocks : content'[x] # content[x] => x \in MgmtStart..mapping_blocks_top_ba
<1>1. b \in MgmtStart..mapping_blocks_top_ba
  BY RangeAside, Integral
<1>2. Copies' = Copies \ {b} /\ \A x \in Blocks : x # b => Tab(x)' = Tab(x)
  BY RemovesOne
<1>3. ASSUME NEW x \in Copies, x # b, NEW lb \in intact
      PROVE  /\ Tab(x).map[lb] \notin MgmtStart..mapping_blocks_top_ba
             /\ x \in Blocks
  <2>1. x \in Blocks /\ x \in Int /\ b \in Int
    BY TabTypes, BlockTypes
  <2>2. pc = "w_erase" => x \in Kept
    <3>1. SUFFICES ASSUME pc = "w_erase", x \notin Kept PROVE FALSE
      OBVIOUS
    <3>2. x \in Usable /\ x <= b
      BY <3>1, OldFirst
    <3>3. b <= x
      BY <3>1, <3>2 DEF IsFirst
    <3> QED
      BY <1>3, <2>1, <3>2, <3>3
  <2> QED
    BY <2>1, <2>2, ClearRange
<1>4. \A x \in Blocks : content'[x] # content[x] => x = b
  BY DEF Removes
<1>5. DataFlash'
  <2> SUFFICES ASSUME NEW x \in Copies', NEW lb \in intact'
               PROVE  Tab(x)'.map[lb] \in Blocks /\ content'[Tab(x)'.map[lb]] = DataOf(lb)
    BY DEF DataFlash
  <2>1. x \in Copies /\ x # b /\ x \in Blocks /\ Tab(x)' = Tab(x) /\ lb \in intact
    BY <1>2, TabTypes
  <2>2. Tab(x).map[lb] \in Blocks /\ content[Tab(x).map[lb]] = DataOf(lb)
    BY <2>1 DEF DataInv, DataFlash
  <2>3. Tab(x).map[lb] # b
    BY <1>1, <1>3, <2>1
  <2> QED
    BY <1>4, <2>1, <2>2, <2>3
<1> QED
  BY <1>1, <1>2, <1>3, <1>4, <1>5

\* What a step of writing a table has to show.
LEMMA DataWritten ==
    ASSUME TypeInv, SoundInv, DataInv, pc \in {"w_erase", "w_program"}, Cont \in WriteConts,
           pc' \in {"w_erase", "w_program"} \cup WriteConts, Cont' = Cont,
           UNCHANGED <<block_mapping, mapping_blocks_top_ba, intact, caller, req, protected>>,
           DataFlash', Cont # "older_main" => Clear',
           \A x \in Blocks : content'[x] # content[x] => x \in MgmtStart..mapping_blocks_top_ba
    PROVE  DataInv'
<1>1. Working /\ ~InRemap /\ ~InRemap' /\ ~MustBeSaved'
  BY DEF Working, InRemap, MustBeSaved, Settled, WriteConts
<1>2. DataRam'
  <2> SUFFICES ASSUME NEW lb \in intact
               PROVE  block_mapping[lb] \in Blocks /\ content'[block_mapping[lb]] = DataOf(lb)
    BY <1>1 DEF DataRam, Moving
  <2>1. block_mapping[lb] \in Blocks /\ content[block_mapping[lb]] = DataOf(lb)
    BY <1>1 DEF DataInv, DataRam, Moving
  <2>2. block_mapping[lb] \notin MgmtStart..mapping_blocks_top_ba
    BY <1>1, MappedClear, DataTypes
  <2> QED
    BY <2>1, <2>2
<1>3. ClearInv' /\ SavedInv'
  BY <1>1 DEF ClearInv, SavedInv
<1>4. LostInv'
  <2>1. Cont' \notin {"sig_erase", "sig_program"} /\ Cont # "remap_ret" /\ pc' # "e_erase"
    BY DEF WriteConts
  <2>2. /\ caller = "map_loop" => intact = {} /\ ~protected
        /\ caller = "unmap_ret" => req.lb \notin intact
    BY <2>1 DEF LostInv, DataInv
  <2> QED
    BY <1>1, <2>1, <2>2 DEF LostInv
<1> QED
  BY <1>2, <1>3, <1>4 DEF DataInv

\* Writing a table touches no data, and the table has the map in memory.
LEMMA DataProgram ==
    ASSUME TypeInv, SoundInv, FlashInv, PathInv, TableInv, DataInv, pc = "w_program",
           content' = [content EXCEPT ![w.ba] = TableOf(info_table_cache)],
           UNCHANGED <<marked, intact>>
    PROVE  /\ DataFlash'
           /\ \A x \in Copies', lb \in intact :
                 Tab(x)'.map[lb] \notin MgmtStart..mapping_blocks_top_ba
           /\ \A x \in Blocks : content'[x] # content[x] => x \in MgmtStart..mapping_blocks_top_ba
<1>1. PICK k \in Blocks : k = w.ba
  BY DEF TypeInv, ControlInv
<1>2. /\ w.ba <= k /\ k < w.limit /\ Cont \in WriteConts /\ Working
      /\ k \in MgmtStart..mapping_blocks_top_ba
  <2>1. w.ba <= k /\ k < w.limit
    BY <1>1, Integral DEF SoundInv, RangeInv
  <2> QED
    BY <2>1, RangeAside, KeptOne, Integral
<1>3. /\ content'[k] = TableOf(info_table_cache)
      /\ \A x \in Blocks : x # k => content'[x] = content[x]
  BY <1>1, DataTypes
<1>4. ASSUME NEW x \in Copies'
      PROVE  \/ x \in Copies /\ x # k /\ Tab(x)' = Tab(x)
             \/ Tab(x)'.map = block_mapping
  <2>1. CASE x = k
    <3>1. content'[x] = TableOf(info_table_cache)
      BY <1>3, <2>1
    <3>2. info_table_cache.map = block_mapping
      BY <1>2 DEF TableInv, CacheInv
    <3> QED
      BY <3>1, <3>2 DEF Tab, TableOf
  <2>2. CASE x # k
    <3>1. x \in Blocks /\ content'[x] = content[x]
      BY <1>3, <2>2 DEF Copies, Tabled
    <3> QED
      BY <2>2, <3>1 DEF Copies, Tabled, Tab
  <2> QED
    BY <2>1, <2>2
<1>5. \A x \in Copies', lb \in intact :
         Tab(x)'.map[lb] \notin MgmtStart..mapping_blocks_top_ba
  <2> SUFFICES ASSUME NEW x \in Copies', NEW lb \in intact
               PROVE  Tab(x)'.map[lb] \notin MgmtStart..mapping_blocks_top_ba
    OBVIOUS
  <2>1. lb \in Logical
    BY DataTypes
  <2> QED
    BY <1>2, <1>4, <2>1, ClearRange, MappedClear
<1>6. DataFlash'
  <2> SUFFICES ASSUME NEW x \in Copies', NEW lb \in intact
               PROVE  Tab(x)'.map[lb] \in Blocks /\ content'[Tab(x)'.map[lb]] = DataOf(lb)
    BY DEF DataFlash
  <2>1. Tab(x)'.map[lb] \in Blocks /\ content[Tab(x)'.map[lb]] = DataOf(lb)
    <3>1. CASE x \in Copies /\ x # k /\ Tab(x)' = Tab(x)
      BY <3>1 DEF DataInv, DataFlash
    <3>2. CASE Tab(x)'.map = block_mapping
      <4>1. ~Moving(lb)
        BY <1>2 DEF Moving, InRemap, WriteConts
      <4> QED
        BY <1>2, <3>2, <4>1 DEF DataInv, DataRam
    <3> QED
      BY <1>4, <3>1, <3>2
  <2>2. Tab(x)'.map[lb] # k
    BY <1>2, <1>5
  <2> QED
    BY <1>3, <2>1, <2>2
<1> QED
  BY <1>2, <1>3, <1>5, <1>6

\* nmbm_write_mgmt_range
LEMMA DataWrite ==
    TypeInv /\ SoundInv /\ FlashInv /\ PathInv /\ TableInv /\ DataInv
    /\ (WriteStep \/ (EraseStep /\ pc = "w_erase")) => DataInv'
<1> SUFFICES ASSUME TypeInv, SoundInv, FlashInv, PathInv, TableInv, DataInv,
                    WriteStep \/ (EraseStep /\ pc = "w_erase")
             PROVE  DataInv'
  OBVIOUS
<1>1. /\ pc \in {"w_erase", "w_program"}
      /\ UNCHANGED <<block_mapping, mapping_blocks_top_ba, intact, caller, req, protected>>
  BY DEF WriteStep, WriteErase, WriteProgram, WriteProgramFails, WriteNoRoom, EraseStep, EraseNext,
      EraseFails, EraseDone, maps, tops, hist
<1>2. Cont = w.cont /\ w.cont \in WriteConts /\ w \in Range /\ Working
  BY <1>1, KeptOne, PathTypes
<1>3. ASSUME NEW b \in Blocks, w.ba <= b, b < w.limit, Removes(b),
             pc = "w_erase" => b \in Usable /\ IsFirst(b, Usable),
             pc' \in {"w_erase", "w_program"}, w'.cont = w.cont
      PROVE  DataInv'
  <2>1. /\ DataFlash'
        /\ \A x \in Copies', lb \in intact :
              Tab(x)'.map[lb] \notin MgmtStart..mapping_blocks_top_ba
        /\ \A x \in Blocks : content'[x] # content[x] => x \in MgmtStart..mapping_blocks_top_ba
    BY <1>1, <1>3, DataRemove
  <2>2. Clear'
    BY <1>1, <2>1 DEF Clear
  <2>3. Cont' = Cont
    BY <1>2, <1>3 DEF Cont
  <2> QED
    BY <1>1, <1>2, <1>3, <2>1, <2>2, <2>3, DataWritten
<1>4. CASE WriteErase
  <2>1. PICK b \in Usable : /\ IsFirst(b, Usable)
                            /\ content' = [content EXCEPT ![b] = Holds("erased")]
                            /\ w' = [w EXCEPT !.ba = b]
    BY <1>4 DEF WriteErase
  <2>2. pc' = "w_program" /\ w'.cont = w.cont
    BY <1>2, <1>4, <2>1 DEF WriteErase, Range
  <2>3. b \in Blocks /\ w.ba <= b /\ b < w.limit
    BY <2>1, PassedOver
  <2>4. Removes(b)
    BY <1>4, <2>1, <2>3, PathTypes DEF WriteErase, Removes, Holds
  <2> QED
    BY <1>3, <2>1, <2>2, <2>3, <2>4
<1>5. CASE WriteProgram
  <2>1. pc = "w_program" /\ pc' = w.cont /\ w' = w /\ UNCHANGED marked
        /\ content' = [content EXCEPT ![w.ba] = TableOf(info_table_cache)]
    BY <1>5 DEF WriteProgram
  <2>2. /\ DataFlash'
        /\ \A x \in Copies', lb \in intact :
              Tab(x)'.map[lb] \notin MgmtStart..mapping_blocks_top_ba
        /\ \A x \in Blocks : content'[x] # content[x] => x \in MgmtStart..mapping_blocks_top_ba
    BY <1>1, <2>1, DataProgram
  <2>3. Clear'
    BY <1>1, <2>2 DEF Clear
  <2>4. Cont' = Cont
    BY <1>2, <2>1 DEF Cont, WriteConts
  <2> QED
    BY <1>1, <1>2, <2>1, <2>2, <2>3, <2>4, DataWritten
<1>6. CASE WriteProgramFails
  <2>1. PICK b \in Blocks : b = w.ba
    BY <1>6 DEF WriteProgramFails, TypeInv, ControlInv
  <2>2. pc = "w_program" /\ pc' = "w_erase" /\ w'.cont = w.cont
    BY <1>2, <1>6 DEF WriteProgramFails, Range
  <2>3. w.ba <= b /\ b < w.limit
    BY <2>1, <2>2, Integral DEF SoundInv, RangeInv
  <2>4. Removes(b)
    BY <1>6, <2>1, PathTypes DEF WriteProgramFails, Removes, Ruin, MarkBad, Holds
  <2> QED
    BY <1>3, <2>2, <2>3, <2>4
<1>7. CASE WriteNoRoom
  <2>1. pc' = w.cont /\ w' = w /\ UNCHANGED flash
    BY <1>7 DEF WriteNoRoom
  <2>2. Cont' = Cont
    BY <1>2, <2>1 DEF Cont, WriteConts
  <2>3. DataFlash' /\ UNCHANGED content
    BY <1>1, <2>1, SameFlash DEF DataInv, DataFlash, flash
  <2>4. Cont # "older_main" => Clear'
    BY <1>1, <1>2, <2>1, SameFlash DEF DataInv, ClearInv, Clear
  <2> QED
    BY <1>1, <1>2, <2>1, <2>2, <2>3, <2>4, DataWritten
<1>8. CASE EraseFails /\ pc = "w_erase"
  <2>1. PICK b \in Usable : /\ IsFirst(b, Usable)
                            /\ FailErase(b)
                            /\ MarkBad(b, FoundMarked(b))
                            /\ w' = [w EXCEPT !.ba = b + 1]
    BY <1>8 DEF EraseFails
  <2>2. pc' = "w_erase" /\ w'.cont = w.cont
    BY <1>2, <1>8, <2>1 DEF EraseFails, Range
  <2>3. b \in Blocks /\ w.ba <= b /\ b < w.limit
    BY <2>1, PassedOver
  <2>4. Removes(b)
    BY <2>1, <2>3, PathTypes DEF Removes, FailErase, Ruin, MarkBad, Holds
  <2> QED
    BY <1>3, <2>1, <2>2, <2>3, <2>4
<1> QED
  BY <1>4, <1>5, <1>6, <1>7, <1>8 DEF WriteStep, EraseStep, EraseNext, EraseDone

\* When nothing is in hand the range is free of what the tables say.
LEMMA ClearNow ==
    ASSUME TypeInv, SoundInv, TableInv, DataInv, Working, pc \notin {"w_erase", "w_program"}
    PROVE  Clear
<1>1. CASE Cont # "older_main"
  BY <1>1 DEF DataInv, ClearInv
<1>2. CASE Cont = "older_main"
  <2>1. pc = "older_main"
    BY <1>2, PathTypes DEF Cont, EraseConts
  <2>2. Saved
    BY <2>1, SavedDone DEF WriteConts
  <2> QED
    BY <2>2, MappedClear, DataTypes DEF Saved, Clear
<1> QED
  BY <1>1, <1>2

\* Steps that change neither what blocks hold nor the map.
LEMMA DataStill ==
    ASSUME TypeInv, SoundInv, TableInv, DataInv, Working, ~InRemap, ~InRemap',
           pc \notin {"w_erase", "w_program"}, MustBeSaved' => Saved, LostInv',
           UNCHANGED <<content, block_mapping, intact>>, Copies' = Copies,
           MgmtStart..mapping_blocks_top_ba' \subseteq MgmtStart..mapping_blocks_top_ba
    PROVE  DataInv'
<1>1. \A x : Tab(x)' = Tab(x)
  BY DEF Tab
<1>2. DataFlash'
  BY <1>1 DEF DataInv, DataFlash
<1>3. DataRam'
  BY <1>1 DEF DataInv, DataRam, Moving
<1>4. Clear'
  BY <1>1, ClearNow DEF Clear
<1>5. SavedInv'
  BY <1>1 DEF SavedInv, Saved
<1> QED
  BY <1>2, <1>3, <1>4, <1>5 DEF DataInv, ClearInv

\* Steps that change neither the flash nor the map.
LEMMA DataQuiet ==
    ASSUME TypeInv, SoundInv, TableInv, DataInv, Working, ~InRemap, ~InRemap',
           pc \notin {"w_erase", "w_program"}, MustBeSaved' => Saved, LostInv',
           UNCHANGED <<flash, block_mapping, intact>>,
           MgmtStart..mapping_blocks_top_ba' \subseteq MgmtStart..mapping_blocks_top_ba
    PROVE  DataInv'
<1>1. Copies' = Copies /\ content' = content
  BY SameFlash DEF flash
<1> QED
  BY <1>1, DataStill

\* nmbm_update_info_table and nmbm_rebuild_info_table
LEMMA DataUpdate ==
    TypeInv /\ SoundInv /\ PathInv /\ TableInv /\ DataInv /\ weak' = {}
    /\ (UpdateStep \/ RebuildStep) => DataInv'
<1> SUFFICES ASSUME TypeInv, SoundInv, PathInv, TableInv, DataInv, weak' = {},
                    UpdateStep \/ RebuildStep
             PROVE  DataInv'
  OBVIOUS
<1>1. ~RebuildMainFailed
  BY DEF RebuildMainFailed
<1>2. /\ pc \in {"update", "once_backup", "once_main", "rebuild_main", "rebuild_backup"}
      /\ UNCHANGED <<flash, block_mapping, mapping_blocks_top_ba, intact, protected, caller, req>>
  <2>1. UpdateStep => pc \in {"update", "once_backup", "once_main"} /\
           UNCHANGED <<flash, block_mapping, mapping_blocks_top_ba, intact, protected, caller, req>>
    BY DEF UpdateStep, UpdateDone, UpdateOnce, BackupWritten, BackupFailed, MainWritten, maps, tops,
        hist, Goto, WriteTable, WorkOn, MarkTablesClean
  <2>2. RebuildStep => pc \in {"once_main", "rebuild_main", "rebuild_backup"} /\
           UNCHANGED <<flash, block_mapping, mapping_blocks_top_ba, intact, protected, caller, req>>
    BY <1>1 DEF RebuildStep, MainFailedAlone, RebuildMainWritten, RebuildBackupWritten,
        RebuildBackupFailed, maps, tops, hist, Goto, WriteTable, EraseRange, WorkOn,
        MarkTablesClean, RebuildTables
  <2> QED
    BY <2>1, <2>2
<1>3. Cont = pc /\ Working /\ ~InRemap
  BY <1>2 DEF Cont, Working, InRemap
<1>4. CASE UpdateDone
  <2>1. pc = "update" /\ pc' = caller /\ (protected \/ ~block_mapping_changed)
    BY <1>4 DEF UpdateDone, Goto
  <2>2. caller \notin {"off", "map_loop"}
    BY <1>3, <2>1 DEF PathInv, ReqInv
  <2>3. pc' \in Settled /\ Cont' = pc' /\ ~InRemap'
    BY <2>1, <2>2, PathTypes DEF Callers, Settled, Cont, InRemap
  <2>4. Saved
    BY <1>3, <2>1 DEF DataInv, SavedInv, MustBeSaved
  <2>5. LostInv'
    BY <1>2, <1>3, <2>1, <2>2, <2>3 DEF DataInv, LostInv, Settled
  <2> QED
    BY <1>2, <1>3, <2>3, <2>4, <2>5, DataQuiet
<1>5. CASE UpdateOnce \/ BackupWritten \/ BackupFailed \/ MainFailedAlone
  <2>1. pc' = "w_erase" /\ w'.cont \in {"once_backup", "once_main", "rebuild_main"}
    <3>1. CASE UpdateOnce
      BY <3>1 DEF UpdateOnce, WriteTable, WorkOn
    <3>2. CASE BackupWritten
      BY <3>2 DEF BackupWritten, WriteTable, WorkOn
    <3>3. CASE BackupFailed
      BY <3>3 DEF BackupFailed, WriteTable, WorkOn
    <3>4. CASE MainFailedAlone
      BY <3>4 DEF MainFailedAlone, RebuildTables, WorkOn
    <3> QED
      BY <1>5, <3>1, <3>2, <3>3, <3>4
  <2>2. Cont' \in {"once_backup", "once_main", "rebuild_main"} /\ ~InRemap' /\ ~MustBeSaved'
    BY <2>1 DEF Cont, InRemap, MustBeSaved, Settled
  <2>3. LostInv'
    BY <1>2, <1>3, <2>2 DEF DataInv, LostInv
  <2> QED
    BY <1>2, <1>3, <2>2, <2>3, DataQuiet
<1>6. CASE \/ MainWritten \/ RebuildMainWritten \/ RebuildBackupWritten \/ RebuildBackupFailed
  <2>1. /\ pc \in {"once_main", "rebuild_main", "rebuild_backup"}
        /\ \/ pc' = OnceDone
           \/ pc' = "w_erase" /\ w'.cont = "rebuild_backup"
           \/ pc' = "e_erase" /\ w'.cont = OnceDone
    BY <1>6 DEF MainWritten, RebuildMainWritten, RebuildBackupWritten, RebuildBackupFailed,
        WriteTable, EraseRange, WorkOn, Goto
  <2>2. Saved
    BY <2>1, SavedDone DEF WriteConts
  <2>3. Cont' \in {"update", "map_loop", "rebuild_backup"} /\ ~InRemap'
    BY <2>1 DEF Cont, InRemap, OnceDone
  <2>4. pc' = "e_erase" => Cont' = "map_loop"
    <3>1. CASE MainWritten
      BY <1>3, <3>1, <2>1 DEF MainWritten, Goto, OnceDone
    <3>2. CASE RebuildMainWritten \/ RebuildBackupFailed
      BY <1>3, <3>2 DEF RebuildMainWritten, RebuildBackupFailed, Goto, OnceDone, WriteTable, WorkOn
    <3>3. CASE RebuildBackupWritten
      <4>1. caller = "map_loop"
        BY <1>3, <3>3 DEF RebuildBackupWritten, PathInv, LowInv
      <4> QED
        BY <3>3, <4>1 DEF RebuildBackupWritten, EraseRange, WorkOn, OnceDone, Cont
    <3> QED
      BY <1>6, <3>1, <3>2, <3>3
  <2>5. LostInv'
    BY <1>2, <1>3, <2>1, <2>3, <2>4 DEF DataInv, LostInv
  <2> QED
    BY <1>2, <1>3, <2>2, <2>3, <2>5, DataQuiet
<1> QED
  BY <1>1, <1>4, <1>5, <1>6 DEF UpdateStep, RebuildStep

\* Where the rescue functions go.
Rescues == {"rescue_tmp", "rescue_main", "rescue_front", "rescue_back", "rescue_adopt", "load_ok"}
RescueGoes ==
    \/ pc' = "ready" /\ caller' = "off"
    \/ /\ UNCHANGED <<caller, req, protected>>
       /\ pc' = "update" \/ (pc' \in {"w_erase", "e_erase"} /\ w'.cont \in Rescues)

\* The rescue functions change neither the flash nor the map.
LEMMA RescueQuiet ==
    ASSUME RescueStep
    PROVE  /\ pc \in {"once_main", "older_main", "older_backup"} \cup Rescues
           /\ UNCHANGED <<flash, block_mapping, mapping_blocks_top_ba, intact>>
<1>1. pc \in {"once_main", "older_main", "older_backup"} \cup Rescues
  BY DEF RescueMain, RescueTmpFailed, RescueTmpWritten, RescueMainDone, RescueFrontWritten,
      RescueFrontFailed, RescueBackFailed, RescueBackWritten, RescueBackAdopted, LoadOk,
      OlderWritten, OlderMainFailed, OlderBackupFailed, RescueStep, Rescues
<1>2. UNCHANGED <<flash, intact>>
  BY DEF RescueMain, RescueTmpFailed, RescueTmpWritten, RescueMainDone, RescueFrontWritten,
      RescueFrontFailed, RescueBackFailed, RescueBackWritten, RescueBackAdopted, LoadOk,
      OlderWritten, OlderMainFailed, OlderBackupFailed, RescueStep, hist
<1>3. UNCHANGED block_mapping
  BY DEF RescueMain, RescueTmpFailed, RescueTmpWritten, RescueMainDone, RescueFrontWritten,
      RescueFrontFailed, RescueBackFailed, RescueBackWritten, RescueBackAdopted, LoadOk,
      OlderWritten, OlderMainFailed, OlderBackupFailed, RescueStep, maps, MarkTablesClean
<1>4. UNCHANGED mapping_blocks_top_ba
  BY DEF RescueMain, RescueTmpFailed, RescueTmpWritten, RescueMainDone, RescueFrontWritten,
      RescueFrontFailed, RescueBackFailed, RescueBackWritten, RescueBackAdopted, LoadOk,
      OlderWritten, OlderMainFailed, OlderBackupFailed, RescueStep, tops
<1> QED
  BY <1>1, <1>2, <1>3, <1>4

\* ... and go on to the next write or erase, or end.
LEMMA RescueWays ==
    ASSUME RescueStep
    PROVE  RescueGoes
<1>1. ASSUME NEW label, NEW start, NEW limit, NEW cont, WorkOn(label, start, limit, cont)
      PROVE  pc' = label /\ w'.cont = cont /\ UNCHANGED req
  BY <1>1 DEF WorkOn
<1>2. ASSUME NEW ok, LoadDone(ok) PROVE RescueGoes
  BY <1>2 DEF LoadDone, RescueGoes
<1> USE DEF RescueGoes, Rescues, WriteTable, EraseRange, Goto
<1>3. CASE RescueMain
  BY <1>1, <1>3 DEF RescueMain
<1>4. CASE RescueTmpFailed
  BY <1>1, <1>4 DEF RescueTmpFailed
<1>5. CASE RescueTmpWritten
  BY <1>1, <1>5 DEF RescueTmpWritten
<1>6. CASE RescueMainDone
  BY <1>6 DEF RescueMainDone
<1>7. CASE RescueFrontWritten
  BY <1>1, <1>7 DEF RescueFrontWritten
<1>8. CASE RescueFrontFailed
  BY <1>1, <1>2, <1>8 DEF RescueFrontFailed
<1>9. CASE RescueBackFailed
  BY <1>1, <1>2, <1>9 DEF RescueBackFailed
<1>10. CASE RescueBackWritten
  BY <1>1, <1>10 DEF RescueBackWritten
<1>11. CASE RescueBackAdopted
  BY <1>2, <1>11 DEF RescueBackAdopted
<1>12. CASE LoadOk
  BY <1>2, <1>12 DEF LoadOk
<1>13. CASE OlderWritten
  BY <1>2, <1>13 DEF OlderWritten
<1>14. CASE OlderMainFailed
  BY <1>1, <1>14 DEF OlderMainFailed
<1>15. CASE OlderBackupFailed
  BY <1>2, <1>15 DEF OlderBackupFailed
<1> QED
  BY <1>3, <1>4, <1>5, <1>6, <1>7, <1>8, <1>9, <1>10, <1>11, <1>12, <1>13, <1>14, <1>15
     DEF RescueStep

\* The rescue functions keep the data.
LEMMA DataRescue ==
    TypeInv /\ SoundInv /\ PathInv /\ TableInv /\ DataInv /\ RescueStep => DataInv'
<1> SUFFICES ASSUME TypeInv, SoundInv, PathInv, TableInv, DataInv, RescueStep PROVE DataInv'
  OBVIOUS
<1>1. /\ pc \in {"once_main", "older_main", "older_backup"} \cup Rescues
      /\ UNCHANGED <<flash, block_mapping, mapping_blocks_top_ba, intact>> /\ RescueGoes
  BY RescueQuiet, RescueWays
<1>2. Cont = pc /\ Working /\ ~InRemap /\ pc \notin {"w_erase", "w_program"}
  BY <1>1 DEF Cont, Working, InRemap, Rescues
<1>3. Saved
  <2>1. CASE pc \in {"rescue_adopt", "load_ok"}
    BY <1>2, <2>1, SavedLoad
  <2>2. CASE pc \in WriteConts /\ pc # "once_backup"
    BY <2>2, SavedDone
  <2> QED
    BY <1>1, <2>1, <2>2 DEF WriteConts, Rescues
<1>4. ~InRemap' /\ LostInv'
  <2>1. CASE pc' = "ready" /\ caller' = "off"
    BY <2>1 DEF Cont, InRemap, LostInv
  <2>2. CASE UNCHANGED <<caller, req, protected>> /\ Cont' \in Rescues \cup {"update"}
             /\ (pc' = "e_erase" => Cont' # "update")
    <3>1. /\ caller = "map_loop" => intact = {} /\ ~protected
          /\ caller = "unmap_ret" => req.lb \notin intact
      BY <1>1, <1>2 DEF DataInv, LostInv, Rescues
    <3>2. ~InRemap' /\ Cont' \notin {"sig_erase", "sig_program"}
      BY <2>2 DEF InRemap, Rescues
    <3> QED
      BY <1>1, <2>2, <3>1, <3>2 DEF LostInv
  <2>3. CASE /\ UNCHANGED <<caller, req, protected>>
             /\ pc' = "update" \/ (pc' \in {"w_erase", "e_erase"} /\ w'.cont \in Rescues)
    <3>1. Cont' \in Rescues \cup {"update"} /\ (pc' = "e_erase" => Cont' # "update")
      BY <2>3 DEF Cont, Rescues
    <3> QED
      BY <2>2, <2>3, <3>1
  <2> QED
    BY <1>1, <2>1, <2>3 DEF RescueGoes
<1> QED
  BY <1>1, <1>2, <1>3, <1>4, DataQuiet

\* A step that leaves the tables and what they point to alone.
LEMMA FlashKept ==
    ASSUME TypeInv, DataFlash, Aside, intact' \subseteq intact,
           \A x \in Copies, lb \in intact' : content'[Tab(x).map[lb]] = content[Tab(x).map[lb]]
    PROVE  DataFlash'
<1>1. Copies' = Copies /\ \A x \in Copies : Tab(x)' = Tab(x)
  BY AsideFlash, TabTypes
<1> QED
  BY <1>1 DEF DataFlash

\* What nmbm_erase_range erases lies in the management area.
LEMMA EraseArea ==
    ASSUME TypeInv, SoundInv, PathInv, pc = "e_erase", caller # "map_loop", w.cont # "update",
           NEW b \in Usable
    PROVE  b \in MgmtStart..mapping_blocks_top_ba
<1>1. /\ b \in Blocks /\ b \in Int /\ w.ba <= b /\ b < w.limit /\ Cont = w.cont /\ Working
      /\ w.cont \in EraseConts
  <2>1. w.cont \in EraseConts
    BY PathTypes
  <2>2. b \in Blocks /\ w.ba <= b /\ b < w.limit
    BY Integral DEF Usable
  <2> QED
    BY <2>1, <2>2, BlockTypes DEF Cont, Working, EraseConts
<1>2. /\ MgmtStart <= mapping_blocks_ba /\ mapping_blocks_ba <= mapping_blocks_top_ba
      /\ MgmtStart \in Int /\ mapping_blocks_ba \in Int /\ mapping_blocks_top_ba \in Int
      /\ w.ba \in Int /\ w.limit \in Int /\ at \in Int /\ main_table_ba \in Int
  BY <1>1, Integral DEF SoundInv, AreaInv
<1>3. CASE w.cont = "rescue_adopt"
  <2>1. w.ba >= mapping_blocks_ba /\ w.limit = at /\ at < mapping_blocks_top_ba
    BY <1>1, <1>3, PathTypes DEF PathInv, SpanInv, SoundInv, RangeInv
  <2> QED
    BY <1>1, <1>2, <2>1
<1>4. CASE w.cont = "load_ok"
  <2>1. /\ w.ba > main_table_ba /\ w.limit = backup_table_ba
        /\ backup_table_ba = 0 \/ backup_table_ba <= mapping_blocks_ba
        /\ main_table_ba >= MgmtStart /\ backup_table_ba # 0
    BY <1>1, <1>4 DEF PathInv, SpanInv, SoundInv, TablesInv, Calm
  <2> QED
    BY <1>1, <1>2, <2>1
<1>5. w.cont # "map_loop"
  BY <1>1 DEF PathInv, ReqInv
<1> QED
  BY <1>1, <1>3, <1>4, <1>5 DEF EraseConts

\* nmbm_erase_range
LEMMA DataErase ==
    TypeInv /\ SoundInv /\ FlashInv /\ PathInv /\ TableInv /\ DataInv /\ EraseStep /\ pc = "e_erase"
    => DataInv'
<1> SUFFICES ASSUME TypeInv, SoundInv, FlashInv, PathInv, TableInv, DataInv, EraseStep,
                    pc = "e_erase"
             PROVE  DataInv'
  OBVIOUS
<1>1. /\ Working /\ Cont \in EraseConts /\ Cont = w.cont /\ ~InRemap
      /\ UNCHANGED <<block_mapping, block_mapping_changed, protected, mapping_blocks_top_ba, intact,
                     caller, req>>
  BY PathTypes DEF Working, Cont, EraseConts, EraseStep, EraseNext, EraseFails, EraseDone, maps,
      tops, hist, InRemap
<1>2. /\ Saved /\ (caller = "map_loop" => intact = {} /\ ~protected) /\ Cont # "update"
      /\ caller = "unmap_ret" => req.lb \notin intact
  BY <1>1 DEF DataInv, SavedInv, MustBeSaved, LostInv, EraseConts
<1>3. /\ Aside /\ Copies' = Copies /\ \A x \in Copies : Tab(x)' = Tab(x)
  BY EraseStepAside, AsideFlash, TabTypes
<1>4. pc' \in {"e_erase"} \cup EraseConts /\ Cont' = Cont
  <2>1. CASE EraseNext
    BY <1>1, <2>1, PathTypes DEF EraseNext, Cont, Range
  <2>2. CASE EraseFails
    BY <1>1, <2>2, PathTypes DEF EraseFails, Cont, Range
  <2>3. CASE EraseDone
    BY <1>1, <2>3 DEF EraseDone, Cont, EraseConts
  <2> QED
    BY <2>1, <2>2, <2>3 DEF EraseStep
<1>5. \A b \in Blocks : content'[b] # content[b] => b \in Usable
  BY PathTypes DEF EraseStep, EraseNext, EraseFails, EraseDone, FailErase, Ruin, flash
<1>6. ASSUME NEW lb \in intact
      PROVE  /\ lb \in Logical /\ block_mapping[lb] \in Blocks
             /\ content[block_mapping[lb]] = DataOf(lb)
             /\ content'[block_mapping[lb]] = content[block_mapping[lb]]
             /\ block_mapping[lb] \notin MgmtStart..mapping_blocks_top_ba
  <2>1. lb \in Logical /\ caller # "map_loop" /\ w.cont # "update"
    BY <1>1, <1>2, DataTypes
  <2>2. block_mapping[lb] \in Blocks /\ content[block_mapping[lb]] = DataOf(lb)
    BY <1>1 DEF DataInv, DataRam, Moving
  <2>3. block_mapping[lb] \notin MgmtStart..mapping_blocks_top_ba
    BY <1>1, <2>1, MappedClear
  <2> QED
    BY <1>5, <2>1, <2>2, <2>3, EraseArea
<1>7. DataFlash'
  <2>1. \A x \in Copies, lb \in intact' : content'[Tab(x).map[lb]] = content[Tab(x).map[lb]]
    BY <1>1, <1>2, <1>6 DEF Saved
  <2> QED
    BY <1>1, <1>3, <2>1, FlashKept DEF DataInv
<1>8. ~InRemap' /\ Saved' /\ DataRam'
  <2>1. ~InRemap'
    BY <1>1, <1>4 DEF InRemap
  <2> QED
    BY <1>1, <1>2, <1>3, <1>6, <2>1 DEF Saved, DataRam, Moving
<1>9. ClearInv' /\ SavedInv'
  <2>1. Clear'
    BY <1>1, <1>2, <1>3, <1>6 DEF Clear, Saved
  <2> QED
    BY <1>8, <2>1 DEF ClearInv, SavedInv
<1>10. LostInv'
  <2>1. Cont' \notin {"sig_erase", "sig_program"}
    BY <1>1, <1>4 DEF EraseConts
  <2> QED
    BY <1>1, <1>2, <1>4, <1>8, <2>1 DEF LostInv
<1> QED
  BY <1>7, <1>8, <1>9, <1>10 DEF DataInv

\* The steps of nmbm_create_info_table: there is no data yet.
LEMMA DataMap ==
    TypeInv /\ SoundInv /\ PathInv /\ TableInv /\ DataInv /\ MapStep => DataInv'
<1> SUFFICES ASSUME TypeInv, SoundInv, PathInv, TableInv, DataInv, MapStep PROVE DataInv'
  OBVIOUS
<1>1. /\ pc \in {"map_loop", "create_full", "create_ret"} /\ Cont = pc /\ Working /\ ~InRemap
      /\ UNCHANGED <<flash, intact, protected>>
  BY DEF MapStep, MapNext, MapLoopDone, MapLoopFull, CreateFull, CreateDone, Cont, Working, InRemap,
      hist
<1>2. CASE MapNext
  <2>1. /\ pc = "map_loop" /\ pc' = "map_loop" /\ UNCHANGED <<caller, w, at, req>>
        /\ block_mapping_changed' = TRUE
    BY <1>2 DEF MapNext, MapTo, ctl
  <2>2. caller = "map_loop" /\ intact = {} /\ ~protected
    BY <1>1, <2>1 DEF PathInv, ReqInv, DataInv, LostInv
  <2>3. Cont' = "map_loop" /\ ~InRemap' /\ ~MustBeSaved'
    BY <1>1, <2>1, <2>2 DEF Cont, InRemap, MustBeSaved, Settled
  <2> QED
    BY <1>1, <2>1, <2>2, <2>3
       DEF DataInv, DataFlash, DataRam, ClearInv, Clear, SavedInv, LostInv
<1>3. CASE MapLoopDone \/ MapLoopFull
  <2>1. /\ pc = "map_loop" /\ pc' = "update" /\ caller' \in {"create_ret", "create_full"}
        /\ UNCHANGED <<block_mapping, block_mapping_changed, mapping_blocks_top_ba>>
    BY <1>3 DEF MapLoopDone, MapLoopFull, UpdateTables, maps, tops
  <2>2. Cont' = "update" /\ ~InRemap' /\ LostInv'
    BY <2>1 DEF Cont, InRemap, LostInv
  <2>3. MustBeSaved' => Saved
    <3>1. MustBeSaved' => MustBeSaved
      BY <1>1, <2>1, <2>2 DEF MustBeSaved, Settled
    <3> QED
      BY <1>1, <3>1 DEF DataInv, SavedInv
  <2> QED
    BY <1>1, <2>1, <2>2, <2>3, DataQuiet
<1>4. CASE CreateFull
  <2>1. /\ pc = "create_full" /\ pc' = "update" /\ caller' = "create_ret"
        /\ UNCHANGED block_mapping /\ mapping_blocks_top_ba' = mapping_blocks_ba
    BY <1>4 DEF CreateFull, UpdateTables, maps
  <2>2. Cont' = "update" /\ ~InRemap' /\ LostInv'
    BY <2>1 DEF Cont, InRemap, LostInv
  <2>3. Saved
    BY <1>1, <2>1 DEF DataInv, SavedInv, MustBeSaved, Settled
  <2>4. MgmtStart..mapping_blocks_top_ba' \subseteq MgmtStart..mapping_blocks_top_ba
    BY <1>1, <2>1, Integral DEF SoundInv, AreaInv
  <2> QED
    BY <1>1, <2>1, <2>2, <2>3, <2>4, DataQuiet
<1>5. CASE CreateDone
  <2>1. /\ pc = "create_ret" /\ pc' = "ready" /\ caller' = "off"
        /\ UNCHANGED <<block_mapping, mapping_blocks_top_ba>>
    BY <1>5 DEF CreateDone, maps, tops
  <2>2. Cont' = "ready" /\ ~InRemap' /\ LostInv'
    BY <2>1 DEF Cont, InRemap, LostInv
  <2>3. Saved
    BY <1>1, <2>1 DEF DataInv, SavedInv, MustBeSaved, Settled
  <2> QED
    BY <1>1, <2>1, <2>2, <2>3, DataQuiet
<1> QED
  BY <1>2, <1>3, <1>4, <1>5 DEF MapStep

\* The block a remap copies to is that of its logical block, and of no other.
LEMMA RemapTarget ==
    ASSUME TypeInv, SoundInv, PathInv, caller = "unmap_ret" \/ InRemap, Working
    PROVE  /\ req.lb \in Logical /\ block_mapping[req.lb] = req.new /\ req.new \in Blocks
           /\ \A lb \in Logical : lb # req.lb => block_mapping[lb] # req.new
<1>1. req.lb \in Logical /\ req.new \in Blocks
  BY DataTypes
<1>2. block_mapping[req.lb] = req.new
  BY DEF PathInv, ReqInv, InRemap
<1>3. OneToOne(block_mapping)
  <2>1. pc \notin {"off", "dead"}
    BY DEF Working, Cont
  <2> QED
    BY <2>1 DEF SoundInv, MapsOneToOne, Injective
<1> QED
  BY <1>1, <1>2, <1>3, BlockTypes DEF OneToOne

\* unmap_block_nmbm goes on to copy, when that was asked for.
LEMMA DataUnmapDone ==
    ASSUME TypeInv, SoundInv, PathInv, TableInv, DataInv, UnmapDone
    PROVE  DataInv'
<1>1. /\ pc = "unmap_ret" /\ Cont = pc /\ Working /\ ~InRemap /\ caller = "unmap_ret"
      /\ UNCHANGED <<flash, block_mapping, mapping_blocks_top_ba, intact, caller, req>>
      /\ pc' \in {"remap_erase", "remap_ret"} /\ Cont' = pc'
      /\ pc' = "remap_erase" => req.repair
  BY DEF UnmapDone, Goto, maps, tops, hist, Cont, Working, InRemap, PathInv, ReqInv
<1>2. Saved /\ req.lb \notin intact
  BY <1>1 DEF DataInv, SavedInv, MustBeSaved, Settled, LostInv
<1>3. LostInv'
  BY <1>1, <1>2 DEF LostInv, InRemap
<1>4. CASE pc' = "remap_ret"
  <2>1. ~InRemap'
    BY <1>1, <1>4 DEF InRemap
  <2> QED
    BY <1>1, <1>2, <1>3, <2>1, DataQuiet
<1>5. CASE pc' = "remap_erase"
  <2>1. Copies' = Copies /\ content' = content /\ \A x : Tab(x)' = Tab(x)
    BY <1>1, SameFlash DEF flash
  <2>2. DataFlash' /\ Saved'
    BY <1>1, <1>2, <2>1 DEF DataInv, DataFlash, Saved
  <2>3. DataRam'
    BY <1>1, <1>5, <2>1 DEF DataInv, DataRam, Moving
  <2>4. Clear'
    BY <1>1, <2>1, ClearNow DEF Clear
  <2>5. ASSUME NEW x \in Copies, NEW lb \in intact PROVE Tab(x).map[lb] # req.new
    BY <1>1, <1>2, RemapTarget, DataTypes DEF Saved
  <2> QED
    BY <1>1, <1>3, <2>1, <2>2, <2>3, <2>4, <2>5 DEF DataInv, ClearInv, SavedInv
<1> QED
  BY <1>1, <1>4, <1>5

\* The block that a remap or a repair copies to is erased.
LEMMA DataRemapErase ==
    ASSUME TypeInv, SoundInv, FlashInv, PathInv, TableInv, DataInv, RemapErase, Sound'
    PROVE  DataInv'
<1>1. /\ pc = "remap_erase" /\ Cont = pc /\ Working /\ InRemap
      /\ UNCHANGED <<block_mapping, block_mapping_changed, mapping_blocks_top_ba, intact, protected,
                     req>>
      /\ IF req.copy THEN pc' = "remap_copy" /\ UNCHANGED caller
                     ELSE pc' = "update" /\ caller' = "remap_ret"
      /\ Cont' = pc'
  BY DEF RemapErase, Goto, UpdateTables, maps, tops, hist, Cont, Working, InRemap
<1>2. Aside /\ Copies' = Copies /\ \A x \in Copies : Tab(x)' = Tab(x)
  BY RemapAside, AsideFlash, TabTypes DEF RemapStep
<1>3. \A b \in Blocks : b # req.new => content'[b] = content[b]
  BY PathTypes DEF RemapErase, FailErase, Ruin
<1>4. /\ req.lb \in Logical /\ block_mapping[req.lb] = req.new /\ req.new \in Blocks
      /\ \A lb \in Logical : lb # req.lb => block_mapping[lb] # req.new
      /\ req.old \in Blocks /\ req.old # req.new
  BY <1>1, RemapTarget, DataTypes DEF PathInv, ReqInv
<1>5. /\ Clear /\ \A x \in Copies, lb \in intact : Tab(x).map[lb] # req.new
      /\ req.repair => Saved /\ req.lb \notin intact /\ caller = "unmap_ret"
      /\ ~req.repair => block_mapping_changed /\ ~protected
      /\ caller = "map_loop" => intact = {} /\ ~protected
      /\ caller = "unmap_ret" => req.lb \notin intact
  BY <1>1 DEF DataInv, ClearInv, SavedInv, MustBeSaved, LostInv, InRemap
<1>6. DataFlash'
  <2>1. \A x \in Copies, lb \in intact : Tab(x).map[lb] \in Blocks
    BY DEF DataInv, DataFlash
  <2> QED
    BY <1>1, <1>2, <1>3, <1>5, <2>1, FlashKept DEF DataInv
<1>7. DataRam'
  <2> SUFFICES ASSUME NEW lb \in intact
               PROVE  /\ ~Moving(lb)' => /\ block_mapping[lb] \in Blocks
                                         /\ content'[block_mapping[lb]] = DataOf(lb)
                      /\ Moving(lb)' => req.copy /\ content'[req.old] = DataOf(lb)
    BY <1>1 DEF DataRam
  <2>1. lb \in Logical
    BY DataTypes
  <2>2. CASE lb # req.lb
    <3>1. ~Moving(lb) /\ ~Moving(lb)'
      BY <1>1, <2>2 DEF Moving
    <3> QED
      BY <1>1, <1>3, <1>4, <2>1, <2>2, <3>1 DEF DataInv, DataRam
  <2>3. CASE lb = req.lb
    <3>1. Moving(lb) /\ req.copy
      BY <1>1, <1>5, <2>3 DEF Moving, DataInv, DataRam
    <3>2. Moving(lb)'
      BY <1>1, <2>3, <3>1 DEF Moving, InRemap
    <3> QED
      BY <1>1, <1>3, <1>4, <3>1, <3>2 DEF DataInv, DataRam
  <2> QED
    BY <2>2, <2>3
<1>8. ClearInv'
  BY <1>1, <1>2, <1>5 DEF ClearInv, Clear
<1>9. SavedInv'
  <2>1. MustBeSaved' => req.repair
    BY <1>1, <1>5 DEF MustBeSaved, Settled
  <2> QED
    BY <1>1, <1>2, <1>5, <2>1 DEF SavedInv, Saved
<1>10. LostInv'
  BY <1>1, <1>5 DEF LostInv, InRemap
<1> QED
  BY <1>6, <1>7, <1>8, <1>9, <1>10 DEF DataInv

\* Data is copied, lost, or found again by a repair.
LEMMA DataRemapCopy ==
    ASSUME TypeInv, SoundInv, FlashInv, PathInv, TableInv, DataInv, RemapCopy, Sound'
    PROVE  DataInv'
<1>1. /\ pc = "remap_copy" /\ Cont = pc /\ Working /\ InRemap
      /\ UNCHANGED <<block_mapping, block_mapping_changed, mapping_blocks_top_ba, protected, req>>
      /\ IF req.repair THEN pc' = "remap_ret" /\ UNCHANGED caller
                       ELSE pc' = "update" /\ caller' = "remap_ret"
      /\ Cont' = pc' /\ ~InRemap'
  BY DEF RemapCopy, Goto, UpdateTables, maps, tops, Cont, Working, InRemap
<1>2. Aside /\ Copies' = Copies /\ \A x \in Copies : Tab(x)' = Tab(x)
  BY RemapAside, AsideFlash, TabTypes DEF RemapStep
<1>3. /\ req.lb \in Logical /\ block_mapping[req.lb] = req.new /\ req.new \in Blocks
      /\ \A lb \in Logical : lb # req.lb => block_mapping[lb] # req.new
      /\ req.old \in Blocks
  BY <1>1, RemapTarget, DataTypes
<1>4. /\ \A b \in Blocks : b # req.new => content'[b] = content[b]
      /\ intact' \subseteq intact \cup {req.lb}
      /\ req.lb \in intact' =>
            /\ content'[req.new] = content[req.old]
            /\ req.lb \in intact \/ (req.repair /\ content[req.old] = DataOf(req.lb))
  <2>1. CASE /\ content' = [content EXCEPT ![req.new] = content[req.old]]
             /\ intact' = IF req.repair /\ content[req.old] = DataOf(req.lb)
                          THEN intact \cup {req.lb} ELSE intact
    BY <1>3, <2>1, PathTypes
  <2>2. CASE content' = Ruin(req.new) /\ intact' = intact \ {req.lb}
    BY <1>3, <2>2, PathTypes DEF Ruin
  <2> QED
    BY <2>1, <2>2 DEF RemapCopy
<1>5. /\ Clear /\ \A x \in Copies, lb \in intact : Tab(x).map[lb] # req.new
      /\ req.repair => Saved /\ req.lb \notin intact /\ caller = "unmap_ret"
      /\ ~req.repair => block_mapping_changed /\ ~protected
      /\ caller = "map_loop" => intact = {}
  BY <1>1 DEF DataInv, ClearInv, SavedInv, MustBeSaved, LostInv, InRemap
<1>6. ASSUME NEW lb \in intact'
      PROVE  /\ lb \in Logical
             /\ block_mapping[lb] \in Blocks /\ content'[block_mapping[lb]] = DataOf(lb)
  <2>1. lb \in Logical /\ lb \in intact \cup {req.lb}
    BY <1>3, <1>4, DataTypes
  <2>2. CASE lb # req.lb
    <3>1. lb \in intact /\ ~Moving(lb)
      BY <2>1, <2>2 DEF Moving
    <3> QED
      BY <1>1, <1>3, <1>4, <2>1, <2>2, <3>1 DEF DataInv, DataRam
  <2>3. CASE lb = req.lb
    <3>1. content[req.old] = DataOf(lb)
      <4>1. CASE req.repair
        BY <1>4, <1>5, <2>3, <4>1
      <4>2. CASE ~req.repair
        <5>1. lb \in intact /\ Moving(lb)
          BY <1>1, <1>4, <2>3, <4>2 DEF Moving
        <5> QED
          BY <1>1, <5>1 DEF DataInv, DataRam
      <4> QED
        BY <4>1, <4>2
    <3> QED
      BY <1>3, <1>4, <2>1, <2>3, <3>1
  <2> QED
    BY <2>2, <2>3
<1>7. DataRam'
  BY <1>1, <1>6 DEF DataRam, Moving
<1>8. ASSUME NEW x \in Copies, NEW lb \in intact'
      PROVE  /\ Tab(x).map[lb] \in Blocks /\ content'[Tab(x).map[lb]] = DataOf(lb)
             /\ Tab(x).map[lb] \notin MgmtStart..mapping_blocks_top_ba
  <2>1. CASE req.repair
    BY <1>1, <1>5, <1>6, <2>1, MappedClear DEF Saved
  <2>2. CASE ~req.repair
    <3>1. lb \in intact
      BY <1>4, <2>2
    <3>2. Tab(x).map[lb] \in Blocks /\ content[Tab(x).map[lb]] = DataOf(lb)
      BY <3>1 DEF DataInv, DataFlash
    <3> QED
      BY <1>4, <1>5, <3>1, <3>2 DEF Clear
  <2> QED
    BY <2>1, <2>2
<1>9. DataFlash' /\ ClearInv'
  BY <1>1, <1>2, <1>8 DEF DataFlash, ClearInv, Clear
<1>10. SavedInv'
  <2>1. MustBeSaved' => req.repair
    BY <1>1, <1>5 DEF MustBeSaved, Settled
  <2> QED
    BY <1>1, <1>2, <1>5, <2>1 DEF SavedInv, Saved
<1>11. LostInv'
  BY <1>1, <1>5 DEF LostInv, InRemap
<1> QED
  BY <1>7, <1>9, <1>10, <1>11 DEF DataInv

\* A remap and what follows unmap_block_nmbm keep the data.
LEMMA DataRemap ==
    TypeInv /\ SoundInv /\ FlashInv /\ PathInv /\ TableInv /\ DataInv /\ RemapStep /\ Sound'
    => DataInv'
<1> SUFFICES ASSUME TypeInv, SoundInv, FlashInv, PathInv, TableInv, DataInv, RemapStep, Sound'
             PROVE  DataInv'
  OBVIOUS
<1>1. CASE RemapFull \/ RemapDone
  <2>1. /\ pc \in {"remap_full", "remap_ret"} /\ Cont = pc /\ Working /\ ~InRemap
        /\ UNCHANGED <<content, block_mapping, intact>>
        /\ \/ pc = "remap_full" /\ pc' = "remap_ret" /\ UNCHANGED <<caller, protected>>
           \/ pc' = "ready" /\ caller' = "off"
        /\ Cont' = pc' /\ ~InRemap'
    BY <1>1 DEF RemapFull, RemapDone, Goto, maps, hist, flash, Cont, Working, InRemap
  <2>2. Copies' = Copies
    BY RemapAside, AsideFlash
  <2>3. Saved
    BY <2>1 DEF DataInv, SavedInv, MustBeSaved, Settled
  <2>4. LostInv'
    <3>1. pc = "remap_full" => caller # "map_loop" \/ (intact = {} /\ ~protected)
      BY DEF DataInv, LostInv
    <3> QED
      BY <2>1, <3>1 DEF LostInv, InRemap
  <2>5. MgmtStart..mapping_blocks_top_ba' \subseteq MgmtStart..mapping_blocks_top_ba
    <3>1. mapping_blocks_top_ba' \in {mapping_blocks_top_ba, mapping_blocks_ba}
      BY <1>1 DEF RemapFull, RemapDone, tops
    <3> QED
      BY <2>1, <3>1, Integral DEF SoundInv, AreaInv
  <2> QED
    BY <2>1, <2>2, <2>3, <2>4, <2>5, DataStill
<1> QED
  BY <1>1, DataUnmapDone, DataRemapErase, DataRemapCopy DEF RemapStep

\* The map stays, the tables have it, and data is where it says.
LEMMA SavedStep ==
    ASSUME TypeInv, SoundInv, Working, Saved, Aside, UNCHANGED block_mapping,
           MgmtStart..mapping_blocks_top_ba' \subseteq MgmtStart..mapping_blocks_top_ba,
           ~InRemap', LostInv',
           \A lb \in intact' : /\ lb \in Logical /\ block_mapping[lb] \in Blocks
                               /\ content'[block_mapping[lb]] = DataOf(lb)
    PROVE  DataInv'
<1>1. Copies' = Copies /\ \A x \in Copies : Tab(x)' = Tab(x)
  BY AsideFlash, TabTypes
<1>2. DataFlash' /\ Saved'
  BY <1>1 DEF DataFlash, Saved
<1>3. DataRam'
  BY DEF DataRam, Moving
<1>4. Clear'
  BY <1>1, MappedClear DEF Clear, Saved
<1> QED
  BY <1>2, <1>3, <1>4 DEF DataInv, ClearInv, SavedInv

\* Between two calls of the user the tables have the map, and data is where it says.
LEMMA ReadyFacts ==
    ASSUME TypeInv, SoundInv, PathInv, DataInv, Ready
    PROVE  /\ pc = "ready" /\ Cont = "ready" /\ Working /\ ~InRemap /\ caller = "off"
           /\ Saved /\ OneToOne(block_mapping)
           /\ \A lb \in intact : /\ lb \in Logical /\ block_mapping[lb] \in Blocks
                                 /\ content[block_mapping[lb]] = DataOf(lb)
<1>1. pc = "ready" /\ Cont = "ready" /\ Working /\ ~InRemap
  BY DEF Ready, Cont, Working, InRemap
<1>2. caller = "off"
  BY <1>1 DEF PathInv, ReqInv
<1>3. Saved
  BY <1>1 DEF DataInv, SavedInv, MustBeSaved, Settled
<1>4. OneToOne(block_mapping)
  BY <1>1 DEF SoundInv, MapsOneToOne, Injective
<1>5. \A lb \in intact : /\ lb \in Logical /\ block_mapping[lb] \in Blocks
                         /\ content[block_mapping[lb]] = DataOf(lb)
  BY <1>1, DataTypes DEF DataInv, DataRam, Moving
<1> QED
  BY <1>1, <1>2, <1>3, <1>4, <1>5

\* mtk_bmt_write
LEMMA DataUserWrite ==
    ASSUME TypeInv, SoundInv, FlashInv, PathInv, TableInv, DataInv, NEW lb \in Logical,
           UserWrite(lb)
    PROVE  DataInv'
<1>1. /\ Ready /\ Reachable(lb) /\ intact' = intact \cup {lb}
      /\ UNCHANGED <<marked, block_mapping, mapping_blocks_top_ba, protected, pc, caller, req, w>>
      /\ \A b \in Blocks : content'[b] = IF b = block_mapping[lb] THEN DataOf(lb)
                                         ELSE IF content[b] = DataOf(lb) THEN Holds("old")
                                         ELSE content[b]
  BY DEF UserWrite, maps, tops, ctl
<1>2. block_mapping[lb] \in Blocks
  BY <1>1, DataTypes DEF Reachable, MaybeBlock, NoBlock
<1>3. Aside
  BY <1>1, UserAside DEF DataOf, Holds
<1>4. Working /\ Saved /\ OneToOne(block_mapping)
  BY <1>1, ReadyFacts
<1>5. ~InRemap' /\ LostInv'
  BY <1>1, ReadyFacts DEF InRemap, LostInv, Cont, Ready
<1>6. ASSUME NEW l \in intact'
      PROVE  /\ l \in Logical /\ block_mapping[l] \in Blocks
             /\ content'[block_mapping[l]] = DataOf(l)
  <2>1. CASE l = lb
    BY <1>1, <1>2, <2>1
  <2>2. CASE l # lb
    <3>1. /\ l \in Logical /\ block_mapping[l] \in Blocks /\ content[block_mapping[l]] = DataOf(l)
      BY <1>1, <2>2, ReadyFacts
    <3>2. block_mapping[l] # block_mapping[lb]
      BY <1>4, <2>2, <3>1, BlockTypes DEF OneToOne
    <3>3. DataOf(l) # DataOf(lb)
      <4>1. DataOf(l).lb = l /\ DataOf(lb).lb = lb
        BY DEF DataOf
      <4> QED
        BY <2>2, <4>1
    <3> QED
      BY <1>1, <3>1, <3>2, <3>3
  <2> QED
    BY <2>1, <2>2
<1> QED
  BY <1>1, <1>3, <1>4, <1>5, <1>6, SavedStep

\* remap_block_nmbm: what a table says is left where it is, until it is copied.
LEMMA DataRemapBlock ==
    ASSUME TypeInv, SoundInv, FlashInv, PathInv, TableInv, DataInv, Ready, NEW lb \in Logical,
           Reachable(lb), NEW copy \in BOOLEAN, NEW mark \in BOOLEAN, RemapBlock(lb, copy, mark),
           weak' = {}, UNCHANGED protected, Aside, intact' \subseteq intact,
           \A l \in intact' : content'[block_mapping[l]] = content[block_mapping[l]],
           lb \in intact' => copy
    PROVE  DataInv'
<1>1. /\ pc = "ready" /\ Cont = "ready" /\ Working /\ ~InRemap /\ caller = "off"
      /\ Saved /\ OneToOne(block_mapping)
      /\ \A l \in intact : /\ l \in Logical /\ block_mapping[l] \in Blocks
                           /\ content[block_mapping[l]] = DataOf(l)
  BY ReadyFacts
<1>2. \A l \in intact' : /\ l \in Logical /\ block_mapping[l] \in Blocks
                         /\ content'[block_mapping[l]] = DataOf(l)
  BY <1>1
<1>3. CASE /\ UNCHANGED <<block_mapping, mapping_blocks_top_ba>>
           /\ \/ pc' = "remap_ret" /\ caller' = "off"
              \/ pc' = "update" /\ caller' = "remap_full"
  <2>1. ~InRemap' /\ LostInv'
    BY <1>3 DEF InRemap, LostInv, Cont
  <2> QED
    BY <1>1, <1>2, <1>3, <2>1, SavedStep
<1>4. CASE \E pb \in Unmapped :
              /\ MapTo(lb, pb) /\ Skipped(pb) = {} /\ ~protected
              /\ pc' = "remap_erase" /\ caller' = "off"
              /\ mapping_blocks_ba # mapping_blocks_top_ba
              /\ req' = [lb |-> lb, old |-> block_mapping[lb], new |-> pb, copy |-> copy,
                         mark |-> mark, repair |-> FALSE]
  <2>1. PICK pb \in Unmapped :
              /\ MapTo(lb, pb) /\ Skipped(pb) = {} /\ ~protected
              /\ pc' = "remap_erase" /\ caller' = "off"
              /\ mapping_blocks_ba # mapping_blocks_top_ba
              /\ req' = [lb |-> lb, old |-> block_mapping[lb], new |-> pb, copy |-> copy,
                         mark |-> mark, repair |-> FALSE]
    BY <1>4
  <2>2. pb = mapping_blocks_top_ba /\ pb \in Blocks
    BY <2>1 DEF Skipped, Unmapped
  <2>3. /\ \A l \in Logical : block_mapping'[l] = IF l = lb THEN pb ELSE block_mapping[l]
        /\ block_mapping_changed' = TRUE /\ mapping_blocks_top_ba' = mapping_blocks_top_ba - 1
    BY <2>1, DataTypes DEF MapTo, TopAfterMap
  <2>4. /\ MgmtStart..mapping_blocks_top_ba' \subseteq MgmtStart..mapping_blocks_top_ba
        /\ pb \in MgmtStart..mapping_blocks_top_ba
    BY <1>1, <2>2, <2>3, Integral DEF SoundInv, AreaInv
  <2>5. /\ req'.lb = lb /\ req'.old = block_mapping[lb] /\ req'.new = pb /\ req'.copy = copy
        /\ req'.repair = FALSE
    BY <2>1
  <2>6. Cont' = "remap_erase" /\ InRemap' /\ \A l : Moving(l)' <=> l = lb
    BY <2>1, <2>5 DEF Cont, InRemap, Moving
  <2>7. /\ Copies' = Copies /\ \A x \in Copies : Tab(x)' = Tab(x)
        /\ \A x \in Copies : Tab(x).map = block_mapping
    BY <1>1, AsideFlash, TabTypes DEF Saved
  <2>8. DataFlash'
    BY <1>2, <2>7 DEF DataFlash
  <2>9. DataRam'
    BY <1>2, <2>3, <2>5, <2>6 DEF DataRam
  <2>10. \A x \in Copies, l \in intact' : Tab(x).map[l] \notin MgmtStart..mapping_blocks_top_ba
    BY <1>1, <1>2, <2>7, MappedClear
  <2>11. ClearInv'
    BY <2>4, <2>5, <2>7, <2>10 DEF ClearInv, Clear
  <2>12. SavedInv' /\ LostInv'
    BY <2>1, <2>3, <2>5, <2>6 DEF SavedInv, LostInv, MustBeSaved, Settled
  <2> QED
    BY <2>8, <2>9, <2>11, <2>12 DEF DataInv
<1>5. \/ /\ UNCHANGED <<block_mapping, mapping_blocks_top_ba>>
         /\ \/ pc' = "remap_ret" /\ caller' = "off"
            \/ pc' = "update" /\ caller' = "remap_full"
      \/ \E pb \in Unmapped :
              /\ MapTo(lb, pb) /\ Skipped(pb) = {} /\ ~protected
              /\ pc' = "remap_erase" /\ caller' = "off"
              /\ mapping_blocks_ba # mapping_blocks_top_ba
              /\ req' = [lb |-> lb, old |-> block_mapping[lb], new |-> pb, copy |-> copy,
                         mark |-> mark, repair |-> FALSE]
  BY <1>1 DEF RemapBlock, tops
<1> QED
  BY <1>3, <1>4, <1>5

\* unmap_block_nmbm gives up what it takes back, and nothing else.
LEMMA DataUserUnmap ==
    ASSUME TypeInv, SoundInv, SoundInv', PathInv, DataInv, NEW lb \in Logical,
           NEW repair \in BOOLEAN, UserUnmap(lb, repair), weak' = {}
    PROVE  DataInv'
<1>1. /\ Ready /\ UNCHANGED <<flash, protected>> /\ intact' = intact \ {lb}
      /\ block_mapping_changed' = TRUE /\ pc' = "update" /\ caller' = "unmap_ret" /\ ~protected
  BY DEF UserUnmap
<1>2. PICK new \in Blocks :
         /\ block_mapping' = [block_mapping EXCEPT ![lb] = new]
         /\ mapping_blocks_top_ba' \in MaybeBlock
         /\ req' = [lb |-> lb, old |-> block_mapping[lb], new |-> new, copy |-> TRUE,
                    mark |-> FALSE, repair |-> repair]
  BY DEF UserUnmap
<1>3. /\ Cont' = "update" /\ Working' /\ ~InRemap' /\ ~MustBeSaved' /\ req'.lb = lb
  BY <1>1, <1>2 DEF Cont, Working, InRemap, MustBeSaved, Settled
<1>4. ASSUME NEW l \in intact'
      PROVE  /\ l \in Logical /\ block_mapping'[l] = block_mapping[l] /\ block_mapping[l] \in Blocks
             /\ content[block_mapping[l]] = DataOf(l)
             /\ block_mapping[l] \notin MgmtStart..mapping_blocks_top_ba'
  <2>1. l \in intact /\ l # lb
    BY <1>1
  <2>2. /\ l \in Logical /\ block_mapping[l] \in Blocks /\ content[block_mapping[l]] = DataOf(l)
    BY <1>1, <2>1, ReadyFacts
  <2>3. block_mapping'[l] = block_mapping[l]
    BY <1>2, <2>1, <2>2, DataTypes
  <2>4. /\ block_mapping[l] \in Int /\ mapping_blocks_top_ba' \in Int
    BY <1>2, <2>2, BlockTypes, MaybeInt
  <2>5. block_mapping'[l] < MgmtStart \/ block_mapping'[l] > mapping_blocks_top_ba'
    BY <1>3, <2>2 DEF SoundInv, AreaInv
  <2> QED
    BY <2>2, <2>3, <2>4, <2>5, Integral
<1>5. /\ Copies' = Copies /\ content' = content /\ \A x : Tab(x)' = Tab(x)
      /\ \A x \in Copies : Tab(x).map = block_mapping
  BY <1>1, SameFlash, ReadyFacts DEF flash, Saved
<1>6. DataFlash' /\ Clear'
  BY <1>4, <1>5 DEF DataFlash, Clear
<1>7. DataRam'
  BY <1>3, <1>4, <1>5 DEF DataRam, Moving
<1>8. ClearInv' /\ SavedInv'
  BY <1>3, <1>6 DEF ClearInv, SavedInv
<1>9. LostInv'
  BY <1>1, <1>3 DEF LostInv
<1> QED
  BY <1>6, <1>7, <1>8, <1>9 DEF DataInv

\* The calls of the user keep the data.
LEMMA DataUser ==
    ASSUME TypeInv, SoundInv, SoundInv', FlashInv, PathInv, TableInv, DataInv, UserStep, weak' = {}
    PROVE  DataInv'
<1>1. PICK lb \in Logical :
         \/ UserWrite(lb) \/ UserFault(lb) \/ UserRemap(lb) \/ UserIsBad(lb)
         \/ \E repair \in BOOLEAN : UserUnmap(lb, repair)
  BY DEF UserStep
<1>2. CASE UserWrite(lb)
  BY <1>2, DataUserWrite
<1>3. CASE UserFault(lb)
  <2>1. /\ Ready /\ Reachable(lb) /\ UNCHANGED <<marked, protected>>
        /\ content' = Ruin(block_mapping[lb]) /\ intact' = intact \ {lb}
    BY <1>3 DEF UserFault
  <2>2. PICK copy \in BOOLEAN : RemapBlock(lb, copy, FALSE)
    BY <1>3 DEF UserFault
  <2>3. Aside
    <3>1. \A b \in Blocks : \/ content'[b] = content[b]
                            \/ content'[b].k \notin {"table", "sig"} /\ b = block_mapping[lb]
      BY <2>1, PathTypes DEF Ruin, Holds
    <3> QED
      BY <2>1, <3>1, UserAside
  <2>4. ASSUME NEW l \in intact' PROVE content'[block_mapping[l]] = content[block_mapping[l]]
    <3>1. l # lb /\ l \in Logical /\ block_mapping[l] \in Blocks
      BY <2>1, ReadyFacts
    <3>2. block_mapping[l] # block_mapping[lb]
      BY <2>1, <3>1, ReadyFacts, BlockTypes DEF OneToOne
    <3> QED
      BY <2>1, <3>1, <3>2, PathTypes DEF Ruin
  <2> QED
    BY <2>1, <2>2, <2>3, <2>4, DataRemapBlock
<1>4. CASE UserRemap(lb) \/ UserIsBad(lb)
  <2>1. /\ Ready /\ Reachable(lb) /\ UNCHANGED <<flash, protected, intact>>
    BY <1>4 DEF UserRemap, UserIsBad
  <2>2. PICK mark \in BOOLEAN : RemapBlock(lb, TRUE, mark)
    BY <1>4 DEF UserRemap, UserIsBad
  <2>3. Aside /\ content' = content
    BY <2>1 DEF Aside, flash
  <2> QED
    BY <2>1, <2>2, <2>3, DataRemapBlock
<1>5. ASSUME NEW repair \in BOOLEAN, UserUnmap(lb, repair) PROVE DataInv'
  BY <1>5, DataUserUnmap
<1> QED
  BY <1>1, <1>2, <1>3, <1>4, <1>5

\* As long as there is no data, none can be lost.
LEMMA NoData ==
    ASSUME intact' = {}, caller' \in {"off", "map_loop"}, ~protected',
           \/ pc' \in {"dead", "sig_erase", "sig_program"}
           \/ pc' = "w_erase" /\ w'.cont = "rebuild_main"
    PROVE  DataInv'
<1>1. Cont' \in {"dead", "sig_erase", "sig_program", "rebuild_main"} /\ pc' # "e_erase"
  BY DEF Cont
<1>2. ~InRemap' /\ (Working' => ~MustBeSaved')
  BY <1>1 DEF InRemap, Working, MustBeSaved, Settled
<1> QED
  BY <1>1, <1>2 DEF DataInv, DataFlash, DataRam, ClearInv, Clear, SavedInv, LostInv

\* nmbm_load_info_table: the newest table says where the data is, and an older one that
\* is kept says the same.
LEMMA DataLoad ==
    ASSUME TypeInv, TypeInv', SoundInv', FlashInv, PathInv, DataInv, UNCHANGED <<flash, intact>>,
           pc = "off", NEW sig \in Signature, NEW m \in FirstTable(sig),
           NEW s \in SecondTable(sig, m), NEW ecc \in EccErrors, LoadTables(sig, m, s, ecc)
    PROVE  DataInv'
<1>1. PICK n \in Copies : n = Newest(m, s) /\ IsNewest(n)
  BY FoundTables
<1>2. /\ m \in Copies
      /\ \/ s = NoBlock /\ Copies = {m}
         \/ s # NoBlock /\ s \in Copies /\ m < s /\ Copies = {m, s}
  BY FoundTables
<1>3. /\ block_mapping' = Tab(n).map
      /\ \/ s = NoBlock /\ WriteTable(MgmtStart, m, "rescue_front")
         \/ s # NoBlock /\ LoadDone(TRUE) /\ Tab(m).wc = Tab(s).wc
         \/ s # NoBlock /\ n = s /\ WriteTable(m, s, "older_main")
         \/ s # NoBlock /\ n = m /\ WriteTable(s, mapping_blocks_top_ba', "older_backup")
  BY <1>1, Loaded
<1>4. /\ caller' = "off" /\ ~InRemap' /\ Working' /\ pc' # "e_erase"
      /\ \/ Cont' = "older_main"
         \/ Cont' = "older_backup" /\ n = m /\ s # NoBlock
         \/ Cont' = "rescue_front" /\ s = NoBlock
         \/ Cont' = "ready" /\ s # NoBlock /\ Tab(m).wc = Tab(s).wc
  <2>1. caller = "off"
    BY DEF PathInv, ReqInv, Cont
  <2>2. \/ pc' = "w_erase" /\ w'.cont = "older_main" /\ caller' = caller
        \/ pc' = "w_erase" /\ w'.cont = "older_backup" /\ caller' = caller /\ n = m /\ s # NoBlock
        \/ pc' = "w_erase" /\ w'.cont = "rescue_front" /\ caller' = caller /\ s = NoBlock
        \/ pc' = "ready" /\ caller' = "off" /\ s # NoBlock /\ Tab(m).wc = Tab(s).wc
    BY <1>3 DEF WriteTable, WorkOn, LoadDone
  <2> QED
    BY <2>1, <2>2 DEF Cont, Working, InRemap
<1>5. ASSUME Cont' # "older_main", NEW x \in Copies PROVE Tab(x).map = Tab(n).map
  <2>1. CASE s = NoBlock
    BY <1>1, <1>2, <2>1
  <2>2. CASE s # NoBlock /\ Tab(m).wc = Tab(s).wc
    <3>1. AsNew(x, n) /\ AsNew(n, x)
      <4>1. Tab(x).wc = Tab(n).wc /\ Tab(x).wc \in Int
        BY <1>1, <1>2, <2>2, TabTypes
      <4> QED
        BY <4>1 DEF AsNew
    <3> QED
      BY <3>1 DEF FlashInv, AgeInv
  <2>3. CASE s # NoBlock /\ n = m
    <3>1. AsNew(m, s) /\ m < s
      BY <1>1, <1>2, <2>3 DEF IsNewest
    <3>2. Tab(m).map = Tab(s).map
      BY <1>2, <2>3, <3>1 DEF FlashInv, AgeInv
    <3> QED
      BY <1>2, <2>3, <3>2
  <2> QED
    BY <1>4, <1>5, <2>1, <2>2, <2>3
<1>6. Copies' = Copies /\ content' = content /\ intact' = intact /\ \A x : Tab(x)' = Tab(x)
  BY SameFlash DEF flash
<1>7. DataFlash'
  BY <1>6 DEF DataInv, DataFlash
<1>8. DataRam'
  BY <1>1, <1>3, <1>4, <1>6 DEF DataInv, DataFlash, DataRam, Moving
<1>9. ClearInv'
  <2>1. ASSUME NEW lb \in intact PROVE Tab(n).map[lb] \notin MgmtStart..mapping_blocks_top_ba'
    <3>1. lb \in Logical /\ Tab(n).map[lb] \in Int /\ mapping_blocks_top_ba' \in Int
      BY DataTypes, TabTypes DEF TypeInv, TableTypes
    <3>2. Tab(n).map[lb] < MgmtStart \/ Tab(n).map[lb] > mapping_blocks_top_ba'
      BY <1>3, <1>4, <3>1 DEF SoundInv, AreaInv
    <3> QED
      BY <3>1, <3>2, Integral
  <2> QED
    BY <1>4, <1>5, <1>6, <2>1 DEF ClearInv, Clear
<1>10. SavedInv'
  <2>1. MustBeSaved' => Cont' = "ready"
    BY <1>4 DEF MustBeSaved, Settled
  <2> QED
    BY <1>3, <1>5, <1>6, <2>1 DEF SavedInv, Saved
<1>11. LostInv'
  BY <1>4 DEF LostInv
<1> QED
  BY <1>7, <1>8, <1>9, <1>10, <1>11 DEF DataInv

\* nmbm_attach
LEMMA DataAttach ==
    ASSUME TypeInv, TypeInv', SoundInv', FlashInv, PathInv, DataInv, AttachStep
    PROVE  DataInv'
<1>1. CASE AttachLoad
  <2>1. PICK sig \in Signature : \E m \in FirstTable(sig) :
           \E s \in SecondTable(sig, m), ecc \in EccErrors : LoadTables(sig, m, s, ecc)
    BY <1>1 DEF AttachLoad
  <2>2. PICK m \in FirstTable(sig) :
           \E s \in SecondTable(sig, m), ecc \in EccErrors : LoadTables(sig, m, s, ecc)
    BY <2>1
  <2>3. PICK s \in SecondTable(sig, m), ecc \in EccErrors : LoadTables(sig, m, s, ecc)
    BY <2>2
  <2>4. UNCHANGED <<flash, intact>> /\ pc = "off"
    BY <1>1 DEF AttachLoad
  <2> QED
    BY <2>3, <2>4, DataLoad
<1>2. /\ Cont \in {"off", "sig_erase", "sig_program"} => caller = "off" /\ ~protected
      /\ Cont \in {"sig_erase", "sig_program"} => intact = {}
  BY DEF PathInv, ReqInv, Calm, DataInv, LostInv
<1>3. ASSUME NEW sig, NEW b, NEW map, NEW changed, BeginTables(sig, b, map, changed),
             caller = "off"
      PROVE  /\ caller' \in {"off", "map_loop"}
             /\ pc' = "dead" \/ (pc' = "w_erase" /\ w'.cont = "rebuild_main")
  <2>1. RebuildTables("map_loop") \/ Goto("dead")
    BY <1>3 DEF BeginTables
  <2> QED
    BY <1>3, <2>1 DEF RebuildTables, WorkOn, Goto
<1>4. CASE AttachRefused \/ SignatureNoRoom
  <2>1. /\ pc' = "dead" /\ UNCHANGED <<flash, intact, caller, protected>>
        /\ Cont \in {"off", "sig_erase"}
    BY <1>4 DEF AttachRefused, SignatureNoRoom, Goto, hist, Cont
  <2>2. Cont' = "dead" /\ ~Working' /\ ~InRemap' /\ pc' # "e_erase"
    BY <2>1 DEF Cont, Working, InRemap
  <2>3. DataFlash'
    BY <2>1, SameFlash DEF DataInv, DataFlash, flash
  <2> QED
    BY <1>2, <2>1, <2>2, <2>3 DEF DataInv, DataRam, ClearInv, SavedInv, LostInv
<1>5. CASE AttachCreate
  <2>1. /\ pc = "off" /\ intact' = {} /\ protected' = protected
        /\ \E sig \in Signature : BeginTables(sig, bad', block_mapping', block_state_changed')
    BY <1>5 DEF AttachCreate, ScanAndMap
  <2>2. caller = "off" /\ ~protected
    BY <1>2, <2>1 DEF Cont
  <2> QED
    BY <1>3, <2>1, <2>2, NoData
<1>6. CASE AttachNew
  <2>1. /\ pc = "off" /\ intact' = {} /\ UNCHANGED <<protected, caller>> /\ pc' = "sig_erase"
    BY <1>6 DEF AttachNew, ScanAndMap
  <2> QED
    BY <1>2, <2>1, NoData DEF Cont
<1>7. CASE SignatureErase \/ SignatureEraseFails \/ SignatureProgramFails
  <2>1. /\ pc \in {"sig_erase", "sig_program"} /\ UNCHANGED <<intact, protected, caller>>
        /\ pc' \in {"sig_erase", "sig_program"}
    BY <1>7 DEF SignatureErase, SignatureEraseFails, SignatureProgramFails, hist
  <2> QED
    BY <1>2, <2>1, NoData DEF Cont
<1>8. CASE SignatureProgram
  <2>1. /\ pc = "sig_program" /\ UNCHANGED <<intact, protected>>
        /\ BeginTables(w.ba, bad, block_mapping, block_state_changed)
    BY <1>8 DEF SignatureProgram, hist
  <2>2. caller = "off" /\ ~protected /\ intact = {}
    BY <1>2, <2>1 DEF Cont
  <2> QED
    BY <1>3, <2>1, <2>2, NoData
<1> QED
  BY <1>1, <1>4, <1>5, <1>6, <1>7, <1>8 DEF AttachStep

\* What power cuts catch half changed holds no data.
LEMMA DataCut ==
    ASSUME TypeInv, SoundInv, FlashInv, PathInv, TableInv, DataInv, PowerCut
    PROVE  DataInv'
<1>1. UNCHANGED <<marked, intact>> /\ pc' = "off" /\ caller' = "off"
  BY DEF PowerCut, hist
<1>2. ASSUME UNCHANGED content PROVE DataFlash'
  BY <1>1, <1>2, SameFlash DEF DataInv, DataFlash, flash
<1>3. ASSUME NEW b \in InFlight, NEW c \in {Holds("torn"), Programmed},
             content' = [content EXCEPT ![b] = c]
      PROVE  DataFlash'
  <2>1. CASE pc = "w_erase"
    <3>1. b \in Usable /\ IsFirst(b, Usable) /\ c = Holds("torn")
      BY <1>3, <2>1 DEF InFlight, First, Programmed
    <3>2. b \in Blocks /\ w.ba <= b /\ b < w.limit
      BY <3>1, PassedOver
    <3>3. Removes(b)
      BY <1>1, <1>3, <3>1, <3>2, PathTypes DEF Removes, Holds
    <3> QED
      BY <1>1, <2>1, <3>1, <3>2, <3>3, DataRemove
  <2>2. CASE pc = "e_erase"
    <3>1. b \in Usable /\ c = Holds("torn")
      BY <1>3, <2>2 DEF InFlight, First, Programmed
    <3>2. b \in Blocks /\ b \notin Tabled /\ b \notin Signed
      BY <2>2, <3>1, EraseAside
    <3>3. Aside
      BY <1>1, <1>3, <3>1, <3>2, PathTypes DEF Aside, Holds
    <3>4. /\ Saved /\ Working /\ ~InRemap /\ (caller = "map_loop" => intact = {})
          /\ w.cont # "update"
      <4>1. Cont = w.cont /\ w.cont \in EraseConts
        BY <2>2, PathTypes DEF Cont
      <4>2. Working /\ ~InRemap
        BY <4>1 DEF Working, InRemap, EraseConts
      <4> QED
        BY <2>2, <4>1, <4>2 DEF DataInv, SavedInv, MustBeSaved, LostInv
    <3>5. ASSUME NEW x \in Copies, NEW lb \in intact
          PROVE  content'[Tab(x).map[lb]] = content[Tab(x).map[lb]]
      <4>1. lb \in Logical /\ caller # "map_loop" /\ Tab(x).map[lb] = block_mapping[lb]
        BY <3>4, DataTypes DEF Saved
      <4>2. block_mapping[lb] \notin MgmtStart..mapping_blocks_top_ba
        BY <3>4, <4>1, MappedClear
      <4>3. b \in MgmtStart..mapping_blocks_top_ba
        BY <2>2, <3>1, <3>4, <4>1, EraseArea
      <4> QED
        BY <1>3, <4>1, <4>2, <4>3, PathTypes, BlockTypes DEF DataInv, DataFlash
    <3> QED
      BY <1>1, <3>3, <3>5, FlashKept DEF DataInv
  <2>3. CASE pc = "w_program"
    <3>1. b = w.ba /\ c \in {Holds("torn"), TableOf(info_table_cache)}
      BY <1>3, <2>3 DEF InFlight, Programmed
    <3>2. b \in Blocks /\ w.ba <= b /\ b < w.limit
      BY <2>3, <3>1, Integral DEF TypeInv, ControlInv, SoundInv, RangeInv
    <3>3. CASE c = Holds("torn")
      <4>1. Removes(b)
        BY <1>1, <1>3, <3>2, <3>3, PathTypes DEF Removes, Holds
      <4> QED
        BY <1>1, <2>3, <3>2, <4>1, DataRemove
    <3>4. CASE c = TableOf(info_table_cache)
      BY <1>1, <1>3, <2>3, <3>1, <3>4, DataProgram
    <3> QED
      BY <3>1, <3>3, <3>4
  <2>4. CASE pc \in {"sig_erase", "sig_program"}
    <3>1. intact = {}
      BY <2>4 DEF DataInv, LostInv, Cont
    <3> QED
      BY <1>1, <3>1 DEF DataFlash
  <2>5. CASE pc \in {"remap_erase", "remap_copy"}
    <3>1. b = req.new /\ c = Holds("torn") /\ pc \in Calm /\ Cont = pc /\ InRemap /\ Working
      BY <1>3, <2>5 DEF InFlight, Programmed, Calm, Cont, InRemap, Working
    <3>2. req.new \in Blocks /\ req.lb \in Logical /\ block_mapping[req.lb] = req.new
      BY <3>1, RemapTarget
    <3>3. b \notin Tabled \cup Signed
      BY <3>1, <3>2, MappedAside
    <3>4. Aside
      BY <1>1, <1>3, <3>1, <3>3, PathTypes DEF Aside, Holds
    <3>5. ASSUME NEW x \in Copies, NEW lb \in intact
          PROVE  content'[Tab(x).map[lb]] = content[Tab(x).map[lb]]
      <4>1. Tab(x).map[lb] # req.new /\ Tab(x).map[lb] \in Blocks
        BY <3>1 DEF DataInv, ClearInv, DataFlash
      <4> QED
        BY <1>3, <3>1, <4>1, PathTypes
    <3> QED
      BY <1>1, <3>4, <3>5, FlashKept DEF DataInv
  <2> QED
    BY <1>3, <2>1, <2>2, <2>3, <2>4, <2>5 DEF InFlight
<1>4. DataFlash'
  BY <1>2, <1>3 DEF PowerCut, DataInv
<1>5. Cont' = "off" /\ ~Working' /\ ~InRemap' /\ pc' # "e_erase"
  BY <1>1 DEF Cont, Working, InRemap
<1> QED
  BY <1>1, <1>4, <1>5 DEF DataInv, DataRam, ClearInv, SavedInv, LostInv

\* What the user wrote is kept by every step.
LEMMA DataStep ==
    ASSUME TypeInv, TypeInv', SoundInv, SoundInv', FlashInv, PathInv, TableInv, DataInv, Next,
           weak' = {}
    PROVE  DataInv'
<1>1. Sound'
  BY DEF Sound
<1>2. CASE WriteStep
  BY <1>2, DataWrite
<1>3. CASE EraseStep
  <2>1. pc \in {"w_erase", "e_erase"}
    BY <1>3 DEF EraseStep, EraseNext, EraseFails, EraseDone
  <2> QED
    BY <1>3, <2>1, DataWrite, DataErase
<1>4. CASE UpdateStep \/ RebuildStep
  BY <1>4, DataUpdate
<1>5. CASE RescueStep
  BY <1>5, DataRescue
<1>6. CASE AttachStep
  BY <1>6, DataAttach
<1>7. CASE MapStep
  BY <1>7, DataMap
<1>8. CASE RemapStep
  BY <1>1, <1>8, DataRemap
<1>9. CASE UserStep
  BY <1>9, DataUser
<1>10. CASE PowerCut
  BY <1>10, DataCut
<1> QED
  BY <1>2, <1>3, <1>4, <1>5, <1>6, <1>7, <1>8, <1>9, <1>10 DEF Next, DriverStep

\* A new chip holds no data.
LEMMA DataInit == Init => DataOK
<1> SUFFICES ASSUME Init PROVE DataInv
  BY DEF DataOK
<1>1. pc = "off" /\ caller = "off" /\ intact = {}
  BY DEF Init, InitWith, InitOff
<1>2. Cont = "off" /\ ~Working /\ ~InRemap
  BY <1>1 DEF Cont, Working, InRemap
<1> QED
  BY <1>1, <1>2 DEF DataInv, DataFlash, DataRam, ClearInv, SavedInv, LostInv

\* A step that changes nothing.
LEMMA DataStutter ==
    ASSUME UNCHANGED vars, DataInv
    PROVE  DataInv'
<1>1. UNCHANGED <<flash, maps, tops, protected, ctl, hist>>
  BY DEF vars
<1>2. /\ Copies' = Copies /\ content' = content /\ \A x : Tab(x)' = Tab(x)
      /\ UNCHANGED <<block_mapping, block_mapping_changed, mapping_blocks_top_ba, intact, pc,
           caller,
                     w, req>>
  BY <1>1, SameFlash DEF flash, maps, tops, ctl, hist
<1>3. Cont' = Cont /\ Working' = Working /\ InRemap' = InRemap
  BY <1>2 DEF Cont, Working, InRemap
<1>4. DataFlash' /\ DataRam'
  BY <1>2, <1>3 DEF DataInv, DataFlash, DataRam, Moving
<1>5. ClearInv'
  BY <1>2, <1>3 DEF DataInv, ClearInv, Clear
<1>6. SavedInv'
  BY <1>1, <1>2, <1>3 DEF DataInv, SavedInv, Saved, MustBeSaved
<1>7. LostInv'
  BY <1>1, <1>2, <1>3 DEF DataInv, LostInv
<1> QED
  BY <1>4, <1>5, <1>6, <1>7 DEF DataInv

\* The data is kept as long as nothing happened that voids the promises.
LEMMA DataNext ==
    TypeInv /\ MapInv /\ CopiesInv /\ DataOK /\ [Next]_vars => DataOK'
<1> SUFFICES ASSUME TypeInv, MapInv, CopiesInv, DataOK, [Next]_vars, weak' = {}
             PROVE  DataInv'
  BY DEF DataOK
<1>1. CASE Next
  <2>1. weak = {} /\ TypeInv' /\ MapInv'
    BY <1>1, WeakGrows, TypeNext, MapNextInv
  <2>2. SoundInv /\ SoundInv' /\ FlashInv /\ PathInv /\ TableInv /\ DataInv
    BY <2>1 DEF MapInv, Sound, CopiesInv, CopiesOK, Regular, DataOK
  <2> QED
    BY <1>1, <2>1, <2>2, DataStep
<1>2. CASE UNCHANGED vars
  <2>1. weak' = weak
    BY <1>2 DEF vars, hist
  <2> QED
    BY <1>2, <2>1, DataStutter DEF DataOK
<1> QED
  BY <1>1, <1>2

\* DataOK holds of every state.
LEMMA DataInvariant == Spec => []DataOK
  BY DataInit, DataNext, TypeInvariant, MapInvariant, CopiesInvariant, PTL DEF Spec

\* Whenever power goes, what mtk_bmt_write has written is where the table says that
\* nmbm_load_info_table then takes, through remaps, failures and half written tables.
THEOREM RestartAlwaysFindsData == Spec => []RestartFindsData
<1>1. TypeInv /\ CopiesInv /\ DataOK => RestartFindsData
  <2> SUFFICES ASSUME TypeInv, CopiesInv, DataOK, weak = {}, NEW t \in Restart, NEW lb \in intact
               PROVE  t.map[lb] >= 0 /\ content[t.map[lb]] = DataOf(lb)
    BY DEF RestartFindsData
  <2>1. FlashInv /\ DataFlash
    BY DEF CopiesInv, CopiesOK, Regular, DataOK, DataInv
  <2>2. PICK sig \in Signature : \E m \in UNION {FirstTable(z) : z \in Signature} :
           t \in {content[Newest(m, s)].t : s \in SecondTable(sig, m)}
    BY DEF Restart
  <2>3. PICK m \in UNION {FirstTable(z) : z \in Signature} :
           t \in {content[Newest(m, s)].t : s \in SecondTable(sig, m)}
    BY <2>2
  <2>4. PICK s \in SecondTable(sig, m) : t = Tab(Newest(m, s))
    BY <2>3 DEF Tab
  <2>5. m \in FirstTable(sig)
    <3>1. \A y, z \in Signature : y = z
      BY <2>1, SignatureIsSigned DEF FlashInv, PlaceInv
    <3> QED
      BY <2>3, <3>1
  <2>6. PICK x \in Copies : x = Newest(m, s)
    BY <2>1, <2>4, <2>5, FoundTables
  <2>7. t.map[lb] \in Blocks /\ content[t.map[lb]] = DataOf(lb)
    BY <2>1, <2>4, <2>6 DEF DataFlash
  <2> QED
    BY <2>7 DEF Blocks
<1> QED
  BY <1>1, TypeInvariant, CopiesInvariant, DataInvariant, PTL

\* Between two calls, what mtk_bmt_write has written is where mtk_bmt_read looks.
THEOREM DataIsReachable == Spec => []DataReachable
<1>1. TypeInv /\ MapInv /\ DataOK => DataReachable
  <2> SUFFICES ASSUME TypeInv, MapInv, DataOK, Quiet, NEW lb \in intact
               PROVE  Reachable(lb) /\ content[block_mapping[lb]] = DataOf(lb)
    BY DEF DataReachable
  <2>1. weak = {} /\ pc = "ready" /\ Cont = "ready" /\ Working
    BY DEF Quiet, Cont, Working
  <2>2. lb \in Logical /\ block_mapping[lb] \in Blocks /\ content[block_mapping[lb]] = DataOf(lb)
    BY <2>1, DataTypes DEF DataOK, DataInv, DataRam, Moving, InRemap
  <2>3. lb >= data_block_count => block_mapping[lb] = NoBlock
    BY <2>1, <2>2 DEF MapInv, Sound, SoundInv, CountInv
  <2>4. lb < data_block_count
    BY <2>2, <2>3, BlockTypes, Integral
  <2> QED
    BY <2>2, <2>4 DEF Reachable, Blocks
<1> QED
  BY <1>1, TypeInvariant, MapInvariant, DataInvariant, PTL

----------------------------------------------------------------------------
(* What the flash is for: a store of one map.                                *)

SameMaps == \A x, y \in Copies : Tab(x).map = Tab(y).map

\* As long as nothing is written, or the first table of an update is not yet, all
\* tables have one map, though it may not be that in memory.
OneMap ==
    /\ Cont \in Calm => SameMaps
    /\ Cont = "once_backup" /\ pc # "once_backup" => SameMaps
OneMapOK == weak = {} => OneMap

\* The maps that a restart may take from the flash.
Stored == {t.map : t \in Restart}

\* A restart takes the newest table, and finds one if there is any.
LEMMA StoredNow ==
    TypeInv /\ FlashInv => /\ Copies = {} => Stored = {}
                           /\ Copies # {} => \E n \in Copies : IsNewest(n)
                           /\ \A n \in Copies : IsNewest(n) => Stored = {Tab(n).map}
<1> SUFFICES ASSUME TypeInv, FlashInv
             PROVE  /\ Copies = {} => Stored = {}
                    /\ Copies # {} => \E n \in Copies : IsNewest(n)
                    /\ \A n \in Copies : IsNewest(n) => Stored = {Tab(n).map}
  OBVIOUS
<1>1. ASSUME NEW t \in Restart PROVE \E x \in Copies : IsNewest(x) /\ t = Tab(x)
  <2>1. PICK sig \in Signature : \E m \in UNION {FirstTable(z) : z \in Signature} :
           t \in {content[Newest(m, s)].t : s \in SecondTable(sig, m)}
    BY <1>1 DEF Restart
  <2>2. PICK m \in UNION {FirstTable(z) : z \in Signature} :
           t \in {content[Newest(m, s)].t : s \in SecondTable(sig, m)}
    BY <2>1
  <2>3. PICK s \in SecondTable(sig, m) : t = Tab(Newest(m, s))
    BY <2>2 DEF Tab
  <2>4. m \in FirstTable(sig)
    <3>1. \A y, z \in Signature : y = z
      BY SignatureIsSigned DEF FlashInv, PlaceInv
    <3> QED
      BY <2>2, <3>1
  <2> QED
    BY <2>3, <2>4, FoundTables
<1>2. Copies # {} => Restart # {}
  <2>1. Copies # {} => Signature # {}
    BY SignatureIsSigned, TabTypes DEF FlashInv, PlaceInv
  <2> QED
    BY <2>1, TableIsFound
<1>3. ASSUME NEW n \in Copies, IsNewest(n) PROVE Stored = {Tab(n).map}
  <2>1. \A t \in Restart : t = Tab(n)
    BY <1>1, <1>3 DEF IsNewest, FlashInv, AgeInv
  <2> QED
    BY <1>2, <2>1 DEF Stored
<1>4. Copies = {} => Stored = {}
  BY <1>1 DEF Stored
<1>5. Copies # {} => \E n \in Copies : IsNewest(n)
  BY <1>1, <1>2
<1> QED
  BY <1>3, <1>4, <1>5

\* ... and so after a step.
LEMMA StoredThen ==
    TypeInv' /\ FlashInv' =>
        /\ Copies' = {} => Stored' = {}
        /\ Copies' # {} => \E n \in Copies' : IsNewest(n)'
        /\ \A n \in Copies' : IsNewest(n)' => Stored' = {Tab(n)'.map}
<1>1. (TypeInv /\ FlashInv => /\ Copies = {} => Stored = {}
                              /\ Copies # {} => \E n \in Copies : IsNewest(n)
                              /\ \A n \in Copies : IsNewest(n) => Stored = {Tab(n).map})'
  BY StoredNow, PTL
<1> QED
  BY <1>1

\* When all tables have one map, that is the one.
LEMMA StoredOne ==
    ASSUME TypeInv', FlashInv', Copies' # {}, NEW map, \A x \in Copies' : Tab(x)'.map = map
    PROVE  Stored' = {map}
  BY StoredThen

\* The store stays when the tables do, ...
LEMMA StoredStays ==
    ASSUME TypeInv, TypeInv', FlashInv, FlashInv', Copies' = Copies,
           \A x \in Copies : Tab(x)' = Tab(x)
    PROVE  Stored' = Stored
<1>1. CASE Copies = {}
  BY <1>1, StoredNow, StoredThen
<1>2. CASE Copies # {}
  <2>1. PICK n \in Copies : IsNewest(n)
    BY <1>2, StoredNow
  <2>2. IsNewest(n)'
    BY <2>1 DEF IsNewest, AsNew
  <2> QED
    BY <2>1, <2>2, StoredNow, StoredThen
<1> QED
  BY <1>1, <1>2

\* ... or when one of several goes that have one map.
LEMMA StoredLess ==
    ASSUME TypeInv, TypeInv', FlashInv, FlashInv', Copies' \subseteq Copies, Copies' # {},
           \A x \in Copies' : Tab(x)' = Tab(x), SameMaps
    PROVE  Stored' = Stored
<1>1. PICK n \in Copies : IsNewest(n)
  BY StoredNow
<1>2. \A x \in Copies' : Tab(x)'.map = Tab(n).map
  BY <1>1 DEF SameMaps
<1>3. Stored' = {Tab(n).map}
  BY <1>2, StoredOne
<1> QED
  BY <1>1, <1>3, StoredNow

\* A step that writes or erases a block for a table either leaves the tables as they
\* are, or takes away the one that is to be written again.
LEMMA WriteLess ==
    ASSUME TypeInv, SoundInv, FlashInv, PathInv, TableInv,
           WriteErase \/ WriteProgramFails \/ WriteNoRoom \/ (EraseFails /\ pc = "w_erase")
    PROVE  \/ UNCHANGED flash
           \/ \E b \in Blocks : /\ w.ba <= b /\ b < w.limit /\ Removes(b)
                                /\ pc = "w_erase" => b \in Usable /\ IsFirst(b, Usable)
<1>1. CASE WriteErase
  <2>1. PICK b \in Usable : /\ IsFirst(b, Usable)
                            /\ content' = [content EXCEPT ![b] = Holds("erased")]
    BY <1>1 DEF WriteErase
  <2>2. b \in Blocks /\ w.ba <= b /\ b < w.limit
    BY <2>1, PassedOver
  <2>3. Removes(b)
    BY <1>1, <2>1, <2>2, PathTypes DEF WriteErase, Removes, Holds
  <2> QED
    BY <2>1, <2>2, <2>3
<1>2. CASE WriteProgramFails
  <2>1. PICK b \in Blocks : b = w.ba
    BY <1>2 DEF WriteProgramFails, TypeInv, ControlInv
  <2>2. w.ba <= b /\ b < w.limit /\ pc = "w_program"
    BY <1>2, <2>1, Integral DEF WriteProgramFails, SoundInv, RangeInv
  <2>3. Removes(b)
    BY <1>2, <2>1, PathTypes DEF WriteProgramFails, Removes, Ruin, MarkBad, Holds
  <2> QED
    BY <2>2, <2>3
<1>3. CASE WriteNoRoom
  BY <1>3 DEF WriteNoRoom
<1>4. CASE EraseFails /\ pc = "w_erase"
  <2>1. PICK b \in Usable : /\ IsFirst(b, Usable)
                            /\ FailErase(b)
                            /\ MarkBad(b, FoundMarked(b))
    BY <1>4 DEF EraseFails
  <2>2. b \in Blocks /\ w.ba <= b /\ b < w.limit
    BY <2>1, PassedOver
  <2>3. Removes(b)
    BY <2>1, <2>2, PathTypes DEF Removes, FailErase, Ruin, MarkBad, Holds
  <2> QED
    BY <2>1, <2>2, <2>3
<1> QED
  BY <1>1, <1>2, <1>3, <1>4

\* No table is older or newer than before.
Fewer == Copies' \subseteq Copies /\ \A x \in Copies' : Tab(x)' = Tab(x)
Same  == Copies' = Copies /\ \A x \in Copies : Tab(x)' = Tab(x)

\* Tables that stay do not get more, ...
LEMMA SameFewer == Same => Fewer
  BY DEF Same, Fewer

\* ... and when they get fewer they still have one map.
LEMMA FewerMaps == Fewer /\ SameMaps => SameMaps'
  BY DEF Fewer, SameMaps

\* nmbm_attach leaves the tables alone: it loads them, or there are none.
LEMMA AttachSame ==
    ASSUME TypeInv, TypeInv', FlashInv, FlashInv', TableInv, TableInv', AttachStep
    PROVE  Same
<1>1. UNCHANGED flash => Same
  BY SameFlash DEF Same
<1>2. CASE AttachLoad \/ AttachRefused \/ AttachCreate \/ AttachNew \/ SignatureNoRoom
  BY <1>1, <1>2 DEF AttachLoad, AttachRefused, AttachCreate, AttachNew, SignatureNoRoom
<1>3. CASE SignatureErase \/ SignatureEraseFails \/ SignatureProgramFails
  <2>1. pc \in {"sig_erase", "sig_program"} /\ pc' \in {"sig_erase", "sig_program"}
    BY <1>3 DEF SignatureErase, SignatureEraseFails, SignatureProgramFails
  <2>2. Copies = {}
    BY <2>1, NoneYet
  <2>3. Signed' = {}
    BY <2>1 DEF TableInv, WhereInv, Cont
  <2>4. Copies' = {}
    BY <2>3 DEF FlashInv, PlaceInv, Copies
  <2> QED
    BY <2>2, <2>4 DEF Same
<1>4. CASE SignatureProgram
  <2>1. pc = "sig_program" /\ UNCHANGED marked
        /\ content' = [content EXCEPT ![w.ba] = Holds("sig")]
    BY <1>4 DEF SignatureProgram
  <2>2. Copies = {} /\ Copies' = {}
    BY <2>1, NoneYet, FlashSign DEF Copies
  <2> QED
    BY <2>2 DEF Same
<1> QED
  BY <1>2, <1>3, <1>4 DEF AttachStep

\* What a step does to the tables.
LEMMA WhereWritten ==
    ASSUME TypeInv, TypeInv', SoundInv, FlashInv, FlashInv', PathInv, TableInv, TableInv', Next,
           Sound'
    PROVE  \/ Same
           \/ WriteProgram
           \/ WriteErase \/ WriteProgramFails \/ (EraseFails /\ pc = "w_erase")
           \/ PowerCut
<1>1. UNCHANGED flash => Same
  BY SameFlash DEF Same
<1>2. Aside => Same
  BY AsideFlash, TabTypes DEF Same
<1>3. CASE WriteStep
  BY <1>1, <1>3 DEF WriteStep, WriteNoRoom
<1>4. CASE EraseStep
  <2>1. pc \in {"w_erase", "e_erase"}
    BY <1>4 DEF EraseStep, EraseNext, EraseFails, EraseDone
  <2>2. CASE pc = "w_erase"
    BY <1>4, <2>2 DEF EraseStep, EraseNext, EraseDone
  <2> QED
    BY <1>2, <1>4, <2>1, <2>2, EraseStepAside
<1>5. CASE UpdateStep \/ RebuildStep
  <2>1. UpdateStep => UNCHANGED flash
    BY DEF UpdateStep, UpdateDone, UpdateOnce, BackupWritten, BackupFailed, MainWritten
  <2>2. RebuildStep => UNCHANGED flash
    BY DEF RebuildStep, MainFailedAlone, RebuildMainFailed, RebuildMainWritten,
        RebuildBackupWritten, RebuildBackupFailed
  <2> QED
    BY <1>1, <1>5, <2>1, <2>2
<1>6. CASE RescueStep
  <2>1. UNCHANGED flash
    BY <1>6 DEF RescueMain, RescueTmpFailed, RescueTmpWritten, RescueMainDone,
        RescueFrontWritten, RescueFrontFailed, RescueBackFailed, RescueBackWritten,
        RescueBackAdopted, LoadOk, OlderWritten, OlderMainFailed, OlderBackupFailed, RescueStep
  <2> QED
    BY <1>1, <2>1
<1>7. CASE MapStep
  <2>1. UNCHANGED flash
    BY <1>7 DEF MapStep, MapNext, MapLoopDone, MapLoopFull, CreateFull, CreateDone
  <2> QED
    BY <1>1, <2>1
<1>8. CASE RemapStep
  BY <1>2, <1>8, RemapAside
<1>9. CASE UserStep
  BY <1>2, <1>9, UserStepAside DEF UserStep
<1>10. CASE AttachStep
  BY <1>10, AttachSame
<1> QED
  BY <1>3, <1>4, <1>5, <1>6, <1>7, <1>8, <1>9, <1>10 DEF Next, DriverStep

\* The next block to be written to holds a table only if it is the one to be replaced;
\* then only those remain that stay.
LEMMA RemovedOrSame ==
    ASSUME TypeInv, SoundInv, FlashInv, PathInv, TableInv, pc \in {"w_erase", "w_program"},
           NEW b \in Blocks, w.ba <= b, b < w.limit, Removes(b),
           pc = "w_erase" => b \in Usable /\ IsFirst(b, Usable)
    PROVE  /\ Fewer
           /\ Same \/ (Copies' = Kept /\ Old # {})
<1>1. /\ Copies' = Copies \ {b} /\ \A x \in Blocks : x # b => Tab(x)' = Tab(x)
  BY RemovesOne
<1>2. Copies' \subseteq Copies /\ \A x \in Copies' : Tab(x)' = Tab(x)
  BY <1>1, TabTypes
<1>3. CASE b \notin Copies
  BY <1>1, <1>2, <1>3 DEF Same, Fewer
<1>4. CASE b \in Copies
  <2>1. b \notin Kept /\ Kept \subseteq Copies /\ Copies \subseteq Kept \cup Extra
    BY RangeAside, KeptOne DEF TableInv, WhereInv
  <2>2. pc = "w_program" => Extra = {}
    BY DEF Extra, WriteConts
  <2>3. pc = "w_erase"
    BY <1>4, <2>1, <2>2
  <2>4. Copies' \subseteq Kept /\ b \in Old
    BY <1>4, <2>3, FlashRemove
  <2> QED
    BY <1>1, <1>2, <2>1, <2>4 DEF Fewer
<1> QED
  BY <1>3, <1>4

\* As long as the tables stay or get fewer, they have one map.
LEMMA OneMapFewer ==
    ASSUME OneMap, Fewer, Cont' = Cont, Cont # "once_backup" \/ pc # "once_backup"
    PROVE  OneMap'
  BY FewerMaps DEF OneMap

\* What has the map in memory has one map.
LEMMA SavedMaps == Saved => SameMaps
  BY DEF Saved, SameMaps

\* A call of the driver, a remap and nmbm_map_block leave the tables alone.
LEMMA OneMapCalm ==
    ASSUME TypeInv, SoundInv, PathInv, TableInv, OneMap, pc \in Calm, Same
    PROVE  SameMaps'
  BY CalmTables, SameFewer, FewerMaps DEF OneMap

\* nmbm_write_mgmt_range: none is written before the label is reached.
LEMMA OneMapWrite ==
    ASSUME TypeInv, SoundInv, FlashInv, PathInv, TableInv, OneMap,
           WriteStep \/ (EraseStep /\ pc = "w_erase")
    PROVE  OneMap'
<1>1. pc \in {"w_erase", "w_program"}
  BY DEF WriteStep, WriteErase, WriteProgram, WriteProgramFails, WriteNoRoom
<1>2. Cont = w.cont /\ w.cont \in WriteConts /\ w \in Range
  BY <1>1, KeptOne, PathTypes
<1>3. w'.cont = w.cont /\ (pc' = w.cont \/ pc' \in {"w_erase", "w_program"})
  BY <1>2 DEF WriteStep, WriteErase, WriteProgram, WriteProgramFails, WriteNoRoom, EraseStep,
      EraseNext, EraseFails, EraseDone, Range
<1>4. Cont' = w.cont /\ w.cont \notin Calm
  BY <1>2, <1>3 DEF Cont, WriteConts, Calm
<1>5. CASE pc' = w.cont
  BY <1>4, <1>5 DEF OneMap
<1>6. CASE pc' # w.cont
  <2>1. ~WriteProgram
    BY <1>6 DEF WriteProgram
  <2>2. WriteErase \/ WriteProgramFails \/ WriteNoRoom \/ (EraseFails /\ pc = "w_erase")
    BY <2>1 DEF WriteStep, EraseStep, EraseNext, EraseDone
  <2>3. Fewer
    BY <1>1, <2>2, WriteLess, RemovedOrSame, SameFlash DEF Fewer
  <2>4. Cont # "once_backup" \/ pc # "once_backup"
    BY <1>1
  <2> QED
    BY <1>2, <1>4, <2>3, <2>4, OneMapFewer
<1> QED
  BY <1>5, <1>6

\* All tables have one map until the first is written again.
LEMMA OneMapStep ==
    ASSUME TypeInv, TypeInv', SoundInv, FlashInv, FlashInv', PathInv, TableInv, TableInv', DataInv,
           DataInv', OneMap, Next, weak' = {}
    PROVE  OneMap'
<1>0. Sound'
  BY DEF Sound
<1>1. SameMaps' => OneMap'
  BY DEF OneMap
<1>2. Cont' \notin Calm \cup {"once_backup"} => OneMap'
  BY DEF OneMap
<1>3. ASSUME pc \in Calm, Same PROVE OneMap'
  BY <1>1, <1>3, OneMapCalm
<1>4. ASSUME Saved, Same PROVE OneMap'
  BY <1>1, <1>4, SavedMaps, SameFewer, FewerMaps
<1>5. CASE WriteStep
  BY <1>5, OneMapWrite
<1>6. CASE EraseStep
  <2>1. pc \in {"w_erase", "e_erase"}
    BY <1>6 DEF EraseStep, EraseNext, EraseFails, EraseDone
  <2>2. CASE pc = "e_erase"
    <3>1. Same
      BY <1>6, <2>2, EraseStepAside, AsideFlash, TabTypes DEF Same
    <3>2. Cont' = Cont
      BY <1>6, <2>2, PathTypes DEF EraseStep, EraseNext, EraseFails, EraseDone, Cont, EraseConts,
          Range
    <3> QED
      BY <2>2, <3>1, <3>2, SameFewer, OneMapFewer
  <2> QED
    BY <1>6, <2>1, <2>2, OneMapWrite
<1>7. CASE UpdateStep \/ RebuildStep
  <2>1. Same
    <3>1. UpdateStep => UNCHANGED flash
      BY DEF UpdateStep, UpdateDone, UpdateOnce, BackupWritten, BackupFailed, MainWritten
    <3>2. RebuildStep => UNCHANGED flash
      BY DEF RebuildStep, MainFailedAlone, RebuildMainFailed, RebuildMainWritten,
          RebuildBackupWritten, RebuildBackupFailed
    <3> QED
      BY <1>7, <3>1, <3>2, SameFlash DEF Same
  <2>2. CASE BackupWritten \/ BackupFailed
    <3>1. pc' = "w_erase" /\ w'.cont = "once_main"
      BY <2>2 DEF BackupWritten, BackupFailed, WriteTable, WorkOn
    <3> QED
      BY <1>2, <3>1 DEF Cont, Calm
  <2>3. CASE UpdateDone \/ UpdateOnce
    BY <1>3, <2>1, <2>3 DEF UpdateDone, UpdateOnce, Calm
  <2>4. CASE MainWritten \/ RebuildStep
    <3>1. pc \in WriteConts /\ pc # "once_backup"
      BY <2>4 DEF MainWritten, RebuildStep, MainFailedAlone, RebuildMainFailed, RebuildMainWritten,
          RebuildBackupWritten, RebuildBackupFailed, WriteConts
    <3> QED
      BY <1>4, <2>1, <3>1, SavedDone
  <2> QED
    BY <1>7, <2>2, <2>3, <2>4 DEF UpdateStep
<1>8. CASE RescueStep
  <2>1. Same
    <3>1. UNCHANGED flash
      BY <1>8 DEF RescueMain, RescueTmpFailed, RescueTmpWritten, RescueMainDone,
          RescueFrontWritten, RescueFrontFailed, RescueBackFailed, RescueBackWritten,
          RescueBackAdopted, LoadOk, OlderWritten, OlderMainFailed, OlderBackupFailed, RescueStep
    <3> QED
      BY <3>1, SameFlash DEF Same
  <2>2. pc \in (WriteConts \ {"once_backup"}) \cup {"rescue_adopt", "load_ok"}
    BY <1>8 DEF RescueMain, RescueTmpFailed, RescueTmpWritten, RescueMainDone,
        RescueFrontWritten, RescueFrontFailed, RescueBackFailed, RescueBackWritten,
        RescueBackAdopted, LoadOk, OlderWritten, OlderMainFailed, OlderBackupFailed, RescueStep,
        WriteConts
  <2>3. Saved
    <3>1. pc \in {"rescue_adopt", "load_ok"} => Cont = pc
      BY DEF Cont
    <3> QED
      BY <2>2, <3>1, SavedDone, SavedLoad
  <2> QED
    BY <1>4, <2>1, <2>3
<1>9. CASE MapStep \/ RemapStep \/ UserStep
  <2>1. pc \in Calm
    BY <1>9 DEF MapStep, MapNext, MapLoopDone, MapLoopFull, CreateFull, CreateDone,
        RemapStep, UnmapDone, RemapErase, RemapCopy, RemapFull, RemapDone, UserStep, UserWrite,
        UserFault, UserRemap, UserIsBad, UserUnmap, Ready, Calm
  <2>2. CASE PowerCut
    BY <1>2, <2>2 DEF PowerCut, Cont, Calm
  <2>3. CASE ~PowerCut
    <3>1. Same
      BY <1>0, <2>1, <2>3, WhereWritten DEF WriteProgram, WriteErase, WriteProgramFails, Calm
    <3> QED
      BY <1>3, <2>1, <3>1
  <2> QED
    BY <2>2, <2>3
<1>10. CASE AttachStep
  <2>1. \/ pc' \in {"dead", "sig_erase", "sig_program", "ready"}
        \/ pc' = "w_erase" /\ w'.cont \in WriteConts \ {"once_backup"}
    <3>1. CASE AttachLoad
      BY <3>1 DEF AttachLoad, LoadTables, LoadDone, WriteTable, WorkOn, WriteConts
    <3>2. CASE AttachCreate \/ SignatureProgram
      <4>1. ASSUME NEW sig, NEW b, NEW map, NEW changed, BeginTables(sig, b, map, changed)
            PROVE  RebuildTables("map_loop") \/ Goto("dead")
        BY <4>1 DEF BeginTables
      <4>2. RebuildTables("map_loop") \/ Goto("dead")
        BY <3>2, <4>1 DEF AttachCreate, SignatureProgram
      <4>3. RebuildTables("map_loop") => pc' = "w_erase" /\ w'.cont = "rebuild_main"
        BY DEF RebuildTables, WorkOn
      <4> QED
        BY <4>2, <4>3 DEF Goto, WriteConts
    <3>3. CASE ~AttachLoad /\ ~AttachCreate /\ ~SignatureProgram
      BY <1>10, <3>3 DEF AttachStep, AttachRefused, AttachNew, SignatureErase,
          SignatureEraseFails, SignatureProgramFails, SignatureNoRoom, Goto
    <3> QED
      BY <3>1, <3>2, <3>3
  <2>2. CASE pc' = "ready"
    <3>1. Cont' = "ready" /\ Working' /\ MustBeSaved'
      BY <2>2 DEF Cont, Working, MustBeSaved, Settled
    <3>2. Saved'
      BY <3>1 DEF DataInv, SavedInv
    <3> QED
      BY <1>1, <3>2 DEF Saved, SameMaps
  <2>3. CASE pc' # "ready"
    <3>1. Cont' \notin Calm \cup {"once_backup"}
      BY <2>1, <2>3 DEF Cont, Calm, WriteConts
    <3> QED
      BY <1>2, <3>1
  <2> QED
    BY <2>2, <2>3
<1>11. CASE PowerCut
  BY <1>2, <1>11 DEF PowerCut, Cont, Calm
<1> QED
  BY <1>5, <1>6, <1>7, <1>8, <1>9, <1>10, <1>11 DEF Next, DriverStep

\* The tables have another map after a step: that in memory, or there is none, which
\* happens only to the last one.
Replaced == Stored' = {block_mapping} \/ (backup_table_ba = 0 /\ Stored' = {})

\* Taking away the table that is to be written again brings the map in memory to light,
\* if it was not there before.
LEMMA StoreRemoved ==
    ASSUME TypeInv, TypeInv', SoundInv, FlashInv, FlashInv', PathInv, TableInv, OneMap,
           pc \in {"w_erase", "w_program"},
           NEW b \in Blocks, w.ba <= b, b < w.limit, Removes(b),
           pc = "w_erase" => b \in Usable /\ IsFirst(b, Usable)
    PROVE  Stored' = Stored \/ Replaced
<1>1. CASE Same
  BY <1>1, StoredStays DEF Same
<1>2. CASE Fewer /\ Copies' = Kept /\ Old # {}
  <2>1. Cont \in WriteConts /\ Working /\ Cont = w.cont
    BY KeptOne
  <2>2. \A x \in Copies' : x \in Copies /\ Tab(x)' = Tab(x)
    BY <1>2 DEF Fewer
  <2>3. CASE Cont = "once_backup"
    <3>1. SameMaps
      BY <2>3 DEF OneMap
    <3>2. Kept # {}
      BY <2>3 DEF Kept, KeepsMain
    <3> QED
      BY <1>2, <2>2, <3>1, <3>2, StoredLess DEF Fewer
  <2>4. CASE Cont # "once_backup" /\ Kept # {}
    <3>1. \A x \in Kept : Tab(x).map = block_mapping
      BY <2>1, <2>4, SavedKept
    <3> QED
      BY <1>2, <2>2, <2>4, <3>1, StoredOne DEF Replaced
  <2>5. CASE Kept = {}
    <3>1. Cont \in {"once_backup", "older_backup", "rescue_main", "once_main", "older_main"}
      BY <1>2 DEF Old
    <3>2. backup_table_ba = 0
      BY <2>5, <3>1 DEF Kept, KeepsMain, KeepsBackup
    <3> QED
      BY <1>2, <2>5, <3>2, StoredThen DEF Replaced
  <2> QED
    BY <2>3, <2>4, <2>5
<1> QED
  BY <1>1, <1>2, RemovedOrSame

\* A table that is written is the newest, and has the map in memory.
LEMMA StoreProgrammed ==
    ASSUME TypeInv, TypeInv', SoundInv, FlashInv, PathInv, TableInv, pc = "w_program",
           content' = [content EXCEPT ![w.ba] = TableOf(info_table_cache)],
           UNCHANGED marked
    PROVE  Stored' = {block_mapping}
<1>1. PICK k \in Blocks : k = w.ba
  BY DEF TypeInv, ControlInv
<1>2. /\ FlashInv' /\ Copies = Kept /\ Copies' = Kept \cup {k}
      /\ \A x \in Copies : Tab(x)' = Tab(x)
      /\ Tab(k)' = info_table_cache
  BY <1>1, FlashProgram DEF Tab
<1>3. /\ info_table_cache.wc = write_count /\ info_table_cache.map = block_mapping
      /\ \A x \in Copies : Tab(x).wc <= write_count
  BY KeptOne DEF TableInv, CacheInv
<1>4. write_count \in Int
  BY Integral DEF TypeInv, TableTypes
<1>5. \A x \in Copies' : Tab(k)'.wc >= Tab(x)'.wc
  BY <1>2, <1>3, <1>4, TabTypes, Integral
<1>6. k \in Copies' /\ IsNewest(k)'
  BY <1>2, <1>5 DEF IsNewest, AsNew
<1> QED
  BY <1>2, <1>3, <1>6, StoredThen

\* A power cut interrupts one step, or lets it happen.
LEMMA StoreCut ==
    ASSUME TypeInv, TypeInv', SoundInv, FlashInv, FlashInv', PathInv, TableInv, OneMap, PowerCut
    PROVE  Stored' = Stored \/ (Working /\ Replaced)
<1>1. UNCHANGED marked
  BY DEF PowerCut
<1>2. ASSUME Aside PROVE Stored' = Stored
  BY <1>2, AsideFlash, TabTypes, StoredStays
<1>3. CASE UNCHANGED content
  BY <1>1, <1>3, SameFlash, StoredStays DEF flash
<1>4. ASSUME NEW b \in InFlight, NEW c \in {Holds("torn"), Programmed},
             content' = [content EXCEPT ![b] = c]
      PROVE  Stored' = Stored \/ (Working /\ Replaced)
  <2>1. CASE pc = "w_erase"
    <3>1. b \in Usable /\ IsFirst(b, Usable) /\ c = Holds("torn")
      BY <1>4, <2>1 DEF InFlight, First, Programmed
    <3>2. b \in Blocks /\ w.ba <= b /\ b < w.limit
      BY <3>1, PassedOver
    <3>3. Removes(b)
      BY <1>1, <1>4, <3>1, <3>2, PathTypes DEF Removes, Holds
    <3> QED
      BY <2>1, <3>1, <3>2, <3>3, StoreRemoved, KeptOne
  <2>2. CASE pc = "e_erase"
    <3>1. b \in Usable /\ c = Holds("torn")
      BY <1>4, <2>2 DEF InFlight, First, Programmed
    <3>2. Aside
      BY <1>1, <1>4, <2>2, <3>1, EraseAside, PathTypes DEF Aside, Holds
    <3> QED
      BY <1>2, <3>2
  <2>3. CASE pc = "w_program"
    <3>1. b = w.ba /\ c \in {Holds("torn"), TableOf(info_table_cache)}
      BY <1>4, <2>3 DEF InFlight, Programmed
    <3>2. b \in Blocks /\ w.ba <= b /\ b < w.limit
      BY <2>3, <3>1, Integral DEF TypeInv, ControlInv, SoundInv, RangeInv
    <3>3. CASE c = Holds("torn")
      <4>1. Removes(b)
        BY <1>1, <1>4, <3>2, <3>3, PathTypes DEF Removes, Holds
      <4> QED
        BY <2>3, <3>2, <4>1, StoreRemoved, KeptOne
    <3>4. CASE c = TableOf(info_table_cache)
      BY <1>1, <1>4, <2>3, <3>1, <3>4, StoreProgrammed, KeptOne DEF Replaced
    <3> QED
      BY <3>1, <3>3, <3>4
  <2>4. CASE pc = "sig_erase"
    <3>1. b \in Blocks /\ c = Holds("torn")
      BY <1>4, <2>4 DEF InFlight, Last, UsableDown, Programmed
    <3>2. Aside
      BY <1>1, <1>4, <2>4, <3>1, NoneYet, PathTypes DEF Aside, Holds
    <3> QED
      BY <1>2, <3>2
  <2>5. CASE pc = "sig_program"
    <3>1. b = w.ba /\ b \in Blocks /\ c \in {Holds("torn"), Holds("sig")}
      BY <1>4, <2>5 DEF InFlight, Programmed, TypeInv, ControlInv
    <3>2. Copies = {} /\ Copies' = {}
      BY <1>1, <1>4, <2>5, <3>1, NoneYet, PathTypes DEF Copies, Tabled, Holds
    <3> QED
      BY <3>2, StoredStays
  <2>6. CASE pc \in {"remap_erase", "remap_copy"}
    <3>1. b = req.new /\ c = Holds("torn") /\ pc \in Calm /\ Cont = pc
      BY <1>4, <2>6 DEF InFlight, Programmed, Calm, Cont
    <3>2. req.new \in Blocks /\ req.lb \in Logical /\ block_mapping[req.lb] = req.new
      BY <2>6, <3>1 DEF TypeInv, ControlTypes, Request, PathInv, ReqInv
    <3>3. b \notin Tabled \cup Signed
      BY <3>1, <3>2, MappedAside
    <3>4. Aside
      BY <1>1, <1>4, <3>1, <3>3, PathTypes DEF Aside, Holds
    <3> QED
      BY <1>2, <3>4
  <2> QED
    BY <1>4, <2>1, <2>2, <2>3, <2>4, <2>5, <2>6 DEF InFlight
<1> QED
  BY <1>3, <1>4 DEF PowerCut

\* What any step does to the store.
LEMMA StoreChange ==
    ASSUME TypeInv, TypeInv', SoundInv, FlashInv, FlashInv', PathInv, TableInv, TableInv', OneMap,
           Next, Sound'
    PROVE  \/ Stored' = Stored
           \/ Working /\ Replaced /\ (PowerCut \/ (Working' /\ UNCHANGED block_mapping))
<1>1. CASE Same
  BY <1>1, StoredStays DEF Same
<1>2. CASE WriteProgram
  <2>1. /\ pc = "w_program" /\ UNCHANGED <<marked, block_mapping>> /\ pc' = w.cont /\ w' = w
        /\ content' = [content EXCEPT ![w.ba] = TableOf(info_table_cache)]
    BY <1>2 DEF WriteProgram, maps
  <2>2. Working /\ w.cont \in WriteConts
    BY <2>1, KeptOne
  <2>3. Working'
    BY <2>1, <2>2 DEF Working, Cont, WriteConts
  <2> QED
    BY <2>1, <2>2, <2>3, StoreProgrammed DEF Replaced
<1>3. CASE WriteErase \/ WriteProgramFails \/ (EraseFails /\ pc = "w_erase")
  <2>1. /\ pc \in {"w_erase", "w_program"} /\ pc' \in {"w_erase", "w_program"}
        /\ UNCHANGED block_mapping
    BY <1>3 DEF WriteErase, WriteProgramFails, EraseFails, maps
  <2>2. Working /\ w.cont \in WriteConts /\ w \in Range
    BY <2>1, KeptOne, PathTypes
  <2>3. w'.cont = w.cont
    BY <1>3, <2>2 DEF WriteErase, WriteProgramFails, EraseFails, Range
  <2>4. Working'
    BY <2>1, <2>2, <2>3 DEF Working, Cont, WriteConts
  <2>5. UNCHANGED flash => Stored' = Stored
    BY SameFlash, StoredStays
  <2> QED
    BY <1>3, <2>1, <2>2, <2>4, <2>5, WriteLess, StoreRemoved
<1>4. CASE PowerCut
  BY <1>4, StoreCut
<1> QED
  BY <1>1, <1>2, <1>3, <1>4, WhereWritten

\* OneMap holds of every state.
LEMMA OneMapInvariant == Spec => []OneMapOK
<1>1. Init => OneMapOK
  <2> SUFFICES ASSUME Init PROVE OneMap
    BY DEF OneMapOK
  <2>1. Cont = "off"
    BY DEF Init, InitWith, InitOff, Cont
  <2> QED
    BY <2>1 DEF OneMap, Calm
<1>2. TypeInv /\ MapInv /\ CopiesInv /\ DataOK /\ OneMapOK /\ [Next]_vars => OneMapOK'
  <2> SUFFICES ASSUME TypeInv, MapInv, CopiesInv, DataOK, OneMapOK, [Next]_vars, weak' = {}
               PROVE  OneMap'
    BY DEF OneMapOK
  <2>1. CASE Next
    <3>1. weak = {} /\ TypeInv' /\ CopiesInv' /\ DataOK'
      BY <2>1, WeakGrows, TypeNext, CopiesNext, DataNext
    <3>2. SoundInv /\ FlashInv /\ PathInv /\ TableInv /\ DataInv /\ OneMap
      BY <3>1 DEF MapInv, Sound, CopiesInv, CopiesOK, Regular, DataOK, OneMapOK
    <3>3. FlashInv' /\ TableInv' /\ DataInv'
      BY <3>1 DEF CopiesInv, CopiesOK, Regular, DataOK
    <3> QED
      BY <2>1, <3>1, <3>2, <3>3, OneMapStep
  <2>2. CASE UNCHANGED vars
    <3>1. UNCHANGED <<flash, ctl>> /\ weak' = weak
      BY <2>2 DEF vars, hist
    <3>2. Fewer /\ UNCHANGED <<pc, w>>
      BY <3>1, SameFlash DEF Fewer, ctl
    <3>3. SameMaps => SameMaps'
      BY <3>2, FewerMaps
    <3> QED
      BY <3>1, <3>2, <3>3 DEF OneMapOK, OneMap, Cont
  <2> QED
    BY <2>1, <2>2
<1> QED
  BY <1>1, <1>2, TypeInvariant, MapInvariant, CopiesInvariant, DataInvariant, PTL DEF Spec

\* With the power off nothing happens but nmbm_attach.
LEMMA IdleSteps ==
    ASSUME Next, pc \in {"off", "dead"}
    PROVE  PowerCut \/ AttachLoad \/ AttachRefused \/ AttachCreate \/ AttachNew
<1>1. ~(WriteStep \/ EraseStep)
  BY DEF WriteStep, WriteErase, WriteProgram, WriteProgramFails, WriteNoRoom, EraseStep, EraseNext,
      EraseFails, EraseDone
<1>2. ~(UpdateStep \/ RebuildStep)
  BY DEF UpdateStep, UpdateDone, UpdateOnce, BackupWritten, BackupFailed, MainWritten, RebuildStep,
      MainFailedAlone, RebuildMainFailed, RebuildMainWritten, RebuildBackupWritten,
      RebuildBackupFailed
<1>3. ~RescueStep
  BY DEF RescueMain, RescueTmpFailed, RescueTmpWritten, RescueMainDone, RescueFrontWritten,
      RescueFrontFailed, RescueBackFailed, RescueBackWritten, RescueBackAdopted, LoadOk,
      OlderWritten, OlderMainFailed, OlderBackupFailed, RescueStep
<1>4. ~(MapStep \/ RemapStep \/ UserStep)
  BY DEF MapStep, MapNext, MapLoopDone, MapLoopFull, CreateFull, CreateDone, RemapStep, UnmapDone,
      RemapErase, RemapCopy, RemapFull, RemapDone, UserStep, UserWrite, UserFault, UserRemap,
      UserIsBad, UserUnmap, Ready
<1>5. CASE AttachStep
  BY <1>5 DEF AttachStep, SignatureErase, SignatureEraseFails, SignatureProgram,
      SignatureProgramFails, SignatureNoRoom
<1> QED
  BY <1>1, <1>2, <1>3, <1>4, <1>5 DEF Next, DriverStep

\* A start takes up the map that is stored, or makes one when there is none.
LEMMA StoreStart ==
    ASSUME TypeInv, FlashInv, AttachLoad \/ AttachCreate \/ AttachNew,
           block_mapping' \in [Logical -> MaybeBlock]
    PROVE  block_mapping' \in IF Stored = {} THEN [Logical -> MaybeBlock] ELSE Stored
<1>1. CASE AttachLoad
  <2>1. PICK sig \in Signature : \E m \in FirstTable(sig) :
           \E s \in SecondTable(sig, m), ecc \in EccErrors : LoadTables(sig, m, s, ecc)
    BY <1>1 DEF AttachLoad
  <2>2. PICK m \in FirstTable(sig) :
           \E s \in SecondTable(sig, m), ecc \in EccErrors : LoadTables(sig, m, s, ecc)
    BY <2>1
  <2>3. PICK s \in SecondTable(sig, m), ecc \in EccErrors : LoadTables(sig, m, s, ecc)
    BY <2>2
  <2>4. block_mapping' = Tab(Newest(m, s)).map
    BY <2>3 DEF LoadTables, Tab
  <2>5. Stored = {Tab(Newest(m, s)).map}
    BY <2>3, FoundTables, StoredNow
  <2> QED
    BY <2>4, <2>5
<1>2. CASE AttachCreate
  BY <1>2 DEF AttachCreate, Stored
<1>3. CASE AttachNew
  <2>1. Signed = {}
    BY <1>3, SignatureIsSigned DEF AttachNew
  <2>2. Copies = {}
    BY <2>1 DEF FlashInv, PlaceInv, Copies
  <2> QED
    BY <2>2, StoredNow
<1> QED
  BY <1>1, <1>2, <1>3

\* The map that the driver uses, if it is running.
Memory == IF pc \in {"off", "dead"} THEN <<>> ELSE block_mapping

\* A map is never the one of a driver that does not run.
LEMMA MapIsNotNone == \A map \in [Logical -> MaybeBlock] : map # <<>>
<1> SUFFICES ASSUME NEW map \in [Logical -> MaybeBlock] PROVE DOMAIN map # DOMAIN <<>>
  OBVIOUS
<1>1. 0 \in DOMAIN map
  BY MgmtStartAssumption, BlockCountAssumption DEF Logical
<1>2. 0 \notin DOMAIN <<>>
  OBVIOUS
<1> QED
  BY <1>1, <1>2

\* Each step of the driver is one of the store.
LEMMA StoreStep ==
    ASSUME TypeInv, TypeInv', SoundInv, FlashInv, FlashInv', PathInv, TableInv, TableInv', OneMap,
           Next, weak = {}, weak' = {}
    PROVE  Store!Next
<1> DEFINE Map == [Logical -> MaybeBlock]
           Idle == {"off", "dead"}
<1>1. /\ block_mapping \in Map /\ block_mapping' \in Map
      /\ block_mapping # <<>> /\ block_mapping' # <<>>
  BY MapIsNotNone DEF TypeInv, StateTypes
<1>2. \/ Stored' = Stored
      \/ Working /\ Replaced /\ (PowerCut \/ (Working' /\ UNCHANGED block_mapping))
  BY StoreChange DEF Sound
<1>3. pc \in Idle => ~Working
  BY DEF Working, Cont
<1>4. pc' \in Idle => ~Working'
  BY DEF Working, Cont
<1>5. PowerCut => pc' \in Idle
  BY DEF PowerCut
<1>6. \/ /\ Memory = <<>> /\ Stored' = Stored
         /\ Memory' \in IF Stored = {} THEN Map ELSE Stored
      \/ Memory # <<>> /\ Memory' \in Map /\ Stored' = Stored
      \/ Memory # <<>> /\ Memory' = Memory /\ Stored' = {Memory}
      \/ Memory # <<>> /\ ~(backup_table_ba # 0) /\ Memory' = Memory /\ Stored' = {}
      \/ /\ Memory' = <<>>
         /\ \/ Stored' = Stored
            \/ Memory # <<>> /\ Stored' = {Memory}
            \/ Memory # <<>> /\ ~(backup_table_ba # 0) /\ Stored' = {}
  <2>1. CASE pc' \in Idle
    <3>1. Memory' = <<>>
      BY <2>1 DEF Memory
    <3>2. Working => Memory # <<>> /\ Memory = block_mapping
      BY <1>1, <1>3 DEF Memory
    <3> QED
      BY <1>2, <3>1, <3>2 DEF Replaced
  <2>2. CASE pc' \notin Idle /\ pc \in Idle
    <3>1. AttachLoad \/ AttachCreate \/ AttachNew
      BY <1>5, <2>2, IdleSteps DEF AttachRefused, Goto
    <3>2. Memory = <<>> /\ Memory' = block_mapping'
      BY <2>2 DEF Memory
    <3> QED
      BY <1>1, <1>2, <1>3, <2>2, <3>1, <3>2, StoreStart
  <2>3. CASE pc' \notin Idle /\ pc \notin Idle
    <3>1. Memory = block_mapping /\ Memory' = block_mapping'
      BY <2>3 DEF Memory
    <3> QED
      BY <1>1, <1>2, <1>5, <2>3, <3>1 DEF Replaced
  <2> QED
    BY <2>1, <2>2, <2>3
<1> QED
  BY <1>6 DEF Memory, Stored, Store!Next, Store!Start, Store!Change, Store!Commit, Store!Erase,
      Store!Stop

\* nmbm_update_info_table stores the map, nmbm_load_info_table takes it up again: for all
\* failures, rescues and power cuts the flash is a store of one map that is
\* replaced in one step.
THEOREM TablesStoreMap == Spec => StoresMap
<1>1. Init => Store!Init
  <2> SUFFICES ASSUME Init PROVE Store!Init
    OBVIOUS
  <2>1. TypeInv /\ FlashInv /\ weak = {} /\ pc = "off" /\ backup_table_ba = 0
    <3>1. weak = {} /\ pc = "off" /\ backup_table_ba = 0
      BY DEF Init, InitWith, InitOff
    <3> QED
      BY <3>1, TypeInit, CopiesInit DEF CopiesOK, Regular
  <2>2. Stored = {}
    <3>1. Copies = {}
      BY DEF Init, InitWith, InitOff, Copies, Tabled, Holds
    <3> QED
      BY <2>1, <3>1, StoredNow
  <2> QED
    BY <2>1, <2>2 DEF Store!Init, Stored
<1>2. TypeInv /\ MapInv /\ CopiesInv /\ DataOK /\ OneMapOK /\ [Next]_vars
      => [Store!Next]_Store!vars
  <2> SUFFICES ASSUME TypeInv, MapInv, CopiesInv, DataOK, OneMapOK, [Next]_vars
               PROVE  [Store!Next]_Store!vars
    OBVIOUS
  <2>1. CASE weak' # {}
    BY <2>1 DEF Store!Next
  <2>2. CASE Next /\ weak' = {}
    <3>1. weak = {} /\ TypeInv' /\ CopiesInv'
      BY <2>2, WeakGrows, TypeNext, CopiesNext
    <3>2. SoundInv /\ FlashInv /\ PathInv /\ TableInv /\ OneMap
      BY <3>1 DEF MapInv, Sound, CopiesInv, CopiesOK, Regular, OneMapOK
    <3>3. FlashInv' /\ TableInv'
      BY <2>2 , <3>1 DEF CopiesInv, CopiesOK, Regular
    <3> QED
      BY <2>2, <3>1, <3>2, <3>3, StoreStep
  <2>3. CASE UNCHANGED vars
    <3>1. UNCHANGED <<flash, block_mapping, backup_table_ba, pc, weak>>
      BY <2>3 DEF vars, maps, tabs, ctl, hist
    <3>2. content' = content /\ marked' = marked
      BY <3>1 DEF flash
    <3>3. Signature' = Signature
      BY <3>2 DEF Signature, Last, IsLast
    <3>4. Restart' = Restart
      BY <3>2, <3>3 DEF Restart, FirstTable, SecondTable, Loadable, First, IsFirst, Newest,
            Plausible
    <3> QED
      BY <3>1, <3>4 DEF Store!vars
  <2> QED
    BY <2>1, <2>2, <2>3
<1> QED
  BY <1>1, <1>2, TypeInvariant, MapInvariant, CopiesInvariant, DataInvariant, OneMapInvariant, PTL
     DEF Spec, StoresMap, Store!Spec

=============================================================================
