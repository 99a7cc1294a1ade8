------------------------------ MODULE NMBM_map ------------------------------
(***************************************************************************)
(* The types of NMBM and its map: two logical blocks never share a         *)
(* physical one, and none lies where the driver keeps its tables or hands  *)
(* out blocks.  Proved with TLAPS for every chip, every management area    *)
(* and every set of factory marks.                                         *)
(***************************************************************************)
EXTENDS NMBM, TLAPS

----------------------------------------------------------------------------
(* The inductive invariant of the types.                                     *)

\* Where the driver goes on once the range in hand is written or erased.
Cont == IF pc \in {"w_erase", "w_program", "e_erase"} THEN w.cont ELSE pc

WriteConts == {"once_backup", "once_main", "rebuild_main", "rebuild_backup", "rescue_tmp",
               "rescue_main", "rescue_front", "rescue_back", "older_main", "older_backup"}
EraseConts == {"rescue_adopt", "load_ok", "update", "map_loop"}
Callers    == {"off", "map_loop", "create_full", "create_ret",
               "remap_ret", "remap_full", "unmap_ret"}

\* The control state makes sense: only writes and erases go on at w.cont, to a
\* label that belongs to them, and what that label reads has been set.
ControlInv ==
    /\ pc \in {"w_erase", "w_program"} => w.cont \in WriteConts
    /\ pc = "e_erase" => w.cont \in EraseConts
    /\ pc \in {"w_program", "sig_program"} => w.ba \in Blocks
    /\ Cont = "rescue_main" => w.limit \in Blocks
    /\ Cont = "rescue_adopt" => at # NoBlock
    /\ caller \in Callers

\* The parts of the types: the flash; what is in memory; where the driver is; the
\* rest.
FlashTypes == content \in [Blocks -> Content] /\ marked \subseteq Blocks
StateTypes ==
    /\ bad \subseteq Blocks
    /\ block_mapping \in [Logical -> MaybeBlock]
    /\ block_state_changed \in BOOLEAN /\ block_mapping_changed \in BOOLEAN
    /\ protected \in BOOLEAN
    /\ data_block_count \in 0..MgmtStart
TableTypes ==
    /\ signature_ba \in Blocks /\ main_table_ba \in Blocks /\ backup_table_ba \in Blocks
    /\ mapping_blocks_ba \in Int /\ mapping_blocks_top_ba \in Int
    /\ write_count \in Nat /\ info_table_cache \in Table
ControlTypes ==
    /\ pc \in Labels /\ caller \in Labels
    /\ w \in Range
    /\ at \in MaybeBlock /\ req \in Request
HistoryTypes ==
    /\ intact \subseteq Logical /\ weak \subseteq {"skip", "unmap", "overlap", "unsaved"}
    /\ faults \in 0..MaxFaults /\ cuts \in 0..MaxCuts

TypeInv ==
    FlashTypes /\ StateTypes /\ TableTypes /\ ControlTypes /\ HistoryTypes /\ ControlInv

----------------------------------------------------------------------------
(* Types.                                                                    *)

\* What the driver and the chip write to a block is the content of a block.
LEMMA ContentTypes ==
    /\ NoTable \in Table
    /\ \A kind \in {"erased", "torn", "sig", "old"} : Holds(kind) \in Content
    /\ \A lb \in Logical : DataOf(lb) \in Content
    /\ \A t \in Table : TableOf(t) \in Content
    /\ \A c \in Content : c.t \in Table
<1>1. NoTable \in Table
  BY DEF NoTable, Table, MaybeBlock
<1> QED
  BY <1>1 DEF Holds, DataOf, TableOf, Content

\* Block numbers are integers.
LEMMA BlockTypes ==
    /\ Blocks \subseteq Int /\ Logical \subseteq Blocks
    /\ MgmtStart \in Blocks /\ 0 \in Blocks /\ 0 \in Logical /\ NoBlock \notin Blocks
  BY BlockCountAssumption, MgmtStartAssumption DEF Blocks, Logical, NoBlock

\* The records that the driver builds have their types.
LEMMA RecordTypes ==
    /\ NoRange \in Range /\ NoRange.cont = "off" /\ NoReq \in Request
    /\ \A start, limit \in Int, cont \in Labels :
          [start |-> start, ba |-> start, limit |-> limit, cont |-> cont] \in Range
    /\ \A wc \in Nat, b \in SUBSET Blocks, m \in [Logical -> MaybeBlock] :
          [wc |-> wc, bad |-> b, map |-> m] \in Table
    /\ \A t \in Table : /\ t.wc \in Nat /\ t.bad \subseteq Blocks
                        /\ t.map \in [Logical -> MaybeBlock]
<1>1. NoReq \in Request
  BY BlockTypes DEF NoReq, Request
<1>2. NoRange \in Range /\ NoRange.cont = "off"
  BY DEF NoRange, Range, Labels
<1>3. \A start, limit \in Int, cont \in Labels :
         [start |-> start, ba |-> start, limit |-> limit, cont |-> cont] \in Range
  BY DEF Range
<1> QED
  BY <1>1, <1>2, <1>3 DEF Table

\* A range that is taken in hand.
LEMMA WorkOnTypes ==
    ASSUME NEW label, NEW start \in Int, NEW limit \in Int, NEW cont \in Labels,
           WorkOn(label, start, limit, cont)
    PROVE  /\ pc' = label /\ at' = at /\ req' = req /\ w' \in Range
           /\ w'.start = start /\ w'.ba = start /\ w'.limit = limit /\ w'.cont = cont
  BY RecordTypes DEF WorkOn

\* A table that is made up.
LEMMA CacheTypes ==
    ASSUME NEW b \in SUBSET Blocks, NEW map \in [Logical -> MaybeBlock], NEW count \in Nat,
           NEW changed \in BOOLEAN, GenerateCache(b, map, count, changed)
    PROVE  /\ write_count' \in Nat /\ info_table_cache' \in Table
           /\ info_table_cache'.map = map
  BY RecordTypes DEF GenerateCache

\* The steps of writing a table keep the types.
LEMMA TypeWrite == TypeInv /\ WriteStep => TypeInv'
<1> SUFFICES ASSUME TypeInv, WriteStep PROVE TypeInv'
  OBVIOUS
<1> USE ContentTypes, BlockTypes DEF TypeInv, FlashTypes, StateTypes, TableTypes, HistoryTypes,
      ControlTypes, ControlInv, Range, Cont, Labels, WriteConts, EraseConts, Callers, MaybeBlock
<1>1. CASE WriteErase
  BY <1>1 DEF WriteErase, Usable, IsFirst, SetBad, FoundMarked, maps, tabs, tops, cache, hist,
      env
<1>2. CASE WriteProgram
  BY <1>2 DEF WriteProgram, state, maps, tabs, tops, cache, hist, env
<1>3. CASE WriteProgramFails
  BY <1>3, BoundsAssumption DEF WriteProgramFails, Ruin, MarkBad, Fault, maps, tabs, tops,
      cache, hist, SetBad
<1>4. CASE WriteNoRoom
  <2> USE <1>4 DEF WriteNoRoom, Usable, SetBad, FoundMarked, flash, maps, tabs, tops, cache,
      hist, env
  <2>1. FlashTypes' /\ StateTypes' /\ TableTypes' /\ HistoryTypes'
    OBVIOUS
  <2>2. ControlTypes' /\ ControlInv'
    OBVIOUS
  <2> QED
    BY <2>1, <2>2
<1> QED
  BY <1>1, <1>2, <1>3, <1>4 DEF WriteStep

\* The steps of erasing between two tables keep the types.
LEMMA TypeErase == TypeInv /\ EraseStep => TypeInv'
<1> SUFFICES ASSUME TypeInv, EraseStep PROVE TypeInv'
  OBVIOUS
<1> USE ContentTypes, BlockTypes DEF TypeInv, FlashTypes, StateTypes, TableTypes, HistoryTypes,
      ControlTypes, ControlInv, Range, Cont, Labels, WriteConts, EraseConts, Callers, MaybeBlock
<1>1. CASE EraseNext
  BY <1>1 DEF EraseNext, Usable, IsFirst, SetBad, FoundMarked, NextBlock, maps, tabs, tops,
      cache, hist, env
<1>2. CASE EraseFails
  BY <1>2, BoundsAssumption DEF EraseFails, Usable, IsFirst, FailErase, MarkBad, FoundMarked,
      Fault, maps, tabs, tops, cache, hist, Ruin, SetBad
<1>3. CASE EraseDone
  <2> USE <1>3 DEF EraseDone, Usable, SetBad, FoundMarked, flash, maps, tabs, tops, cache,
      hist, env
  <2>1. FlashTypes' /\ StateTypes' /\ TableTypes' /\ HistoryTypes'
    OBVIOUS
  <2>2. ControlTypes' /\ ControlInv'
    OBVIOUS
  <2> QED
    BY <2>1, <2>2
<1> QED
  BY <1>1, <1>2, <1>3 DEF EraseStep

\* The steps of updating the tables keep the types.
LEMMA TypeUpdate == TypeInv /\ UpdateStep => TypeInv'
<1> SUFFICES ASSUME TypeInv, UpdateStep PROVE TypeInv'
  OBVIOUS
<1> USE ContentTypes, BlockTypes DEF TypeInv, FlashTypes, StateTypes, TableTypes, HistoryTypes,
      ControlTypes, ControlInv, Range, Cont, Labels, WriteConts, EraseConts, Callers, MaybeBlock
<1>1. CASE UpdateDone
  BY <1>1 DEF UpdateDone, Goto, flash, state, maps, tabs, tops, cache, hist, env
<1>2. CASE UpdateOnce
  <2> USE <1>2 DEF UpdateOnce, WriteTable, flash, state, maps, tabs, tops, hist, env, WorkOn
  <2>1. FlashTypes' /\ StateTypes' /\ TableTypes' /\ HistoryTypes'
    BY CacheTypes
  <2>2. ControlTypes' /\ ControlInv'
    BY RecordTypes
  <2> QED
    BY <2>1, <2>2
<1>3. CASE BackupWritten
  <2> USE <1>3 DEF BackupWritten, MarkTablesClean, WriteTable, MainLimit, flash, tops, cache,
      hist, env, WorkOn
  <2>1. FlashTypes' /\ HistoryTypes'
    OBVIOUS
  <2>2. StateTypes'
    OBVIOUS
  <2>3. TableTypes'
    OBVIOUS
  <2>4. ControlTypes' /\ ControlInv'
    BY RecordTypes
  <2> QED
    BY <2>1, <2>2, <2>3, <2>4
<1>4. CASE BackupFailed
  BY <1>4, RecordTypes DEF BackupFailed, WriteTable, flash, state, maps, tops, cache, hist,
      env, WorkOn
<1>5. CASE MainWritten
  <2> USE <1>5 DEF MainWritten, MarkTablesClean, Goto, OnceDone, flash, tops, cache, hist, env
  <2>1. FlashTypes' /\ HistoryTypes'
    OBVIOUS
  <2>2. StateTypes'
    OBVIOUS
  <2>3. TableTypes'
    OBVIOUS
  <2>4. ControlTypes' /\ ControlInv'
    OBVIOUS
  <2> QED
    BY <2>1, <2>2, <2>3, <2>4
<1> QED
  BY <1>1, <1>2, <1>3, <1>4, <1>5 DEF UpdateStep

\* The steps of rebuilding both tables keep the types.
LEMMA TypeRebuild == TypeInv /\ RebuildStep => TypeInv'
<1> SUFFICES ASSUME TypeInv, RebuildStep PROVE TypeInv'
  OBVIOUS
<1> USE ContentTypes, BlockTypes DEF TypeInv, FlashTypes, StateTypes, TableTypes, HistoryTypes,
      ControlTypes, ControlInv, Range, Cont, Labels, WriteConts, EraseConts, Callers, MaybeBlock
<1>1. CASE MainFailedAlone
  BY <1>1, RecordTypes DEF MainFailedAlone, tops, RebuildTables, flash, state, maps, cache,
      hist, env, WorkOn
<1>2. CASE RebuildMainFailed
  BY <1>2 DEF RebuildMainFailed, Goto, OnceFailed, flash, state, maps, tabs, tops, cache, env
<1>3. CASE RebuildMainWritten
  <2> USE <1>3 DEF RebuildMainWritten, MarkTablesClean, WriteTable, Goto, OnceDone, flash,
      tops, cache, hist, env, WorkOn
  <2>1. FlashTypes' /\ HistoryTypes'
    OBVIOUS
  <2>2. StateTypes'
    OBVIOUS
  <2>3. TableTypes'
    OBVIOUS
  <2>4. ControlTypes' /\ ControlInv'
    BY RecordTypes
  <2> QED
    BY <2>1, <2>2, <2>3, <2>4
<1>4. CASE RebuildBackupWritten
  BY <1>4, RecordTypes DEF RebuildBackupWritten, EraseRange, OnceDone, flash, state, maps,
      tops, cache, hist, env, WorkOn
<1>5. CASE RebuildBackupFailed
  BY <1>5 DEF RebuildBackupFailed, Goto, OnceDone, flash, state, maps, tabs, tops, cache, hist,
      env
<1> QED
  BY <1>1, <1>2, <1>3, <1>4, <1>5 DEF RebuildStep

\* The steps of rescuing a table keep the types.
LEMMA TypeRescue == TypeInv /\ RescueStep => TypeInv'
<1> SUFFICES ASSUME TypeInv, RescueStep PROVE TypeInv'
  OBVIOUS
<1> USE ContentTypes, BlockTypes DEF TypeInv, FlashTypes, StateTypes, TableTypes, HistoryTypes,
      ControlTypes, ControlInv, Range, Cont, Labels, WriteConts, EraseConts, Callers, MaybeBlock
<1>1. CASE RescueMain
  <2> USE <1>1 DEF RescueMain, WriteTable, tabs, BackupBecomesMain, Goto, flash, state, maps,
      tops, cache, hist, env, WorkOn
  <2>1. FlashTypes' /\ StateTypes' /\ TableTypes' /\ HistoryTypes'
    OBVIOUS
  <2>2. ControlTypes' /\ ControlInv'
    BY RecordTypes
  <2> QED
    BY <2>1, <2>2
<1>2. CASE RescueTmpFailed
  BY <1>2, RecordTypes DEF RescueTmpFailed, WriteTable, tabs, BackupBecomesMain, Goto, flash,
      state, maps, tops, cache, hist, env, WorkOn
<1>3. CASE RescueTmpWritten
  BY <1>3, RecordTypes DEF RescueTmpWritten, WriteTable, flash, state, maps, tops, cache, hist,
      env, WorkOn
<1>4. CASE RescueMainDone
  <2> USE <1>4 DEF RescueMainDone, MarkTablesClean, Goto, flash, tops, cache, hist, env
  <2>1. FlashTypes' /\ StateTypes' /\ TableTypes' /\ HistoryTypes'
    BY DEF Cont
  <2>2. ControlTypes' /\ ControlInv'
    OBVIOUS
  <2> QED
    BY <2>1, <2>2
<1>5. CASE RescueFrontWritten
  <2> USE <1>5 DEF RescueFrontWritten, MarkTablesClean, EraseRange, flash, tops, cache, hist,
      env, WorkOn
  <2>1. FlashTypes' /\ StateTypes' /\ TableTypes' /\ HistoryTypes'
    OBVIOUS
  <2>2. w' \in Range /\ w'.cont = "load_ok"
    BY RecordTypes
  <2>3. ControlTypes' /\ ControlInv'
    BY <2>2
  <2> QED
    BY <2>1, <2>3
<1>6. CASE RescueFrontFailed
  <2> USE <1>6 DEF RescueFrontFailed, WriteTable, tabs, tops, LoadDone, flash, state, maps,
      cache, hist, env, WorkOn
  <2>1. FlashTypes' /\ StateTypes' /\ TableTypes' /\ HistoryTypes'
    OBVIOUS
  <2>2. ControlTypes' /\ ControlInv'
    BY RecordTypes
  <2> QED
    BY <2>1, <2>2
<1>7. CASE RescueBackFailed
  <2> USE <1>7 DEF RescueBackFailed, WriteTable, tabs, tops, LoadDone, flash, state, maps,
      cache, hist, env, WorkOn
  <2>1. FlashTypes' /\ StateTypes' /\ TableTypes' /\ HistoryTypes'
    OBVIOUS
  <2>2. ControlTypes' /\ ControlInv'
    BY RecordTypes
  <2> QED
    BY <2>1, <2>2
<1>8. CASE RescueBackWritten
  BY <1>8, RecordTypes DEF RescueBackWritten, EraseRange, flash, state, maps, tabs, tops,
      cache, hist, env, WorkOn
<1>9. CASE RescueBackAdopted
  <2> USE <1>9 DEF RescueBackAdopted, MarkTablesClean, tops, LoadDone, flash, cache, hist, env
  <2>1. FlashTypes' /\ HistoryTypes'
    OBVIOUS
  <2>2. StateTypes'
    OBVIOUS
  <2>3. TableTypes'
    BY DEF Cont
  <2>4. ControlTypes' /\ ControlInv'
    BY RecordTypes
  <2> QED
    BY <2>1, <2>2, <2>3, <2>4
<1>10. CASE LoadOk
  BY <1>10, RecordTypes DEF LoadOk, tabs, tops, LoadDone, flash, state, maps, cache, hist, env
<1>11. CASE OlderWritten
  <2> USE <1>11 DEF OlderWritten, MarkTablesClean, tops, LoadDone, flash, cache, hist, env
  <2>1. FlashTypes' /\ HistoryTypes'
    OBVIOUS
  <2>2. StateTypes'
    OBVIOUS
  <2>3. TableTypes'
    OBVIOUS
  <2>4. ControlTypes' /\ ControlInv'
    BY RecordTypes
  <2> QED
    BY <2>1, <2>2, <2>3, <2>4
<1>12. CASE OlderMainFailed
  BY <1>12, RecordTypes DEF OlderMainFailed, BackupBecomesMain, WriteTable, flash, state, maps,
      tops, cache, hist, env, WorkOn
<1>13. CASE OlderBackupFailed
  BY <1>13, RecordTypes DEF OlderBackupFailed, tops, LoadDone, flash, state, maps, cache, hist,
      env
<1> QED
  BY <1>1, <1>2, <1>3, <1>4, <1>5, <1>6, <1>7, <1>8, <1>9, <1>10, <1>11, <1>12, <1>13 DEF
      RescueStep

\* The steps of the mapping loop of a creation keep the types.
LEMMA TypeMap == TypeInv /\ MapStep => TypeInv'
<1> SUFFICES ASSUME TypeInv, MapStep PROVE TypeInv'
  OBVIOUS
<1> USE ContentTypes, BlockTypes DEF TypeInv, FlashTypes, StateTypes, TableTypes, HistoryTypes,
      ControlTypes, ControlInv, Range, Cont, Labels, WriteConts, EraseConts, Callers, MaybeBlock
<1>1. CASE MapNext
  <2> USE <1>1 DEF MapNext, LeftToMap, Unmapped, IsLast, MapTo, Skipped, flash, state, tabs,
      cache, ctl, env, TopAfterMap
  <2>1. FlashTypes' /\ HistoryTypes'
    OBVIOUS
  <2>2. StateTypes'
    BY DEF Logical
  <2>3. TableTypes'
    OBVIOUS
  <2>4. ControlTypes' /\ ControlInv'
    OBVIOUS
  <2> QED
    BY <2>1, <2>2, <2>3, <2>4
<1>2. CASE MapLoopDone
  BY <1>2 DEF MapLoopDone, LeftToMap, UpdateTables, flash, state, maps, tabs, tops, cache,
      hist, env
<1>3. CASE MapLoopFull
  BY <1>3 DEF MapLoopFull, LeftToMap, Unmapped, UpdateTables, flash, state, maps, tabs, tops,
      cache, hist, env
<1>4. CASE CreateFull
  BY <1>4 DEF CreateFull, UpdateTables, flash, state, maps, tabs, cache, hist, env
<1>5. CASE CreateDone
  BY <1>5, RecordTypes DEF CreateDone, flash, state, maps, tabs, tops, cache, hist, env
<1> QED
  BY <1>1, <1>2, <1>3, <1>4, <1>5 DEF MapStep

\* The steps of carrying out a remap keep the types.
LEMMA TypeRemap == TypeInv /\ RemapStep => TypeInv'
<1> SUFFICES ASSUME TypeInv, RemapStep PROVE TypeInv'
  OBVIOUS
<1> USE ContentTypes, BlockTypes DEF TypeInv, FlashTypes, StateTypes, TableTypes, HistoryTypes,
      ControlTypes, ControlInv, Range, Cont, Labels, WriteConts, EraseConts, Callers, MaybeBlock
<1>1. CASE UnmapDone
  BY <1>1 DEF UnmapDone, Goto, flash, state, maps, tabs, tops, cache, hist, env
<1>2. CASE RemapErase
  BY <1>2, BoundsAssumption DEF RemapErase, env, FailErase, Fault, Goto, UpdateTables, state,
      maps, tabs, tops, cache, hist, Ruin
<1>3. CASE RemapCopy
  <2> USE <1>3
  <2>1. req.old \in Blocks /\ req.lb \in Logical
    BY DEF Request
  <2>2. FlashTypes'
    <3>1. \E c \in {content[req.old], Holds("torn")} : content' = [content EXCEPT ![req.new] = c]
      BY DEF RemapCopy, Ruin
    <3>2. marked' = marked
      BY DEF RemapCopy
    <3>3. PICK c \in Content : content' = [content EXCEPT ![req.new] = c]
      BY <2>1, <3>1
    <3> QED
      BY <3>2, <3>3
  <2>3. intact' \subseteq intact \cup {req.lb}
    BY DEF RemapCopy
  <2>4. HistoryTypes'
    <3>1. weak' \subseteq weak \cup {"unmap"}
      BY DEF RemapCopy, Overwritten
    <3>2. faults' \in {faults, faults - 1} /\ (faults' = faults \/ faults > 0) /\ cuts' = cuts
      BY DEF RemapCopy, Fault, env
    <3> QED
      BY <2>1, <2>3, <3>1, <3>2, BoundsAssumption
  <2>5. StateTypes' /\ TableTypes'
    BY DEF RemapCopy, state, maps, tabs, tops, cache
  <2>6. ControlTypes' /\ ControlInv'
    BY DEF RemapCopy, Goto, UpdateTables
  <2> QED
    BY <2>2, <2>4, <2>5, <2>6
<1>4. CASE RemapFull
  BY <1>4 DEF RemapFull, Goto, flash, state, maps, tabs, cache, hist, env
<1>5. CASE RemapDone
  <2> USE <1>5 DEF RemapDone, state, maps, tabs, tops, cache, hist, env
  <2>1. FlashTypes' /\ HistoryTypes'
    BY DEF Request
  <2>2. StateTypes'
    OBVIOUS
  <2>3. TableTypes'
    OBVIOUS
  <2>4. ControlTypes' /\ ControlInv'
    BY RecordTypes
  <2> QED
    BY <2>1, <2>2, <2>3, <2>4
<1> QED
  BY <1>1, <1>2, <1>3, <1>4, <1>5 DEF RemapStep

\* A table found at a restart is in a block of the chip.
LEMMA FoundTypes ==
    ASSUME TypeInv, NEW sig \in Signature, NEW m \in FirstTable(sig), NEW s \in SecondTable(sig, m)
    PROVE  /\ sig \in Blocks /\ m \in Blocks /\ s \in MaybeBlock
           /\ m >= MgmtStart /\ m < sig
           /\ s # NoBlock => s > m /\ s < sig
           /\ Newest(m, s) \in {m, s} \cap Blocks
           /\ content[m].t \in Table /\ content[Newest(m, s)].t \in Table
           /\ s # NoBlock => content[s].t \in Table
<1>1. sig \in Blocks
  BY DEF Signature, Last
<1>2. m \in Blocks /\ m \in MgmtStart..(sig - 2)
  BY DEF FirstTable, First, Loadable
<1>3. s # NoBlock => s \in Blocks /\ s \in (m + 1)..(sig - 2)
  BY DEF SecondTable, First, Loadable
<1>4. Newest(m, s) \in {m, s} \cap Blocks
  BY <1>2, <1>3 DEF Newest
<1> QED
  BY <1>1, <1>2, <1>3, <1>4, BlockTypes, ContentTypes DEF TypeInv, FlashTypes, MaybeBlock

\* nmbm_load_info_table up to its first write.
LEMMA LoadTypes ==
    ASSUME TypeInv, NEW sig \in Signature, NEW m \in FirstTable(sig),
           NEW s \in SecondTable(sig, m), NEW ecc \in EccErrors, LoadTables(sig, m, s, ecc)
    PROVE  /\ StateTypes' /\ TableTypes' /\ ControlTypes' /\ ControlInv'
           /\ weak' \subseteq {"skip", "unmap", "overlap", "unsaved"}
<1> DEFINE t == content[Newest(m, s)].t
           last == IF s = NoBlock THEN m ELSE s
<1>1. /\ sig \in Blocks /\ m \in Blocks /\ s \in MaybeBlock /\ t \in Table
      /\ content[m].t \in Table /\ s # NoBlock => content[s].t \in Table
  BY FoundTypes
<1>2. t.wc \in Nat /\ t.bad \subseteq Blocks /\ t.map \in [Logical -> MaybeBlock]
  BY <1>1, RecordTypes
<1>3. bad' \subseteq Blocks
  BY <1>1, <1>2 DEF LoadTables, TypeInv, FlashTypes, EccErrors, Blocks
<1>4. block_state_changed' \in BOOLEAN /\ block_mapping_changed' \in BOOLEAN
  BY DEF LoadTables
<1>5. PICK changed \in BOOLEAN : GenerateCache(bad', t.map, t.wc, changed)
  BY DEF LoadTables
<1>6. write_count' \in Nat /\ info_table_cache' \in Table
  BY <1>2, <1>3, <1>5, CacheTypes
<1>7. /\ signature_ba' = sig /\ main_table_ba' = m
      /\ backup_table_ba' = (IF s = NoBlock THEN 0 ELSE s)
      /\ mapping_blocks_ba' = last + 1 /\ mapping_blocks_top_ba' \in Blocks
      /\ block_mapping' = t.map /\ data_block_count' \in 0..MgmtStart
      /\ weak' \subseteq weak \cup {"overlap"}
  BY DEF LoadTables
<1>8. TableTypes'
  BY <1>1, <1>6, <1>7, BlockTypes DEF TableTypes, MaybeBlock
<1>9. \/ /\ s = NoBlock /\ UNCHANGED protected
         /\ WriteTable(MgmtStart, m, "rescue_front")
      \/ LoadDone(TRUE)
      \/ /\ s # NoBlock /\ UNCHANGED protected
         /\ \/ WriteTable(m, s, "older_main")
            \/ WriteTable(s, mapping_blocks_top_ba', "older_backup")
  BY DEF LoadTables
<1>10. protected' \in BOOLEAN
  BY <1>9 DEF LoadDone, TypeInv, StateTypes
<1>11. ControlTypes' /\ ControlInv'
  <2>1. CASE LoadDone(TRUE)
    BY <2>1, RecordTypes DEF LoadDone, ControlTypes, ControlInv, Cont, Labels, Callers, MaybeBlock
  <2>2. ASSUME NEW start \in Int, NEW limit \in Int,
               NEW cont \in {"rescue_front", "older_main", "older_backup"},
               WriteTable(start, limit, cont)
        PROVE  ControlTypes' /\ ControlInv'
    <3>1. pc' = "w_erase" /\ w' \in Range /\ w'.cont = cont /\ UNCHANGED <<caller, at, req>>
      BY <2>2, RecordTypes DEF WriteTable, WorkOn, Labels
    <3> QED
      BY <3>1 DEF TypeInv, ControlTypes, ControlInv, Cont, WriteConts, Labels
  <2> QED
    BY <1>1, <1>7, <1>9, <2>1, <2>2, BlockTypes DEF MaybeBlock
<1> QED
  BY <1>2, <1>3, <1>4, <1>7, <1>8, <1>10, <1>11 DEF TypeInv, StateTypes, HistoryTypes

\* nmbm_scan_badblocks and nmbm_build_mapping_table.
LEMMA ScanTypes ==
    ASSUME NEW found \in SUBSET Blocks, ScanAndMap(found)
    PROVE  /\ bad' \subseteq Blocks /\ block_state_changed' \in BOOLEAN
           /\ block_mapping' \in [Logical -> MaybeBlock]
           /\ data_block_count' \in 0..MgmtStart
           /\ UNCHANGED block_mapping_changed /\ intact' = {}
  BY BlockTypes DEF ScanAndMap, MaybeBlock

\* The start of nmbm_create_info_table.
LEMMA BeginTypes ==
    ASSUME TypeInv, NEW sig \in Blocks, NEW b \in SUBSET Blocks,
           NEW map \in [Logical -> MaybeBlock], NEW changed \in BOOLEAN,
           BeginTables(sig, b, map, changed)
    PROVE  TableTypes' /\ ControlTypes' /\ ControlInv'
<1>1. CASE /\ GenerateCache(b, map, write_count, changed)
           /\ RebuildTables("map_loop")
           /\ signature_ba' = sig /\ mapping_blocks_top_ba' \in Blocks
  <2>1. write_count' \in Nat /\ info_table_cache' \in Table
    BY <1>1, CacheTypes DEF TypeInv, TableTypes
  <2>2. TableTypes'
    BY <1>1, <2>1, BlockTypes DEF RebuildTables, TableTypes
  <2>3. /\ pc' = "w_erase" /\ w' \in Range /\ w'.cont = "rebuild_main" /\ caller' = "map_loop"
        /\ UNCHANGED <<at, req>>
    BY <1>1, RecordTypes, BlockTypes DEF RebuildTables, WorkOn, Labels
  <2>4. ControlTypes' /\ ControlInv'
    BY <2>3 DEF TypeInv, ControlTypes, ControlInv, Cont, WriteConts, Callers, Labels
  <2> QED
    BY <2>2, <2>4
<1>2. CASE Goto("dead") /\ UNCHANGED <<tabs, mapping_blocks_top_ba, cache>> /\ signature_ba' = sig
  BY <1>2 DEF Goto, tabs, cache, TypeInv, TableTypes, ControlTypes, ControlInv, Cont, Labels
<1> QED
  BY <1>1, <1>2 DEF BeginTables

\* The steps of attaching and creating keep the types.
LEMMA TypeAttach == TypeInv /\ AttachStep => TypeInv'
<1> SUFFICES ASSUME TypeInv, AttachStep PROVE TypeInv'
  OBVIOUS
<1>1. CASE AttachLoad
  <2>1. PICK sig \in Signature : \E m \in FirstTable(sig) :
           \E s \in SecondTable(sig, m), ecc \in EccErrors : LoadTables(sig, m, s, ecc)
    BY <1>1 DEF AttachLoad
  <2>2. PICK m \in FirstTable(sig) :
           \E s \in SecondTable(sig, m), ecc \in EccErrors : LoadTables(sig, m, s, ecc)
    BY <2>1
  <2>3. PICK s \in SecondTable(sig, m), ecc \in EccErrors : LoadTables(sig, m, s, ecc)
    BY <2>2
  <2>4. /\ StateTypes' /\ TableTypes' /\ ControlTypes' /\ ControlInv'
        /\ weak' \subseteq {"skip", "unmap", "overlap", "unsaved"}
    BY <2>3, LoadTypes
  <2> QED
    BY <1>1, <2>4 DEF AttachLoad, TypeInv, FlashTypes, HistoryTypes, flash, env
<1>2. CASE AttachRefused
  BY <1>2 DEF AttachRefused, Goto, TypeInv, FlashTypes, StateTypes, TableTypes, HistoryTypes,
      ControlTypes, ControlInv, Cont, Labels, flash, state, maps, tabs, tops, cache, hist, env
<1>3. CASE AttachCreate
  <2>1. PICK sig \in Signature, ecc \in EccErrors :
           /\ ScanAndMap(marked \cup {b \in ecc : MgmtStart <= b /\ b < sig - 1})
           /\ BeginTables(sig, bad', block_mapping', block_state_changed')
    BY <1>3 DEF AttachCreate
  <2>2. sig \in Blocks
    BY DEF Signature, Last
  <2>3. /\ bad' \subseteq Blocks /\ block_state_changed' \in BOOLEAN
        /\ block_mapping' \in [Logical -> MaybeBlock]
        /\ data_block_count' \in 0..MgmtStart
        /\ UNCHANGED block_mapping_changed /\ intact' = {}
    BY <2>1, ScanTypes DEF EccErrors, TypeInv, FlashTypes
  <2>4. TableTypes' /\ ControlTypes' /\ ControlInv'
    BY <2>1, <2>2, <2>3, BeginTypes
  <2> QED
    BY <1>3, <2>3, <2>4 DEF AttachCreate, TypeInv, FlashTypes, StateTypes, HistoryTypes, flash, env
<1>4. CASE AttachNew
  <2>1. /\ bad' \subseteq Blocks /\ block_state_changed' \in BOOLEAN
        /\ block_mapping' \in [Logical -> MaybeBlock]
        /\ data_block_count' \in 0..MgmtStart
        /\ UNCHANGED block_mapping_changed /\ intact' = {}
    BY <1>4, ScanTypes DEF AttachNew, TypeInv, FlashTypes
  <2>2. FlashTypes' /\ StateTypes' /\ HistoryTypes'
    BY <1>4, <2>1 DEF AttachNew, TypeInv, FlashTypes, StateTypes, HistoryTypes, flash, env
  <2>3. TableTypes'
    BY <1>4 DEF AttachNew, TypeInv, TableTypes, tabs, tops, cache
  <2>4. w' \in Range
    BY <1>4, BlockCountAssumption, BlockTypes DEF AttachNew, Range, Labels
  <2>5. ControlTypes' /\ ControlInv'
    BY <1>4, <2>4 DEF AttachNew, TypeInv, ControlTypes, ControlInv, Cont, Labels
  <2> QED
    BY <2>2, <2>3, <2>5 DEF TypeInv
<1>5. CASE SignatureProgram
  <2>1. w.ba \in Blocks
    BY <1>5 DEF SignatureProgram, TypeInv, ControlInv
  <2>2. TableTypes' /\ ControlTypes' /\ ControlInv'
    BY <1>5, <2>1, BeginTypes DEF SignatureProgram, TypeInv, StateTypes
  <2>3. FlashTypes' /\ StateTypes' /\ HistoryTypes'
    BY <1>5, <2>1, ContentTypes DEF SignatureProgram, TypeInv, FlashTypes, StateTypes, HistoryTypes,
        state, maps, hist, env
  <2> QED
    BY <2>2, <2>3 DEF TypeInv
<1> USE DEF TypeInv, FlashTypes, StateTypes, TableTypes, HistoryTypes, ControlTypes, ControlInv
<1>6. CASE SignatureErase
  BY <1>6, ContentTypes, BlockTypes DEF TypeInv, FlashTypes, StateTypes, TableTypes,
      HistoryTypes, ControlTypes, ControlInv, Range, Cont, Labels, WriteConts, EraseConts,
      Callers, MaybeBlock, SignatureErase, UsableDown, IsLast, state, maps, tabs, tops, cache,
      hist, env
<1>7. CASE SignatureEraseFails
  BY <1>7, ContentTypes, BlockTypes, BoundsAssumption DEF TypeInv, FlashTypes, StateTypes,
      TableTypes, HistoryTypes, ControlTypes, ControlInv, Range, Cont, Labels, WriteConts,
      EraseConts, Callers, MaybeBlock, SignatureEraseFails, UsableDown, IsLast, FailErase,
      MarkBad, Fault, maps, tabs, tops, cache, hist, Ruin, SetBad
<1>8. CASE SignatureProgramFails
  BY <1>8, ContentTypes, BlockTypes, BoundsAssumption DEF TypeInv, FlashTypes, StateTypes,
      TableTypes, HistoryTypes, ControlTypes, ControlInv, Range, Cont, Labels, WriteConts,
      EraseConts, Callers, MaybeBlock, SignatureProgramFails, Ruin, MarkBad, Fault, maps, tabs,
      tops, cache, hist, SetBad
<1>9. CASE SignatureNoRoom
  BY <1>9, ContentTypes, BlockTypes DEF TypeInv, FlashTypes, StateTypes, TableTypes,
      HistoryTypes, ControlTypes, ControlInv, Range, Cont, Labels, WriteConts, EraseConts,
      Callers, MaybeBlock, SignatureNoRoom, UsableDown, Goto, flash, state, maps, tabs, tops,
      cache, hist, env
<1> QED
  BY <1>1, <1>2, <1>3, <1>4, <1>5, <1>6, <1>7, <1>8, <1>9 DEF AttachStep

\* remap_block_nmbm up to its first flash operation keeps the types.
LEMMA RemapBlockTypes ==
    ASSUME TypeInv, NEW lb \in Logical, NEW copy \in BOOLEAN, NEW mark \in BOOLEAN,
           Reachable(lb), RemapBlock(lb, copy, mark), UNCHANGED protected
    PROVE  /\ StateTypes'
           /\ signature_ba' \in Blocks /\ mapping_blocks_top_ba' \in Int
           /\ weak' \subseteq {"skip", "unmap", "overlap", "unsaved"}
           /\ ControlTypes' /\ ControlInv'
<1> DEFINE old   == block_mapping[lb]
           spare == {x \in Unmapped : x # old}
           now(new) == [lb |-> lb, old |-> old, new |-> new, copy |-> copy, mark |-> mark,
                        repair |-> FALSE]
<1>1. old \in Blocks
  BY BlockTypes DEF TypeInv, StateTypes, Reachable, MaybeBlock, NoBlock
<1>2. \A new \in Blocks : now(new) \in Request
  BY <1>1 DEF Request
<1>3. bad' \subseteq Blocks /\ block_state_changed' \in BOOLEAN /\ data_block_count' = data_block_count
  BY <1>1 DEF RemapBlock, SetBad, TypeInv, StateTypes
<1>4. CASE /\ req' = now(old) /\ pc' \in {"remap_ret", "update"} /\ caller' \in {caller, "remap_full"}
           /\ UNCHANGED <<block_mapping, block_mapping_changed, tops, weak, w, at>>
  <2>1. StateTypes'
    BY <1>3, <1>4 DEF TypeInv, StateTypes
  <2>2. ControlTypes' /\ ControlInv'
    BY <1>1, <1>2, <1>4 DEF TypeInv, ControlTypes, ControlInv, Cont, Labels, Callers
  <2> QED
    BY <1>4, <2>1, <2>2 DEF TypeInv, TableTypes, HistoryTypes, tops
<1>5. CASE /\ pc' = "remap_erase" /\ UNCHANGED <<caller, w, at>>
           /\ \E pb \in spare : /\ MapTo(lb, pb)
                                /\ weak' \subseteq weak \cup {"skip", "unsaved"}
                                /\ req' = now(pb)
  <2>1. PICK pb \in Blocks : /\ MapTo(lb, pb) /\ req' = now(pb)
                             /\ weak' \subseteq weak \cup {"skip", "unsaved"}
    BY <1>5 DEF Unmapped
  <2>2. block_mapping' \in [Logical -> MaybeBlock] /\ block_mapping_changed' \in BOOLEAN
    BY <2>1 DEF MapTo, TypeInv, StateTypes, MaybeBlock
  <2>3. signature_ba' \in Blocks /\ mapping_blocks_top_ba' \in Int
    BY <2>1 DEF MapTo, TopAfterMap, TypeInv, TableTypes
  <2>4. ControlTypes' /\ ControlInv'
    BY <1>2, <1>5, <2>1 DEF TypeInv, ControlTypes, ControlInv, Cont, Labels, Callers
  <2> QED
    BY <1>3, <2>1, <2>2, <2>3, <2>4 DEF TypeInv, StateTypes, HistoryTypes
<1>6. \/ /\ req' = now(old) /\ pc' \in {"remap_ret", "update"} /\ caller' \in {caller, "remap_full"}
         /\ UNCHANGED <<block_mapping, block_mapping_changed, tops, weak, w, at>>
      \/ /\ pc' = "remap_erase" /\ UNCHANGED <<caller, w, at>>
         /\ \E pb \in spare : /\ MapTo(lb, pb)
                              /\ weak' \subseteq weak \cup {"skip", "unsaved"}
                              /\ req' = now(pb)
  BY DEF RemapBlock, Skipped
<1> QED
  BY <1>4, <1>5, <1>6

\* The steps of the calls of the user keep the types.
LEMMA TypeUser == TypeInv /\ UserStep => TypeInv'
<1> SUFFICES ASSUME TypeInv, NEW lb \in Logical,
                    \/ UserWrite(lb) \/ UserFault(lb) \/ UserRemap(lb) \/ UserIsBad(lb)
                    \/ \E repair \in BOOLEAN : UserUnmap(lb, repair)
             PROVE  TypeInv'
  BY DEF UserStep
<1>1. CASE UserWrite(lb)
  <2>1. content' \in [Blocks -> Content]
    BY <1>1, ContentTypes DEF UserWrite, TypeInv, FlashTypes
  <2> QED
    BY <1>1, <2>1 DEF UserWrite, TypeInv, FlashTypes, StateTypes, TableTypes, HistoryTypes,
        ControlTypes, ControlInv, Cont, state, maps, tabs, tops, cache, ctl, env
<1>2. CASE UserFault(lb)
  <2>1. content' \in [Blocks -> Content]
    BY <1>2, ContentTypes DEF UserFault, Ruin, TypeInv, FlashTypes
  <2>2. PICK copy \in BOOLEAN : RemapBlock(lb, copy, FALSE)
    BY <1>2 DEF UserFault
  <2>3. Reachable(lb) /\ UNCHANGED protected
    BY <1>2 DEF UserFault
  <2>4. /\ StateTypes' /\ ControlTypes' /\ ControlInv'
        /\ signature_ba' \in Blocks /\ mapping_blocks_top_ba' \in Int
        /\ weak' \subseteq {"skip", "unmap", "overlap", "unsaved"}
    BY <2>2, <2>3, RemapBlockTypes
  <2> QED
    BY <1>2, <2>1, <2>4, BoundsAssumption DEF UserFault, Fault, TypeInv, FlashTypes, TableTypes,
        HistoryTypes, tabs, cache
<1>3. CASE UserRemap(lb)
  <2>1. PICK mark \in BOOLEAN : RemapBlock(lb, TRUE, mark)
    BY <1>3 DEF UserRemap
  <2>2. Reachable(lb) /\ UNCHANGED protected
    BY <1>3 DEF UserRemap
  <2>3. /\ StateTypes' /\ ControlTypes' /\ ControlInv'
        /\ signature_ba' \in Blocks /\ mapping_blocks_top_ba' \in Int
        /\ weak' \subseteq {"skip", "unmap", "overlap", "unsaved"}
    BY <2>1, <2>2, RemapBlockTypes
  <2> QED
    BY <1>3, <2>3, BoundsAssumption DEF UserRemap, Fault, TypeInv, FlashTypes, TableTypes,
        HistoryTypes, flash, tabs, cache
<1>4. CASE UserIsBad(lb)
  BY <1>4, RemapBlockTypes DEF UserIsBad, TypeInv, FlashTypes, TableTypes,
      HistoryTypes, flash, tabs, cache, env
<1>5. ASSUME NEW repair \in BOOLEAN, UserUnmap(lb, repair)
      PROVE  TypeInv'
  <2>1. block_mapping[lb] \in Blocks
    BY <1>5, BlockTypes DEF UserUnmap, TypeInv, StateTypes, Reachable, MaybeBlock, NoBlock
  <2>2. PICK new \in Blocks :
           /\ bad' = bad \ {new}
           /\ block_state_changed' = (block_state_changed \/ new \in bad)
           /\ block_mapping' = [block_mapping EXCEPT ![lb] = new]
           /\ mapping_blocks_top_ba' \in MaybeBlock
           /\ weak' \subseteq weak \cup {"unmap", "unsaved"}
           /\ req' = [lb |-> lb, old |-> block_mapping[lb], new |-> new, copy |-> TRUE,
                      mark |-> FALSE, repair |-> repair]
    BY <1>5 DEF UserUnmap
  <2>3. req' \in Request
    BY <1>5, <2>1, <2>2 DEF Request
  <2>4. StateTypes'
    BY <1>5, <2>2 DEF UserUnmap, TypeInv, StateTypes, MaybeBlock
  <2>5. TableTypes' /\ FlashTypes' /\ HistoryTypes'
    BY <1>5, <2>2, BlockTypes, BoundsAssumption DEF UserUnmap, Fault, TypeInv, TableTypes,
        FlashTypes, HistoryTypes, flash, tabs, cache, MaybeBlock, NoBlock
  <2>6. ControlTypes' /\ ControlInv'
    BY <1>5, <2>3 DEF UserUnmap, TypeInv, ControlTypes, ControlInv, Cont, Labels, Callers
  <2> QED
    BY <2>4, <2>5, <2>6 DEF TypeInv
<1> QED
  BY <1>1, <1>2, <1>3, <1>4, <1>5

\* The steps of a power cut keep the types.
LEMMA TypeCut == TypeInv /\ PowerCut => TypeInv'
<1> SUFFICES ASSUME TypeInv, PowerCut PROVE TypeInv'
  OBVIOUS
<1>1. Programmed \in Content
  BY ContentTypes DEF Programmed, TypeInv, TableTypes
<1>2. content' \in [Blocks -> Content]
  BY <1>1, ContentTypes DEF PowerCut, TypeInv, FlashTypes
<1>3. FlashTypes' /\ HistoryTypes'
  BY <1>2, BoundsAssumption DEF PowerCut, TypeInv, FlashTypes, HistoryTypes, hist
<1>4. StateTypes' /\ TableTypes'
  <2>1. /\ block_mapping' = [lb \in Logical |-> 0] /\ bad' = {}
        /\ block_state_changed' = FALSE /\ block_mapping_changed' = FALSE /\ protected' = FALSE
        /\ data_block_count' = 0
    BY DEF PowerCut
  <2>2. StateTypes'
    <3>1. block_mapping' \in [Logical -> MaybeBlock]
      BY <2>1, BlockTypes DEF MaybeBlock
    <3>2. data_block_count' \in 0..MgmtStart
      BY <2>1, MgmtStartAssumption
    <3> QED
      BY <2>1, <3>1, <3>2 DEF StateTypes
  <2>3. TableTypes'
    BY BlockTypes, ContentTypes DEF PowerCut, TableTypes
  <2> QED
    BY <2>2, <2>3
<1>5. ControlTypes' /\ ControlInv'
  BY RecordTypes DEF PowerCut, TypeInv, ControlTypes, ControlInv, Cont, Labels, Callers, MaybeBlock
<1> QED
  BY <1>3, <1>4, <1>5 DEF TypeInv

\* A chip from the factory has the types.
LEMMA TypeInit == Init => TypeInv
<1> SUFFICES ASSUME Init PROVE TypeInv
  OBVIOUS
<1>1. PICK f \in FactoryBads : InitWith([b \in Blocks |-> Holds("erased")], f, {})
  BY DEF Init
<1>2. f \subseteq Blocks
  BY FactoryAssumption DEF Blocks
<1>3. FlashTypes
  BY <1>1, <1>2, ContentTypes DEF InitWith, InitOff, FlashTypes
<1>4. block_mapping \in [Logical -> MaybeBlock]
  BY <1>1, BlockTypes DEF InitWith, InitOff, MaybeBlock
<1>5. data_block_count \in 0..MgmtStart
  BY <1>1, MgmtStartAssumption DEF InitWith, InitOff
<1>6. StateTypes /\ TableTypes
  BY <1>1, <1>4, <1>5, BlockTypes, ContentTypes DEF InitWith, InitOff, StateTypes, TableTypes
<1>7. ControlTypes /\ ControlInv
  BY <1>1, RecordTypes DEF InitWith, InitOff, ControlTypes, ControlInv, Cont, Labels, Callers, MaybeBlock
<1>8. HistoryTypes
  BY <1>1, BoundsAssumption DEF InitWith, InitOff, HistoryTypes
<1> QED
  BY <1>3, <1>6, <1>7, <1>8 DEF TypeInv

\* So they are an invariant.
LEMMA TypeNext == TypeInv /\ [Next]_vars => TypeInv'
<1> SUFFICES ASSUME TypeInv, [Next]_vars PROVE TypeInv'
  OBVIOUS
<1>1. CASE Next
  BY <1>1, TypeWrite, TypeErase, TypeUpdate, TypeRebuild, TypeRescue, TypeAttach, TypeMap,
     TypeRemap, TypeUser, TypeCut DEF Next, DriverStep
<1>2. CASE UNCHANGED vars
  <2>1. UNCHANGED <<flash, state, maps, tabs, tops, cache, protected, ctl, hist, env>>
    BY <1>2 DEF vars
  <2> USE <2>1
  <2>2. FlashTypes' /\ HistoryTypes'
    BY DEF TypeInv, FlashTypes, HistoryTypes, flash, hist, env
  <2>3. StateTypes' /\ TableTypes'
    BY DEF TypeInv, StateTypes, TableTypes, state, maps, tabs, tops, cache
  <2>4. ControlTypes' /\ ControlInv'
    BY DEF TypeInv, ControlTypes, ControlInv, Cont, ctl
  <2> QED
    BY <2>2, <2>3, <2>4 DEF TypeInv
<1> QED
  BY <1>1, <1>2

\* TypeInv holds of every state.
LEMMA TypeInvariant == Spec => []TypeInv
  BY TypeInit, TypeNext, PTL DEF Spec

\* Every variable keeps its type, for every chip: the addresses in struct
\* nmbm_instance are block numbers, and data_block_count never exceeds the area.
THEOREM TypeCorrect == Spec => []TypeOK
<1>1. TypeInv => TypeOK
  BY DEF TypeInv, FlashTypes, StateTypes, TableTypes, HistoryTypes, ControlTypes, TypeOK
<1> QED
  BY <1>1, TypeInvariant, PTL

----------------------------------------------------------------------------
(* The inductive invariant, on top of TypeInv.                               *)

\* No map that is in use, or that a restart could take from the flash, maps two
\* logical blocks to one block.
MapsOneToOne ==
    /\ \A b \in Blocks : OneToOne(content[b].t.map)
    /\ OneToOne(info_table_cache.map)
    /\ Injective

\* Logical blocks the driver does not serve are not mapped.
CountInv == pc \notin {"off", "dead"} =>
                \A lb \in Logical : lb >= data_block_count => block_mapping[lb] = NoBlock

\* The driver works on the tables and the map.
Working == Cont \notin {"off", "dead", "sig_erase", "sig_program"}

\* The parts of the management area are in order, and no logical block is
\* mapped below the blocks that were handed out.
AreaInv ==
    /\ Working => /\ MgmtStart <= mapping_blocks_ba
                  /\ mapping_blocks_ba <= mapping_blocks_top_ba
                  /\ mapping_blocks_top_ba < signature_ba
    /\ Working => \A lb \in Logical : \/ block_mapping[lb] < MgmtStart
                                      \/ /\ block_mapping[lb] > mapping_blocks_top_ba
                                         /\ block_mapping[lb] # signature_ba
    /\ Cont \in {"sig_erase", "sig_program"} =>
           \A lb \in Logical : block_mapping[lb] < MgmtStart

\* The range in hand, and the block a table was written to, are in the area.
RangeInv ==
    /\ pc \in {"w_erase", "w_program"} =>
           w.ba >= MgmtStart /\ w.limit <= mapping_blocks_top_ba
    /\ pc = "w_program" => w.ba < w.limit
    /\ pc \in WriteConts \/ Cont = "rescue_adopt" =>
           at = NoBlock \/ (at >= MgmtStart /\ at < mapping_blocks_top_ba)
    /\ Cont = "rescue_main" => w.limit < mapping_blocks_ba /\ w.limit >= MgmtStart

\* Where the driver may be while it has no main table.
Calm == {"update", "map_loop", "create_full", "create_ret", "ready",
         "remap_erase", "remap_copy", "remap_full", "remap_ret", "unmap_ret"}

TablesInv ==
    /\ Working => \/ main_table_ba >= MgmtStart
                  \/ Cont = "rebuild_main"
                  \/ protected /\ Cont \in Calm
    /\ Working /\ Cont # "rescue_main" =>
           \/ backup_table_ba = 0
           \/ MgmtStart <= backup_table_ba /\ backup_table_ba <= mapping_blocks_ba
    /\ Cont = "rebuild_main" => backup_table_ba = 0
    /\ Cont \in {"once_backup", "rescue_tmp", "older_main", "older_backup"} => backup_table_ba # 0
    /\ Cont = "rescue_front" => main_table_ba <= mapping_blocks_ba

\* All of it.
SoundInv == MapsOneToOne /\ CountInv /\ AreaInv /\ RangeInv /\ TablesInv
MapInv   == Sound => SoundInv

----------------------------------------------------------------------------
(* Facts for all steps.                                                      *)

\* The value of no block is an integer as well.
LEMMA MaybeInt == MaybeBlock \subseteq Int
  BY BlockTypes DEF MaybeBlock, NoBlock

\* What the driver compares are integers.
LEMMA Integral ==
    TypeInv => /\ at \in Int /\ w.start \in Int /\ w.ba \in Int /\ w.limit \in Int
               /\ main_table_ba \in Int /\ backup_table_ba \in Int /\ signature_ba \in Int
               /\ mapping_blocks_ba \in Int /\ mapping_blocks_top_ba \in Int
               /\ data_block_count \in Int /\ MgmtStart \in Int /\ MgmtStart > 0
               /\ \A lb \in Logical : lb \in Int /\ block_mapping[lb] \in Int
<1> HAVE TypeInv
<1>1. MgmtStart \in Int /\ MgmtStart > 0
  BY BlockCountAssumption, MgmtStartAssumption
<1>2. at \in Int /\ \A lb \in Logical : lb \in Int /\ block_mapping[lb] \in Int
  <2>1. at \in MaybeBlock /\ block_mapping \in [Logical -> MaybeBlock]
    BY DEF TypeInv, ControlTypes, StateTypes
  <2> QED
    BY <2>1, MaybeInt, BlockTypes
<1>3. w.start \in Int /\ w.ba \in Int /\ w.limit \in Int
  BY DEF TypeInv, ControlTypes, Range
<1>4. data_block_count \in Int
  BY <1>1 DEF TypeInv, StateTypes
<1> QED
  BY <1>1, <1>2, <1>3, <1>4, BlockTypes DEF TypeInv, TableTypes

\* Only a table has a map, and every table that is written is the cache.
LEMMA ContentOneToOne ==
    /\ OneToOne(NoTable.map)
    /\ \A kind : OneToOne(Holds(kind).t.map)
    /\ \A lb : OneToOne(DataOf(lb).t.map)
    /\ \A t : TableOf(t).t = t
<1>1. OneToOne(NoTable.map)
  BY DEF OneToOne, NoTable
<1> QED
  BY <1>1 DEF Holds, DataOf, TableOf

\* nmbm_try_reserve_blocks returns a block of its range.
LEMMA ReservedRange ==
    ASSUME NEW b, NEW ba, NEW limit, IsReserved(b, ba, limit)
    PROVE  b \in Blocks /\ b \in ba..(limit - 1)
  BY DEF IsReserved

\* The steps of writing a table keep the map and the area in order.
LEMMA MapWrite == TypeInv /\ SoundInv /\ WriteStep => SoundInv'
<1> SUFFICES ASSUME TypeInv, SoundInv, WriteStep PROVE SoundInv'
  OBVIOUS
<1>t. /\ content \in [Blocks -> Content] /\ info_table_cache \in Table
      /\ pc \in {"w_erase", "w_program"} => w.cont \in WriteConts
      /\ pc = "e_erase" => w.cont \in EraseConts
      /\ Cont = "rescue_adopt" => at # NoBlock
      /\ caller \in Callers /\ w \in Range
  BY DEF TypeInv, FlashTypes, TableTypes, ControlTypes, ControlInv
<1> USE <1>t, Integral, ContentOneToOne, BlockTypes
    DEF SoundInv, MapsOneToOne, CountInv, AreaInv, RangeInv, TablesInv, Injective, Working, Cont,
        WriteConts, EraseConts, Callers, Calm, NoBlock, Range
<1>1. CASE WriteErase
  BY <1>1 DEF WriteErase, Usable, IsFirst, SetBad, FoundMarked, maps, tabs, tops, cache, hist,
      env
<1>2. CASE WriteProgram
  BY <1>2 DEF WriteProgram, state, maps, tabs, tops, cache, hist, env
<1>3. CASE WriteProgramFails
  BY <1>3 DEF WriteProgramFails, Ruin, MarkBad, Fault, maps, tabs, tops, cache, hist, SetBad
<1>4. CASE WriteNoRoom
  BY <1>4 DEF WriteNoRoom, Usable, SetBad, FoundMarked, flash, maps, tabs, tops, cache, hist,
      env
<1> QED
  BY <1>1, <1>2, <1>3, <1>4 DEF WriteStep

\* The steps of erasing between two tables keep the map and the area in order.
LEMMA MapErase == TypeInv /\ SoundInv /\ EraseStep => SoundInv'
<1> SUFFICES ASSUME TypeInv, SoundInv, EraseStep PROVE SoundInv'
  OBVIOUS
<1>t. /\ content \in [Blocks -> Content] /\ info_table_cache \in Table
      /\ pc \in {"w_erase", "w_program"} => w.cont \in WriteConts
      /\ pc = "e_erase" => w.cont \in EraseConts
      /\ Cont = "rescue_adopt" => at # NoBlock
      /\ caller \in Callers /\ w \in Range
  BY DEF TypeInv, FlashTypes, TableTypes, ControlTypes, ControlInv
<1> USE <1>t, Integral, ContentOneToOne, BlockTypes
    DEF SoundInv, MapsOneToOne, CountInv, AreaInv, RangeInv, TablesInv, Injective, Working, Cont,
        WriteConts, EraseConts, Callers, Calm, NoBlock, Range
<1>1. CASE EraseNext
  BY <1>1 DEF EraseNext, Usable, IsFirst, SetBad, FoundMarked, NextBlock, maps, tabs, tops,
      cache, hist, env
<1>2. CASE EraseFails
  BY <1>2 DEF EraseFails, Usable, IsFirst, FailErase, MarkBad, FoundMarked, Fault, maps, tabs,
      tops, cache, hist, Ruin, SetBad
<1>3. CASE EraseDone
  BY <1>3 DEF EraseDone, Usable, SetBad, FoundMarked, flash, maps, tabs, tops, cache, hist, env
<1> QED
  BY <1>1, <1>2, <1>3 DEF EraseStep

\* The steps of updating the tables keep the map and the area in order.
LEMMA MapUpdate == TypeInv /\ SoundInv /\ UpdateStep => SoundInv'
<1> SUFFICES ASSUME TypeInv, SoundInv, UpdateStep PROVE SoundInv'
  OBVIOUS
<1>t. /\ content \in [Blocks -> Content] /\ info_table_cache \in Table
      /\ pc \in {"w_erase", "w_program"} => w.cont \in WriteConts
      /\ pc = "e_erase" => w.cont \in EraseConts
      /\ Cont = "rescue_adopt" => at # NoBlock
      /\ caller \in Callers /\ w \in Range
  BY DEF TypeInv, FlashTypes, TableTypes, ControlTypes, ControlInv
<1> USE <1>t, Integral, ContentOneToOne, BlockTypes
    DEF SoundInv, MapsOneToOne, CountInv, AreaInv, RangeInv, TablesInv, Injective, Working, Cont,
        WriteConts, EraseConts, Callers, Calm, NoBlock, Range
<1>1. CASE UpdateDone
  BY <1>1 DEF UpdateDone, Goto, flash, state, maps, tabs, tops, cache, hist, env
<1>2. CASE UpdateOnce
  BY <1>2 DEF UpdateOnce, GenerateCache, WriteTable, flash, state, maps, tabs, tops, hist, env,
      WorkOn
<1>3. CASE BackupWritten
  BY <1>3 DEF BackupWritten, MarkTablesClean, WriteTable, MainLimit, flash, tops, cache, hist,
      env, WorkOn
<1>4. CASE BackupFailed
  BY <1>4 DEF BackupFailed, WriteTable, flash, state, maps, tops, cache, hist, env, WorkOn
<1>5. CASE MainWritten
  BY <1>5 DEF MainWritten, MarkTablesClean, Goto, OnceDone, flash, tops, cache, hist, env
<1> QED
  BY <1>1, <1>2, <1>3, <1>4, <1>5 DEF UpdateStep

\* The steps of rebuilding both tables keep the map and the area in order.
LEMMA MapRebuild == TypeInv /\ SoundInv /\ RebuildStep => SoundInv'
<1> SUFFICES ASSUME TypeInv, SoundInv, RebuildStep PROVE SoundInv'
  OBVIOUS
<1>t. /\ content \in [Blocks -> Content] /\ info_table_cache \in Table
      /\ pc \in {"w_erase", "w_program"} => w.cont \in WriteConts
      /\ pc = "e_erase" => w.cont \in EraseConts
      /\ Cont = "rescue_adopt" => at # NoBlock
      /\ caller \in Callers /\ w \in Range
  BY DEF TypeInv, FlashTypes, TableTypes, ControlTypes, ControlInv
<1> USE <1>t, Integral, ContentOneToOne, BlockTypes
    DEF SoundInv, MapsOneToOne, CountInv, AreaInv, RangeInv, TablesInv, Injective, Working, Cont,
        WriteConts, EraseConts, Callers, Calm, NoBlock, Range
<1>1. CASE MainFailedAlone
  BY <1>1 DEF MainFailedAlone, tops, RebuildTables, flash, state, maps, cache, hist, env,
      WorkOn
<1>2. CASE RebuildMainFailed
  BY <1>2 DEF RebuildMainFailed, Goto, OnceFailed, flash, state, maps, tabs, tops, cache, env
<1>3. CASE RebuildMainWritten
  BY <1>3, ReservedRange DEF RebuildMainWritten, MarkTablesClean, WriteTable, Goto, OnceDone,
      flash, tops, cache, hist, env, WorkOn
<1>4. CASE RebuildBackupWritten
  BY <1>4 DEF RebuildBackupWritten, EraseRange, OnceDone, flash, state, maps, tops, cache,
      hist, env, WorkOn
<1>5. CASE RebuildBackupFailed
  BY <1>5 DEF RebuildBackupFailed, Goto, OnceDone, flash, state, maps, tabs, tops, cache, hist,
      env
<1> QED
  BY <1>1, <1>2, <1>3, <1>4, <1>5 DEF RebuildStep

\* The steps of rescuing a table keep the map and the area in order.
LEMMA MapRescue == TypeInv /\ SoundInv /\ RescueStep => SoundInv'
<1> SUFFICES ASSUME TypeInv, SoundInv, RescueStep PROVE SoundInv'
  OBVIOUS
<1>t. /\ content \in [Blocks -> Content] /\ info_table_cache \in Table
      /\ pc \in {"w_erase", "w_program"} => w.cont \in WriteConts
      /\ pc = "e_erase" => w.cont \in EraseConts
      /\ Cont = "rescue_adopt" => at # NoBlock
      /\ caller \in Callers /\ w \in Range
  BY DEF TypeInv, FlashTypes, TableTypes, ControlTypes, ControlInv
<1> USE <1>t, Integral, ContentOneToOne, BlockTypes
    DEF SoundInv, MapsOneToOne, CountInv, AreaInv, RangeInv, TablesInv, Injective, Working, Cont,
        WriteConts, EraseConts, Callers, Calm, NoBlock, Range
<1>1. CASE RescueMain
  BY <1>1, ReservedRange DEF RescueMain, WriteTable, tabs, BackupBecomesMain, Goto, flash,
      state, maps, tops, cache, hist, env, WorkOn
<1>2. CASE RescueTmpFailed
  BY <1>2 DEF RescueTmpFailed, WriteTable, tabs, BackupBecomesMain, Goto, flash, state, maps,
      tops, cache, hist, env, WorkOn
<1>3. CASE RescueTmpWritten
  BY <1>3 DEF RescueTmpWritten, WriteTable, flash, state, maps, tops, cache, hist, env, WorkOn
<1>4. CASE RescueMainDone
  BY <1>4 DEF RescueMainDone, MarkTablesClean, Goto, flash, tops, cache, hist, env
<1>5. CASE RescueFrontWritten
  BY <1>5 DEF RescueFrontWritten, MarkTablesClean, EraseRange, flash, tops, cache, hist, env,
      WorkOn
<1>6. CASE RescueFrontFailed
  BY <1>6, ReservedRange DEF RescueFrontFailed, WriteTable, tabs, tops, LoadDone, flash, state,
      maps, cache, hist, env, WorkOn, NoRange
<1>7. CASE RescueBackFailed
  BY <1>7 DEF RescueBackFailed, WriteTable, tabs, tops, LoadDone, flash, state, maps, cache,
      hist, env, WorkOn, NoRange
<1>8. CASE RescueBackWritten
  BY <1>8 DEF RescueBackWritten, EraseRange, flash, state, maps, tabs, tops, cache, hist, env,
      WorkOn
<1>9. CASE RescueBackAdopted
  BY <1>9 DEF RescueBackAdopted, MarkTablesClean, tops, LoadDone, flash, cache, hist, env,
      NoRange
<1>10. CASE LoadOk
  BY <1>10 DEF LoadOk, tabs, tops, LoadDone, flash, state, maps, cache, hist, env, NoRange
<1>11. CASE OlderWritten
  BY <1>11 DEF OlderWritten, MarkTablesClean, tops, LoadDone, flash, cache, hist, env, NoRange
<1>12. CASE OlderMainFailed
  BY <1>12 DEF OlderMainFailed, BackupBecomesMain, WriteTable, flash, state, maps, tops, cache,
      hist, env, WorkOn
<1>13. CASE OlderBackupFailed
  BY <1>13 DEF OlderBackupFailed, tops, LoadDone, flash, state, maps, cache, hist, env, NoRange
<1> QED
  BY <1>1, <1>2, <1>3, <1>4, <1>5, <1>6, <1>7, <1>8, <1>9, <1>10, <1>11, <1>12, <1>13 DEF
      RescueStep

\* The steps of carrying out a remap keep the map and the area in order.
LEMMA MapRemap == TypeInv /\ SoundInv /\ RemapStep => SoundInv'
<1> SUFFICES ASSUME TypeInv, SoundInv, RemapStep PROVE SoundInv'
  OBVIOUS
<1>t. /\ content \in [Blocks -> Content] /\ info_table_cache \in Table
      /\ pc \in {"w_erase", "w_program"} => w.cont \in WriteConts
      /\ pc = "e_erase" => w.cont \in EraseConts
      /\ Cont = "rescue_adopt" => at # NoBlock
      /\ caller \in Callers /\ w \in Range
  BY DEF TypeInv, FlashTypes, TableTypes, ControlTypes, ControlInv
<1> USE <1>t, Integral, ContentOneToOne, BlockTypes
    DEF SoundInv, MapsOneToOne, CountInv, AreaInv, RangeInv, TablesInv, Injective, Working, Cont,
        WriteConts, EraseConts, Callers, Calm, NoBlock, Range
<1>1. CASE UnmapDone
  BY <1>1 DEF UnmapDone, Goto, flash, state, maps, tabs, tops, cache, hist, env
<1>2. CASE RemapErase
  BY <1>2 DEF RemapErase, env, FailErase, Fault, Goto, UpdateTables, state, maps, tabs, tops,
      cache, hist, Ruin
<1>3. CASE RemapCopy
  <2>1. \E c \in {content[req.old], Holds("torn")} : content' = [content EXCEPT ![req.new] = c]
    BY <1>3 DEF RemapCopy, Ruin
  <2>2. req.old \in Blocks /\ req.new \in Blocks
    BY DEF TypeInv, ControlTypes, Request
  <2>3. \A b \in Blocks : OneToOne(content'[b].t.map)
    BY <2>1, <2>2
  <2>4. MapsOneToOne' /\ CountInv'
    BY <1>3, <2>3 DEF RemapCopy, Goto, UpdateTables, maps, cache
  <2>5. AreaInv' /\ RangeInv' /\ TablesInv'
    BY <1>3 DEF RemapCopy, Goto, UpdateTables, maps, tabs, tops
  <2> QED
    BY <2>4, <2>5
<1>4. CASE RemapFull
  BY <1>4 DEF RemapFull, Goto, flash, state, maps, tabs, cache, hist, env
<1>5. CASE RemapDone
  BY <1>5 DEF RemapDone, NoRange, state, maps, tabs, tops, cache, hist, env
<1> QED
  BY <1>1, <1>2, <1>3, <1>4, <1>5 DEF RemapStep

\* The map that nmbm_load_info_table takes over.
LEMMA LoadSound ==
    ASSUME TypeInv, SoundInv, Sound', NEW sig \in Signature, NEW m \in FirstTable(sig),
           NEW s \in SecondTable(sig, m), NEW ecc \in EccErrors, LoadTables(sig, m, s, ecc),
           UNCHANGED content
    PROVE  SoundInv'
<1> DEFINE new  == Newest(m, s)
           t    == content[new].t
           last == IF s = NoBlock THEN m ELSE s
           used == {t.map[lb] : lb \in Logical} \cap ((new + 1)..(sig - 1))
<1>1. /\ sig \in Int /\ m \in Int /\ s \in Int /\ new \in {m, s} \cap Blocks
      /\ MgmtStart <= m /\ m < sig
      /\ s # NoBlock => s > m /\ s < sig
      /\ t.map \in [Logical -> MaybeBlock]
  <2>1. s \in Int
    BY FoundTypes, MaybeInt
  <2> QED
    BY <2>1, FoundTypes, RecordTypes, BlockTypes
<1>2. \A lb \in Logical : t.map[lb] \in Int /\ t.map[lb] \notin (MgmtStart..new) \cup {sig}
  <2>1. Plausible(new, t, sig)
    BY <1>1 DEF FirstTable, SecondTable, First, Loadable, Newest, NoBlock
  <2>2. \A lb \in Logical : t.map[lb] \in Int
    BY <1>1, MaybeInt
  <2> QED
    BY <2>1, <2>2 DEF Plausible
<1>3. /\ block_mapping' = t.map /\ OneToOne(t.map)
      /\ info_table_cache'.map = t.map
      /\ signature_ba' = sig /\ main_table_ba' = m
      /\ backup_table_ba' = (IF s = NoBlock THEN 0 ELSE s)
      /\ mapping_blocks_ba' = last + 1
  BY <1>1 DEF LoadTables, GenerateCache, SoundInv, MapsOneToOne
<1>4. /\ mapping_blocks_top_ba' \in Blocks
      /\ IsTop(mapping_blocks_top_ba', t.map, new + 1, sig)
      /\ last < mapping_blocks_top_ba'
  <2>1. PICK top \in Blocks : /\ IsTop(top, t.map, new + 1, sig)
                              /\ mapping_blocks_top_ba' = top
                              /\ weak' = weak \cup (IF top <= last THEN {"overlap"} ELSE {})
    BY DEF LoadTables
  <2> QED
    BY <1>1, <2>1, BlockTypes DEF Sound
<1>5. /\ mapping_blocks_top_ba' + 1 \in used \cup {sig}
      /\ \A y \in used : mapping_blocks_top_ba' < y
  BY <1>4 DEF IsTop
<1>6. mapping_blocks_top_ba' < sig /\ mapping_blocks_top_ba' \in Int
  <2>1. PICK x \in Int : x = mapping_blocks_top_ba'
    BY <1>4, BlockTypes
  <2>2. x + 1 <= sig
    BY <1>1, <1>5, <2>1
  <2>3. x < sig
    BY <1>1, <2>2
  <2> QED
    BY <2>1, <2>3
<1>7. \A lb \in Logical : \/ t.map[lb] < MgmtStart
                          \/ t.map[lb] > mapping_blocks_top_ba' /\ t.map[lb] # sig
  <2> SUFFICES ASSUME NEW lb \in Logical, t.map[lb] >= MgmtStart
               PROVE  t.map[lb] > mapping_blocks_top_ba' /\ t.map[lb] # sig
    BY <1>2, Integral
  <2>1. new \in Int /\ t.map[lb] > new /\ t.map[lb] # sig
    BY <1>1, <1>2, Integral
  <2>2. CASE t.map[lb] < sig
    BY <1>1, <1>2, <1>5, <2>1, <2>2
  <2>3. CASE t.map[lb] > sig
    BY <1>1, <1>2, <1>6, <2>3
  <2> QED
    BY <1>1, <1>2, <2>1, <2>2, <2>3
<1>8. \A lb \in Logical : lb >= data_block_count' => block_mapping'[lb] = NoBlock
  <2>1. PICK n \in 0..MgmtStart : IsDataCount(n, t.map) /\ data_block_count' = n
    BY DEF LoadTables
  <2>2. \A lb \in Logical : lb \in Int /\ lb < MgmtStart /\ lb <= MgmtStart - 1
    BY Integral DEF Logical
  <2> QED
    BY <1>3, <2>1, <2>2, Integral DEF IsDataCount
<1>9. \/ /\ s = NoBlock /\ WriteTable(MgmtStart, m, "rescue_front")
      \/ LoadDone(TRUE)
      \/ s # NoBlock /\ WriteTable(m, s, "older_main")
      \/ s # NoBlock /\ WriteTable(s, mapping_blocks_top_ba', "older_backup")
  BY DEF LoadTables
<1>10. \/ pc' = "ready" /\ Cont' = "ready"
       \/ /\ pc' = "w_erase" /\ at' = at /\ Cont' = w'.cont
          /\ w'.cont \in {"rescue_front", "older_main", "older_backup"}
          /\ w'.ba >= MgmtStart /\ w'.limit <= mapping_blocks_top_ba'
          /\ w'.cont \in {"older_main", "older_backup"} => s # NoBlock
  <2>1. CASE LoadDone(TRUE)
    BY <2>1 DEF LoadDone, Cont
  <2>2. CASE s = NoBlock /\ WriteTable(MgmtStart, m, "rescue_front")
    BY <1>1, <1>4, <1>6, <2>2, Integral DEF WriteTable, WorkOn, Cont
  <2>3. CASE s # NoBlock /\ WriteTable(m, s, "older_main")
    BY <1>1, <1>4, <1>6, <2>3, Integral DEF WriteTable, WorkOn, Cont
  <2>4. CASE s # NoBlock /\ WriteTable(s, mapping_blocks_top_ba', "older_backup")
    BY <1>1, <1>4, <1>6, <2>4, Integral DEF WriteTable, WorkOn, Cont
  <2> QED
    BY <1>9, <2>1, <2>2, <2>3, <2>4
<1>11. MapsOneToOne' /\ CountInv'
  BY <1>3, <1>8 DEF SoundInv, MapsOneToOne, CountInv, Injective
<1>12. AreaInv'
  BY <1>1, <1>3, <1>4, <1>6, <1>7, <1>10, Integral DEF AreaInv
<1>13. RangeInv'
  BY <1>10 DEF RangeInv, WriteConts
<1>14. TablesInv'
  BY <1>1, <1>3, <1>10, Integral DEF TablesInv, Calm, NoBlock
<1> QED
  BY <1>11, <1>12, <1>13, <1>14 DEF SoundInv

\* The map of a new chip.
LEMMA ScanSound ==
    ASSUME TypeInv, NEW found \in SUBSET Blocks, ScanAndMap(found)
    PROVE  /\ OneToOne(block_mapping')
           /\ \A lb \in Logical : block_mapping'[lb] \in Int /\ block_mapping'[lb] < MgmtStart
           /\ \A lb \in Logical : lb >= data_block_count' => block_mapping'[lb] = NoBlock
<1>1. PICK map \in [Logical -> Logical \cup {NoBlock}], n \in 0..MgmtStart :
         IsInitialMap(map, n, found) /\ block_mapping' = map /\ data_block_count' = n
  BY DEF ScanAndMap
<1>2. \A lb \in Logical : lb \in 0..(MgmtStart - 1) /\ (map[lb] \in 0..(MgmtStart - 1) \/ map[lb] = -1)
  BY <1>1 DEF Logical, NoBlock
<1>3. \A lb \in Logical : lb < n \/ map[lb] = NoBlock
  BY <1>1, <1>2, Integral DEF IsInitialMap
<1>4. OneToOne(map)
  <2> SUFFICES ASSUME NEW x \in Logical, NEW y \in Logical, x # y, map[x] = map[y]
               PROVE  map[x] = NoBlock
    BY DEF OneToOne
  <2>1. CASE x < n /\ y < n
    <3>1. x \in 0..(n - 1) /\ y \in 0..(n - 1) /\ (x < y \/ y < x)
      BY <1>2, <2>1, Integral
    <3>2. map[x] < map[y] \/ map[y] < map[x]
      BY <1>1, <3>1 DEF IsInitialMap
    <3> QED
      BY <1>2, <3>2, Integral
  <2> QED
    BY <1>3, <2>1
<1> QED
  BY <1>1, <1>2, <1>3, <1>4, Integral

\* nmbm_create_info_table starts from a map of the data area.
LEMMA BeginSound ==
    ASSUME TypeInv, NEW sig \in Blocks, NEW b, NEW changed, NEW map,
           BeginTables(sig, b, map, changed), map = block_mapping',
           \A x \in Blocks : OneToOne(content'[x].t.map), OneToOne(info_table_cache.map),
           OneToOne(block_mapping'),
           \A lb \in Logical : block_mapping'[lb] \in Int /\ block_mapping'[lb] < MgmtStart,
           \A lb \in Logical : lb >= data_block_count' => block_mapping'[lb] = NoBlock
    PROVE  SoundInv'
<1>1. CASE /\ GenerateCache(b, map, write_count, changed) /\ RebuildTables("map_loop")
           /\ signature_ba' = sig
           /\ mapping_blocks_top_ba' \in Blocks
           /\ MgmtStart < mapping_blocks_top_ba' /\ mapping_blocks_top_ba' < sig
  <2>1. /\ pc' = "w_erase" /\ w'.cont = "rebuild_main" /\ Cont' = "rebuild_main"
        /\ w'.ba = MgmtStart /\ w'.limit = mapping_blocks_top_ba' /\ at' = at
        /\ main_table_ba' = 0 /\ backup_table_ba' = 0
        /\ mapping_blocks_ba' = mapping_blocks_top_ba'
    BY <1>1 DEF RebuildTables, WorkOn, Cont
  <2>2. info_table_cache'.map = map
    BY <1>1 DEF GenerateCache
  <2>3. MapsOneToOne' /\ CountInv'
    BY <2>1, <2>2 DEF MapsOneToOne, CountInv, Injective
  <2>4. AreaInv'
    BY <1>1, <2>1, Integral, BlockTypes DEF AreaInv
  <2>5. RangeInv' /\ TablesInv'
    BY <1>1, <2>1, Integral, BlockTypes DEF RangeInv, TablesInv, WriteConts
  <2> QED
    BY <2>3, <2>4, <2>5 DEF SoundInv
<1>2. CASE Goto("dead") /\ UNCHANGED <<tabs, mapping_blocks_top_ba, cache>>
  BY <1>2 DEF Goto, Cont, Working, WriteConts, cache, SoundInv, MapsOneToOne, CountInv, Injective,
      AreaInv, RangeInv, TablesInv
<1> QED
  BY <1>1, <1>2 DEF BeginTables, IsLast

\* The steps of attaching and creating keep the map and the area in order.
LEMMA MapAttach == TypeInv /\ SoundInv /\ AttachStep /\ Sound' => SoundInv'
<1> SUFFICES ASSUME TypeInv, SoundInv, AttachStep, Sound' PROVE SoundInv'
  OBVIOUS
<1>1. CASE AttachLoad
  <2>1. PICK sig \in Signature : \E m \in FirstTable(sig) :
           \E s \in SecondTable(sig, m), ecc \in EccErrors : LoadTables(sig, m, s, ecc)
    BY <1>1 DEF AttachLoad
  <2>2. PICK m \in FirstTable(sig) :
           \E s \in SecondTable(sig, m), ecc \in EccErrors : LoadTables(sig, m, s, ecc)
    BY <2>1
  <2>3. PICK s \in SecondTable(sig, m), ecc \in EccErrors : LoadTables(sig, m, s, ecc)
    BY <2>2
  <2>4. UNCHANGED content
    BY <1>1 DEF AttachLoad, flash
  <2> QED
    BY <2>3, <2>4, LoadSound
<1>2. CASE AttachRefused
  BY <1>2 DEF AttachRefused, Goto, Cont, Working, WriteConts, SoundInv, MapsOneToOne, CountInv,
      Injective, AreaInv, RangeInv, TablesInv, flash, state, maps, tabs, tops, cache
<1>3. CASE AttachCreate
  <2>1. PICK sig \in Signature, ecc \in EccErrors :
           /\ ScanAndMap(marked \cup {b \in ecc : MgmtStart <= b /\ b < sig - 1})
           /\ BeginTables(sig, bad', block_mapping', block_state_changed')
    BY <1>3 DEF AttachCreate
  <2>2. sig \in Blocks /\ marked \cup {b \in ecc : MgmtStart <= b /\ b < sig - 1} \subseteq Blocks
    BY DEF Signature, Last, EccErrors, TypeInv, FlashTypes
  <2>3. UNCHANGED content
    BY <1>3 DEF AttachCreate, flash
  <2> QED
    BY <2>1, <2>2, <2>3, ScanSound, BeginSound DEF SoundInv, MapsOneToOne
<1>4. CASE AttachNew
  <2>1. pc' = "sig_erase" /\ Cont' = "sig_erase" /\ UNCHANGED <<content, info_table_cache>>
    BY <1>4 DEF AttachNew, Cont, flash, cache
  <2>2. /\ OneToOne(block_mapping')
        /\ \A lb \in Logical : block_mapping'[lb] \in Int /\ block_mapping'[lb] < MgmtStart
        /\ \A lb \in Logical : lb >= data_block_count' => block_mapping'[lb] = NoBlock
    BY <1>4, ScanSound DEF AttachNew, TypeInv, FlashTypes
  <2> QED
    BY <2>1, <2>2 DEF Working, WriteConts, SoundInv, MapsOneToOne, CountInv, Injective, AreaInv,
        RangeInv, TablesInv
<1>5. CASE SignatureProgram
  <2>1. w.ba \in Blocks /\ pc = "sig_program" /\ Cont = "sig_program"
    BY <1>5 DEF SignatureProgram, TypeInv, ControlInv, Cont
  <2>2. \A x \in Blocks : OneToOne(content'[x].t.map)
    BY <1>5, ContentOneToOne DEF SignatureProgram, TypeInv, FlashTypes, SoundInv, MapsOneToOne
  <2>3. /\ BeginTables(w.ba, bad, block_mapping, block_state_changed)
        /\ block_mapping' = block_mapping /\ data_block_count' = data_block_count
    BY <1>5 DEF SignatureProgram, maps
  <2>4. /\ OneToOne(block_mapping') /\ OneToOne(info_table_cache.map)
        /\ \A lb \in Logical : block_mapping'[lb] \in Int /\ block_mapping'[lb] < MgmtStart
        /\ \A lb \in Logical : lb >= data_block_count' => block_mapping'[lb] = NoBlock
    BY <2>1, <2>3, Integral DEF SoundInv, MapsOneToOne, CountInv, Injective, AreaInv
  <2> QED
    BY <2>1, <2>2, <2>3, <2>4, BeginSound
<1>t. /\ content \in [Blocks -> Content] /\ info_table_cache \in Table
      /\ pc \in {"w_erase", "w_program"} => w.cont \in WriteConts
      /\ pc = "e_erase" => w.cont \in EraseConts
      /\ Cont = "rescue_adopt" => at # NoBlock
      /\ caller \in Callers /\ w \in Range
  BY DEF TypeInv, FlashTypes, TableTypes, ControlTypes, ControlInv
<1> USE <1>t, Integral, ContentOneToOne, BlockTypes
    DEF SoundInv, MapsOneToOne, CountInv, AreaInv, RangeInv, TablesInv, Injective, Working, Cont,
        WriteConts, EraseConts, Callers, Calm, NoBlock, Range
<1>6. CASE SignatureErase
  BY <1>6 DEF SignatureErase, UsableDown, IsLast, state, maps, tabs, tops, cache, hist, env
<1>7. CASE SignatureEraseFails
  BY <1>7 DEF SignatureEraseFails, UsableDown, IsLast, FailErase, MarkBad, Fault, maps, tabs,
      tops, cache, hist, Ruin, SetBad
<1>8. CASE SignatureProgramFails
  BY <1>8 DEF SignatureProgramFails, Ruin, MarkBad, Fault, maps, tabs, tops, cache, hist,
      SetBad
<1>9. CASE SignatureNoRoom
  BY <1>9 DEF SignatureNoRoom, UsableDown, Goto, flash, state, maps, tabs, tops, cache, hist,
      env
<1> QED
  BY <1>1, <1>2, <1>3, <1>4, <1>5, <1>6, <1>7, <1>8, <1>9 DEF AttachStep

\* A block that was not passed over, the top one, is mapped.
LEMMA MapToSound ==
    ASSUME TypeInv, SoundInv, Working, Injective, pc \notin {"off", "dead"},
           NEW lb \in Logical, NEW pb \in Blocks, pb = mapping_blocks_top_ba,
           mapping_blocks_ba < mapping_blocks_top_ba, MapTo(lb, pb)
    PROVE  /\ OneToOne(block_mapping')
           /\ \A x \in Logical : \/ block_mapping'[x] < MgmtStart
                                 \/ /\ block_mapping'[x] > mapping_blocks_top_ba'
                                    /\ block_mapping'[x] # signature_ba
           /\ mapping_blocks_ba <= mapping_blocks_top_ba' /\ mapping_blocks_top_ba' < signature_ba
           /\ signature_ba' = signature_ba
           /\ \A x \in Logical \ {lb} : block_mapping'[x] = block_mapping[x]
<1>1. /\ block_mapping' = [block_mapping EXCEPT ![lb] = pb]
      /\ mapping_blocks_top_ba' = mapping_blocks_top_ba - 1 /\ signature_ba' = signature_ba
  BY DEF MapTo, TopAfterMap
<1>2. /\ \A x \in Logical \ {lb} : block_mapping'[x] = block_mapping[x]
      /\ block_mapping'[lb] = pb
  BY <1>1 DEF TypeInv, StateTypes
<1>3. /\ MgmtStart <= mapping_blocks_ba /\ mapping_blocks_top_ba < signature_ba
      /\ \A x \in Logical : \/ block_mapping[x] < MgmtStart
                            \/ /\ block_mapping[x] > mapping_blocks_top_ba
                               /\ block_mapping[x] # signature_ba
  BY DEF SoundInv, AreaInv
<1>4. \A x \in Logical : block_mapping[x] # pb
  BY <1>3, Integral
<1>5. OneToOne(block_mapping')
  BY <1>2, <1>4 DEF Injective, OneToOne
<1> QED
  BY <1>1, <1>2, <1>3, <1>5, Integral

\* The steps of the mapping loop of a creation keep the map and the area in order.
LEMMA MapMap == TypeInv /\ SoundInv /\ MapStep /\ Sound' => SoundInv'
<1> SUFFICES ASSUME TypeInv, SoundInv, MapStep, Sound' PROVE SoundInv'
  OBVIOUS
<1>1. CASE MapNext
  <2>1. /\ pc = "map_loop" /\ data_block_count < MgmtStart
        /\ mapping_blocks_ba # mapping_blocks_top_ba
        /\ data_block_count' = data_block_count + 1
        /\ UNCHANGED <<flash, tabs, cache, protected, ctl>>
    BY <1>1 DEF MapNext, LeftToMap
  <2>2. PICK pb \in Unmapped : MapTo(data_block_count, pb) /\ weak' = weak \cup Skipped(pb)
    BY <1>1 DEF MapNext
  <2>3. pb = mapping_blocks_top_ba /\ pb \in Blocks
    BY <2>2 DEF Sound, Skipped, Unmapped
  <2>4. data_block_count \in Logical
    BY <2>1, MgmtStartAssumption DEF TypeInv, StateTypes, Logical
  <2>5. Working /\ Injective /\ pc \notin {"off", "dead"} /\ Cont = "map_loop" /\ pc' = pc /\ Cont' = Cont
    BY <2>1 DEF Working, Cont, SoundInv, MapsOneToOne, ctl
  <2>6. mapping_blocks_ba < mapping_blocks_top_ba
    BY <2>1, <2>5, Integral DEF SoundInv, AreaInv
  <2>7. /\ OneToOne(block_mapping')
        /\ \A x \in Logical : \/ block_mapping'[x] < MgmtStart
                              \/ /\ block_mapping'[x] > mapping_blocks_top_ba'
                                 /\ block_mapping'[x] # signature_ba
        /\ mapping_blocks_ba <= mapping_blocks_top_ba' /\ mapping_blocks_top_ba' < signature_ba
        /\ signature_ba' = signature_ba
        /\ \A x \in Logical \ {data_block_count} : block_mapping'[x] = block_mapping[x]
    BY <2>2, <2>3, <2>4, <2>5, <2>6, MapToSound
  <2>8. MapsOneToOne' /\ CountInv'
    BY <2>1, <2>5, <2>7, Integral DEF SoundInv, MapsOneToOne, CountInv, Injective, flash, cache
  <2>9. AreaInv'
    BY <2>1, <2>5, <2>7 DEF SoundInv, AreaInv, tabs
  <2>10. RangeInv' /\ TablesInv'
    BY <2>1, <2>5, <2>7 DEF SoundInv, RangeInv, TablesInv, WriteConts, Working, tabs
  <2> QED
    BY <2>8, <2>9, <2>10 DEF SoundInv
<1>t. /\ content \in [Blocks -> Content] /\ info_table_cache \in Table
      /\ pc \in {"w_erase", "w_program"} => w.cont \in WriteConts
      /\ pc = "e_erase" => w.cont \in EraseConts
      /\ Cont = "rescue_adopt" => at # NoBlock
      /\ caller \in Callers /\ w \in Range
  BY DEF TypeInv, FlashTypes, TableTypes, ControlTypes, ControlInv
<1> USE <1>t, Integral, ContentOneToOne, BlockTypes
    DEF SoundInv, MapsOneToOne, CountInv, AreaInv, RangeInv, TablesInv, Injective, Working, Cont,
        WriteConts, EraseConts, Callers, Calm, NoBlock, Range
<1>2. CASE MapLoopDone
  BY <1>2 DEF MapLoopDone, LeftToMap, UpdateTables, flash, state, maps, tabs, tops, cache,
      hist, env
<1>3. CASE MapLoopFull
  BY <1>3 DEF MapLoopFull, LeftToMap, Unmapped, UpdateTables, flash, state, maps, tabs, tops,
      cache, hist, env
<1>4. CASE CreateFull
  BY <1>4 DEF CreateFull, UpdateTables, flash, state, maps, tabs, cache, hist, env
<1>5. CASE CreateDone
  BY <1>5 DEF CreateDone, NoRange, flash, state, maps, tabs, tops, cache, hist, env
<1> QED
  BY <1>1, <1>2, <1>3, <1>4, <1>5 DEF MapStep

\* remap_block_nmbm keeps the map in order.
LEMMA RemapBlockSound ==
    ASSUME TypeInv, SoundInv, Sound', Ready, NEW lb \in Logical, Reachable(lb),
           NEW copy, NEW mark, RemapBlock(lb, copy, mark), UNCHANGED <<tabs, cache, protected>>,
           \A b \in Blocks : OneToOne(content'[b].t.map)
    PROVE  SoundInv'
<1>1. /\ pc = "ready" /\ Cont = "ready" /\ Working /\ Injective /\ pc \notin {"off", "dead"}
  BY DEF Ready, Cont, Working, SoundInv, MapsOneToOne
<1>2. /\ data_block_count' = data_block_count /\ UNCHANGED <<w, at>>
      /\ pc' \in {"remap_ret", "update", "remap_erase"} /\ Cont' = pc'
  BY DEF RemapBlock, Cont
<1>3. /\ OneToOne(block_mapping')
      /\ \A x \in Logical : \/ block_mapping'[x] < MgmtStart
                            \/ /\ block_mapping'[x] > mapping_blocks_top_ba'
                               /\ block_mapping'[x] # signature_ba
      /\ mapping_blocks_ba <= mapping_blocks_top_ba' /\ mapping_blocks_top_ba' < signature_ba
      /\ signature_ba' = signature_ba
      /\ \A x \in Logical \ {lb} : block_mapping'[x] = block_mapping[x]
  <2>1. CASE UNCHANGED <<block_mapping, tops>>
    BY <1>1, <2>1 DEF SoundInv, AreaInv, Injective, tops
  <2>2. CASE /\ mapping_blocks_ba # mapping_blocks_top_ba
             /\ \E pb \in Unmapped : MapTo(lb, pb) /\ Skipped(pb) \subseteq weak'
    <3>1. PICK pb \in Unmapped : MapTo(lb, pb) /\ Skipped(pb) \subseteq weak'
      BY <2>2
    <3>2. pb = mapping_blocks_top_ba /\ pb \in Blocks
      BY <3>1 DEF Sound, Skipped, Unmapped
    <3>3. mapping_blocks_ba < mapping_blocks_top_ba
      BY <1>1, <2>2, Integral DEF SoundInv, AreaInv
    <3> QED
      BY <1>1, <3>1, <3>2, <3>3, MapToSound
  <2> QED
    BY <2>1, <2>2 DEF RemapBlock
<1>4. lb < data_block_count
  BY DEF Reachable
<1>5. MapsOneToOne' /\ CountInv'
  BY <1>1, <1>2, <1>3, <1>4, Integral DEF SoundInv, MapsOneToOne, CountInv, Injective, cache
<1>6. AreaInv'
  BY <1>1, <1>2, <1>3 DEF SoundInv, AreaInv, tabs
<1>7. RangeInv' /\ TablesInv'
  BY <1>1, <1>2, <1>3 DEF SoundInv, RangeInv, TablesInv, WriteConts, Working, Calm, tabs
<1> QED
  BY <1>5, <1>6, <1>7 DEF SoundInv

\* unmap_block_nmbm, when the block lb goes back to is its own.
LEMMA UnmapSound ==
    ASSUME TypeInv, SoundInv, Sound', NEW lb \in Logical, NEW repair \in BOOLEAN,
           UserUnmap(lb, repair)
    PROVE  SoundInv'
<1>1. /\ pc = "ready" /\ Cont = "ready" /\ Working /\ Injective /\ lb < data_block_count
      /\ pc' = "update" /\ Cont' = "update"
      /\ UNCHANGED <<flash, data_block_count, tabs, signature_ba, cache, protected, w, at>>
  BY DEF UserUnmap, Ready, Reachable, Cont, Working, SoundInv, MapsOneToOne
<1>2. PICK new \in Blocks :
         /\ block_mapping' = [block_mapping EXCEPT ![lb] = new]
         /\ \E top \in MaybeBlock : IsTopAfterUnmap(top, block_mapping') /\ mapping_blocks_top_ba' = top
         /\ Misplaced(lb, new) => "unmap" \in weak'
  BY DEF UserUnmap
<1>3. /\ new \in Int /\ new >= 0 /\ new < MgmtStart
      /\ \A x \in Logical \ {lb} : x < data_block_count => block_mapping[x] # new
  BY <1>2, Integral DEF Misplaced, Sound, Blocks
<1>4. /\ block_mapping'[lb] = new
      /\ \A x \in Logical \ {lb} : block_mapping'[x] = block_mapping[x]
  BY <1>2 DEF TypeInv, StateTypes
<1>5. \A x \in Logical : x >= data_block_count => block_mapping[x] = NoBlock
  BY <1>1 DEF SoundInv, CountInv
<1>6. \A x \in Logical \ {lb} : block_mapping[x] # new
  BY <1>3, <1>5, Integral DEF NoBlock
<1>7. OneToOne(block_mapping')
  BY <1>1, <1>4, <1>6 DEF Injective, OneToOne
<1>8. /\ MgmtStart <= mapping_blocks_ba /\ mapping_blocks_ba <= mapping_blocks_top_ba
      /\ mapping_blocks_top_ba < signature_ba
      /\ \A x \in Logical : \/ block_mapping[x] < MgmtStart
                            \/ /\ block_mapping[x] > mapping_blocks_top_ba
                               /\ block_mapping[x] # signature_ba
  BY <1>1 DEF SoundInv, AreaInv
<1> DEFINE top  == mapping_blocks_top_ba'
           used == {Used(block_mapping')[x] : x \in Logical} \cap (mapping_blocks_ba..(signature_ba - 1))
<1>9. top \in Int /\ top + 1 \in used \cup {signature_ba} /\ \A y \in used : top < y
  <2>1. top \in MaybeBlock /\ IsTop(top, Used(block_mapping'), mapping_blocks_ba, signature_ba)
    BY <1>2 DEF IsTopAfterUnmap
  <2>2. top \in Int
    BY <2>1, BlockTypes DEF MaybeBlock, NoBlock
  <2> QED
    BY <2>1, <2>2 DEF IsTop
<1>10. \A x \in Logical : Used(block_mapping')[x] =
                             IF x < data_block_count THEN block_mapping'[x] ELSE NoBlock
  BY <1>1 DEF Used
<1>11. \A y \in used : \E x \in Logical : y = block_mapping'[x] /\ y # new
  BY <1>3, <1>8, <1>10, Integral DEF NoBlock
<1>12. \A y \in used : y > mapping_blocks_ba
  BY <1>4, <1>8, <1>11, Integral
<1>13. mapping_blocks_ba <= top /\ top < signature_ba
  BY <1>8, <1>9, <1>12, Integral
<1>14. \A x \in Logical : \/ block_mapping'[x] < MgmtStart
                          \/ block_mapping'[x] > top /\ block_mapping'[x] # signature_ba
  <2> SUFFICES ASSUME NEW x \in Logical, block_mapping'[x] >= MgmtStart
               PROVE  block_mapping'[x] > top /\ block_mapping'[x] # signature_ba
    BY <1>3, <1>4, Integral
  <2>1. x # lb /\ block_mapping'[x] = block_mapping[x]
    BY <1>3, <1>4, Integral
  <2>2. block_mapping[x] > mapping_blocks_top_ba /\ block_mapping[x] # signature_ba
    BY <1>8, <2>1, Integral
  <2>3. x < data_block_count
    BY <1>5, <2>1, Integral DEF NoBlock
  <2>4. CASE block_mapping[x] < signature_ba
    BY <1>8, <1>9, <1>10, <2>1, <2>2, <2>3, <2>4, Integral
  <2>5. CASE block_mapping[x] > signature_ba
    BY <1>9, <1>13, <2>1, <2>5, Integral
  <2> QED
    BY <2>2, <2>4, <2>5, Integral
<1>15. MapsOneToOne' /\ CountInv'
  BY <1>1, <1>4, <1>5, <1>7, Integral DEF SoundInv, MapsOneToOne, CountInv, Injective, flash, cache
<1>16. AreaInv'
  BY <1>1, <1>8, <1>13, <1>14 DEF AreaInv, tabs
<1>17. RangeInv' /\ TablesInv'
  BY <1>1 DEF SoundInv, RangeInv, TablesInv, WriteConts, Working, Calm, tabs
<1> QED
  BY <1>15, <1>16, <1>17 DEF SoundInv

\* The steps of the calls of the user keep the map and the area in order.
LEMMA MapUser == TypeInv /\ SoundInv /\ UserStep /\ Sound' => SoundInv'
<1> SUFFICES ASSUME TypeInv, SoundInv, Sound', NEW lb \in Logical,
                    \/ UserWrite(lb) \/ UserFault(lb) \/ UserRemap(lb) \/ UserIsBad(lb)
                    \/ \E repair \in BOOLEAN : UserUnmap(lb, repair)
             PROVE  SoundInv'
  BY DEF UserStep
<1>1. \A b \in Blocks : OneToOne(content[b].t.map)
  BY DEF SoundInv, MapsOneToOne
<1>2. CASE UserWrite(lb)
  <2>1. \A b \in Blocks : OneToOne(content'[b].t.map)
    BY <1>1, <1>2, ContentOneToOne DEF UserWrite
  <2> QED
    BY <1>2, <2>1 DEF UserWrite, SoundInv, MapsOneToOne, CountInv, AreaInv, RangeInv, TablesInv,
        Injective, Working, Cont, state, maps, tabs, tops, cache, ctl
<1>3. CASE UserFault(lb)
  <2>1. \A b \in Blocks : OneToOne(content'[b].t.map)
    BY <1>1, <1>3, ContentOneToOne DEF UserFault, Ruin, TypeInv, FlashTypes
  <2> QED
    BY <1>3, <2>1, RemapBlockSound DEF UserFault
<1>4. CASE UserRemap(lb)
  BY <1>1, <1>4, RemapBlockSound DEF UserRemap, flash
<1>5. CASE UserIsBad(lb)
  BY <1>1, <1>5, RemapBlockSound DEF UserIsBad, flash
<1> QED
  BY <1>2, <1>3, <1>4, <1>5, UnmapSound

\* The steps of a power cut keep the map and the area in order.
LEMMA MapCut == TypeInv /\ SoundInv /\ PowerCut => SoundInv'
<1> SUFFICES ASSUME TypeInv, SoundInv, PowerCut PROVE SoundInv'
  OBVIOUS
<1>1. OneToOne(Programmed.t.map)
  BY ContentOneToOne DEF Programmed, SoundInv, MapsOneToOne
<1>2. \A b \in Blocks : OneToOne(content'[b].t.map)
  BY <1>1, ContentOneToOne DEF PowerCut, TypeInv, FlashTypes, SoundInv, MapsOneToOne
<1>3. pc' = "off" /\ Cont' = "off" /\ backup_table_ba' = 0 /\ info_table_cache' = NoTable
  BY DEF PowerCut, Cont
<1> QED
  BY <1>2, <1>3, ContentOneToOne DEF SoundInv, MapsOneToOne, Injective, CountInv, AreaInv, RangeInv,
      TablesInv, Working, WriteConts

\* Before the first attach nothing is mapped.
LEMMA MapInit == Init => MapInv
<1> SUFFICES ASSUME Init PROVE SoundInv
  BY DEF MapInv
<1>1. PICK f \in FactoryBads : InitWith([b \in Blocks |-> Holds("erased")], f, {})
  BY DEF Init
<1>2. pc = "off" /\ Cont = "off" /\ backup_table_ba = 0 /\ info_table_cache = NoTable
  BY <1>1 DEF InitWith, InitOff, Cont
<1>3. \A b \in Blocks : OneToOne(content[b].t.map)
  BY <1>1, ContentOneToOne DEF InitWith, InitOff
<1> QED
  BY <1>2, <1>3, ContentOneToOne DEF SoundInv, MapsOneToOne, Injective, CountInv, AreaInv, RangeInv,
      TablesInv, Working, WriteConts

\* What voids the promises stays on record.
LEMMA WeakGrows == Next => weak \subseteq weak'
<1> SUFFICES ASSUME Next PROVE weak \subseteq weak'
  OBVIOUS
<1>1. WriteStep => weak \subseteq weak'
  BY DEF WriteErase, hist, WriteProgram, WriteProgramFails, WriteNoRoom, WriteStep
<1>2. EraseStep => weak \subseteq weak'
  BY DEF EraseNext, hist, EraseFails, EraseDone, EraseStep
<1>3. UpdateStep => weak \subseteq weak'
  BY DEF UpdateDone, hist, UpdateOnce, BackupWritten, BackupFailed, MainWritten, UpdateStep
<1>4. RebuildStep => weak \subseteq weak'
  BY DEF MainFailedAlone, hist, RebuildMainFailed, RebuildMainWritten, RebuildBackupWritten,
      RebuildBackupFailed, RebuildStep
<1>5. RescueStep => weak \subseteq weak'
  BY DEF RescueMain, hist, RescueTmpFailed, RescueTmpWritten, RescueMainDone,
      RescueFrontWritten, RescueFrontFailed, RescueBackFailed, RescueBackWritten,
      RescueBackAdopted, LoadOk, OlderWritten, OlderMainFailed, OlderBackupFailed, RescueStep
<1>6. AttachStep => weak \subseteq weak'
  <2>1. AttachLoad => weak \subseteq weak'
    <3> SUFFICES ASSUME NEW sig, NEW m, NEW s, NEW ecc, LoadTables(sig, m, s, ecc)
                 PROVE  weak \subseteq weak'
      BY DEF AttachLoad
    <3> QED
      BY DEF LoadTables
  <2> QED
    BY <2>1 DEF AttachRefused, hist, AttachCreate, AttachNew, SignatureErase,
        SignatureEraseFails, SignatureProgram, SignatureProgramFails, SignatureNoRoom,
        AttachStep
<1>7. MapStep => weak \subseteq weak'
  BY DEF MapNext, MapLoopDone, hist, MapLoopFull, CreateFull, CreateDone, MapStep
<1>8. RemapStep => weak \subseteq weak'
  BY DEF UnmapDone, hist, RemapErase, RemapCopy, RemapFull, RemapDone, RemapStep
<1>9. UserStep => weak \subseteq weak'
  BY DEF UserStep, UserWrite, UserFault, UserRemap, UserIsBad, UserUnmap, RemapBlock, hist
<1>10. PowerCut => weak \subseteq weak'
  BY DEF PowerCut, hist
<1> QED
  BY <1>1, <1>2, <1>3, <1>4, <1>5, <1>6, <1>7, <1>8, <1>9, <1>10 DEF Next, DriverStep

\* Every step keeps the map in order, as long as nothing voids it.
LEMMA MapNextInv == TypeInv /\ MapInv /\ [Next]_vars => MapInv'
<1> SUFFICES ASSUME TypeInv, MapInv, [Next]_vars, Sound' PROVE SoundInv'
  BY DEF MapInv
<1>1. CASE Next
  <2>1. SoundInv
    BY <1>1, WeakGrows DEF MapInv, Sound
  <2> QED
    BY <1>1, <2>1, MapWrite, MapErase, MapUpdate, MapRebuild, MapRescue, MapAttach, MapMap,
       MapRemap, MapUser, MapCut DEF Next, DriverStep
<1>2. CASE UNCHANGED vars
  <2>1. UNCHANGED <<flash, state, maps, tabs, tops, cache, protected, ctl, hist, env>>
    BY <1>2 DEF vars
  <2>2. SoundInv
    BY <2>1 DEF MapInv, Sound, hist
  <2>3. pc' = pc /\ Cont' = Cont /\ Working' = Working
    BY <2>1 DEF ctl, Cont, Working
  <2>4. MapsOneToOne' /\ CountInv'
    BY <2>1, <2>2, <2>3 DEF SoundInv, MapsOneToOne, CountInv, Injective, flash, maps, cache
  <2>5. AreaInv' /\ RangeInv' /\ TablesInv'
    BY <2>1, <2>2, <2>3 DEF SoundInv, AreaInv, RangeInv, TablesInv, maps, tabs, tops, ctl
  <2> QED
    BY <2>4, <2>5 DEF SoundInv
<1> QED
  BY <1>1, <1>2

\* MapInv holds of every state.
LEMMA MapInvariant == Spec => []MapInv
  BY TypeInvariant, MapInit, MapNextInv, PTL DEF Spec

----------------------------------------------------------------------------

\* Two logical blocks never share a physical block (nmbm_map_block,
\* unmap_block_nmbm, nmbm_load_info_table), unless a bad block was passed over by
\* nmbm_map_block, a block was taken back to one that is not its own, or a table
\* was loaded from a block in use.
THEOREM MapIsInjective == Spec => []MappingInjective
<1>1. MapInv => MappingInjective
  BY DEF MapInv, SoundInv, MapsOneToOne, MappingInjective
<1> QED
  BY <1>1, MapInvariant, PTL

\* No logical block is mapped to a table, to the signature or to a block that
\* nmbm_map_block has still to hand out.
THEOREM AreaIsDisjoint == Spec => []AreaDisjoint
<1>1. TypeInv /\ MapInv => AreaDisjoint
  <2> SUFFICES ASSUME TypeInv, SoundInv, pc = "ready", NEW lb \in Logical
               PROVE  /\ block_mapping[lb] # signature_ba
                      /\ block_mapping[lb] \notin MgmtStart..mapping_blocks_top_ba
    BY DEF MapInv, AreaDisjoint
  <2>1. Working
    BY DEF Working, Cont
  <2> QED
    BY <2>1, Integral DEF SoundInv, AreaInv
<1> QED
  BY <1>1, TypeInvariant, MapInvariant, PTL

=============================================================================
