----------------------------- MODULE BlockFront -----------------------------
(***************************************************************************)
(* The MTD front end of the NAND bad-block layer (mtk_bmt.c) at the level of *)
(* pages, with several callers: read, write, erase, isbad and markbad look a *)
(* block up, use the chip, and have the block remapped and try again when it *)
(* fails.  Nothing is locked above the single operation of the chip.         *)
(*                                                                          *)
(* Behind it stands the remap_block of mtk_bmt_v2.c, the plainest of the     *)
(* three back ends: a new block from a pool, the map changed at once, then   *)
(* an erase and a copy.  Its tables are the subject of BMTv2.                *)
(***************************************************************************)
EXTENDS Integers, FiniteSets

CONSTANTS
    Callers,
    NumLogical,   \* logical blocks; at first each is the physical block of its number
    NumPool,      \* blocks of the pool, behind them
    NumPages,     \* pages of a block
    MaxRetry,     \* 10 in the code
    None,
    MaxOps,       \* bound: requests
    MaxFaults     \* bound: pages that decay, operations that fail, bitflips

ASSUME SizeAssumption  == /\ NumLogical \in Nat /\ NumPool \in Nat /\ NumPages \in Nat \ {0}
                          /\ MaxRetry \in Nat
ASSUME BoundAssumption == MaxOps \in Nat /\ MaxFaults \in Nat

Logical == 0..(NumLogical - 1)
Blocks  == 0..(NumLogical + NumPool - 1)
Pages   == 0..(NumPages - 1)

VARIABLES
    cells,      \* the chip: what each page of a block holds
    marked,     \* the chip: blocks with the bad-block marker
    map, free,  \* bb_tbl, and the blocks of bmt_tbl that are not mapped
    data_buf,   \* bmtd.data_buf
    call,       \* what each caller is doing
    want,       \* history: what a page has to be read back as
    upset,      \* history: logical blocks, or None, that the code does not keep apart
    ops, faults

vars == <<cells, marked, map, free, data_buf, call, want, upset, ops, faults>>

\* A page holds the data of a logical block, or nothing, or nothing that the ECC
\* accepts; nothing is expected of one that was lost.
Erased     == -1
Unreadable == -2
Lost       == -3
Contents   == Logical \cup {Erased, Unreadable}

Kinds  == {"read", "write", "erase", "isbad", "markbad"}
Labels == {"look", "raw", "pick", "take", "rm_erase", "cp_read", "cp_write", "mark", "done"}

\* A call: what it asks for, how far it is, the blocks and pages of its remap, what it read
\* and what was due when it began; used is the number of blocks that it has taken.
Call == [kind : Kinds, lb : Logical, from : Pages, pc : Labels,
         block : Blocks, new : Blocks, len : 0..NumPages, page : Pages,
         due : [Pages -> Int], got : [Pages -> Int],
         retry : Nat, used : Nat, again : BOOLEAN, err : BOOLEAN]
ASSUME NoneAssumption == None \notin Call

\* The map leads to a block that does not have the data yet.
Copying == {"rm_erase", "cp_read", "cp_write"}

Fault == faults > 0 /\ faults' = faults - 1

\* The pages from p on of logical block lb are not expected any more.
Lose(w, lb, p) == [w EXCEPT ![lb] = [q \in Pages |-> IF q >= p THEN Lost ELSE @[q]]]

Busy(lb) == {c \in Callers : call[c] # None /\ call[c].lb = lb}

Set(c, changes) ==
    call' = [call EXCEPT ![c] =
               [f \in DOMAIN @ |-> IF f \in DOMAIN changes THEN changes[f] ELSE @[f]]]

----------------------------------------------------------------------------
(* Requests.                                                                *)

\* The users of MTD do not write or erase what another one is using.
Request(c, kind, lb, from) ==
    /\ call[c] = None
    /\ ops > 0 /\ ops' = ops - 1
    /\ \A d \in Busy(lb) : {kind, call[d].kind} \subseteq {"read", "isbad"}
    /\ from > 0 => kind = "write"
    /\ kind = "write" => \A p \in Pages : p >= from => want[lb][p] = Erased
    /\ call' = [call EXCEPT ![c] = [kind |-> kind, lb |-> lb, from |-> from, pc |-> "look",
                                    block |-> 0, new |-> 0, len |-> 0, page |-> 0,
                                    due |-> want[lb], got |-> want[lb], retry |-> 0,
                                    used |-> 0, again |-> FALSE, err |-> FALSE]]
    /\ want' = IF kind \in {"write", "erase"} THEN Lose(want, lb, from) ELSE want
    /\ upset' = IF \E d \in Busy(lb) : call[d].pc \in Copying THEN upset \cup {lb} ELSE upset
    /\ UNCHANGED <<cells, marked, map, free, data_buf, faults>>

Return(c) ==
    /\ call[c] # None /\ call[c].pc = "done"
    /\ call' = [call EXCEPT ![c] = None]
    /\ UNCHANGED <<cells, marked, map, free, data_buf, want, upset, ops, faults>>

At(c, label) == call[c] # None /\ call[c].pc = label

\* get_mapping_block
Look(c) ==
    /\ At(c, "look")
    /\ Set(c, [block |-> map[call[c].lb], pc |-> "raw"])
    /\ UNCHANGED <<cells, marked, map, free, data_buf, want, upset, ops, faults>>

\* Mutant: a write that fails takes no page along.
CopyLen_NoFront(kind, from) == IF kind \in {"write", "erase"} THEN 0 ELSE NumPages
\* The pages that a remap copies: the whole block, those in front of the write that
\* failed, none.
CopyLen(kind, from) ==
    CASE kind = "write" -> from [] kind = "erase" -> 0 [] OTHER -> NumPages

\* mtk_bmt_remap_block, and whether its success leads to another attempt.
Remap(c, again, err) ==
    Set(c, [pc |-> "pick", len |-> CopyLen(call[c].kind, call[c].from),
            again |-> again, err |-> err])

\* Mutant: the result of the last attempt counts.
ReadErr_Last(c) == FALSE
\* mtk_bmt_read: the error of a failed attempt stays, although the next one works.
ReadErr(c) == call[c].err

ReadRaw(c) ==
    /\ At(c, "raw") /\ call[c].kind = "read"
    /\ LET got == cells[call[c].block]
       IN  \/ /\ \E p \in Pages : got[p] = Unreadable
              /\ Remap(c, TRUE, TRUE)
              /\ UNCHANGED faults
           \/ /\ \A p \in Pages : got[p] # Unreadable
              /\ \/ Set(c, [pc |-> "done", got |-> got, err |-> ReadErr(c)]) /\ UNCHANGED faults
                 \/ /\ Fault        \* bitflips over the threshold
                    /\ Set(c, [pc |-> "pick", len |-> NumPages, again |-> FALSE,
                               got |-> got, err |-> ReadErr(c)])
    /\ UNCHANGED <<cells, marked, map, free, data_buf, want, upset, ops>>

\* A page that is not erased cannot be written.
Program(b, p, v) == IF cells[b][p] = Erased THEN v ELSE Unreadable

WriteRaw(c) ==
    /\ At(c, "raw") /\ call[c].kind = "write"
    /\ LET b == call[c].block
           lb == call[c].lb
           from == call[c].from
           Written(to) == [cells EXCEPT ![b] = [p \in Pages |->
                             IF p < from \/ p > to THEN @[p] ELSE Program(b, p, lb)]]
       IN  \/ /\ cells' = Written(NumPages - 1)
              /\ want' = [want EXCEPT ![lb] = [p \in Pages |-> IF p >= from THEN lb ELSE @[p]]]
              /\ Set(c, [pc |-> "done", err |-> FALSE])
              /\ UNCHANGED faults
           \/ /\ Fault
              /\ \E p \in from..(NumPages - 1) :
                    cells' = [Written(p) EXCEPT ![b][p] = Unreadable]
              /\ Remap(c, TRUE, TRUE)
              /\ UNCHANGED want
    /\ UNCHANGED <<marked, map, free, data_buf, upset, ops>>

EraseRaw(c) ==
    /\ At(c, "raw") /\ call[c].kind = "erase"
    /\ \/ /\ cells' = [cells EXCEPT ![call[c].block] = [p \in Pages |-> Erased]]
          /\ want' = [want EXCEPT ![call[c].lb] = [p \in Pages |-> Erased]]
          /\ Set(c, [pc |-> "done", err |-> FALSE])
          /\ UNCHANGED faults
       \/ Fault /\ Remap(c, TRUE, TRUE) /\ UNCHANGED <<cells, want>>
    /\ UNCHANGED <<marked, map, free, data_buf, upset, ops>>

IsBadRaw(c) ==
    /\ At(c, "raw") /\ call[c].kind = "isbad"
    /\ IF call[c].block \in marked THEN Remap(c, TRUE, TRUE)
       ELSE Set(c, [pc |-> "done", err |-> FALSE])
    /\ UNCHANGED <<cells, marked, map, free, data_buf, want, upset, ops, faults>>

MarkBadRaw(c) ==
    /\ At(c, "raw") /\ call[c].kind = "markbad"
    /\ Remap(c, FALSE, FALSE)
    /\ UNCHANGED <<cells, marked, map, free, data_buf, want, upset, ops, faults>>

\* _block_markbad of the block as it was looked up, remapped or not.
Mark(c) ==
    /\ At(c, "mark")
    /\ marked' = marked \cup {call[c].block}
    /\ Set(c, [pc |-> "done"])
    /\ UNCHANGED <<cells, map, free, data_buf, want, upset, ops, faults>>

----------------------------------------------------------------------------
(* remap_block_v2 and bbt_nand_copy.                                        *)

\* Mutant: the retry that is one too many.
GoesOn_OneMore(c) == call[c].again /\ call[c].retry <= MaxRetry
\* if (remap(...) && retry_count++ < 10) continue
GoesOn(c) == call[c].again /\ call[c].retry < MaxRetry
Remapped(c) == IF GoesOn(c) THEN "look" ELSE IF call[c].kind = "markbad" THEN "mark" ELSE "done"
Tried(c)    == IF call[c].again THEN call[c].retry + 1 ELSE call[c].retry

\* find_valid_block_in_pool: the lowest block that is not mapped.
Pick(c) ==
    /\ At(c, "pick")
    /\ \/ /\ free = {}
          /\ Set(c, [pc |-> IF call[c].kind = "markbad" THEN "mark" ELSE "done"])
       \/ \E new \in free : (\A b \in free : new <= b) /\ Set(c, [pc |-> "take", new |-> new])
    /\ UNCHANGED <<cells, marked, map, free, data_buf, want, upset, ops, faults>>

\* What another caller reads or writes meanwhile is in neither block for sure; nor
\* is anything in a block that two callers have found.
Take(c) ==
    /\ At(c, "take")
    /\ LET lb  == call[c].lb
           new == call[c].new
       IN  /\ free' = free \ {new}
           /\ map' = [map EXCEPT ![lb] = new]
           /\ upset' = upset \cup (IF Busy(lb) = {c} THEN {} ELSE {lb})
                             \cup (IF new \in free THEN {} ELSE {None})
           /\ Set(c, [pc |-> "rm_erase", page |-> 0, used |-> call[c].used + 1])
    /\ UNCHANGED <<cells, marked, data_buf, want, ops, faults>>

Leave(c) == Set(c, [pc |-> Remapped(c), retry |-> Tried(c), new |-> 0, page |-> 0, len |-> 0])
\* Mutant: max_offset is passed by one page.
GoTo_Past(c, p) == IF p <= call[c].len THEN Set(c, [pc |-> "cp_read", page |-> p]) ELSE Leave(c)
\* offset >= max_offset ends the copy.
GoTo(c, p) == IF p < call[c].len THEN Set(c, [pc |-> "cp_read", page |-> p]) ELSE Leave(c)

\* Nobody looks at the result, and what is then written to the block is not read back.
EraseNew(c) ==
    /\ At(c, "rm_erase")
    /\ \/ /\ cells' = [cells EXCEPT ![call[c].new] = [p \in Pages |-> Erased]]
          /\ UNCHANGED <<upset, faults>>
       \/ Fault /\ upset' = upset \cup {call[c].lb} /\ UNCHANGED cells
    /\ GoTo(c, 0)
    /\ UNCHANGED <<marked, map, free, data_buf, want, ops>>

\* The copy stops at the first page that cannot be read.
CopyRead(c) ==
    /\ At(c, "cp_read")
    /\ LET v == cells[call[c].block][call[c].page]
       IN  IF v = Unreadable
           THEN Leave(c) /\ want' = Lose(want, call[c].lb, call[c].page) /\ UNCHANGED data_buf
           ELSE data_buf' = v /\ Set(c, [pc |-> "cp_write"]) /\ UNCHANGED want
    /\ upset' = IF \E d \in Callers \ {c} : At(d, "cp_write") THEN upset \cup {None} ELSE upset
    /\ UNCHANGED <<cells, marked, map, free, ops, faults>>

CopyWrite(c) ==
    /\ At(c, "cp_write")
    /\ LET new == call[c].new
           p   == call[c].page
       IN  \/ /\ cells' = [cells EXCEPT ![new][p] = Program(new, p, data_buf)]
              /\ GoTo(c, p + 1)
              /\ UNCHANGED <<want, faults>>
           \/ /\ Fault
              /\ cells' = [cells EXCEPT ![new][p] = Unreadable]
              /\ Leave(c)
              /\ want' = Lose(want, call[c].lb, p)
    /\ UNCHANGED <<marked, map, free, data_buf, upset, ops>>

\* A page in use decays: it is lost, and so are those behind it that a copy does not reach.
Decay(b, p) ==
    /\ Fault
    /\ cells[b][p] \in Logical
    /\ \/ \E lb \in Logical : map[lb] = b
       \/ \E c \in Callers : call[c] # None /\ call[c].block = b
    /\ cells' = [cells EXCEPT ![b][p] = Unreadable]
    /\ want' = [lb \in Logical |-> IF map[lb] = b \/ \E c \in Busy(lb) : call[c].block = b
                                   THEN Lose(want, lb, p)[lb] ELSE want[lb]]
    /\ UNCHANGED <<marked, map, free, data_buf, call, upset, ops>>

----------------------------------------------------------------------------
\* One logical block is written up to some page, the others are full.
Init ==
    /\ \E n \in 0..NumPages :
          /\ want = [lb \in Logical |-> [p \in Pages |-> IF lb > 0 \/ p < n THEN lb ELSE Erased]]
          /\ cells = [b \in Blocks |-> IF b \in Logical THEN want[b]
                                       ELSE [p \in Pages |-> Unreadable]]
    /\ marked = {} /\ map = [lb \in Logical |-> lb] /\ free = Blocks \ Logical
    /\ data_buf = Erased
    /\ call = [c \in Callers |-> None]
    /\ upset = {}
    /\ ops = MaxOps /\ faults = MaxFaults

CallStep(c) ==
    \/ Look(c) \/ ReadRaw(c) \/ WriteRaw(c) \/ EraseRaw(c) \/ IsBadRaw(c) \/ MarkBadRaw(c)
    \/ Mark(c) \/ Pick(c) \/ Take(c) \/ EraseNew(c) \/ CopyRead(c) \/ CopyWrite(c) \/ Return(c)

Next ==
    \/ \E c \in Callers : CallStep(c)
    \/ \E c \in Callers, kind \in Kinds, lb \in Logical, from \in Pages : Request(c, kind, lb, from)
    \/ \E b \in Blocks, p \in Pages : Decay(b, p)

Spec == Init /\ [][Next]_vars

----------------------------------------------------------------------------
(* Properties.                                                              *)

\* The variables hold what the driver and the chip can hold.
TypeOK ==
    /\ cells \in [Blocks -> [Pages -> Contents]]
    /\ marked \subseteq Blocks /\ map \in [Logical -> Blocks] /\ free \subseteq Blocks
    /\ data_buf \in Logical \cup {Erased}
    /\ call \in [Callers -> Call \cup {None}]
    /\ want \in [Logical -> [Pages -> Logical \cup {Erased, Lost}]]
    /\ \A lb \in Logical, p \in Pages : want[lb][p] \in {lb, Erased, Lost}
    /\ upset \subseteq Logical \cup {None}
    /\ ops \in 0..MaxOps /\ faults \in 0..MaxFaults

\* Nobody crossed the remaps of lb, or anybody's copies and searches (bmtd.data_buf,
\* bmt_tbl).
Apart(lb) == upset \cap {lb, None} = {}

\* What was written and not lost with the chip is where the map says, however
\* often and in whatever request the block was remapped: mtk_bmt_write keeps the
\* pages in front of the one that failed, and rewrites the others.
DataKept ==
    \A lb \in Logical : Apart(lb) /\ Busy(lb) = {} =>
        \A p \in Pages : want[lb][p] \in {Lost, cells[map[lb]][p]}

\* A read that returns no error has delivered what was written: the pages that its
\* own remap could not copy are covered by the error of the first attempt, which
\* mtk_bmt_read keeps although the retry succeeds.
ReadTrue ==
    \A c \in Callers :
        At(c, "done") /\ call[c].kind = "read" /\ ~call[c].err /\ Apart(call[c].lb) =>
            \A p \in Pages : call[c].due[p] \in {Lost, call[c].got[p]}

\* One request uses up no more than MaxRetry + 1 blocks of the pool for a block of
\* its own: the remap comes before the test of the counter (mtk_bmt_read,
\* mtk_bmt_write, mtk_bmt_mtd_erase, mtk_bmt_block_isbad).
PoolSpent == \A c \in Callers : call[c] # None => call[c].used <= MaxRetry + 1

\* "map it to a valid block in pool, if it's a write failure, we need to write the
\* data to mapped block" (mtk_bmt_v2.c:253-255): the data of the block that is
\* mapped, and no other's.
CopiesOwn ==
    \A lb \in Logical, p \in Pages : cells[map[lb]][p] \in {lb, Erased, Unreadable}
=============================================================================
