----------------------------- MODULE BBT_proofs -----------------------------
(***************************************************************************)
(* What the bad-block table back end keeps, for every size of the chip,      *)
(* every set of remap ranges and any number of faults and power cuts.        *)
(*                                                                          *)
(* The mapping counts: the logical block of offset n in its range lies on    *)
(* the n-th good block, and past those on the bad ones.  That there is such  *)
(* a block, and that no two share it, is a matter of cardinalities; the rest *)
(* needs of the mapping only that it permutes the blocks of a range.         *)
(***************************************************************************)
EXTENDS BBT, FiniteSetTheorems, TLAPS

Busy == {"save_erase", "save_write", "erase_new", "copy_new"}

\* Where things lie: tables behind the blocks of the users, markers and what a request
\* moves among them.
Placed ==
    /\ home \notin Logical
    /\ \A b \in Blocks : cells[b].k = "table" => b \notin Logical
    /\ marked \subseteq Logical
    /\ req.src \in Logical
    /\ pc \in {"erase_new", "copy_new"} => req.kind \in {"remap", "mark", "repair"}

\* No table lies behind the one that is in use, so a start finds that one.
Topmost == pc \notin {"off", "plain"} => \A x \in Signed : x <= home
Written ==
    /\ pc \in {"ready", "erase_new", "copy_new", "mark_src"} /\ spoiled = {} =>
          cells[home] = Table(bad)
    /\ pc = "off" /\ kept # {} => Found(home) /\ cells[home] = Table(bad)

\* The data of a block that no request moves is where the table says; that of the block that is
\* moved is where it was, until it has been copied.
Moves(lb) == pc \in Busy /\ req.kind # "debug" /\ lb = req.lb
Resting == \A lb \in kept : ~Moves(lb) => cells[At(lb)] = Data(lb)
Moving ==
    \A lb \in kept : Moves(lb) =>
        /\ cells[req.src] = Data(lb) /\ req.copy
        /\ req.kind \in {"remap", "mark"} \/ pc \in {"erase_new", "copy_new"} => req.src # At(lb)
        /\ req.kind = "unmap" => req.src = At(lb)
        /\ pc = "copy_new" => cells[At(lb)] = Erased

IInv == TypeOK /\ Placed /\ Topmost /\ Written /\ Resting /\ Moving

----------------------------------------------------------------------------
(* The mapping.                                                             *)

\* In a finite set of numbers there is one of every rank.
LEMMA RankExists ==
    ASSUME NEW S \in SUBSET Int, IsFiniteSet(S), NEW n \in 0..(Cardinality(S) - 1)
    PROVE  \E b \in S : Below(S, b) = n
<1> DEFINE T == 0..(Cardinality(S) - 1)
           f == [b \in S |-> Below(S, b)]
           Less(b) == {x \in S : x < b}
<1>1. Cardinality(S) \in Nat
  BY FS_CardinalityType
<1>2. IsFiniteSet(T) /\ Cardinality(T) = Cardinality(S)
  BY <1>1, FS_Interval
<1>3. \A b \in S : IsFiniteSet(Less(b)) /\ Below(S, b) = Cardinality(Less(b)) /\ Below(S, b) \in Nat
  <2> SUFFICES ASSUME NEW b \in S
               PROVE  /\ IsFiniteSet(Less(b)) /\ Below(S, b) = Cardinality(Less(b))
                      /\ Below(S, b) \in Nat
    OBVIOUS
  <2>1. Less(b) \in SUBSET S
    OBVIOUS
  <2>2. IsFiniteSet(Less(b))
    BY <2>1, FS_Subset
  <2> QED  BY <2>2, FS_CardinalityType DEF Below
<1>4. \A b \in S : Below(S, b) < Cardinality(S)
  <2> SUFFICES ASSUME NEW b \in S PROVE Below(S, b) < Cardinality(S)
    OBVIOUS
  <2>1. Less(b) \in SUBSET (S \ {b})
    OBVIOUS
  <2>2. IsFiniteSet(S \ {b}) /\ Cardinality(S \ {b}) = Cardinality(S) - 1
    BY FS_RemoveElement
  <2>3. Cardinality(Less(b)) <= Cardinality(S \ {b})
    BY <2>1, <2>2, FS_Subset
  <2> HIDE DEF Less
  <2> QED  BY <1>1, <1>3, <2>2, <2>3
<1>5. \A b, c \in S : b < c => Below(S, b) < Below(S, c)
  <2> SUFFICES ASSUME NEW b \in S, NEW c \in S, b < c PROVE Below(S, b) < Below(S, c)
    OBVIOUS
  <2>0. S \subseteq Int /\ b \in Int /\ c \in Int
    OBVIOUS
  <2>1. b \in Less(c) /\ b \notin Less(b)
    BY <2>0
  <2>2. Less(b) \subseteq Less(c)
    <3> SUFFICES ASSUME NEW x \in S, x < b PROVE x < c
      OBVIOUS
    <3>1. x \in Int
      OBVIOUS
    <3> QED  BY <2>0, <3>1
  <2> HIDE DEF Less
  <2>3. /\ Cardinality(Less(b)) <= Cardinality(Less(c))
        /\ Cardinality(Less(c)) = Cardinality(Less(b)) => Less(c) = Less(b)
    BY <1>3, <2>2, FS_Subset
  <2> QED  BY <1>3, <2>1, <2>3
<1>6. f \in Injection(S, T)
  <2>1. f \in [S -> T]
    <3>1. ASSUME NEW b \in S PROVE Below(S, b) \in T
      <4>1. Below(S, b) \in Nat /\ Below(S, b) < Cardinality(S)
        BY <1>3, <1>4
      <4> QED  BY <1>1, <4>1
    <3> HIDE DEF T
    <3> QED  BY <3>1
  <2>2. \A b, c \in S : f[b] = f[c] => b = c
    <3> SUFFICES ASSUME NEW b \in S, NEW c \in S, Below(S, b) = Below(S, c) PROVE b = c
      OBVIOUS
    <3>1. Below(S, b) \in Nat /\ b \in Int /\ c \in Int
      BY <1>3
    <3>2. ~(b < c) /\ ~(c < b)
      BY <1>5, <3>1
    <3> QED  BY <3>1, <3>2
  <2> QED  BY <2>1, <2>2 DEF Injection, IsInjective
<1>7. f \in Surjection(S, T)
  <2> HIDE DEF T, f
  <2> QED  BY <1>2, <1>6, FS_Injection
<1> QED  BY <1>7 DEF Surjection

\* Where a logical block of a range lies: among the good blocks or the bad ones, at its rank.
LEMMA MappedInRange ==
    ASSUME NEW bb, NEW lb \in Logical, NEW r \in Ranges, r[1] <= lb, lb < r[2], RangeOf(lb) = r
    PROVE  LET all == BlocksOf(r)
               ofs == lb - r[1]
               num == Cardinality(all \ bb)
           IN  /\ num \in Nat /\ ofs \in Nat
               /\ ofs < num => /\ Mapped(bb, lb) \in all \ bb
                               /\ Below(all \ bb, Mapped(bb, lb)) = ofs
               /\ ~(ofs < num) => /\ Mapped(bb, lb) \in all \cap bb
                                  /\ Below(all \cap bb, Mapped(bb, lb)) = ofs - num
<1> DEFINE all == BlocksOf(r)
           ofs == lb - r[1]
           num == Cardinality(all \ bb)
<1>1. /\ r[1] \in Int /\ r[2] \in Int /\ lb \in Int /\ r[1] < r[2]
      /\ InRange(lb)
  BY SizeAssumption, RangeAssumption DEF Logical, InRange
<1>2. IsFiniteSet(all) /\ Cardinality(all) = r[2] - r[1] /\ all \subseteq Int
  <2>1. r[2] - 1 \in Int /\ ~(r[1] > r[2] - 1)
    BY <1>1
  <2>2. IsFiniteSet(all) /\ Cardinality(all) = (r[2] - 1) - r[1] + 1
    BY <1>1, <2>1, FS_Interval DEF BlocksOf
  <2> QED  BY <1>1, <2>2 DEF BlocksOf
<1>3. /\ IsFiniteSet(all \ bb) /\ IsFiniteSet(all \cap bb)
      /\ num = Cardinality(all) - Cardinality(all \cap bb)
      /\ num \in Nat /\ Cardinality(all \cap bb) \in Nat
  BY <1>2, FS_Difference, FS_Intersection, FS_CardinalityType
<1>4. ofs \in Nat /\ ofs < Cardinality(all)
  BY <1>1, <1>2
<1>5. Mapped(bb, lb) = IF ofs < num THEN CHOOSE b \in all \ bb : Below(all \ bb, b) = ofs
                       ELSE CHOOSE b \in all \cap bb : Below(all \cap bb, b) = ofs - num
  BY <1>1 DEF Mapped
<1> HIDE DEF all, ofs, num
<1>6. CASE ofs < num
  <2>1. ofs \in 0..(num - 1)
    BY <1>3, <1>4, <1>6
  <2>2. ofs \in 0..(Cardinality(all \ bb) - 1) /\ (all \ bb) \in SUBSET Int
    BY <1>2, <2>1 DEF num
  <2>3. \E b \in all \ bb : Below(all \ bb, b) = ofs
    BY <1>3, <2>2, RankExists
  <2> QED  BY <1>3, <1>4, <1>5, <1>6, <2>3 DEF all, ofs, num
<1>7. CASE ~(ofs < num)
  <2>1. ofs - num \in 0..(Cardinality(all \cap bb) - 1)
    <3>1. Cardinality(all) = num + Cardinality(all \cap bb) /\ Cardinality(all) \in Int
      BY <1>1, <1>2, <1>3
    <3> QED  BY <1>3, <1>4, <1>7, <3>1
  <2>2. \E b \in all \cap bb : Below(all \cap bb, b) = ofs - num
    <3>1. (all \cap bb) \in SUBSET Int
      BY <1>2
    <3> QED  BY <1>3, <2>1, <3>1, RankExists
  <2> QED  BY <1>3, <1>4, <1>5, <1>7, <2>2 DEF all, ofs, num
<1> QED  BY <1>6, <1>7

\* The range of a logical block is the one that it lies in.
LEMMA RangeFacts ==
    ASSUME NEW lb \in Logical, InRange(lb)
    PROVE  /\ RangeOf(lb) \in Ranges /\ RangeOf(lb)[1] <= lb /\ lb < RangeOf(lb)[2]
           /\ BlocksOf(RangeOf(lb)) \subseteq Logical
           /\ \A b \in Logical :
                 b \in BlocksOf(RangeOf(lb)) => InRange(b) /\ RangeOf(b) = RangeOf(lb)
<1>1. \E r \in Ranges : r[1] <= lb /\ lb < r[2]
  BY DEF InRange
<1>2. RangeOf(lb) \in Ranges /\ RangeOf(lb)[1] <= lb /\ lb < RangeOf(lb)[2]
  BY <1>1 DEF RangeOf
<1>3. BlocksOf(RangeOf(lb)) \subseteq Logical
  BY <1>2, SizeAssumption, RangeAssumption DEF BlocksOf, Logical
<1>4. ASSUME NEW b \in Logical, b \in BlocksOf(RangeOf(lb))
      PROVE  InRange(b) /\ RangeOf(b) = RangeOf(lb)
  <2>1. /\ b \in Int /\ RangeOf(lb)[1] \in Int /\ RangeOf(lb)[2] \in Int
        /\ RangeOf(lb)[1] <= b /\ b < RangeOf(lb)[2]
    BY <1>2, <1>4, SizeAssumption, RangeAssumption DEF BlocksOf, Logical
  <2>2. InRange(b) /\ RangeOf(b) \in Ranges /\ RangeOf(b)[1] <= b /\ b < RangeOf(b)[2]
    <3>1. \E r \in Ranges : r[1] <= b /\ b < r[2]
      BY <1>2, <2>1
    <3> QED  BY <3>1 DEF InRange, RangeOf
  <2>3. RangeOf(b)[1] \in Int /\ RangeOf(b)[2] \in Int
    BY <2>2, SizeAssumption, RangeAssumption DEF Logical
  <2> QED  BY <1>2, <2>1, <2>2, <2>3, RangeAssumption
<1> QED  BY <1>2, <1>3, <1>4

\* Whatever is marked bad, the mapping permutes the blocks of each range and leaves the others.
LEMMA MappedFacts ==
    ASSUME NEW bb, NEW lb \in Logical
    PROVE  /\ Mapped(bb, lb) \in Logical
           /\ InRange(lb) => Mapped(bb, lb) \in BlocksOf(RangeOf(lb))
           /\ ~InRange(lb) => Mapped(bb, lb) = lb
           /\ \A x \in Logical : Mapped(bb, x) = Mapped(bb, lb) => x = lb
<1>1. ASSUME NEW x \in Logical, InRange(x)
      PROVE  Mapped(bb, x) \in BlocksOf(RangeOf(x)) /\ Mapped(bb, x) \in Logical
  <2>1. RangeOf(x) \in Ranges /\ RangeOf(x)[1] <= x /\ x < RangeOf(x)[2]
    BY <1>1, RangeFacts
  <2>2. Mapped(bb, x) \in BlocksOf(RangeOf(x))
    BY <2>1, MappedInRange
  <2> QED  BY <1>1, <2>2, RangeFacts
<1>2. ASSUME NEW x \in Logical, ~InRange(x) PROVE Mapped(bb, x) = x
  BY <1>2 DEF Mapped
<1>3. ASSUME NEW x \in Logical, Mapped(bb, x) = Mapped(bb, lb) PROVE x = lb
  <2>1. CASE ~InRange(x) /\ ~InRange(lb)
    BY <1>2, <1>3, <2>1
  <2>2. CASE InRange(x) /\ ~InRange(lb)
    BY <1>1, <1>2, <1>3, <2>2, RangeFacts
  <2>3. CASE ~InRange(x) /\ InRange(lb)
    BY <1>1, <1>2, <1>3, <2>3, RangeFacts
  <2>4. CASE InRange(x) /\ InRange(lb)
    <3> DEFINE r == RangeOf(lb)
               all == BlocksOf(r)
               num == Cardinality(all \ bb)
    <3>1. RangeOf(x) = r
      <4>1. Mapped(bb, x) \in Logical /\ Mapped(bb, x) \in BlocksOf(RangeOf(x))
            /\ Mapped(bb, x) \in BlocksOf(r)
        BY <1>1, <1>3, <2>4
      <4>2. RangeOf(Mapped(bb, x)) = RangeOf(x)
        BY <2>4, <4>1, RangeFacts
      <4>3. RangeOf(Mapped(bb, x)) = r
        BY <2>4, <4>1, RangeFacts
      <4> QED  BY <4>2, <4>3
    <3>2. /\ r \in Ranges /\ r[1] <= lb /\ lb < r[2] /\ r[1] <= x /\ x < r[2]
          /\ r[1] \in Int /\ lb \in Int /\ x \in Int
      BY <2>4, <3>1, RangeFacts, SizeAssumption, RangeAssumption DEF Logical
    <3> HIDE DEF r
    <3>3. /\ num \in Nat
          /\ lb - r[1] < num => /\ Mapped(bb, lb) \in all \ bb
                                /\ Below(all \ bb, Mapped(bb, lb)) = lb - r[1]
          /\ ~(lb - r[1] < num) => /\ Mapped(bb, lb) \in all \cap bb
                                   /\ Below(all \cap bb, Mapped(bb, lb)) = lb - r[1] - num
      BY <3>2, MappedInRange DEF r
    <3>4. /\ x - r[1] < num => /\ Mapped(bb, x) \in all \ bb
                               /\ Below(all \ bb, Mapped(bb, x)) = x - r[1]
          /\ ~(x - r[1] < num) => /\ Mapped(bb, x) \in all \cap bb
                                  /\ Below(all \cap bb, Mapped(bb, x)) = x - r[1] - num
      BY <3>1, <3>2, MappedInRange
    <3> HIDE DEF num, all
    <3> QED  BY <1>3, <3>2, <3>3, <3>4
  <2> QED  BY <2>1, <2>2, <2>3, <2>4
<1> QED  BY <1>1, <1>2, <1>3

\* So the running driver maps one to one, and never to a block behind those of the users.
LEMMA AtFacts ==
    \A lb \in Logical : /\ At(lb) \in Logical /\ At(lb) \in Blocks
                        /\ InRange(lb) => At(lb) \in BlocksOf(RangeOf(lb))
                        /\ \A x \in Logical : At(x) = At(lb) => x = lb
<1>1. Logical \subseteq Blocks
  BY SizeAssumption DEF Logical, Blocks
<1> QED  BY <1>1, MappedFacts DEF At

\* What blocks hold: the kinds are told apart, and a table says what is bad.
LEMMA ContentFacts ==
    /\ Erased \in Contents /\ Torn \in Contents
    /\ \A lb \in Logical : /\ Data(lb) \in Contents /\ Data(lb).k # "table"
                           /\ Data(lb) # Torn /\ Data(lb) # Erased
    /\ \A bb \in SUBSET Blocks : /\ Table(bb) \in Contents /\ Table(bb).k = "table"
                                 /\ Table(bb).bad = bb
    /\ \A c \in Contents : c.k = "table" => c.bad \subseteq Blocks /\ c = Table(c.bad)
    /\ Erased.k # "table" /\ Torn.k # "table"
<1>1. \A lb \in Logical : Data(lb).k = "data"
  BY DEF Data
<1>2. Erased.k = "erased" /\ Torn.k = "torn"
  BY DEF Erased, Torn
<1>3. \A lb \in Logical : Data(lb) # Torn /\ Data(lb) # Erased
  BY <1>1, <1>2
<1>4. \A bb \in SUBSET Blocks : /\ Table(bb).k = "table" /\ Table(bb).bad = bb
  BY DEF Table
<1>5. \A c \in Contents : c.k = "table" => c.bad \subseteq Blocks /\ c = Table(c.bad)
  BY <1>1, <1>2, <1>4 DEF Contents
<1> QED  BY <1>1, <1>2, <1>3, <1>4, <1>5 DEF Contents

\* The sizes of the parts of the chip.
LEMMA SizeFacts ==
    /\ Logical \subseteq Blocks /\ Scanned \subseteq Blocks /\ 0 \in Logical /\ TotalBlks \in Int
    /\ TotalBlks - 1 \in Scanned /\ TotalBlks - 1 \notin Logical
    /\ \A b \in Scanned : b \in Int /\ b <= TotalBlks - 1
    /\ Signed \subseteq Scanned
BY SizeAssumption DEF Logical, Blocks, Scanned, Signed

\* The budget of faults stays a number.
LEMMA FaultTypes == TypeOK /\ (Fault \/ UNCHANGED faults) => faults' \in 0..MaxFaults
BY BoundAssumption DEF TypeOK, Fault

----------------------------------------------------------------------------
(* Steps.                                                                   *)

\* A request that changes the table begins: what it does not move stays where it is by the new table
\* as well, and what it moves is where it was.
Starts ==
    /\ pc = "ready" /\ pc' = "save_erase" /\ UNCHANGED <<cells, marked, spoiled, cuts>>
    /\ Fault \/ UNCHANGED faults
    /\ bad' \subseteq Blocks /\ home' \in Scanned \ Logical /\ home <= home'
    /\ req' \in [kind : Kinds, lb : Logical, src : Logical, copy : BOOLEAN]
    /\ kept' \subseteq kept
    /\ \A x \in kept' : IF x = req'.lb /\ req'.kind # "debug"
                        THEN /\ req'.src = At(x) /\ req'.copy
                             /\ req'.kind \in {"remap", "mark"} => req'.src # Mapped(bad', x)
                             /\ req'.kind = "unmap" => req'.src = Mapped(bad', x)
                        ELSE Mapped(bad', x) = At(x)

\* A request that changes the table keeps the invariant, whatever it is.
LEMMA StartStep == ASSUME IInv, Starts PROVE IInv'
<1>1. /\ TypeOK /\ pc = "ready" /\ pc' = "save_erase" /\ UNCHANGED <<cells, marked, spoiled, cuts>>
      /\ home' \in Scanned \ Logical /\ home <= home' /\ home \in Int
      /\ kept' \subseteq kept /\ req'.src \in Logical
  BY SizeFacts DEF IInv, Starts, TypeOK
<1>2. TypeOK'
  BY <1>1, FaultTypes, SizeFacts DEF Starts, TypeOK, Labels
<1>3. Placed'
  BY <1>1 DEF IInv, Placed
<1>4. Topmost' /\ Written'
  <2>1. Signed' = Signed
    BY <1>1 DEF Signed
  <2>2. \A x \in Signed : x <= home'
    BY <1>1, SizeFacts DEF IInv, Topmost
  <2> QED  BY <1>1, <2>1, <2>2 DEF Topmost, Written
<1>5. \A x \in kept : cells[At(x)] = Data(x)
  BY <1>1 DEF IInv, Resting, Moves, Busy
<1>6. Resting' /\ Moving'
  BY <1>1, <1>5 DEF Starts, Resting, Moving, Moves, Busy, At
<1> QED  BY <1>2, <1>3, <1>4, <1>6 DEF IInv

\* remap_block_bbt: the old block is marked bad, so the new one is another.
LEMMA RemapStarts ==
    ASSUME IInv, NEW kind \in {"remap", "mark"}, NEW lb \in Logical, NEW copy \in BOOLEAN,
           pc = "ready", Remap(kind, lb, copy), UNCHANGED <<flash, spoiled, cuts>>,
           Fault \/ UNCHANGED faults, copy \/ lb \notin kept
    PROVE  IInv'
<1>1. /\ bad' = bad \cup {At(lb)} /\ kept' = KeptWith(bad', lb) /\ pc' = "save_erase"
      /\ req' = [kind |-> kind, lb |-> lb, src |-> At(lb), copy |-> copy] /\ home' = home
  BY DEF Remap
<1>2. /\ At(lb) \in Logical /\ At(lb) \in Blocks /\ TypeOK /\ home \notin Logical
      /\ home \in Scanned /\ home \in Int
  BY AtFacts, SizeFacts DEF IInv, Placed, TypeOK
<1>3. req'.kind = kind /\ req'.lb = lb /\ req'.src = At(lb) /\ req'.copy = copy
  BY <1>1
<1>4. \A x \in kept' : /\ x \in kept
                       /\ x = lb => Mapped(bad', x) \notin bad'
                       /\ x # lb => Mapped(bad', x) = At(x)
  BY <1>1 DEF KeptWith
<1>5. At(lb) \in bad'
  BY <1>1
<1>6. Starts
  BY <1>1, <1>2, <1>3, <1>4, <1>5 DEF Starts, flash, TypeOK, Kinds
<1> QED  BY <1>6, StartStep

\* debugfs mark_good and repair.
LEMMA UnmapStep ==
    ASSUME IInv, NEW lb \in Logical, NEW kind \in {"unmap", "repair"}, Unmap(lb, kind)
    PROVE  IInv'
<1>1. /\ bad' = bad \ {lb} /\ pc = "ready" /\ pc' = "save_erase" /\ Fault
      /\ req' = [kind |-> kind, lb |-> lb, src |-> At(lb), copy |-> TRUE]
      /\ kept' = {x \in kept : (x = lb /\ kind = "repair") \/ Mapped(bad', x) = At(x)}
      /\ UNCHANGED <<flash, home, spoiled, cuts>>
  BY DEF Unmap
<1>2. /\ At(lb) \in Logical /\ TypeOK /\ home \notin Logical
      /\ home \in Scanned /\ home \in Int
  BY AtFacts, SizeFacts DEF IInv, Placed, TypeOK
<1>3. req'.kind = kind /\ req'.lb = lb /\ req'.src = At(lb) /\ req'.copy = TRUE
  BY <1>1
<1>4. Starts
  BY <1>1, <1>2, <1>3 DEF Starts, flash, TypeOK, Kinds
<1> QED  BY <1>4, StartStep

\* debugfs "debug", 100: to the last block, behind which no table lies.
LEMMA MoveTableStep == ASSUME IInv, MoveTable PROVE IInv'
<1>1. /\ req' = [NoReq EXCEPT !.kind = "debug"] /\ home' = TotalBlks - 1
      /\ pc = "ready" /\ pc' = "save_erase" /\ Fault
      /\ UNCHANGED <<flash, bad, kept, spoiled, cuts>>
  BY DEF MoveTable
<1>2. req' = [kind |-> "debug", lb |-> 0, src |-> 0, copy |-> FALSE]
  BY <1>1 DEF NoReq
<1>3. TypeOK /\ home \in Scanned
  BY DEF IInv, TypeOK
<1>4. req'.kind = "debug" /\ req' \in [kind : Kinds, lb : Logical, src : Logical, copy : BOOLEAN]
  BY <1>2, SizeFacts DEF Kinds
<1>5. home' \in Scanned \ Logical /\ home <= home' /\ bad' \subseteq Blocks
  BY <1>1, <1>3, SizeFacts DEF TypeOK
<1>6. \A x \in kept' : Mapped(bad', x) = At(x)
  BY <1>1 DEF At
<1>7. Starts
  BY <1>1, <1>4, <1>5, <1>6 DEF Starts, flash
<1> QED  BY <1>7, StartStep

\* A write to one block of the users, of its own data or none.
LEMMA UserStep ==
    ASSUME IInv, pc = "ready", NEW b \in Logical, NEW c \in Contents, c.k # "table",
           cells' = [cells EXCEPT ![b] = c], Fault \/ UNCHANGED faults,
           UNCHANGED <<marked, mem, pc, req, spoiled, cuts>>, kept' \subseteq Logical,
           \A x \in kept' : IF At(x) = b THEN c = Data(x) ELSE x \in kept
    PROVE  IInv'
<1>1. /\ TypeOK /\ b \in Blocks /\ home \in Blocks /\ home # b
      /\ UNCHANGED <<marked, bad, home, pc, req, spoiled, cuts>>
  BY SizeFacts DEF IInv, TypeOK, Placed, mem
<1>2. /\ cells' \in [Blocks -> Contents] /\ cells'[b] = c
      /\ \A x \in Blocks : x # b => cells'[x] = cells[x]
  BY <1>1 DEF TypeOK
<1>3. TypeOK'
  BY <1>1, <1>2, FaultTypes DEF TypeOK
<1>4. Placed'
  BY <1>1, <1>2 DEF IInv, Placed
<1>5. Signed' \subseteq Signed
  BY <1>1, <1>2, SizeFacts DEF Signed
<1>6. Topmost' /\ Written'
  BY <1>1, <1>2, <1>5 DEF IInv, Topmost, Written
<1>7. Resting' /\ Moving'
  BY <1>1, <1>2, AtFacts DEF IInv, TypeOK, Resting, Moving, Moves, Busy, At
<1> QED  BY <1>3, <1>4, <1>6, <1>7 DEF IInv

\* A request that only marks a block.
LEMMA MarkOnlyStep ==
    ASSUME IInv, NEW lb \in Logical, MarkBad(lb), ~InRange(lb)
    PROVE  IInv'
<1>1. /\ TypeOK /\ pc = "ready" /\ pc' = "mark_src" /\ Fault
      /\ req' = [kind |-> "mark", lb |-> lb, src |-> lb, copy |-> FALSE]
      /\ kept' = kept \ {lb} /\ UNCHANGED <<cells, marked, bad, home, spoiled, cuts>>
  BY DEF IInv, MarkBad, flash, mem
<1>2. TypeOK'
  BY <1>1, FaultTypes, SizeFacts DEF TypeOK, Labels, Kinds
<1>3. Placed' /\ Topmost' /\ Written' /\ Resting' /\ Moving'
  BY <1>1 DEF IInv, Placed, Topmost, Written, Resting, Moving, Moves, Busy, Signed, Found, At
<1> QED  BY <1>2, <1>3 DEF IInv

\* A request marks the block that it leaves, or that the user named.
LEMMA MarkSrcStep == ASSUME IInv, MarkSrc PROVE IInv'
<1>1. /\ TypeOK /\ pc = "mark_src" /\ pc' = "ready" /\ marked' = marked \cup {req.src}
      /\ UNCHANGED <<cells, bad, home, req, kept, spoiled, faults, cuts>>
  BY DEF IInv, MarkSrc, mem
<1>2. TypeOK'
  BY <1>1 DEF TypeOK, Labels
<1>3. Placed'
  BY <1>1 DEF IInv, Placed
<1>4. Topmost' /\ Written' /\ Resting' /\ Moving'
  BY <1>1 DEF IInv, Topmost, Written, Resting, Moving, Moves, Busy, Signed, Found, At
<1> QED  BY <1>2, <1>3, <1>4 DEF IInv

\* A start finds the table that was in use, unless the data is not kept anyway.
LEMMA AttachStep == ASSUME IInv, Attach PROVE IInv'
<1>1. /\ TypeOK /\ pc = "off" /\ UNCHANGED <<cells, marked, req, kept, spoiled, faults, cuts>>
  BY DEF IInv, Attach, flash
<1>2. ASSUME NEW b \in Scanned, Found(b), home' = b, bad' = cells[b].bad, pc' = "ready" PROVE IInv'
  <2>1. b \in Blocks /\ cells[b].k = "table" /\ cells[b] \in Contents
    BY <1>1, <1>2, SizeFacts DEF Found, Signed, TypeOK
  <2>2. bad' \subseteq Blocks /\ cells[b] = Table(bad')
    BY <1>2, <2>1, ContentFacts
  <2>3. TypeOK'
    BY <1>1, <1>2, <2>2 DEF TypeOK, Labels
  <2>4. Placed'
    BY <1>1, <1>2, <2>1 DEF IInv, Placed
  <2>5. Topmost' /\ Written'
    BY <1>1, <1>2, <2>2 DEF Topmost, Written, Found, Signed
  <2>6. kept # {} => bad' = bad
    <3> SUFFICES ASSUME kept # {} PROVE bad' = bad
      OBVIOUS
    <3>1. Found(home) /\ cells[home] = Table(bad)
      BY <1>1 DEF IInv, Written
    <3>2. home = b
      BY <1>1, <1>2, <3>1, SizeFacts DEF Found, TypeOK
    <3> QED  BY <1>1, <1>2, <3>1, <3>2, ContentFacts DEF TypeOK
  <2>7. Resting' /\ Moving'
    BY <1>1, <1>2, <2>6 DEF IInv, Resting, Moving, Moves, Busy, At
  <2> QED  BY <2>3, <2>4, <2>5, <2>7 DEF IInv
<1>3. CASE pc' = "plain" /\ UNCHANGED mem
  <2>1. TypeOK'
    BY <1>1, <1>3 DEF TypeOK, Labels, mem
  <2>2. Placed' /\ Topmost' /\ Written' /\ Resting' /\ Moving'
    BY <1>1, <1>3 DEF IInv, Placed, Topmost, Written, Resting, Moving, Moves, Busy, At, mem
  <2> QED  BY <2>1, <2>2 DEF IInv
<1> QED  BY <1>2, <1>3 DEF Attach

\* What a cut leaves is known when no request was under way and the table was saved.
LEMMA CutStep == ASSUME IInv, Cut PROVE IInv'
<1>1. /\ TypeOK /\ pc \notin {"off", "plain"} /\ cuts > 0 /\ cuts' = cuts - 1 /\ pc' = "off"
      /\ req' = NoReq /\ kept' = (IF pc = "ready" /\ spoiled = {} THEN kept ELSE {})
      /\ spoiled' = (IF pc = "save_write" THEN spoiled \cup {"cut"} ELSE spoiled)
      /\ UNCHANGED <<cells, marked, bad, home, faults>>
  BY DEF IInv, Cut, flash, mem
<1>2. req' = [kind |-> "remap", lb |-> 0, src |-> 0, copy |-> FALSE]
  BY <1>1 DEF NoReq
<1>3. TypeOK'
  <2>1. cuts' \in 0..MaxCuts
    BY <1>1, BoundAssumption DEF TypeOK
  <2> QED  BY <1>1, <1>2, <2>1, SizeFacts DEF TypeOK, Labels, Kinds
<1>4. Placed'
  BY <1>1, <1>2, SizeFacts DEF IInv, Placed
<1>5. Topmost' /\ Written'
  <2>1. Signed' = Signed
    BY <1>1 DEF Signed
  <2>2. kept' # {} => Found(home) /\ cells[home] = Table(bad)
    <3> SUFFICES ASSUME kept' # {} PROVE Found(home) /\ cells[home] = Table(bad)
      OBVIOUS
    <3>1. pc = "ready" /\ spoiled = {} /\ cells[home] = Table(bad)
      BY <1>1 DEF IInv, Written
    <3>2. home \in Signed
      BY <1>1, <3>1, ContentFacts DEF IInv, Placed, TypeOK, Signed
    <3> QED  BY <1>1, <3>1, <3>2 DEF IInv, Topmost, Found
  <2>3. Found(home)' <=> Found(home)
    BY <1>1, <2>1 DEF Found
  <2> QED  BY <1>1, <2>2, <2>3 DEF Topmost, Written
<1>6. Resting' /\ Moving'
  BY <1>1 DEF IInv, Resting, Moving, Moves, Busy, At
<1> QED  BY <1>3, <1>4, <1>5, <1>6 DEF IInv

\* The table is written to its block, which holds no data.
LEMMA SaveEraseStep == ASSUME IInv, SaveErase PROVE IInv'
<1>1. /\ TypeOK /\ pc = "save_erase" /\ pc' = "save_write"
      /\ UNCHANGED <<marked, bad, home, req, kept, cuts>>
      /\ home \in Blocks /\ home \notin Logical
      /\ \/ cells' = [cells EXCEPT ![home] = Erased] /\ UNCHANGED <<spoiled, faults>>
         \/ Fault /\ spoiled' = spoiled \cup {"fault"} /\ UNCHANGED cells
  BY SizeFacts DEF IInv, SaveErase, mem, TableFault, TypeOK, Placed
<1>2. /\ cells' \in [Blocks -> Contents]
      /\ \A b \in Blocks : b # home => cells'[b] = cells[b]
      /\ cells'[home] \in {Erased, cells[home]}
  BY <1>1, ContentFacts DEF TypeOK
<1>3. TypeOK'
  BY <1>1, <1>2, FaultTypes DEF TypeOK, Labels
<1>4. Placed'
  BY <1>1, <1>2 DEF IInv, Placed
<1>5. Topmost' /\ Written'
  <2>1. Signed' \subseteq Signed
    BY <1>1, <1>2, ContentFacts, SizeFacts DEF Signed
  <2> QED  BY <1>1, <2>1 DEF IInv, Topmost, Written
<1>6. \A lb \in Logical : cells'[At(lb)] = cells[At(lb)] /\ cells'[lb] = cells[lb]
  BY <1>1, <1>2, AtFacts, SizeFacts
<1>7. kept \subseteq Logical /\ req.src \in Logical
  BY <1>1 DEF IInv, TypeOK, Placed
<1>8. Resting' /\ Moving'
  BY <1>1, <1>6, <1>7 DEF IInv, Resting, Moving, Moves, Busy, At
<1> QED  BY <1>3, <1>4, <1>5, <1>8 DEF IInv

\* The table is written: from here on a start finds it.
LEMMA SaveWriteStep == ASSUME IInv, SaveWrite PROVE IInv'
<1>1. /\ TypeOK /\ pc = "save_write" /\ pc' = AfterSave
      /\ UNCHANGED <<marked, bad, home, req, kept, cuts>>
      /\ home \in Blocks /\ home \notin Logical
      /\ \/ cells' = [cells EXCEPT ![home] = Table(bad)] /\ UNCHANGED <<spoiled, faults>>
         \/ /\ Fault /\ spoiled' = spoiled \cup {"fault"}
            /\ cells' = [cells EXCEPT ![home] = Torn]
  BY SizeFacts DEF IInv, SaveWrite, mem, TableFault, TypeOK, Placed
<1>2. /\ cells' \in [Blocks -> Contents]
      /\ \A b \in Blocks : b # home => cells'[b] = cells[b]
      /\ spoiled' = {} => cells'[home] = Table(bad)
  BY <1>1, ContentFacts DEF TypeOK
<1>3. /\ req.kind \in {"remap", "mark"} => pc' = "erase_new"
      /\ req.kind = "repair" /\ At(req.lb) # req.src => pc' = "erase_new"
      /\ req.kind = "repair" /\ At(req.lb) = req.src => pc' = "ready"
      /\ req.kind \in {"unmap", "debug"} => pc' = "ready"
      /\ req.kind \in Kinds /\ pc' \in {"ready", "erase_new"}
  BY <1>1 DEF AfterSave, TypeOK, Kinds
<1>4. TypeOK'
  BY <1>1, <1>2, <1>3, FaultTypes DEF TypeOK, Labels
<1>5. Placed'
  BY <1>1, <1>2, <1>3 DEF IInv, Placed, Kinds
<1>6. Topmost' /\ Written'
  <2>1. Signed' \subseteq Signed \cup {home}
    BY <1>1, <1>2, SizeFacts DEF Signed
  <2>2. \A x \in Signed : x <= home
    BY <1>1 DEF IInv, Topmost
  <2>3. home \in Int
    BY <1>1, SizeFacts DEF TypeOK
  <2> QED  BY <1>1, <1>2, <1>3, <2>1, <2>2, <2>3 DEF Topmost, Written
<1>7. \A lb \in Logical : cells'[At(lb)] = cells[At(lb)] /\ cells'[lb] = cells[lb]
  BY <1>1, <1>2, AtFacts, SizeFacts
<1>8. kept \subseteq Logical /\ req.src \in Logical
  BY <1>1 DEF IInv, TypeOK, Placed
<1>9. Resting' /\ Moving'
  BY <1>1, <1>3, <1>7, <1>8 DEF IInv, Resting, Moving, Moves, Busy, At, Kinds
<1> QED  BY <1>4, <1>5, <1>6, <1>9 DEF IInv

\* The new block of the request is erased and written, and is nobody else's.
LEMMA NewBlockStep ==
    ASSUME IInv, TypeOK', pc \in {"erase_new", "copy_new"},
           UNCHANGED <<marked, bad, home, req, spoiled>>,
           \A b \in Blocks : b # At(req.lb) => cells'[b] = cells[b],
           cells'[At(req.lb)].k # "table", pc' \in {"ready", "copy_new", "mark_src"},
           kept' \in {kept, kept \ {req.lb}},
           req.lb \in kept' =>
              IF pc' = "copy_new" THEN cells'[At(req.lb)] = Erased
                                  ELSE cells'[At(req.lb)] = Data(req.lb)
    PROVE  IInv'
<1>1. /\ TypeOK /\ home \in Blocks /\ home \notin Logical /\ req.lb \in Logical
      /\ req.src \in Logical /\ req.src \in Blocks /\ At(req.lb) \in Logical
      /\ req.kind \in {"remap", "mark", "repair"} /\ kept \subseteq Logical
  BY AtFacts, SizeFacts DEF IInv, TypeOK, Placed
<1>2. Placed'
  BY <1>1 DEF IInv, Placed
<1>3. Topmost' /\ Written'
  <2>1. Signed' \subseteq Signed
    BY <1>1, AtFacts, SizeFacts DEF Signed
  <2> QED  BY <1>1, <2>1 DEF IInv, Topmost, Written
<1>4. \A x \in Logical : x # req.lb => cells'[At(x)] = cells[At(x)]
  BY <1>1, AtFacts
<1>5. Resting'
  BY <1>1, <1>4 DEF IInv, Resting, Moves, Busy, At
<1>6. Moving'
  BY <1>1 DEF IInv, Moving, Moves, Busy, At
<1> QED  BY <1>2, <1>3, <1>5, <1>6 DEF IInv

\* The copy begins: the new block is erased.
LEMMA EraseNewStep == ASSUME IInv, EraseNew PROVE IInv'
<1>1. /\ TypeOK /\ pc = "erase_new" /\ UNCHANGED <<marked, bad, home, req, spoiled, cuts>>
      /\ \/ cells' = [cells EXCEPT ![At(req.lb)] = Erased] /\ UNCHANGED <<kept, faults>>
         \/ Fault /\ kept' = kept \ {req.lb} /\ UNCHANGED cells
      /\ pc' = IF req.copy THEN "copy_new" ELSE AfterNew
  BY DEF IInv, EraseNew, mem
<1>2. req.lb \in Logical /\ At(req.lb) \in Logical /\ At(req.lb) \in Blocks /\ req.copy \in BOOLEAN
  BY <1>1, AtFacts DEF TypeOK
<1>3. /\ cells' \in [Blocks -> Contents]
      /\ \A b \in Blocks : b # At(req.lb) => cells'[b] = cells[b]
      /\ cells'[At(req.lb)] \in {Erased, cells[At(req.lb)]}
      /\ kept' \in {kept, kept \ {req.lb}}
      /\ req.lb \in kept' => cells'[At(req.lb)] = Erased
  BY <1>1, <1>2, ContentFacts DEF TypeOK
<1>4. pc' \in {"ready", "copy_new", "mark_src"}
  BY <1>1 DEF AfterNew
<1>5. TypeOK'
  BY <1>1, <1>3, <1>4, FaultTypes DEF TypeOK, Labels
<1>6. cells'[At(req.lb)].k # "table"
  BY <1>2, <1>3, ContentFacts DEF IInv, Placed
<1>7. req.lb \in kept' => pc' = "copy_new"
  BY <1>1, <1>3 DEF IInv, Moving, Moves, Busy, Placed
<1> QED  BY <1>1, <1>3, <1>4, <1>5, <1>6, <1>7, NewBlockStep

\* The copy ends: the data of the old block is in the new one.
LEMMA CopyNewStep == ASSUME IInv, CopyNew PROVE IInv'
<1> DEFINE new == At(req.lb)
           result == IF cells[new] # Erased THEN Torn
                     ELSE IF cells[req.src] = Torn THEN Erased ELSE cells[req.src]
<1>1. /\ TypeOK /\ pc = "copy_new" /\ UNCHANGED <<marked, bad, home, req, spoiled, cuts>>
      /\ \/ cells' = [cells EXCEPT ![new] = result] /\ UNCHANGED <<kept, faults>>
         \/ Fault /\ cells' = [cells EXCEPT ![new] = Torn] /\ kept' = kept \ {req.lb}
      /\ pc' = AfterNew
  BY DEF IInv, CopyNew, mem
<1>2. /\ req.lb \in Logical /\ new \in Logical /\ new \in Blocks
      /\ req.src \in Logical /\ req.src \in Blocks
  BY <1>1, AtFacts, SizeFacts DEF IInv, TypeOK, Placed
<1>3. result \in Contents /\ result.k # "table"
  BY <1>1, <1>2, ContentFacts DEF IInv, TypeOK, Placed
<1>4. req.lb \in kept => result = Data(req.lb)
  BY <1>1, <1>2, ContentFacts DEF IInv, Moving, Moves, Busy, Placed
<1> HIDE DEF result
<1>5. /\ cells' \in [Blocks -> Contents]
      /\ \A b \in Blocks : b # new => cells'[b] = cells[b]
      /\ cells'[new] \in {result, Torn}
      /\ kept' \in {kept, kept \ {req.lb}}
      /\ req.lb \in kept' => cells'[new] = result
  BY <1>1, <1>2, <1>3, ContentFacts DEF TypeOK
<1>6. pc' \in {"ready", "mark_src"}
  BY <1>1 DEF AfterNew
<1>7. TypeOK'
  BY <1>1, <1>5, <1>6, FaultTypes DEF TypeOK, Labels
<1>8. cells'[new].k # "table"
  BY <1>3, <1>5, ContentFacts
<1>9. req.lb \in kept' => cells'[new] = Data(req.lb)
  BY <1>4, <1>5
<1> QED  BY <1>1, <1>5, <1>6, <1>7, <1>8, <1>9, NewBlockStep

----------------------------------------------------------------------------
(* The invariant, and what follows.                                         *)

\* The factory leaves one table and no data of the users.
LEMMA InitInv == Init => IInv
<1> SUFFICES ASSUME Init PROVE IInv
  OBVIOUS
<1>1. /\ home \in Homes /\ bad \in {{}} \cup {{b} : b \in Logical}
      /\ cells = [b \in Blocks |-> IF b = home THEN Table(bad) ELSE Erased]
      /\ marked = {} /\ pc = "ready" /\ kept = {} /\ spoiled = {}
      /\ faults = MaxFaults /\ cuts = MaxCuts
      /\ req = [kind |-> "remap", lb |-> 0, src |-> 0, copy |-> FALSE]
  BY DEF Init, NoReq
<1>2. /\ bad \subseteq Blocks /\ home \in Scanned /\ home \notin Logical
      /\ home \in Blocks /\ home \in Int
  BY <1>1, HomeAssumption, SizeFacts
<1>3. /\ cells \in [Blocks -> Contents] /\ cells[home] = Table(bad)
      /\ \A b \in Blocks : cells[b].k = "table" => b = home
  BY <1>1, <1>2, ContentFacts
<1>4. TypeOK
  BY <1>1, <1>2, <1>3, SizeFacts, BoundAssumption DEF TypeOK, Labels, Kinds
<1>5. Placed
  BY <1>1, <1>2, <1>3, SizeFacts DEF Placed
<1>6. Topmost
  <2>1. \A x \in Signed : x = home
    BY <1>3, SizeFacts DEF Signed
  <2> QED  BY <1>2, <2>1 DEF Topmost
<1>7. Written /\ Resting /\ Moving
  BY <1>1, <1>3 DEF Written, Resting, Moving
<1> QED  BY <1>4, <1>5, <1>6, <1>7 DEF IInv

\* Every step keeps the invariant.
LEMMA StepInv == IInv /\ [Next]_vars => IInv'
<1> SUFFICES ASSUME IInv, [Next]_vars PROVE IInv'
  OBVIOUS
<1> USE DEF IInv
<1>1. TypeOK /\ (pc = "ready" => \A x \in kept : cells[At(x)] = Data(x) /\ x \in Logical)
  BY DEF Resting, Moves, Busy, TypeOK
<1>2. ASSUME NEW lb \in Logical, Erase(lb) PROVE IInv'
  <2>1. At(lb) \in Logical /\ Erased \in Contents /\ Erased.k # "table"
    BY AtFacts, ContentFacts
  <2>2. \A x \in kept' : IF At(x) = At(lb) THEN Erased = Data(x) ELSE x \in kept
    BY <1>1, <1>2, AtFacts DEF Erase
  <2> QED  BY <1>1, <1>2, <2>1, <2>2, UserStep DEF Erase, TypeOK
<1>3. ASSUME NEW lb \in Logical, Write(lb) PROVE IInv'
  <2>1. At(lb) \in Logical /\ Data(lb) \in Contents /\ Data(lb).k # "table"
    BY AtFacts, ContentFacts
  <2>2. \A x \in kept' : IF At(x) = At(lb) THEN Data(lb) = Data(x) ELSE x \in kept
    BY <1>1, <1>3, AtFacts DEF Write
  <2> QED  BY <1>1, <1>3, <2>1, <2>2, UserStep DEF Write, TypeOK
<1>4. ASSUME NEW b \in Blocks, Decay(b) PROVE IInv'
  <2>1. b \in Logical /\ Torn \in Contents /\ Torn.k # "table"
    BY <1>4, ContentFacts, SizeAssumption DEF Decay, Blocks, Scanned, Logical
  <2>2. \A x \in kept' : IF At(x) = b THEN Torn = Data(x) ELSE x \in kept
    BY <1>4 DEF Decay
  <2> QED  BY <1>1, <1>4, <2>1, <2>2, UserStep DEF Decay, TypeOK
<1>5. ASSUME NEW lb \in Logical, RemapGood(lb) PROVE IInv'
  BY <1>5, RemapStarts DEF RemapGood
<1>6. ASSUME NEW lb \in Logical, ReadFails(lb) PROVE IInv'
  BY <1>6, RemapStarts DEF ReadFails
<1>7. ASSUME NEW lb \in Logical, EraseOrWriteFails(lb) PROVE IInv'
  BY <1>7, RemapStarts DEF EraseOrWriteFails
<1>8. ASSUME NEW lb \in Logical, MarkBad(lb) PROVE IInv'
  BY <1>8, RemapStarts, MarkOnlyStep DEF MarkBad
<1>9. ASSUME NEW lb \in Logical, IsBad(lb) PROVE IInv'
  BY <1>9, RemapStarts DEF IsBad
<1>10. CASE UNCHANGED vars
  BY <1>10 DEF vars, flash, mem, TypeOK, Placed, Topmost, Written, Resting, Moving, Moves, Found,
               Signed, At
<1> QED  BY <1>2, <1>3, <1>4, <1>5, <1>6, <1>7, <1>8, <1>9, <1>10, UnmapStep, AttachStep, CutStep,
            MoveTableStep, SaveEraseStep, SaveWriteStep, EraseNewStep, CopyNewStep, MarkSrcStep
         DEF Next

\* So it holds in every state of the back end.
LEMMA Invariant == Spec => []IInv
BY InitInv, StepInv, PTL DEF Spec

\* The variables hold what struct bmt_desc and the chip can hold.
THEOREM TableTypes == Spec => []TypeOK
BY Invariant, PTL DEF IInv

\* Whatever is marked bad, the logical blocks of a range share no block and stay within it
\* (get_mapping_block_index_bbt).
THEOREM MappingAlwaysPermutes == Spec => []MappingPermutes
<1>1. MappingPermutes
  BY AtFacts DEF MappingPermutes
<1> QED  BY <1>1, PTL

\* A remap costs the data of those blocks only that it moves along (remap_block_bbt,
\* mtk_bmt_debug_repair).
THEOREM DataAlwaysStays == Spec => []DataStays
<1>1. IInv => DataStays
  BY DEF IInv, Resting, Moves, Busy, DataStays
<1> QED  BY <1>1, Invariant, PTL

\* A start finds the table that the driver works with, in the block where it last wrote it.
THEOREM TableIsSaved == Spec => []TableSaved
<1>1. IInv => TableSaved
  <2> SUFFICES ASSUME IInv, pc = "ready", spoiled = {} PROVE Found(home) /\ cells[home].bad = bad
    BY DEF TableSaved
  <2>1. cells[home] = Table(bad) /\ bad \in SUBSET Blocks
    BY DEF IInv, Written, TypeOK
  <2>2. cells[home].k = "table" /\ cells[home].bad = bad
    BY <2>1, ContentFacts
  <2> QED  BY <2>2 DEF IInv, TypeOK, Placed, Topmost, Found, Signed
<1> QED  BY <1>1, Invariant, PTL
=============================================================================
