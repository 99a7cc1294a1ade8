---------------------------- MODULE BMTv2_proofs ----------------------------
(***************************************************************************)
(* What BMT v2 keeps, for every size of the chip and of the pool, every set *)
(* of factory marks, and any number of faults and power cuts: that no two   *)
(* logical blocks share a physical one, that the table is never written     *)
(* over data, and that the driver, and a start after a power cut, find the  *)
(* data.                                                                    *)
(*                                                                          *)
(* The two tables that a scan of the chip builds are sequences of good      *)
(* blocks, each found behind the one before; what the invariant says of     *)
(* them is shown by induction on the index, as a fact about the set of the  *)
(* indices for which it holds.                                              *)
(***************************************************************************)
EXTENDS BMTv2, NaturalsInduction, WellFoundedInduction, TLAPS

----------------------------------------------------------------------------
(* Induction.                                                               *)

\* A set of numbers has a least one.
LEMMA Least == ASSUME NEW T \in SUBSET Nat, T # {} PROVE \E x \in T : \A y \in T : x <= y
<1>1. PICK x \in T : \A y \in T : ~(<<y, x>> \in OpToRel(<, Nat))
  BY NatLessThanWellFounded, WFMin
<1>2. \A y \in T : ~(y < x)
  BY <1>1 DEF OpToRel
<1> QED  BY <1>2

\* A set that has 0 and with every number the next one has all.
LEMMA Induction ==
    ASSUME NEW S, 0 \in S, \A k \in Nat : k \in S => k + 1 \in S
    PROVE  Nat \subseteq S
<1> SUFFICES ASSUME Nat \ S # {} PROVE FALSE
  OBVIOUS
<1>1. PICK x \in Nat \ S : \A y \in Nat \ S : x <= y
  BY Least
<1>2. x # 0 /\ x - 1 \in Nat /\ x - 1 \in S
  BY <1>1
<1> QED  BY <1>1, <1>2

\* The sequences of N steps, each of which is taken where the one before has led to.
Runs(N, D, first, next) ==
    {f \in [0..N -> D] : f[0] = first /\ \A i \in 1..N : f[i] = next[f[i - 1]]}

\* A step can be repeated.
LEMMA Repeated ==
    ASSUME NEW N \in Nat, NEW D, NEW first \in D, NEW next \in [D -> D]
    PROVE  Runs(N, D, first, next) # {}
<1> DEFINE S == {k \in Nat : Runs(k, D, first, next) # {}}
<1>1. 0 \in S
  <2>1. [i \in 0..0 |-> first] \in Runs(0, D, first, next)
    BY DEF Runs
  <2> QED  BY <2>1
<1>2. ASSUME NEW k \in Nat, k \in S PROVE k + 1 \in S
  <2>1. PICK f \in Runs(k, D, first, next) : TRUE
    BY <1>2
  <2> DEFINE g == [i \in 0..(k + 1) |-> IF i = k + 1 THEN next[f[k]] ELSE f[i]]
  <2>2. f[k] \in D /\ next[f[k]] \in D
    BY <2>1 DEF Runs
  <2>3. g \in [0..(k + 1) -> D] /\ g[0] = first
    BY <2>1, <2>2 DEF Runs
  <2>4. \A i \in 1..(k + 1) : g[i] = next[g[i - 1]]
    BY <2>1 DEF Runs
  <2> QED  BY <2>3, <2>4 DEF Runs
<1>3. Nat \subseteq S
  <2> HIDE DEF S
  <2> QED  BY <1>1, <1>2, Induction
<1> QED  BY <1>3

----------------------------------------------------------------------------
(* Scanning the chip.                                                       *)

\* The numbers of the blocks.
LEMMA Sizes ==
    /\ TotalBlks \in Nat /\ PoolLba \in Nat /\ PoolLba >= 3 /\ PoolLba <= TotalBlks - 3
    /\ Blocks = 0..(TotalBlks - 1) /\ Logical = 0..(PoolLba - 1) /\ User = 0..(PoolLba - 3)
    /\ User \subseteq Logical /\ Logical \subseteq Blocks /\ Blocks \subseteq Nat
    /\ 0 \in Blocks /\ 0 \in Logical /\ None \notin Blocks
BY TotalAssumption, PoolAssumption DEF Blocks, Logical, User, None

\* find_valid_block finds a block of the chip that is not before the one it is given, or none.
LEMMA Found ==
    ASSUME NEW b \in Nat, NEW found
    PROVE  /\ FindValid(b, found) \in Blocks
           /\ FindValid(b, found) # 0 =>
                  FindValid(b, found) >= b /\ FindValid(b, found) \notin found
<1> DEFINE Good == {x \in b..(TotalBlks - 1) : x \notin found}
<1>1. CASE \E x \in b..(TotalBlks - 1) : x \notin found /\ x - b <= BbMax
  <2>1. Good \in SUBSET Nat /\ Good # {}
    BY <1>1, Sizes
  <2>2. PICK m \in Good : \A y \in Good : m <= y
    BY <2>1, Least
  <2>3. m \notin found /\ \A y \in b..(m - 1) : y \in found
    BY <2>2, Sizes
  <2>4. \E x \in b..(TotalBlks - 1) : x \notin found /\ \A y \in b..(x - 1) : y \in found
    BY <2>2, <2>3
  <2>5. FindValid(b, found) \in b..(TotalBlks - 1) /\ FindValid(b, found) \notin found
    BY <1>1, <2>4 DEF FindValid
  <2> QED  BY <2>5, Sizes
<1>2. CASE ~ \E x \in b..(TotalBlks - 1) : x \notin found /\ x - b <= BbMax
  BY <1>2, Sizes DEF FindValid
<1> QED  BY <1>1, <1>2

\* scan_bad_blocks: every entry of bb_tbl is found behind the one before it.
LEMMA MapRecurs ==
    ASSUME NEW found
    PROVE  /\ ScannedMap(found) \in [Logical -> Blocks] /\ ScannedMap(found)[0] = 0
           /\ \A lb \in Logical \ {0} :
                  ScannedMap(found)[lb] = FindValid(ScannedMap(found)[lb - 1] + 1, found)
<1> DEFINE next == [x \in Blocks |-> FindValid(x + 1, found)]
           map == ScannedMap(found)
<1>1. next \in [Blocks -> Blocks]
  BY Found, Sizes
<1>2. PICK f \in [0..(PoolLba - 1) -> Blocks] :
          f[0] = 0 /\ \A i \in 1..(PoolLba - 1) : f[i] = next[f[i - 1]]
  <2> DEFINE N == PoolLba - 1
             first == 0
  <2>1. N \in Nat /\ first \in Blocks
    BY <1>1, Sizes
  <2> HIDE DEF next, N, first
  <2>2. next \in [Blocks -> Blocks]
    BY <1>1
  <2>3. Runs(N, Blocks, first, next) # {}
    BY <2>1, <2>2, Repeated
  <2> QED  BY <2>3 DEF Runs, N, first
<1>3. f = [lb \in Logical |-> IF lb = 0 THEN 0 ELSE FindValid(f[lb - 1] + 1, found)]
  <2>1. f \in [Logical -> Blocks]
    BY Sizes
  <2>2. \A lb \in Logical : lb # 0 => lb \in 1..(PoolLba - 1) /\ lb - 1 \in Logical
    BY Sizes
  <2>3. \A lb \in Logical : f[lb] = IF lb = 0 THEN 0 ELSE FindValid(f[lb - 1] + 1, found)
    BY <1>2, <2>1, <2>2
  <2> QED  BY <2>1, <2>3
<1>4. map = [lb \in Logical |-> IF lb = 0 THEN 0 ELSE FindValid(map[lb - 1] + 1, found)]
  BY <1>3 DEF ScannedMap
<1> HIDE DEF map
<1>5. Nat \subseteq {k \in Nat : k \in Logical => map[k] \in Blocks}
  <2> DEFINE S == {k \in Nat : k \in Logical => map[k] \in Blocks}
  <2>1. 0 \in S
    BY <1>4, Sizes
  <2>2. ASSUME NEW k \in Nat, k \in S PROVE k + 1 \in S
    <3> SUFFICES ASSUME k + 1 \in Logical PROVE map[k + 1] \in Blocks
      OBVIOUS
    <3>1. k \in Logical /\ map[k] \in Blocks
      BY <2>2, Sizes
    <3>2. map[k + 1] = FindValid(map[k] + 1, found)
      <4>1. k + 1 # 0 /\ (k + 1) - 1 = k
        OBVIOUS
      <4> QED  BY <1>4, <4>1
    <3> QED  BY <3>1, <3>2, Found, Sizes
  <2> HIDE DEF S
  <2>3. Nat \subseteq S
    BY <2>1, <2>2, Induction
  <2> QED  BY <2>3 DEF S
<1>6. \A lb \in Logical : map[lb] \in Blocks
  BY <1>5, Sizes
<1>7. map \in [Logical -> Blocks] /\ map[0] = 0
  BY <1>4, <1>6, Sizes
<1>8. \A lb \in Logical \ {0} : map[lb] = FindValid(map[lb - 1] + 1, found)
  BY <1>4
<1> QED  BY <1>7, <1>8 DEF map

\* And so is every entry of bmt_tbl, up to the first for which there is no block.
LEMMA PoolRecurs ==
    ASSUME NEW found, NEW pba \in Nat
    PROVE  /\ ScannedPool(pba, found) \in [Blocks -> Blocks]
           /\ ScannedPool(pba, found)[0] = FindValid(pba, found)
           /\ \A i \in Blocks \ {0} :
                  ScannedPool(pba, found)[i] =
                      IF ScannedPool(pba, found)[i - 1] = 0 THEN 0
                      ELSE FindValid(ScannedPool(pba, found)[i - 1] + 1, found)
<1> DEFINE next == [x \in Blocks |-> IF x = 0 THEN 0 ELSE FindValid(x + 1, found)]
           pool == ScannedPool(pba, found)
<1>1. next \in [Blocks -> Blocks] /\ FindValid(pba, found) \in Blocks
  BY Found, Sizes
<1>2. PICK f \in [0..(TotalBlks - 1) -> Blocks] :
          f[0] = FindValid(pba, found) /\ \A i \in 1..(TotalBlks - 1) : f[i] = next[f[i - 1]]
  <2> DEFINE N == TotalBlks - 1
             first == FindValid(pba, found)
  <2>1. N \in Nat /\ first \in Blocks
    BY <1>1, Sizes
  <2> HIDE DEF next, N, first
  <2>2. next \in [Blocks -> Blocks]
    BY <1>1
  <2>3. Runs(N, Blocks, first, next) # {}
    BY <2>1, <2>2, Repeated
  <2> QED  BY <2>3 DEF Runs, N, first
<1>3. f = [i \in Blocks |-> IF i = 0 THEN FindValid(pba, found)
                            ELSE IF f[i - 1] = 0 THEN 0 ELSE FindValid(f[i - 1] + 1, found)]
  <2>1. f \in [Blocks -> Blocks]
    BY Sizes
  <2>2. \A i \in Blocks : i # 0 => i \in 1..(TotalBlks - 1) /\ i - 1 \in Blocks
    BY Sizes
  <2>3. \A i \in Blocks : f[i] = IF i = 0 THEN FindValid(pba, found)
                                ELSE IF f[i - 1] = 0 THEN 0 ELSE FindValid(f[i - 1] + 1, found)
    BY <1>2, <2>1, <2>2
  <2> QED  BY <2>1, <2>3
<1>4. pool = [i \in Blocks |-> IF i = 0 THEN FindValid(pba, found)
                               ELSE IF pool[i - 1] = 0 THEN 0
                               ELSE FindValid(pool[i - 1] + 1, found)]
  BY <1>3 DEF ScannedPool
<1> HIDE DEF pool
<1>5. Nat \subseteq {k \in Nat : k \in Blocks => pool[k] \in Blocks}
  <2> DEFINE S == {k \in Nat : k \in Blocks => pool[k] \in Blocks}
  <2>1. 0 \in S
    BY <1>1, <1>4, Sizes
  <2>2. ASSUME NEW k \in Nat, k \in S PROVE k + 1 \in S
    <3> SUFFICES ASSUME k + 1 \in Blocks PROVE pool[k + 1] \in Blocks
      OBVIOUS
    <3>1. k \in Blocks /\ pool[k] \in Blocks
      BY <2>2, Sizes
    <3>2. pool[k + 1] = IF pool[k] = 0 THEN 0 ELSE FindValid(pool[k] + 1, found)
      <4>1. k + 1 # 0 /\ (k + 1) - 1 = k
        OBVIOUS
      <4> QED  BY <1>4, <4>1
    <3>3. pool[k] \in Nat /\ 0 \in Blocks
      BY <3>1, Sizes
    <3>4. FindValid(pool[k] + 1, found) \in Blocks
      BY <3>3, Found
    <3> QED  BY <3>2, <3>3, <3>4
  <2> HIDE DEF S
  <2>3. Nat \subseteq S
    BY <2>1, <2>2, Induction
  <2> QED  BY <2>3 DEF S
<1>6. \A i \in Blocks : pool[i] \in Blocks
  BY <1>5, Sizes
<1>7. pool \in [Blocks -> Blocks] /\ pool[0] = FindValid(pba, found)
  BY <1>4, <1>6, Sizes
<1>8. \A i \in Blocks \ {0} : pool[i] = IF pool[i - 1] = 0 THEN 0
                                        ELSE FindValid(pool[i - 1] + 1, found)
  BY <1>4
<1> QED  BY <1>7, <1>8 DEF pool

\* When no entry is missing, each is behind the one before it, so behind its own number.
LEMMA MapRises ==
    ASSUME NEW found, \A lb \in 1..(PoolLba - 1) : ScannedMap(found)[lb] # 0
    PROVE  \A lb \in Logical :
               /\ ScannedMap(found)[lb] >= lb
               /\ \A a \in 0..(lb - 1) : ScannedMap(found)[a] < ScannedMap(found)[lb]
<1> DEFINE map == ScannedMap(found)
           Behind(k) == map[k] >= k /\ \A a \in 0..(k - 1) : map[a] < map[k]
           S == {k \in Nat : k \in Logical => Behind(k)}
<1>1. map \in [Logical -> Blocks] /\ map[0] = 0
  BY MapRecurs
<1>2. ASSUME NEW k \in Nat, k + 1 \in Logical
      PROVE  k \in Logical /\ map[k] \in Nat /\ map[k + 1] \in Nat /\ map[k + 1] >= map[k] + 1
  <2>1. k \in Logical /\ k + 1 \in 1..(PoolLba - 1) /\ k + 1 # 0 /\ (k + 1) - 1 = k
    BY <1>2, Sizes
  <2>2. map[k + 1] = FindValid(map[k] + 1, found) /\ map[k + 1] # 0
    BY <1>2, <2>1, MapRecurs
  <2>3. map[k] \in Nat /\ map[k + 1] \in Nat
    BY <1>1, <1>2, <2>1, Sizes
  <2>4. map[k] + 1 \in Nat
    BY <2>3
  <2>5. FindValid(map[k] + 1, found) >= map[k] + 1
    BY <2>2, <2>4, Found
  <2> QED  BY <2>1, <2>2, <2>3, <2>5
<1> HIDE DEF map
<1>3. 0 \in S
  BY <1>1
<1>4. ASSUME NEW k \in Nat, k \in S PROVE k + 1 \in S
  <2> SUFFICES ASSUME k + 1 \in Logical PROVE Behind(k + 1)
    OBVIOUS
  <2>1. k \in Logical /\ map[k] \in Nat /\ map[k + 1] \in Nat /\ map[k + 1] >= map[k] + 1
    BY <1>2
  <2>2. Behind(k)
    BY <1>4, <2>1
  <2>3. ASSUME NEW a \in 0..k PROVE map[a] < map[k + 1]
    <3>1. a \in Logical /\ map[a] \in Nat
      BY <1>1, <2>1, Sizes
    <3>2. a = k \/ a \in 0..(k - 1)
      OBVIOUS
    <3> QED  BY <2>1, <2>2, <3>1, <3>2
  <2> QED  BY <2>1, <2>2, <2>3
<1>5. Nat \subseteq S
  <2> HIDE DEF S
  <2> QED  BY <1>3, <1>4, Induction
<1> QED  BY <1>5, Sizes DEF map

\* The pool rises from its first block to its last.
LEMMA PoolRises ==
    ASSUME NEW found, NEW pba \in Nat
    PROVE  \A i \in Blocks : ScannedPool(pba, found)[i] # 0 =>
               /\ ScannedPool(pba, found)[i] >= pba
               /\ \A a \in 0..(i - 1) : /\ ScannedPool(pba, found)[a] # 0
                                        /\ ScannedPool(pba, found)[a] < ScannedPool(pba, found)[i]
<1> DEFINE pool == ScannedPool(pba, found)
           Behind(k) == pool[k] # 0 =>
               pool[k] >= pba /\ \A a \in 0..(k - 1) : pool[a] # 0 /\ pool[a] < pool[k]
           S == {k \in Nat : k \in Blocks => Behind(k)}
<1>1. pool \in [Blocks -> Blocks] /\ pool[0] = FindValid(pba, found)
  BY PoolRecurs
<1>2. ASSUME NEW k \in Nat, k + 1 \in Blocks, pool[k + 1] # 0
      PROVE  /\ k \in Blocks /\ pool[k] \in Nat /\ pool[k + 1] \in Nat /\ pool[k] # 0
             /\ pool[k + 1] >= pool[k] + 1
  <2>1. k \in Blocks /\ k + 1 # 0 /\ (k + 1) - 1 = k
    BY <1>2, Sizes
  <2>2. pool[k + 1] = FindValid(pool[k] + 1, found) /\ pool[k] # 0
    BY <1>2, <2>1, PoolRecurs
  <2>3. pool[k] \in Nat /\ pool[k + 1] \in Nat
    BY <1>1, <1>2, <2>1, Sizes
  <2>4. pool[k] + 1 \in Nat
    BY <2>3
  <2>5. FindValid(pool[k] + 1, found) >= pool[k] + 1
    BY <1>2, <2>2, <2>4, Found
  <2> QED  BY <2>1, <2>2, <2>3, <2>5
<1>3. 0 \in S
  <2>1. pool[0] # 0 => pool[0] >= pba
    BY <1>1, Found
  <2> QED  BY <2>1
<1> HIDE DEF pool
<1>4. ASSUME NEW k \in Nat, k \in S PROVE k + 1 \in S
  <2> SUFFICES ASSUME k + 1 \in Blocks, pool[k + 1] # 0
               PROVE  /\ pool[k + 1] >= pba
                      /\ \A a \in 0..k : pool[a] # 0 /\ pool[a] < pool[k + 1]
    OBVIOUS
  <2>1. /\ k \in Blocks /\ pool[k] \in Nat /\ pool[k + 1] \in Nat /\ pool[k] # 0
        /\ pool[k + 1] >= pool[k] + 1
    BY <1>2
  <2>2. Behind(k)
    BY <1>4, <2>1
  <2>3. ASSUME NEW a \in 0..k PROVE pool[a] # 0 /\ pool[a] < pool[k + 1]
    <3>1. a \in Blocks /\ pool[a] \in Nat
      <4>1. a \in Blocks
        BY <2>1, Sizes
      <4>2. pool[a] \in Blocks
        BY <1>1, <4>1
      <4> QED  BY <4>1, <4>2, Sizes
    <3>2. a = k \/ a \in 0..(k - 1)
      OBVIOUS
    <3> QED  BY <2>1, <2>2, <3>1, <3>2
  <2> QED  BY <2>1, <2>2, <2>3
<1>5. Nat \subseteq S
  <2> HIDE DEF S
  <2> QED  BY <1>3, <1>4, Induction
<1> QED  BY <1>5, Sizes DEF pool

----------------------------------------------------------------------------
(* The invariant.                                                           *)

\* A map and a pool that fit: no block is given twice, and the blocks of the pool, which
\* rise and all lie behind those of the logical numbers, are marked when they are mapped to.
Fits(bb, pool) ==
    /\ \A x, y \in Logical : bb[x] = bb[y] => x = y
    /\ \A i \in Blocks : pool[i].block # 0 =>
          /\ pool[i].block >= PoolLba
          /\ \A j \in Blocks : j < i /\ pool[j].block # 0 => pool[j].block < pool[i].block
          /\ pool[i].mapped # "normal" => \A lb \in Logical : bb[lb] # pool[i].block

\* debugfs has not broken a table that may be loaded.
Trusted == weak \cap {"unmap", "freed"} = {}

\* So the tables in the memory fit,
InMemory == Trusted /\ Up => Fits(bb_tbl, bmt_tbl)

\* and every table on the flash, for a later start may load any of them.
OnFlash ==
    Trusted => \A b \in Blocks : content[b].k = "table" =>
                   Fits(content[b].t.bb, content[b].t.pool)

\* upload_bmt tries blocks that are there, from the entry of the table down, and writes
\* to one only that is not in use.
Tries == Up /\ Uploading => (\A j \in 0..n : bmt_tbl[j].block # 0)
Writes == pc \in {"init_write", "write"} => ~NoRoom

\* bmt_blk_idx is the entry of a block that is there and not in use.
Index ==
    Up /\ ~Uploading /\ bmt_blk_idx # None =>
        /\ bmt_tbl[bmt_blk_idx].mapped # "normal"
        /\ \A j \in 0..bmt_blk_idx : bmt_tbl[j].block # 0

IInv == TypeOK /\ InMemory /\ OnFlash /\ Tries /\ Writes /\ Index

----------------------------------------------------------------------------
(* Types.                                                                   *)

\* What a block may hold.
LEMMA Kinds ==
    /\ \A k \in {"erased", "torn", "half", "old"} : Holds(k) \in Content
    /\ \A lb \in Logical : DataOf(lb) \in Content
    /\ NoTable.bb \in [Logical -> Blocks] /\ Empty \in Pool /\ NoReq \in Request
    /\ \A c \in Content : c.t.bb \in [Logical -> Blocks] /\ c.t.pool \in Pool
<1>1. Empty \in Pool
  BY Sizes DEF Empty, Pool, Entry
<1>2. NoTable \in Table /\ NoTable.bb \in [Logical -> Blocks]
  BY <1>1, Sizes DEF NoTable, Table
<1>3. NoReq \in Request
  BY Sizes DEF NoReq, Request
<1>4. \A k \in {"erased", "torn", "half", "old"} : Holds(k) \in Content
  BY <1>2, Sizes DEF Holds, Content
<1>5. \A lb \in Logical : DataOf(lb) \in Content
  BY <1>2 DEF DataOf, Content
<1>6. \A c \in Content : c.t.bb \in [Logical -> Blocks] /\ c.t.pool \in Pool
  BY DEF Content, Table
<1> QED  BY <1>1, <1>2, <1>3, <1>4, <1>5, <1>6

\* The table in the memory, as upload_bmt writes it.
Memory == TableOf([bb |-> bb_tbl, pool |-> bmt_tbl])

\* It is one.
LEMMA MemoryTypes ==
    ASSUME TypeOK
    PROVE  /\ Memory \in Content /\ Memory.k = "table"
           /\ Memory.t.bb = bb_tbl /\ Memory.t.pool = bmt_tbl
<1>1. bb_tbl \in [Logical -> Blocks] /\ bmt_tbl \in Pool
  BY DEF TypeOK
<1>2. [bb |-> bb_tbl, pool |-> bmt_tbl] \in Table
  BY <1>1 DEF Table
<1>3. Memory \in Content
  BY <1>2, Sizes DEF Memory, TableOf, Content
<1> QED  BY <1>3 DEF Memory, TableOf

\* The entries of a pool, and what is left of one when a field of it is set.
LEMMA Entries ==
    ASSUME NEW p \in Pool, NEW i \in Blocks
    PROVE  /\ p[i].block \in Blocks /\ p[i].mapped \in {"no", "normal", "bmt"}
           /\ [p EXCEPT ![i].block = 0] \in Pool /\ [p EXCEPT ![i].mapped = "normal"] \in Pool
           /\ [p[i] EXCEPT !.mapped = "no"] \in Entry
<1>1. p[i] \in Entry
  BY DEF Pool
<1>2. p[i].block \in Blocks /\ p[i].mapped \in {"no", "normal", "bmt"}
  BY <1>1 DEF Entry
<1>3. /\ [p[i] EXCEPT !.block = 0] \in Entry /\ [p[i] EXCEPT !.mapped = "normal"] \in Entry
      /\ [p[i] EXCEPT !.mapped = "no"] \in Entry
  BY <1>1, Sizes DEF Entry
<1>4. [p EXCEPT ![i].block = 0] \in Pool
  BY <1>3 DEF Pool
<1>5. [p EXCEPT ![i].mapped = "normal"] \in Pool
  BY <1>3 DEF Pool
<1> QED  BY <1>2, <1>3, <1>4, <1>5

\* Any block may be ruined.
LEMMA RuinTypes ==
    ASSUME TypeOK, NEW b
    PROVE  /\ Ruin(b) \in [Blocks -> Content]
           /\ [content EXCEPT ![b] = Memory] \in [Blocks -> Content]
           /\ \A k \in {"erased", "torn", "half", "old"} :
                  [content EXCEPT ![b] = Holds(k)] \in [Blocks -> Content]
BY Kinds, MemoryTypes DEF TypeOK, Ruin

\* upload_bmt.
LEMMA UploadTypes == ASSUME TypeOK, UploadStep PROVE TypeOK'
<1>1. CASE UploadErase
  <2>1. content' \in [Blocks -> Content]
    BY <1>1, RuinTypes DEF UploadErase
  <2> QED  BY <1>1, <2>1 DEF UploadErase, TypeOK, bbt, Labels
<1>2. CASE UploadWrite
  <2>1. content' = [content EXCEPT ![bmt_tbl[n].block] = Memory]
    BY <1>2 DEF UploadWrite, Memory
  <2>2. content' \in [Blocks -> Content]
    BY <2>1, RuinTypes
  <2>3. req.old \in Blocks
    BY DEF TypeOK, Request
  <2> QED  BY <1>2, <2>2, <2>3, Kinds DEF UploadWrite, TypeOK, bbt, Labels
<1>3. CASE UploadFails
  <2>1. content' \in [Blocks -> Content]
    <3>1. content \in [Blocks -> Content]
      BY DEF TypeOK
    <3> QED  BY <1>3, <3>1, RuinTypes DEF UploadFails, Memory
  <2>2. n \in Blocks /\ n - 1 \in Blocks \cup {None}
    BY <1>3, Sizes DEF UploadFails, NoRoom, None
  <2>3. bmt_tbl' \in Pool
    BY <1>3, <2>2, Entries DEF UploadFails, TypeOK
  <2>4. faults' \in 0..MaxFaults
    BY <1>3, BoundsAssumption DEF UploadFails, Fault, TypeOK
  <2> QED  BY <1>3, <2>1, <2>2, <2>3, <2>4 DEF UploadFails, Fault, TypeOK, Labels
<1>4. CASE UploadNoRoom
  <2>1. req.old \in Blocks
    BY DEF TypeOK, Request
  <2> QED  BY <1>4, <2>1, Kinds DEF UploadNoRoom, TypeOK, bbt, Labels
<1> QED  BY <1>1, <1>2, <1>3, <1>4 DEF UploadStep

\* A scan either gives up or has built a map and a pool that fit, and an index of the
\* last entry of the pool.
LEMMA Scans ==
    ASSUME TypeOK, AttachScan
    PROVE  \/ /\ pc' \in {"dead", "wild"} /\ weak' \in {Leftover, Leftover \cup {"wild"}}
              /\ UNCHANGED <<bbt, bmt_blk_idx, n>>
           \/ /\ pc' = "init_erase"
              /\ Leftover \subseteq weak' /\ weak' \subseteq Leftover \cup {"full", "shadow"}
              /\ bb_tbl' \in [Logical -> Blocks] /\ bmt_tbl' \in Pool /\ Fits(bb_tbl', bmt_tbl')
              /\ n' \in Blocks /\ bmt_blk_idx' = n' /\ \A j \in 0..n' : bmt_tbl'[j].block # 0
              /\ bmt_tbl'[n'].mapped = "bmt" /\ \A j \in 0..(n' - 1) : bmt_tbl'[j].mapped # "bmt"
              /\ weak' = {} => n' # 0 /\ \A b \in Signed : ~(b > bmt_tbl'[n'].block)
<1> DEFINE map(ecc)   == ScannedMap(marked \cup ecc)
           pba(ecc)   == map(ecc)[PoolLba - 1] + 1
           pool(ecc)  == ScannedPool(pba(ecc), marked \cup ecc)
           valid(ecc) == {i \in Blocks : pool(ecc)[i] # 0}
           none       == UNCHANGED <<bbt, bmt_blk_idx, n>>
           Built(ecc, last) ==
               /\ bb_tbl' = map(ecc)
               /\ bmt_tbl' = [i \in Blocks |-> [block  |-> pool(ecc)[i],
                                                mapped |-> IF i = last THEN "bmt" ELSE "no"]]
               /\ bmt_blk_idx' = last
               /\ n' = last
               /\ weak' = Leftover \cup (IF last = 0 THEN {"full"} ELSE {})
                                 \cup (IF \E b \in Signed : b > pool(ecc)[last]
                                       THEN {"shadow"} ELSE {})
<1>1. \E ecc \in SUBSET {b \in Blocks : content[b].k = "torn"} :
         \/ /\ (\E lb \in 1..(PoolLba - 1) : map(ecc)[lb] = 0) \/ pba(ecc) >= TotalBlks - 2
            /\ pc' = "dead" /\ weak' = Leftover /\ none
         \/ /\ \A lb \in 1..(PoolLba - 1) : map(ecc)[lb] # 0
            /\ pba(ecc) < TotalBlks - 2 /\ valid(ecc) = {}
            /\ pc' = "wild" /\ weak' = Leftover \cup {"wild"} /\ none
         \/ /\ \A lb \in 1..(PoolLba - 1) : map(ecc)[lb] # 0
            /\ pba(ecc) < TotalBlks - 2
            /\ \E last \in valid(ecc) : (\A i \in valid(ecc) : i <= last) /\ Built(ecc, last)
            /\ pc' = "init_erase"
  BY DEF AttachScan
<1>2. CASE ((pc' = "dead" /\ weak' = Leftover) \/ (pc' = "wild" /\ weak' = Leftover \cup {"wild"}))
           /\ UNCHANGED <<bbt, bmt_blk_idx, n>>
  BY <1>2
<1>3. ASSUME NEW ecc, \A lb \in 1..(PoolLba - 1) : map(ecc)[lb] # 0,
             NEW last \in Blocks, pool(ecc)[last] # 0, Built(ecc, last), pc' = "init_erase"
      PROVE  /\ pc' = "init_erase"
             /\ Leftover \subseteq weak' /\ weak' \subseteq Leftover \cup {"full", "shadow"}
             /\ bb_tbl' \in [Logical -> Blocks] /\ bmt_tbl' \in Pool /\ Fits(bb_tbl', bmt_tbl')
             /\ n' \in Blocks /\ bmt_blk_idx' = n' /\ \A j \in 0..n' : bmt_tbl'[j].block # 0
             /\ bmt_tbl'[n'].mapped = "bmt" /\ \A j \in 0..(n' - 1) : bmt_tbl'[j].mapped # "bmt"
             /\ weak' = {} => n' # 0 /\ \A b \in Signed : ~(b > bmt_tbl'[n'].block)
  <2> DEFINE m     == ScannedMap(marked \cup ecc)
             first == m[PoolLba - 1] + 1
             p     == ScannedPool(first, marked \cup ecc)
  <2>0. /\ \A lb \in 1..(PoolLba - 1) : m[lb] # 0
        /\ p[last] # 0 /\ bb_tbl' = m
        /\ bmt_tbl' = [i \in Blocks |-> [block  |-> p[i],
                                         mapped |-> IF i = last THEN "bmt" ELSE "no"]]
        /\ bmt_blk_idx' = last /\ n' = last
        /\ weak' = Leftover \cup (IF last = 0 THEN {"full"} ELSE {})
                          \cup (IF \E b \in Signed : b > p[last] THEN {"shadow"} ELSE {})
    BY <1>3
  <2> HIDE DEF map, pba, pool, Built
  <2>1. m \in [Logical -> Blocks]
    BY MapRecurs
  <2>2. \A lb \in Logical : m[lb] >= lb /\ \A a \in 0..(lb - 1) : m[a] < m[lb]
    BY <2>0, MapRises
  <2> HIDE DEF m
  <2>3. PoolLba - 1 \in Logical /\ m[PoolLba - 1] \in Nat
    <3>1. PoolLba - 1 \in Logical
      BY Sizes
    <3>2. m[PoolLba - 1] \in Blocks
      BY <2>1, <3>1
    <3> QED  BY <3>1, <3>2, Sizes
  <2>4. first \in Nat /\ first >= PoolLba
    BY <2>2, <2>3, Sizes
  <2>5. \A lb \in Logical : m[lb] < first
    <3>1. ASSUME NEW lb \in Logical PROVE m[lb] < first
      <4>1. m[lb] \in Blocks
        BY <2>1
      <4>2. lb = PoolLba - 1 \/ lb \in 0..((PoolLba - 1) - 1)
        BY Sizes
      <4>3. m[lb] \in Nat /\ m[lb] <= m[PoolLba - 1]
        BY <2>2, <2>3, <4>1, <4>2, Sizes
      <4> QED  BY <2>3, <4>3
    <3> QED  BY <3>1
  <2> HIDE DEF first
  <2>6. p \in [Blocks -> Blocks]
    BY <2>4, PoolRecurs
  <2>7. \A i \in Blocks : p[i] # 0 =>
            p[i] >= first /\ \A a \in 0..(i - 1) : p[a] # 0 /\ p[a] < p[i]
    BY <2>4, PoolRises
  <2> HIDE DEF p
  <2>8. \A i \in Blocks : bmt_tbl'[i].block = p[i]
    BY <2>0
  <2>9. bmt_tbl' \in Pool
    BY <2>0, <2>6 DEF Pool, Entry
  <2>10. \A x, y \in Logical : m[x] = m[y] => x = y
    <3>1. ASSUME NEW x \in Logical, NEW y \in Logical, x < y PROVE m[x] # m[y]
      <4>1. m[x] \in Blocks /\ m[y] \in Blocks
        BY <2>1
      <4>2. x \in 0..(y - 1)
        BY <3>1, Sizes
      <4>3. m[x] < m[y]
        BY <2>2, <4>2
      <4> QED  BY <4>1, <4>3, Sizes
    <3> QED  BY <3>1, Sizes
  <2>11. \A i, j \in Blocks : p[i] # 0 /\ j < i => p[j] < p[i]
    BY <2>7, Sizes
  <2>12. ASSUME NEW i \in Blocks, p[i] # 0
         PROVE  p[i] >= PoolLba /\ \A lb \in Logical : m[lb] # p[i]
    <3>1. p[i] \in Nat /\ p[i] >= first
      <4>1. p[i] \in Blocks
        BY <2>6
      <4> QED  BY <2>7, <2>12, <4>1, Sizes
    <3>2. \A lb \in Logical : m[lb] \in Nat
      BY <2>1, Sizes
    <3> QED  BY <2>4, <2>5, <3>1, <3>2, Sizes
  <2>13. Fits(bb_tbl', bmt_tbl')
    BY <2>0, <2>8, <2>10, <2>11, <2>12 DEF Fits
  <2>14. \A j \in 0..last : bmt_tbl'[j].block # 0
    <3>1. \A j \in 0..last : j \in Blocks /\ (j = last \/ j \in 0..(last - 1))
      BY Sizes
    <3> QED  BY <2>0, <2>7, <2>8, <3>1
  <2>15. bmt_tbl'[last].mapped = "bmt" /\ \A j \in 0..(last - 1) : bmt_tbl'[j].mapped # "bmt"
    BY <2>0, Sizes
  <2>16. /\ Leftover \subseteq weak' /\ weak' \subseteq Leftover \cup {"full", "shadow"}
         /\ weak' = {} => last # 0 /\ \A b \in Signed : ~(b > p[last])
    <3> HIDE DEF p
    <3> QED  BY <2>0
  <2> QED  BY <1>3, <2>0, <2>1, <2>8, <2>9, <2>13, <2>14, <2>15, <2>16
<1> HIDE DEF map, pba, pool, Built
<1>4. ASSUME NEW ecc, \A lb \in 1..(PoolLba - 1) : map(ecc)[lb] # 0, pc' = "init_erase",
             \E last \in valid(ecc) : Built(ecc, last)
      PROVE  \E last \in Blocks : pool(ecc)[last] # 0 /\ Built(ecc, last)
  BY <1>4
<1> HIDE DEF valid
<1> QED  BY <1>1, <1>2, <1>3, <1>4

\* mtk_bmt_init_v2.
LEMMA AttachTypes == ASSUME TypeOK, AttachStep PROVE TypeOK'
<1>1. CASE AttachFound
  <2>1. PICK t \in Restart, i \in Blocks \ {0} :
            bb_tbl' = t.bb /\ bmt_tbl' = t.pool /\ bmt_blk_idx' = i
    BY <1>1 DEF AttachFound
  <2>2. \E b \in Blocks : t = content[b].t
    BY <2>1, Sizes DEF Restart, Top, Signed
  <2>3. t.bb \in [Logical -> Blocks] /\ t.pool \in Pool
    BY <2>2, Kinds DEF TypeOK
  <2> QED  BY <1>1, <2>1, <2>3 DEF AttachFound, TypeOK, flash, Labels
<1>2. CASE AttachHalf
  BY <1>2 DEF AttachHalf, TypeOK, flash, bbt, Labels
<1>3. CASE AttachScan
  <2>1. Leftover \subseteq weak
    BY DEF Leftover
  <2>2. /\ pc' \in Labels /\ weak' \subseteq weak \cup {"wild", "full", "shadow"}
        /\ bb_tbl' \in [Logical -> Blocks] /\ bmt_tbl' \in Pool
        /\ bmt_blk_idx' \in Blocks \cup {None} /\ n' \in Blocks \cup {None}
    BY <1>3, <2>1, Scans DEF TypeOK, bbt, Labels
  <2> QED  BY <1>3, <2>2 DEF AttachScan, TypeOK, flash
<1> QED  BY <1>1, <1>2, <1>3 DEF AttachStep

\* The pool and the map after remap_block_v2 has taken a block, or found none.
LEMMA RemapTypes ==
    ASSUME TypeOK, NEW lb \in Logical, NEW copy \in BOOLEAN, NEW mark \in BOOLEAN,
           RemapBlock(lb, copy, mark)
    PROVE  /\ marked' \subseteq Blocks /\ bb_tbl' \in [Logical -> Blocks] /\ bmt_tbl' \in Pool
           /\ req' \in Request /\ pc' \in {"remap_erase", "wild", pc}
           /\ weak' \subseteq weak \cup {"wild"}
<1>1. bb_tbl[lb] \in Blocks
  BY DEF TypeOK
<1>2. CASE \E i \in Available :
             /\ bmt_tbl' = Take(i)
             /\ bb_tbl' = [bb_tbl EXCEPT ![lb] = bmt_tbl[i].block]
             /\ req' = [lb |-> lb, old |-> bb_tbl[lb], new |-> bmt_tbl[i].block, copy |-> copy,
                        mark |-> mark, repair |-> FALSE]
             /\ pc' = "remap_erase"
             /\ UNCHANGED <<marked, weak>>
  <2>1. PICK i \in Available :
             /\ bmt_tbl' = Take(i)
             /\ bb_tbl' = [bb_tbl EXCEPT ![lb] = bmt_tbl[i].block]
             /\ req' = [lb |-> lb, old |-> bb_tbl[lb], new |-> bmt_tbl[i].block, copy |-> copy,
                        mark |-> mark, repair |-> FALSE]
             /\ pc' = "remap_erase"
             /\ UNCHANGED <<marked, weak>>
    BY <1>2
  <2>2. i \in Blocks /\ bmt_tbl[i].block \in Blocks /\ bmt_tbl' \in Pool
    BY <2>1, Entries DEF Available, Take, TypeOK
  <2> QED  BY <1>1, <2>1, <2>2 DEF TypeOK, Request
<1>3. CASE /\ marked' \in {marked, marked \cup {bb_tbl[lb]}} /\ UNCHANGED <<bbt, req>>
           /\ (UNCHANGED <<pc, weak>>) \/ (pc' = "wild" /\ weak' = weak \cup {"wild"})
  BY <1>1, <1>3 DEF TypeOK, bbt
<1>4. CASE (Available = {} /\ bmt_blk_idx # None
              /\ marked' = (IF mark THEN marked \cup {bb_tbl[lb]} ELSE marked)
              /\ UNCHANGED <<bbt, req, pc, weak>>)
  BY <1>3, <1>4 DEF bbt
<1>5. CASE Available = {} /\ bmt_blk_idx = None /\ pc' = "wild" /\ weak' = weak \cup {"wild"}
           /\ UNCHANGED <<marked, bbt, req>>
  BY <1>3, <1>5 DEF bbt
<1> QED  BY <1>2, <1>4, <1>5 DEF RemapBlock

\* upload_bmt is called.
LEMMA CallTypes ==
    ASSUME TypeOK, NEW voids \in SUBSET {"unmap", "freed"}, Upload(voids)
    PROVE  /\ n' \in Blocks \cup {None} /\ pc' \in {"wild", "erase"}
           /\ weak' \subseteq {"moved", "cut", "full", "wild", "unmap", "freed", "shadow"}
BY DEF Upload, TypeOK

\* remap_block_v2.
LEMMA CopyTypes == ASSUME TypeOK, RemapStep PROVE TypeOK'
<1>1. req.old \in Blocks /\ req.new \in Blocks /\ req.lb \in Logical
  BY DEF TypeOK, Request
<1>2. CASE RemapErase
  <2>1. content' \in [Blocks -> Content]
    <3>1. content \in [Blocks -> Content]
      BY DEF TypeOK
    <3> QED  BY <1>2, <3>1, RuinTypes DEF RemapErase, EraseNew
  <2>3. faults' \in 0..MaxFaults /\ cuts' = cuts
    BY <1>2, BoundsAssumption DEF RemapErase, EraseNew, Fault, TypeOK
  <2>2. n' \in Blocks \cup {None} /\ pc' \in Labels
        /\ weak' \subseteq {"moved", "cut", "full", "wild", "unmap", "freed", "shadow"}
    <3>1. CASE req.copy
      BY <1>2, <3>1 DEF RemapErase, TypeOK, Labels
    <3>2. CASE ~req.copy
      BY <1>2, <3>2, CallTypes DEF RemapErase, Labels
    <3> QED  BY <3>1, <3>2
  <2> QED  BY <1>2, <2>1, <2>2, <2>3 DEF RemapErase, TypeOK, bbt
<1>3. CASE RemapCopy
  <2>1. content' \in [Blocks -> Content] /\ intact' \subseteq Logical
    <3>1. CASE content' = [content EXCEPT ![req.new] = content[req.old]]
               /\ intact' \in {intact, intact \cup {req.lb}}
      BY <1>1, <3>1 DEF TypeOK
    <3>2. CASE content' = Ruin(req.new) /\ intact' = intact \ {req.lb}
      BY <1>1, <3>2, RuinTypes DEF TypeOK
    <3> QED  BY <1>3, <3>1, <3>2 DEF RemapCopy
  <2>2. faults' \in 0..MaxFaults /\ cuts' = cuts
    BY <1>3, BoundsAssumption DEF RemapCopy, Fault, TypeOK
  <2>3. n' \in Blocks \cup {None} /\ pc' \in Labels /\ req' \in Request
        /\ weak' \subseteq {"moved", "cut", "full", "wild", "unmap", "freed", "shadow"}
    <3>1. CASE req.repair
      BY <1>3, <3>1, Kinds DEF RemapCopy, TypeOK, Labels
    <3>2. CASE ~req.repair
      BY <1>3, <3>2, CallTypes DEF RemapCopy, Labels, TypeOK
    <3> QED  BY <3>1, <3>2
  <2> QED  BY <1>3, <2>1, <2>2, <2>3 DEF RemapCopy, TypeOK, bbt
<1> QED  BY <1>2, <1>3 DEF RemapStep

\* What the user does, by way of the front end or of debugfs.
LEMMA UserTypes == ASSUME TypeOK, UserStep PROVE TypeOK'
<1> DEFINE Weak == {"moved", "cut", "full", "wild", "unmap", "freed", "shadow"}
<1>1. ASSUME UserFree PROVE TypeOK'
  <2>1. PICK voids \in SUBSET {"unmap", "freed"} : Upload(voids)
    BY <1>1 DEF UserFree
  <2>2. n' \in Blocks \cup {None} /\ pc' \in {"wild", "erase"} /\ weak' \subseteq Weak
    BY <2>1, CallTypes
  <2>3. PICK free : bmt_tbl' = [i \in Blocks |-> IF i \in free
                                                 THEN [bmt_tbl[i] EXCEPT !.mapped = "no"]
                                                 ELSE bmt_tbl[i]]
    BY <1>1 DEF UserFree
  <2>4. bmt_tbl' \in Pool
    <3>1. \A i \in Blocks : bmt_tbl[i] \in Entry /\ [bmt_tbl[i] EXCEPT !.mapped = "no"] \in Entry
      BY Entries DEF TypeOK, Pool
    <3> QED  BY <2>3, <3>1 DEF Pool
  <2>5. faults' \in 0..MaxFaults /\ cuts' = cuts
    BY <1>1, BoundsAssumption DEF UserFree, Fault, TypeOK
  <2> QED  BY <1>1, <2>2, <2>4, <2>5 DEF UserFree, TypeOK, flash, Labels
<1>2. ASSUME NEW lb \in User, UserWrite(lb) PROVE TypeOK'
  <2>1. lb \in Logical
    BY Sizes
  <2>2. content' \in [Blocks -> Content]
    <3>1. content \in [Blocks -> Content] /\ DataOf(lb) \in Content /\ Holds("old") \in Content
      BY <2>1, Kinds DEF TypeOK
    <3> QED  BY <1>2, <3>1 DEF UserWrite
  <2> QED  BY <1>2, <2>1, <2>2 DEF UserWrite, TypeOK, bbt
<1>3. ASSUME NEW lb \in User, UserFault(lb) PROVE TypeOK'
  <2>1. PICK copy \in BOOLEAN : RemapBlock(lb, copy, FALSE)
    BY <1>3 DEF UserFault
  <2>2. lb \in Logical
    BY Sizes
  <2>3. /\ marked' \subseteq Blocks /\ bb_tbl' \in [Logical -> Blocks] /\ bmt_tbl' \in Pool
        /\ req' \in Request /\ pc' \in Labels /\ weak' \subseteq weak \cup {"wild"}
    BY <2>1, <2>2, RemapTypes DEF TypeOK, Labels
  <2>4. content' \in [Blocks -> Content] /\ faults' \in 0..MaxFaults /\ cuts' = cuts
    BY <1>3, RuinTypes, BoundsAssumption DEF UserFault, Fault, TypeOK
  <2> QED  BY <1>3, <2>3, <2>4 DEF UserFault, TypeOK
<1>4. ASSUME NEW lb \in User, UserRemap(lb) PROVE TypeOK'
  <2>1. PICK mark \in BOOLEAN : RemapBlock(lb, TRUE, mark)
    BY <1>4 DEF UserRemap
  <2>2. lb \in Logical
    BY Sizes
  <2>3. /\ marked' \subseteq Blocks /\ bb_tbl' \in [Logical -> Blocks] /\ bmt_tbl' \in Pool
        /\ req' \in Request /\ pc' \in Labels /\ weak' \subseteq weak \cup {"wild"}
    BY <2>1, <2>2, RemapTypes DEF TypeOK, Labels
  <2>4. faults' \in 0..MaxFaults /\ cuts' = cuts
    BY <1>4, BoundsAssumption DEF UserRemap, Fault, TypeOK
  <2> QED  BY <1>4, <2>3, <2>4 DEF UserRemap, TypeOK
<1>5. ASSUME NEW lb \in User, UserIsBad(lb) PROVE TypeOK'
  <2>1. lb \in Logical /\ RemapBlock(lb, TRUE, FALSE)
    BY <1>5, Sizes DEF UserIsBad
  <2>2. /\ marked' \subseteq Blocks /\ bb_tbl' \in [Logical -> Blocks] /\ bmt_tbl' \in Pool
        /\ req' \in Request /\ pc' \in Labels /\ weak' \subseteq weak \cup {"wild"}
    BY <2>1, RemapTypes DEF TypeOK, Labels
  <2> QED  BY <1>5, <2>2 DEF UserIsBad, TypeOK
<1>6. ASSUME NEW lb \in User, NEW repair \in BOOLEAN, UserUnmap(lb, repair) PROVE TypeOK'
  <2>1. PICK voids \in SUBSET {"unmap", "freed"} : Upload(voids)
    BY <1>6 DEF UserUnmap
  <2>2. n' \in Blocks \cup {None} /\ pc' \in {"wild", "erase"} /\ weak' \subseteq Weak
    BY <2>1, CallTypes
  <2>3. lb \in Logical /\ lb \in Blocks /\ bb_tbl[lb] \in Blocks
    BY Sizes DEF TypeOK
  <2>4. bb_tbl' \in [Logical -> Blocks] /\ req' \in Request /\ intact' \subseteq Logical
    BY <1>6, <2>3 DEF UserUnmap, TypeOK, Request
  <2>5. faults' \in 0..MaxFaults /\ cuts' = cuts
    BY <1>6, BoundsAssumption DEF UserUnmap, Fault, TypeOK
  <2> QED  BY <1>6, <2>2, <2>4, <2>5 DEF UserUnmap, TypeOK, flash, Labels
<1> QED  BY <1>1, <1>2, <1>3, <1>4, <1>5, <1>6 DEF UserStep

\* Power goes.
LEMMA PowerTypes == ASSUME TypeOK, PowerCut PROVE TypeOK'
<1>1. content' \in [Blocks -> Content]
  <2>1. content \in [Blocks -> Content]
    BY DEF TypeOK
  <2>2. content' = content \/ \E b : content' \in {Ruin(b), [content EXCEPT ![b] = Holds("half")],
                                                  [content EXCEPT ![b] = Memory]}
    BY DEF PowerCut, Memory
  <2> QED  BY <2>1, <2>2, RuinTypes
<1>2. cuts' \in 0..MaxCuts
  BY BoundsAssumption DEF PowerCut, TypeOK
<1>3. weak' \subseteq weak \cup {"cut"}
  BY DEF PowerCut
<1> QED  BY <1>1, <1>2, <1>3, Kinds, Sizes DEF PowerCut, TypeOK, Labels

\* Every step keeps the types.
LEMMA TypesStep == ASSUME TypeOK, Next PROVE TypeOK'
BY UploadTypes, AttachTypes, CopyTypes, UserTypes, PowerTypes DEF Next, DriverStep

----------------------------------------------------------------------------
(* The tables on the flash.                                                 *)

\* A step that breaks trust in the tables is not forgotten while a table is left.
LEMMA Trust ==
    ASSUME Next, Trusted'
    PROVE  Trusted \/ (content' = content /\ \A b \in Blocks : content[b].k # "table")
<1>1. CASE AttachScan
  <2>1. Leftover \subseteq weak'
    BY <1>1 DEF AttachScan
  <2> QED  BY <1>1, <2>1 DEF AttachScan, Leftover, Trusted, flash
<1>2. ASSUME Upload({}) PROVE weak \subseteq weak'
  BY <1>2 DEF Upload
<1>3. ASSUME ~AttachScan PROVE Trusted
  <2>1. CASE PowerCut
    BY <2>1 DEF PowerCut, Trusted
  <2>2. CASE UploadStep \/ AttachFound \/ AttachHalf
    BY <2>2 DEF UploadStep, UploadErase, UploadWrite, UploadFails, UploadNoRoom, AttachFound,
                AttachHalf, Trusted
  <2>3. CASE RemapStep
    BY <1>2, <2>3 DEF RemapStep, RemapErase, RemapCopy, Trusted
  <2>4. CASE UserFree
    BY <2>4 DEF UserFree, Upload, Trusted
  <2>5. CASE \E lb \in User, repair \in BOOLEAN : UserUnmap(lb, repair)
    BY <2>5 DEF UserUnmap, Upload, Trusted
  <2>6. CASE \E lb \in User : UserWrite(lb) \/ UserFault(lb) \/ UserRemap(lb) \/ UserIsBad(lb)
    BY <2>6 DEF UserWrite, UserFault, UserRemap, UserIsBad, RemapBlock, Trusted
  <2> QED  BY <1>3, <2>1, <2>2, <2>3, <2>4, <2>5, <2>6
              DEF Next, DriverStep, AttachStep, UserStep
<1> QED  BY <1>1, <1>3

\* What is no table.
LEMMA NoTables ==
    /\ \A k \in {"erased", "torn", "half", "old"} : Holds(k).k # "table"
    /\ \A lb \in Logical : DataOf(lb).k # "table"
BY DEF Holds, DataOf

\* A block that is given new contents, which are a table only if it is that in the memory.
Given(c, b) ==
    c = content \/ c \in {Ruin(b), [content EXCEPT ![b] = Memory]}
                \/ \E k \in {"erased", "half"} : c = [content EXCEPT ![b] = Holds(k)]

\* A table on the flash was there before, or is that in the memory of a driver that is up.
LEMMA Tables ==
    ASSUME TypeOK, Next, NEW b \in Blocks, content'[b].k = "table"
    PROVE  (\E a \in Blocks : content'[b] = content[a]) \/ (Up /\ content'[b] = Memory)
<1>1. content \in [Blocks -> Content]
  BY DEF TypeOK
<1>2. ASSUME NEW x, Up, Given(content', x) PROVE content'[b] = content[b] \/ content'[b] = Memory
  BY <1>1, <1>2, NoTables DEF Given, Ruin
<1>3. CASE UploadStep
  <2>1. Up /\ Given(content', bmt_tbl[n].block)
    BY <1>3 DEF UploadStep, UploadErase, UploadWrite, UploadFails, UploadNoRoom, Uploading, Up,
                Given, Memory
  <2> QED  BY <1>2, <2>1
<1>4. CASE AttachStep
  BY <1>4 DEF AttachStep, AttachFound, AttachHalf, AttachScan, flash
<1>5. CASE RemapErase
  <2>1. Up /\ Given(content', req.new)
    BY <1>5 DEF RemapErase, EraseNew, Up, Given
  <2> QED  BY <1>2, <2>1
<1>6. CASE RemapCopy
  <2>1. CASE content' = [content EXCEPT ![req.new] = content[req.old]]
    <3>1. req.old \in Blocks
      BY DEF TypeOK, Request
    <3> QED  BY <1>1, <2>1, <3>1
  <2>2. CASE content' = Ruin(req.new)
    BY <1>2, <1>6, <2>2 DEF RemapCopy, Up, Given
  <2> QED  BY <1>6, <2>1, <2>2 DEF RemapCopy
<1>7. CASE UserFree \/ \E lb \in User : UserRemap(lb) \/ UserIsBad(lb)
                                       \/ \E repair \in BOOLEAN : UserUnmap(lb, repair)
  BY <1>7 DEF UserFree, UserRemap, UserIsBad, UserUnmap, flash
<1>8. ASSUME NEW lb \in User, UserWrite(lb) PROVE content'[b] = content[b]
  <2>1. content'[b] = DataOf(lb) \/ content'[b] = Holds("old") \/ content'[b] = content[b]
    BY <1>8 DEF UserWrite
  <2> QED  BY <2>1, NoTables, Sizes
<1>9. ASSUME NEW lb \in User, UserFault(lb) PROVE content'[b] = content[b] \/ content'[b] = Memory
  <2>1. Up /\ Given(content', bb_tbl[lb])
    BY <1>9 DEF UserFault, Ready, Up, Given
  <2> QED  BY <1>2, <2>1
<1>10. CASE PowerCut
  <2>1. CASE content' = content
    BY <2>1
  <2>2. CASE ~(content' = content)
    <3>1. PICK x : x \in InFlight /\ Given(content', x)
      BY <1>10, <2>2 DEF PowerCut, Given, Memory
    <3>2. Up
      BY <3>1 DEF InFlight, Uploading, Up
    <3> QED  BY <1>2, <3>1, <3>2
  <2> QED  BY <2>1, <2>2
<1>11. (\E lb \in User : UserFault(lb)) => Up
  BY DEF UserFault, Ready, Up
<1> QED  BY <1>3, <1>4, <1>5, <1>6, <1>7, <1>8, <1>9, <1>10, <1>11, UserTypes
            DEF Next, DriverStep, RemapStep, UserStep

\* So every table that may be loaded fits.
LEMMA FlashStep == ASSUME IInv, Next PROVE OnFlash'
<1>1. TypeOK /\ InMemory /\ OnFlash
  BY DEF IInv
<1> SUFFICES ASSUME Trusted', NEW b \in Blocks, content'[b].k = "table"
             PROVE  Fits(content'[b].t.bb, content'[b].t.pool)
  BY DEF OnFlash
<1>2. Trusted
  BY Trust
<1>3. CASE \E a \in Blocks : content'[b] = content[a]
  BY <1>1, <1>2, <1>3 DEF OnFlash
<1>4. CASE Up /\ content'[b] = Memory
  <2>1. Fits(bb_tbl, bmt_tbl)
    BY <1>1, <1>2, <1>4 DEF InMemory
  <2> QED  BY <1>1, <1>4, <2>1, MemoryTypes
<1> QED  BY <1>1, <1>3, <1>4, Tables

----------------------------------------------------------------------------
(* The tables in the memory.                                                *)

\* No block is twice in the pool.
LEMMA Distinct ==
    ASSUME NEW bb, NEW pool \in Pool, NEW i \in Blocks, NEW j \in Blocks, Fits(bb, pool),
           i # j, pool[i].block # 0
    PROVE  pool[j].block # pool[i].block
<1>1. pool[i].block \in Nat /\ pool[j].block \in Nat
  BY Sizes DEF Pool, Entry
<1>2. i < j \/ j < i
  BY Sizes
<1> QED  BY <1>1, <1>2 DEF Fits

\* An entry is given up.
LEMMA FitsLess ==
    ASSUME NEW bb, NEW pool \in Pool, NEW i \in Blocks, Fits(bb, pool)
    PROVE  Fits(bb, [pool EXCEPT ![i].block = 0])
<1> DEFINE q == [pool EXCEPT ![i].block = 0]
<1>1. \A j \in Blocks : q[j].mapped = pool[j].mapped
                        /\ q[j].block = (IF j = i THEN 0 ELSE pool[j].block)
  BY DEF Pool, Entry
<1> HIDE DEF q
<1>2. Fits(bb, q)
  BY <1>1 DEF Fits
<1> QED  BY <1>2 DEF q

\* A logical block is mapped to an entry that was not marked, and now is.
LEMMA FitsTake ==
    ASSUME NEW bb \in [Logical -> Blocks], NEW pool \in Pool, NEW i \in Blocks, NEW lb \in Logical,
           Fits(bb, pool), pool[i].block # 0, pool[i].mapped = "no"
    PROVE  Fits([bb EXCEPT ![lb] = pool[i].block], [pool EXCEPT ![i].mapped = "normal"])
<1> DEFINE q == [pool EXCEPT ![i].mapped = "normal"]
           m == [bb EXCEPT ![lb] = pool[i].block]
<1>1. \A j \in Blocks : q[j].block = pool[j].block
                        /\ q[j].mapped = (IF j = i THEN "normal" ELSE pool[j].mapped)
  BY DEF Pool, Entry
<1>2. \A x \in Logical : m[x] = IF x = lb THEN pool[i].block ELSE bb[x]
  OBVIOUS
<1> HIDE DEF q, m
<1>3. \A x \in Logical : bb[x] # pool[i].block
  BY DEF Fits
<1>4. \A x, y \in Logical : m[x] = m[y] => x = y
  BY <1>2, <1>3 DEF Fits
<1>5. \A j \in Blocks : q[j].block # 0 =>
          /\ q[j].block >= PoolLba
          /\ \A k \in Blocks : k < j /\ q[k].block # 0 => q[k].block < q[j].block
  BY <1>1 DEF Fits
<1>6. ASSUME NEW j \in Blocks, q[j].block # 0, q[j].mapped # "normal", NEW x \in Logical
      PROVE  m[x] # q[j].block
  <2>1. j # i /\ pool[j].block # 0 /\ pool[j].mapped # "normal" /\ q[j].block = pool[j].block
    BY <1>1, <1>6
  <2>2. pool[i].block # pool[j].block
    BY <2>1, Distinct
  <2>3. bb[x] # pool[j].block
    BY <2>1 DEF Fits
  <2> QED  BY <1>2, <2>1, <2>2, <2>3
<1>7. Fits(m, q)
  BY <1>4, <1>5, <1>6 DEF Fits
<1> QED  BY <1>7 DEF m, q

\* A logical block is mapped to the block of its number, which no other is.
LEMMA FitsUnmap ==
    ASSUME NEW bb \in [Logical -> Blocks], NEW pool, NEW lb \in Logical, Fits(bb, pool),
           \A x \in Logical \ {lb} : bb[x] # lb
    PROVE  Fits([bb EXCEPT ![lb] = lb], pool)
<1> DEFINE m == [bb EXCEPT ![lb] = lb]
<1>1. \A x \in Logical : m[x] = IF x = lb THEN lb ELSE bb[x]
  OBVIOUS
<1> HIDE DEF m
<1>2. \A x, y \in Logical : m[x] = m[y] => x = y
  BY <1>1 DEF Fits
<1>3. \A i \in Blocks : pool[i].block # 0 => pool[i].block # lb
  <2>1. lb < PoolLba /\ lb \in Nat
    BY Sizes
  <2> QED  BY <2>1, Sizes DEF Fits
<1>4. Fits(m, pool)
  BY <1>1, <1>2, <1>3 DEF Fits
<1> QED  BY <1>4 DEF m

\* Entries are available again that nothing maps to.
LEMMA FitsFree ==
    ASSUME NEW bb, NEW pool \in Pool, NEW free, Fits(bb, pool),
           \A i \in free, lb \in Logical : bb[lb] # pool[i].block
    PROVE  Fits(bb, [i \in Blocks |-> IF i \in free THEN [pool[i] EXCEPT !.mapped = "no"]
                                      ELSE pool[i]])
<1> DEFINE q == [i \in Blocks |-> IF i \in free THEN [pool[i] EXCEPT !.mapped = "no"] ELSE pool[i]]
<1>1. \A j \in Blocks : q[j].block = pool[j].block
                        /\ q[j].mapped = (IF j \in free THEN "no" ELSE pool[j].mapped)
  BY DEF Pool, Entry
<1> HIDE DEF q
<1>2. Fits(bb, q)
  BY <1>1 DEF Fits
<1> QED  BY <1>2 DEF q

\* What remap_block_v2 does to the tables of a driver that is ready.
LEMMA RemapFits ==
    ASSUME IInv, Ready, Trusted, NEW lb \in Logical, NEW copy \in BOOLEAN, NEW mark \in BOOLEAN,
           RemapBlock(lb, copy, mark)
    PROVE  Fits(bb_tbl', bmt_tbl')
<1>1. Fits(bb_tbl, bmt_tbl) /\ bb_tbl \in [Logical -> Blocks] /\ bmt_tbl \in Pool
  BY DEF IInv, TypeOK, InMemory, Ready, Up
<1>2. CASE \E i \in Available : /\ bmt_tbl' = Take(i)
                                /\ bb_tbl' = [bb_tbl EXCEPT ![lb] = bmt_tbl[i].block]
  <2>1. PICK i \in Available : /\ bmt_tbl' = Take(i)
                               /\ bb_tbl' = [bb_tbl EXCEPT ![lb] = bmt_tbl[i].block]
    BY <1>2
  <2>2. i \in Blocks /\ bmt_tbl[i].block # 0 /\ bmt_tbl[i].mapped = "no"
    BY <2>1 DEF Available
  <2> QED  BY <1>1, <2>1, <2>2, FitsTake DEF Take
<1>3. CASE UNCHANGED bbt
  BY <1>1, <1>3 DEF bbt
<1> QED  BY <1>2, <1>3 DEF RemapBlock

\* The tables in the memory fit after every step.
LEMMA MemoryStep == ASSUME IInv, Next PROVE InMemory'
<1>1. /\ TypeOK /\ bb_tbl \in [Logical -> Blocks] /\ bmt_tbl \in Pool
      /\ Trusted /\ Up => Fits(bb_tbl, bmt_tbl)
  BY DEF IInv, TypeOK, InMemory
<1> SUFFICES ASSUME Trusted', Up' PROVE Fits(bb_tbl', bmt_tbl')
  BY DEF InMemory
<1>2. Trusted \/ \A b \in Blocks : content[b].k # "table"
  BY Trust
<1>3. CASE UploadErase \/ UploadWrite \/ UploadNoRoom \/ RemapStep
  <2>1. Up /\ UNCHANGED bbt /\ weak \subseteq weak'
    BY <1>3 DEF UploadErase, UploadWrite, UploadNoRoom, RemapStep, RemapErase, RemapCopy, Upload, Up
  <2> QED  BY <1>1, <2>1 DEF bbt, Trusted
<1>4. CASE UploadFails
  <2>1. Up /\ weak \subseteq weak' /\ n \in Blocks /\ bb_tbl' = bb_tbl
        /\ bmt_tbl' = [bmt_tbl EXCEPT ![n].block = 0]
    BY <1>4 DEF UploadFails, Uploading, Up, NoRoom
  <2>2. Fits(bb_tbl, bmt_tbl)
    BY <1>1, <2>1 DEF Trusted
  <2> QED  BY <1>1, <2>1, <2>2, FitsLess
<1>5. CASE AttachFound
  <2>1. PICK t \in Restart : bb_tbl' = t.bb /\ bmt_tbl' = t.pool
    BY <1>5 DEF AttachFound
  <2>2. PICK b \in Blocks : content[b].k = "table" /\ t = content[b].t
    BY <2>1, Sizes DEF Restart, Top, Signed
  <2> QED  BY <1>2, <2>1, <2>2 DEF IInv, OnFlash
<1>6. CASE AttachHalf
  BY <1>6 DEF AttachHalf, Up
<1>7. CASE AttachScan
  BY <1>1, <1>7, Scans DEF Up
<1>8. CASE UserFree
  <2>1. PICK free :
          /\ bmt_tbl' = [i \in Blocks |-> IF i \in free THEN [bmt_tbl[i] EXCEPT !.mapped = "no"]
                                          ELSE bmt_tbl[i]]
          /\ Upload(IF \E i \in free, lb \in Logical : bb_tbl[lb] = bmt_tbl[i].block
                    THEN {"freed"} ELSE {})
    BY <1>8 DEF UserFree
  <2>2. Up /\ Trusted /\ bb_tbl' = bb_tbl
    BY <1>8, <2>1 DEF UserFree, Ready, Up, Upload, Trusted
  <2>3. \A i \in free, lb \in Logical : bb_tbl[lb] # bmt_tbl[i].block
    BY <2>1 DEF Upload, Trusted
  <2> QED  BY <1>1, <2>1, <2>2, <2>3, FitsFree
<1>9. ASSUME NEW lb \in User, UserWrite(lb) PROVE Fits(bb_tbl', bmt_tbl')
  BY <1>1, <1>9 DEF UserWrite, Ready, Up, bbt, Trusted
<1>10. ASSUME NEW lb \in User, UserFault(lb) \/ UserRemap(lb) \/ UserIsBad(lb)
       PROVE  Fits(bb_tbl', bmt_tbl')
  <2>1. PICK copy \in BOOLEAN, mark \in BOOLEAN : RemapBlock(lb, copy, mark)
    BY <1>10 DEF UserFault, UserRemap, UserIsBad
  <2>2. Ready /\ lb \in Logical
    BY <1>10, Sizes DEF UserFault, UserRemap, UserIsBad
  <2>3. Trusted
    BY <2>1 DEF RemapBlock, Trusted
  <2> QED  BY <2>1, <2>2, <2>3, RemapFits
<1>11. ASSUME NEW lb \in User, NEW repair \in BOOLEAN, UserUnmap(lb, repair)
       PROVE  Fits(bb_tbl', bmt_tbl')
  <2>1. /\ Up /\ Trusted /\ bmt_tbl' = bmt_tbl /\ bb_tbl' = [bb_tbl EXCEPT ![lb] = lb]
        /\ \A x \in Logical \ {lb} : bb_tbl[x] # lb
    BY <1>11 DEF UserUnmap, Ready, Up, Upload, Trusted
  <2> QED  BY <1>1, <2>1, Sizes, FitsUnmap
<1>12. CASE PowerCut
  BY <1>12 DEF PowerCut, Up
<1> QED  BY <1>3, <1>4, <1>5, <1>6, <1>7, <1>8, <1>9, <1>10, <1>11, <1>12
            DEF Next, DriverStep, UploadStep, AttachStep, UserStep

----------------------------------------------------------------------------
(* The place of the table.                                                  *)

\* Setting a field of an entry leaves the others as they are.
LEMMA Fields ==
    ASSUME NEW pool \in Pool, NEW i \in Blocks, NEW j \in Blocks
    PROVE  /\ [pool EXCEPT ![i].block = 0][j].mapped = pool[j].mapped
           /\ j # i => [pool EXCEPT ![i].block = 0][j].block = pool[j].block
           /\ [pool EXCEPT ![i].mapped = "normal"][j].block = pool[j].block
           /\ j # i => [pool EXCEPT ![i].mapped = "normal"][j].mapped = pool[j].mapped
           /\ [pool[j] EXCEPT !.mapped = "no"].block = pool[j].block
BY DEF Pool, Entry

\* What remap_block_v2 changes in the entries up to that of the table: a mark, of one
\* before it.
LEMMA RemapPlace ==
    ASSUME TypeOK, NEW lb \in Logical, NEW copy \in BOOLEAN, NEW mark \in BOOLEAN,
           RemapBlock(lb, copy, mark)
    PROVE  /\ \A j \in Blocks : bmt_tbl'[j].block = bmt_tbl[j].block
           /\ bmt_blk_idx # None => bmt_tbl'[bmt_blk_idx].mapped = bmt_tbl[bmt_blk_idx].mapped
           /\ pc' \in {pc, "remap_erase", "wild"}
<1>1. bmt_tbl \in Pool /\ bmt_blk_idx \in Blocks \cup {None}
  BY DEF TypeOK
<1>2. CASE \E i \in Available : bmt_tbl' = Take(i) /\ pc' = "remap_erase"
  <2>1. PICK i \in Available : bmt_tbl' = Take(i) /\ pc' = "remap_erase"
    BY <1>2
  <2>2. i \in Blocks /\ (bmt_blk_idx # None => i < bmt_blk_idx)
    BY <2>1 DEF Available
  <2>3. bmt_blk_idx # None => bmt_blk_idx \in Blocks /\ i # bmt_blk_idx
    BY <1>1, <2>2, Sizes
  <2> QED  BY <1>1, <2>1, <2>2, <2>3, Fields DEF Take
<1>3. CASE UNCHANGED bbt /\ pc' \in {pc, "wild"}
  BY <1>3 DEF bbt
<1> QED  BY <1>2, <1>3 DEF RemapBlock

\* upload_bmt starts at an entry that is there, from which on down all are.
LEMMA CallPlace ==
    ASSUME TypeOK, Index, Up, ~Uploading, NEW voids, Upload(voids), Up',
           \A j \in Blocks : bmt_tbl'[j].block = bmt_tbl[j].block
    PROVE  pc' = "erase" /\ \A j \in 0..n' : bmt_tbl'[j].block # 0
<1>1. bmt_blk_idx # None /\ n' = bmt_blk_idx /\ pc' = "erase"
  BY DEF Upload, Up
<1>2. \A j \in 0..n' : j \in Blocks
  BY <1>1, Sizes DEF TypeOK
<1> QED  BY <1>1, <1>2 DEF Index

\* upload_bmt: what it tries, where it writes and what it leaves as the index.
LEMMA UploadPlace == ASSUME IInv, UploadStep PROVE Tries' /\ Writes' /\ Index'
<1>1. /\ TypeOK /\ Tries /\ Writes /\ Index /\ bmt_tbl \in Pool
      /\ n \in Blocks \cup {None} /\ Up /\ Uploading
  BY DEF IInv, TypeOK, UploadStep, UploadErase, UploadWrite, UploadFails, UploadNoRoom, Uploading,
         Up
<1>2. \A j \in 0..n : bmt_tbl[j].block # 0
  BY <1>1 DEF Tries
<1>3. CASE UploadErase
  <2>1. pc' \in {"init_write", "write"} /\ bmt_tbl' = bmt_tbl /\ n' = n /\ ~NoRoom
    BY <1>3 DEF UploadErase, bbt
  <2> QED  BY <1>2, <2>1 DEF Tries, Writes, Index, NoRoom, Uploading
<1>4. CASE UploadWrite
  <2>1. pc' \in {"remap_erase", "ready"} /\ bmt_tbl' = bmt_tbl /\ bmt_blk_idx' = n
    BY <1>4 DEF UploadWrite, bbt
  <2>2. bmt_tbl[n].mapped # "normal"
    BY <1>1, <1>4 DEF UploadWrite, Writes, NoRoom
  <2> QED  BY <1>2, <2>1, <2>2 DEF Tries, Writes, Index, Uploading
<1>5. CASE UploadFails
  <2>1. n \in Blocks /\ n' = n - 1 /\ bmt_tbl' = [bmt_tbl EXCEPT ![n].block = 0]
        /\ pc' \in {"erase", "init_erase"}
    BY <1>5 DEF UploadFails, NoRoom
  <2>2. ASSUME NEW j \in 0..(n - 1) PROVE bmt_tbl'[j].block # 0
    <3>1. j \in Blocks /\ j # n /\ j \in 0..n
      BY <2>1, Sizes
    <3> QED  BY <1>1, <1>2, <2>1, <3>1, Fields
  <2> QED  BY <2>1, <2>2 DEF Tries, Writes, Index, Uploading
<1>6. CASE UploadNoRoom
  <2>1. pc' \in {"dead", "remap_erase", "ready"} /\ bmt_blk_idx' = None
    BY <1>6 DEF UploadNoRoom
  <2> QED  BY <2>1 DEF Tries, Writes, Index, Uploading
<1> QED  BY <1>3, <1>4, <1>5, <1>6 DEF UploadStep

\* remap_block_v2.
LEMMA CopyPlace == ASSUME IInv, RemapStep PROVE Tries' /\ Writes' /\ Index'
<1>1. TypeOK /\ Index /\ Up /\ ~Uploading /\ bmt_tbl' = bmt_tbl /\ bmt_blk_idx' = bmt_blk_idx
  BY DEF IInv, RemapStep, RemapErase, RemapCopy, Uploading, Up, bbt
<1>2. CASE pc' \in {"remap_copy", "ready"}
  BY <1>1, <1>2 DEF Tries, Writes, Index, Uploading, Up
<1>3. CASE Upload({})
  <2>1. Up' => pc' = "erase" /\ \A j \in 0..n' : bmt_tbl'[j].block # 0
    BY <1>1, <1>3, CallPlace
  <2>2. pc' \in {"wild", "erase"}
    BY <1>3 DEF Upload
  <2> QED  BY <2>1, <2>2 DEF Tries, Writes, Index, Uploading, Up
<1> QED  BY <1>2, <1>3 DEF RemapStep, RemapErase, RemapCopy

\* mtk_bmt_init_v2.
LEMMA AttachPlace == ASSUME TypeOK, AttachStep PROVE Tries' /\ Writes' /\ Index'
<1>1. CASE AttachFound
  <2>1. PICK t \in Restart, i \in Blocks \ {0} :
            IsIndex(i, t.pool) /\ bmt_tbl' = t.pool /\ bmt_blk_idx' = i /\ pc' = "ready"
    BY <1>1 DEF AttachFound
  <2>2. t.pool[i].mapped = "bmt" /\ \A j \in 0..i : t.pool[j].block # 0
    BY <2>1 DEF IsIndex
  <2> QED  BY <2>1, <2>2 DEF Tries, Writes, Index, Uploading
<1>2. CASE AttachHalf
  BY <1>2 DEF AttachHalf, Tries, Writes, Index, Up
<1>3. CASE AttachScan
  BY <1>3, Scans DEF Tries, Writes, Index, Up, Uploading
<1> QED  BY <1>1, <1>2, <1>3 DEF AttachStep

\* What the user does.
LEMMA UserPlace == ASSUME IInv, UserStep PROVE Tries' /\ Writes' /\ Index'
<1>1. TypeOK /\ Index /\ Up /\ ~Uploading /\ Ready /\ bmt_blk_idx' = bmt_blk_idx
      /\ bmt_tbl \in Pool /\ bmt_blk_idx \in Blocks \cup {None}
  BY DEF IInv, TypeOK, UserStep, UserFree, UserWrite, UserFault, UserRemap, UserIsBad, UserUnmap,
         Ready, Uploading, Up
<1>2. ASSUME NEW voids, Upload(voids), \A j \in Blocks : bmt_tbl'[j].block = bmt_tbl[j].block
      PROVE  Tries' /\ Writes' /\ Index'
  <2>1. Up' => pc' = "erase" /\ \A j \in 0..n' : bmt_tbl'[j].block # 0
    BY <1>1, <1>2, CallPlace
  <2>2. pc' \in {"wild", "erase"}
    BY <1>2 DEF Upload
  <2> QED  BY <2>1, <2>2 DEF Tries, Writes, Index, Uploading, Up
<1>3. CASE UserFree
  <2>1. PICK free :
          /\ bmt_tbl' = [i \in Blocks |-> IF i \in free THEN [bmt_tbl[i] EXCEPT !.mapped = "no"]
                                          ELSE bmt_tbl[i]]
          /\ \E voids : Upload(voids)
    BY <1>3 DEF UserFree
  <2>2. \A j \in Blocks : bmt_tbl'[j].block = bmt_tbl[j].block
    BY <1>1, <2>1, Fields
  <2> QED  BY <1>2, <2>1, <2>2
<1>4. ASSUME NEW lb \in User, UserWrite(lb) PROVE Tries' /\ Writes' /\ Index'
  BY <1>1, <1>4 DEF UserWrite, Ready, Tries, Writes, Index, Uploading, Up, bbt
<1>5. ASSUME NEW lb \in User, UserFault(lb) \/ UserRemap(lb) \/ UserIsBad(lb)
      PROVE  Tries' /\ Writes' /\ Index'
  <2>1. PICK copy \in BOOLEAN, mark \in BOOLEAN : RemapBlock(lb, copy, mark)
    BY <1>5 DEF UserFault, UserRemap, UserIsBad
  <2>2. lb \in Logical
    BY Sizes
  <2>3. /\ \A j \in Blocks : bmt_tbl'[j].block = bmt_tbl[j].block
        /\ bmt_blk_idx # None => bmt_tbl'[bmt_blk_idx].mapped = bmt_tbl[bmt_blk_idx].mapped
        /\ pc' \in {"ready", "remap_erase", "wild"}
    BY <1>1, <2>1, <2>2, RemapPlace DEF Ready
  <2>4. bmt_blk_idx # None => \A j \in 0..bmt_blk_idx : j \in Blocks
    BY <1>1, Sizes
  <2> QED  BY <1>1, <2>3, <2>4 DEF Tries, Writes, Index, Uploading, Up
<1>6. ASSUME NEW lb \in User, NEW repair \in BOOLEAN, UserUnmap(lb, repair)
      PROVE  Tries' /\ Writes' /\ Index'
  <2>1. (\E voids : Upload(voids)) /\ bmt_tbl' = bmt_tbl
    BY <1>6 DEF UserUnmap
  <2> QED  BY <1>2, <2>1
<1> QED  BY <1>3, <1>4, <1>5, <1>6 DEF UserStep

\* Every step keeps the place of the table.
LEMMA PlaceStep == ASSUME IInv, Next PROVE Tries' /\ Writes' /\ Index'
<1>1. CASE PowerCut
  BY <1>1 DEF PowerCut, Tries, Writes, Index, Up, Uploading
<1> QED  BY <1>1, UploadPlace, CopyPlace, AttachPlace, UserPlace DEF IInv, Next, DriverStep

----------------------------------------------------------------------------
(* The data.                                                                *)

Copying == pc \in {"remap_erase", "remap_copy"}

\* Where a logical block is while it may be on its way to a new one.
Where(lb) == IF Copying /\ ~req.repair /\ lb = req.lb THEN req.old ELSE bb_tbl[lb]

\* The driver that is up knows where the data are,
Keeps == Sound /\ "cut" \notin weak
MemData == Up /\ Keeps => \A lb \in intact : content[Where(lb)] = DataOf(lb)

\* and what it copies from and to.
Remapping ==
    /\ Copying => /\ req.new = bb_tbl[req.lb]
                  /\ Trusted => req.old # req.new
                  /\ req.lb \in intact /\ ~req.repair => req.copy
    /\ req.repair => /\ pc \in {"erase", "write", "remap_erase", "remap_copy", "wild"}
                     /\ req.new = bb_tbl[req.lb] /\ req.old # req.new
                     /\ req.new < PoolLba /\ req.lb \notin intact /\ req.copy

\* A cut or a wild access is not forgotten before the next scan.
Tags ==
    /\ pc = "off" => weak = {} \/ "cut" \in weak
    /\ pc = "wild" => "wild" \in weak

\* The entry of the table, in a pool.
Marks(i, pool) ==
    /\ \A j \in 0..i : pool[j].block # 0
    /\ pool[i].mapped = "bmt" /\ \A j \in 0..(i - 1) : pool[j].mapped # "bmt"
Home == bmt_tbl[bmt_blk_idx].block

\* Nothing above the table passes for one, and no copy goes to it.
Plain(b) == content[b].k \notin {"table", "half"}
AtHome ==
    weak = {} /\ Up =>
        /\ bmt_blk_idx \in Blocks \ {0} /\ Marks(bmt_blk_idx, bmt_tbl)
        /\ Uploading => n = bmt_blk_idx
        /\ \A b \in Blocks : b > Home => Plain(b)
        /\ Copying => req.new < Home

\* The table on the flash is the one to start with, and leads to the data.
Saved ==
    weak = {} /\ Up /\ ~Uploading =>
        /\ content[Home].k = "table"
        /\ Marks(bmt_blk_idx, content[Home].t.pool)
        /\ content[Home].t.pool[bmt_blk_idx].block = Home
        /\ \A lb \in Logical : content[Home].t.bb[lb] = Where(lb)
Leads(h) ==
    /\ content[h].k = "table" /\ h >= PoolLba /\ \A b \in Blocks : b > h => Plain(b)
    /\ \E i \in Blocks \ {0} : Marks(i, content[h].t.pool) /\ content[h].t.pool[i].block = h
Left ==
    weak = {} /\ pc \in {"off", "dead"} =>
        \/ intact = {} /\ Restart = {}
        \/ \E h \in Blocks : /\ Leads(h)
                             /\ \A lb \in intact : content[content[h].t.bb[lb]] = DataOf(lb)

DInv == IInv /\ MemData /\ Remapping /\ Tags /\ AtHome /\ Saved /\ Left

\* Tags are set where they are due.
LEMMA TagsStep == ASSUME Tags, Next PROVE Tags'
<1>1. CASE UploadStep
  BY <1>1 DEF UploadStep, UploadErase, UploadWrite, UploadFails, UploadNoRoom, Tags
<1>2. CASE AttachStep
  BY <1>2 DEF AttachStep, AttachFound, AttachHalf, AttachScan, Tags
<1>3. CASE RemapStep
  BY <1>3 DEF RemapStep, RemapErase, RemapCopy, Upload, Tags
<1>4. CASE UserFree \/ \E lb \in User, repair \in BOOLEAN : UserUnmap(lb, repair)
  BY <1>4 DEF UserFree, UserUnmap, Upload, Tags
<1>5. CASE \E lb \in User : UserWrite(lb) \/ UserFault(lb) \/ UserRemap(lb) \/ UserIsBad(lb)
  BY <1>5 DEF UserWrite, UserFault, UserRemap, UserIsBad, RemapBlock, Ready, Tags
<1>6. CASE PowerCut
  BY <1>6 DEF PowerCut, Tags
<1> QED  BY <1>1, <1>2, <1>3, <1>4, <1>5, <1>6 DEF Next, DriverStep, UserStep

\* What the types and the invariant say of a driver that is up.
LEMMA Known ==
    ASSUME IInv, Trusted, Up
    PROVE  /\ Fits(bb_tbl, bmt_tbl) /\ bb_tbl \in [Logical -> Blocks] /\ bmt_tbl \in Pool
           /\ content \in [Blocks -> Content] /\ req \in Request /\ intact \subseteq Logical
           /\ \A x, y \in Logical : bb_tbl[x] = bb_tbl[y] => x = y
BY DEF IInv, TypeOK, InMemory, Fits

\* upload_bmt writes where no logical block is.
LEMMA UploadApart ==
    ASSUME IInv, Trusted, Up, Uploading, ~NoRoom
    PROVE  n \in Blocks /\ \A lb \in Logical : bb_tbl[lb] # bmt_tbl[n].block
<1>1. n \in Blocks /\ bmt_tbl[n].mapped # "normal" /\ n \in 0..n
  BY Sizes DEF NoRoom
<1> QED  BY <1>1, Known DEF IInv, Tries, Fits

\* A remap of a ready driver has taken a block that nothing was mapped to.
LEMMA Taken ==
    ASSUME IInv, Ready, NEW lb \in Logical, NEW copy \in BOOLEAN, NEW mark \in BOOLEAN,
           RemapBlock(lb, copy, mark), pc' = "remap_erase"
    PROVE  \E i \in Available :
               /\ bmt_tbl' = Take(i) /\ bb_tbl' = [bb_tbl EXCEPT ![lb] = bmt_tbl[i].block]
               /\ req' = [lb |-> lb, old |-> bb_tbl[lb], new |-> bmt_tbl[i].block,
                          copy |-> copy, mark |-> mark, repair |-> FALSE]
               /\ i \in Blocks /\ bmt_tbl[i].block \in Blocks /\ bmt_tbl[i].block # 0
               /\ Trusted => \A x \in Logical : bb_tbl[x] # bmt_tbl[i].block
<1>1. PICK i \in Available :
          /\ bmt_tbl' = Take(i) /\ bb_tbl' = [bb_tbl EXCEPT ![lb] = bmt_tbl[i].block]
          /\ req' = [lb |-> lb, old |-> bb_tbl[lb], new |-> bmt_tbl[i].block,
                     copy |-> copy, mark |-> mark, repair |-> FALSE]
  BY DEF RemapBlock, Ready
<1>2. i \in Blocks /\ bmt_tbl[i].block # 0 /\ bmt_tbl[i].mapped = "no"
  BY <1>1 DEF Available
<1>3. bmt_tbl[i].block \in Blocks
  BY <1>2, Entries DEF IInv, TypeOK
<1>4. Trusted => \A x \in Logical : bb_tbl[x] # bmt_tbl[i].block
  BY <1>2, Known DEF Fits, Ready, Up
<1> QED  BY <1>1, <1>2, <1>3, <1>4

\* What is copied, and where to.
LEMMA RemappingStep == ASSUME IInv, Remapping, Next PROVE Remapping'
<1>1. /\ TypeOK /\ bb_tbl \in [Logical -> Blocks] /\ req \in Request
      /\ \A lb \in User : lb \in Logical /\ lb < PoolLba
  BY Sizes DEF IInv, TypeOK
<1>2. CASE UploadStep
  BY <1>2 DEF UploadStep, UploadErase, UploadWrite, UploadFails, UploadNoRoom, Remapping, Copying,
              NoReq, bbt, Uploading, Trusted
<1>3. CASE AttachStep
  <2>1. ~req.repair
    BY <1>3 DEF AttachStep, AttachFound, AttachHalf, AttachScan, Remapping
  <2>2. req' = req /\ pc' \in {"ready", "wild", "dead", "init_erase"}
    BY <1>3 DEF AttachStep, AttachFound, AttachHalf, AttachScan
  <2> QED  BY <2>1, <2>2 DEF Remapping, Copying
<1>4. CASE RemapErase
  <2>1. bb_tbl' = bb_tbl /\ req' = req /\ intact' = intact /\ Copying /\ Trusted' => Trusted
    BY <1>4 DEF RemapErase, Upload, bbt, Copying, Trusted
  <2>2. pc' \in {"remap_copy", "erase", "wild"}
    BY <1>4 DEF RemapErase, Upload
  <2> QED  BY <1>4, <2>1, <2>2 DEF Remapping, Copying, RemapErase, bbt, Trusted, Upload
<1>5. CASE RemapCopy
  <2>1. CASE req.repair
    BY <1>5, <2>1 DEF RemapCopy, Remapping, Copying, NoReq
  <2>2. CASE ~req.repair
    BY <1>5, <2>2 DEF RemapCopy, Remapping, Copying, Upload
  <2> QED  BY <2>1, <2>2
<1>6. ASSUME UserFree \/ \E lb \in User : UserWrite(lb) PROVE Remapping'
  <2>1. ~req.repair /\ req' = req /\ pc' \in {"ready", "erase", "wild"}
    BY <1>6 DEF UserFree, UserWrite, Ready, Upload, Remapping
  <2> QED  BY <2>1 DEF Remapping, Copying
<1>7. ASSUME NEW lb \in User, NEW copy \in BOOLEAN, NEW mark \in BOOLEAN,
             Ready, RemapBlock(lb, copy, mark), copy \/ lb \notin intact'
      PROVE  Remapping'
  <2>1. CASE pc' = "remap_erase"
    <3>1. PICK i \in Available :
            /\ bb_tbl' = [bb_tbl EXCEPT ![lb] = bmt_tbl[i].block]
            /\ req' = [lb |-> lb, old |-> bb_tbl[lb], new |-> bmt_tbl[i].block,
                       copy |-> copy, mark |-> mark, repair |-> FALSE]
            /\ Trusted => \A x \in Logical : bb_tbl[x] # bmt_tbl[i].block
      BY <1>1, <1>7, <2>1, Taken
    <3>2. req'.lb = lb /\ req'.old = bb_tbl[lb] /\ req'.new = bmt_tbl[i].block
          /\ req'.copy = copy /\ req'.repair = FALSE /\ bb_tbl'[lb] = bmt_tbl[i].block
      BY <1>1, <3>1
    <3>3. Trusted' => Trusted
      BY <1>7 DEF RemapBlock, Trusted
    <3> QED  BY <1>1, <1>7, <3>1, <3>2, <3>3 DEF Remapping
  <2>2. CASE pc' # "remap_erase"
    <3>1. ~req.repair /\ req' = req /\ pc' \in {"ready", "wild"}
      BY <1>7, <2>2 DEF RemapBlock, Ready, Remapping
    <3> QED  BY <3>1 DEF Remapping, Copying
  <2> QED  BY <2>1, <2>2
<1>8. ASSUME NEW lb \in User, UserFault(lb) \/ UserRemap(lb) \/ UserIsBad(lb) PROVE Remapping'
  <2>1. PICK copy \in BOOLEAN, mark \in BOOLEAN :
            Ready /\ RemapBlock(lb, copy, mark) /\ (copy \/ lb \notin intact')
    BY <1>8 DEF UserFault, UserRemap, UserIsBad
  <2> QED  BY <1>7, <2>1
<1>9. ASSUME NEW lb \in User, NEW repair \in BOOLEAN, UserUnmap(lb, repair) PROVE Remapping'
  <2>1. pc' \in {"erase", "wild"} /\ bb_tbl'[lb] = lb
    BY <1>1, <1>9 DEF UserUnmap, Upload
  <2>2. req'.lb = lb /\ req'.old = bb_tbl[lb] /\ req'.new = lb /\ req'.copy = TRUE
        /\ (req'.repair => bb_tbl[lb] # lb)
    BY <1>9 DEF UserUnmap
  <2>3. bb_tbl[lb] # lb => lb \notin intact'
    BY <1>9 DEF UserUnmap
  <2> QED  BY <1>1, <2>1, <2>2, <2>3 DEF Remapping, Copying
<1>10. CASE PowerCut
  BY <1>10 DEF PowerCut, Remapping, Copying, NoReq
<1> QED  BY <1>2, <1>3, <1>4, <1>5, <1>6, <1>8, <1>9, <1>10
            DEF Next, DriverStep, RemapStep, UserStep

\* get_bmt_index finds the first entry that is marked, if none before it is empty,
LEMMA IndexMarks ==
    ASSUME NEW pool, NEW i \in Blocks \ {0}
    PROVE  IsIndex(i, pool) <=> Marks(i, pool)
<1>1. i # 0 /\ \A j \in 0..i : j \in Blocks
  BY Sizes
<1> QED  BY <1>1 DEF IsIndex, Marks

\* of which there is one.
LEMMA OneIndex ==
    ASSUME NEW pool, NEW i \in Blocks, NEW j \in Blocks, Marks(i, pool), Marks(j, pool)
    PROVE  i = j
<1>1. i \in Nat /\ j \in Nat
  BY Sizes
<1>2. ASSUME i < j PROVE FALSE
  <2>1. i \in 0..(j - 1)
    BY <1>1, <1>2
  <2> QED  BY <2>1 DEF Marks
<1>3. ASSUME j < i PROVE FALSE
  <2>1. j \in 0..(i - 1)
    BY <1>1, <1>3
  <2> QED  BY <2>1 DEF Marks
<1> QED  BY <1>1, <1>2, <1>3

\* A table above which nothing passes for one is the one that is loaded.
LEMMA OneRestart ==
    ASSUME NEW h \in Blocks, Leads(h)
    PROVE  Restart = {content[h].t}
<1>1. h \in PoolLba..(TotalBlks - 1) /\ content[h].k = "table"
  BY Sizes DEF Leads
<1>2. h \in Signed
  BY <1>1 DEF Signed
<1>3. \A x \in Signed : x \in Blocks /\ ~Plain(x)
  BY Sizes DEF Signed, Plain
<1>4. \A x \in Signed : x <= h
  BY <1>3, Sizes DEF Leads
<1>5. Top = {h}
  <2>1. \A x \in Signed : x \in Nat
    BY <1>3, Sizes
  <2> QED  BY <1>2, <1>4, <2>1 DEF Top
<1>6. \E i \in Blocks \ {0} : IsIndex(i, content[h].t.pool)
  BY IndexMarks DEF Leads
<1> HIDE DEF Leads
<1> QED  BY <1>1, <1>5, <1>6 DEF Restart

\* What a remap overwrites is not where data are.
LEMMA Elsewhere ==
    ASSUME IInv, Remapping, Copying, Trusted, NEW lb \in intact
    PROVE  Where(lb) # req.new
<1>1. \A x, y \in Logical : bb_tbl[x] = bb_tbl[y] => x = y
  BY Known DEF Copying, Up
<1>2. lb \in Logical /\ req.lb \in Logical
  BY DEF IInv, TypeOK, Request
<1>3. CASE ~req.repair /\ lb = req.lb
  BY <1>3 DEF Where, Remapping
<1>4. CASE ~(~req.repair /\ lb = req.lb)
  <2>1. lb # req.lb
    BY <1>4 DEF Remapping
  <2> QED  BY <1>1, <1>2, <1>4, <2>1 DEF Where, Remapping
<1> QED  BY <1>3, <1>4

\* Data are told apart.
LEMMA DataApart == \A x, y \in Logical : DataOf(x) = DataOf(y) => x = y
BY DEF DataOf

\* mtk_bmt_init_v2 loads what leads to the data.
LEMMA FoundMem == ASSUME DInv, AttachFound, Keeps' PROVE MemData'
<1>1. weak = {} /\ pc = "off" /\ pc' = "ready" /\ content' = content /\ intact' = intact
  BY DEF AttachFound, DInv, Tags, Keeps, flash
<1>2. PICK t \in Restart : bb_tbl' = t.bb
  BY DEF AttachFound
<1>3. PICK h \in Blocks : /\ Leads(h)
                          /\ \A lb \in intact : content[content[h].t.bb[lb]] = DataOf(lb)
  BY <1>1, <1>2 DEF DInv, Left
<1>4. t = content[h].t
  BY <1>2, <1>3, OneRestart
<1> QED  BY <1>1, <1>2, <1>3, <1>4 DEF MemData, Where, Copying

\* remap_block_v2 copies the data before the table leads to the copy.
LEMMA CopyMem == ASSUME DInv, RemapStep, Up', Keeps' PROVE MemData'
<1>1. /\ IInv /\ MemData /\ Remapping /\ Up /\ Copying /\ Keeps /\ Trusted
      /\ weak \subseteq weak' /\ bb_tbl' = bb_tbl
  BY DEF DInv, RemapStep, RemapErase, RemapCopy, Upload, Up, Copying, Keeps, Sound, Trusted, bbt
<1>2. /\ content \in [Blocks -> Content] /\ req.new \in Blocks /\ req.lb \in Logical
      /\ intact \subseteq Logical /\ req.new = bb_tbl[req.lb]
      /\ \A x, y \in Logical : bb_tbl[x] = bb_tbl[y] => x = y
  BY <1>1, Known DEF Request, Remapping
<1>3. \A lb \in intact : content[Where(lb)] = DataOf(lb) /\ Where(lb) # req.new
  BY <1>1, Elsewhere DEF MemData
<1>4. CASE RemapErase
  <2>1. intact' = intact /\ req' = req /\ pc' \in {"remap_copy", "erase"}
        /\ (pc' = "erase" => ~req.copy) /\ \A b \in Blocks \ {req.new} : content'[b] = content[b]
    BY <1>1, <1>2, <1>4 DEF RemapErase, EraseNew, Ruin, Upload, Up
  <2>2. \A lb \in intact : content'[Where(lb)] = DataOf(lb)
    <3>1. \A lb \in intact : Where(lb) \in Blocks
      BY <1>1, <1>2, Known DEF Where, Request
    <3> QED  BY <1>3, <2>1, <3>1
  <2>3. ASSUME NEW lb \in intact PROVE Where(lb)' = Where(lb)
    BY <1>1, <2>1, <2>3 DEF Where, Copying, Remapping
  <2> QED  BY <2>1, <2>2, <2>3 DEF MemData
<1>5. CASE RemapCopy
  <2>1. pc' \in {"ready", "erase"}
    BY <1>1, <1>5 DEF RemapCopy, Upload, Up
  <2>2. \A lb : Where(lb)' = bb_tbl[lb]
    BY <1>1, <2>1 DEF Where, Copying
  <2>3. ASSUME NEW lb \in intact, lb # req.lb PROVE content'[bb_tbl[lb]] = DataOf(lb)
    <3>1. bb_tbl[lb] # req.new /\ bb_tbl[lb] \in Blocks /\ Where(lb) = bb_tbl[lb]
      BY <1>1, <1>2, <2>3, Known DEF Where
    <3>2. content'[bb_tbl[lb]] = content[bb_tbl[lb]]
      BY <1>2, <1>5, <3>1 DEF RemapCopy, Ruin
    <3> QED  BY <1>3, <3>1, <3>2
  <2>4. ASSUME req.lb \in intact' PROVE content'[req.new] = DataOf(req.lb)
    <3>1. content' = [content EXCEPT ![req.new] = content[req.old]]
          /\ (intact' = intact \/ content[req.old] = DataOf(req.lb))
      BY <1>5, <2>4 DEF RemapCopy
    <3>2. content'[req.new] = content[req.old]
      BY <1>2, <3>1
    <3>3. req.lb \in intact => content[req.old] = DataOf(req.lb)
      BY <1>1, <1>3 DEF Where, Remapping
    <3> QED  BY <2>4, <3>1, <3>2, <3>3
  <2>5. intact' \subseteq intact \cup {req.lb}
    BY <1>5 DEF RemapCopy
  <2> QED  BY <1>2, <2>2, <2>3, <2>4, <2>5 DEF MemData
<1> QED  BY <1>4, <1>5 DEF RemapStep

\* The data stay where the driver looks for them.
LEMMA MemStep == ASSUME DInv, Next PROVE MemData'
<1> SUFFICES ASSUME Up', Keeps' PROVE MemData'
  BY DEF MemData
<1>1. IInv /\ MemData /\ TypeOK
  BY DEF DInv, IInv
<1>2. CASE UploadStep
  <2>1. /\ Up /\ Uploading /\ Keeps /\ Trusted /\ bb_tbl' = bb_tbl /\ intact' = intact
        /\ (Copying' => req'.repair) /\ ~Copying
    BY <1>2 DEF UploadStep, UploadErase, UploadWrite, UploadFails, UploadNoRoom, Uploading, Up,
                Keeps, Sound, Trusted, bbt, Copying
  <2>2. \A lb : Where(lb) = bb_tbl[lb] /\ Where(lb)' = bb_tbl[lb]
    BY <2>1 DEF Where
  <2>3. ASSUME NEW lb \in Logical PROVE content'[bb_tbl[lb]] = content[bb_tbl[lb]]
    <3>1. CASE UploadNoRoom
      BY <3>1 DEF UploadNoRoom
    <3>2. CASE ~UploadNoRoom
      <4>1. ~NoRoom
        BY <1>1, <1>2, <3>2 DEF IInv, Writes, UploadStep, UploadErase, UploadWrite, UploadFails
      <4>2. /\ bb_tbl[lb] # bmt_tbl[n].block /\ bb_tbl[lb] \in Blocks
            /\ content \in [Blocks -> Content]
        BY <1>1, <2>1, <4>1, UploadApart, Known
      <4>3. Given(content', bmt_tbl[n].block)
        BY <1>2 DEF UploadStep, UploadErase, UploadWrite, UploadFails, UploadNoRoom, Given, Memory
      <4> QED  BY <4>2, <4>3 DEF Given, Ruin
    <3> QED  BY <3>1, <3>2
  <2> QED  BY <1>1, <2>1, <2>2, <2>3 DEF MemData, TypeOK
<1>3. CASE AttachFound
  BY <1>3, FoundMem
<1>4. CASE AttachHalf \/ PowerCut
  BY <1>4 DEF AttachHalf, PowerCut, Up
<1>5. CASE AttachScan
  BY <1>5 DEF AttachScan, MemData
<1>6. CASE RemapStep
  BY <1>6, CopyMem
<1>7. CASE UserStep
  <2>1. /\ Ready /\ Up /\ ~Copying /\ weak \subseteq weak' /\ Keeps /\ Trusted
    BY <1>7 DEF UserStep, UserFree, UserWrite, UserFault, UserRemap, UserIsBad, UserUnmap,
                RemapBlock, Upload, Ready, Up, Copying, Keeps, Sound, Trusted
  <2>2. /\ bb_tbl \in [Logical -> Blocks] /\ content \in [Blocks -> Content]
        /\ intact \subseteq Logical /\ \A x, y \in Logical : bb_tbl[x] = bb_tbl[y] => x = y
    BY <1>1, <2>1, Known
  <2>3. \A x \in intact : content[bb_tbl[x]] = DataOf(x)
    BY <1>1, <2>1 DEF MemData, Where
  <2>4. CASE UserFree
    <3>1. content' = content /\ intact' = intact /\ bb_tbl' = bb_tbl /\ pc' = "erase"
      BY <2>4 DEF UserFree, Upload, Up, flash
    <3> QED  BY <2>3, <3>1 DEF MemData, Where, Copying
  <2>5. ASSUME NEW lb \in User, UserWrite(lb) PROVE MemData'
    <3>1. lb \in Logical /\ pc' = "ready" /\ bb_tbl' = bb_tbl /\ intact' = intact \cup {lb}
      BY <2>5, Sizes DEF UserWrite, Ready, bbt
    <3>2. content'[bb_tbl[lb]] = DataOf(lb)
      BY <2>2, <2>5, <3>1 DEF UserWrite
    <3>3. ASSUME NEW x \in intact, x # lb PROVE content'[bb_tbl[x]] = DataOf(x)
      <4>1. bb_tbl[x] \in Blocks /\ bb_tbl[x] # bb_tbl[lb] /\ DataOf(x) # DataOf(lb)
        BY <2>2, <3>1, <3>3, DataApart
      <4> QED  BY <2>3, <2>5, <4>1 DEF UserWrite
    <3> QED  BY <3>1, <3>2, <3>3 DEF MemData, Where, Copying
  <2>6. ASSUME NEW lb \in User, NEW copy \in BOOLEAN, NEW mark \in BOOLEAN,
               RemapBlock(lb, copy, mark)
        PROVE  \A x \in Logical : Where(x)' = bb_tbl[x]
    <3>1. lb \in Logical
      BY Sizes
    <3>2. CASE pc' = "remap_erase"
      <4>1. PICK i \in Available :
              /\ bb_tbl' = [bb_tbl EXCEPT ![lb] = bmt_tbl[i].block]
              /\ req' = [lb |-> lb, old |-> bb_tbl[lb], new |-> bmt_tbl[i].block,
                         copy |-> copy, mark |-> mark, repair |-> FALSE]
        BY <1>1, <2>1, <2>6, <3>1, <3>2, Taken
      <4>2. req'.lb = lb /\ req'.old = bb_tbl[lb] /\ req'.repair = FALSE
        BY <4>1
      <4>3. \A x \in Logical : x # lb => bb_tbl'[x] = bb_tbl[x]
        BY <2>2, <4>1
      <4> QED  BY <3>2, <4>2, <4>3 DEF Where, Copying
    <3>3. CASE pc' # "remap_erase"
      <4>1. pc' = "ready" /\ bb_tbl' = bb_tbl
        BY <2>1, <2>6, <3>3 DEF RemapBlock, Ready, Up, bbt
      <4> QED  BY <4>1 DEF Where, Copying
    <3> QED  BY <3>2, <3>3
  <2>7. ASSUME NEW lb \in User, UserFault(lb) PROVE MemData'
    <3>1. PICK copy \in BOOLEAN : RemapBlock(lb, copy, FALSE)
      BY <2>7 DEF UserFault
    <3>2. content' = [content EXCEPT ![bb_tbl[lb]] = Holds("torn")] /\ intact' = intact \ {lb}
          /\ lb \in Logical
      BY <2>7, Sizes DEF UserFault, Ruin
    <3>3. ASSUME NEW x \in intact, x # lb PROVE content'[bb_tbl[x]] = DataOf(x)
      <4>1. bb_tbl[x] # bb_tbl[lb]
        BY <2>2, <3>2, <3>3
      <4>2. content'[bb_tbl[x]] = content[bb_tbl[x]]
        BY <2>2, <3>2, <4>1
      <4> QED  BY <2>3, <4>2
    <3>4. \A x \in Logical : Where(x)' = bb_tbl[x]
      BY <2>6, <3>1
    <3> QED  BY <2>2, <3>2, <3>3, <3>4 DEF MemData
  <2>8. ASSUME NEW lb \in User, UserRemap(lb) \/ UserIsBad(lb) PROVE MemData'
    <3>1. PICK mark \in BOOLEAN : RemapBlock(lb, TRUE, mark)
      BY <2>8 DEF UserRemap, UserIsBad
    <3>2. content' = content /\ intact' = intact
      BY <2>8 DEF UserRemap, UserIsBad
    <3>3. \A x \in Logical : Where(x)' = bb_tbl[x]
      BY <2>6, <3>1
    <3> QED  BY <2>2, <2>3, <3>2, <3>3 DEF MemData
  <2>9. ASSUME NEW lb \in User, NEW repair \in BOOLEAN, UserUnmap(lb, repair) PROVE MemData'
    <3>1. /\ bb_tbl' = [bb_tbl EXCEPT ![lb] = lb] /\ content' = content /\ pc' = "erase"
          /\ intact' = IF bb_tbl[lb] = lb THEN intact ELSE intact \ {lb}
      BY <2>9 DEF UserUnmap, Upload, Up, flash
    <3>2. \A x \in intact' : x \in intact /\ bb_tbl'[x] = bb_tbl[x]
      BY <2>2, <3>1
    <3> QED  BY <2>3, <3>1, <3>2 DEF MemData, Where, Copying
  <2> QED  BY <1>7, <2>4, <2>5, <2>7, <2>8, <2>9 DEF UserStep
<1> QED  BY <1>2, <1>3, <1>4, <1>5, <1>6, <1>7 DEF Next, DriverStep, AttachStep

\* While nothing voids the promises, the table's block is of the pool, and no logical
\* block is mapped to it.
LEMMA HomeApart ==
    ASSUME DInv, weak = {}, Up
    PROVE  /\ bmt_blk_idx \in Blocks \ {0} /\ bmt_blk_idx \in 0..bmt_blk_idx /\ bmt_blk_idx # None
           /\ bmt_tbl[bmt_blk_idx].mapped = "bmt"
           /\ Home \in Blocks /\ Home # 0 /\ Home >= PoolLba
           /\ \A lb \in Logical : bb_tbl[lb] # Home
           /\ \A i \in Blocks : i < bmt_blk_idx /\ bmt_tbl[i].block # 0 => bmt_tbl[i].block < Home
<1>1. bmt_blk_idx \in Blocks \ {0} /\ Marks(bmt_blk_idx, bmt_tbl)
  BY DEF DInv, AtHome
<1>2. bmt_blk_idx \in 0..bmt_blk_idx
  BY <1>1, Sizes
<1>3. bmt_tbl[bmt_blk_idx].mapped = "bmt" /\ Home # 0
  BY <1>1, <1>2 DEF Marks, Home
<1>4. Fits(bb_tbl, bmt_tbl) /\ bmt_tbl \in Pool
  BY Known DEF DInv, Trusted
<1>5. Home \in Blocks
  BY <1>1, <1>4, Entries DEF Home
<1> QED  BY <1>1, <1>2, <1>3, <1>4, <1>5, Sizes DEF Fits, Home

\* What the table on the flash leads to, while no table is being written.
LEMMA Safe ==
    ASSUME DInv, weak = {}, Up, ~Uploading
    PROVE  /\ Home \in Blocks /\ Leads(Home)
           /\ \A lb \in intact : /\ content[Home].t.bb[lb] = Where(lb)
                                 /\ content[Where(lb)] = DataOf(lb)
<1>1. /\ Home \in Blocks /\ Home >= PoolLba /\ bmt_blk_idx \in Blocks \ {0}
  BY HomeApart
<1>2. \A b \in Blocks : b > Home => Plain(b)
  BY DEF DInv, AtHome
<1>3. /\ content[Home].k = "table" /\ Marks(bmt_blk_idx, content[Home].t.pool)
      /\ content[Home].t.pool[bmt_blk_idx].block = Home
      /\ \A lb \in Logical : content[Home].t.bb[lb] = Where(lb)
  BY DEF DInv, Saved
<1>4. \A lb \in intact : lb \in Logical /\ content[Where(lb)] = DataOf(lb)
  BY DEF DInv, MemData, Keeps, Sound, IInv, TypeOK
<1>5. Leads(Home)
  <2> HIDE DEF Home
  <2> QED  BY <1>1, <1>2, <1>3 DEF Leads
<1> QED  BY <1>1, <1>3, <1>4, <1>5

\* The block that holds the table stays what it is when another, not above it, changes.
LEMMA Below ==
    ASSUME NEW x \in Blocks, NEW h \in Blocks, x < h,
           \A b \in Blocks \ {x} : content'[b] = content[b],
           \A b \in Blocks : b > h => Plain(b)
    PROVE  content'[h] = content[h] /\ \A b \in Blocks : b > h => Plain(b)'
<1>1. h # x /\ \A b \in Blocks : b > h => b # x
  BY Sizes
<1> QED  BY <1>1 DEF Plain

\* upload_bmt writes the table at home.
LEMMA UploadHome == ASSUME DInv, UploadStep, weak' = {} PROVE AtHome' /\ Saved' /\ Left'
<1>1. weak = {} /\ Up /\ Uploading /\ (UploadErase \/ UploadWrite)
  BY DEF UploadStep, UploadErase, UploadWrite, UploadFails, UploadNoRoom, Up, Uploading
<1>2. /\ n = bmt_blk_idx /\ Marks(bmt_blk_idx, bmt_tbl) /\ \A b \in Blocks : b > Home => Plain(b)
      /\ bmt_blk_idx \in Blocks \ {0} /\ Home \in Blocks /\ Home >= PoolLba
  BY <1>1, HomeApart DEF DInv, AtHome
<1>3. /\ content \in [Blocks -> Content] /\ bmt_tbl' = bmt_tbl /\ bb_tbl' = bb_tbl /\ n' = n
      /\ bmt_blk_idx' = bmt_blk_idx /\ Home' = Home /\ pc' \notin {"off", "dead"}
  BY <1>1, <1>2 DEF UploadErase, UploadWrite, DInv, IInv, TypeOK, bbt, Home
<1>4. \A b \in Blocks \ {Home} : content'[b] = content[b]
  BY <1>1, <1>2, <1>3 DEF UploadErase, UploadWrite, Home
<1>5. \A b \in Blocks : b > Home => Plain(b)'
  BY <1>2, <1>4, Sizes DEF Plain
<1>6. Copying' => req' = req /\ req.repair
  BY <1>1 DEF UploadErase, UploadWrite, Copying
<1>7. Copying' => req'.new < Home
  <2>1. Copying' => req.new < PoolLba /\ req.new \in Nat
    BY <1>6, Sizes DEF DInv, Remapping, IInv, TypeOK, Request
  <2> QED  BY <1>2, <1>6, <2>1, Sizes
<1>8. AtHome'
  BY <1>2, <1>3, <1>5, <1>7 DEF AtHome, Marks, Uploading
<1>9. Saved'
  <2>1. CASE UploadErase
    BY <2>1 DEF UploadErase, Saved, Uploading
  <2>2. CASE UploadWrite
    <3>1. content'[Home] = Memory
      BY <1>2, <1>3, <2>2 DEF UploadWrite, Memory, Home
    <3>2. Memory.k = "table" /\ Memory.t.bb = bb_tbl /\ Memory.t.pool = bmt_tbl
      BY MemoryTypes DEF DInv, IInv
    <3>3. \A lb : Where(lb)' = bb_tbl[lb]
      BY <1>3, <1>6 DEF Where
    <3>4. bmt_tbl[bmt_blk_idx].block = Home
      BY DEF Home
    <3> HIDE DEF Home
    <3> QED  BY <1>2, <1>3, <3>1, <3>2, <3>3, <3>4 DEF Saved, Marks
  <2> QED  BY <1>1, <2>1, <2>2
<1> QED  BY <1>3, <1>8, <1>9 DEF Left

\* mtk_bmt_init_v2 loads a table from its home, or builds one whose home is above all.
LEMMA AttachHome == ASSUME DInv, AttachStep, weak' = {} PROVE AtHome' /\ Saved' /\ Left'
<1>1. CASE AttachFound
  <2>1. weak = {} /\ pc = "off" /\ pc' = "ready" /\ content' = content
    BY <1>1 DEF AttachFound, flash
  <2>2. PICK t \in Restart, i \in Blocks \ {0} :
            IsIndex(i, t.pool) /\ bb_tbl' = t.bb /\ bmt_tbl' = t.pool /\ bmt_blk_idx' = i
    BY <1>1 DEF AttachFound
  <2>3. PICK h \in Blocks : Leads(h)
    BY <2>1, <2>2 DEF DInv, Left
  <2>4. t = content[h].t
    BY <2>2, <2>3, OneRestart
  <2>5. PICK j \in Blocks \ {0} : Marks(j, content[h].t.pool) /\ content[h].t.pool[j].block = h
    BY <2>3 DEF Leads
  <2>6. i = j /\ Marks(i, t.pool)
    BY <2>2, <2>4, <2>5, IndexMarks, OneIndex
  <2>7. Home' = h
    BY <2>2, <2>4, <2>5, <2>6 DEF Home
  <2>8. content[h].k = "table" /\ \A b \in Blocks : b > h => Plain(b)'
    BY <2>1, <2>3 DEF Leads, Plain
  <2>9. AtHome'
    BY <2>1, <2>2, <2>6, <2>7, <2>8 DEF AtHome, Uploading, Copying, Marks
  <2>10. Saved'
    BY <2>1, <2>2, <2>4, <2>5, <2>6, <2>7, <2>8 DEF Saved, Where, Copying, Marks
  <2> QED  BY <2>1, <2>9, <2>10 DEF Left
<1>2. CASE AttachHalf
  BY <1>2 DEF AttachHalf
<1>3. CASE AttachScan
  <2>1. content' = content /\ intact' = {} /\ Restart = {}
    BY <1>3 DEF AttachScan, flash
  <2>2. Restart' = {}
    BY <2>1 DEF Restart, Top, Signed
  <2>3. Left'
    BY <2>1, <2>2 DEF Left
  <2>4. CASE pc' \in {"dead", "wild"}
    BY <2>3, <2>4 DEF AtHome, Saved, Up
  <2>5. CASE pc' = "init_erase"
    <3>1. /\ bmt_tbl' \in Pool /\ Fits(bb_tbl', bmt_tbl') /\ n' \in Blocks /\ bmt_blk_idx' = n'
          /\ \A j \in 0..n' : bmt_tbl'[j].block # 0
          /\ bmt_tbl'[n'].mapped = "bmt" /\ \A j \in 0..(n' - 1) : bmt_tbl'[j].mapped # "bmt"
          /\ n' # 0 /\ \A b \in Signed : ~(b > bmt_tbl'[n'].block)
      BY <1>3, <2>5, Scans DEF DInv, IInv
    <3>2. n' \in 0..n' /\ bmt_tbl'[n'].block \in Blocks /\ bmt_tbl'[n'].block >= PoolLba
      <4>1. n' \in 0..n'
        BY <3>1, Sizes
      <4> QED  BY <3>1, <4>1, Entries DEF Fits
    <3>3. Home' = bmt_tbl'[n'].block
      BY <3>1 DEF Home
    <3>4. ASSUME NEW b \in Blocks, b > bmt_tbl'[n'].block PROVE Plain(b)'
      <4>1. b \in PoolLba..(TotalBlks - 1) /\ b \notin Signed
        BY <3>1, <3>2, <3>4, Sizes
      <4> QED  BY <2>1, <4>1 DEF Signed, Plain
    <3>5. AtHome'
      BY <2>5, <3>1, <3>3, <3>4 DEF AtHome, Marks, Copying
    <3> QED  BY <2>3, <2>5, <3>5 DEF Saved, Uploading
  <2> QED  BY <1>3, <2>4, <2>5, Scans DEF DInv, IInv
<1> QED  BY <1>1, <1>2, <1>3 DEF AttachStep

\* remap_block_v2 writes below the home of the table.
LEMMA CopyHome == ASSUME DInv, RemapStep, weak' = {} PROVE AtHome' /\ Saved' /\ Left'
<1>1. /\ weak = {} /\ Up /\ Copying /\ ~Uploading /\ bb_tbl' = bb_tbl /\ bmt_tbl' = bmt_tbl
      /\ bmt_blk_idx' = bmt_blk_idx /\ pc' \notin {"off", "dead"}
  BY DEF RemapStep, RemapErase, RemapCopy, Upload, Up, Copying, Uploading, bbt
<1>2. /\ bmt_blk_idx \in Blocks \ {0} /\ bmt_blk_idx # None /\ Home \in Blocks
      /\ Marks(bmt_blk_idx, bmt_tbl) /\ \A b \in Blocks : b > Home => Plain(b)
      /\ req.new < Home /\ Home' = Home
  BY <1>1, HomeApart DEF DInv, AtHome, Home
<1>3. req.new \in Blocks /\ content \in [Blocks -> Content]
  BY DEF DInv, IInv, TypeOK, Request
<1>4. \A b \in Blocks \ {req.new} : content'[b] = content[b]
  BY <1>3 DEF RemapStep, RemapErase, RemapCopy, EraseNew, Ruin
<1>5. content'[Home] = content[Home] /\ \A b \in Blocks : b > Home => Plain(b)'
  <2> HIDE DEF Home
  <2> QED  BY <1>2, <1>3, <1>4, Below
<1>6. /\ content[Home].k = "table" /\ Marks(bmt_blk_idx, content[Home].t.pool)
      /\ content[Home].t.pool[bmt_blk_idx].block = Home
      /\ \A lb \in Logical : content[Home].t.bb[lb] = Where(lb)
  BY <1>1 DEF DInv, Saved
<1>7. Upload({}) => n' = bmt_blk_idx /\ pc' = "erase"
  BY <1>2 DEF Upload
<1>8. CASE pc' = "erase"
  <2>1. n' = bmt_blk_idx
    BY <1>7, <1>8 DEF RemapStep, RemapErase, RemapCopy
  <2>2. AtHome'
    BY <1>1, <1>2, <1>5, <1>8, <2>1 DEF AtHome, Marks, Copying
  <2> QED  BY <1>8, <2>2 DEF Saved, Uploading, Left
<1>9. CASE pc' # "erase"
  <2>1. pc' \in {"remap_copy", "ready"} /\ (pc' = "remap_copy" => req' = req)
        /\ (pc' = "ready" => req.repair)
    BY <1>7, <1>9 DEF RemapStep, RemapErase, RemapCopy
  <2>2. \A lb : Where(lb)' = Where(lb)
    BY <1>1, <2>1 DEF Where, Copying
  <2>3. AtHome'
    BY <1>1, <1>2, <1>5, <2>1 DEF AtHome, Marks, Copying, Uploading
  <2>4. Saved'
    <3> HIDE DEF Home
    <3> QED  BY <1>1, <1>2, <1>5, <1>6, <2>2 DEF Saved, Marks
  <2> QED  BY <1>1, <2>3, <2>4 DEF Left
<1> QED  BY <1>8, <1>9

\* A remap of a ready driver takes a block below the home of the table.
LEMMA RemapHome ==
    ASSUME DInv, Ready, weak' = {}, NEW lb \in Logical, NEW copy \in BOOLEAN, NEW mark \in BOOLEAN,
           RemapBlock(lb, copy, mark), bmt_blk_idx' = bmt_blk_idx,
           content'[Home] = content[Home], \A b \in Blocks : b > Home => Plain(b)'
    PROVE  AtHome' /\ Saved' /\ Left'
<1>1. weak = {} /\ Up /\ ~Uploading /\ ~Copying
  BY DEF RemapBlock, Ready, Up, Uploading, Copying
<1>2. /\ bmt_blk_idx \in Blocks \ {0} /\ bmt_blk_idx # None /\ Home \in Blocks
      /\ Marks(bmt_blk_idx, bmt_tbl)
      /\ \A i \in Blocks : i < bmt_blk_idx /\ bmt_tbl[i].block # 0 => bmt_tbl[i].block < Home
  BY <1>1, HomeApart DEF DInv, AtHome
<1>3. /\ content[Home].k = "table" /\ Marks(bmt_blk_idx, content[Home].t.pool)
      /\ content[Home].t.pool[bmt_blk_idx].block = Home
      /\ \A x \in Logical : content[Home].t.bb[x] = bb_tbl[x]
  BY <1>1 DEF DInv, Saved, Where
<1>4. bb_tbl \in [Logical -> Blocks] /\ bmt_tbl \in Pool
  BY DEF DInv, IInv, TypeOK
<1>5. CASE pc' = "remap_erase"
  <2>1. PICK i \in Available :
            /\ bmt_tbl' = Take(i) /\ bb_tbl' = [bb_tbl EXCEPT ![lb] = bmt_tbl[i].block]
            /\ req' = [lb |-> lb, old |-> bb_tbl[lb], new |-> bmt_tbl[i].block,
                       copy |-> copy, mark |-> mark, repair |-> FALSE]
            /\ i \in Blocks /\ bmt_tbl[i].block # 0
    BY <1>5, Taken DEF DInv
  <2>2. i < bmt_blk_idx
    BY <1>2, <2>1 DEF Available
  <2>3. \A j \in Blocks : bmt_tbl'[j].block = bmt_tbl[j].block
                          /\ (bmt_tbl'[j].mapped = bmt_tbl[j].mapped
                              \/ (j = i /\ bmt_tbl'[j].mapped = "normal"))
    BY <1>4, <2>1, Entries, Fields DEF Take, Pool, Entry
  <2>4. Home' = Home /\ Marks(bmt_blk_idx, bmt_tbl')
    <3>1. i # bmt_blk_idx /\ \A j \in 0..bmt_blk_idx : j \in Blocks
      BY <1>2, <2>2, Sizes
    <3>2. Home' = Home
      BY <1>2, <2>3 DEF Home
    <3>3. \A j \in 0..(bmt_blk_idx - 1) : j \in 0..bmt_blk_idx
      BY <1>2, Sizes
    <3>4. \A j \in Blocks : bmt_tbl'[j].mapped = "bmt" => bmt_tbl[j].mapped = "bmt"
      BY <2>3
    <3>5. bmt_tbl'[bmt_blk_idx].mapped = "bmt"
      BY <1>2, <2>3, <3>1 DEF Marks
    <3>6. \A j \in 0..bmt_blk_idx : bmt_tbl'[j].block # 0
      BY <1>2, <2>3, <3>1 DEF Marks
    <3> QED  BY <1>2, <3>1, <3>2, <3>3, <3>4, <3>5, <3>6 DEF Marks
  <2>5. req'.new < Home /\ req'.lb = lb /\ req'.old = bb_tbl[lb] /\ req'.repair = FALSE
    BY <1>2, <2>1, <2>2
  <2>6. \A x \in Logical : Where(x)' = bb_tbl[x]
    BY <1>4, <1>5, <2>1, <2>5 DEF Where, Copying
  <2>7. AtHome'
    <3> HIDE DEF Home
    <3> QED  BY <1>2, <1>5, <2>4, <2>5 DEF AtHome, Marks, Uploading
  <2>8. Saved'
    <3> HIDE DEF Home
    <3> QED  BY <1>3, <2>4, <2>6 DEF Saved, Marks
  <2> QED  BY <1>5, <2>7, <2>8 DEF Left
<1>6. CASE pc' # "remap_erase"
  <2>1. pc' = "ready" /\ bb_tbl' = bb_tbl /\ bmt_tbl' = bmt_tbl
    BY <1>6 DEF RemapBlock, Ready, bbt
  <2>2. Home' = Home
    BY <2>1 DEF Home
  <2>3. \A x : Where(x)' = bb_tbl[x]
    BY <2>1 DEF Where, Copying
  <2>4. AtHome'
    <3> HIDE DEF Home
    <3> QED  BY <1>2, <2>1, <2>2 DEF AtHome, Marks, Uploading, Copying
  <2>5. Saved'
    <3> HIDE DEF Home
    <3> QED  BY <1>3, <2>2, <2>3 DEF Saved, Marks
  <2> QED  BY <2>1, <2>4, <2>5 DEF Left
<1> QED  BY <1>5, <1>6

\* What the user does leaves the table's home alone.
LEMMA UserHome == ASSUME DInv, UserStep, weak' = {} PROVE AtHome' /\ Saved' /\ Left'
<1>1. /\ Ready /\ weak = {} /\ Up /\ ~Uploading /\ ~Copying /\ bmt_blk_idx' = bmt_blk_idx
      /\ pc' \notin {"off", "dead"}
  BY DEF UserStep, UserFree, UserWrite, UserFault, UserRemap, UserIsBad, UserUnmap, RemapBlock,
         Upload, Ready, Up, Uploading, Copying
<1>2. /\ bmt_blk_idx \in Blocks \ {0} /\ bmt_blk_idx \in 0..bmt_blk_idx /\ bmt_blk_idx # None
      /\ bmt_tbl[bmt_blk_idx].mapped = "bmt" /\ Home \in Blocks
      /\ Marks(bmt_blk_idx, bmt_tbl) /\ \A b \in Blocks : b > Home => Plain(b)
      /\ \A lb \in Logical : bb_tbl[lb] # Home
  BY <1>1, HomeApart DEF DInv, AtHome
<1>3. /\ content[Home].k = "table" /\ Marks(bmt_blk_idx, content[Home].t.pool)
      /\ content[Home].t.pool[bmt_blk_idx].block = Home
      /\ \A x \in Logical : content[Home].t.bb[x] = bb_tbl[x]
  BY <1>1 DEF DInv, Saved, Where
<1>4. /\ bb_tbl \in [Logical -> Blocks] /\ bmt_tbl \in Pool /\ content \in [Blocks -> Content]
      /\ \A lb \in User : lb \in Logical
  BY Sizes DEF DInv, IInv, TypeOK
<1>5. ASSUME NEW voids, Upload(voids), content' = content, Home' = Home,
             Marks(bmt_blk_idx, bmt_tbl')
      PROVE  AtHome' /\ Saved' /\ Left'
  <2>1. n' = bmt_blk_idx /\ pc' = "erase"
    BY <1>2, <1>5 DEF Upload
  <2>2. AtHome'
    <3> HIDE DEF Home
    <3> QED  BY <1>1, <1>2, <1>5, <2>1 DEF AtHome, Marks, Plain, Copying
  <2> QED  BY <2>1, <2>2 DEF Saved, Uploading, Left
<1>6. CASE UserFree
  <2>1. PICK free :
          /\ \A i \in free : bmt_tbl[i].mapped = "normal"
          /\ bmt_tbl' = [i \in Blocks |-> IF i \in free THEN [bmt_tbl[i] EXCEPT !.mapped = "no"]
                                          ELSE bmt_tbl[i]]
          /\ \E voids : Upload(voids)
    BY <1>6 DEF UserFree
  <2>2. content' = content
    BY <1>6 DEF UserFree, flash
  <2>3. \A j \in Blocks : bmt_tbl'[j].block = bmt_tbl[j].block
            /\ (j \in free => bmt_tbl'[j].mapped = "no")
            /\ (j \notin free => bmt_tbl'[j].mapped = bmt_tbl[j].mapped)
    BY <1>4, <2>1, Fields DEF Pool, Entry
  <2>4. Home' = Home /\ Marks(bmt_blk_idx, bmt_tbl')
    <3>1. bmt_blk_idx \notin free /\ \A j \in 0..bmt_blk_idx : j \in Blocks
      BY <1>2, <2>1, Sizes
    <3>2. Home' = Home
      BY <1>1, <1>2, <2>3 DEF Home
    <3> QED  BY <1>2, <2>3, <3>1, <3>2 DEF Marks
  <2> QED  BY <1>5, <2>1, <2>2, <2>4
<1>7. ASSUME NEW lb \in User, UserWrite(lb) PROVE AtHome' /\ Saved' /\ Left'
  <2>1. pc' = "ready" /\ bb_tbl' = bb_tbl /\ bmt_tbl' = bmt_tbl
    BY <1>7 DEF UserWrite, Ready, bbt
  <2>2. Home' = Home /\ \A x : Where(x)' = bb_tbl[x]
    BY <1>1, <2>1 DEF Where, Copying, Home
  <2>3. DataOf(lb).k = "data" /\ Holds("old").k = "old"
    BY DEF DataOf, Holds
  <2>4. \A b \in Blocks : \/ content'[b] = content[b]
                          \/ content'[b] = Holds("old") /\ content[b] = DataOf(lb)
                          \/ content'[b] = DataOf(lb) /\ b = bb_tbl[lb]
    BY <1>7 DEF UserWrite
  <2>5. content'[Home] = content[Home] /\ \A b \in Blocks : b > Home => Plain(b)'
    <3> HIDE DEF Home
    <3> QED  BY <1>2, <1>3, <1>4, <2>3, <2>4 DEF Plain
  <2>6. AtHome'
    <3> HIDE DEF Home
    <3> QED  BY <1>1, <1>2, <2>1, <2>2, <2>5 DEF AtHome, Marks, Uploading, Copying
  <2>7. Saved'
    <3> HIDE DEF Home
    <3> QED  BY <1>1, <1>3, <2>2, <2>5 DEF Saved, Marks
  <2> QED  BY <2>1, <2>6, <2>7 DEF Left
<1>8. ASSUME NEW lb \in User, UserFault(lb) PROVE AtHome' /\ Saved' /\ Left'
  <2>1. PICK copy \in BOOLEAN : RemapBlock(lb, copy, FALSE)
    BY <1>8 DEF UserFault
  <2>2. content' = [content EXCEPT ![bb_tbl[lb]] = Holds("torn")] /\ Holds("torn").k = "torn"
        /\ lb \in Logical
    BY <1>4, <1>8 DEF UserFault, Ruin, Holds
  <2>3. content'[Home] = content[Home] /\ \A b \in Blocks : b > Home => Plain(b)'
    <3> HIDE DEF Home
    <3> QED  BY <1>2, <1>4, <2>2 DEF Plain
  <2> QED  BY <1>1, <2>1, <2>2, <2>3, RemapHome
<1>9. ASSUME NEW lb \in User, UserRemap(lb) \/ UserIsBad(lb) PROVE AtHome' /\ Saved' /\ Left'
  <2>1. PICK mark \in BOOLEAN : RemapBlock(lb, TRUE, mark)
    BY <1>9 DEF UserRemap, UserIsBad
  <2>2. content' = content /\ lb \in Logical
    BY <1>4, <1>9 DEF UserRemap, UserIsBad
  <2>3. content'[Home] = content[Home] /\ \A b \in Blocks : b > Home => Plain(b)'
    BY <1>2, <2>2 DEF Plain
  <2> QED  BY <1>1, <2>1, <2>2, <2>3, RemapHome
<1>10. ASSUME NEW lb \in User, NEW repair \in BOOLEAN, UserUnmap(lb, repair)
       PROVE  AtHome' /\ Saved' /\ Left'
  <2>1. (\E voids : Upload(voids)) /\ content' = content /\ bmt_tbl' = bmt_tbl
    BY <1>10 DEF UserUnmap, flash
  <2> QED  BY <1>1, <1>2, <1>5, <2>1 DEF Home
<1> QED  BY <1>6, <1>7, <1>8, <1>9, <1>10 DEF UserStep

\* Power goes, and leaves a table that leads to the data.
LEMMA PowerHome == ASSUME DInv, PowerCut, weak' = {} PROVE AtHome' /\ Saved' /\ Left'
<1>1. weak = {} /\ ~Uploading /\ pc' = "off" /\ intact' = intact /\ pc # "off"
  BY DEF PowerCut
<1>2. AtHome' /\ Saved'
  BY <1>1 DEF AtHome, Saved, Up
<1>3. CASE pc = "dead"
  <2>1. content' = content
    BY <1>3 DEF PowerCut, InFlight, Uploading
  <2>2. Restart' = Restart /\ \A h : Leads(h)' <=> Leads(h)
    BY <2>1 DEF Restart, Top, Signed, Leads, Plain
  <2>3. Left
    BY DEF DInv
  <2>4. Left'
    BY <1>1, <1>3, <2>1, <2>2, <2>3 DEF Left
  <2> QED  BY <1>2, <2>4
<1>4. CASE pc # "dead"
  <2>1. Up
    BY <1>1, <1>4 DEF DInv, Tags, Up
  <2>2. PICK h \in Blocks :
            /\ h = Home /\ Leads(h)
            /\ \A lb \in intact : /\ content[h].t.bb[lb] = Where(lb)
                                  /\ content[Where(lb)] = DataOf(lb)
    BY <1>1, <2>1, Safe
  <2>3. CASE content' = content
    <3>1. Leads(h)'
      BY <2>2, <2>3 DEF Leads, Plain
    <3> QED  BY <1>1, <1>2, <2>2, <2>3, <3>1 DEF Left
  <2>4. CASE content' # content
    <3>1. Copying /\ content' = [content EXCEPT ![req.new] = Holds("torn")]
      BY <1>1, <2>4 DEF PowerCut, InFlight, Copying, Uploading, Ruin
    <3>2. /\ req.new \in Blocks /\ req.old \in Blocks /\ bb_tbl \in [Logical -> Blocks]
          /\ content \in [Blocks -> Content] /\ intact \subseteq Logical
      BY DEF DInv, IInv, TypeOK, Request
    <3>3. req.new < h /\ \A b \in Blocks : b > h => Plain(b)
      BY <1>1, <2>1, <2>2, <3>1 DEF DInv, AtHome
    <3>4. \A b \in Blocks \ {req.new} : content'[b] = content[b]
      BY <3>1, <3>2
    <3>5. content'[h] = content[h] /\ \A b \in Blocks : b > h => Plain(b)'
      BY <3>2, <3>3, <3>4, Below
    <3>6. Leads(h)'
      BY <2>2, <3>5 DEF Leads
    <3>7. \A lb \in intact : Where(lb) # req.new /\ Where(lb) \in Blocks
      <4>1. \A lb \in intact : Where(lb) # req.new
        BY <1>1, <3>1, Elsewhere DEF DInv, Trusted
      <4> QED  BY <3>2, <4>1 DEF Where
    <3>8. \A lb \in intact : content'[content'[h].t.bb[lb]] = DataOf(lb)
      BY <2>2, <3>4, <3>5, <3>7
    <3> QED  BY <1>1, <1>2, <3>6, <3>8 DEF Left
  <2> QED  BY <2>3, <2>4
<1> QED  BY <1>3, <1>4

\* Every step keeps the table where a start looks for it, and what it leads to.
LEMMA HomeStep == ASSUME DInv, Next PROVE AtHome' /\ Saved' /\ Left'
<1>1. CASE weak' = {}
  BY <1>1, UploadHome, AttachHome, CopyHome, UserHome, PowerHome DEF Next, DriverStep
<1>2. CASE weak' # {}
  BY <1>2 DEF AtHome, Saved, Left
<1> QED  BY <1>1, <1>2

----------------------------------------------------------------------------
(* The theorems.                                                            *)

\* A chip as it comes from the factory.
LEMMA Start == ASSUME Init PROVE IInv
<1>1. PICK f \in FactoryBads : InitWith([b \in Blocks |-> Holds("erased")], f, NoTable.bb, {})
  BY DEF Init
<1>2. f \subseteq Blocks
  BY FactoryAssumption, Sizes
<1>3. content \in [Blocks -> Content] /\ \A b \in Blocks : content[b].k # "table"
  BY <1>1, Kinds, NoTables DEF InitWith
<1>4. TypeOK
  BY <1>1, <1>2, <1>3, Kinds, Sizes, BoundsAssumption DEF InitWith, TypeOK, Labels
<1>5. pc = "off"
  BY <1>1 DEF InitWith
<1> QED  BY <1>3, <1>4, <1>5 DEF IInv, InMemory, OnFlash, Tries, Writes, Index, Up, Uploading

\* A step that changes nothing.
LEMMA Stutter == ASSUME IInv, UNCHANGED vars PROVE IInv'
<1>1. TypeOK'
  BY DEF IInv, TypeOK, vars, flash, bbt
<1>2. InMemory' /\ OnFlash'
  BY DEF IInv, InMemory, OnFlash, Trusted, Up, vars, flash, bbt
<1>3. Tries' /\ Writes' /\ Index'
  BY DEF IInv, Tries, Writes, Index, NoRoom, Up, Uploading, vars, flash, bbt
<1> QED  BY <1>1, <1>2, <1>3 DEF IInv

\* The invariant holds in every state.
LEMMA Inductive == Spec => []IInv
<1>1. IInv /\ [Next]_vars => IInv'
  BY TypesStep, MemoryStep, FlashStep, PlaceStep, Stutter DEF IInv
<1> QED  BY <1>1, Start, PTL DEF Spec

\* The driver's state is always of its types: upload_bmt stops at the first entry, and
\* an index is that of an entry or (u16)-1.
THEOREM TablesAreTyped == Spec => []TypeOK
<1>1. IInv => TypeOK
  BY DEF IInv
<1> QED  BY <1>1, Inductive, PTL

\* Whatever blocks fail and wherever power is cut, remap_block_v2 never gives a block to
\* two logical blocks, and no start loads or builds a table in which it has.
THEOREM MapStaysInjective == Spec => []MappingInjective
<1>1. IInv => MappingInjective
  BY DEF IInv, InMemory, Trusted, Fits, MappingInjective, Sound
<1> QED  BY <1>1, Inductive, PTL

\* upload_bmt never erases or writes a block that is mapped to, and bmt_blk_idx never is
\* the entry of one.
THEOREM TableStaysApart == Spec => []TableApart
<1>1. ASSUME IInv, Up, Sound PROVE TableApart
  <2>1. Fits(bb_tbl, bmt_tbl)
    BY <1>1 DEF IInv, InMemory, Trusted, Sound
  <2>2. bmt_blk_idx \in Blocks \cup {None} /\ n \in Blocks \cup {None}
    BY <1>1 DEF IInv, TypeOK
  <2>3. ASSUME Uploading, ~NoRoom, NEW lb \in Logical PROVE bb_tbl[lb] # bmt_tbl[n].block
    <3>1. n \in Blocks /\ bmt_tbl[n].mapped # "normal"
      BY <2>3 DEF NoRoom
    <3>2. n \in 0..n
      BY <3>1, Sizes
    <3> QED  BY <1>1, <2>1, <2>3, <3>1, <3>2 DEF IInv, Tries, Fits
  <2>4. ASSUME Ready, bmt_blk_idx # None, NEW lb \in Logical
        PROVE  bb_tbl[lb] # bmt_tbl[bmt_blk_idx].block
    <3>1. bmt_blk_idx \in Blocks /\ bmt_blk_idx \in 0..bmt_blk_idx
      BY <2>2, <2>4, Sizes
    <3>2. bmt_tbl[bmt_blk_idx].mapped # "normal" /\ bmt_tbl[bmt_blk_idx].block # 0
      BY <1>1, <2>4, <3>1 DEF IInv, Index, Ready, Uploading
    <3> QED  BY <2>1, <3>1, <3>2 DEF Fits
  <2> QED  BY <2>3, <2>4 DEF TableApart
<1>2. IInv => TableApart
  BY <1>1 DEF TableApart
<1> QED  BY <1>2, Inductive, PTL

\* A chip as it comes from the factory holds no table and no data.
LEMMA DataStart == ASSUME Init PROVE DInv
<1>1. IInv
  BY Start
<1>2. PICK f \in FactoryBads : InitWith([b \in Blocks |-> Holds("erased")], f, NoTable.bb, {})
  BY DEF Init
<1>3. pc = "off" /\ weak = {} /\ intact = {} /\ req = NoReq
  BY <1>2 DEF InitWith
<1>4. \A b \in Blocks : content[b].k = "erased"
  BY <1>2 DEF InitWith, Holds
<1>5. Signed = {}
  BY <1>4, Sizes DEF Signed
<1>6. Restart = {}
  BY <1>5 DEF Restart, Top
<1>7. MemData /\ Remapping /\ Tags /\ AtHome /\ Saved
  BY <1>3 DEF MemData, Remapping, Copying, NoReq, Tags, AtHome, Saved, Up
<1> QED  BY <1>1, <1>3, <1>6, <1>7 DEF DInv, Left

\* A step that changes nothing leaves the data.
LEMMA DataStutter == ASSUME DInv, UNCHANGED vars PROVE DInv'
<1>1. IInv'
  BY Stutter DEF DInv
<1>2. MemData' /\ Remapping' /\ Tags'
  BY DEF DInv, MemData, Keeps, Sound, Where, Copying, Remapping, Trusted, Tags, Up, vars, flash,
         bbt
<1>3. AtHome' /\ Saved'
  <2>1. Home' = Home /\ \A lb : Where(lb)' = Where(lb)
    BY DEF Home, Where, Copying, vars, flash, bbt
  <2> QED  BY <2>1 DEF DInv, AtHome, Saved, Marks, Plain, Up, Uploading, Copying, vars, flash, bbt
<1>4. Left'
  <2>1. content' = content /\ weak' = weak /\ pc' = pc /\ intact' = intact
    BY DEF vars, flash
  <2>2. Restart' = Restart /\ \A h : Leads(h)' <=> Leads(h)
    BY <2>1 DEF Restart, Top, Signed, Leads, Plain
  <2> QED  BY <2>1, <2>2 DEF DInv, Left
<1> QED  BY <1>1, <1>2, <1>3, <1>4 DEF DInv

\* The data, the table that leads to them and the place of that table are kept.
LEMMA DataInductive == Spec => []DInv
<1>1. DInv /\ Next => DInv'
  <2>1. DInv /\ Next => IInv'
    BY TypesStep, MemoryStep, FlashStep, PlaceStep DEF DInv, IInv
  <2> QED  BY <2>1, MemStep, RemappingStep, TagsStep, HomeStep DEF DInv
<1>2. DInv /\ [Next]_vars => DInv'
  BY <1>1, DataStutter
<1> QED  BY <1>2, DataStart, PTL DEF Spec

\* The driver never loses track of a block that it has not lost: through every remap,
\* unmap and free, however often the table moves or could not be saved, until power goes.
THEOREM DataIsReachable == Spec => []DataReachable
<1>1. DInv => DataReachable
  BY DEF DInv, MemData, Keeps, Where, Copying, Ready, Up, DataReachable
<1> QED  BY <1>1, DataInductive, PTL

\* Wherever power goes, but for the time in which the only table is being replaced, the
\* next start loads a table that leads to all the data.
THEOREM RestartAlwaysFindsData == Spec => []RestartFindsData
<1>1. ASSUME DInv, weak = {}, ~Uploading, intact # {}
      PROVE  \E t \in Restart : \A lb \in intact : content[t.bb[lb]] = DataOf(lb)
  <2>1. CASE Up
    <3>1. PICK h \in Blocks :
              /\ Leads(h)
              /\ \A lb \in intact : /\ content[h].t.bb[lb] = Where(lb)
                                    /\ content[Where(lb)] = DataOf(lb)
      BY <1>1, <2>1, Safe
    <3>2. Restart = {content[h].t}
      BY <3>1, OneRestart
    <3> QED  BY <3>1, <3>2
  <2>2. CASE ~Up
    <3>1. pc \in {"off", "dead"}
      BY <1>1, <2>2 DEF DInv, Tags, Up
    <3>2. PICK h \in Blocks : /\ Leads(h)
                              /\ \A lb \in intact : content[content[h].t.bb[lb]] = DataOf(lb)
      BY <1>1, <3>1 DEF DInv, Left
    <3>3. Restart = {content[h].t}
      BY <3>2, OneRestart
    <3> QED  BY <3>2, <3>3
  <2> QED  BY <2>1, <2>2
<1>2. DInv => RestartFindsData
  BY <1>1 DEF RestartFindsData
<1> QED  BY <1>2, DataInductive, PTL

=============================================================================
