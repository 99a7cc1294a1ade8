-------------------------- MODULE BlockFront_proofs --------------------------
(***************************************************************************)
(* What the front end keeps, for any number of callers, blocks, pages and    *)
(* attempts.                                                                 *)
(*                                                                          *)
(* A block belongs to one logical block from the moment it is taken from the *)
(* pool, also when the map has left it, so what others write goes elsewhere; *)
(* and at every step of a copy it is known where each page of the data is.   *)
(***************************************************************************)
EXTENDS BlockFront, TLAPS

Fields == {"kind", "lb", "from", "pc", "block", "new", "len", "page", "due", "got", "retry",
           "used", "again", "err"}

\* What Set can change, and what it may put there.
Variable == {"pc", "block", "new", "len", "page", "got", "retry", "used", "again", "err"}
ChangeOK(ch) ==
    /\ DOMAIN ch \subseteq Variable
    /\ "pc" \in DOMAIN ch => ch.pc \in Labels
    /\ "block" \in DOMAIN ch => ch.block \in Blocks
    /\ "new" \in DOMAIN ch => ch.new \in Blocks
    /\ "len" \in DOMAIN ch => ch.len \in 0..NumPages
    /\ "page" \in DOMAIN ch => ch.page \in Pages
    /\ "got" \in DOMAIN ch => ch.got \in [Pages -> Int]
    /\ "retry" \in DOMAIN ch => ch.retry \in Nat
    /\ "used" \in DOMAIN ch => ch.used \in Nat
    /\ "again" \in DOMAIN ch => ch.again \in BOOLEAN
    /\ "err" \in DOMAIN ch => ch.err \in BOOLEAN

\* A call after the changes: the others stay.
Becomes(s, r, ch) ==
    /\ s.kind = r.kind /\ s.lb = r.lb /\ s.from = r.from /\ s.due = r.due
    /\ s.pc = (IF "pc" \in DOMAIN ch THEN ch.pc ELSE r.pc)
    /\ s.block = (IF "block" \in DOMAIN ch THEN ch.block ELSE r.block)
    /\ s.new = (IF "new" \in DOMAIN ch THEN ch.new ELSE r.new)
    /\ s.len = (IF "len" \in DOMAIN ch THEN ch.len ELSE r.len)
    /\ s.page = (IF "page" \in DOMAIN ch THEN ch.page ELSE r.page)
    /\ s.got = (IF "got" \in DOMAIN ch THEN ch.got ELSE r.got)
    /\ s.retry = (IF "retry" \in DOMAIN ch THEN ch.retry ELSE r.retry)
    /\ s.used = (IF "used" \in DOMAIN ch THEN ch.used ELSE r.used)
    /\ s.again = (IF "again" \in DOMAIN ch THEN ch.again ELSE r.again)
    /\ s.err = (IF "err" \in DOMAIN ch THEN ch.err ELSE r.err)

\* The changes of a call are of the types of its fields.
LEMMA ChangedCall ==
    ASSUME NEW r \in Call, NEW ch, ChangeOK(ch), NEW s,
           s = [f \in Fields |-> IF f \in DOMAIN ch THEN ch[f] ELSE r[f]]
    PROVE  s \in Call /\ Becomes(s, r, ch)
<1> USE DEF Fields
<1>0. DOMAIN ch \subseteq Variable
  BY DEF ChangeOK
<1>1. s.kind = r.kind /\ s.lb = r.lb /\ s.from = r.from /\ s.due = r.due
  BY <1>0 DEF Variable
<1>2. s.pc = (IF "pc" \in DOMAIN ch THEN ch.pc ELSE r.pc) /\ s.pc \in Labels
  <2>1. s.pc = (IF "pc" \in DOMAIN ch THEN ch.pc ELSE r.pc)
    OBVIOUS
  <2> QED  BY <2>1 DEF ChangeOK, Call
<1>3. s.block = (IF "block" \in DOMAIN ch THEN ch.block ELSE r.block) /\ s.block \in Blocks
  <2>1. s.block = (IF "block" \in DOMAIN ch THEN ch.block ELSE r.block)
    OBVIOUS
  <2> QED  BY <2>1 DEF ChangeOK, Call
<1>4. s.new = (IF "new" \in DOMAIN ch THEN ch.new ELSE r.new) /\ s.new \in Blocks
  <2>1. s.new = (IF "new" \in DOMAIN ch THEN ch.new ELSE r.new)
    OBVIOUS
  <2> QED  BY <2>1 DEF ChangeOK, Call
<1>5. s.len = (IF "len" \in DOMAIN ch THEN ch.len ELSE r.len) /\ s.len \in 0..NumPages
  <2>1. s.len = (IF "len" \in DOMAIN ch THEN ch.len ELSE r.len)
    OBVIOUS
  <2> QED  BY <2>1 DEF ChangeOK, Call
<1>6. s.page = (IF "page" \in DOMAIN ch THEN ch.page ELSE r.page) /\ s.page \in Pages
  <2>1. s.page = (IF "page" \in DOMAIN ch THEN ch.page ELSE r.page)
    OBVIOUS
  <2> QED  BY <2>1 DEF ChangeOK, Call
<1>7. s.got = (IF "got" \in DOMAIN ch THEN ch.got ELSE r.got) /\ s.got \in [Pages -> Int]
  <2>1. s.got = (IF "got" \in DOMAIN ch THEN ch.got ELSE r.got)
    OBVIOUS
  <2> QED  BY <2>1 DEF ChangeOK, Call
<1>8. s.retry = (IF "retry" \in DOMAIN ch THEN ch.retry ELSE r.retry) /\ s.retry \in Nat
  <2>1. s.retry = (IF "retry" \in DOMAIN ch THEN ch.retry ELSE r.retry)
    OBVIOUS
  <2> QED  BY <2>1 DEF ChangeOK, Call
<1>9. s.used = (IF "used" \in DOMAIN ch THEN ch.used ELSE r.used) /\ s.used \in Nat
  <2>1. s.used = (IF "used" \in DOMAIN ch THEN ch.used ELSE r.used)
    OBVIOUS
  <2> QED  BY <2>1 DEF ChangeOK, Call
<1>10. s.again = (IF "again" \in DOMAIN ch THEN ch.again ELSE r.again) /\ s.again \in BOOLEAN
  <2>1. s.again = (IF "again" \in DOMAIN ch THEN ch.again ELSE r.again)
    OBVIOUS
  <2> QED  BY <2>1 DEF ChangeOK, Call
<1>11. s.err = (IF "err" \in DOMAIN ch THEN ch.err ELSE r.err) /\ s.err \in BOOLEAN
  <2>1. s.err = (IF "err" \in DOMAIN ch THEN ch.err ELSE r.err)
    OBVIOUS
  <2> QED  BY <2>1 DEF ChangeOK, Call
<1>12. Becomes(s, r, ch)
  BY <1>1, <1>2, <1>3, <1>4, <1>5, <1>6, <1>7, <1>8, <1>9, <1>10, <1>11 DEF Becomes
<1>13. s.kind \in Kinds /\ s.lb \in Logical /\ s.from \in Pages /\ s.due \in [Pages -> Int]
  BY <1>1 DEF Call
<1>14. s \in Call
  BY <1>2, <1>3, <1>4, <1>5, <1>6, <1>7, <1>8, <1>9, <1>10, <1>11, <1>13 DEF Call
<1> QED  BY <1>12, <1>14

\* Set changes one call, and keeps its type.
LEMMA SetCall ==
    ASSUME TypeOK, NEW c \in Callers, call[c] # None, NEW ch, ChangeOK(ch), Set(c, ch)
    PROVE  /\ call' \in [Callers -> Call \cup {None}] /\ call'[c] # None
           /\ \A d \in Callers : d # c => call'[d] = call[d]
           /\ Becomes(call'[c], call[c], ch)
<1>1. call[c] \in Call /\ call \in [Callers -> Call \cup {None}]
  BY DEF TypeOK
<1>2. DOMAIN call[c] = Fields
  BY <1>1 DEF Call, Fields
<1>3. /\ \A d \in Callers : d # c => call'[d] = call[d]
      /\ call' = [d \in Callers |-> call'[d]]
      /\ call'[c] = [f \in Fields |-> IF f \in DOMAIN ch THEN ch[f] ELSE call[c][f]]
  BY <1>1, <1>2 DEF Set
<1>4. call'[c] \in Call /\ Becomes(call'[c], call[c], ch)
  BY <1>1, <1>3, ChangedCall
<1> QED  BY <1>1, <1>3, <1>4, NoneAssumption

\* The counter of attempts, and the blocks that they have used.
Attempts ==
    \A c \in Callers : call[c] # None =>
        /\ call[c].pc \notin Copying \cup {"mark", "done"} =>
              call[c].used <= call[c].retry /\ call[c].retry <= MaxRetry
        /\ call[c].pc \in Copying =>
              call[c].used <= call[c].retry + 1 /\ call[c].retry <= MaxRetry
        /\ call[c].used <= MaxRetry + 1 /\ call[c].retry <= MaxRetry + 1

InCopy(c) == call[c] # None /\ call[c].pc \in Copying
Using(c)  == call[c] # None /\ call[c].pc \in {"raw", "pick", "take"}
Holds(c, b) == \/ (Using(c) \/ InCopy(c)) /\ b = call[c].block
               \/ InCopy(c) /\ b = call[c].new

\* Whoever writes or erases is alone with the logical block, and so is who copies.
Alone ==
    \A c, d \in Callers :
        call[c] # None /\ call[d] # None /\ call[c].lb = call[d].lb /\ c # d =>
            /\ {call[c].kind, call[d].kind} \subseteq {"read", "isbad"}
            /\ InCopy(c) => call[c].lb \in upset

\* A block that is mapped, used or copied belongs to one logical block.
Owned ==
    None \notin upset =>
        /\ \A l1, l2 \in Logical : map[l1] = map[l2] => l1 = l2
        /\ \A lb \in Logical : map[lb] \notin free
        /\ \A c \in Callers, b \in Blocks : Holds(c, b) =>
              b \notin free /\ \A lb \in Logical : map[lb] = b => lb = call[c].lb
        /\ \A c, d \in Callers, b \in Blocks :
              Holds(c, b) /\ Holds(d, b) => call[c].lb = call[d].lb
        /\ \A c, d \in Callers : At(c, "cp_write") /\ At(d, "cp_write") => c = d

\* What a caller has looked up is still so.
LookedUp ==
    \A c \in Callers :
        /\ Using(c) /\ Apart(call[c].lb) => call[c].block = map[call[c].lb]
        /\ InCopy(c) /\ Apart(call[c].lb) =>
              call[c].new = map[call[c].lb] /\ call[c].block # call[c].new

\* What a remap copies: what lies behind is not expected.
Spared ==
    \A c \in Callers : call[c] # None =>
        /\ call[c].from > 0 => call[c].kind = "write"
        /\ call[c].pc \in {"pick", "take"} \cup Copying =>
              call[c].len = CopyLen(call[c].kind, call[c].from)
        /\ call[c].pc \in {"cp_read", "cp_write"} => call[c].page < call[c].len
        /\ call[c].kind \in {"write", "erase"} /\ call[c].pc # "done" =>
              \A p \in Pages : p >= call[c].from => want[call[c].lb][p] = Lost

\* Where the page p is while it is copied.
Copied(c, p) ==
    IF call[c].pc = "rm_erase" THEN cells[call[c].block][p]
    ELSE IF p < call[c].page THEN cells[call[c].new][p]
    ELSE IF p = call[c].page /\ call[c].pc = "cp_write" THEN data_buf
    ELSE cells[call[c].block][p]

\* The data of a logical block is in its block, or on its way there.
Kept ==
    \A lb \in Logical : Apart(lb) =>
        \/ \A p \in Pages : want[lb][p] \in {Lost, cells[map[lb]][p]}
        \/ \E c \in Callers : InCopy(c) /\ call[c].lb = lb
Moved ==
    \A c \in Callers : InCopy(c) /\ Apart(call[c].lb) =>
        \A p \in Pages : want[call[c].lb][p] \in {Lost, Copied(c, p)}

\* A page that is to be written is erased: the request found it so, or the remap made it so.
Writable ==
    \A c \in Callers : call[c] # None /\ Apart(call[c].lb) =>
        \A p \in Pages :
            /\ call[c].kind = "write" /\ call[c].pc \in {"look", "raw"} /\ p >= call[c].from =>
                  cells[map[call[c].lb]][p] = Erased
            /\ call[c].pc \in {"cp_read", "cp_write"} /\ p >= call[c].page =>
                  cells[call[c].new][p] = Erased

\* A read that has met no error has, or will get, what was there when it began.
Read ==
    \A c \in Callers : call[c] # None /\ call[c].kind = "read" /\ ~call[c].err =>
        /\ ~call[c].again
        /\ Apart(call[c].lb) =>
              \A p \in Pages :
                  IF call[c].pc \in {"look", "raw"}
                  THEN \/ call[c].due[p] \in {Lost, cells[map[call[c].lb]][p]}
                       \/ cells[map[call[c].lb]][p] = Unreadable
                  ELSE call[c].due[p] \in {Lost, call[c].got[p]}

\* The inductive invariant.
IInv ==
    /\ TypeOK /\ Attempts /\ Alone /\ Owned /\ LookedUp /\ Spared
    /\ Kept /\ Moved /\ Writable /\ Read

\* A step outside of a copy: the map and the pool stay, and the block that the caller goes on
\* with is the one that it has, or the one that the map has.
Looks(c) ==
    /\ UNCHANGED <<map, free, upset>>
    /\ call[c] # None /\ ~InCopy(c)
    /\ \A d \in Callers : d # c => call'[d] = call[d]
    /\ call'[c] # None =>
          /\ call'[c].lb = call[c].lb /\ call'[c].kind = call[c].kind
          /\ call'[c].pc \notin Copying
          /\ call'[c].pc \in {"raw", "pick", "take"} =>
                \/ call'[c].block = map[call[c].lb]
                \/ Using(c) /\ call'[c].block = call[c].block

\* Such a step disturbs nobody.
LEMMA LooksStep ==
    ASSUME IInv, TypeOK', NEW c \in Callers, Looks(c)
    PROVE  /\ Alone' /\ Owned' /\ LookedUp'
           /\ UNCHANGED <<cells, data_buf, want>> => Kept' /\ Moved'
<1> USE DEF IInv, Looks
<1>1. ~InCopy(c)' /\ \A d \in Callers : InCopy(d)' <=> InCopy(d)
  BY DEF InCopy
<1>2. \A d \in Callers : d # c => (Using(d)' <=> Using(d))
  BY DEF Using
<1>3. call[c] \in Call /\ call[c].lb \in Logical
  BY DEF TypeOK, Call
<1>4. Alone'
  <2> SUFFICES ASSUME NEW d \in Callers, NEW e \in Callers, d # e,
                      call'[d] # None, call'[e] # None, call'[d].lb = call'[e].lb
               PROVE  /\ {call'[d].kind, call'[e].kind} \subseteq {"read", "isbad"}
                      /\ InCopy(d)' => call'[d].lb \in upset
    BY DEF Alone
  <2>1. /\ call[d] # None /\ call'[d].lb = call[d].lb /\ call'[d].kind = call[d].kind
        /\ call[e] # None /\ call'[e].lb = call[e].lb /\ call'[e].kind = call[e].kind
    OBVIOUS
  <2> QED  BY <1>1, <2>1 DEF Alone
<1>5. \A d \in Callers, b \in Blocks : Holds(d, b)' =>
         Holds(d, b) \/ (d = c /\ b = map[call[c].lb])
  BY <1>1, <1>2 DEF Holds, Using, InCopy
<1>6. \A d \in Callers : call'[d] # None => call'[d].lb = call[d].lb
  OBVIOUS
<1>7. Owned'
  <2> SUFFICES ASSUME None \notin upset
               PROVE  /\ \A d \in Callers, b \in Blocks : Holds(d, b)' =>
                            /\ b \notin free
                            /\ \A lb \in Logical : map[lb] = b => lb = call'[d].lb
                      /\ \A d, e \in Callers, b \in Blocks :
                            Holds(d, b)' /\ Holds(e, b)' => call'[d].lb = call'[e].lb
                      /\ \A d, e \in Callers : At(d, "cp_write")' /\ At(e, "cp_write")' => d = e
    BY DEF Owned
  <2>1. \A d \in Callers, b \in Blocks : Holds(d, b)' =>
                            /\ b \notin free
                            /\ \A lb \in Logical : map[lb] = b => lb = call[d].lb
    BY <1>3, <1>5 DEF Owned
  <2>2. \A d \in Callers, b \in Blocks : Holds(d, b)' => call'[d].lb = call[d].lb
    BY <1>6 DEF Holds, Using, InCopy
  <2>3. \A d, e \in Callers, b \in Blocks :
           Holds(d, b)' /\ Holds(e, b)' => call[d].lb = call[e].lb
    BY <1>3, <1>5, <2>1 DEF Owned
  <2>4. \A d \in Callers : At(d, "cp_write")' => At(d, "cp_write")
    BY DEF At, Copying
  <2> QED  BY <2>1, <2>2, <2>3, <2>4 DEF Owned
<1>8. LookedUp'
  <2>1. \A d \in Callers : Using(d)' => call'[d].lb = call[d].lb /\
           (\/ Using(d) /\ call'[d].block = call[d].block
            \/ call'[d].block = map[call[d].lb])
    BY <1>6 DEF Using
  <2>2. \A d \in Callers : InCopy(d)' => call'[d] = call[d] /\ InCopy(d)
    BY <1>1
  <2> QED  BY <2>1, <2>2 DEF LookedUp, Apart
<1>9. UNCHANGED <<cells, want>> => Kept'
  BY <1>1, <1>6 DEF Kept, Apart, InCopy
<1>10. UNCHANGED <<cells, data_buf, want>> => Moved'
  <2> SUFFICES ASSUME UNCHANGED <<cells, data_buf, want>> PROVE Moved'
    OBVIOUS
  <2>1. \A d \in Callers : InCopy(d)' => call'[d] = call[d] /\ InCopy(d)
    BY <1>1
  <2>2. \A d \in Callers, p \in Pages : InCopy(d)' => Copied(d, p)' = Copied(d, p)
    BY <2>1 DEF Copied
  <2> QED  BY <2>1, <2>2 DEF Moved, Apart
<1> QED  BY <1>4, <1>7, <1>8, <1>9, <1>10

\* The budget of faults stays a number.
LEMMA FaultTypes == TypeOK /\ (Fault \/ UNCHANGED faults) => faults' \in 0..MaxFaults
BY BoundAssumption DEF TypeOK, Fault

\* What is known of the call that a step is about.
LEMMA CallFacts ==
    ASSUME TypeOK, NEW c \in Callers, call[c] # None
    PROVE  /\ call[c] \in Call /\ call[c].lb \in Logical /\ map[call[c].lb] \in Blocks
           /\ call[c].block \in Blocks /\ call[c].new \in Blocks
           /\ call[c].from \in Pages /\ call[c].page \in Pages /\ call[c].len \in 0..NumPages
           /\ call[c].retry \in Nat /\ call[c].used \in Nat
           /\ call[c].due \in [Pages -> Int] /\ call[c].got \in [Pages -> Int]
           /\ call[c].kind \in Kinds /\ call[c].pc \in Labels
           /\ call[c].again \in BOOLEAN /\ call[c].err \in BOOLEAN
           /\ NumPages \in Nat \ {0} /\ MaxRetry \in Nat /\ Pages \subseteq 0..NumPages
BY SizeAssumption DEF TypeOK, Call, Pages

\* get_mapping_block: the block that is looked up is the one that the map has.
LEMMA LookStep == ASSUME IInv, NEW c \in Callers, Look(c) PROVE IInv'
<1> DEFINE ch == [block |-> map[call[c].lb], pc |-> "raw"]
<1>1. TypeOK /\ call[c] # None
  BY DEF IInv, Look, At
<1> USE <1>1, CallFacts
<1>2. ChangeOK(ch) /\ Set(c, ch)
  BY DEF ChangeOK, Variable, Labels, TypeOK, Look, At
<1>3. /\ call' \in [Callers -> Call \cup {None}] /\ call'[c] # None
      /\ \A d \in Callers : d # c => call'[d] = call[d]
      /\ Becomes(call'[c], call[c], ch)
  BY <1>2, SetCall
<1>4. UNCHANGED <<cells, map, free, data_buf, want, upset>>
  BY DEF Look, At
<1>5. TypeOK'
  BY <1>3, <1>4 DEF TypeOK, Look, At
<1>6. Looks(c)
  BY <1>3, <1>4 DEF Looks, InCopy, Using, Copying, Becomes, Look, At
<1>7. Alone' /\ Owned' /\ LookedUp' /\ Kept' /\ Moved'
  BY <1>4, <1>5, <1>6, LooksStep
<1>8. Attempts'
  BY <1>3, <1>4 DEF Attempts, IInv, Becomes, Copying, Look, At
<1>9. Spared'
  BY <1>3, <1>4 DEF Spared, CopyLen, IInv, Becomes, Copying, Look, At
<1>10. Writable'
  BY <1>3, <1>4 DEF Writable, Apart, IInv, Becomes, Copying, Look, At
<1>11. Read'
  BY <1>3, <1>4 DEF Read, Apart, IInv, Becomes, Copying, Look, At
<1> QED  BY <1>5, <1>7, <1>8, <1>9, <1>10, <1>11 DEF IInv

\* The marker of a block that was looked up touches no data.
LEMMA MarkStep == ASSUME IInv, NEW c \in Callers, Mark(c) PROVE IInv'
<1> DEFINE ch == [pc |-> "done"]
<1>1. TypeOK /\ call[c] # None
  BY DEF IInv, Mark, At
<1> USE <1>1, CallFacts
<1>2. ChangeOK(ch) /\ Set(c, ch)
  BY DEF ChangeOK, Variable, Labels, TypeOK, Mark, At
<1>3. /\ call' \in [Callers -> Call \cup {None}] /\ call'[c] # None
      /\ \A d \in Callers : d # c => call'[d] = call[d]
      /\ Becomes(call'[c], call[c], ch)
  BY <1>2, SetCall
<1>4. UNCHANGED <<cells, map, free, data_buf, want, upset>>
  BY DEF Mark, At
<1>5. TypeOK'
  BY <1>3, <1>4 DEF TypeOK, Mark, At
<1>6. Looks(c)
  BY <1>3, <1>4 DEF Looks, InCopy, Using, Copying, Becomes, Mark, At
<1>7. Alone' /\ Owned' /\ LookedUp' /\ Kept' /\ Moved'
  BY <1>4, <1>5, <1>6, LooksStep
<1>8. Attempts'
  BY <1>3, <1>4 DEF Attempts, IInv, Becomes, Copying, Mark, At
<1>9. Spared'
  BY <1>3, <1>4 DEF Spared, CopyLen, IInv, Becomes, Copying, Mark, At
<1>10. Writable'
  BY <1>3, <1>4 DEF Writable, Apart, IInv, Becomes, Copying, Mark, At
<1>11. Read'
  BY <1>3, <1>4 DEF Read, Apart, IInv, Becomes, Copying, Mark, At
<1> QED  BY <1>5, <1>7, <1>8, <1>9, <1>10, <1>11 DEF IInv

\* A block to be marked is remapped first, whole and only once.
LEMMA MarkBadRawStep == ASSUME IInv, NEW c \in Callers, MarkBadRaw(c) PROVE IInv'
<1> DEFINE ch == [pc |-> "pick", len |-> CopyLen(call[c].kind, call[c].from), again |-> FALSE,
                  err |-> FALSE]
<1>1. TypeOK /\ call[c] # None
  BY DEF IInv, MarkBadRaw, At, Remap, CopyLen
<1> USE <1>1, CallFacts
<1>2. ChangeOK(ch) /\ Set(c, ch)
  BY DEF ChangeOK, Variable, Labels, TypeOK, MarkBadRaw, At, Remap, CopyLen
<1>3. /\ call' \in [Callers -> Call \cup {None}] /\ call'[c] # None
      /\ \A d \in Callers : d # c => call'[d] = call[d]
      /\ Becomes(call'[c], call[c], ch)
  BY <1>2, SetCall
<1>4. UNCHANGED <<cells, map, free, data_buf, want, upset>>
  BY DEF MarkBadRaw, At, Remap, CopyLen
<1>5. TypeOK'
  BY <1>3, <1>4 DEF TypeOK, MarkBadRaw, At, Remap, CopyLen
<1>6. Looks(c)
  BY <1>3, <1>4 DEF Looks, InCopy, Using, Copying, Becomes, MarkBadRaw, At, Remap, CopyLen
<1>7. Alone' /\ Owned' /\ LookedUp' /\ Kept' /\ Moved'
  BY <1>4, <1>5, <1>6, LooksStep
<1>8. Attempts'
  BY <1>3, <1>4 DEF Attempts, IInv, Becomes, Copying, MarkBadRaw, At, Remap, CopyLen
<1>9. Spared'
  BY <1>3, <1>4 DEF Spared, CopyLen, IInv, Becomes, Copying, MarkBadRaw, At, Remap
<1>10. Writable'
  BY <1>3, <1>4 DEF Writable, Apart, IInv, Becomes, Copying, MarkBadRaw, At, Remap, CopyLen
<1>11. Read'
  BY <1>3, <1>4 DEF Read, Apart, IInv, Becomes, Copying, MarkBadRaw, At, Remap, CopyLen
<1> QED  BY <1>5, <1>7, <1>8, <1>9, <1>10, <1>11 DEF IInv

\* A read that fails keeps its error and has the block remapped.
LEMMA ReadFailsStep ==
    ASSUME IInv, NEW c \in Callers, ReadRaw(c),
           \E p \in Pages : cells[call[c].block][p] = Unreadable
    PROVE  IInv'
<1> DEFINE ch == [pc |-> "pick", len |-> CopyLen(call[c].kind, call[c].from), again |-> TRUE,
                  err |-> TRUE]
<1>1. TypeOK /\ call[c] # None
  BY DEF IInv, ReadRaw, At, Remap, CopyLen
<1> USE <1>1, CallFacts
<1>2. ChangeOK(ch) /\ Set(c, ch)
  BY DEF ChangeOK, Variable, Labels, TypeOK, ReadRaw, At, Remap, CopyLen
<1>3. /\ call' \in [Callers -> Call \cup {None}] /\ call'[c] # None
      /\ \A d \in Callers : d # c => call'[d] = call[d]
      /\ Becomes(call'[c], call[c], ch)
  BY <1>2, SetCall
<1>4. UNCHANGED <<cells, map, free, data_buf, want, upset>>
  BY DEF ReadRaw, At, Remap, CopyLen
<1>5. TypeOK'
  BY <1>3, <1>4 DEF TypeOK, ReadRaw, At, Remap, CopyLen
<1>6. Looks(c)
  BY <1>3, <1>4 DEF Looks, InCopy, Using, Copying, Becomes, ReadRaw, At, Remap, CopyLen
<1>7. Alone' /\ Owned' /\ LookedUp' /\ Kept' /\ Moved'
  BY <1>4, <1>5, <1>6, LooksStep
<1>8. Attempts'
  BY <1>3, <1>4 DEF Attempts, IInv, Becomes, Copying, ReadRaw, At, Remap, CopyLen
<1>9. Spared'
  BY <1>3, <1>4 DEF Spared, CopyLen, IInv, Becomes, Copying, ReadRaw, At, Remap
<1>10. Writable'
  BY <1>3, <1>4 DEF Writable, Apart, IInv, Becomes, Copying, ReadRaw, At, Remap, CopyLen
<1>11. Read'
  <2>1. call'[c].err /\ \A d \in Callers : d # c => call'[d] = call[d]
    BY <1>3 DEF Becomes
  <2> QED  BY <1>4, <2>1 DEF IInv, Read, Apart
<1> QED  BY <1>5, <1>7, <1>8, <1>9, <1>10, <1>11 DEF IInv

\* A read that works delivers what is in the block that was looked up.
LEMMA ReadWorksStep ==
    ASSUME IInv, NEW c \in Callers, ReadRaw(c),
           \A p \in Pages : cells[call[c].block][p] # Unreadable,
           Set(c, [pc |-> "done", got |-> cells[call[c].block], err |-> ReadErr(c)])
    PROVE  IInv'
<1> DEFINE ch == [pc |-> "done", got |-> cells[call[c].block], err |-> ReadErr(c)]
<1>1. TypeOK /\ call[c] # None
  BY DEF IInv, ReadRaw, At, ReadErr, Fault, Contents, Logical, Erased, Unreadable
<1> USE <1>1, CallFacts
<1>2. ChangeOK(ch) /\ Set(c, ch)
  BY DEF ChangeOK, Variable, Labels, TypeOK, ReadRaw, At, ReadErr, Fault, Contents, Logical,
       Erased, Unreadable
<1>3. /\ call' \in [Callers -> Call \cup {None}] /\ call'[c] # None
      /\ \A d \in Callers : d # c => call'[d] = call[d]
      /\ Becomes(call'[c], call[c], ch)
  BY <1>2, SetCall
<1>4. UNCHANGED <<cells, map, free, data_buf, want, upset>>
  BY DEF ReadRaw, At, ReadErr, Fault, Contents, Logical, Erased, Unreadable
<1>5. TypeOK'
  <2>1. UNCHANGED <<marked, ops>> /\ faults' \in 0..MaxFaults
    BY FaultTypes DEF ReadRaw
  <2> QED  BY <1>3, <1>4, <2>1 DEF TypeOK
<1>6. Looks(c)
  BY <1>3, <1>4 DEF Looks, InCopy, Using, Copying, Becomes, ReadRaw, At, ReadErr
<1>7. Alone' /\ Owned' /\ LookedUp' /\ Kept' /\ Moved'
  BY <1>4, <1>5, <1>6, LooksStep
<1>8. Attempts'
  BY <1>3, <1>4 DEF Attempts, IInv, Becomes, Copying, ReadRaw, At, ReadErr
<1>9. Spared'
  BY <1>3, <1>4 DEF Spared, CopyLen, IInv, Becomes, Copying, ReadRaw, At, ReadErr
<1>10. Writable'
  BY <1>3, <1>4 DEF Writable, Apart, IInv, Becomes, Copying, ReadRaw, At, ReadErr
<1>11. Read'
  <2>1. /\ call'[c].kind = "read" /\ call'[c].lb = call[c].lb /\ call'[c].pc \notin {"look", "raw"}
        /\ call'[c].err = call[c].err /\ call'[c].again = call[c].again
        /\ call'[c].due = call[c].due /\ call'[c].got = cells[call[c].block]
        /\ call[c].pc = "raw"
    BY <1>3 DEF Becomes, ReadRaw, ReadErr, At
  <2>2. Apart(call[c].lb) => call[c].block = map[call[c].lb]
    BY <2>1 DEF IInv, LookedUp, Using
  <2>3. ASSUME Apart(call[c].lb), ~call[c].err, NEW p \in Pages
        PROVE  call[c].due[p] \in {Lost, cells[call[c].block][p]}
    BY <2>1, <2>2, <2>3 DEF IInv, Read, ReadRaw
  <2>4. ~call'[c].err => /\ ~call'[c].again
                         /\ Apart(call[c].lb)' =>
                               \A p \in Pages : call'[c].due[p] \in {Lost, call'[c].got[p]}
    BY <1>4, <2>1, <2>3 DEF IInv, Read, Apart, ReadRaw
  <2>5. \A d \in Callers : d # c => call'[d] = call[d]
    BY <1>3
  <2>6. ASSUME NEW d \in Callers, d # c, call[d] # None, call[d].kind = "read", ~call[d].err
        PROVE  /\ ~call[d].again
               /\ Apart(call[d].lb) => \A p \in Pages :
                     IF call[d].pc \in {"look", "raw"}
                     THEN \/ call[d].due[p] \in {Lost, cells[map[call[d].lb]][p]}
                          \/ cells[map[call[d].lb]][p] = Unreadable
                     ELSE call[d].due[p] \in {Lost, call[d].got[p]}
    BY <2>6 DEF IInv, Read
  <2> QED  BY <1>4, <2>1, <2>4, <2>5, <2>6 DEF Read, Apart
<1> QED  BY <1>5, <1>7, <1>8, <1>9, <1>10, <1>11 DEF IInv

\* So does one with bitflips over the threshold, which has the block remapped besides.
LEMMA ReadFlipsStep ==
    ASSUME IInv, NEW c \in Callers, ReadRaw(c),
           \A p \in Pages : cells[call[c].block][p] # Unreadable,
           Set(c, [pc |-> "pick", len |-> NumPages, again |-> FALSE,
                   got |-> cells[call[c].block], err |-> ReadErr(c)])
    PROVE  IInv'
<1> DEFINE ch == [pc |-> "pick", len |-> NumPages, again |-> FALSE, got |-> cells[call[c].block],
                  err |-> ReadErr(c)]
<1>1. TypeOK /\ call[c] # None
  BY DEF IInv, ReadRaw, At, ReadErr, Fault, Contents, Logical, Erased, Unreadable
<1> USE <1>1, CallFacts
<1>2. ChangeOK(ch) /\ Set(c, ch)
  BY DEF ChangeOK, Variable, Labels, TypeOK, ReadRaw, At, ReadErr, Fault, Contents, Logical,
       Erased, Unreadable
<1>3. /\ call' \in [Callers -> Call \cup {None}] /\ call'[c] # None
      /\ \A d \in Callers : d # c => call'[d] = call[d]
      /\ Becomes(call'[c], call[c], ch)
  BY <1>2, SetCall
<1>4. UNCHANGED <<cells, map, free, data_buf, want, upset>>
  BY DEF ReadRaw, At, ReadErr, Fault, Contents, Logical, Erased, Unreadable
<1>5. TypeOK'
  <2>1. UNCHANGED <<marked, ops>> /\ faults' \in 0..MaxFaults
    BY FaultTypes DEF ReadRaw
  <2> QED  BY <1>3, <1>4, <2>1 DEF TypeOK
<1>6. Looks(c)
  BY <1>3, <1>4 DEF Looks, InCopy, Using, Copying, Becomes, ReadRaw, At, ReadErr
<1>7. Alone' /\ Owned' /\ LookedUp' /\ Kept' /\ Moved'
  BY <1>4, <1>5, <1>6, LooksStep
<1>8. Attempts'
  BY <1>3, <1>4 DEF Attempts, IInv, Becomes, Copying, ReadRaw, At, ReadErr
<1>9. Spared'
  BY <1>3, <1>4 DEF Spared, CopyLen, IInv, Becomes, Copying, ReadRaw, At, ReadErr
<1>10. Writable'
  BY <1>3, <1>4 DEF Writable, Apart, IInv, Becomes, Copying, ReadRaw, At, ReadErr
<1>11. Read'
  <2>1. /\ call'[c].kind = "read" /\ call'[c].lb = call[c].lb /\ call'[c].pc \notin {"look", "raw"}
        /\ call'[c].err = call[c].err /\ call'[c].again = FALSE
        /\ call'[c].due = call[c].due /\ call'[c].got = cells[call[c].block]
        /\ call[c].pc = "raw"
    BY <1>3 DEF Becomes, ReadRaw, ReadErr, At
  <2>2. Apart(call[c].lb) => call[c].block = map[call[c].lb]
    BY <2>1 DEF IInv, LookedUp, Using
  <2>3. ASSUME Apart(call[c].lb), ~call[c].err, NEW p \in Pages
        PROVE  call[c].due[p] \in {Lost, cells[call[c].block][p]}
    BY <2>1, <2>2, <2>3 DEF IInv, Read, ReadRaw
  <2>4. ~call'[c].err => /\ ~call'[c].again
                         /\ Apart(call[c].lb)' =>
                               \A p \in Pages : call'[c].due[p] \in {Lost, call'[c].got[p]}
    BY <1>4, <2>1, <2>3 DEF IInv, Read, Apart, ReadRaw
  <2>5. \A d \in Callers : d # c => call'[d] = call[d]
    BY <1>3
  <2>6. ASSUME NEW d \in Callers, d # c, call[d] # None, call[d].kind = "read", ~call[d].err
        PROVE  /\ ~call[d].again
               /\ Apart(call[d].lb) => \A p \in Pages :
                     IF call[d].pc \in {"look", "raw"}
                     THEN \/ call[d].due[p] \in {Lost, cells[map[call[d].lb]][p]}
                          \/ cells[map[call[d].lb]][p] = Unreadable
                     ELSE call[d].due[p] \in {Lost, call[d].got[p]}
    BY <2>6 DEF IInv, Read
  <2> QED  BY <1>4, <2>1, <2>4, <2>5, <2>6 DEF Read, Apart
<1> QED  BY <1>5, <1>7, <1>8, <1>9, <1>10, <1>11 DEF IInv

\* A block with the marker is remapped, and the request repeated.
LEMMA IsBadStep ==
    ASSUME IInv, NEW c \in Callers, IsBadRaw(c), call[c].block \in marked
    PROVE  IInv'
<1> DEFINE ch == [pc |-> "pick", len |-> CopyLen(call[c].kind, call[c].from), again |-> TRUE,
                  err |-> TRUE]
<1>1. TypeOK /\ call[c] # None
  BY DEF IInv, IsBadRaw, At, Remap, CopyLen
<1> USE <1>1, CallFacts
<1>2. ChangeOK(ch) /\ Set(c, ch)
  BY DEF ChangeOK, Variable, Labels, TypeOK, IsBadRaw, At, Remap, CopyLen
<1>3. /\ call' \in [Callers -> Call \cup {None}] /\ call'[c] # None
      /\ \A d \in Callers : d # c => call'[d] = call[d]
      /\ Becomes(call'[c], call[c], ch)
  BY <1>2, SetCall
<1>4. UNCHANGED <<cells, map, free, data_buf, want, upset>>
  BY DEF IsBadRaw, At, Remap, CopyLen
<1>5. TypeOK'
  BY <1>3, <1>4 DEF TypeOK, IsBadRaw, At, Remap, CopyLen
<1>6. Looks(c)
  BY <1>3, <1>4 DEF Looks, InCopy, Using, Copying, Becomes, IsBadRaw, At, Remap, CopyLen
<1>7. Alone' /\ Owned' /\ LookedUp' /\ Kept' /\ Moved'
  BY <1>4, <1>5, <1>6, LooksStep
<1>8. Attempts'
  BY <1>3, <1>4 DEF Attempts, IInv, Becomes, Copying, IsBadRaw, At, Remap, CopyLen
<1>9. Spared'
  BY <1>3, <1>4 DEF Spared, CopyLen, IInv, Becomes, Copying, IsBadRaw, At, Remap
<1>10. Writable'
  BY <1>3, <1>4 DEF Writable, Apart, IInv, Becomes, Copying, IsBadRaw, At, Remap, CopyLen
<1>11. Read'
  BY <1>3, <1>4 DEF Read, Apart, IInv, Becomes, Copying, IsBadRaw, At, Remap, CopyLen
<1> QED  BY <1>5, <1>7, <1>8, <1>9, <1>10, <1>11 DEF IInv

\* A block without it is good.
LEMMA IsGoodStep ==
    ASSUME IInv, NEW c \in Callers, IsBadRaw(c), call[c].block \notin marked
    PROVE  IInv'
<1> DEFINE ch == [pc |-> "done", err |-> FALSE]
<1>1. TypeOK /\ call[c] # None
  BY DEF IInv, IsBadRaw, At
<1> USE <1>1, CallFacts
<1>2. ChangeOK(ch) /\ Set(c, ch)
  BY DEF ChangeOK, Variable, Labels, TypeOK, IsBadRaw, At
<1>3. /\ call' \in [Callers -> Call \cup {None}] /\ call'[c] # None
      /\ \A d \in Callers : d # c => call'[d] = call[d]
      /\ Becomes(call'[c], call[c], ch)
  BY <1>2, SetCall
<1>4. UNCHANGED <<cells, map, free, data_buf, want, upset>>
  BY DEF IsBadRaw, At
<1>5. TypeOK'
  BY <1>3, <1>4 DEF TypeOK, IsBadRaw, At
<1>6. Looks(c)
  BY <1>3, <1>4 DEF Looks, InCopy, Using, Copying, Becomes, IsBadRaw, At
<1>7. Alone' /\ Owned' /\ LookedUp' /\ Kept' /\ Moved'
  BY <1>4, <1>5, <1>6, LooksStep
<1>8. Attempts'
  BY <1>3, <1>4 DEF Attempts, IInv, Becomes, Copying, IsBadRaw, At
<1>9. Spared'
  BY <1>3, <1>4 DEF Spared, CopyLen, IInv, Becomes, Copying, IsBadRaw, At
<1>10. Writable'
  BY <1>3, <1>4 DEF Writable, Apart, IInv, Becomes, Copying, IsBadRaw, At
<1>11. Read'
  BY <1>3, <1>4 DEF Read, Apart, IInv, Becomes, Copying, IsBadRaw, At
<1> QED  BY <1>5, <1>7, <1>8, <1>9, <1>10, <1>11 DEF IInv

\* The pool is empty: the remap has failed, and the map stays.
LEMMA PickNoneStep ==
    ASSUME IInv, NEW c \in Callers, Pick(c), free = {},
           Set(c, [pc |-> IF call[c].kind = "markbad" THEN "mark" ELSE "done"])
    PROVE  IInv'
<1> DEFINE ch == [pc |-> IF call[c].kind = "markbad" THEN "mark" ELSE "done"]
<1>1. TypeOK /\ call[c] # None
  BY DEF IInv, Pick, At
<1> USE <1>1, CallFacts
<1>2. ChangeOK(ch) /\ Set(c, ch)
  BY DEF ChangeOK, Variable, Labels, TypeOK, Pick, At
<1>3. /\ call' \in [Callers -> Call \cup {None}] /\ call'[c] # None
      /\ \A d \in Callers : d # c => call'[d] = call[d]
      /\ Becomes(call'[c], call[c], ch)
  BY <1>2, SetCall
<1>4. UNCHANGED <<cells, map, free, data_buf, want, upset>>
  BY DEF Pick, At
<1>5. TypeOK'
  BY <1>3, <1>4 DEF TypeOK, Pick, At
<1>6. Looks(c)
  BY <1>3, <1>4 DEF Looks, InCopy, Using, Copying, Becomes, Pick, At
<1>7. Alone' /\ Owned' /\ LookedUp' /\ Kept' /\ Moved'
  BY <1>4, <1>5, <1>6, LooksStep
<1>8. Attempts'
  BY <1>3, <1>4 DEF Attempts, IInv, Becomes, Copying, Pick, At
<1>9. Spared'
  BY <1>3, <1>4 DEF Spared, CopyLen, IInv, Becomes, Copying, Pick, At
<1>10. Writable'
  BY <1>3, <1>4 DEF Writable, Apart, IInv, Becomes, Copying, Pick, At
<1>11. Read'
  BY <1>3, <1>4 DEF Read, Apart, IInv, Becomes, Copying, Pick, At
<1> QED  BY <1>5, <1>7, <1>8, <1>9, <1>10, <1>11 DEF IInv

\* A block of the pool is found, which another caller may find as well.
LEMMA PickNewStep ==
    ASSUME IInv, NEW c \in Callers, Pick(c), NEW new \in free,
           Set(c, [pc |-> "take", new |-> new])
    PROVE  IInv'
<1> DEFINE ch == [pc |-> "take", new |-> new]
<1>1. TypeOK /\ call[c] # None
  BY DEF IInv, Pick, At
<1> USE <1>1, CallFacts
<1>2. ChangeOK(ch) /\ Set(c, ch)
  BY DEF ChangeOK, Variable, Labels, TypeOK, Pick, At
<1>3. /\ call' \in [Callers -> Call \cup {None}] /\ call'[c] # None
      /\ \A d \in Callers : d # c => call'[d] = call[d]
      /\ Becomes(call'[c], call[c], ch)
  BY <1>2, SetCall
<1>4. UNCHANGED <<cells, map, free, data_buf, want, upset>>
  BY DEF Pick, At
<1>5. TypeOK'
  BY <1>3, <1>4 DEF TypeOK, Pick, At
<1>6. Looks(c)
  BY <1>3, <1>4 DEF Looks, InCopy, Using, Copying, Becomes, Pick, At
<1>7. Alone' /\ Owned' /\ LookedUp' /\ Kept' /\ Moved'
  BY <1>4, <1>5, <1>6, LooksStep
<1>8. Attempts'
  BY <1>3, <1>4 DEF Attempts, IInv, Becomes, Copying, Pick, At
<1>9. Spared'
  BY <1>3, <1>4 DEF Spared, CopyLen, IInv, Becomes, Copying, Pick, At
<1>10. Writable'
  BY <1>3, <1>4 DEF Writable, Apart, IInv, Becomes, Copying, Pick, At
<1>11. Read'
  BY <1>3, <1>4 DEF Read, Apart, IInv, Becomes, Copying, Pick, At
<1> QED  BY <1>5, <1>7, <1>8, <1>9, <1>10, <1>11 DEF IInv

\* The end of a call changes nothing else.
LEMMA ReturnStep == ASSUME IInv, NEW c \in Callers, Return(c) PROVE IInv'
<1>1. /\ call[c] # None /\ call' = [call EXCEPT ![c] = None] /\ call[c].pc = "done"
      /\ UNCHANGED <<cells, marked, map, free, data_buf, want, upset, ops, faults>> /\ TypeOK
  BY DEF Return, IInv
<1>2. /\ call' \in [Callers -> Call \cup {None}] /\ call'[c] = None
      /\ \A d \in Callers : d # c => call'[d] = call[d]
  BY <1>1 DEF TypeOK
<1>3. TypeOK'
  BY <1>1, <1>2 DEF TypeOK
<1>4. Looks(c)
  BY <1>1, <1>2 DEF Looks, InCopy, Copying
<1>5. Alone' /\ Owned' /\ LookedUp' /\ Kept' /\ Moved'
  BY <1>1, <1>3, <1>4, LooksStep
<1>6. Attempts'
  BY <1>2 DEF IInv, Attempts
<1>7. Spared'
  BY <1>1, <1>2 DEF IInv, Spared
<1>8. Writable'
  BY <1>1, <1>2 DEF IInv, Writable, Apart
<1>9. Read'
  BY <1>1, <1>2 DEF IInv, Read, Apart
<1> QED  BY <1>3, <1>5, <1>6, <1>7, <1>8, <1>9 DEF IInv

\* What a caller writes goes into no block that belongs to another logical block.
LEMMA OthersStay ==
    ASSUME IInv, NEW c \in Callers, NEW b \in Blocks, Holds(c, b),
           \A x \in Blocks : x # b => cells'[x] = cells[x],
           NEW lb \in Logical, lb # call[c].lb, Apart(lb)
    PROVE  /\ cells'[map[lb]] = cells[map[lb]]
           /\ \A d \in Callers : InCopy(d) /\ call[d].lb = lb =>
                 /\ cells'[call[d].block] = cells[call[d].block]
                 /\ cells'[call[d].new] = cells[call[d].new]
<1> USE DEF IInv
<1>1. None \notin upset /\ map[lb] \in Blocks
  BY DEF Apart, TypeOK
<1>2. map[lb] # b
  BY <1>1 DEF Owned
<1>3. ASSUME NEW d \in Callers, InCopy(d), call[d].lb = lb
      PROVE  /\ call[d].block # b /\ call[d].new # b
             /\ call[d].block \in Blocks /\ call[d].new \in Blocks
  <2>1. call[d].block \in Blocks /\ call[d].new \in Blocks
    BY <1>3, CallFacts DEF InCopy
  <2>2. Holds(d, call[d].block) /\ Holds(d, call[d].new)
    BY <1>3 DEF Holds
  <2> QED  BY <1>1, <1>3, <2>1, <2>2 DEF Owned
<1> QED  BY <1>1, <1>2, <1>3

\* Who writes or erases is alone with its logical block, and leaves there what is expected.
LEMMA WriterStep ==
    ASSUME IInv, TypeOK', NEW c \in Callers, At(c, "raw"), call[c].kind \in {"write", "erase"},
           UNCHANGED <<map, free, data_buf, upset>>,
           \A d \in Callers : d # c => call'[d] = call[d],
           call'[c] # None, call'[c].lb = call[c].lb, call'[c].kind = call[c].kind,
           call'[c].block = call[c].block, call'[c].pc \in {"pick", "done"},
           \A x \in Blocks : x # call[c].block => cells'[x] = cells[x],
           \A lb \in Logical : lb # call[c].lb => want'[lb] = want[lb],
           Apart(call[c].lb) => \A p \in Pages :
              want'[call[c].lb][p] \in {Lost, cells'[call[c].block][p]}
    PROVE  Alone' /\ Owned' /\ LookedUp' /\ Kept' /\ Moved' /\ Writable' /\ Read'
<1> USE DEF IInv
<1>1. /\ call[c] # None /\ call[c].lb \in Logical /\ call[c].block \in Blocks
      /\ Holds(c, call[c].block)
      /\ call[c].pc = "raw" /\ Using(c) /\ ~InCopy(c) /\ ~InCopy(c)'
  BY CallFacts DEF At, Holds, Using, InCopy, Copying
<1>2. Looks(c)
  BY <1>1 DEF Looks, Copying
<1>3. Alone' /\ Owned' /\ LookedUp'
  BY <1>2, LooksStep
<1>4. \A d \in Callers : d # c /\ call[d] # None => call[d].lb # call[c].lb
  BY <1>1 DEF Alone
<1>5. Apart(call[c].lb) => call[c].block = map[call[c].lb]
  BY <1>1 DEF LookedUp
<1>6. \A lb \in Logical : lb # call[c].lb /\ Apart(lb) =>
         /\ cells'[map[lb]] = cells[map[lb]]
         /\ \A d \in Callers : InCopy(d) /\ call[d].lb = lb =>
               /\ cells'[call[d].block] = cells[call[d].block]
               /\ cells'[call[d].new] = cells[call[d].new]
  BY <1>1, OthersStay
<1>7. \A lb : Apart(lb)' <=> Apart(lb)
  BY DEF Apart
<1>8. \A d \in Callers : d # c /\ call[d] # None => call[d].lb \in Logical
  BY CallFacts
<1>9. \A d \in Callers : InCopy(d)' => InCopy(d) /\ d # c
  BY <1>1 DEF InCopy
<1>10. \A d \in Callers : InCopy(d) => InCopy(d)'
  BY <1>1 DEF InCopy
<1>11. Kept'
  <2> SUFFICES ASSUME NEW lb \in Logical, Apart(lb),
                      ~ \E d \in Callers : InCopy(d)' /\ call'[d].lb = lb,
                      NEW p \in Pages
               PROVE  want'[lb][p] \in {Lost, cells'[map[lb]][p]}
    BY <1>7 DEF Kept
  <2>1. CASE lb = call[c].lb
    BY <1>5, <2>1
  <2>2. CASE lb # call[c].lb
    <3>1. ~ \E d \in Callers : InCopy(d) /\ call[d].lb = lb
      BY <1>1, <1>10
    <3> QED  BY <1>6, <2>2, <3>1 DEF Kept
  <2> QED  BY <2>1, <2>2
<1>12. Moved'
  <2> SUFFICES ASSUME NEW d \in Callers, InCopy(d)', Apart(call[d].lb)', NEW p \in Pages
               PROVE  want'[call'[d].lb][p] \in {Lost, Copied(d, p)'}
    BY DEF Moved
  <2>1. call'[d] = call[d] /\ InCopy(d) /\ call[d].lb # call[c].lb /\ call[d].lb \in Logical
    BY <1>4, <1>8, <1>9 DEF InCopy
  <2>2. Apart(call[d].lb)
    BY <2>1 DEF Apart
  <2>3. Copied(d, p)' = Copied(d, p)
    BY <1>6, <2>1, <2>2 DEF Copied
  <2> QED  BY <2>1, <2>2, <2>3 DEF Moved
<1>13. Writable'
  <2> SUFFICES ASSUME NEW d \in Callers, call'[d] # None, Apart(call[d].lb)', NEW p \in Pages
               PROVE  /\ call'[d].kind = "write" /\ call'[d].pc \in {"look", "raw"}
                         /\ p >= call'[d].from => cells'[map[call'[d].lb]][p] = Erased
                      /\ call'[d].pc \in {"cp_read", "cp_write"} /\ p >= call'[d].page =>
                            cells'[call'[d].new][p] = Erased
    BY DEF Writable
  <2>1. CASE d = c
    BY <2>1
  <2>2. CASE d # c
    <3>1. call'[d] = call[d] /\ call[d].lb # call[c].lb /\ call[d].lb \in Logical
          /\ Apart(call[d].lb)
      BY <1>4, <1>8, <2>2 DEF Apart
    <3>2. call[d].pc \in {"cp_read", "cp_write"} => InCopy(d)
      BY <3>1 DEF InCopy, Copying
    <3> QED  BY <1>6, <3>1, <3>2 DEF Writable
  <2> QED  BY <2>1, <2>2
<1>14. Read'
  <2> SUFFICES ASSUME NEW d \in Callers, call'[d] # None, call'[d].kind = "read", ~call'[d].err
               PROVE  /\ ~call'[d].again
                      /\ Apart(call[d].lb)' => \A p \in Pages :
                            IF call'[d].pc \in {"look", "raw"}
                            THEN \/ call'[d].due[p] \in {Lost, cells'[map[call'[d].lb]][p]}
                                 \/ cells'[map[call'[d].lb]][p] = Unreadable
                            ELSE call'[d].due[p] \in {Lost, call'[d].got[p]}
    BY DEF Read
  <2>1. d # c
    OBVIOUS
  <2>2. call'[d] = call[d] /\ call[d].lb # call[c].lb /\ call[d].lb \in Logical
    BY <1>4, <1>8, <2>1
  <2>3. Apart(call[d].lb)' => Apart(call[d].lb) /\ cells'[map[call[d].lb]] = cells[map[call[d].lb]]
    BY <1>6, <2>2 DEF Apart
  <2> QED  BY <2>2, <2>3 DEF Read
<1> QED  BY <1>3, <1>11, <1>12, <1>13, <1>14

\* A write that works finds the pages erased; one that fails leaves nothing expected of them.
LEMMA WriteRawStep == ASSUME IInv, NEW c \in Callers, WriteRaw(c) PROVE IInv'
<1> DEFINE b == call[c].block
           lb == call[c].lb
           from == call[c].from
           Put(to) == [p \in Pages |-> IF p < from \/ p > to THEN cells[b][p]
                                       ELSE Program(b, p, lb)]
           Works == [pc |-> "done", err |-> FALSE]
           Fails == [pc |-> "pick", len |-> CopyLen(call[c].kind, from), again |-> TRUE,
                     err |-> TRUE]
<1>1. /\ TypeOK /\ call[c] # None /\ At(c, "raw") /\ call[c].kind = "write" /\ call[c].pc = "raw"
      /\ UNCHANGED <<marked, map, free, data_buf, upset, ops>>
  BY DEF IInv, WriteRaw, At
<1>2. /\ call[c] \in Call /\ lb \in Logical /\ b \in Blocks /\ from \in Pages
      /\ NumPages \in Nat \ {0} /\ Pages \subseteq 0..NumPages /\ MaxRetry \in Nat
  BY <1>1, CallFacts
<1>3. \A to \in Int : Put(to) \in [Pages -> Contents]
  BY <1>1, <1>2 DEF TypeOK, Program, Contents
<1>4. CASE /\ cells' = [cells EXCEPT ![b] = Put(NumPages - 1)]
           /\ want' = [want EXCEPT ![lb] = [p \in Pages |-> IF p >= from THEN lb ELSE want[lb][p]]]
           /\ Set(c, Works) /\ UNCHANGED faults
  <2>1. ChangeOK(Works)
    BY DEF ChangeOK, Variable, Labels
  <2>2. /\ call' \in [Callers -> Call \cup {None}] /\ call'[c] # None
        /\ \A d \in Callers : d # c => call'[d] = call[d]
        /\ Becomes(call'[c], call[c], Works)
    BY <1>1, <1>4, <2>1, SetCall
  <2>3. /\ cells' \in [Blocks -> [Pages -> Contents]] /\ cells'[b] = Put(NumPages - 1)
        /\ \A x \in Blocks : x # b => cells'[x] = cells[x]
    <3> HIDE DEF Put
    <3> QED  BY <1>1, <1>2, <1>3, <1>4 DEF TypeOK
  <2>4. /\ want' \in [Logical -> [Pages -> Logical \cup {Erased, Lost}]]
        /\ \A p \in Pages : want'[lb][p] = IF p >= from THEN lb ELSE want[lb][p]
        /\ \A l \in Logical : l # lb => want'[l] = want[l]
    BY <1>1, <1>2, <1>4 DEF TypeOK
  <2>5. TypeOK'
    BY <1>1, <1>2, <1>4, <2>2, <2>3, <2>4 DEF TypeOK
  <2>6. ASSUME Apart(lb), NEW p \in Pages
        PROVE  want'[lb][p] \in {Lost, cells'[b][p]}
    <3>1. b = map[lb]
      BY <1>1, <2>6 DEF IInv, LookedUp, Using
    <3>2. CASE p >= from
      <4>1. cells[b][p] = Erased
        BY <1>1, <2>6, <3>1, <3>2 DEF IInv, Writable
      <4> QED  BY <1>2, <2>3, <2>4, <3>2, <4>1 DEF Program, Pages
    <3>3. CASE ~(p >= from)
      <4>1. \A d \in Callers : InCopy(d) => call[d].lb # lb
        BY <1>1, <2>6 DEF IInv, Alone, InCopy, Copying, Apart
      <4>2. want[lb][p] \in {Lost, cells[b][p]}
        BY <1>2, <2>6, <3>1, <4>1 DEF IInv, Kept
      <4> QED  BY <1>2, <2>3, <2>4, <3>3, <4>2 DEF Pages
    <3> QED  BY <3>2, <3>3
  <2>7. Alone' /\ Owned' /\ LookedUp' /\ Kept' /\ Moved' /\ Writable' /\ Read'
    <3> HIDE DEF Put
    <3> QED BY <1>1, <2>2, <2>3, <2>4, <2>5, <2>6, WriterStep DEF Becomes
  <2>8. Attempts'
    BY <1>1, <1>2, <2>2 DEF IInv, Attempts, Becomes, Copying
  <2>9. Spared'
    BY <1>1, <1>2, <2>2, <2>4, CallFacts DEF IInv, Spared, Becomes, Copying, Alone
  <2> QED  BY <2>5, <2>7, <2>8, <2>9 DEF IInv
<1>5. ASSUME NEW q \in from..(NumPages - 1), Fault, UNCHANGED want, Set(c, Fails),
             cells' = [[cells EXCEPT ![b] = Put(q)] EXCEPT ![b][q] = Unreadable]
      PROVE  IInv'
  <2>1. ChangeOK(Fails)
    BY <1>2 DEF ChangeOK, Variable, Labels, CopyLen
  <2>2. /\ call' \in [Callers -> Call \cup {None}] /\ call'[c] # None
        /\ \A d \in Callers : d # c => call'[d] = call[d]
        /\ Becomes(call'[c], call[c], Fails)
    BY <1>1, <1>5, <2>1, SetCall
  <2>3. /\ cells' \in [Blocks -> [Pages -> Contents]]
        /\ \A p \in Pages : p < from => cells'[b][p] = cells[b][p]
        /\ \A x \in Blocks : x # b => cells'[x] = cells[x]
    <3>1. q \in Int /\ q \in Pages
      BY <1>2 DEF Pages
    <3>2. Put(q) \in [Pages -> Contents] /\ \A p \in Pages : p < from => Put(q)[p] = cells[b][p]
      BY <1>3, <3>1
    <3> HIDE DEF Put
    <3>3. cells' = [cells EXCEPT ![b] = [Put(q) EXCEPT ![q] = Unreadable]]
      BY <1>1, <1>2, <1>5 DEF TypeOK
    <3> QED  BY <1>1, <1>2, <1>5, <3>1, <3>2, <3>3 DEF TypeOK, Contents
  <2>4. \A p \in Pages : p >= from => want[lb][p] = Lost
    BY <1>1 DEF IInv, Spared
  <2>5. TypeOK'
    BY <1>1, <1>5, <2>2, <2>3, FaultTypes DEF TypeOK
  <2>6. ASSUME Apart(lb), NEW p \in Pages
        PROVE  want'[lb][p] \in {Lost, cells'[b][p]}
    <3>1. b = map[lb]
      BY <1>1, <2>6 DEF IInv, LookedUp, Using
    <3>2. CASE p >= from
      BY <1>5, <2>4, <3>2
    <3>3. CASE ~(p >= from)
      <4>1. \A d \in Callers : InCopy(d) => call[d].lb # lb
        BY <1>1, <2>6 DEF IInv, Alone, InCopy, Copying, Apart
      <4>2. want[lb][p] \in {Lost, cells[b][p]}
        BY <1>2, <2>6, <3>1, <4>1 DEF IInv, Kept
      <4> QED  BY <1>2, <1>5, <2>3, <3>3, <4>2 DEF Pages
    <3> QED  BY <3>2, <3>3
  <2>7. Alone' /\ Owned' /\ LookedUp' /\ Kept' /\ Moved' /\ Writable' /\ Read'
    BY <1>1, <1>5, <2>2, <2>3, <2>5, <2>6, WriterStep DEF Becomes
  <2>8. Attempts'
    BY <1>1, <1>2, <2>2 DEF IInv, Attempts, Becomes, Copying
  <2>9. Spared'
    BY <1>1, <1>2, <1>5, <2>2, CallFacts DEF IInv, Spared, Becomes, Copying
  <2> QED  BY <2>5, <2>7, <2>8, <2>9 DEF IInv
<1> QED
  <2> HIDE DEF Works, Fails
  <2> QED BY <1>1, <1>4, <1>5 DEF WriteRaw, Remap, Works, Fails

\* An erase that works leaves every page erased; one that fails, nothing expected.
LEMMA EraseRawStep == ASSUME IInv, NEW c \in Callers, EraseRaw(c) PROVE IInv'
<1> DEFINE b == call[c].block
           lb == call[c].lb
           Works == [pc |-> "done", err |-> FALSE]
           Fails == [pc |-> "pick", len |-> CopyLen(call[c].kind, call[c].from), again |-> TRUE,
                     err |-> TRUE]
<1>1. /\ TypeOK /\ call[c] # None /\ At(c, "raw") /\ call[c].kind = "erase" /\ call[c].pc = "raw"
      /\ UNCHANGED <<marked, map, free, data_buf, upset, ops>>
  BY DEF IInv, EraseRaw, At
<1>2. /\ call[c] \in Call /\ lb \in Logical /\ b \in Blocks
      /\ NumPages \in Nat \ {0} /\ Pages \subseteq 0..NumPages /\ MaxRetry \in Nat
      /\ call[c].from = 0
  BY <1>1, CallFacts DEF IInv, Spared, Pages
<1>3. CASE /\ cells' = [cells EXCEPT ![b] = [p \in Pages |-> Erased]]
           /\ want' = [want EXCEPT ![lb] = [p \in Pages |-> Erased]]
           /\ Set(c, Works) /\ UNCHANGED faults
  <2>1. ChangeOK(Works)
    BY DEF ChangeOK, Variable, Labels
  <2>2. /\ call' \in [Callers -> Call \cup {None}] /\ call'[c] # None
        /\ \A d \in Callers : d # c => call'[d] = call[d]
        /\ Becomes(call'[c], call[c], Works)
    BY <1>1, <1>3, <2>1, SetCall
  <2>3. /\ cells' \in [Blocks -> [Pages -> Contents]]
        /\ \A p \in Pages : cells'[b][p] = Erased
        /\ \A x \in Blocks : x # b => cells'[x] = cells[x]
    BY <1>1, <1>2, <1>3 DEF TypeOK, Contents
  <2>4. /\ want' \in [Logical -> [Pages -> Logical \cup {Erased, Lost}]]
        /\ \A p \in Pages : want'[lb][p] = Erased
        /\ \A l \in Logical : l # lb => want'[l] = want[l]
    BY <1>1, <1>2, <1>3 DEF TypeOK
  <2>5. TypeOK'
    BY <1>1, <1>2, <1>3, <2>2, <2>3, <2>4 DEF TypeOK
  <2>6. Alone' /\ Owned' /\ LookedUp' /\ Kept' /\ Moved' /\ Writable' /\ Read'
    BY <1>1, <2>2, <2>3, <2>4, <2>5, WriterStep DEF Becomes
  <2>7. Attempts'
    BY <1>1, <1>2, <2>2 DEF IInv, Attempts, Becomes, Copying
  <2>8. Spared'
    BY <1>1, <1>2, <2>2, <2>4, CallFacts DEF IInv, Spared, Becomes, Copying, Alone
  <2> QED  BY <2>5, <2>6, <2>7, <2>8 DEF IInv
<1>4. CASE Fault /\ UNCHANGED <<cells, want>> /\ Set(c, Fails)
  <2>1. ChangeOK(Fails)
    BY <1>2 DEF ChangeOK, Variable, Labels, CopyLen
  <2>2. /\ call' \in [Callers -> Call \cup {None}] /\ call'[c] # None
        /\ \A d \in Callers : d # c => call'[d] = call[d]
        /\ Becomes(call'[c], call[c], Fails)
    BY <1>1, <1>4, <2>1, SetCall
  <2>3. \A p \in Pages : want[lb][p] = Lost
    BY <1>1, <1>2 DEF IInv, Spared, Pages
  <2>4. TypeOK'
    BY <1>1, <1>4, <2>2, FaultTypes DEF TypeOK
  <2>5. Alone' /\ Owned' /\ LookedUp' /\ Kept' /\ Moved' /\ Writable' /\ Read'
    BY <1>1, <1>4, <2>2, <2>3, <2>4, WriterStep DEF Becomes
  <2>6. Attempts'
    BY <1>1, <1>2, <2>2 DEF IInv, Attempts, Becomes, Copying
  <2>7. Spared'
    BY <1>1, <1>2, <1>4, <2>2, CallFacts DEF IInv, Spared, Becomes, Copying
  <2> QED  BY <2>4, <2>5, <2>6, <2>7 DEF IInv
<1> QED
  <2> HIDE DEF Works, Fails
  <2> QED BY <1>1, <1>3, <1>4 DEF EraseRaw, Remap, Works, Fails

\* A block that is taken from the pool belongs to nobody, unless two callers have found it; the
\* data stays in the old block until it is copied.
LEMMA TakeStep == ASSUME IInv, NEW c \in Callers, Take(c) PROVE IInv'
<1> DEFINE lb  == call[c].lb
           new == call[c].new
           ch  == [pc |-> "rm_erase", page |-> 0, used |-> call[c].used + 1]
<1>1. /\ TypeOK /\ call[c] # None /\ call[c].pc = "take"
      /\ free' = free \ {new} /\ map' = [map EXCEPT ![lb] = new]
      /\ upset' = upset \cup (IF Busy(lb) = {c} THEN {} ELSE {lb})
                        \cup (IF new \in free THEN {} ELSE {None})
      /\ Set(c, ch) /\ UNCHANGED <<cells, marked, data_buf, want, ops, faults>>
  BY DEF IInv, Take, At
<1>2. /\ call[c] \in Call /\ lb \in Logical /\ new \in Blocks /\ map[lb] \in Blocks
      /\ call[c].block \in Blocks /\ 0 \in Pages
      /\ call[c].used \in Nat /\ call[c].retry \in Nat /\ MaxRetry \in Nat
  BY <1>1, CallFacts DEF Pages
<1>3. /\ call' \in [Callers -> Call \cup {None}] /\ call'[c] # None
      /\ \A d \in Callers : d # c => call'[d] = call[d]
      /\ Becomes(call'[c], call[c], ch)
  <2>1. ChangeOK(ch)
    BY <1>2 DEF ChangeOK, Variable, Labels
  <2> QED  BY <1>1, <2>1, SetCall
<1>4. /\ call'[c].kind = call[c].kind /\ call'[c].lb = lb /\ call'[c].from = call[c].from
      /\ call'[c].pc = "rm_erase" /\ call'[c].block = call[c].block /\ call'[c].new = new
      /\ call'[c].len = call[c].len /\ call'[c].due = call[c].due /\ call'[c].got = call[c].got
      /\ call'[c].retry = call[c].retry /\ call'[c].used = call[c].used + 1
      /\ call'[c].again = call[c].again /\ call'[c].err = call[c].err
  BY <1>3 DEF Becomes
<1> HIDE DEF ch
<1>5. /\ map' \in [Logical -> Blocks] /\ map'[lb] = new
      /\ \A l \in Logical : l # lb => map'[l] = map[l]
  BY <1>1, <1>2 DEF TypeOK
<1>6. TypeOK'
  BY <1>1, <1>2, <1>3, <1>5 DEF TypeOK
<1>7. /\ Using(c) /\ ~InCopy(c) /\ InCopy(c)' /\ Holds(c, call[c].block)
      /\ \A d \in Callers : d # c => (Using(d)' <=> Using(d)) /\ (InCopy(d)' <=> InCopy(d))
  BY <1>1, <1>3, <1>4 DEF Using, InCopy, Copying, Holds
<1>8. /\ \A l : Apart(l)' => Apart(l)
      /\ lb \notin upset' => \A d \in Callers : call[d] # None /\ d # c => call[d].lb # lb
      /\ None \notin upset' => new \in free /\ None \notin upset
  BY <1>1 DEF Apart, Busy
<1>9. Alone'
  <2> SUFFICES ASSUME NEW d \in Callers, NEW e \in Callers, d # e,
                      call'[d] # None, call'[e] # None, call'[d].lb = call'[e].lb
               PROVE  /\ {call'[d].kind, call'[e].kind} \subseteq {"read", "isbad"}
                      /\ InCopy(d)' => call'[d].lb \in upset'
    BY DEF Alone
  <2>1. /\ call[d] # None /\ call'[d].lb = call[d].lb /\ call'[d].kind = call[d].kind
        /\ call[e] # None /\ call'[e].lb = call[e].lb /\ call'[e].kind = call[e].kind
    BY <1>1, <1>3, <1>4
  <2>2. CASE d = c
    BY <1>8, <2>1, <2>2 DEF IInv, Alone
  <2>3. CASE d # c
    BY <1>1, <1>7, <2>1, <2>3 DEF IInv, Alone
  <2> QED  BY <2>2, <2>3
<1>10. \A d \in Callers, b \in Blocks : Holds(d, b)' =>
          /\ call'[d].lb = call[d].lb
          /\ Holds(d, b) \/ (d = c /\ b = new)
  BY <1>3, <1>4, <1>7 DEF Holds
<1>11. Owned'
  <2> SUFFICES ASSUME None \notin upset'
               PROVE  /\ \A l1, l2 \in Logical : map'[l1] = map'[l2] => l1 = l2
                      /\ \A l \in Logical : map'[l] \notin free'
                      /\ \A d \in Callers, b \in Blocks : Holds(d, b)' =>
                            b \notin free' /\ \A l \in Logical : map'[l] = b => l = call'[d].lb
                      /\ \A d, e \in Callers, b \in Blocks :
                            Holds(d, b)' /\ Holds(e, b)' => call'[d].lb = call'[e].lb
                      /\ \A d, e \in Callers : At(d, "cp_write")' /\ At(e, "cp_write")' => d = e
    BY DEF Owned
  <2>1. /\ new \in free /\ Owned /\ None \notin upset
        /\ \A l \in Logical : map[l] \notin free
        /\ \A d \in Callers, b \in Blocks : Holds(d, b) =>
              b \notin free /\ \A l \in Logical : map[l] = b => l = call[d].lb
        /\ \A d, e \in Callers, b \in Blocks : Holds(d, b) /\ Holds(e, b) => call[d].lb = call[e].lb
        /\ \A l1, l2 \in Logical : map[l1] = map[l2] => l1 = l2
        /\ \A d, e \in Callers : At(d, "cp_write") /\ At(e, "cp_write") => d = e
    BY <1>8 DEF IInv, Owned
  <2>2. \A l1, l2 \in Logical : map'[l1] = map'[l2] => l1 = l2
    BY <1>5, <2>1
  <2>3. \A l \in Logical : map'[l] \notin free'
    BY <1>1, <1>5, <2>1
  <2>4. \A d \in Callers, b \in Blocks : Holds(d, b)' =>
           b \notin free' /\ \A l \in Logical : map'[l] = b => l = call'[d].lb
    BY <1>1, <1>4, <1>5, <1>10, <2>1
  <2>5. \A d, e \in Callers, b \in Blocks :
           Holds(d, b)' /\ Holds(e, b)' => call'[d].lb = call'[e].lb
    BY <1>10, <2>1
  <2>6. \A d \in Callers : At(d, "cp_write")' => At(d, "cp_write")
    BY <1>3, <1>4 DEF At
  <2> QED  BY <2>1, <2>2, <2>3, <2>4, <2>5, <2>6
<1>12. \A d \in Callers : d # c /\ call'[d] # None /\ Apart(call[d].lb)' =>
          /\ call'[d] = call[d] /\ call[d].lb \in Logical /\ call[d].lb # lb
          /\ map'[call[d].lb] = map[call[d].lb] /\ Apart(call[d].lb)
  BY <1>1, <1>3, <1>5, <1>8, CallFacts DEF Apart
<1>13. LookedUp'
  <2>1. ASSUME Apart(lb)' PROVE call[c].block # new
    <3>1. None \notin upset' /\ None \notin upset
      BY <1>8, <2>1 DEF Apart
    <3> QED  BY <1>2, <1>7, <1>8, <3>1 DEF IInv, Owned
  <2>2. \A d \in Callers : d # c =>
           /\ Using(d)' => Using(d) /\ call'[d] # None
           /\ InCopy(d)' => InCopy(d) /\ call'[d] # None
    BY <1>3, <1>7 DEF Using, InCopy
  <2>3. ~Using(c)'
    BY <1>4 DEF Using
  <2>4. Apart(call[c].lb)' => Apart(lb)'
    BY <1>4 DEF Apart
  <2>5. SUFFICES ASSUME NEW d \in Callers, Apart(call[d].lb)'
                 PROVE  /\ Using(d)' => call'[d].block = map'[call'[d].lb]
                        /\ InCopy(d)' => /\ call'[d].new = map'[call'[d].lb]
                                        /\ call'[d].block # call'[d].new
    BY DEF LookedUp
  <2>6. CASE d = c
    BY <1>4, <1>5, <2>1, <2>3, <2>4, <2>5, <2>6
  <2>7. CASE d # c
    <3>1. ASSUME call'[d] # None
          PROVE  /\ call'[d] = call[d] /\ map'[call[d].lb] = map[call[d].lb] /\ Apart(call[d].lb)
      BY <1>12, <2>5, <2>7, <3>1
    <3>2. LookedUp
      BY DEF IInv
    <3>3. Using(d)' => call'[d].block = map'[call'[d].lb]
      <4> SUFFICES ASSUME Using(d)' PROVE call'[d].block = map'[call'[d].lb]
        OBVIOUS
      <4>1. Using(d) /\ call'[d] = call[d] /\ map'[call[d].lb] = map[call[d].lb]
            /\ Apart(call[d].lb)
        BY <2>2, <2>5, <2>7, <3>1 DEF Using, InCopy
      <4> QED  BY <3>2, <4>1 DEF LookedUp
    <3>4. InCopy(d)' => call'[d].new = map'[call'[d].lb] /\ call'[d].block # call'[d].new
      <4> SUFFICES ASSUME InCopy(d)'
                   PROVE  call'[d].new = map'[call'[d].lb] /\ call'[d].block # call'[d].new
        OBVIOUS
      <4>1. InCopy(d) /\ call'[d] = call[d] /\ map'[call[d].lb] = map[call[d].lb]
            /\ Apart(call[d].lb)
        BY <2>2, <2>5, <2>7, <3>1 DEF Using, InCopy
      <4> QED  BY <3>2, <4>1 DEF LookedUp
    <3> QED  BY <3>3, <3>4
  <2> QED  BY <2>6, <2>7
<1>14. Kept'
  <2> SUFFICES ASSUME NEW l \in Logical, Apart(l)'
               PROVE  \/ \A p \in Pages : want[l][p] \in {Lost, cells[map'[l]][p]}
                      \/ \E d \in Callers : InCopy(d)' /\ call'[d].lb = l
    BY <1>1 DEF Kept
  <2>1. CASE l = lb
    BY <1>4, <1>7, <2>1
  <2>2. CASE l # lb
    BY <1>3, <1>5, <1>7, <1>8, <2>2 DEF IInv, Kept
  <2> QED  BY <2>1, <2>2
<1>15. Moved'
  <2> SUFFICES ASSUME NEW d \in Callers, InCopy(d)', Apart(call[d].lb)', NEW p \in Pages
               PROVE  want'[call'[d].lb][p] \in {Lost, Copied(d, p)'}
    BY <1>3, <1>4 DEF Moved
  <2>1. CASE d = c
    <3>0. Apart(lb)'
      BY <1>4, <2>1 DEF Apart
    <3>1. Apart(lb) /\ call[c].block = map[lb]
      <4>1. Apart(lb)
        BY <1>1, <1>4, <3>0 DEF Apart
      <4> QED  BY <1>7, <4>1 DEF IInv, LookedUp
    <3>2. \A e \in Callers : InCopy(e) => call[e].lb # lb
      BY <1>1, <1>7, <3>1 DEF IInv, Alone, Apart, InCopy
    <3>3. want[lb][p] \in {Lost, cells[call[c].block][p]}
      BY <1>2, <3>1, <3>2 DEF IInv, Kept
    <3> QED  BY <1>1, <1>4, <2>1, <3>3 DEF Copied
  <2>2. CASE d # c
    <3>1. call'[d] = call[d] /\ InCopy(d) /\ Apart(call[d].lb)
      BY <1>3, <1>7, <1>8, <2>2
    <3> QED  BY <1>1, <3>1 DEF IInv, Moved, Copied
  <2> QED  BY <2>1, <2>2
<1>16. Writable'
  BY <1>1, <1>3, <1>4, <1>12 DEF IInv, Writable
<1>17. Read'
  <2>1. \A d \in Callers : d # c /\ call'[d] # None => call'[d] = call[d]
    BY <1>3
  <2> QED  BY <1>1, <1>4, <1>8, <1>12, <2>1 DEF IInv, Read
<1>18. Attempts'
  BY <1>1, <1>2, <1>3, <1>4 DEF IInv, Attempts, Copying
<1>19. Spared'
  BY <1>1, <1>3, <1>4 DEF IInv, Spared, Copying
<1> QED  BY <1>6, <1>9, <1>11, <1>13, <1>14, <1>15, <1>16, <1>17, <1>18, <1>19 DEF IInv

\* The steps of a copy: the call goes on with the copy or leaves it, and is otherwise the same.
Goes(c) ==
    /\ call' \in [Callers -> Call \cup {None}] /\ call'[c] # None
    /\ \A d \in Callers : d # c => call'[d] = call[d]
    /\ call'[c].kind = call[c].kind /\ call'[c].lb = call[c].lb /\ call'[c].from = call[c].from
    /\ call'[c].block = call[c].block /\ call'[c].due = call[c].due /\ call'[c].got = call[c].got
    /\ call'[c].used = call[c].used /\ call'[c].again = call[c].again /\ call'[c].err = call[c].err
Stays(c) ==
    /\ call'[c].pc \in {"cp_read", "cp_write"} /\ call'[c].page < call[c].len
    /\ call'[c].new = call[c].new /\ call'[c].len = call[c].len /\ call'[c].retry = call[c].retry
Left(c) == call'[c].pc = Remapped(c) /\ call'[c].retry = Tried(c)

\* Leaving a copy.
LEMMA LeaveCall ==
    ASSUME TypeOK, NEW c \in Callers, call[c] # None, Leave(c)
    PROVE  Goes(c) /\ Left(c)
<1> DEFINE ch == [pc |-> Remapped(c), retry |-> Tried(c), new |-> 0, page |-> 0, len |-> 0]
<1>1. /\ call[c].retry \in Nat /\ call[c].again \in BOOLEAN /\ NumPages \in Nat \ {0}
      /\ 0 \in Blocks /\ 0 \in Pages
  <2>1. call[c].lb \in Logical
    BY CallFacts
  <2> QED  BY <2>1, CallFacts, SizeAssumption DEF Blocks, Logical, Pages
<1>2. Remapped(c) \in Labels /\ Tried(c) \in Nat
  BY <1>1 DEF Remapped, Tried, Labels
<1>3. ChangeOK(ch)
  BY <1>1, <1>2 DEF ChangeOK, Variable
<1>4. /\ call' \in [Callers -> Call \cup {None}] /\ call'[c] # None
      /\ \A d \in Callers : d # c => call'[d] = call[d]
      /\ Becomes(call'[c], call[c], ch)
  BY <1>3, SetCall DEF Leave
<1> QED  BY <1>4 DEF Becomes, Goes, Left

\* Going on to page p, or leaving behind the last one.
LEMMA GoToCall ==
    ASSUME TypeOK, NEW c \in Callers, call[c] # None, NEW p \in Nat, GoTo(c, p)
    PROVE  /\ Goes(c)
           /\ p < call[c].len => Stays(c) /\ call'[c].pc = "cp_read" /\ call'[c].page = p
           /\ ~(p < call[c].len) => Left(c)
<1>1. CASE p < call[c].len
  <2> DEFINE ch == [pc |-> "cp_read", page |-> p]
  <2>1. ChangeOK(ch)
    BY <1>1, CallFacts DEF ChangeOK, Variable, Labels, Pages
  <2>2. /\ call' \in [Callers -> Call \cup {None}] /\ call'[c] # None
        /\ \A d \in Callers : d # c => call'[d] = call[d]
        /\ Becomes(call'[c], call[c], ch)
    BY <1>1, <2>1, SetCall DEF GoTo
  <2> QED  BY <1>1, <2>2 DEF Becomes, Goes, Stays
<1>2. CASE ~(p < call[c].len)
  BY <1>2, LeaveCall DEF GoTo
<1> QED  BY <1>1, <1>2

\* What a step of a copy does to the chip and to what is expected of it.
Copies(c) ==
    /\ InCopy(c) /\ Goes(c) /\ (Stays(c) \/ Left(c))
    /\ UNCHANGED <<map, free>> /\ upset \subseteq upset'
    /\ \A x \in Blocks : x # call[c].new => cells'[x] = cells[x]
    /\ \A lb \in Logical : lb # call[c].lb => want'[lb] = want[lb]
    /\ \A p \in Pages : want'[call[c].lb][p] \in {Lost, want[call[c].lb][p]}
    /\ None \notin upset' /\ (data_buf' # data_buf \/ call'[c].pc = "cp_write") =>
          \A d \in Callers : d # c => ~At(d, "cp_write")

\* The data of another logical block, and of another caller, is not touched by it; what becomes of
\* the caller's own is for each step to show.
LEMMA CopierStep ==
    ASSUME IInv, TypeOK', NEW c \in Callers, Copies(c),
           Apart(call[c].lb)' /\ Stays(c) => \A p \in Pages :
              /\ want'[call[c].lb][p] \in {Lost, Copied(c, p)'}
              /\ p >= call'[c].page => cells'[call[c].new][p] = Erased,
           Apart(call[c].lb)' /\ Left(c) => \A p \in Pages :
              /\ want'[call[c].lb][p] \in {Lost, cells'[call[c].new][p]}
              /\ call[c].kind = "write" /\ p >= call[c].from => cells'[call[c].new][p] = Erased
    PROVE  IInv'
<1> DEFINE lb == call[c].lb
<1>1. /\ TypeOK /\ call[c] # None /\ call[c].pc \in Copying /\ InCopy(c)
      /\ call[c] \in Call /\ lb \in Logical /\ call[c].new \in Blocks /\ map[lb] \in Blocks
      /\ call[c].retry \in Nat /\ call[c].used \in Nat /\ MaxRetry \in Nat
      /\ call[c].again \in BOOLEAN
  BY CallFacts DEF IInv, Copies, InCopy
<1>2. /\ UNCHANGED <<map, free>> /\ upset \subseteq upset' /\ (Stays(c) \/ Left(c))
      /\ \A x \in Blocks : x # call[c].new => cells'[x] = cells[x]
      /\ \A l \in Logical : l # lb => want'[l] = want[l]
      /\ \A p \in Pages : want'[lb][p] \in {Lost, want[lb][p]}
      /\ None \notin upset' /\ (data_buf' # data_buf \/ call'[c].pc = "cp_write") =>
            \A d \in Callers : d # c => ~At(d, "cp_write")
  BY DEF Copies
<1>3. /\ call'[c] # None /\ \A d \in Callers : d # c => call'[d] = call[d]
      /\ call'[c].kind = call[c].kind /\ call'[c].lb = lb /\ call'[c].from = call[c].from
      /\ call'[c].block = call[c].block /\ call'[c].due = call[c].due /\ call'[c].got = call[c].got
      /\ call'[c].used = call[c].used /\ call'[c].again = call[c].again
      /\ call'[c].err = call[c].err
  BY DEF Copies, Goes
<1>4. Stays(c) => /\ InCopy(c)' /\ call'[c].new = call[c].new /\ call'[c].len = call[c].len
                  /\ call'[c].pc \in {"cp_read", "cp_write"} /\ call'[c].page < call[c].len
                  /\ call'[c].retry = call[c].retry
  BY <1>3 DEF Stays, InCopy, Copying
<1>5. Left(c) => /\ ~InCopy(c)' /\ call'[c].pc \in {"look", "mark", "done"}
                 /\ call'[c].pc = Remapped(c) /\ call'[c].retry = Tried(c)
  BY DEF Left, InCopy, Copying, Remapped
<1>6. \A d \in Callers : /\ InCopy(d)' => InCopy(d)
                         /\ Using(d)' => Using(d) /\ d # c
                         /\ d # c => (InCopy(d)' <=> InCopy(d))
  BY <1>1, <1>2, <1>3, <1>4, <1>5 DEF InCopy, Using, Copying
<1>7. \A d \in Callers : call'[d] # None => call[d] # None /\ call'[d].lb = call[d].lb
                                            /\ call'[d].kind = call[d].kind
  BY <1>1, <1>3
<1>8. \A d \in Callers, b \in Blocks : Holds(d, b)' => Holds(d, b)
  BY <1>2, <1>3, <1>4, <1>5, <1>6 DEF Holds
<1>9. \A d \in Callers : d # c /\ call[d] # None /\ call[d].lb = lb =>
         /\ lb \in upset /\ call[d].kind \in {"read", "isbad"}
  BY <1>1 DEF IInv, Alone
<1>10. \A l \in Logical : upset' \cap {l, None} = {} => Apart(l) /\ upset \cap {l, None} = {}
  BY <1>2 DEF Apart
<1>11. Holds(c, call[c].new)
  BY <1>1 DEF Holds
<1>12. \A l \in Logical : l # lb /\ upset' \cap {l, None} = {} =>
          /\ cells'[map[l]] = cells[map[l]]
          /\ \A d \in Callers : InCopy(d) /\ call[d].lb = l =>
                /\ cells'[call[d].block] = cells[call[d].block]
                /\ cells'[call[d].new] = cells[call[d].new]
  BY <1>1, <1>2, <1>10, <1>11, OthersStay
<1>13. Alone'
  <2> SUFFICES ASSUME NEW d \in Callers, NEW e \in Callers, d # e,
                      call'[d] # None, call'[e] # None, call'[d].lb = call'[e].lb
               PROVE  /\ {call'[d].kind, call'[e].kind} \subseteq {"read", "isbad"}
                      /\ InCopy(d)' => call'[d].lb \in upset'
    BY DEF Alone
  <2> QED  BY <1>2, <1>6, <1>7 DEF IInv, Alone
<1>14. Owned'
  <2> SUFFICES ASSUME None \notin upset'
               PROVE  /\ \A l1, l2 \in Logical : map'[l1] = map'[l2] => l1 = l2
                      /\ \A l \in Logical : map'[l] \notin free'
                      /\ \A d \in Callers, b \in Blocks : Holds(d, b)' =>
                            b \notin free' /\ \A l \in Logical : map'[l] = b => l = call'[d].lb
                      /\ \A d, e \in Callers, b \in Blocks :
                            Holds(d, b)' /\ Holds(e, b)' => call'[d].lb = call'[e].lb
                      /\ \A d, e \in Callers : At(d, "cp_write")' /\ At(e, "cp_write")' => d = e
    BY DEF Owned
  <2>1. /\ \A l \in Logical : map[l] \notin free
        /\ \A d \in Callers, b \in Blocks : Holds(d, b) =>
              b \notin free /\ \A l \in Logical : map[l] = b => l = call[d].lb
        /\ \A d, e \in Callers, b \in Blocks : Holds(d, b) /\ Holds(e, b) => call[d].lb = call[e].lb
        /\ \A l1, l2 \in Logical : map[l1] = map[l2] => l1 = l2
        /\ \A d, e \in Callers : At(d, "cp_write") /\ At(e, "cp_write") => d = e
    BY <1>2 DEF IInv, Owned
  <2>2. \A d \in Callers, b \in Blocks : Holds(d, b)' => call'[d].lb = call[d].lb
    BY <1>7 DEF Holds, Using, InCopy
  <2>3. \A d, e \in Callers : At(d, "cp_write")' /\ At(e, "cp_write")' => d = e
    BY <1>2, <1>3, <2>1 DEF At
  <2> QED  BY <1>2, <1>8, <2>1, <2>2, <2>3
<1>15. LookedUp'
  <2> SUFFICES ASSUME NEW d \in Callers, upset' \cap {call'[d].lb, None} = {}
               PROVE  /\ Using(d)' => call'[d].block = map'[call'[d].lb]
                      /\ InCopy(d)' => /\ call'[d].new = map'[call'[d].lb]
                                       /\ call'[d].block # call'[d].new
    BY DEF LookedUp, Apart
  <2>1. LookedUp
    BY DEF IInv
  <2>2. ASSUME call'[d] # None PROVE Apart(call[d].lb)
    BY <1>2, <1>7, <2>2 DEF Apart
  <2>3. Using(d)' => call'[d].block = map'[call'[d].lb]
    BY <1>2, <1>3, <1>6, <2>1, <2>2 DEF LookedUp, Using
  <2>4. CASE d = c
    BY <1>2, <1>3, <1>4, <1>5, <1>6, <2>1, <2>2, <2>3, <2>4 DEF LookedUp, InCopy
  <2>5. CASE d # c
    BY <1>2, <1>3, <1>6, <2>1, <2>2, <2>3, <2>5 DEF LookedUp, InCopy
  <2> QED  BY <2>4, <2>5
<1>16. Kept'
  <2> SUFFICES ASSUME NEW l \in Logical, upset' \cap {l, None} = {},
                      ~ \E d \in Callers : InCopy(d)' /\ call'[d].lb = l, NEW p \in Pages
               PROVE  want'[l][p] \in {Lost, cells'[map'[l]][p]}
    BY DEF Kept, Apart
  <2>1. CASE l = lb
    <3>1. Left(c) /\ call[c].new = map[lb]
      BY <1>1, <1>2, <1>3, <1>4, <1>10, <2>1 DEF IInv, LookedUp
    <3> QED  BY <1>2, <1>3, <2>1, <3>1 DEF Apart
  <2>2. CASE l # lb
    <3>1. ~ \E d \in Callers : InCopy(d) /\ call[d].lb = l
      BY <1>3, <1>6, <2>2
    <3>2. want[l][p] \in {Lost, cells[map[l]][p]}
      BY <1>10, <3>1 DEF IInv, Kept
    <3> QED  BY <1>2, <1>12, <2>2, <3>2
  <2> QED  BY <2>1, <2>2
<1>17. \A d \in Callers : d # c /\ call'[d] # None /\ upset' \cap {call'[d].lb, None} = {} =>
          /\ call'[d] = call[d] /\ call[d] # None /\ call[d].lb \in Logical /\ call[d].lb # lb
          /\ Apart(call[d].lb) /\ want'[call[d].lb] = want[call[d].lb]
          /\ cells'[map[call[d].lb]] = cells[map[call[d].lb]]
          /\ InCopy(d) => /\ cells'[call[d].block] = cells[call[d].block]
                          /\ cells'[call[d].new] = cells[call[d].new]
                          /\ call[d].pc = "cp_write" => data_buf' = data_buf
  <2> SUFFICES ASSUME NEW d \in Callers, d # c, call'[d] # None,
                      upset' \cap {call'[d].lb, None} = {}
               PROVE  /\ call'[d] = call[d] /\ call[d] # None /\ call[d].lb \in Logical
                      /\ call[d].lb # lb
                      /\ Apart(call[d].lb) /\ want'[call[d].lb] = want[call[d].lb]
                      /\ cells'[map[call[d].lb]] = cells[map[call[d].lb]]
                      /\ InCopy(d) => /\ cells'[call[d].block] = cells[call[d].block]
                                      /\ cells'[call[d].new] = cells[call[d].new]
                                      /\ call[d].pc = "cp_write" => data_buf' = data_buf
    OBVIOUS
  <2>1. call'[d] = call[d] /\ call[d] # None /\ call[d].lb \in Logical
    BY <1>1, <1>3, CallFacts
  <2>2. call[d].lb # lb
    BY <1>2, <1>9, <2>1
  <2>3. call[d].pc = "cp_write" => data_buf' = data_buf
    BY <1>2, <2>1 DEF At
  <2> QED  BY <1>2, <1>10, <1>12, <2>1, <2>2, <2>3
<1>18. Moved'
  <2> SUFFICES ASSUME NEW d \in Callers, InCopy(d)', upset' \cap {call'[d].lb, None} = {},
                      NEW p \in Pages
               PROVE  want'[call'[d].lb][p] \in {Lost, Copied(d, p)'}
    BY DEF Moved, Apart
  <2>1. CASE d = c
    BY <1>2, <1>3, <1>5, <2>1 DEF Apart
  <2>2. CASE d # c
    <3>1. InCopy(d) /\ call'[d] # None
      BY <1>6 DEF InCopy
    <3>2. Copied(d, p)' = Copied(d, p)
      BY <1>17, <2>2, <3>1 DEF Copied
    <3> QED  BY <1>17, <2>2, <3>1, <3>2 DEF IInv, Moved
  <2> QED  BY <2>1, <2>2
<1>19. Writable'
  <2> SUFFICES ASSUME NEW d \in Callers, call'[d] # None, upset' \cap {call'[d].lb, None} = {},
                      NEW p \in Pages
               PROVE  /\ call'[d].kind = "write" /\ call'[d].pc \in {"look", "raw"}
                         /\ p >= call'[d].from => cells'[map'[call'[d].lb]][p] = Erased
                      /\ call'[d].pc \in {"cp_read", "cp_write"} /\ p >= call'[d].page =>
                            cells'[call'[d].new][p] = Erased
    BY DEF Writable, Apart
  <2>1. CASE d = c
    <3>1. call[c].new = map[lb]
      BY <1>1, <1>3, <1>10, <2>1 DEF IInv, LookedUp
    <3>2. CASE Stays(c)
      BY <1>3, <1>4, <2>1, <3>2 DEF Apart
    <3>3. CASE Left(c)
      BY <1>2, <1>3, <1>5, <2>1, <3>1, <3>3 DEF Apart
    <3> QED  BY <1>2, <3>2, <3>3
  <2>2. CASE d # c
    <3>1. call[d].pc \in {"cp_read", "cp_write"} /\ call[d] # None => InCopy(d)
      BY DEF InCopy, Copying
    <3> QED  BY <1>2, <1>17, <2>2, <3>1 DEF IInv, Writable
  <2> QED  BY <2>1, <2>2
<1>20. Read'
  <2> SUFFICES ASSUME NEW d \in Callers, call'[d] # None, call'[d].kind = "read", ~call'[d].err
               PROVE  /\ ~call'[d].again
                      /\ upset' \cap {call'[d].lb, None} = {} => \A p \in Pages :
                            IF call'[d].pc \in {"look", "raw"}
                            THEN \/ call'[d].due[p] \in {Lost, cells'[map'[call'[d].lb]][p]}
                                 \/ cells'[map'[call'[d].lb]][p] = Unreadable
                            ELSE call'[d].due[p] \in {Lost, call'[d].got[p]}
    BY DEF Read, Apart
  <2>1. CASE d = c
    <3>1. ~call[c].again /\ call[c].pc \notin {"look", "raw"}
      BY <1>1, <1>3, <2>1 DEF IInv, Read, Copying
    <3>2. call'[c].pc \notin {"look", "raw"}
      BY <1>2, <1>4, <1>5, <3>1 DEF Remapped, GoesOn
    <3>3. upset' \cap {lb, None} = {} => \A p \in Pages : call[c].due[p] \in {Lost, call[c].got[p]}
      BY <1>1, <1>3, <1>10, <2>1, <3>1 DEF IInv, Read
    <3> QED  BY <1>3, <2>1, <3>1, <3>2, <3>3
  <2>2. CASE d # c
    <3>1. call'[d] = call[d] /\ ~call[d].again
      BY <1>3, <2>2 DEF IInv, Read
    <3> QED  BY <1>2, <1>17, <2>2, <3>1 DEF IInv, Read
  <2> QED  BY <2>1, <2>2
<1>21. Attempts'
  <2>1. CASE Stays(c)
    BY <1>1, <1>3, <1>4, <2>1 DEF IInv, Attempts, Copying
  <2>2. CASE Left(c)
    <3>1. /\ call[c].used <= call[c].retry + 1 /\ call[c].retry <= MaxRetry
          /\ call[c].used <= MaxRetry + 1
      BY <1>1 DEF IInv, Attempts
    <3>2. /\ call'[c].pc = "look" => call[c].used <= call'[c].retry /\ call'[c].retry <= MaxRetry
          /\ call'[c].retry <= MaxRetry + 1
      BY <1>1, <1>5, <2>2, <3>1 DEF Remapped, Tried, GoesOn
    <3> QED  BY <1>3, <1>5, <2>2, <3>1, <3>2 DEF IInv, Attempts, Copying
  <2> QED  BY <1>2, <2>1, <2>2
<1>22. Spared'
  <2> SUFFICES ASSUME NEW d \in Callers, call'[d] # None
               PROVE  /\ call'[d].from > 0 => call'[d].kind = "write"
                      /\ call'[d].pc \in {"pick", "take"} \cup Copying =>
                            call'[d].len = CopyLen(call'[d].kind, call'[d].from)
                      /\ call'[d].pc \in {"cp_read", "cp_write"} => call'[d].page < call'[d].len
                      /\ call'[d].kind \in {"write", "erase"} /\ call'[d].pc # "done" =>
                            \A p \in Pages : p >= call'[d].from => want'[call'[d].lb][p] = Lost
    BY DEF Spared, CopyLen
  <2>1. \A l \in Logical, p \in Pages : want[l][p] = Lost => want'[l][p] = Lost
    BY <1>2
  <2>2. CASE d = c
    <3>1. /\ call[c].from > 0 => call[c].kind = "write"
          /\ call[c].len = CopyLen(call[c].kind, call[c].from)
          /\ call[c].kind \in {"write", "erase"} =>
                            \A p \in Pages : p >= call[c].from => want[lb][p] = Lost
      BY <1>1 DEF IInv, Spared, Copying
    <3>2. CASE Stays(c)
      BY <1>1, <1>3, <1>4, <2>1, <2>2, <3>1, <3>2
    <3>3. CASE Left(c)
      BY <1>1, <1>3, <1>5, <2>1, <2>2, <3>1, <3>3 DEF Copying
    <3> QED  BY <1>2, <3>2, <3>3
  <2>3. CASE d # c
    <3>1. call'[d] = call[d] /\ call[d] # None /\ call[d].lb \in Logical
      BY <1>1, <1>3, <2>3, CallFacts
    <3> QED  BY <2>1, <3>1 DEF IInv, Spared
  <2> QED  BY <2>2, <2>3
<1> QED  BY <1>13, <1>14, <1>15, <1>16, <1>18, <1>19, <1>20, <1>21, <1>22 DEF IInv

\* What Lose takes away, and what it leaves.
LEMMA LoseFacts ==
    ASSUME TypeOK, NEW lb \in Logical, NEW p \in Pages, NEW w, w = Lose(want, lb, p)
    PROVE  /\ w \in [Logical -> [Pages -> Logical \cup {Erased, Lost}]]
           /\ \A l \in Logical, q \in Pages : w[l][q] \in {l, Erased, Lost}
           /\ \A l \in Logical : l # lb => w[l] = want[l]
           /\ \A q \in Pages : w[lb][q] = IF q >= p THEN Lost ELSE want[lb][q]
<1>1. /\ want \in [Logical -> [Pages -> Logical \cup {Erased, Lost}]]
      /\ \A l \in Logical, q \in Pages : want[l][q] \in {l, Erased, Lost}
  BY DEF TypeOK
<1>2. w = [l \in Logical |->
               IF l = lb THEN [q \in Pages |-> IF q >= p THEN Lost ELSE want[lb][q]] ELSE want[l]]
  BY <1>1 DEF Lose
<1> QED  BY <1>1, <1>2

\* The block that was taken is erased: an erase that fails is counted among what upsets it.
LEMMA EraseNewStep == ASSUME IInv, NEW c \in Callers, EraseNew(c) PROVE IInv'
<1> DEFINE lb  == call[c].lb
           new == call[c].new
<1>1. /\ TypeOK /\ call[c] # None /\ call[c].pc = "rm_erase" /\ InCopy(c)
      /\ GoTo(c, 0) /\ UNCHANGED <<marked, map, free, data_buf, want, ops>>
  BY DEF IInv, EraseNew, At, InCopy, Copying
<1>2. /\ call[c] \in Call /\ lb \in Logical /\ new \in Blocks /\ call[c].block \in Blocks
      /\ call[c].from \in Pages /\ call[c].len \in 0..NumPages /\ call[c].kind \in Kinds
      /\ NumPages \in Nat \ {0} /\ 0 \in Nat
  BY <1>1, CallFacts
<1>3. /\ Goes(c)
      /\ 0 < call[c].len => Stays(c) /\ call'[c].pc = "cp_read" /\ call'[c].page = 0
      /\ ~(0 < call[c].len) => Left(c)
  BY <1>1, <1>2, GoToCall
<1>4. /\ (Stays(c) \/ Left(c)) /\ call'[c].pc # "cp_write"
      /\ Stays(c) => call'[c].pc = "cp_read" /\ call'[c].page = 0 /\ call'[c].new = new
      /\ Left(c) => call[c].len = 0
  BY <1>2, <1>3 DEF Stays, Left, Remapped
<1>5. /\ call'[c].lb = lb /\ call'[c].block = call[c].block
      /\ call' \in [Callers -> Call \cup {None}]
  BY <1>3 DEF Goes
<1>6. CASE cells' = [cells EXCEPT ![new] = [p \in Pages |-> Erased]] /\ UNCHANGED <<upset, faults>>
  <2>1. /\ cells' \in [Blocks -> [Pages -> Contents]]
        /\ \A p \in Pages : cells'[new][p] = Erased
        /\ \A x \in Blocks : x # new => cells'[x] = cells[x]
    BY <1>1, <1>2, <1>6 DEF TypeOK, Contents
  <2>2. TypeOK'
    BY <1>1, <1>5, <1>6, <2>1 DEF TypeOK
  <2>3. \A p \in Pages : want'[lb][p] \in {Lost, want[lb][p]}
    BY <1>1
  <2>4. Copies(c)
    BY <1>1, <1>3, <1>4, <1>6, <2>1, <2>3 DEF Copies
  <2>5. ASSUME upset \cap {lb, None} = {}, Stays(c), NEW p \in Pages
        PROVE  /\ want'[lb][p] \in {Lost, Copied(c, p)'}
               /\ p >= call'[c].page => cells'[new][p] = Erased
    <3>1. want[lb][p] \in {Lost, cells[call[c].block][p]} /\ call[c].block # new
      BY <1>1, <2>5 DEF IInv, Moved, LookedUp, Copied, Apart
    <3>2. Copied(c, p)' = cells[call[c].block][p]
      BY <1>2, <1>4, <1>5, <2>1, <2>5, <3>1 DEF Copied, Pages
    <3> QED  BY <1>1, <2>1, <3>1, <3>2
  <2>6. ASSUME upset \cap {lb, None} = {}, Left(c), NEW p \in Pages
        PROVE  want'[lb][p] = Lost
    <3>1. /\ call[c].len = CopyLen(call[c].kind, call[c].from)
          /\ call[c].from > 0 => call[c].kind = "write"
          /\ call[c].kind \in {"write", "erase"} =>
                \A q \in Pages : q >= call[c].from => want[lb][q] = Lost
      BY <1>1 DEF IInv, Spared, Copying
    <3>2. call[c].kind \in {"write", "erase"} /\ call[c].from = 0
      BY <1>2, <1>4, <2>6, <3>1 DEF CopyLen, Kinds, Pages
    <3> QED  BY <1>1, <3>1, <3>2 DEF Pages
  <2>7. Apart(call[c].lb)' => upset \cap {lb, None} = {}
    BY <1>5, <1>6 DEF Apart
  <2>8. Apart(call[c].lb)' /\ Stays(c) => \A p \in Pages :
              /\ want'[call[c].lb][p] \in {Lost, Copied(c, p)'}
              /\ p >= call'[c].page => cells'[call[c].new][p] = Erased
    BY <2>5, <2>7
  <2>9. Apart(call[c].lb)' /\ Left(c) => \A p \in Pages :
              /\ want'[call[c].lb][p] \in {Lost, cells'[call[c].new][p]}
              /\ call[c].kind = "write" /\ p >= call[c].from => cells'[call[c].new][p] = Erased
    BY <2>1, <2>6, <2>7
  <2> QED  BY <2>2, <2>4, <2>8, <2>9, CopierStep
<1>7. CASE Fault /\ upset' = upset \cup {lb} /\ UNCHANGED cells
  <2>1. TypeOK'
    BY <1>1, <1>2, <1>5, <1>7, FaultTypes DEF TypeOK
  <2>2. \A p \in Pages : want'[lb][p] \in {Lost, want[lb][p]}
    BY <1>1
  <2>3. Copies(c)
    BY <1>1, <1>3, <1>4, <1>7, <2>2 DEF Copies
  <2>4. ~Apart(call[c].lb)'
    BY <1>5, <1>7 DEF Apart
  <2> QED  BY <2>1, <2>3, <2>4, CopierStep
<1> QED  BY <1>6, <1>7 DEF EraseNew

\* The pages that a copy leaves out are not expected, and a write has them all.
LEMMA Behind ==
    ASSUME IInv, NEW c \in Callers, InCopy(c), NEW q \in Pages
    PROVE  /\ q >= call[c].len => want[call[c].lb][q] = Lost
           /\ call[c].kind = "write" => call[c].from = call[c].len
<1>1. /\ call[c] # None /\ call[c].pc \in Copying /\ call[c].kind \in Kinds
      /\ call[c].from \in Pages /\ NumPages \in Nat
  BY CallFacts DEF IInv, InCopy
<1>2. /\ call[c].len = CopyLen(call[c].kind, call[c].from)
      /\ call[c].from > 0 => call[c].kind = "write"
      /\ call[c].kind \in {"write", "erase"} =>
            \A p \in Pages : p >= call[c].from => want[call[c].lb][p] = Lost
  BY <1>1 DEF IInv, Spared, Copying
<1> QED  BY <1>1, <1>2 DEF CopyLen, Kinds, Pages

\* The page is read into the buffer, or it cannot be, and what the copy has not reached is lost.
LEMMA CopyReadStep == ASSUME IInv, NEW c \in Callers, CopyRead(c) PROVE IInv'
<1> DEFINE lb  == call[c].lb
           new == call[c].new
           v   == cells[call[c].block][call[c].page]
<1>1. /\ TypeOK /\ call[c] # None /\ call[c].pc = "cp_read" /\ InCopy(c)
      /\ upset' = IF \E d \in Callers \ {c} : At(d, "cp_write") THEN upset \cup {None} ELSE upset
      /\ UNCHANGED <<cells, marked, map, free, ops, faults>>
  BY DEF IInv, CopyRead, At, InCopy, Copying
<1>2. /\ call[c] \in Call /\ lb \in Logical /\ new \in Blocks /\ call[c].block \in Blocks
      /\ call[c].page \in Pages /\ call[c].len \in 0..NumPages
      /\ NumPages \in Nat \ {0} /\ Pages \subseteq 0..NumPages
  BY <1>1, CallFacts
<1>3. /\ upset \subseteq upset' /\ upset' \subseteq Logical \cup {None}
      /\ None \notin upset' => \A d \in Callers : d # c => ~At(d, "cp_write")
  BY <1>1 DEF TypeOK
<1>4. call[c].page < call[c].len
  BY <1>1 DEF IInv, Spared
<1>5. ASSUME upset' \cap {lb, None} = {}
      PROVE  /\ call[c].block # new
             /\ \A p \in Pages : /\ want[lb][p] \in {Lost, Copied(c, p)}
                                 /\ p >= call[c].page => cells[new][p] = Erased
  <2>1. Apart(lb)
    BY <1>3, <1>5 DEF Apart
  <2> QED  BY <1>1, <2>1 DEF IInv, LookedUp, Moved, Writable
<1>6. CASE v = Unreadable
  <2>1. Leave(c) /\ want' = Lose(want, lb, call[c].page) /\ data_buf' = data_buf
    BY <1>6 DEF CopyRead
  <2>2. Goes(c) /\ Left(c)
    BY <1>1, <2>1, LeaveCall
  <2>3. /\ want' \in [Logical -> [Pages -> Logical \cup {Erased, Lost}]]
        /\ \A l \in Logical, q \in Pages : want'[l][q] \in {l, Erased, Lost}
        /\ \A l \in Logical : l # lb => want'[l] = want[l]
        /\ \A q \in Pages : want'[lb][q] = IF q >= call[c].page THEN Lost ELSE want[lb][q]
    BY <1>1, <1>2, <2>1, LoseFacts
  <2>4. call'[c].lb = lb /\ call' \in [Callers -> Call \cup {None}]
    BY <2>2 DEF Goes
  <2>5. TypeOK'
    BY <1>1, <1>3, <2>1, <2>3, <2>4 DEF TypeOK
  <2>6. \A p \in Pages : want'[lb][p] \in {Lost, want[lb][p]}
    BY <2>3
  <2>7. Copies(c)
    BY <1>1, <1>3, <2>1, <2>2, <2>3, <2>6 DEF Copies
  <2>8. ~Stays(c)
    BY <2>2 DEF Left, Stays, Remapped
  <2>9. Apart(call[c].lb)' /\ Left(c) => \A p \in Pages :
              /\ want'[call[c].lb][p] \in {Lost, cells'[call[c].new][p]}
              /\ call[c].kind = "write" /\ p >= call[c].from => cells'[call[c].new][p] = Erased
    <3> SUFFICES ASSUME upset' \cap {lb, None} = {}, NEW p \in Pages
                 PROVE  /\ want'[lb][p] \in {Lost, cells[new][p]}
                        /\ call[c].kind = "write" /\ p >= call[c].from => cells[new][p] = Erased
      BY <1>1, <2>4 DEF Apart
    <3>1. p < call[c].page => want[lb][p] \in {Lost, cells[new][p]}
      BY <1>1, <1>5 DEF Copied
    <3>2. call[c].kind = "write" => call[c].from = call[c].len
      BY <1>1, Behind
    <3>3. CASE p < call[c].page
      BY <1>1, <1>2, <1>4, <2>3, <3>1, <3>2, <3>3 DEF Pages
    <3>4. CASE p >= call[c].page
      BY <1>5, <2>3, <3>4
    <3> QED  BY <1>2, <3>3, <3>4 DEF Pages
  <2> QED  BY <2>5, <2>7, <2>8, <2>9, CopierStep
<1>7. CASE v # Unreadable
  <2> DEFINE ch == [pc |-> "cp_write"]
  <2>1. data_buf' = v /\ Set(c, ch) /\ want' = want
    BY <1>7 DEF CopyRead
  <2>2. ChangeOK(ch)
    BY DEF ChangeOK, Variable, Labels
  <2>3. /\ call' \in [Callers -> Call \cup {None}] /\ call'[c] # None
        /\ \A d \in Callers : d # c => call'[d] = call[d]
        /\ Becomes(call'[c], call[c], ch)
    BY <1>1, <2>1, <2>2, SetCall
  <2>4. Goes(c) /\ Stays(c) /\ call'[c].page = call[c].page /\ call'[c].pc = "cp_write"
    BY <1>4, <2>3 DEF Becomes, Goes, Stays
  <2>5. /\ call'[c].lb = lb /\ call'[c].block = call[c].block /\ call'[c].new = new
    BY <2>3 DEF Becomes
  <2>6. v \in Logical \cup {Erased}
    BY <1>1, <1>2, <1>7 DEF TypeOK, Contents
  <2>7. TypeOK'
    BY <1>1, <1>3, <2>1, <2>3, <2>6 DEF TypeOK
  <2>8. \A p \in Pages : want'[lb][p] \in {Lost, want[lb][p]}
    BY <2>1
  <2>9. Copies(c)
    BY <1>1, <1>3, <2>1, <2>4, <2>8 DEF Copies
  <2>10. ~Left(c)
    BY <2>4 DEF Left, Remapped
  <2>11. Apart(call[c].lb)' /\ Stays(c) => \A p \in Pages :
              /\ want'[call[c].lb][p] \in {Lost, Copied(c, p)'}
              /\ p >= call'[c].page => cells'[call[c].new][p] = Erased
    <3> SUFFICES ASSUME upset' \cap {lb, None} = {}, NEW p \in Pages
                 PROVE  /\ want'[lb][p] \in {Lost, Copied(c, p)'}
                        /\ p >= call'[c].page => cells'[new][p] = Erased
      BY <2>5 DEF Apart
    <3>1. Copied(c, p)' = Copied(c, p)
      BY <1>1, <2>1, <2>4, <2>5 DEF Copied
    <3> QED  BY <1>1, <1>5, <2>1, <2>4, <3>1
  <2> QED  BY <2>7, <2>9, <2>10, <2>11, CopierStep
<1> QED  BY <1>6, <1>7

\* The buffer is written to the new block, or that fails, and the copy ends there.
LEMMA CopyWriteStep == ASSUME IInv, NEW c \in Callers, CopyWrite(c) PROVE IInv'
<1> DEFINE lb  == call[c].lb
           new == call[c].new
           p   == call[c].page
<1>1. /\ TypeOK /\ call[c] # None /\ call[c].pc = "cp_write" /\ InCopy(c)
      /\ UNCHANGED <<marked, map, free, data_buf, upset, ops>>
  BY DEF IInv, CopyWrite, At, InCopy, Copying
<1>2. /\ call[c] \in Call /\ lb \in Logical /\ new \in Blocks /\ call[c].block \in Blocks
      /\ p \in Pages /\ p \in Nat /\ p + 1 \in Nat /\ call[c].len \in 0..NumPages
      /\ NumPages \in Nat \ {0} /\ Pages \subseteq 0..NumPages
  BY <1>1, CallFacts
<1>3. p < call[c].len
  BY <1>1 DEF IInv, Spared
<1>4. ASSUME upset \cap {lb, None} = {}
      PROVE  /\ call[c].block # new
             /\ \A q \in Pages : /\ want[lb][q] \in {Lost, Copied(c, q)}
                                 /\ q >= p => cells[new][q] = Erased
  <2>1. Apart(lb)
    BY <1>4 DEF Apart
  <2> QED  BY <1>1, <2>1 DEF IInv, LookedUp, Moved, Writable
<1>5. /\ \A q \in Pages : q >= call[c].len => want[lb][q] = Lost
      /\ call[c].kind = "write" => call[c].from = call[c].len
  BY <1>1, <1>2, Behind
<1>6. CASE /\ cells' = [cells EXCEPT ![new][p] = Program(new, p, data_buf)]
           /\ GoTo(c, p + 1) /\ UNCHANGED <<want, faults>>
  <2>1. /\ Goes(c)
        /\ p + 1 < call[c].len => Stays(c) /\ call'[c].pc = "cp_read" /\ call'[c].page = p + 1
        /\ ~(p + 1 < call[c].len) => Left(c)
    BY <1>1, <1>2, <1>6, GoToCall
  <2>2. /\ (Stays(c) \/ Left(c)) /\ call'[c].pc # "cp_write"
        /\ Stays(c) => call'[c].pc = "cp_read" /\ call'[c].page = p + 1 /\ call'[c].new = new
        /\ Left(c) => call[c].len = p + 1
    BY <1>2, <1>3, <2>1 DEF Stays, Left, Remapped
  <2>3. /\ call'[c].lb = lb /\ call'[c].block = call[c].block
        /\ call' \in [Callers -> Call \cup {None}]
    BY <2>1 DEF Goes
  <2>4. Program(new, p, data_buf) \in Contents
    BY <1>1 DEF TypeOK, Program, Contents
  <2>5. /\ cells' \in [Blocks -> [Pages -> Contents]]
        /\ cells'[new][p] = Program(new, p, data_buf)
        /\ \A q \in Pages : q # p => cells'[new][q] = cells[new][q]
        /\ \A x \in Blocks : x # new => cells'[x] = cells[x]
    BY <1>1, <1>2, <1>6, <2>4 DEF TypeOK
  <2>6. TypeOK'
    BY <1>1, <1>6, <2>3, <2>5 DEF TypeOK
  <2>7. \A q \in Pages : want'[lb][q] \in {Lost, want[lb][q]}
    BY <1>6
  <2>8. Copies(c)
    BY <1>1, <1>6, <2>1, <2>2, <2>5, <2>7 DEF Copies
  <2>9. ASSUME upset \cap {lb, None} = {}
        PROVE  \A q \in Pages : /\ q <= p => want[lb][q] \in {Lost, cells'[new][q]}
                                /\ q > p => cells'[new][q] = Erased
    <3>1. cells'[new][p] = data_buf
      BY <1>2, <1>4, <2>5, <2>9 DEF Program
    <3>2. SUFFICES ASSUME NEW q \in Pages
                   PROVE  /\ q <= p => want[lb][q] \in {Lost, cells'[new][q]}
                          /\ q > p => cells'[new][q] = Erased
      OBVIOUS
    <3>3. want[lb][q] \in {Lost, Copied(c, q)} /\ (q >= p => cells[new][q] = Erased)
      BY <1>4, <2>9
    <3>4. CASE q < p
      BY <1>1, <1>2, <2>5, <3>3, <3>4 DEF Copied, Pages
    <3>5. CASE q = p
      BY <1>1, <1>2, <3>1, <3>3, <3>5 DEF Copied, Pages
    <3>6. CASE q > p
      BY <1>2, <2>5, <3>3, <3>6 DEF Pages
    <3> QED  BY <1>2, <3>4, <3>5, <3>6 DEF Pages
  <2>10. Apart(call[c].lb)' /\ Stays(c) => \A q \in Pages :
              /\ want'[call[c].lb][q] \in {Lost, Copied(c, q)'}
              /\ q >= call'[c].page => cells'[call[c].new][q] = Erased
    <3> SUFFICES ASSUME upset \cap {lb, None} = {}, Stays(c), NEW q \in Pages
                 PROVE  /\ want[lb][q] \in {Lost, Copied(c, q)'}
                        /\ q >= p + 1 => cells'[new][q] = Erased
      BY <1>1, <1>6, <2>2, <2>3 DEF Apart
    <3>1. q > p => want[lb][q] \in {Lost, cells[call[c].block][q]}
      BY <1>1, <1>2, <1>4 DEF Copied, Pages
    <3>2. Copied(c, q)' = IF q <= p THEN cells'[new][q] ELSE cells[call[c].block][q]
      BY <1>2, <1>4, <2>2, <2>3, <2>5 DEF Copied, Pages
    <3> QED  BY <1>2, <2>9, <3>1, <3>2 DEF Pages
  <2>11. Apart(call[c].lb)' /\ Left(c) => \A q \in Pages :
              /\ want'[call[c].lb][q] \in {Lost, cells'[call[c].new][q]}
              /\ call[c].kind = "write" /\ q >= call[c].from => cells'[call[c].new][q] = Erased
    <3> SUFFICES ASSUME upset \cap {lb, None} = {}, Left(c), NEW q \in Pages
                 PROVE  /\ want[lb][q] \in {Lost, cells'[new][q]}
                        /\ call[c].kind = "write" /\ q >= call[c].from => cells'[new][q] = Erased
      BY <1>1, <1>6, <2>3 DEF Apart
    <3> QED  BY <1>2, <1>5, <2>2, <2>9 DEF Pages
  <2> QED  BY <2>6, <2>8, <2>10, <2>11, CopierStep
<1>7. CASE /\ Fault /\ cells' = [cells EXCEPT ![new][p] = Unreadable]
           /\ Leave(c) /\ want' = Lose(want, lb, p)
  <2>1. Goes(c) /\ Left(c)
    BY <1>1, <1>7, LeaveCall
  <2>2. /\ want' \in [Logical -> [Pages -> Logical \cup {Erased, Lost}]]
        /\ \A l \in Logical, q \in Pages : want'[l][q] \in {l, Erased, Lost}
        /\ \A l \in Logical : l # lb => want'[l] = want[l]
        /\ \A q \in Pages : want'[lb][q] = IF q >= p THEN Lost ELSE want[lb][q]
    BY <1>1, <1>2, <1>7, LoseFacts
  <2>3. /\ cells' \in [Blocks -> [Pages -> Contents]]
        /\ \A q \in Pages : q # p => cells'[new][q] = cells[new][q]
        /\ \A x \in Blocks : x # new => cells'[x] = cells[x]
    BY <1>1, <1>2, <1>7 DEF TypeOK, Contents
  <2>4. call'[c].lb = lb /\ call' \in [Callers -> Call \cup {None}] /\ call'[c].pc # "cp_write"
    BY <2>1 DEF Goes, Left, Remapped
  <2>5. TypeOK'
    BY <1>1, <1>7, <2>2, <2>3, <2>4, FaultTypes DEF TypeOK
  <2>6. \A q \in Pages : want'[lb][q] \in {Lost, want[lb][q]}
    BY <2>2
  <2>7. Copies(c)
    BY <1>1, <2>1, <2>2, <2>3, <2>4, <2>6 DEF Copies
  <2>8. ~Stays(c)
    BY <2>1 DEF Left, Stays, Remapped
  <2>9. Apart(call[c].lb)' /\ Left(c) => \A q \in Pages :
              /\ want'[call[c].lb][q] \in {Lost, cells'[call[c].new][q]}
              /\ call[c].kind = "write" /\ q >= call[c].from => cells'[call[c].new][q] = Erased
    <3> SUFFICES ASSUME upset \cap {lb, None} = {}, NEW q \in Pages
                 PROVE  /\ want'[lb][q] \in {Lost, cells'[new][q]}
                        /\ call[c].kind = "write" /\ q >= call[c].from => cells'[new][q] = Erased
      BY <1>1, <2>4 DEF Apart
    <3>1. q < p => want[lb][q] \in {Lost, cells[new][q]}
      BY <1>1, <1>4 DEF Copied
    <3>2. q \in Int /\ p \in Int /\ call[c].len \in Int
      BY <1>2 DEF Pages
    <3>3. call[c].kind = "write" /\ q >= call[c].from => q > p
      BY <1>3, <1>5, <3>2
    <3>4. q > p => cells'[new][q] = Erased
      BY <1>4, <2>3, <3>2
    <3>5. q < p => want'[lb][q] \in {Lost, cells'[new][q]}
      BY <2>2, <2>3, <3>1, <3>2
    <3>6. q >= p => want'[lb][q] = Lost
      BY <2>2
    <3> QED  BY <3>2, <3>3, <3>4, <3>5, <3>6
  <2> QED  BY <2>5, <2>7, <2>8, <2>9, CopierStep
<1> QED  BY <1>6, <1>7 DEF CopyWrite

\* A page that decays is lost to whoever uses it, and what is erased does not decay.
LEMMA DecayStep == ASSUME IInv, NEW b \in Blocks, NEW p \in Pages, Decay(b, p) PROVE IInv'
<1> DEFINE Hit(lb) == map[lb] = b \/ \E c \in Busy(lb) : call[c].block = b
<1>1. /\ TypeOK /\ Fault /\ cells[b][p] \in Logical /\ p \in Int /\ Pages \subseteq Int
      /\ cells' = [cells EXCEPT ![b][p] = Unreadable]
      /\ want' = [lb \in Logical |-> IF Hit(lb) THEN Lose(want, lb, p)[lb] ELSE want[lb]]
      /\ UNCHANGED <<marked, map, free, data_buf, call, upset, ops>>
  BY DEF IInv, Decay, Pages
<1>2. /\ cells' \in [Blocks -> [Pages -> Contents]]
      /\ \A x \in Blocks, q \in Pages : x # b \/ q # p => cells'[x][q] = cells[x][q]
      /\ cells'[b][p] = Unreadable
  BY <1>1 DEF TypeOK, Contents
<1>3. ASSUME NEW lb \in Logical
      PROVE  /\ want'[lb] \in [Pages -> Logical \cup {Erased, Lost}]
             /\ \A q \in Pages : /\ want'[lb][q] \in {lb, Erased, Lost}
                                 /\ want'[lb][q] \in {Lost, want[lb][q]}
                                 /\ Hit(lb) /\ q >= p => want'[lb][q] = Lost
  <2>1. /\ Lose(want, lb, p)[lb] \in [Pages -> Logical \cup {Erased, Lost}]
        /\ \A q \in Pages : /\ Lose(want, lb, p)[lb][q] \in {lb, Erased, Lost}
                            /\ Lose(want, lb, p)[lb][q] = IF q >= p THEN Lost ELSE want[lb][q]
    BY <1>1, LoseFacts
  <2>2. want'[lb] = IF Hit(lb) THEN Lose(want, lb, p)[lb] ELSE want[lb]
    BY <1>1
  <2>3. /\ want[lb] \in [Pages -> Logical \cup {Erased, Lost}]
        /\ \A q \in Pages : want[lb][q] \in {lb, Erased, Lost}
    BY <1>1 DEF TypeOK
  <2> HIDE DEF Hit
  <2> QED  BY <2>1, <2>2, <2>3
<1>4. TypeOK'
  <2>1. want' \in [Logical -> [Pages -> Logical \cup {Erased, Lost}]]
    <3>1. want' = [lb \in Logical |-> want'[lb]]
      BY <1>1
    <3> QED  BY <1>3, <3>1
  <2> QED  BY <1>1, <1>2, <1>3, <2>1, FaultTypes DEF TypeOK
<1>5. Attempts' /\ Alone' /\ Owned' /\ LookedUp'
  BY <1>1 DEF IInv, Attempts, Alone, Owned, LookedUp, Holds, Using, InCopy, At, Apart
<1>6. \A lb \in Logical, q \in Pages : want[lb][q] = Lost => want'[lb][q] = Lost
  BY <1>3
<1>7. Spared'
  <2>1. \A c \in Callers : call[c] # None => call[c].lb \in Logical
    BY <1>1, CallFacts
  <2> QED  BY <1>1, <1>6, <2>1 DEF IInv, Spared, CopyLen
<1>8. ASSUME NEW lb \in Logical, NEW q \in Pages, NEW x \in Blocks,
             x = b => Hit(lb), want[lb][q] \in {Lost, cells[x][q]}
      PROVE  want'[lb][q] \in {Lost, cells'[x][q]}
  <2>1. CASE x = b /\ q = p
    BY <1>1, <1>3, <1>8, <2>1
  <2>2. CASE x # b \/ q # p
    BY <1>2, <1>3, <1>8, <2>2
  <2> QED  BY <2>1, <2>2
<1>9. Kept'
  <2> SUFFICES ASSUME NEW lb \in Logical, Apart(lb),
                      ~ \E c \in Callers : InCopy(c) /\ call[c].lb = lb,
                      NEW q \in Pages
               PROVE  want'[lb][q] \in {Lost, cells'[map[lb]][q]}
    BY <1>1 DEF Kept, Apart, InCopy
  <2>1. want[lb][q] \in {Lost, cells[map[lb]][q]} /\ map[lb] \in Blocks
    BY <1>1 DEF IInv, Kept, TypeOK
  <2> QED  BY <1>8, <2>1
<1>10. Moved'
  <2> SUFFICES ASSUME NEW c \in Callers, InCopy(c), Apart(call[c].lb), NEW q \in Pages
               PROVE  want'[call[c].lb][q] \in {Lost, Copied(c, q)'}
    BY <1>1 DEF Moved, Apart, InCopy
  <2>1. /\ call[c] # None /\ call[c].lb \in Logical /\ call[c].block \in Blocks
        /\ call[c].new \in Blocks
    BY <1>1, CallFacts DEF InCopy
  <2>2. Hit(call[c].lb) \/ (call[c].block # b /\ call[c].new # b)
    BY <2>1 DEF IInv, LookedUp, Busy
  <2>3. call[c].new = b => Hit(call[c].lb)
    BY DEF IInv, LookedUp
  <2>4. call[c].block = b => Hit(call[c].lb)
    BY <2>1 DEF Busy
  <2>5. want[call[c].lb][q] \in {Lost, Copied(c, q)}
    BY DEF IInv, Moved
  <2> HIDE DEF Hit
  <2>6. CASE Copied(c, q) = cells[call[c].block][q] /\ Copied(c, q)' = cells'[call[c].block][q]
    BY <1>8, <2>1, <2>4, <2>5, <2>6
  <2>7. CASE Copied(c, q) = cells[call[c].new][q] /\ Copied(c, q)' = cells'[call[c].new][q]
    BY <1>8, <2>1, <2>3, <2>5, <2>7
  <2>8. CASE Copied(c, q) = data_buf /\ Copied(c, q)' = data_buf
    BY <1>3, <2>1, <2>5, <2>8
  <2> QED  BY <1>1, <2>6, <2>7, <2>8 DEF Copied
<1>11. \A x \in Blocks, q \in Pages : cells[x][q] = Erased => cells'[x][q] = Erased
  BY <1>1, <1>2 DEF Logical, Erased
<1>12. Writable'
  <2> SUFFICES ASSUME NEW c \in Callers, call[c] # None, Apart(call[c].lb), NEW q \in Pages
               PROVE  /\ call[c].kind = "write" /\ call[c].pc \in {"look", "raw"}
                         /\ q >= call[c].from => cells'[map[call[c].lb]][q] = Erased
                      /\ call[c].pc \in {"cp_read", "cp_write"} /\ q >= call[c].page =>
                            cells'[call[c].new][q] = Erased
    BY <1>1 DEF Writable, Apart
  <2>1. map[call[c].lb] \in Blocks /\ call[c].new \in Blocks
    BY <1>1, CallFacts
  <2> QED  BY <1>11, <2>1 DEF IInv, Writable
<1>13. Read'
  <2> SUFFICES ASSUME NEW c \in Callers, call[c] # None, call[c].kind = "read", ~call[c].err
               PROVE  /\ ~call[c].again
                      /\ Apart(call[c].lb) => \A q \in Pages :
                            IF call[c].pc \in {"look", "raw"}
                            THEN \/ call[c].due[q] \in {Lost, cells'[map[call[c].lb]][q]}
                                 \/ cells'[map[call[c].lb]][q] = Unreadable
                            ELSE call[c].due[q] \in {Lost, call[c].got[q]}
    BY <1>1 DEF Read, Apart
  <2>1. map[call[c].lb] \in Blocks
    BY <1>1, CallFacts
  <2>2. \A q \in Pages : cells'[map[call[c].lb]][q] \in {Unreadable, cells[map[call[c].lb]][q]}
    BY <1>2, <2>1
  <2> QED  BY <2>2 DEF IInv, Read
<1> QED  BY <1>4, <1>5, <1>7, <1>9, <1>10, <1>12, <1>13 DEF IInv

\* A request that would write finds the pages erased, and what it will change is not expected any
\* more; one that meets a copy of the same block is counted among what upsets it.
LEMMA RequestStep ==
    ASSUME IInv, NEW c \in Callers, NEW kind \in Kinds, NEW lb \in Logical, NEW from \in Pages,
           Request(c, kind, lb, from)
    PROVE  IInv'
<1>1. /\ TypeOK /\ call[c] = None /\ ops > 0 /\ ops' = ops - 1
      /\ \A d \in Callers : call[d] # None /\ call[d].lb = lb =>
            {kind, call[d].kind} \subseteq {"read", "isbad"}
      /\ from > 0 => kind = "write"
      /\ kind = "write" => \A p \in Pages : p >= from => want[lb][p] = Erased
      /\ call' = [call EXCEPT ![c] = [kind |-> kind, lb |-> lb, from |-> from, pc |-> "look",
                                    block |-> 0, new |-> 0, len |-> 0, page |-> 0,
                                    due |-> want[lb], got |-> want[lb], retry |-> 0,
                                    used |-> 0, again |-> FALSE, err |-> FALSE]]
      /\ want' = IF kind \in {"write", "erase"} THEN Lose(want, lb, from) ELSE want
      /\ upset' = IF \E d \in Busy(lb) : call[d].pc \in Copying THEN upset \cup {lb} ELSE upset
      /\ UNCHANGED <<cells, marked, map, free, data_buf, faults>>
  BY DEF IInv, Request, Busy
<1>2. /\ want \in [Logical -> [Pages -> Logical \cup {Erased, Lost}]]
      /\ \A l \in Logical, q \in Pages : want[l][q] \in {l, Erased, Lost}
      /\ want[lb] \in [Pages -> Int]
  BY <1>1 DEF TypeOK, Logical, Erased, Lost
<1>3. 0 \in Blocks /\ 0 \in Pages /\ 0 \in 0..NumPages
  BY SizeAssumption DEF Blocks, Logical, Pages
<1>4. /\ call' \in [Callers -> Call \cup {None}] /\ call'[c] # None
      /\ \A d \in Callers : d # c => call'[d] = call[d]
      /\ call'[c].kind = kind /\ call'[c].lb = lb /\ call'[c].from = from /\ call'[c].pc = "look"
      /\ call'[c].due = want[lb] /\ call'[c].got = want[lb] /\ call'[c].retry = 0
      /\ call'[c].used = 0 /\ call'[c].again = FALSE /\ call'[c].err = FALSE
  <2> DEFINE r == [kind |-> kind, lb |-> lb, from |-> from, pc |-> "look",
                   block |-> 0, new |-> 0, len |-> 0, page |-> 0,
                   due |-> want[lb], got |-> want[lb], retry |-> 0,
                   used |-> 0, again |-> FALSE, err |-> FALSE]
  <2>1. r \in Call
    BY <1>2, <1>3 DEF Call, Labels
  <2>2. /\ r.kind = kind /\ r.lb = lb /\ r.from = from /\ r.pc = "look" /\ r.due = want[lb]
        /\ r.got = want[lb] /\ r.retry = 0 /\ r.used = 0 /\ r.again = FALSE /\ r.err = FALSE
    OBVIOUS
  <2>3. call' = [call EXCEPT ![c] = r]
    BY <1>1
  <2> HIDE DEF r
  <2>4. call' \in [Callers -> Call \cup {None}] /\ call'[c] = r
        /\ \A d \in Callers : d # c => call'[d] = call[d]
    BY <1>1, <2>1, <2>3 DEF TypeOK
  <2> QED  BY <2>1, <2>2, <2>4, NoneAssumption
<1>5. /\ want' \in [Logical -> [Pages -> Logical \cup {Erased, Lost}]]
      /\ \A l \in Logical, q \in Pages : want'[l][q] \in {l, Erased, Lost}
      /\ \A l \in Logical, q \in Pages : want'[l][q] \in {Lost, want[l][q]}
      /\ kind \in {"write", "erase"} => \A q \in Pages : q >= from => want'[lb][q] = Lost
  <2>1. CASE kind \in {"write", "erase"}
    <3>1. /\ want' \in [Logical -> [Pages -> Logical \cup {Erased, Lost}]]
          /\ \A l \in Logical, q \in Pages : want'[l][q] \in {l, Erased, Lost}
          /\ \A l \in Logical : l # lb => want'[l] = want[l]
          /\ \A q \in Pages : want'[lb][q] = IF q >= from THEN Lost ELSE want[lb][q]
      BY <1>1, <2>1, LoseFacts
    <3> QED  BY <3>1
  <2>2. CASE kind \notin {"write", "erase"}
    BY <1>1, <1>2, <2>2
  <2> QED  BY <2>1, <2>2
<1>6. TypeOK'
  <2>1. ops' \in 0..MaxOps
    BY <1>1, BoundAssumption DEF TypeOK
  <2> QED  BY <1>1, <1>4, <1>5, <2>1 DEF TypeOK
<1>7. /\ upset \subseteq upset'
      /\ \A d \in Callers : InCopy(d) /\ call[d].lb = lb => lb \in upset'
  BY <1>1 DEF Busy, InCopy
<1>8. /\ \A d \in Callers : InCopy(d)' <=> InCopy(d)
      /\ \A d \in Callers : InCopy(d)' => d # c
      /\ \A d \in Callers : Using(d)' => Using(d) /\ d # c
      /\ \A d \in Callers, b \in Blocks : Holds(d, b)' => Holds(d, b) /\ d # c
      /\ \A d \in Callers : At(d, "cp_write")' => At(d, "cp_write")
  BY <1>1, <1>4 DEF InCopy, Using, Holds, At, Copying
<1>9. Alone'
  <2> SUFFICES ASSUME NEW d \in Callers, NEW e \in Callers, d # e,
                      call'[d] # None, call'[e] # None, call'[d].lb = call'[e].lb
               PROVE  /\ {call'[d].kind, call'[e].kind} \subseteq {"read", "isbad"}
                      /\ InCopy(d)' => call'[d].lb \in upset'
    BY DEF Alone
  <2>1. CASE d # c /\ e # c
    BY <1>4, <1>7, <1>8, <2>1 DEF IInv, Alone
  <2>2. CASE d = c
    <3>1. call'[e] = call[e] /\ call[e] # None /\ call[e].lb = lb
      BY <1>4, <2>2
    <3> QED  BY <1>1, <1>4, <1>8, <2>2, <3>1
  <2>3. CASE e = c
    <3>1. call'[d] = call[d] /\ call[d] # None /\ call[d].lb = lb
      BY <1>4, <2>3
    <3> QED  BY <1>1, <1>4, <1>7, <1>8, <2>3, <3>1
  <2> QED  BY <2>1, <2>2, <2>3
<1>10. Owned'
  <2> SUFFICES ASSUME None \notin upset'
               PROVE  /\ \A l1, l2 \in Logical : map[l1] = map[l2] => l1 = l2
                      /\ \A l \in Logical : map[l] \notin free
                      /\ \A d \in Callers, b \in Blocks : Holds(d, b)' =>
                            b \notin free /\ \A l \in Logical : map[l] = b => l = call'[d].lb
                      /\ \A d, e \in Callers, b \in Blocks :
                            Holds(d, b)' /\ Holds(e, b)' => call'[d].lb = call'[e].lb
                      /\ \A d, e \in Callers : At(d, "cp_write")' /\ At(e, "cp_write")' => d = e
    BY <1>1 DEF Owned
  <2>1. None \notin upset
    BY <1>7
  <2> QED  BY <1>4, <1>8, <2>1 DEF IInv, Owned
<1>11. LookedUp'
  <2> SUFFICES ASSUME NEW d \in Callers, upset' \cap {call'[d].lb, None} = {}
               PROVE  /\ Using(d)' => call'[d].block = map[call'[d].lb]
                      /\ InCopy(d)' => /\ call'[d].new = map[call'[d].lb]
                                       /\ call'[d].block # call'[d].new
    BY <1>1 DEF LookedUp, Apart
  <2>1. LookedUp
    BY DEF IInv
  <2>2. ASSUME d # c PROVE call'[d] = call[d] /\ Apart(call[d].lb)
    BY <1>4, <1>7, <2>2 DEF Apart
  <2> QED  BY <1>8, <2>1, <2>2 DEF LookedUp
<1>12. \A l \in Logical, q \in Pages : want[l][q] = Lost => want'[l][q] = Lost
  BY <1>5
<1>13. Kept'
  <2> SUFFICES ASSUME NEW l \in Logical, upset' \cap {l, None} = {},
                      ~ \E d \in Callers : InCopy(d)' /\ call'[d].lb = l, NEW q \in Pages
               PROVE  want'[l][q] \in {Lost, cells[map[l]][q]}
    BY <1>1 DEF Kept, Apart
  <2>1. ~ \E d \in Callers : InCopy(d) /\ call[d].lb = l
    BY <1>4, <1>8
  <2>2. Apart(l)
    BY <1>7 DEF Apart
  <2>3. want[l][q] \in {Lost, cells[map[l]][q]}
    BY <2>1, <2>2 DEF IInv, Kept
  <2> QED  BY <1>5, <2>3
<1>14. Moved'
  <2> SUFFICES ASSUME NEW d \in Callers, InCopy(d)', upset' \cap {call'[d].lb, None} = {},
                      NEW q \in Pages
               PROVE  want'[call'[d].lb][q] \in {Lost, Copied(d, q)'}
    BY DEF Moved, Apart
  <2>1. d # c /\ call'[d] = call[d] /\ InCopy(d) /\ call[d].lb \in Logical
    BY <1>1, <1>4, <1>8, CallFacts DEF InCopy
  <2>2. Apart(call[d].lb)
    BY <1>7, <2>1 DEF Apart
  <2>3. Copied(d, q)' = Copied(d, q)
    BY <1>1, <2>1 DEF Copied
  <2>4. want[call[d].lb][q] \in {Lost, Copied(d, q)}
    BY <2>1, <2>2 DEF IInv, Moved
  <2> QED  BY <1>5, <2>1, <2>3, <2>4
<1>15. upset' \cap {lb, None} = {} =>
          \A q \in Pages : want[lb][q] \in {Lost, cells[map[lb]][q]}
  <2> SUFFICES ASSUME upset' \cap {lb, None} = {}
               PROVE  \A q \in Pages : want[lb][q] \in {Lost, cells[map[lb]][q]}
    OBVIOUS
  <2>1. ~ \E d \in Callers : InCopy(d) /\ call[d].lb = lb
    BY <1>7
  <2>2. Apart(lb)
    BY <1>7 DEF Apart
  <2> QED  BY <2>1, <2>2 DEF IInv, Kept
<1>16. Writable'
  <2> SUFFICES ASSUME NEW d \in Callers, call'[d] # None, upset' \cap {call'[d].lb, None} = {},
                      NEW q \in Pages
               PROVE  /\ call'[d].kind = "write" /\ call'[d].pc \in {"look", "raw"}
                         /\ q >= call'[d].from => cells[map[call'[d].lb]][q] = Erased
                      /\ call'[d].pc \in {"cp_read", "cp_write"} /\ q >= call'[d].page =>
                            cells[call'[d].new][q] = Erased
    BY <1>1 DEF Writable, Apart
  <2>1. CASE d = c
    BY <1>1, <1>4, <1>15, <2>1 DEF Apart, Erased, Lost
  <2>2. CASE d # c
    <3>1. call'[d] = call[d] /\ Apart(call[d].lb)
      BY <1>4, <1>7, <2>2 DEF Apart
    <3> QED  BY <3>1 DEF IInv, Writable
  <2> QED  BY <2>1, <2>2
<1>17. Read'
  <2> SUFFICES ASSUME NEW d \in Callers, call'[d] # None, call'[d].kind = "read", ~call'[d].err
               PROVE  /\ ~call'[d].again
                      /\ upset' \cap {call'[d].lb, None} = {} => \A q \in Pages :
                            IF call'[d].pc \in {"look", "raw"}
                            THEN \/ call'[d].due[q] \in {Lost, cells[map[call'[d].lb]][q]}
                                 \/ cells[map[call'[d].lb]][q] = Unreadable
                            ELSE call'[d].due[q] \in {Lost, call'[d].got[q]}
    BY <1>1 DEF Read, Apart
  <2>1. CASE d = c
    BY <1>4, <1>15, <2>1 DEF Apart
  <2>2. CASE d # c
    <3>1. call'[d] = call[d] /\ ~call[d].again
      BY <1>4, <2>2 DEF IInv, Read
    <3>2. upset' \cap {call'[d].lb, None} = {} => Apart(call[d].lb)
      BY <1>7, <3>1 DEF Apart
    <3> QED  BY <3>1, <3>2 DEF IInv, Read
  <2> QED  BY <2>1, <2>2
<1>18. Attempts'
  BY <1>4, SizeAssumption DEF IInv, Attempts, Copying
<1>19. Spared'
  <2> SUFFICES ASSUME NEW d \in Callers, call'[d] # None
               PROVE  /\ call'[d].from > 0 => call'[d].kind = "write"
                      /\ call'[d].pc \in {"pick", "take"} \cup Copying =>
                            call'[d].len = CopyLen(call'[d].kind, call'[d].from)
                      /\ call'[d].pc \in {"cp_read", "cp_write"} => call'[d].page < call'[d].len
                      /\ call'[d].kind \in {"write", "erase"} /\ call'[d].pc # "done" =>
                            \A p \in Pages : p >= call'[d].from => want'[call'[d].lb][p] = Lost
    BY DEF Spared, CopyLen
  <2>1. CASE d = c
    BY <1>1, <1>4, <1>5, <2>1 DEF Copying
  <2>2. CASE d # c
    <3>1. call'[d] = call[d] /\ call[d] # None /\ call[d].lb \in Logical
      BY <1>1, <1>4, <2>2, CallFacts
    <3> QED  BY <1>12, <3>1 DEF IInv, Spared
  <2> QED  BY <2>1, <2>2
<1> QED  BY <1>6, <1>9, <1>10, <1>11, <1>13, <1>14, <1>16, <1>17, <1>18, <1>19 DEF IInv

\* The invariant holds at first: each block has its own data and nobody is at work.
LEMMA InitInv == Init => IInv
<1> SUFFICES ASSUME Init PROVE IInv
  OBVIOUS
<1>1. Logical \subseteq Blocks /\ Pages \subseteq Int
  BY SizeAssumption DEF Logical, Blocks, Pages
<1>2. PICK n \in 0..NumPages :
         /\ want = [lb \in Logical |-> [p \in Pages |-> IF lb > 0 \/ p < n THEN lb ELSE Erased]]
         /\ cells = [b \in Blocks |-> IF b \in Logical THEN want[b]
                                      ELSE [p \in Pages |-> Unreadable]]
  BY DEF Init
<1>3. /\ marked = {} /\ map = [lb \in Logical |-> lb] /\ free = Blocks \ Logical
      /\ data_buf = Erased /\ call = [c \in Callers |-> None] /\ upset = {}
      /\ ops = MaxOps /\ faults = MaxFaults
  BY DEF Init
<1>4. /\ want \in [Logical -> [Pages -> Logical \cup {Erased}]]
      /\ \A lb \in Logical, p \in Pages : want[lb][p] \in {lb, Erased}
  BY <1>2
<1>5. \A b \in Blocks : cells[b] \in [Pages -> Contents] /\ (b \in Logical => cells[b] = want[b])
  BY <1>2, <1>4 DEF Contents
<1>6. TypeOK
  <2>1. cells \in [Blocks -> [Pages -> Contents]]
    BY <1>2, <1>5
  <2>2. map \in [Logical -> Blocks] /\ free \subseteq Blocks
    BY <1>1, <1>3
  <2>3. ops \in 0..MaxOps /\ faults \in 0..MaxFaults
    BY <1>3, BoundAssumption
  <2> QED  BY <1>3, <1>4, <2>1, <2>2, <2>3 DEF TypeOK
<1>7. Attempts /\ Alone /\ Spared /\ Moved /\ Writable /\ Read
  BY <1>3 DEF Attempts, Alone, Spared, Moved, Writable, Read, InCopy
<1>8. Owned /\ LookedUp
  BY <1>1, <1>3 DEF Owned, LookedUp, Holds, Using, InCopy, At
<1>9. Kept
  BY <1>1, <1>3, <1>5 DEF Kept
<1> QED  BY <1>6, <1>7, <1>8, <1>9 DEF IInv

\* Every step keeps the invariant.
LEMMA StepInv == IInv /\ [Next]_vars => IInv'
<1> SUFFICES ASSUME IInv, [Next]_vars PROVE IInv'
  OBVIOUS
<1>1. ASSUME NEW c \in Callers, CallStep(c) PROVE IInv'
  <2>1. CASE Look(c)
    BY <2>1, LookStep
  <2>2. CASE ReadRaw(c)
    <3>1. CASE \E p \in Pages : cells[call[c].block][p] = Unreadable
      BY <2>2, <3>1, ReadFailsStep
    <3>2. CASE \A p \in Pages : cells[call[c].block][p] # Unreadable
      BY <2>2, <3>2, ReadWorksStep, ReadFlipsStep DEF ReadRaw
    <3> QED  BY <3>1, <3>2
  <2>3. CASE WriteRaw(c)
    BY <2>3, WriteRawStep
  <2>4. CASE EraseRaw(c)
    BY <2>4, EraseRawStep
  <2>5. CASE IsBadRaw(c)
    BY <2>5, IsBadStep, IsGoodStep
  <2>6. CASE MarkBadRaw(c)
    BY <2>6, MarkBadRawStep
  <2>7. CASE Mark(c)
    BY <2>7, MarkStep
  <2>8. CASE Pick(c)
    BY <2>8, PickNoneStep, PickNewStep DEF Pick
  <2>9. CASE Take(c)
    BY <2>9, TakeStep
  <2>10. CASE EraseNew(c)
    BY <2>10, EraseNewStep
  <2>11. CASE CopyRead(c)
    BY <2>11, CopyReadStep
  <2>12. CASE CopyWrite(c)
    BY <2>12, CopyWriteStep
  <2>13. CASE Return(c)
    BY <2>13, ReturnStep
  <2> QED  BY <1>1, <2>1, <2>2, <2>3, <2>4, <2>5, <2>6, <2>7, <2>8, <2>9, <2>10, <2>11, <2>12,
              <2>13 DEF CallStep
<1>2. ASSUME NEW c \in Callers, NEW kind \in Kinds, NEW lb \in Logical, NEW from \in Pages,
             Request(c, kind, lb, from)
      PROVE  IInv'
  BY <1>2, RequestStep
<1>3. ASSUME NEW b \in Blocks, NEW p \in Pages, Decay(b, p) PROVE IInv'
  BY <1>3, DecayStep
<1>4. CASE UNCHANGED vars
  BY <1>4 DEF vars, IInv, TypeOK, Attempts, Alone, Owned, LookedUp, Spared, Kept, Moved, Writable,
              Read, Copied, Holds, Using, InCopy, At, Apart, CopyLen
<1> QED  BY <1>1, <1>2, <1>3, <1>4 DEF Next

\* So it always holds.
LEMMA Invariant == Spec => []IInv
BY InitInv, StepInv, PTL DEF Spec

\* The variables hold what the driver and the chip can hold.
THEOREM FrontTypes == Spec => []TypeOK
BY Invariant, PTL DEF IInv

\* One request uses up no more than MaxRetry + 1 blocks of the pool (mtk_bmt_read, mtk_bmt_write,
\* mtk_bmt_mtd_erase, mtk_bmt_block_isbad), whoever else is at work.
THEOREM PoolIsSpared == Spec => []PoolSpent
<1>1. IInv => PoolSpent
  BY DEF IInv, Attempts, PoolSpent
<1> QED  BY <1>1, Invariant, PTL

\* What was written and not lost with the chip is where the map says, whatever requests on other
\* blocks are being remapped meanwhile (mtk_bmt_write, remap_block_v2, bbt_nand_copy).
THEOREM DataIsKept == Spec => []DataKept
<1>1. IInv => DataKept
  BY DEF IInv, Kept, DataKept, Busy, InCopy
<1> QED  BY <1>1, Invariant, PTL

\* A read that returns no error has delivered what was written (mtk_bmt_read keeps the error of a
\* failed attempt).
THEOREM ReadsAreTrue == Spec => []ReadTrue
<1>1. IInv => ReadTrue
  BY DEF IInv, Read, ReadTrue, At
<1> QED  BY <1>1, Invariant, PTL
=============================================================================
