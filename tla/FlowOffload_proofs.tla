------------------------ MODULE FlowOffload_proofs ------------------------
(***************************************************************************)
(* What holds of the hardware NAT driver for any number of processors,     *)
(* flows and slots of the table: the types of the variables, that a bound  *)
(* entry is not rewritten, that the cache of the PPE does not keep what    *)
(* was deleted, and that no flow goes on to an address that a neighbour    *)
(* has given up.  Given the types, every step keeps each of them.          *)
(***************************************************************************)
EXTENDS FlowOffload, FiniteSetTheorems, TLAPS

\* The numbers among the constants.
LEMMA Sizes ==
    /\ NumSlots \in Nat /\ Budget \in Nat /\ Budget > 0 /\ PendingMax \in Nat /\ MaxEvents \in Nat
    /\ SlotOf \in [Flows -> Slots] /\ \A s \in Slots : s \in Int /\ 1 <= s /\ s <= NumSlots
    /\ \A f \in Flows : HostOf[f] \in Hosts
BY SizeAssumption, FlowAssumption, BoundAssumption DEF Slots, Hosts

\* An entry that the driver or the PPE writes is one that the table can hold.
LEMMA EntryTypes ==
    /\ Empty \in Entries /\ Empty.state = "invalid"
    /\ \A f \in Flows : LET e == Entry("unbind", f, None, None)
                        IN  e \in Entries /\ e.state = "unbind" /\ e.key = f
    /\ \A f, g \in Flows, mac \in Macs :
           LET e == Entry("bind", f, g, mac)
           IN  e \in Entries /\ e.state = "bind" /\ e.key = f /\ e.to = g /\ e.mac = mac
    /\ \A k \in Flows \cup {None} :
           LET e == Entry("invalid", k, None, None) IN e \in Entries /\ e.state = "invalid"
BY DEF Empty, Entry, Entries

\* The part of the type invariant about the table and its cache.
TableOK ==
    /\ foe \in [Slots -> Entries]
    /\ \A s \in Slots : Bound(s) => foe[s].to \in Flows /\ foe[s].mac \in Macs
    /\ \A s \in Slots : foe[s].state # "invalid" => foe[s].key \in Flows
    /\ cache \in [Slots -> {e \in Entries : e.state = "bind"} \cup {None}]
    /\ missed \subseteq {s \in Slots : Bound(s)}

\* The part about neighbours, their events and the handler.
EventsOK ==
    /\ neigh \in [Hosts -> Macs] /\ registered \in BOOLEAN /\ pending \in BOOLEAN
    /\ events \in Seq(Event) /\ Len(events) <= PendingMax
    /\ work \in [pos : 0..(NumSlots + 1), cnt : BOOLEAN]
    /\ local \subseteq Event /\ Cardinality(local) <= Budget

\* The rest.
RestOK ==
    /\ sma \in {"build", "fwd"} /\ timer \in BOOLEAN
    /\ flow \in [Flows -> [to : Flows, mac : Macs] \cup {None}]
    /\ pkt \in [Cpus -> Packets \cup {None}]
    /\ del \in Deletion \cup {None}
    /\ warm \in {"idle", "clean", "cancel", "wipe", "init", "register"}
    /\ busy \in BOOLEAN /\ left \in 0..MaxEvents

\* The type invariant, in parts.
LEMMA Parts ==
    /\ TypeOK <=> TableOK /\ EventsOK /\ RestOK
    /\ TypeOK' <=> TableOK' /\ EventsOK' /\ RestOK'
BY DEF TypeOK, TableOK, EventsOK, RestOK

\* What deleting entries does to the table.
LEMMA DeleteTypes ==
    ASSUME TableOK, NEW S \in SUBSET Slots, Delete(S)
    PROVE  /\ foe' \in [Slots -> Entries] /\ missed' = missed \ S
           /\ \A s \in Slots : IF s \in S THEN foe'[s].state = "invalid" ELSE foe'[s] = foe[s]
<1>1. \A s \in Slots : foe[s] \in Entries /\ foe[s].key \in Flows \cup {None}
  BY DEF TableOK, Entries
<1>2. /\ \A s \in Slots : foe'[s] = IF s \in S THEN Entry("invalid", foe[s].key, None, None)
                                              ELSE foe[s]
      /\ foe' = [s \in Slots |-> foe'[s]] /\ missed' = missed \ S
  BY DEF Delete
<1>3. \A s \in Slots : foe'[s] \in Entries /\ (s \in S => foe'[s].state = "invalid")
  BY <1>1, <1>2, EntryTypes
<1> QED  BY <1>2, <1>3

\* Deleting entries keeps the types of the table, if its cache keeps its own.
LEMMA DeleteKeeps ==
    ASSUME TableOK, NEW S \in SUBSET Slots, Delete(S),
           cache' \in [Slots -> {e \in Entries : e.state = "bind"} \cup {None}]
    PROVE  TableOK'
BY DeleteTypes DEF TableOK, Bound

\* Clearing the cache, or not.
LEMMA ClearTypes ==
    ASSUME TypeOK, NEW cnt \in BOOLEAN, AfterScan(cnt) \/ CacheClear
    PROVE  /\ cache' \in [Slots -> {e \in Entries : e.state = "bind"} \cup {None}]
           /\ busy' \in BOOLEAN /\ left' \in 0..MaxEvents
           /\ \/ busy'
              \/ busy' = busy /\ \A s \in Slots : cache'[s] = None
              \/ ~cnt /\ UNCHANGED <<cache, busy>>
<1>1. /\ cache \in [Slots -> {e \in Entries : e.state = "bind"} \cup {None}]
      /\ busy \in BOOLEAN /\ left \in 0..MaxEvents
  BY DEF TypeOK
<1>2. \/ cache' = [s \in Slots |-> None] /\ busy' = busy /\ left' = left
      \/ left > 0 /\ left' = left - 1 /\ busy' = TRUE /\ cache' = cache
      \/ ~cnt /\ cache' = cache /\ busy' = busy /\ left' = left
  BY DEF AfterScan, CacheClear, Spend
<1>3. left' \in 0..MaxEvents
  BY <1>1, <1>2, Sizes
<1>4. busy' \in BOOLEAN
  BY <1>1, <1>2
<1>5. cache' \in [Slots -> {e \in Entries : e.state = "bind"} \cup {None}]
  BY <1>1, <1>2
<1> QED  BY <1>2, <1>3, <1>4, <1>5

\* What of the types a step leaves alone, it keeps.
LEMMA Untouched ==
    /\ TableOK /\ UNCHANGED <<foe, cache, missed>> => TableOK'
    /\ EventsOK /\ UNCHANGED <<neigh, updates>> => EventsOK'
    /\ RestOK /\ UNCHANGED <<sma, timer, packets, del, warm, busy, left>> => RestOK'
BY DEF TableOK, EventsOK, RestOK, updates, packets, Bound

----------------------------------------------------------------------------
(* Types.                                                                   *)

\* The PPE learns a flow.
LEMMA LearnTypes == ASSUME TypeOK, NEW f \in Flows, Learn(f) PROVE TypeOK'
<1>1. TableOK /\ EventsOK /\ RestOK
  BY Parts
<1>2. UNCHANGED <<cache, sma, timer, neigh, updates, packets, del, warm, missed, busy, left>>
  BY DEF Learn
<1>3. /\ SlotOf[f] \in Slots /\ foe' = [foe EXCEPT ![SlotOf[f]] = Entry("unbind", f, None, None)]
      /\ foe[SlotOf[f]].state = "invalid"
  BY Sizes DEF Learn
<1>4. TableOK'
  BY <1>1, <1>2, <1>3, EntryTypes DEF TableOK, Bound
<1> QED  BY <1>1, <1>2, <1>4, Untouched, Parts

\* The PPE forgets an entry, or loads it into its cache.
LEMMA SlotTypes == ASSUME TypeOK, NEW s \in Slots, Age(s) \/ Load(s) PROVE TypeOK'
<1>1. TableOK /\ EventsOK /\ RestOK
  BY Parts
<1>2. UNCHANGED <<sma, timer, neigh, updates, packets, del, warm, busy, left>>
  BY DEF Age, Load
<1>3. CASE Age(s)
  <2>1. Delete({s}) /\ cache' = [cache EXCEPT ![s] = None]
    BY <1>3 DEF Age
  <2>2. TableOK'
    BY <1>1, <2>1, DeleteKeeps DEF TableOK
  <2> QED  BY <1>1, <1>2, <2>2, Untouched, Parts
<1>4. CASE Load(s)
  <2>1. TableOK'
    BY <1>1, <1>4 DEF Load, TableOK, Bound
  <2> QED  BY <1>1, <1>2, <2>1, Untouched, Parts
<1> QED  BY <1>3, <1>4

\* A call that deletes goes on to the next slot.
LEMMA DeletionGoesOn == ASSUME TypeOK, DeleteSlot PROVE del' \in Deletion
<1> DEFINE hit == Bound(del.pos) /\ del.mac \in {None, foe[del.pos].mac}
<1>1. /\ del \in Deletion /\ del.pos <= NumSlots
      /\ del' = [del EXCEPT !.pos = @ + 1, !.cnt = @ \/ hit]
  BY DEF TypeOK, DeleteSlot
<1> HIDE DEF hit
<1>2. del'.cnt \in BOOLEAN /\ del.mac \in Macs \cup {None} /\ del.pos \in 1..(NumSlots + 1)
  BY <1>1 DEF Deletion
<1>3. del' = [mac |-> del.mac, pos |-> del.pos + 1, cnt |-> del'.cnt]
  BY <1>1 DEF Deletion
<1>4. del.pos + 1 \in 1..(NumSlots + 1)
  BY <1>1, <1>2, Sizes
<1> QED  BY <1>2, <1>3, <1>4 DEF Deletion

\* Calls that delete entries, and the timer.
LEMMA DeletionTypes ==
    ASSUME TypeOK, NEW mac \in Macs \cup {None}, StartDelete(mac) \/ DeleteStep \/ TimerFires
    PROVE  TypeOK'
<1>1. TableOK /\ EventsOK /\ RestOK
  BY Parts
<1>2. UNCHANGED <<neigh, updates, packets, warm>>
  BY DEF StartDelete, DeleteStep, DeleteSlot, EndDelete, TimerFires
<1>3. CASE StartDelete(mac)
  <2>1. RestOK'
    BY <1>1, <1>3, Sizes DEF StartDelete, Spend, RestOK, Deletion, packets
  <2> QED  BY <1>1, <1>2, <1>3, <2>1, Untouched, Parts DEF StartDelete
<1>4. CASE DeleteSlot
  <2> DEFINE S == IF Bound(del.pos) /\ del.mac \in {None, foe[del.pos].mac} THEN {del.pos} ELSE {}
  <2>1. del \in Deletion /\ del.pos \in Slots /\ S \in SUBSET Slots /\ Delete(S)
    BY <1>1, <1>4, Sizes DEF DeleteSlot, RestOK, Deletion, Slots
  <2>2. TableOK'
    <3>1. cache' = cache
      BY <1>4 DEF DeleteSlot
    <3> HIDE DEF S
    <3> QED  BY <1>1, <2>1, <3>1, DeleteKeeps DEF TableOK
  <2>3. del' \in Deletion
    BY <1>4, DeletionGoesOn
  <2> QED  BY <1>1, <1>2, <1>4, <2>2, <2>3, Untouched, Parts DEF DeleteSlot, RestOK, packets
<1>5. CASE EndDelete
  <2>1. /\ del.cnt \in BOOLEAN /\ AfterScan(del.cnt) /\ del' = None /\ timer' \in BOOLEAN
        /\ UNCHANGED <<foe, sma, missed>>
    BY <1>1, <1>5 DEF EndDelete, RestOK, Deletion
  <2>2. /\ cache' \in [Slots -> {e \in Entries : e.state = "bind"} \cup {None}]
        /\ busy' \in BOOLEAN /\ left' \in 0..MaxEvents
    BY <2>1, ClearTypes
  <2>3. TableOK'
    BY <1>1, <2>1, <2>2 DEF TableOK, Bound
  <2>4. RestOK'
    BY <1>1, <1>2, <2>1, <2>2 DEF RestOK, packets
  <2> QED  BY <1>1, <1>2, <2>3, <2>4, Untouched, Parts
<1>6. CASE TimerFires
  BY <1>1, <1>6, Untouched, Parts DEF TimerFires, RestOK, packets
<1> QED  BY <1>3, <1>4, <1>5, <1>6 DEF DeleteStep

\* What the handler takes off the list, and what it leaves there.
LEMMA BatchTypes ==
    ASSUME TypeOK
    PROVE  /\ Batch \in Nat /\ Batch <= Len(events)
           /\ LET B == {events[i] : i \in 1..Batch}
              IN  B \subseteq Event /\ Cardinality(B) <= Budget
           /\ LET R == SubSeq(events, Batch + 1, Len(events))
              IN  /\ R \in Seq(Event) /\ Len(R) = Len(events) - Batch
                  /\ \A i \in 1..Len(R) : R[i] = events[i + Batch]
<1>1. events \in Seq(Event) /\ Len(events) \in Nat /\ \A i \in 1..Len(events) : events[i] \in Event
  BY DEF TypeOK
<1>2. Batch \in Nat /\ Batch <= Len(events) /\ Batch <= Budget
  BY <1>1, Sizes DEF Batch
<1> DEFINE B == {events[i] : i \in 1..Batch}
           f == [i \in 1..Batch |-> events[i]]
<1>3. B \subseteq Event
  BY <1>1, <1>2
<1>4. Cardinality(B) <= Budget
  <2>1. IsFiniteSet(1..Batch) /\ Cardinality(1..Batch) <= Batch
    BY <1>2, FS_Interval
  <2>2. f \in Surjection(1..Batch, B)
    BY DEF Surjection
  <2>3. IsFiniteSet(B) /\ Cardinality(B) <= Cardinality(1..Batch)
    <3> HIDE DEF B, f
    <3> QED  BY <2>1, <2>2, FS_Surjection
  <2>4. Cardinality(B) \in Nat /\ Cardinality(1..Batch) \in Nat
    <3> HIDE DEF B
    <3> QED  BY <2>1, <2>3, FS_CardinalityType
  <2> HIDE DEF B
  <2> QED  BY <1>2, <2>1, <2>3, <2>4, Sizes
<1> QED  BY <1>1, <1>2, <1>3, <1>4

\* Updates of neighbours.
LEMMA NeighTypes ==
    ASSUME TypeOK, NEW h \in Hosts, NEW mac \in Macs, NEW nud \in Nud, NeighUpdate(h, mac, nud)
    PROVE  TypeOK'
<1>0. TableOK /\ EventsOK /\ RestOK
  BY Parts
<1> DEFINE e == [host |-> h, mac |-> mac, failed |-> nud = "failed"]
<1>1. /\ neigh' = [neigh EXCEPT ![h] = mac] /\ left > 0 /\ left' = left - 1
      /\ UNCHANGED <<foe, cache, sma, timer, registered, work, local, packets, del, warm, busy>>
      /\ \/ Len(events) < PendingMax /\ events' = Append(events, e) /\ pending' = TRUE
            /\ missed' = missed
         \/ /\ events' = events /\ pending' = pending
            /\ missed' \subseteq missed \cup {s \in Slots : Bound(s)}
  BY DEF NeighUpdate, NetEvent, Enqueue, Spend, ppe
<1>2. e \in Event
  BY DEF Event
<1>3. EventsOK'
  <2> HIDE DEF e
  <2>1. events' \in Seq(Event) /\ Len(events') <= PendingMax /\ pending' \in BOOLEAN
    <3>1. events \in Seq(Event) /\ Len(events) \in Nat /\ Len(events) <= PendingMax
      BY <1>0 DEF EventsOK
    <3>2. Append(events, e) \in Seq(Event) /\ Len(Append(events, e)) = Len(events) + 1
      BY <1>2, <3>1
    <3>3. Len(events) < PendingMax => Len(events) + 1 <= PendingMax
      BY <3>1, Sizes
    <3>4. events' = events \/ (events' = Append(events, e) /\ Len(events) < PendingMax)
      BY <1>1
    <3>5. events' \in Seq(Event) /\ Len(events') <= PendingMax
      <4>1. CASE events' = events
        BY <3>1, <4>1
      <4>2. CASE events' = Append(events, e) /\ Len(events) < PendingMax
        BY <3>2, <3>3, <4>2
      <4> QED  BY <3>4, <4>1, <4>2
    <3>6. pending' \in BOOLEAN
      BY <1>0, <1>1 DEF EventsOK
    <3> QED  BY <3>5, <3>6
  <2> QED  BY <1>0, <1>1, <2>1 DEF EventsOK
<1>4. TableOK'
  BY <1>0, <1>1 DEF TableOK, Bound
<1>5. RestOK'
  BY <1>0, <1>1, Sizes DEF RestOK, packets
<1> QED  BY <1>3, <1>4, <1>5, Parts

\* The handler of their events.
LEMMA WorkTypes == ASSUME TypeOK, WorkStep PROVE TypeOK'
<1>1. TableOK /\ EventsOK /\ RestOK
  BY Parts
<1>3. CASE WorkStart
  <2>1. /\ local' = {events[i] : i \in 1..Batch} /\ pending' = FALSE
        /\ events' = SubSeq(events, Batch + 1, Len(events)) /\ work' = [pos |-> 1, cnt |-> FALSE]
        /\ UNCHANGED <<neigh, registered>>
        /\ UNCHANGED <<foe, cache, sma, timer, packets, del, warm, missed, busy, left>>
    BY <1>3 DEF WorkStart, ppe
  <2>2. /\ local' \subseteq Event /\ Cardinality(local') <= Budget
        /\ events' \in Seq(Event) /\ Len(events') <= PendingMax
    <3>1. Len(events) \in Nat /\ Len(events) <= PendingMax
      BY <1>1 DEF EventsOK
    <3> QED  BY <2>1, <3>1, BatchTypes, Sizes
  <2>3. work' \in [pos : 0..(NumSlots + 1), cnt : BOOLEAN]
    BY <2>1, Sizes
  <2>4. EventsOK'
    BY <1>1, <2>1, <2>2, <2>3 DEF EventsOK
  <2> QED  BY <1>1, <2>1, <2>4, Untouched, Parts
<1>4. CASE WorkSlot
  <2> DEFINE hit == Bound(work.pos) /\ \E u \in local :
                        Corrects(u, foe[work.pos].to, foe[work.pos].mac)
             S == IF hit THEN {work.pos} ELSE {}
  <2>1. /\ work.pos \in Slots /\ Delete(S)
        /\ work' = [pos |-> work.pos + 1, cnt |-> work.cnt \/ hit]
        /\ UNCHANGED <<neigh, registered, events, pending, local>> /\ cache' = cache
        /\ UNCHANGED <<sma, timer, packets, del, warm, busy, left>>
    BY <1>4 DEF WorkSlot
  <2>2. TableOK'
    <3>1. S \in SUBSET Slots
      BY <2>1
    <3> HIDE DEF S
    <3> QED  BY <1>1, <2>1, <3>1, DeleteKeeps DEF TableOK
  <2>3. work' \in [pos : 0..(NumSlots + 1), cnt : BOOLEAN]
    <3> HIDE DEF hit
    <3> QED  BY <1>1, <2>1, Sizes DEF EventsOK, Slots
  <2>4. EventsOK'
    <3> HIDE DEF hit
    <3> QED  BY <1>1, <2>1, <2>3 DEF EventsOK
  <2> QED  BY <1>1, <2>1, <2>2, <2>4, Untouched, Parts
<1>5. CASE WorkEnd
  <2>1. /\ work.cnt \in BOOLEAN /\ AfterScan(work.cnt) /\ work' = Idle /\ local' = {}
        /\ pending' \in BOOLEAN /\ UNCHANGED <<neigh, registered, events>>
        /\ UNCHANGED <<foe, missed, sma, timer, packets, del, warm>>
    BY <1>1, <1>5 DEF WorkEnd, EventsOK
  <2>2. /\ cache' \in [Slots -> {e \in Entries : e.state = "bind"} \cup {None}]
        /\ busy' \in BOOLEAN /\ left' \in 0..MaxEvents
    BY <2>1, ClearTypes
  <2>3. TableOK'
    BY <1>1, <2>1, <2>2 DEF TableOK, Bound
  <2>4. EventsOK'
    BY <1>1, <2>1, Sizes, FS_EmptySet DEF EventsOK, Idle
  <2>5. RestOK'
    BY <1>1, <2>1, <2>2 DEF RestOK, packets
  <2> QED  BY <2>3, <2>4, <2>5, Parts
<1> QED  BY <1>3, <1>4, <1>5 DEF WorkStep

\* The warm init behind a reset.
LEMMA WarmTypes ==
    ASSUME TypeOK, WarmStart \/ WarmStep
    PROVE  TypeOK'
<1>1. TableOK /\ EventsOK /\ RestOK
  BY Parts
<1>2. CASE WarmStart
  <2>1. EventsOK' /\ TableOK'
    BY <1>1, <1>2, Untouched DEF WarmStart, EventsOK, ppe
  <2>2. RestOK'
    BY <1>1, <1>2, Sizes DEF WarmStart, Spend, RestOK, ppe, packets
  <2> QED  BY <2>1, <2>2, Parts
<1>3. CASE WarmClean
  <2>1. events' = <<>> /\ pending' = FALSE /\ warm' \in {"cancel", "wipe"}
    BY <1>3 DEF WarmClean
  <2>2. EventsOK' /\ TableOK'
    <3>1. events' \in Seq(Event) /\ Len(events') <= PendingMax
      BY <2>1, Sizes
    <3>2. /\ UNCHANGED <<neigh, registered, work, local>>
          /\ UNCHANGED <<foe, cache, missed>>
      BY <1>3 DEF WarmClean, ppe
    <3> QED  BY <1>1, <2>1, <3>1, <3>2, Untouched DEF EventsOK
  <2>3. RestOK'
    BY <1>1, <1>3, <2>1 DEF WarmClean, RestOK, ppe, packets
  <2> QED  BY <2>2, <2>3, Parts
<1>4. CASE WarmCancel \/ WarmEnd
  <2>1. TableOK' /\ EventsOK'
    BY <1>1, <1>4, Untouched DEF WarmCancel, WarmEnd, EventsOK, ppe, updates
  <2>2. RestOK'
    BY <1>1, <1>4 DEF WarmCancel, WarmEnd, RestOK, ppe, packets
  <2> QED  BY <2>1, <2>2, Parts
<1>5. CASE WarmWipe
  <2>1. foe' = [s \in Slots |-> Empty] /\ missed' = {} /\ cache' = cache
    BY <1>5 DEF WarmWipe
  <2>2. TableOK'
    BY <1>1, <2>1, EntryTypes DEF TableOK, Bound
  <2>3. RestOK' /\ EventsOK'
    BY <1>1, <1>5, Untouched DEF WarmWipe, RestOK, packets
  <2> QED  BY <2>2, <2>3, Parts
<1>6. CASE WarmInit
  <2>1. /\ CacheClear /\ sma' = "build" /\ warm' = "register"
        /\ UNCHANGED <<foe, timer, neigh, updates, packets, del, missed>>
    BY <1>6 DEF WarmInit
  <2>2. /\ cache' \in [Slots -> {e \in Entries : e.state = "bind"} \cup {None}]
        /\ busy' \in BOOLEAN /\ left' \in 0..MaxEvents
    BY <2>1, ClearTypes
  <2>3. TableOK' /\ RestOK'
    BY <1>1, <2>1, <2>2 DEF TableOK, Bound, RestOK, packets
  <2> QED  BY <1>1, <2>1, <2>3, Untouched, Parts
<1> QED  BY <1>2, <1>3, <1>4, <1>5, <1>6 DEF WarmStep

\* Packets.
LEMMA FillTypes ==
    ASSUME TypeOK, NEW c \in Cpus, NEW f \in Flows,
           FillWired(c, f) \/ FillWifi(c, f)
    PROVE  TypeOK'
<1>1. TableOK /\ EventsOK /\ RestOK
  BY Parts
<1>2. UNCHANGED <<cache, sma, timer, neigh, updates, del, warm, busy, left>>
  BY DEF FillWired, FillWifi, ppe
<1>3. neigh[HostOf[f]] \in Macs /\ SlotOf[f] \in Slots
  BY <1>1, Sizes DEF EventsOK
<1>4. CASE FillWired(c, f)
  <2> DEFINE p == [pc |-> "bind", slot |-> SlotOf[f], key |-> foe[SlotOf[f]].key, to |-> f,
                   mac |-> neigh[HostOf[f]]]
  <2>1. pkt' = [pkt EXCEPT ![c] = p] /\ UNCHANGED <<foe, missed, flow>> /\ p \in Packets
    BY <1>1, <1>3, <1>4 DEF FillWired, Put, ppe, TableOK, Packets
  <2> HIDE DEF p
  <2>2. RestOK'
    BY <1>1, <1>2, <2>1 DEF RestOK
  <2> QED  BY <1>1, <1>2, <2>1, <2>2, Untouched, Parts
<1>5. CASE FillWifi(c, f)
  <2> DEFINE p == [pc |-> "tx", slot |-> SlotOf[f]]
             e == [to |-> f, mac |-> neigh[HostOf[f]]]
  <2>1. /\ pkt' = [pkt EXCEPT ![c] = p] /\ p \in Packets /\ e \in [to : Flows, mac : Macs]
        /\ flow' = [flow EXCEPT ![foe[SlotOf[f]].key] = e] /\ UNCHANGED <<foe, missed>>
    BY <1>3, <1>5 DEF FillWifi, Put, ppe, Packets
  <2> HIDE DEF p, e
  <2>2. RestOK'
    BY <1>1, <1>2, <2>1 DEF RestOK
  <2> QED  BY <1>1, <1>2, <2>1, <2>2, Untouched, Parts
<1> QED  BY <1>4, <1>5

\* What else becomes of a packet in the hands of a processor.
PacketStep(c) == Leave(c) \/ Commit(c) \/ Transmit(c)

\* Such a step.
LEMMA PacketTypes == ASSUME TypeOK, NEW c \in Cpus, PacketStep(c) PROVE TypeOK'
<1>1. TableOK /\ EventsOK /\ RestOK
  BY Parts
<1>2. UNCHANGED <<cache, sma, timer, neigh, updates, del, warm, busy, left>>
  BY DEF PacketStep, Leave, Commit, Transmit, ppe
<1>6. CASE Leave(c)
  <2>1. RestOK'
    BY <1>1, <1>2, <1>6 DEF Leave, Put, RestOK
  <2> QED  BY <1>1, <1>2, <1>6, <2>1, Untouched, Parts DEF Leave, ppe
<1>7. CASE Commit(c)
  <2>1. /\ pkt' = [pkt EXCEPT ![c] = None] /\ flow' = flow
        /\ pkt[c] \in Packets /\ pkt[c].pc = "bind"
    BY <1>1, <1>7 DEF Commit, Put, Has, RestOK
  <2>2. RestOK'
    BY <1>1, <1>2, <2>1 DEF RestOK
  <2>3. pkt[c].slot \in Slots /\ pkt[c].key \in Flows /\ pkt[c].to \in Flows /\ pkt[c].mac \in Macs
    BY <2>1 DEF Packets
  <2>4. \/ UNCHANGED <<foe, missed>>
        \/ /\ foe' = [foe EXCEPT ![pkt[c].slot] = Entry("bind", pkt[c].key, pkt[c].to, pkt[c].mac)]
           /\ missed' \subseteq missed \cup {pkt[c].slot}
    BY <1>7 DEF Commit
  <2>5. TableOK'
    BY <1>1, <1>2, <2>3, <2>4, EntryTypes DEF TableOK, Bound
  <2> QED  BY <1>1, <1>2, <2>2, <2>5, Untouched, Parts
<1>8. CASE Transmit(c)
  <2> DEFINE s == pkt[c].slot
             e == foe[s]
             p == [pc |-> "bind", slot |-> s, key |-> e.key, to |-> flow[e.key].to,
                   mac |-> flow[e.key].mac]
  <2>1. pkt[c] \in Packets /\ UNCHANGED <<foe, missed>>
    BY <1>1, <1>8 DEF Transmit, Has, RestOK, ppe
  <2>2. s \in Slots /\ e \in Entries /\ (e.state = "unbind" => e.key \in Flows)
    BY <1>1, <2>1 DEF Packets, TableOK
  <2>3. /\ flow' = flow \/ flow' = [flow EXCEPT ![e.key] = None]
        /\ \/ pkt' = [pkt EXCEPT ![c] = None]
           \/ pkt' = [pkt EXCEPT ![c] = p] /\ e.state = "unbind" /\ flow[e.key] # None
    BY <1>8 DEF Transmit, Put
  <2>4. e.state = "unbind" /\ flow[e.key] # None => p \in Packets
    BY <1>1, <2>2 DEF RestOK, Packets
  <2> HIDE DEF p, e, s
  <2>5. RestOK'
    BY <1>1, <1>2, <2>3, <2>4 DEF RestOK
  <2> QED  BY <1>1, <1>2, <2>1, <2>5, Untouched, Parts
<1> QED  BY <1>6, <1>7, <1>8 DEF PacketStep

\* An entry prepared for the transmit hook gets old.
LEMMA FlowTypes == ASSUME TypeOK, NEW f \in Flows, FlowAges(f) PROVE TypeOK'
<1>1. TableOK /\ EventsOK /\ RestOK
  BY Parts
<1>2. /\ UNCHANGED <<foe, cache, sma, timer, neigh, updates, pkt, del, warm, missed, busy, left>>
      /\ flow' = [flow EXCEPT ![f] = None]
  BY DEF FlowAges, ppe
<1>3. RestOK'
  BY <1>1, <1>2 DEF RestOK
<1> QED  BY <1>1, <1>2, <1>3, Untouched, Parts

\* At the start.
LEMMA InitTypes == Init => TypeOK
<1> SUFFICES ASSUME Init PROVE TypeOK
  OBVIOUS
<1>1. TableOK
  BY EntryTypes DEF Init, TableOK, Bound
<1>2. neigh \in [Hosts -> Macs]
  BY BoundAssumption DEF Init
<1>3. EventsOK
  <2>1. /\ registered = TRUE /\ events = <<>> /\ pending = FALSE
        /\ work = [pos |-> 0, cnt |-> FALSE] /\ local = {}
    BY DEF Init, Idle
  <2>2. work \in [pos : 0..(NumSlots + 1), cnt : BOOLEAN]
    BY <2>1, Sizes
  <2>3. events \in Seq(Event) /\ Len(events) <= PendingMax
    BY <2>1, Sizes
  <2>4. local \subseteq Event /\ Cardinality(local) <= Budget
    BY <2>1, Sizes, FS_EmptySet
  <2>5. registered \in BOOLEAN /\ pending \in BOOLEAN
    BY <2>1
  <2> QED  BY <1>2, <2>2, <2>3, <2>4, <2>5 DEF EventsOK
<1>4. RestOK
  <2>1. /\ sma = "build" /\ timer = FALSE /\ flow = [f \in Flows |-> None]
        /\ pkt = [c \in Cpus |-> None] /\ del = None /\ warm = "idle" /\ busy = FALSE
        /\ left = MaxEvents
    BY DEF Init
  <2>2. left \in 0..MaxEvents
    BY <2>1, Sizes
  <2>3. timer \in BOOLEAN /\ busy \in BOOLEAN
    BY <2>1
  <2> QED  BY <2>1, <2>2, <2>3 DEF RestOK
<1> QED  BY <1>1, <1>3, <1>4, Parts

\* The next-state relation, by kinds of steps.
LEMMA Steps ==
    Next => \/ \E f \in Flows : Learn(f) \/ FlowAges(f)
            \/ \E s \in Slots : Age(s) \/ Load(s)
            \/ \E h \in Hosts, mac \in Macs, nud \in Nud : NeighUpdate(h, mac, nud)
            \/ \E mac \in Macs \cup {None} : StartDelete(mac) \/ DeleteStep \/ TimerFires
            \/ WorkStep
            \/ WarmStart \/ WarmStep
            \/ \E c \in Cpus, f \in Flows : FillWired(c, f) \/ FillWifi(c, f)
            \/ \E c \in Cpus : PacketStep(c)
BY DEF Next, PacketStep

\* Every step keeps the types.
LEMMA StepTypes == TypeOK /\ [Next]_vars => TypeOK'
<1>1. TypeOK /\ Next => TypeOK'
  BY Steps, LearnTypes, FlowTypes, SlotTypes, NeighTypes, DeletionTypes, WorkTypes, WarmTypes,
     FillTypes, PacketTypes
<1>2. TypeOK /\ UNCHANGED vars => TypeOK'
  BY DEF vars, TypeOK, ppe, updates, packets, Bound
<1> QED  BY <1>1, <1>2

\* The variables hold what the table of the PPE, the list of events and the threads of the
\* driver can hold; no batch of the handler is larger than NEIGH_PROCESS_BUDGET
\* (hnat_neigh_update_work_handler).
THEOREM OffloadTypes == Spec => []TypeOK
<1> QED  BY InitTypes, StepTypes, PTL DEF Spec

----------------------------------------------------------------------------
(* Bound entries.                                                           *)

\* What a step makes of an entry: nothing, a deleted one, one that is learnt or one that is
\* bound after it was learnt.
Becomes(s) ==
    \/ foe'[s] = foe[s]
    \/ foe'[s].state = "invalid"
    \/ foe[s].state = "invalid" /\ foe'[s].state = "unbind"
    \/ foe[s].state = "unbind" /\ foe'[s].state = "bind"

\* Only a call that deletes, the PPE and a packet that is committed change the table.
LEMMA EntrySteps == ASSUME TypeOK, Next, NEW s \in Slots PROVE Becomes(s)
<1>1. TableOK
  BY Parts
<1>2. ASSUME NEW S \in SUBSET Slots, Delete(S) PROVE Becomes(s)
  BY <1>1, <1>2, DeleteTypes DEF Becomes
<1>3. CASE \E f \in Flows : Learn(f)
  <2>1. PICK f \in Flows : Learn(f)
    BY <1>3
  <2>2. /\ SlotOf[f] \in Slots /\ foe' = [foe EXCEPT ![SlotOf[f]] = Entry("unbind", f, None, None)]
        /\ foe[SlotOf[f]].state = "invalid"
    BY <2>1, Sizes DEF Learn
  <2> QED  BY <1>1, <2>2, EntryTypes DEF TableOK, Becomes
<1>4. CASE \E q \in Slots : Age(q)
  <2>1. PICK q \in Slots : Age(q)
    BY <1>4
  <2> QED  BY <1>2, <2>1 DEF Age
<1>5. CASE DeleteSlot
  <2>1. del \in Deletion /\ del.pos \in Slots
    BY <1>5, Sizes, Parts DEF DeleteSlot, RestOK, Deletion, Slots
  <2> QED  BY <1>2, <1>5, <2>1 DEF DeleteSlot
<1>6. CASE WorkSlot
  BY <1>2, <1>6 DEF WorkSlot
<1>7. CASE WarmWipe
  BY <1>7, EntryTypes DEF WarmWipe, Becomes
<1>8. CASE \E c \in Cpus : Commit(c)
  <2>1. PICK c \in Cpus : Commit(c)
    BY <1>8
  <2>2. pkt[c] \in Packets /\ pkt[c].pc = "bind"
    BY <2>1, Parts DEF Commit, Has, RestOK
  <2>3. pkt[c].slot \in Slots /\ pkt[c].key \in Flows /\ pkt[c].to \in Flows /\ pkt[c].mac \in Macs
    BY <2>2 DEF Packets
  <2>4. \/ foe' = foe
        \/ /\ foe[pkt[c].slot].state = "unbind"
           /\ foe' = [foe EXCEPT ![pkt[c].slot] = Entry("bind", pkt[c].key, pkt[c].to, pkt[c].mac)]
    BY <2>1 DEF Commit
  <2> QED  BY <1>1, <2>3, <2>4, EntryTypes DEF TableOK, Becomes
<1>9. CASE foe' = foe
  BY <1>9 DEF Becomes
<1> QED
  BY <1>3, <1>4, <1>5, <1>6, <1>7, <1>8, <1>9
  DEF Next, WorkStep, DeleteStep, WarmStep, FlowAges, Load, NeighUpdate, StartDelete, EndDelete,
      TimerFires, WorkStart, WorkEnd, WarmStart, WarmClean, WarmCancel, WarmInit, WarmEnd,
      FillWired, FillWifi, Leave, Transmit, ppe

\* A bound entry is deleted before its slot is bound again (hnat_foe_entry_commit, behind the
\* final check of skb_to_hnat_info and mtk_sw_nat_hook_tx).
THEOREM BoundIsAlwaysLeft == Spec => BoundIsLeft
<1>1. TypeOK /\ [Next]_vars =>
          [\A s \in Slots : Bound(s) /\ foe'[s].state = "bind" => foe'[s] = foe[s]]_vars
  BY EntrySteps DEF Becomes, Bound
<1> QED  BY <1>1, OffloadTypes, PTL DEF Spec, BoundIsLeft

----------------------------------------------------------------------------
(* The cache of the PPE.                                                    *)

\* Whoever has deleted entries clears the cache in the end.
Clearing == work.cnt \/ (del # None /\ del.cnt) \/ warm = "init"

\* A step that leaves the cache and these alone, or only adds to them.
LEMMA CacheIdle ==
    ASSUME TypeOK, CacheFollows, UNCHANGED <<cache, busy>>, Clearing => Clearing',
           \A s \in Slots : Clearing' \/ foe'[s] = foe[s] \/ ~Bound(s)
    PROVE  CacheFollows'
<1>1. \A s \in Slots : cache[s] # None => cache[s].state = "bind"
  BY DEF TypeOK
<1> QED  BY <1>1 DEF CacheFollows, Clearing, Bound

\* A step that clears the cache if the scan behind it has deleted something.
LEMMA CacheCleared ==
    ASSUME TypeOK, CacheFollows, NEW cnt \in BOOLEAN, AfterScan(cnt) \/ CacheClear,
           foe' = foe, ~cnt /\ AfterScan(cnt) => (Clearing => Clearing')
    PROVE  CacheFollows'
<1>1. \/ busy'
      \/ \A s \in Slots : cache'[s] = None
      \/ UNCHANGED <<cache, busy>> /\ ~cnt /\ AfterScan(cnt)
  BY ClearTypes
<1> QED  BY <1>1, CacheIdle DEF CacheFollows

\* Every step keeps the cache right.
LEMMA CacheStep == ASSUME TypeOK, CacheFollows, Next PROVE CacheFollows'
<1>1. TableOK /\ EventsOK /\ RestOK
  BY Parts
<1>2. CASE \E f \in Flows : Learn(f)
  <2>1. PICK f \in Flows : Learn(f)
    BY <1>2
  <2>2. /\ SlotOf[f] \in Slots /\ foe' = [foe EXCEPT ![SlotOf[f]] = Entry("unbind", f, None, None)]
        /\ foe[SlotOf[f]].state = "invalid" /\ UNCHANGED <<cache, work, del, warm, busy>>
    BY <2>1, Sizes DEF Learn, updates
  <2>3. \A s \in Slots : foe'[s] = foe[s] \/ ~Bound(s)
    BY <1>1, <2>2 DEF TableOK, Bound
  <2> QED  BY <2>2, <2>3, CacheIdle DEF Clearing
<1>3. CASE \E s \in Slots : Age(s)
  <2>1. PICK q \in Slots : Age(q)
    BY <1>3
  <2>2. Delete({q}) /\ cache' = [cache EXCEPT ![q] = None] /\ UNCHANGED <<work, del, warm, busy>>
    BY <2>1 DEF Age, updates
  <2>3. \A s \in Slots : s # q => foe'[s] = foe[s]
    BY <1>1, <2>2, DeleteTypes
  <2> QED  BY <1>1, <2>2, <2>3 DEF CacheFollows, TableOK
<1>4. CASE \E s \in Slots : Load(s)
  <2>1. PICK q \in Slots : Load(q)
    BY <1>4
  <2>2. cache' = [cache EXCEPT ![q] = foe[q]] /\ UNCHANGED <<foe, work, del, warm, busy>>
    BY <2>1 DEF Load, updates
  <2> QED  BY <1>1, <2>2 DEF CacheFollows, TableOK
<1>5. CASE \E mac \in Macs \cup {None} : StartDelete(mac)
  <2>1. UNCHANGED <<foe, cache, work, warm, busy>> /\ del = None
    BY <1>5 DEF StartDelete, updates
  <2> QED  BY <2>1, CacheIdle DEF Clearing
<1>6. CASE DeleteSlot
  <2> DEFINE hit == Bound(del.pos) /\ del.mac \in {None, foe[del.pos].mac}
             S == IF hit THEN {del.pos} ELSE {}
  <2>1. /\ del \in Deletion /\ del.pos \in Slots /\ S \in SUBSET Slots /\ Delete(S)
        /\ del' = [del EXCEPT !.pos = @ + 1, !.cnt = @ \/ hit]
        /\ UNCHANGED <<cache, work, warm, busy>>
    BY <1>1, <1>6, Sizes DEF DeleteSlot, RestOK, Deletion, Slots, updates
  <2>2. del' # None
    BY <1>6, DeletionGoesOn, NoneAssumption
  <2>3. (del'.cnt <=> del.cnt \/ hit) /\ (~hit => S = {})
    BY <2>1 DEF Deletion
  <2>4. \A s \in Slots : s \notin S => foe'[s] = foe[s]
    <3> HIDE DEF S
    <3> QED  BY <1>1, <2>1, DeleteTypes
  <2> HIDE DEF hit, S
  <2> QED  BY <2>1, <2>2, <2>3, <2>4, CacheIdle DEF Clearing
<1>7. CASE EndDelete
  <2>1. /\ del.cnt \in BOOLEAN /\ AfterScan(del.cnt) /\ foe' = foe /\ UNCHANGED <<work, warm>>
    BY <1>1, <1>7 DEF EndDelete, RestOK, Deletion, updates
  <2>2. ~del.cnt => (Clearing => Clearing')
    BY <2>1 DEF Clearing
  <2> QED  BY <2>1, <2>2, CacheCleared
<1>8. CASE WorkStart
  <2>1. UNCHANGED <<foe, cache, del, warm, busy>> /\ ~work.cnt
    BY <1>8 DEF WorkStart, Idle, ppe
  <2> QED  BY <2>1, CacheIdle DEF Clearing
<1>9. CASE WorkSlot
  <2> DEFINE hit == Bound(work.pos) /\ \E u \in local :
                        Corrects(u, foe[work.pos].to, foe[work.pos].mac)
             S == IF hit THEN {work.pos} ELSE {}
  <2>1. /\ Delete(S) /\ S \in SUBSET Slots /\ UNCHANGED <<cache, del, warm, busy>>
        /\ work' = [pos |-> work.pos + 1, cnt |-> work.cnt \/ hit] /\ (~hit => S = {})
    BY <1>9 DEF WorkSlot
  <2> HIDE DEF hit, S
  <2>2. \A s \in Slots : s \notin S => foe'[s] = foe[s]
    BY <1>1, <2>1, DeleteTypes
  <2> QED  BY <2>1, <2>2, CacheIdle DEF Clearing
<1>10. CASE WorkEnd
  <2>1. /\ work.cnt \in BOOLEAN /\ AfterScan(work.cnt) /\ foe' = foe /\ UNCHANGED <<del, warm>>
    BY <1>1, <1>10 DEF WorkEnd, EventsOK
  <2>2. ~work.cnt => (Clearing => Clearing')
    BY <2>1 DEF Clearing
  <2> QED  BY <2>1, <2>2, CacheCleared
<1>11. CASE WarmWipe
  <2>1. warm' = "init" /\ UNCHANGED <<cache, work, del, busy>>
    BY <1>11 DEF WarmWipe, updates
  <2> QED  BY <2>1, CacheIdle DEF Clearing
<1>12. CASE WarmInit
  <2>1. CacheClear /\ foe' = foe
    BY <1>12 DEF WarmInit
  <2> QED  BY <2>1, ClearTypes DEF CacheFollows
<1>13. CASE \E c \in Cpus : Commit(c)
  <2>1. UNCHANGED <<cache, work, del, warm, busy>>
    BY <1>13 DEF Commit, updates
  <2>2. \A s \in Slots : foe'[s] = foe[s] \/ ~Bound(s)
    <3>1. \A s \in Slots : foe'[s] = foe[s] \/ foe[s].state = "unbind"
      <4>1. PICK c \in Cpus : Commit(c)
        BY <1>13
      <4>2. \/ foe' = foe
            \/ /\ foe[pkt[c].slot].state = "unbind"
               /\ foe' = [foe EXCEPT ![pkt[c].slot] =
                              Entry("bind", pkt[c].key, pkt[c].to, pkt[c].mac)]
        BY <4>1 DEF Commit
      <4> QED  BY <1>1, <4>2 DEF TableOK
    <3> QED  BY <3>1 DEF Bound
  <2> QED  BY <2>1, <2>2, CacheIdle DEF Clearing
<1>14. CASE WarmStart \/ WarmClean \/ WarmCancel \/ WarmEnd
  <2>1. UNCHANGED <<foe, cache, work, del, busy>> /\ warm # "init"
    BY <1>14 DEF WarmStart, WarmClean, WarmCancel, WarmEnd, updates, ppe
  <2> QED  BY <2>1, CacheIdle DEF Clearing
<1>15. CASE UNCHANGED <<foe, cache, work, del, warm, busy>>
  BY <1>15, CacheIdle DEF Clearing
<1> QED
  <2>1. CASE UNCHANGED <<ppe, work, del, warm, busy>>
    BY <1>15, <2>1 DEF ppe
  <2>2. \A f \in Flows : FlowAges(f) => UNCHANGED <<ppe, work, del, warm, busy>>
    BY DEF FlowAges, updates
  <2>3. \A h \in Hosts, mac \in Macs, nud \in Nud :
            NeighUpdate(h, mac, nud) => UNCHANGED <<ppe, work, del, warm, busy>>
    BY DEF NeighUpdate
  <2>4. TimerFires => UNCHANGED <<foe, cache, work, del, warm, busy>>
    BY DEF TimerFires, updates
  <2>5. \A c \in Cpus : /\ Leave(c) \/ Transmit(c) => UNCHANGED <<ppe, work, del, warm, busy>>
                        /\ \A f \in Flows : FillWired(c, f) \/ FillWifi(c, f) =>
                                  UNCHANGED <<ppe, work, del, warm, busy>>
    BY DEF Leave, Transmit, FillWired, FillWifi, updates
  <2> QED
    BY <1>2, <1>3, <1>4, <1>5, <1>6, <1>7, <1>8, <1>9, <1>10, <1>11, <1>12, <1>13, <1>14, <1>15,
       <2>1, <2>2, <2>3, <2>4, <2>5
    DEF Next, WorkStep, DeleteStep, WarmStep

\* The hardware does not go on with an entry that was deleted, unless it never becomes idle
\* (hnat_cache_clr, behind every scan that deletes and in hnat_hw_init).
THEOREM CacheAlwaysFollows == Spec => []CacheFollows
<1>1. Init => CacheFollows
  BY DEF Init, CacheFollows
<1>2. TypeOK /\ CacheFollows /\ [Next]_vars => CacheFollows'
  <2>1. ASSUME CacheFollows, UNCHANGED vars PROVE CacheFollows'
    BY <2>1 DEF vars, CacheFollows, ppe, updates
  <2> QED  BY <2>1, CacheStep
<1> QED  BY <1>1, <1>2, OffloadTypes, PTL DEF Spec

----------------------------------------------------------------------------
(* Paths to neighbours.                                                     *)

\* An entry that was bound and not missed, and still is, was there before.
Stays(s) == foe'[s].state = "bind" /\ s \notin missed' => foe'[s] = foe[s] /\ s \notin missed

\* A step that changes neither the neighbours nor what is queued.
LEMMA PathIdle ==
    ASSUME NoStalePath, UNCHANGED <<neigh, events, work, local, warm>>, \A s \in Slots : Stays(s)
    PROVE  NoStalePath'
BY DEF NoStalePath, Bound, Stays, Stale, Queued, Corrects

\* A step that leaves the table and the neighbours, and forgets nothing that is queued.
LEMMA PathQueued ==
    ASSUME NoStalePath, UNCHANGED <<foe, missed, neigh>>,
           \A s \in Slots, to \in Flows, mac \in Macs :
               Queued(s, to, mac) => warm' \in {"clean", "cancel", "wipe"} \/
                   (\E i \in DOMAIN events' : Corrects(events'[i], to, mac)) \/
                   (work'.pos \in 1..s /\ \E e \in local' : Corrects(e, to, mac)),
           TypeOK
    PROVE  NoStalePath'
<1>1. \A s \in Slots : Bound(s) => foe[s].to \in Flows /\ foe[s].mac \in Macs
  BY DEF TypeOK
<1>2. SUFFICES ASSUME NEW s \in Slots, s \notin missed, foe[s].state = "bind",
                      foe[s].to \in Direct, foe[s].mac # neigh[HostOf[foe[s].to]]
               PROVE  warm' \in {"clean", "cancel", "wipe"} \/
                      (\E i \in DOMAIN events' : Corrects(events'[i], foe[s].to, foe[s].mac)) \/
                      (work'.pos \in 1..s /\ \E e \in local' : Corrects(e, foe[s].to, foe[s].mac))
  BY DEF NoStalePath, Bound, Stale, Queued, Corrects
<1>3. Queued(s, foe[s].to, foe[s].mac)
  BY <1>2 DEF NoStalePath, Bound, Stale
<1> QED  BY <1>1, <1>2, <1>3 DEF Bound

\* Only the commit of a packet makes entries that are bound and not missed.
LEMMA StaysSteps ==
    ASSUME TypeOK, Next, ~ \E c \in Cpus : Commit(c), NEW s \in Slots
    PROVE  Stays(s)
<1>1. TableOK
  BY Parts
<1>2. ASSUME NEW S \in SUBSET Slots, Delete(S) PROVE Stays(s)
  BY <1>1, <1>2, DeleteTypes DEF Stays
<1>3. CASE \E f \in Flows : Learn(f)
  <2>1. foe'[s] = foe[s] \/ foe'[s].state = "unbind"
    <3>1. PICK f \in Flows : Learn(f)
      BY <1>3
    <3>2. foe' = [foe EXCEPT ![SlotOf[f]] = Entry("unbind", f, None, None)]
      BY <3>1 DEF Learn
    <3> QED  BY <1>1, <3>2, EntryTypes DEF TableOK
  <2> QED  BY <1>3, <2>1 DEF Learn, Stays
<1>4. CASE \E q \in Slots : Age(q)
  BY <1>2, <1>4 DEF Age
<1>5. CASE DeleteSlot
  <2>1. del \in Deletion /\ del.pos \in Slots
    BY <1>5, Sizes, Parts DEF DeleteSlot, RestOK, Deletion, Slots
  <2> QED  BY <1>2, <1>5, <2>1 DEF DeleteSlot
<1>6. CASE WorkSlot
  BY <1>2, <1>6 DEF WorkSlot
<1>7. CASE WarmWipe
  BY <1>7, EntryTypes DEF WarmWipe, Stays
<1>8. CASE foe' = foe /\ missed \subseteq missed'
  BY <1>8 DEF Stays
<1>9. ASSUME NEW h \in Hosts, NEW mac \in Macs, NEW nud \in Nud, NeighUpdate(h, mac, nud)
      PROVE  foe' = foe /\ missed \subseteq missed'
  BY <1>9 DEF NeighUpdate, NetEvent, ppe
<1> QED
  BY <1>3, <1>4, <1>5, <1>6, <1>7, <1>8, <1>9
  DEF Next, WorkStep, DeleteStep, WarmStep, FlowAges, Load, StartDelete, EndDelete,
      TimerFires, WorkStart, WorkEnd, WarmStart, WarmClean, WarmCancel, WarmInit, WarmEnd,
      FillWired, FillWifi, Leave, Transmit, ppe

\* The kernel's news of a neighbour: an event corrects what it makes stale, or it is missed.
LEMMA PathNeigh ==
    ASSUME TypeOK, NoStalePath, NEW h \in Hosts, NEW mac \in Macs, NEW nud \in Nud,
           NeighUpdate(h, mac, nud)
    PROVE  NoStalePath'
<1> DEFINE e == [host |-> h, mac |-> mac, failed |-> nud = "failed"]
<1>1. /\ neigh \in [Hosts -> Macs] /\ neigh' = [neigh EXCEPT ![h] = mac]
      /\ UNCHANGED <<foe, work, local, warm>>
      /\ \/ events' = Append(events, e) /\ missed' = missed
         \/ /\ events' = events
            /\ missed' = missed \cup
                  {s \in Slots : /\ Bound(s) /\ Corrects(e, foe[s].to, foe[s].mac)
                                 /\ ~Queued(s, foe[s].to, foe[s].mac)}
  BY DEF NeighUpdate, NetEvent, Enqueue, ppe, TypeOK
<1>2. e.host = h /\ e.mac = mac
  OBVIOUS
<1>3. events \in Seq(Event) /\ \A s \in Slots : Bound(s) => foe[s].to \in Flows
  BY DEF TypeOK
<1> HIDE DEF e
<1>4. SUFFICES ASSUME NEW s \in Slots, s \notin missed', foe[s].state = "bind",
                      foe[s].to \in Direct, foe[s].mac # neigh'[HostOf[foe[s].to]]
               PROVE  warm \in {"clean", "cancel", "wipe"} \/
                      (\E i \in DOMAIN events' : Corrects(events'[i], foe[s].to, foe[s].mac)) \/
                      (work.pos \in 1..s /\ \E u \in local : Corrects(u, foe[s].to, foe[s].mac))
  BY <1>1 DEF NoStalePath, Bound, Stale, Queued, Corrects
<1> DEFINE x == foe[s]
<1>5. /\ HostOf[x.to] \in Hosts /\ s \notin missed /\ Bound(s)
  BY <1>1, <1>3, <1>4, Sizes DEF Bound
<1>6. Corrects(e, x.to, x.mac) \/ Queued(s, x.to, x.mac)
  <2>1. CASE HostOf[x.to] = h
    <3>1. neigh'[HostOf[x.to]] = mac
      BY <1>1, <2>1
    <3> QED  BY <1>2, <1>4, <2>1, <3>1 DEF Corrects
  <2>2. CASE HostOf[x.to] # h
    <3>1. neigh'[HostOf[x.to]] = neigh[HostOf[x.to]]
      BY <1>1, <1>5, <2>2
    <3> QED  BY <1>4, <1>5, <3>1 DEF NoStalePath, Stale
  <2> QED  BY <2>1, <2>2
<1>7. CASE Queued(s, x.to, x.mac)
  <2>1. \A i \in DOMAIN events : i \in DOMAIN events' /\ events'[i] = events[i]
    BY <1>1, <1>3
  <2> HIDE DEF x
  <2> QED  BY <1>7, <2>1 DEF Queued, x
<1>8. CASE Corrects(e, x.to, x.mac) /\ ~Queued(s, x.to, x.mac)
  <2>1. events' = Append(events, e)
    BY <1>1, <1>4, <1>5, <1>8
  <2>2. Len(events) + 1 \in DOMAIN events' /\ events'[Len(events) + 1] = e
    BY <1>3, <2>1
  <2> QED  BY <1>8, <2>2
<1> QED  BY <1>6, <1>7, <1>8

\* The handler takes its batch along the table, and leaves the rest on the list.
LEMMA PathWork == ASSUME TypeOK, NoStalePath, WorkStep PROVE NoStalePath'
<1>1. TableOK /\ EventsOK
  BY Parts
<1>2. CASE WorkStart
  <2>1. /\ work.pos = 0 /\ work'.pos = 1 /\ local' = {events[i] : i \in 1..Batch}
        /\ events' = SubSeq(events, Batch + 1, Len(events))
        /\ UNCHANGED <<foe, missed, neigh, warm>>
    BY <1>2 DEF WorkStart, Idle, ppe
  <2>2. /\ Batch \in Nat /\ Batch <= Len(events) /\ events \in Seq(Event)
        /\ Len(events') = Len(events) - Batch /\ events' \in Seq(Event)
        /\ \A i \in 1..Len(events') : events'[i] = events[i + Batch]
    BY <1>1, <2>1, BatchTypes DEF EventsOK
  <2>3. ASSUME NEW s \in Slots, NEW to \in Flows, NEW mac \in Macs, Queued(s, to, mac)
        PROVE  warm' \in {"clean", "cancel", "wipe"} \/
               (\E i \in DOMAIN events' : Corrects(events'[i], to, mac)) \/
               (work'.pos \in 1..s /\ \E e \in local' : Corrects(e, to, mac))
    <3>1. CASE \E i \in DOMAIN events : Corrects(events[i], to, mac)
      <4>1. PICK i \in 1..Len(events) : Corrects(events[i], to, mac)
        BY <2>2, <3>1
      <4>2. CASE i <= Batch
        <5>1. events[i] \in local'
          BY <2>1, <2>2, <4>1, <4>2
        <5> QED  BY <2>1, <4>1, <5>1, Sizes
      <4>3. CASE i > Batch
        <5>1. i - Batch \in 1..Len(events') /\ (i - Batch) + Batch = i
          BY <2>2, <4>1, <4>3
        <5>2. events'[i - Batch] = events[i]
          BY <2>2, <5>1
        <5>3. DOMAIN events' = 1..Len(events')
          BY <2>2
        <5> QED  BY <4>1, <5>1, <5>2, <5>3
      <4> QED  BY <2>2, <4>1, <4>2, <4>3
    <3>2. work.pos \notin 1..s /\ warm' = warm
      BY <2>1, Sizes
    <3>3. \/ \E i \in DOMAIN events : Corrects(events[i], to, mac)
          \/ warm \in {"clean", "cancel", "wipe"}
      BY <2>3, <3>2 DEF Queued
    <3> QED  BY <3>1, <3>2, <3>3
  <2> QED  BY <2>1, <2>3, PathQueued
<1>3. CASE WorkSlot
  <2> DEFINE hit == Bound(work.pos) /\ \E u \in local :
                        Corrects(u, foe[work.pos].to, foe[work.pos].mac)
             S == IF hit THEN {work.pos} ELSE {}
  <2>1. /\ Delete(S) /\ S \in SUBSET Slots /\ UNCHANGED <<neigh, events, local, warm>>
        /\ work'.pos = work.pos + 1 /\ work.pos \in Int /\ (hit => work.pos \in S)
    BY <1>1, <1>3 DEF WorkSlot, EventsOK
  <2> HIDE DEF S
  <2>2. /\ missed' = missed \ S
        /\ \A s \in Slots : IF s \in S THEN foe'[s].state = "invalid" ELSE foe'[s] = foe[s]
    BY <1>1, <2>1, DeleteTypes
  <2>3. SUFFICES ASSUME NEW s \in Slots, s \notin missed', foe'[s].state = "bind",
                        foe'[s].to \in Direct, foe'[s].mac # neigh[HostOf[foe'[s].to]]
                 PROVE  warm \in {"clean", "cancel", "wipe"} \/
                        (\E i \in DOMAIN events : Corrects(events[i], foe'[s].to, foe'[s].mac)) \/
                        (work'.pos \in 1..s /\
                            \E e \in local : Corrects(e, foe'[s].to, foe'[s].mac))
    BY <2>1 DEF NoStalePath, Bound, Stale, Queued, Corrects
  <2>4. foe'[s] = foe[s] /\ s \notin S /\ s \notin missed /\ Bound(s)
    BY <2>2, <2>3 DEF Bound
  <2>5. Queued(s, foe[s].to, foe[s].mac)
    BY <2>3, <2>4 DEF NoStalePath, Stale
  <2>6. s # work.pos \/ ~ \E u \in local : Corrects(u, foe[s].to, foe[s].mac)
    BY <2>1, <2>4
  <2> HIDE DEF hit
  <2> QED  BY <2>1, <2>4, <2>5, <2>6, Sizes DEF Queued
<1>4. CASE WorkEnd
  <2>1. /\ work.pos > NumSlots /\ work.pos \in Int
        /\ UNCHANGED <<foe, missed, neigh, events, warm>>
    BY <1>1, <1>4 DEF WorkEnd, EventsOK
  <2>2. \A s \in Slots : work.pos \notin 1..s
    BY <2>1, Sizes
  <2> QED  BY <2>1, <2>2, PathQueued DEF Queued
<1> QED  BY <1>2, <1>3, <1>4 DEF WorkStep

\* The warm init drops events, but not before all entries are going to be wiped.
LEMMA PathWarm == ASSUME TypeOK, NoStalePath, WarmStart \/ WarmStep PROVE NoStalePath'
<1>1. CASE WarmStart \/ WarmClean \/ WarmCancel
  <2>1. UNCHANGED <<foe, missed, neigh>> /\ warm' \in {"clean", "cancel", "wipe"}
    BY <1>1 DEF WarmStart, WarmClean, WarmCancel, ppe
  <2> QED  BY <2>1, PathQueued
<1>2. CASE WarmWipe
  BY <1>2, EntryTypes DEF WarmWipe, NoStalePath, Bound
<1>3. CASE WarmInit \/ WarmEnd
  <2>1. /\ UNCHANGED <<foe, missed, neigh, events, work, local>>
        /\ warm \notin {"clean", "cancel", "wipe"}
    BY <1>3 DEF WarmInit, WarmEnd, ppe, updates
  <2> QED  BY <2>1, PathQueued DEF Queued
<1> QED  BY <1>1, <1>2, <1>3 DEF WarmStep

\* A packet is committed with the address that it found, late as it may be.
LEMMA PathCommit == ASSUME TypeOK, NoStalePath, NEW c \in Cpus, Commit(c) PROVE NoStalePath'
<1> DEFINE p == pkt[c]
<1>1. UNCHANGED <<neigh, events, work, local, warm>>
  BY DEF Commit, updates
<1>2. foe \in [Slots -> Entries] /\ p \in Packets /\ p.pc = "bind"
  BY DEF TypeOK, Commit, Has
<1>3. p.slot \in Slots /\ p.key \in Flows /\ p.to \in Flows /\ p.mac \in Macs
  BY <1>2 DEF Packets
<1>4. CASE UNCHANGED <<foe, missed>>
  BY <1>1, <1>4, PathIdle DEF Stays
<1>5. CASE /\ foe' = [foe EXCEPT ![p.slot] = Entry("bind", p.key, p.to, p.mac)]
           /\ missed' = IF Stale(p.to, p.mac) /\ ~Queued(p.slot, p.to, p.mac)
                        THEN missed \cup {p.slot} ELSE missed \ {p.slot}
  <2> HIDE DEF p
  <2>1. foe'[p.slot].to = p.to /\ foe'[p.slot].mac = p.mac
    BY <1>2, <1>3, <1>5, EntryTypes
  <2>2. \A s \in Slots : s # p.slot => foe'[s] = foe[s] /\ (s \in missed' <=> s \in missed)
    BY <1>2, <1>5
  <2>3. p.slot \notin missed' => (Stale(p.to, p.mac) => Queued(p.slot, p.to, p.mac))
    BY <1>5
  <2> QED  BY <1>1, <2>1, <2>2, <2>3 DEF NoStalePath, Bound, Stale, Queued, Corrects
<1> QED  BY <1>4, <1>5 DEF Commit

\* Every step keeps the paths right.
LEMMA PathStep == ASSUME TypeOK, NoStalePath, Next PROVE NoStalePath'
<1>1. CASE UNCHANGED <<neigh, events, work, local, warm>> /\ ~ \E c \in Cpus : Commit(c)
  BY <1>1, StaysSteps, PathIdle
<1>2. CASE \E c \in Cpus : Commit(c)
  BY <1>2, PathCommit
<1>3. CASE \E h \in Hosts, mac \in Macs, nud \in Nud : NeighUpdate(h, mac, nud)
  BY <1>3, PathNeigh
<1>4. CASE WorkStep \/ WarmStart \/ WarmStep
  BY <1>4, PathWork, PathWarm
<1>5. ASSUME NEW c \in Cpus, NEW f \in Flows,
             Leave(c) \/ Transmit(c) \/ FillWired(c, f) \/ FillWifi(c, f)
      PROVE  UNCHANGED <<neigh, events, work, local, warm>>
  BY <1>5 DEF Leave, Transmit, FillWired, FillWifi, updates
<1>6. ASSUME NEW f \in Flows, Learn(f) \/ FlowAges(f)
      PROVE  UNCHANGED <<neigh, events, work, local, warm>>
  BY <1>6 DEF Learn, FlowAges, updates
<1>7. ASSUME NEW s \in Slots, Age(s) \/ Load(s)
      PROVE  UNCHANGED <<neigh, events, work, local, warm>>
  BY <1>7 DEF Age, Load, updates
<1>8. ASSUME NEW mac \in Macs \cup {None}, StartDelete(mac)
      PROVE  UNCHANGED <<neigh, events, work, local, warm>>
  BY <1>8 DEF StartDelete, updates
<1>9. ASSUME NEW c \in Cpus, Leave(c) \/ Transmit(c)
      PROVE  UNCHANGED <<neigh, events, work, local, warm>>
  BY <1>9 DEF Leave, Transmit, updates
<1>10. DeleteStep \/ TimerFires => UNCHANGED <<neigh, events, work, local, warm>>
  BY DEF DeleteStep, DeleteSlot, EndDelete, TimerFires, updates
<1> QED  BY <1>1, <1>2, <1>3, <1>4, <1>5, <1>6, <1>7, <1>8, <1>9, <1>10 DEF Next

\* The hardware sends nothing to an address that a neighbour has given up, unless the driver
\* was not told or an event that removes the entry is under way: none is lost by the list,
\* the budget, a scan that has begun or a reset (hnat_neigh_update_work_handler,
\* foe_clear_entry, hnat_warm_init).
THEOREM NoPathIsEverStale == Spec => []NoStalePath
<1>1. Init => NoStalePath
  <2> SUFFICES ASSUME Init PROVE NoStalePath
    OBVIOUS
  <2>1. \A s \in Slots : ~Bound(s)
    BY EntryTypes DEF Init, Bound
  <2> QED  BY <2>1 DEF NoStalePath
<1>2. TypeOK /\ NoStalePath /\ [Next]_vars => NoStalePath'
  <2>1. ASSUME NoStalePath, UNCHANGED vars PROVE NoStalePath'
    BY <2>1, PathIdle DEF vars, ppe, updates, Stays
  <2> QED  BY <2>1, PathStep
<1> QED  BY <1>1, <1>2, OffloadTypes, PTL DEF Spec

=============================================================================
