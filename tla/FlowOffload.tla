----------------------------- MODULE FlowOffload -----------------------------
(***************************************************************************)
(* The hardware NAT driver mtk_hnat (Linux 5.4): how flows get into the      *)
(* table of the packet processing engine (PPE), and how they get out of it   *)
(* when a neighbour gets another address, a device goes down, a station      *)
(* roams or the frame engine is reset.                                       *)
(*                                                                          *)
(* One PPE.  An entry of its table is INVALID, UNBIND (the hardware has seen *)
(* a flow) or BIND (the driver has filled in what to do with it, and the     *)
(* hardware forwards the flow alone).  Packets are handled by several CPUs;  *)
(* a step is what one of them does under a lock, or between two looks at     *)
(* the table.  Headers are abstracted to the flow they belong to.            *)
(***************************************************************************)
EXTENDS Integers, Sequences, FiniteSets

CONSTANTS
    Cpus,
    Flows,
    NumSlots,     \* foe_etry_num
    SlotOf,       \* the hash of a flow
    HostOf,       \* the next hop of a flow
    Direct,       \* flows to the next hop itself, not to what lies behind it
    Macs,
    Budget,       \* NEIGH_PROCESS_BUDGET
    PendingMax,   \* pending_max
    None,
    MaxEvents     \* bound: updates of neighbours, deletions, resets, cache timeouts

Slots == 1..NumSlots
Hosts == {HostOf[f] : f \in Flows}

ASSUME SizeAssumption  == NumSlots \in Nat /\ Budget \in Nat \ {0} /\ PendingMax \in Nat
ASSUME FlowAssumption  == SlotOf \in [Flows -> Slots] /\ Direct \subseteq Flows
ASSUME BoundAssumption == MaxEvents \in Nat /\ Macs # {}

\* A call that deletes entries: those with an address or all, from this slot on, and
\* whether it has deleted any.
Deletion == [mac : Macs \cup {None}, pos : 1..(NumSlots + 1), cnt : BOOLEAN]

ASSUME NoneAssumption == None \notin Deletion

VARIABLES
    \* the PPE: its table, what its cache holds of it, whether it builds entries
    foe, cache, sma,
    timer,              \* hnat_sma_build_entry_timer is armed
    neigh,              \* the address of every neighbour, as the kernel knows it
    \* neigh_update: list, delayed work, and how far the handler is
    registered, events, pending, work, local,
    flow,               \* foe_flow: entries prepared for the Wi-Fi transmit hook
    pkt,                \* the packet each CPU has in hand
    del,                \* a call that deletes entries
    warm,               \* where hnat_warm_init is
    \* history and bound
    missed,             \* bound entries whose neighbour changed unnoticed
    busy,               \* the PPE did not become idle for the cache to be cleared
    left

ppe     == <<foe, cache, sma>>
updates == <<registered, events, pending, work, local>>
packets == <<flow, pkt>>
vars    == <<ppe, timer, neigh, updates, packets, del, warm, missed, busy, left>>

Nud   == {"connected", "stale", "failed"}
Event == [host : Hosts, mac : Macs, failed : BOOLEAN]
Entries == [state : {"invalid", "unbind", "bind"}, key : Flows \cup {None},
            to : Flows \cup {None}, mac : Macs \cup {None}]
Packets == [pc : {"tx"}, slot : Slots] \cup
           [pc : {"bind"}, slot : Slots, key : Flows, to : Flows, mac : Macs]

\* key is the flow the hardware recognises, to the one whose headers are written.
Entry(state, key, to, mac) == [state |-> state, key |-> key, to |-> to, mac |-> mac]
Empty == Entry("invalid", None, None, None)

Bound(s) == foe[s].state = "bind"
Idle == [pos |-> 0, cnt |-> FALSE]

Spend == left > 0 /\ left' = left - 1

\* __entry_delete, and the hardware: the rest of the entry stays, and only its key is
\* looked at again.
Delete(S) ==
    /\ foe' = [s \in Slots |-> IF s \in S THEN Entry("invalid", foe[s].key, None, None) ELSE foe[s]]
    /\ missed' = missed \ S

----------------------------------------------------------------------------
(* The PPE (external).                                                      *)

\* Packets of a flow that the table does not know.
Learn(f) ==
    /\ sma = "build"
    /\ foe[SlotOf[f]].state = "invalid"
    /\ foe' = [foe EXCEPT ![SlotOf[f]] = Entry("unbind", f, None, None)]
    /\ UNCHANGED <<cache, sma, timer, neigh, updates, packets, del, warm, missed, busy, left>>

\* No packet for a while, or the end of a connection.
Age(s) ==
    /\ foe[s].state # "invalid"
    /\ Delete({s})
    /\ cache' = [cache EXCEPT ![s] = None]
    /\ UNCHANGED <<sma, timer, neigh, updates, packets, del, warm, busy, left>>

Load(s) ==
    /\ Bound(s)
    /\ cache[s] = None
    /\ cache' = [cache EXCEPT ![s] = foe[s]]
    /\ UNCHANGED <<foe, sma, timer, neigh, updates, packets, del, warm, missed, busy, left>>

----------------------------------------------------------------------------
(* Deleting entries.                                                        *)

\* hnat_cache_clr, which gives up when the PPE is not idle after ten tries.
CacheClear ==
    \/ cache' = [s \in Slots |-> None] /\ UNCHANGED <<busy, left>>
    \/ Spend /\ busy' = TRUE /\ UNCHANGED cache

\* "clear HWNAT cache" behind a scan of the table, if it has deleted something.
AfterScan(cnt) == IF cnt THEN CacheClear ELSE UNCHANGED <<cache, busy, left>>

\* foe_clear_all_bind_entries (a device goes down, the Wi-Fi driver) and
\* entry_delete_by_mac (a station roams): no more entries are built for three
\* seconds in the first case.
StartDelete(mac) ==
    /\ del = None
    /\ Spend
    /\ del' = [mac |-> mac, pos |-> 1, cnt |-> FALSE]
    /\ sma' = IF mac = None THEN "fwd" ELSE sma
    /\ UNCHANGED <<foe, cache, timer, neigh, updates, packets, warm, missed, busy>>

DeleteSlot ==
    /\ del # None /\ del.pos <= NumSlots
    /\ LET hit == Bound(del.pos) /\ del.mac \in {None, foe[del.pos].mac}
       IN  /\ Delete(IF hit THEN {del.pos} ELSE {})
           /\ del' = [del EXCEPT !.pos = @ + 1, !.cnt = @ \/ hit]
    /\ UNCHANGED <<cache, sma, timer, neigh, updates, packets, warm, busy, left>>

EndDelete ==
    /\ del # None /\ del.pos > NumSlots
    /\ AfterScan(del.cnt)
    /\ timer' = (timer \/ del.mac = None)
    /\ del' = None
    /\ UNCHANGED <<foe, sma, neigh, updates, packets, warm, missed>>

\* hnat_sma_build_entry
TimerFires ==
    /\ timer
    /\ timer' = FALSE
    /\ sma' = "build"
    /\ UNCHANGED <<foe, cache, neigh, updates, packets, del, warm, missed, busy, left>>

----------------------------------------------------------------------------
(* Neighbours.                                                              *)

\* foe_clear_entry: the entries to the neighbour itself, with another address or
\* with any if it does not answer.
Corrects(e, to, mac) == to \in Direct /\ e.host = HostOf[to] /\ (e.failed \/ e.mac # mac)

\* Something is under way that removes an entry in slot s with this address.
Queued(s, to, mac) ==
    \/ \E i \in DOMAIN events : Corrects(events[i], to, mac)
    \/ work.pos \in 1..s /\ \E e \in local : Corrects(e, to, mac)
    \/ warm \in {"clean", "cancel", "wipe"}

Stale(to, mac) == to \in Direct /\ mac # neigh[HostOf[to]]

Enqueue(e) == events' = Append(events, e) /\ pending' = TRUE

\* nf_hnat_netevent_handler: told of an address that is confirmed or failed, when
\* there is room (and memory) for the event.
NetEvent(e, nud) ==
    \/ /\ registered /\ nud # "stale" /\ Len(events) < PendingMax
       /\ Enqueue(e)
       /\ UNCHANGED missed
    \/ /\ ~registered \/ nud = "stale" \/ Len(events) >= PendingMax
       /\ missed' = missed \cup {s \in Slots : /\ Bound(s) /\ Corrects(e, foe[s].to, foe[s].mac)
                                               /\ ~Queued(s, foe[s].to, foe[s].mac)}
       /\ UNCHANGED <<events, pending>>

\* The kernel (external) learns or confirms an address, gets no answer, or takes an
\* address from a packet that it has not asked for.
NeighUpdate(h, mac, nud) ==
    /\ Spend
    /\ nud = "failed" => mac = neigh[h]
    /\ nud = "stale" => mac # neigh[h]
    /\ neigh' = [neigh EXCEPT ![h] = mac]
    /\ NetEvent([host |-> h, mac |-> mac, failed |-> nud = "failed"], nud)
    /\ UNCHANGED <<ppe, timer, registered, work, local, packets, del, warm, busy>>

\* Mutant: off by one in the budget.
Batch_OneMore == IF Len(events) <= Budget THEN Len(events) ELSE Budget + 1
\* hnat_neigh_update_work_handler: "Process only a limited number of entries at once".
Batch == IF Len(events) <= Budget THEN Len(events) ELSE Budget

\* Mutant: what is over the budget is freed with the rest.
WorkStart_DropRest ==
    /\ pending /\ work = Idle
    /\ local' = {events[i] : i \in 1..Batch}
    /\ events' = <<>>
    /\ pending' = FALSE
    /\ work' = [pos |-> 1, cnt |-> FALSE]
    /\ UNCHANGED <<ppe, timer, neigh, registered, packets, del, warm, missed, busy, left>>
WorkStart ==
    /\ pending /\ work = Idle
    /\ local' = {events[i] : i \in 1..Batch}
    /\ events' = SubSeq(events, Batch + 1, Len(events))
    /\ pending' = FALSE
    /\ work' = [pos |-> 1, cnt |-> FALSE]
    /\ UNCHANGED <<ppe, timer, neigh, registered, packets, del, warm, missed, busy, left>>

\* Mutant: the counter of deleted entries starts again at every slot.
WorkSlot_CountReset ==
    /\ work.pos \in Slots
    /\ LET e == foe[work.pos]
           hit == Bound(work.pos) /\ \E u \in local : Corrects(u, e.to, e.mac)
       IN  /\ Delete(IF hit THEN {work.pos} ELSE {})
           /\ work' = [pos |-> work.pos + 1, cnt |-> hit]
    /\ UNCHANGED <<cache, sma, timer, neigh, registered, events, pending, local, packets, del,
                   warm, busy, left>>
WorkSlot ==
    /\ work.pos \in Slots
    /\ LET e == foe[work.pos]
           hit == Bound(work.pos) /\ \E u \in local : Corrects(u, e.to, e.mac)
       IN  /\ Delete(IF hit THEN {work.pos} ELSE {})
           /\ work' = [pos |-> work.pos + 1, cnt |-> work.cnt \/ hit]
    /\ UNCHANGED <<cache, sma, timer, neigh, registered, events, pending, local, packets, del,
                   warm, busy, left>>

\* Mutant: what was over the budget waits for the next event.
WorkEnd_NoReschedule ==
    /\ work.pos > NumSlots
    /\ AfterScan(work.cnt)
    /\ work' = Idle /\ local' = {}
    /\ UNCHANGED <<foe, sma, timer, neigh, registered, events, pending, packets, del, warm,
                   missed>>
\* "reschedule if new update event added during handling"
WorkEnd ==
    /\ work.pos > NumSlots
    /\ AfterScan(work.cnt)
    /\ work' = Idle /\ local' = {}
    /\ pending' = (pending \/ events # <<>>)
    /\ UNCHANGED <<foe, sma, timer, neigh, registered, events, packets, del, warm, missed>>

----------------------------------------------------------------------------
(* hnat_warm_init, at the end of a reset of the frame engine.               *)

WarmStart ==
    /\ warm = "idle"
    /\ Spend
    /\ registered' = FALSE
    /\ warm' = "clean"
    /\ UNCHANGED <<ppe, timer, neigh, events, pending, work, local, packets, del, missed, busy>>

\* hnat_neigh_update_cleanup; a handler that runs is waited for only if the work
\* is pending again.
WarmClean ==
    /\ warm = "clean"
    /\ events' = <<>>
    /\ pending' = FALSE
    /\ warm' = IF pending THEN "cancel" ELSE "wipe"
    /\ UNCHANGED <<ppe, timer, neigh, registered, work, local, packets, del, missed, busy, left>>

WarmCancel ==
    /\ warm = "cancel"
    /\ work = Idle
    /\ warm' = "wipe"
    /\ UNCHANGED <<ppe, timer, neigh, updates, packets, del, missed, busy, left>>

WarmWipe ==
    /\ warm = "wipe"
    /\ foe' = [s \in Slots |-> Empty] /\ missed' = {}
    /\ warm' = "init"
    /\ UNCHANGED <<cache, sma, timer, neigh, updates, packets, del, busy, left>>

\* hnat_hw_init
WarmInit ==
    /\ warm = "init"
    /\ sma' = "build"
    /\ CacheClear
    /\ warm' = "register"
    /\ UNCHANGED <<foe, timer, neigh, updates, packets, del, missed>>

WarmEnd ==
    /\ warm = "register"
    /\ registered' = TRUE
    /\ warm' = "idle"
    /\ UNCHANGED <<ppe, timer, neigh, events, pending, work, local, packets, del, missed, busy,
                   left>>

----------------------------------------------------------------------------
(* Packets.                                                                 *)

Put(c, p) == pkt' = [pkt EXCEPT ![c] = p]
Has(c, pc) == pkt[c] # None /\ pkt[c].pc = pc

\* A packet of a flow that the hardware has seen often enough
\* (HIT_UNBIND_RATE_REACH): mtk_hnat_nf_post_routing and skb_to_hnat_info up to the
\* final check, with the address of the next hop (hnat_ipv4_get_nexthop) and the key
\* that is in the table by now.
FillWired(c, f) ==
    /\ pkt[c] = None
    /\ foe[SlotOf[f]].state = "unbind"
    /\ Put(c, [pc |-> "bind", slot |-> SlotOf[f], key |-> foe[SlotOf[f]].key, to |-> f,
               mac |-> neigh[HostOf[f]]])
    /\ UNCHANGED <<ppe, timer, neigh, updates, flow, del, warm, missed, busy, left>>

\* The same, when the packet goes out of a Wi-Fi device: a flow entry for its transmit
\* hook is prepared, a new one or the one that is there.
FillWifi(c, f) ==
    /\ pkt[c] = None
    /\ foe[SlotOf[f]].state = "unbind"
    /\ flow' = [flow EXCEPT ![foe[SlotOf[f]].key] = [to |-> f, mac |-> neigh[HostOf[f]]]]
    /\ Put(c, [pc |-> "tx", slot |-> SlotOf[f]])
    /\ UNCHANGED <<ppe, timer, neigh, updates, del, warm, missed, busy, left>>

\* It is not accelerated: headers that are not supported, the lock is taken, no memory.
Leave(c) ==
    /\ pkt[c] # None
    /\ Put(c, None)
    /\ UNCHANGED <<ppe, timer, neigh, updates, flow, del, warm, missed, busy, left>>

\* Mutant: the final check is left out.
Commit_NoCheck(c) ==
    /\ Has(c, "bind")
    /\ Put(c, None)
    /\ LET p == pkt[c]
           s == p.slot
       IN  /\ foe' = [foe EXCEPT ![s] = Entry("bind", p.key, p.to, p.mac)]
           /\ missed' = IF Stale(p.to, p.mac) /\ ~Queued(s, p.to, p.mac)
                        THEN missed \cup {s} ELSE missed \ {s}
    /\ UNCHANGED <<cache, sma, timer, neigh, updates, flow, del, warm, busy, left>>
\* "Final check if the entry is not in UNBIND state", and hnat_foe_entry_commit.  The
\* address may be out of date by now, and what was to be done about it be over.
Commit(c) ==
    /\ Has(c, "bind")
    /\ Put(c, None)
    /\ LET p == pkt[c]
           s == p.slot
       IN  IF foe[s].state # "unbind" THEN UNCHANGED <<foe, missed>>
           ELSE /\ foe' = [foe EXCEPT ![s] = Entry("bind", p.key, p.to, p.mac)]
                /\ missed' = IF Stale(p.to, p.mac) /\ ~Queued(s, p.to, p.mac)
                             THEN missed \cup {s} ELSE missed \ {s}
    /\ UNCHANGED <<cache, sma, timer, neigh, updates, flow, del, warm, busy, left>>

\* mtk_sw_nat_hook_tx up to the commit: the entry prepared for the flow that is in
\* the table now, by this packet or another one, unless it is older than three seconds.
Transmit(c) ==
    /\ Has(c, "tx")
    /\ LET s == pkt[c].slot
           e == foe[s]
           found == e.key # None /\ flow[e.key] # None
       IN  /\ flow' = IF found THEN [flow EXCEPT ![e.key] = None] ELSE flow
           /\ \/ /\ e.state = "unbind" /\ found
                 /\ Put(c, [pc |-> "bind", slot |-> s, key |-> e.key, to |-> flow[e.key].to,
                            mac |-> flow[e.key].mac])
              \/ Put(c, None)
    /\ UNCHANGED <<ppe, timer, neigh, updates, del, warm, missed, busy, left>>

\* hnat_flow_entry_teardown_handler, thirty seconds after the last update.
FlowAges(f) ==
    /\ flow[f] # None
    /\ flow' = [flow EXCEPT ![f] = None]
    /\ UNCHANGED <<ppe, timer, neigh, updates, pkt, del, warm, missed, busy, left>>

----------------------------------------------------------------------------
Init ==
    /\ foe = [s \in Slots |-> Empty] /\ cache = [s \in Slots |-> None] /\ sma = "build"
    /\ timer = FALSE
    /\ neigh = [h \in Hosts |-> CHOOSE mac \in Macs : TRUE]   \* no step tells addresses apart
    /\ registered = TRUE /\ events = <<>> /\ pending = FALSE /\ work = Idle /\ local = {}
    /\ flow = [f \in Flows |-> None] /\ pkt = [c \in Cpus |-> None]
    /\ del = None /\ warm = "idle"
    /\ missed = {} /\ busy = FALSE /\ left = MaxEvents

WorkStep   == WorkStart \/ WorkSlot \/ WorkEnd
DeleteStep == DeleteSlot \/ EndDelete
WarmStep   == WarmClean \/ WarmCancel \/ WarmWipe \/ WarmInit \/ WarmEnd

Next ==
    \/ \E f \in Flows : Learn(f) \/ FlowAges(f)
    \/ \E s \in Slots : Age(s) \/ Load(s)
    \/ \E h \in Hosts, mac \in Macs, nud \in Nud : NeighUpdate(h, mac, nud)
    \/ \E mac \in Macs \cup {None} : StartDelete(mac)
    \/ DeleteStep \/ TimerFires
    \/ WorkStep
    \/ WarmStart \/ WarmStep
    \/ \E c \in Cpus, f \in Flows : FillWired(c, f) \/ FillWifi(c, f)
    \/ \E c \in Cpus : Leave(c) \/ Commit(c) \/ Transmit(c)

Spec == Init /\ [][Next]_vars

\* Kworkers, the timer, and the callers in whose context a scan or a reset runs.
Fairness ==
    /\ WF_vars(WorkStep)
    /\ WF_vars(DeleteStep)
    /\ WF_vars(WarmStep)
    /\ WF_vars(TimerFires)
FairSpec == Spec /\ Fairness

----------------------------------------------------------------------------
(* Properties.                                                              *)

\* The variables hold what the table, the lists and the threads can hold.
TypeOK ==
    /\ foe \in [Slots -> Entries]
    /\ \A s \in Slots : Bound(s) => foe[s].to \in Flows /\ foe[s].mac \in Macs
    /\ \A s \in Slots : foe[s].state # "invalid" => foe[s].key \in Flows
    /\ cache \in [Slots -> {e \in Entries : e.state = "bind"} \cup {None}]
    /\ sma \in {"build", "fwd"} /\ timer \in BOOLEAN
    /\ neigh \in [Hosts -> Macs]
    /\ registered \in BOOLEAN /\ pending \in BOOLEAN
    /\ events \in Seq(Event) /\ Len(events) <= PendingMax
    /\ work \in [pos : 0..(NumSlots + 1), cnt : BOOLEAN]
    /\ local \subseteq Event /\ Cardinality(local) <= Budget
    /\ flow \in [Flows -> [to : Flows, mac : Macs] \cup {None}]
    /\ pkt \in [Cpus -> Packets \cup {None}]
    /\ del \in Deletion \cup {None}
    /\ warm \in {"idle", "clean", "cancel", "wipe", "init", "register"}
    /\ missed \subseteq {s \in Slots : Bound(s)} /\ busy \in BOOLEAN /\ left \in 0..MaxEvents

\* The hardware sends nothing to an address that a neighbour no longer has,
\* once its new address is confirmed, except while an event that removes the
\* entry is under way: no event is dropped by the list, its budget, a scan of
\* the table that has begun, or a reset.  What the driver is not told, and a
\* packet that has looked the neighbour up before and binds its flow when all
\* is over, are beyond it (missed).
NoStalePath ==
    \A s \in Slots \ missed :
        Bound(s) /\ Stale(foe[s].to, foe[s].mac) => Queued(s, foe[s].to, foe[s].mac)

\* The hardware does not go on with an entry that was deleted: its cache agrees
\* with the table, or a scan is under way that is going to clear it
\* (hnat_cache_clr behind every scan that deleted something).
CacheFollows ==
    ~busy => \A s \in Slots :
        \/ cache[s] \in {None, foe[s]}
        \/ work.cnt
        \/ del # None /\ del.cnt
        \/ warm = "init"

\* A bound entry is never rewritten in place: the hardware reads it without a
\* lock (hnat_foe_entry_commit, "prevent racing with hardware accesses").
BoundIsLeft ==
    [][\A s \in Slots : Bound(s) /\ foe'[s].state = "bind" => foe'[s] = foe[s]]_vars

\* Every announced update is looked at, however many there are and whenever
\* they come (hnat_neigh_update_work_handler, nf_hnat_netevent_handler).
EventsHandled == events # <<>> ~> events = <<>>
=============================================================================
