------------------------------ MODULE EthReset ------------------------------
(***************************************************************************)
(* The reset of the Ethernet frame engine (mtk_eth_reset.c and the reset    *)
(* part of mtk_eth_soc.c, Linux 5.4): the work mtk_pending_work, the timer  *)
(* that watches the DMA engines, the other triggers, the handshake with the *)
(* Wi-Fi driver over netdevice notifiers, and what runs beside them: users  *)
(* who open and close devices, and the switch of an Ethernet mux.           *)
(*                                                                          *)
(* A step is what a thread does between two points where another thread can *)
(* matter: a lock, MTK_RESETTING, a completion, or a test whose answer is   *)
(* used later.  The Wi-Fi driver is external; it calls                      *)
(* mtk_eth_netdevice_event through the notifier chain, so with rtnl held.   *)
(***************************************************************************)
EXTENDS Integers, Sequences, FiniteSets

CONSTANTS
    Devs,        \* the network devices (eth->netdev)
    MuxDevs,     \* those behind an Ethernet mux
    Chips,       \* Wi-Fi chips that may be online
    NetsysV3,    \* possible values of MTK_HAS_CAPS(caps, MTK_NETSYS_V3)
    None,
    MaxEvents    \* bound: hangs, requests, failures and moves of chips

ASSUME DevAssumption   == IsFiniteSet(Devs) /\ MuxDevs \subseteq Devs
ASSUME ChipAssumption  == IsFiniteSet(Chips)
ASSUME CapsAssumption  == NetsysV3 \subseteq BOOLEAN
ASSUME EventAssumption == MaxEvents \in Nat

VARIABLES
    \* mtk_eth_soc.c, mtk_eth_reset.c: globals and struct mtk_eth
    reset_lock, force, event, rstctrl_eth, resetting,
    wait_ser_done, wait_ack_done, mtk_rest_cnt, mtk_wifi_num, mtk_stop_fail,
    \* the devices: netif_running, mac->phylink, dma_refcnt and the DMA engine
    running, phylink, dma_refcnt, dma,
    \* threads: who holds rtnl, the work, the monitor, debugfs, the mux works
    rtnl, queued, pc, told, restart, mon, dbg, mux,
    \* outside: chips and what they still have to do, hardware, bounds
    chip, todo, ack_due, hang, v3, events,
    \* history: what happened that the protocol does not allow for
    upset

flags  == <<reset_lock, force, event, rstctrl_eth, resetting>>
wifi   == <<wait_ser_done, wait_ack_done, mtk_rest_cnt, mtk_wifi_num, mtk_stop_fail>>
devs   == <<running, phylink, dma_refcnt, dma>>
worker == <<pc, told, restart>>
others == <<mon, dbg, mux>>
chips  == <<chip, todo, ack_due>>
vars   == <<flags, wifi, devs, rtnl, queued, worker, others, chips, hang, v3, events, upset>>

START == "MTK_FE_START_RESET"
STOP  == "MTK_FE_STOP_TRAFFIC"
Asks  == {START, STOP}

Labels == {"idle", "check", "lock", "setbit", "notify", "wifi", "wait_ser", "again",
           "wait_again", "relock", "stop", "hw", "open", "done", "wait_ack", "ack_lock",
           "finish", "dead"}

\* From the notification on, until the chips have been told that it is over.
InReset == pc \in {"wifi", "wait_ser", "again", "wait_again", "relock", "stop", "hw", "open",
                   "done", "wait_ack", "ack_lock"}
Online  == {c \in Chips : chip[c] # "absent"}

\* An event from outside, within the bound.
Spend == events > 0 /\ events' = events - 1

----------------------------------------------------------------------------
(* Opening and closing devices.                                             *)

\* phylink is only touched outside of a reset, or when the ETH is reset too.
TouchPhylink == ~resetting \/ rstctrl_eth

SetPhylink(S, to) ==
    phylink' = [d \in Devs |-> IF TouchPhylink /\ d \in S /\ phylink[d] # "null"
                               THEN to ELSE phylink[d]]

\* A thread that follows a null phylink dies with the lock held.
Dies(S) == TouchPhylink /\ \E d \in S : phylink[d] = "null"
RtnlAfter(S) == rtnl' = IF Dies(S) THEN "dead" ELSE rtnl

\* mtk_stop of the devices S: a refcount_t stays 0 once it is 0; the last user
\* shuts the DMA down.
RefAfterStop(S) == IF dma_refcnt > Cardinality(S) THEN dma_refcnt - Cardinality(S) ELSE 0
\* Mutant: the PHY is disconnected in every reset, and connected in some.
StopDevs_Phylink(S) ==
    /\ phylink' = [d \in Devs |-> IF d \in S /\ phylink[d] # "null"
                                  THEN "stopped" ELSE phylink[d]]
    /\ RtnlAfter(S)
    /\ dma_refcnt' = RefAfterStop(S)
    /\ dma' = IF dma_refcnt > 0 /\ RefAfterStop(S) = 0 THEN "off" ELSE dma
StopDevs(S) ==
    /\ SetPhylink(S, "stopped")
    /\ RtnlAfter(S)
    /\ dma_refcnt' = RefAfterStop(S)
    /\ dma' = IF dma_refcnt > 0 /\ RefAfterStop(S) = 0 THEN "off" ELSE dma

\* mtk_open of the devices S: the first user starts the DMA.
\* Mutant: refcount_set for every device.
OpenDevs_SetOne(S) ==
    /\ SetPhylink(S, "started")
    /\ RtnlAfter(S)
    /\ dma_refcnt' = IF S = {} THEN dma_refcnt ELSE 1
    /\ dma' = IF dma_refcnt = 0 /\ S # {} THEN "on" ELSE dma
OpenDevs(S) ==
    /\ SetPhylink(S, "started")
    /\ RtnlAfter(S)
    /\ dma_refcnt' = dma_refcnt + Cardinality(S)
    /\ dma' = IF dma_refcnt = 0 /\ S # {} THEN "on" ELSE dma

\* mtk_open fails before it counts (no memory for the rings), or behind it, when
\* the PHY cannot be attached; the count is then not taken back.
OpenFails(d) ==
    /\ Spend
    /\ upset' = upset \cup {"leak"}
    /\ \/ dma_refcnt = 0 /\ UNCHANGED devs
       \/ /\ TouchPhylink
          /\ phylink[d] # "null"
          /\ dma_refcnt' = dma_refcnt + 1
          /\ dma' = IF dma_refcnt = 0 THEN "on" ELSE dma
          /\ UNCHANGED <<running, phylink>>
    /\ UNCHANGED rtnl

\* "phylink" is a device opened or closed while phylink is left alone; "mux" one
\* between mtk_stop and mtk_open of its mux, when it counts as running and has no
\* share in the DMA.
MuxUpset(d)  == IF mux[d] \notin {"idle", "stop"} THEN {"mux"} ELSE {}
OpenUpset    == IF TouchPhylink THEN {} ELSE {"phylink"}
UserUpset(d) == MuxUpset(d) \cup OpenUpset

\* ip link set up
UserOpen(d) ==
    /\ rtnl = "free"
    /\ d \notin running
    /\ \/ /\ Spend
          /\ running' = running \cup {d}
          /\ OpenDevs({d})
          /\ upset' = upset \cup UserUpset(d)
       \/ OpenFails(d)
    /\ UNCHANGED <<flags, wifi, queued, worker, others, chips, hang, v3>>

UserClose(d) ==
    /\ rtnl = "free"
    /\ d \in running
    /\ Spend
    /\ running' = running \ {d}
    /\ StopDevs({d})
    /\ upset' = upset \cup UserUpset(d)
    /\ UNCHANGED <<flags, wifi, queued, worker, others, chips, hang, v3>>

----------------------------------------------------------------------------
(* What schedules the work.  schedule_work of a pending work does nothing.   *)

\* The hardware gets stuck in a way that one of the monitors recognises.
Hang(h) ==
    /\ hang = None
    /\ Spend
    /\ hang' = h
    /\ UNCHANGED <<flags, wifi, devs, rtnl, queued, worker, others, chips, v3, upset>>

\* mtk_hw_reset_monitor_work: nothing while MTK_RESETTING is set, otherwise
\* the first monitor that is not content decides.
MonitorPoll ==
    /\ mon = None
    /\ ~resetting
    /\ hang # None
    /\ mon' = IF hang.gdm /\ reset_lock = 0 THEN "gdm" ELSE "test"
    /\ UNCHANGED <<flags, wifi, devs, rtnl, queued, worker, dbg, mux, chips, hang, v3, events,
                   upset>>

\* A store whose test was made before the work started.
LateUpset == IF reset_lock # 0 THEN {"late"} ELSE {}

\* The monitors of the GDM ask for the ETH to be reset as well.
MonitorGdm ==
    /\ mon = "gdm"
    /\ rstctrl_eth' = TRUE
    /\ upset' = upset \cup LateUpset
    /\ mon' = "test"
    /\ UNCHANGED <<reset_lock, force, event, resetting, wifi, devs, rtnl, queued, worker, dbg,
                   mux, chips, hang, v3, events>>

MonitorTest ==
    /\ mon = "test"
    /\ mon' = IF reset_lock = 0 /\ force = 1 /\ hang # None THEN hang.ask ELSE None
    /\ UNCHANGED <<flags, wifi, devs, rtnl, queued, worker, dbg, mux, chips, hang, v3, events,
                   upset>>

MonitorStore ==
    /\ mon \in Asks
    /\ event' = mon
    /\ queued' = TRUE
    /\ mon' = None
    /\ upset' = upset \cup LateUpset
    /\ UNCHANGED <<reset_lock, force, rstctrl_eth, resetting, wifi, devs, rtnl, worker, dbg, mux,
                   chips, hang, v3, events>>

\* debugfs "reset": 0 and 2 turn the forced reset off and on; 1, 3, 6 and 7 ask
\* for one.
DebugForce(f) ==
    /\ dbg = None
    /\ Spend
    /\ force' = f
    /\ upset' = upset \cup {"force"}
    /\ UNCHANGED <<reset_lock, event, rstctrl_eth, resetting, wifi, devs, rtnl, queued, worker,
                   others, chips, hang, v3>>

DebugTest(ask, eth) ==
    /\ dbg = None
    /\ Spend
    /\ force = 1 /\ reset_lock = 0
    /\ dbg' = [ask |-> ask, eth |-> eth]
    /\ UNCHANGED <<flags, wifi, devs, rtnl, queued, worker, mon, mux, chips, hang, v3, upset>>

DebugStore ==
    /\ dbg # None
    /\ event' = dbg.ask
    /\ rstctrl_eth' = dbg.eth
    /\ queued' = TRUE
    /\ dbg' = None
    /\ upset' = upset \cup LateUpset
    /\ UNCHANGED <<reset_lock, force, resetting, wifi, devs, rtnl, worker, mon, mux, chips, hang,
                   v3, events>>

\* mtk_tx_timeout, when no flow control explains it.
TxTimeout ==
    /\ reset_lock = 0
    /\ Spend
    /\ queued' = TRUE
    /\ UNCHANGED <<flags, wifi, devs, rtnl, worker, others, chips, hang, v3, upset>>

\* mtk_mac_config, on the switch of a MAC from XGDM to GDM.
MacConfig ==
    /\ ~resetting
    /\ Spend
    /\ force' = IF force = 0 THEN 2 ELSE force
    /\ queued' = TRUE
    /\ UNCHANGED <<reset_lock, event, rstctrl_eth, resetting, wifi, devs, rtnl, worker, others,
                   chips, hang, v3, upset>>

\* mtk_handle_fe_irq, on a page end error of the MT7987.
PageEndIrq ==
    /\ ~resetting
    /\ Spend
    /\ force' = force + 1
    /\ queued' = TRUE
    /\ upset' = upset \cup {"force"}
    /\ UNCHANGED <<reset_lock, event, rstctrl_eth, resetting, wifi, devs, rtnl, worker, others,
                   chips, hang, v3>>

\* MTK_FE_START_RESET_INIT: the Wi-Fi driver asks for a reset.
StartResetInit ==
    /\ rtnl = "free"
    /\ Spend
    /\ reset_lock = 0
    /\ force' = IF force = 0 THEN 2 ELSE force
    /\ event' = START
    /\ queued' = TRUE
    /\ UNCHANGED <<reset_lock, rstctrl_eth, resetting, wifi, devs, rtnl, worker, others, chips,
                   hang, v3, upset>>

----------------------------------------------------------------------------
(* The Wi-Fi driver (external): it is told over the notifier chain, works    *)
(* off what it was told, and answers with rtnl held.                         *)

Tell(what) == todo' = [c \in Chips |-> IF c \in Online THEN Append(todo[c], what) ELSE todo[c]]

\* mtk_eth_netdevice_event: MTK_WIFI_RESET_DONE and MTK_FE_STOP_TRAFFIC_DONE.
\* Mutant: the first answer counts for all.
LastAnswer_First == mtk_rest_cnt > 0
LastAnswer == mtk_rest_cnt = 1
\* Mutant: the count is not reloaded.
AnswerDone_NoReload ==
    /\ mtk_rest_cnt' = mtk_rest_cnt - 1
    /\ wait_ser_done' = IF LastAnswer THEN wait_ser_done + 1 ELSE wait_ser_done
    /\ UNCHANGED <<event, mtk_stop_fail>>
AnswerDone ==
    /\ mtk_rest_cnt' = IF LastAnswer THEN mtk_wifi_num ELSE mtk_rest_cnt - 1
    /\ wait_ser_done' = IF LastAnswer THEN wait_ser_done + 1 ELSE wait_ser_done
    /\ UNCHANGED <<event, mtk_stop_fail>>

\* MTK_FE_STOP_TRAFFIC_DONE_FAIL: the reset goes on as one of the Wi-Fi too.
\* Mutant: the event stays what it was.
AnswerFail_NoEvent ==
    /\ mtk_stop_fail' = TRUE
    /\ UNCHANGED event
    /\ wait_ser_done' = wait_ser_done + 1
    /\ mtk_rest_cnt' = mtk_wifi_num
AnswerFail ==
    /\ mtk_stop_fail' = TRUE
    /\ event' = START
    /\ wait_ser_done' = wait_ser_done + 1
    /\ mtk_rest_cnt' = mtk_wifi_num

\* "stopfail" is a failure that the handshake cannot tell from the others'
\* answers: somebody else is still to answer, or nobody asks again.
FailUpset(c) ==
    IF ~v3 \/ \E d \in Online \ {c} : \E i \in DOMAIN todo[d] : todo[d][i] = STOP
    THEN {"stopfail"} ELSE {}

ChipStops(c) ==
    /\ todo[c] # <<>> /\ Head(todo[c]) = STOP
    /\ rtnl = "free"
    /\ todo' = [todo EXCEPT ![c] = Tail(@)]
    /\ \/ /\ chip' = [chip EXCEPT ![c] = "stopped"]
          /\ AnswerDone
          /\ UNCHANGED <<events, upset>>
       \/ /\ Spend
          /\ AnswerFail
          /\ upset' = upset \cup FailUpset(c)
          /\ UNCHANGED chip
    /\ UNCHANGED <<reset_lock, force, rstctrl_eth, resetting, wait_ack_done, mtk_wifi_num, devs,
                   rtnl, queued, worker, others, ack_due, hang, v3>>

ChipResets(c) ==
    /\ todo[c] # <<>> /\ Head(todo[c]) = START
    /\ rtnl = "free"
    /\ todo' = [todo EXCEPT ![c] = Tail(@)]
    /\ chip' = [chip EXCEPT ![c] = "down"]
    /\ AnswerDone
    /\ UNCHANGED <<reset_lock, force, rstctrl_eth, resetting, wait_ack_done, mtk_wifi_num, devs,
                   rtnl, queued, worker, others, ack_due, hang, v3, events, upset>>

\* MTK_FE_START_TRAFFIC ends a stop, MTK_FE_RESET_DONE a reset.
ChipResumes(c) ==
    /\ todo[c] # <<>> /\ Head(todo[c]) \in {"MTK_FE_START_TRAFFIC", "MTK_FE_RESET_DONE"}
    /\ todo' = [todo EXCEPT ![c] = Tail(@)]
    /\ chip' = [chip EXCEPT ![c] =
                  IF \/ @ = "stopped" /\ Head(todo[c]) = "MTK_FE_START_TRAFFIC"
                     \/ @ = "down"    /\ Head(todo[c]) = "MTK_FE_RESET_DONE"
                  THEN "up" ELSE @]
    /\ UNCHANGED <<flags, wifi, devs, rtnl, queued, worker, others, ack_due, hang, v3, events,
                   upset>>

\* MTK_WIFI_L1SER_DONE, once for all chips when they are back.
WifiAck ==
    /\ ack_due
    /\ Online # {} /\ \A c \in Online : todo[c] = <<>> /\ chip[c] = "up"
    /\ rtnl = "free"
    /\ wait_ack_done' = wait_ack_done + 1
    /\ ack_due' = FALSE
    /\ UNCHANGED <<flags, wait_ser_done, mtk_rest_cnt, mtk_wifi_num, mtk_stop_fail, devs, rtnl,
                   queued, worker, others, chip, todo, hang, v3, events, upset>>

\* MTK_WIFI_CHIP_ONLINE and MTK_WIFI_CHIP_OFFLINE; "chips" is one that comes or
\* goes while the chips are counted.
ChipMove(c, state, num) ==
    /\ rtnl = "free"
    /\ Spend
    /\ chip' = [chip EXCEPT ![c] = state]
    /\ todo' = [todo EXCEPT ![c] = <<>>]
    /\ mtk_wifi_num' = num
    /\ mtk_rest_cnt' = num
    /\ upset' = upset \cup (IF InReset \/ ack_due \/ \E d \in Chips : todo[d] # <<>>
                            THEN {"chips"} ELSE {})
    /\ UNCHANGED <<flags, wait_ser_done, wait_ack_done, mtk_stop_fail, devs, rtnl, queued, worker,
                   others, ack_due, hang, v3>>

ChipOnline(c)  == chip[c] = "absent" /\ ChipMove(c, "up", mtk_wifi_num + 1)
ChipOffline(c) == chip[c] # "absent" /\ ChipMove(c, "absent", mtk_wifi_num - 1)

----------------------------------------------------------------------------
(* mtk_pending_work.                                                        *)

WorkStart ==
    /\ queued /\ pc = "idle"
    /\ queued' = FALSE
    /\ reset_lock' = reset_lock + 1
    /\ pc' = "check"
    /\ UNCHANGED <<force, event, rstctrl_eth, resetting, wifi, devs, rtnl, told, restart, others,
                   chips, hang, v3, events, upset>>

\* mtk_check_reset_event: an error bit of the hardware, or a forced reset.
\* Mutant: the early return forgets atomic_dec.
WorkCheck_NoDec ==
    /\ pc = "check"
    /\ pc' = "lock" \/ (force = 0 /\ pc' = "idle")
    /\ UNCHANGED <<flags, wifi, devs, rtnl, queued, told, restart, others, chips, hang, v3, events,
                   upset>>
WorkCheck ==
    /\ pc = "check"
    /\ \/ pc' = "lock" /\ UNCHANGED reset_lock
       \/ force = 0 /\ pc' = "idle" /\ reset_lock' = reset_lock - 1
    /\ UNCHANGED <<force, event, rstctrl_eth, resetting, wifi, devs, rtnl, queued, told, restart,
                   others, chips, hang, v3, events, upset>>

\* rtnl_lock of the work, at three places.
WorkLock ==
    /\ pc \in {"lock", "relock", "ack_lock"}
    /\ rtnl = "free"
    /\ rtnl' = "work"
    /\ pc' = CASE pc = "lock"     -> "setbit"
               [] pc = "relock"   -> "stop"
               [] pc = "ack_lock" -> "finish"
    /\ UNCHANGED <<flags, wifi, devs, queued, told, restart, others, chips, hang, v3, events,
                   upset>>

WorkSetBit ==
    /\ pc = "setbit"
    /\ ~resetting
    /\ resetting' = TRUE
    /\ pc' = "notify"
    /\ UNCHANGED <<reset_lock, force, event, rstctrl_eth, wifi, devs, rtnl, queued, told, restart,
                   others, chips, hang, v3, events, upset>>

\* Mutant: rtnl is kept while the reset waits.
WorkNotify_KeepsRtnl ==
    /\ pc = "notify"
    /\ told' = IF event = STOP THEN STOP ELSE START
    /\ Tell(told')
    /\ pc' = "wifi"
    /\ UNCHANGED <<flags, wifi, devs, rtnl, queued, restart, others, chip, ack_due, hang, v3,
                   events, upset>>
WorkNotify ==
    /\ pc = "notify"
    /\ told' = IF event = STOP THEN STOP ELSE START
    /\ Tell(told')
    /\ rtnl' = "free"
    /\ pc' = "wifi"
    /\ UNCHANGED <<flags, wifi, devs, queued, restart, others, chip, ack_due, hang, v3, events,
                   upset>>

WorkWifi ==
    /\ pc = "wifi"
    /\ pc' = IF mtk_wifi_num > 0 THEN "wait_ser" ELSE "relock"
    /\ UNCHANGED <<flags, wifi, devs, rtnl, queued, told, restart, others, chips, hang, v3, events,
                   upset>>

\* wait_for_completion(&wait_ser_done), without a timeout.
WorkWaitSer ==
    /\ pc = "wait_ser"
    /\ wait_ser_done > 0
    /\ wait_ser_done' = wait_ser_done - 1
    /\ pc' = IF v3 /\ mtk_stop_fail THEN "again" ELSE "relock"
    /\ UNCHANGED <<flags, wait_ack_done, mtk_rest_cnt, mtk_wifi_num, mtk_stop_fail, devs, rtnl,
                   queued, told, restart, others, chips, hang, v3, events, upset>>

\* A chip could not stop its traffic: have all of them reset (rtnl is taken,
\* and given back behind the notification).
WorkAgain ==
    /\ pc = "again"
    /\ rtnl = "free"
    /\ told' = START
    /\ Tell(START)
    /\ pc' = "wait_again"
    /\ UNCHANGED <<flags, wifi, devs, rtnl, queued, restart, others, chip, ack_due, hang, v3,
                   events, upset>>

WorkWaitAgain ==
    /\ pc = "wait_again"
    /\ wait_ser_done > 0
    /\ wait_ser_done' = wait_ser_done - 1
    /\ mtk_stop_fail' = FALSE
    /\ pc' = "relock"
    /\ UNCHANGED <<flags, wait_ack_done, mtk_rest_cnt, mtk_wifi_num, devs, rtnl, queued, told,
                   restart, others, chips, hang, v3, events, upset>>

WorkStop ==
    /\ pc = "stop"
    /\ restart' = running
    /\ StopDevs(running)
    /\ upset' = upset \cup UNION {MuxUpset(d) : d \in running}
    /\ pc' = IF Dies(running) THEN "dead" ELSE "hw"
    /\ UNCHANGED <<flags, wifi, running, queued, told, others, chips, hang, v3, events>>

\* mtk_hw_init: the WDMA are reset along only when the event says so; a DMA
\* engine that runs loses its rings.
WorkHwInit ==
    /\ pc = "hw"
    /\ dma' = IF dma = "on" THEN "stale" ELSE dma
    /\ hang' = IF hang # None /\ hang.ask = START /\ event # START THEN hang ELSE None
    /\ pc' = "open"
    /\ UNCHANGED <<flags, wifi, running, phylink, dma_refcnt, rtnl, queued, told, restart,
                   others, chips, v3, events, upset>>

\* A device that does not open again is closed (dev_close, so mtk_stop).
WorkOpen ==
    /\ pc = "open"
    /\ \E F \in SUBSET restart :
          /\ IF F = {} THEN UNCHANGED <<events, upset>>
             ELSE /\ Spend
                  /\ dma_refcnt = 0 \/ TouchPhylink
                  /\ upset' = upset \cup OpenUpset
          /\ running' = running \ F
          /\ OpenDevs(restart \ F)
          /\ pc' = IF Dies(restart) THEN "dead" ELSE "done"
    /\ UNCHANGED <<flags, wifi, queued, told, restart, others, chips, hang, v3>>

WorkDone ==
    /\ pc = "done"
    /\ LET awaited == event # STOP /\ v3 /\ mtk_wifi_num > 0
       IN  /\ Tell(IF event = STOP THEN "MTK_FE_START_TRAFFIC" ELSE "MTK_FE_RESET_DONE")
           /\ ack_due' = (ack_due \/ (event # STOP /\ v3))
           /\ pc' = IF awaited THEN "wait_ack" ELSE "finish"
           /\ rtnl' = IF awaited THEN "free" ELSE rtnl
    /\ UNCHANGED <<flags, wifi, devs, queued, told, restart, others, chip, hang, v3, events, upset>>

WorkWaitAck ==
    /\ pc = "wait_ack"
    /\ wait_ack_done > 0
    /\ wait_ack_done' = wait_ack_done - 1
    /\ pc' = "ack_lock"
    /\ UNCHANGED <<flags, wait_ser_done, mtk_rest_cnt, mtk_wifi_num, mtk_stop_fail, devs, rtnl,
                   queued, told, restart, others, chips, hang, v3, events, upset>>

\* Mutant: atomic_dec is forgotten.
WorkFinish_NoDec ==
    /\ pc = "finish"
    /\ event' = None
    /\ rstctrl_eth' = FALSE
    /\ resetting' = FALSE
    /\ rtnl' = "free"
    /\ told' = None
    /\ restart' = {}
    /\ pc' = "idle"
    /\ UNCHANGED <<reset_lock, force, wifi, devs, queued, others, chips, hang, v3, events, upset>>
WorkFinish ==
    /\ pc = "finish"
    /\ event' = None
    /\ rstctrl_eth' = FALSE
    /\ resetting' = FALSE
    /\ reset_lock' = reset_lock - 1
    /\ rtnl' = "free"
    /\ told' = None
    /\ restart' = {}
    /\ pc' = "idle"
    /\ UNCHANGED <<force, wifi, devs, queued, others, chips, hang, v3, events, upset>>

----------------------------------------------------------------------------
(* mux_poll and mtk_mux_switch_channel.                                     *)

MuxPc(d, from, to) == mux[d] = from /\ mux' = [mux EXCEPT ![d] = to]

\* The SFP module was plugged or pulled, and the device is running.
MuxPoll(d) ==
    /\ d \in running
    /\ MuxPc(d, "idle", "stop")
    /\ Spend
    /\ UNCHANGED <<flags, wifi, devs, rtnl, queued, worker, mon, dbg, chips, hang, v3, upset>>

MuxStop(d) ==
    /\ MuxPc(d, "stop", "setbit")
    /\ rtnl = "free"
    /\ StopDevs({d})
    /\ upset' = upset \cup (IF d \in running THEN {} ELSE {"mux"})
    /\ UNCHANGED <<flags, wifi, running, queued, worker, mon, dbg, chips, hang, v3, events>>

MuxSetBit(d) ==
    /\ MuxPc(d, "setbit", "create")
    /\ ~resetting
    /\ resetting' = TRUE
    /\ phylink' = [phylink EXCEPT ![d] = "null"]
    /\ UNCHANGED <<reset_lock, force, event, rstctrl_eth, wifi, running, dma_refcnt, dma,
                   rtnl, queued, worker, mon, dbg, chips, hang, v3, events, upset>>

\* phylink_destroy and phylink_create: the one of the channel with the SFP cage
\* takes rtnl (sfp_bus_del_upstream, sfp_bus_add_upstream).  Without a new phylink
\* the device stays stopped.
MuxCreate(d) ==
    /\ rtnl = "free"
    /\ resetting' = FALSE
    /\ \/ /\ MuxPc(d, "create", "open")
          /\ phylink' = [phylink EXCEPT ![d] = "stopped"]
          /\ UNCHANGED <<events, upset>>
       \/ /\ MuxPc(d, "create", "idle")
          /\ Spend
          /\ upset' = upset \cup {"mux"}
          /\ UNCHANGED phylink
    /\ UNCHANGED <<reset_lock, force, event, rstctrl_eth, wifi, running, dma_refcnt, dma, rtnl,
                   queued, worker, mon, dbg, chips, hang, v3>>

\* The result of mtk_open is not looked at.
MuxOpen(d) ==
    /\ MuxPc(d, "open", "idle")
    /\ rtnl = "free"
    /\ \/ /\ OpenDevs({d})
          /\ upset' = upset \cup OpenUpset
          /\ UNCHANGED <<running, events>>
       \/ OpenFails(d)
    /\ UNCHANGED <<flags, wifi, queued, worker, mon, dbg, chips, hang, v3>>

----------------------------------------------------------------------------
Hangs == [ask : Asks, gdm : BOOLEAN] \ {[ask |-> START, gdm |-> TRUE]}

Init ==
    /\ reset_lock = 0 /\ force = 1 /\ event = None /\ rstctrl_eth = FALSE /\ resetting = FALSE
    /\ chip \in [Chips -> {"absent", "up"}]
    /\ mtk_wifi_num = Cardinality(Online) /\ mtk_rest_cnt = mtk_wifi_num
    /\ wait_ser_done = 0 /\ wait_ack_done = 0 /\ mtk_stop_fail = FALSE
    /\ running = Devs /\ dma_refcnt = Cardinality(Devs)
    /\ dma = IF Devs = {} THEN "off" ELSE "on"
    /\ phylink = [d \in Devs |-> "started"]
    /\ rtnl = "free" /\ queued = FALSE
    /\ pc = "idle" /\ told = None /\ restart = {}
    /\ mon = None /\ dbg = None /\ mux = [d \in Devs |-> "idle"]
    /\ todo = [c \in Chips |-> <<>>] /\ ack_due = FALSE
    /\ hang = None /\ v3 \in NetsysV3
    /\ events = MaxEvents /\ upset = {}

MonitorStep == MonitorPoll \/ MonitorGdm \/ MonitorTest \/ MonitorStore
ChipStep(c) == ChipStops(c) \/ ChipResets(c) \/ ChipResumes(c)
WorkStep    == \/ WorkStart \/ WorkCheck \/ WorkLock \/ WorkSetBit \/ WorkNotify \/ WorkWifi
               \/ WorkWaitSer \/ WorkAgain \/ WorkWaitAgain \/ WorkStop \/ WorkHwInit
               \/ WorkOpen \/ WorkDone \/ WorkWaitAck \/ WorkFinish
MuxStep(d)  == MuxStop(d) \/ MuxSetBit(d) \/ MuxCreate(d) \/ MuxOpen(d)
Outside ==
    \/ \E h \in Hangs : Hang(h)
    \/ \E f \in {0, 1} : DebugForce(f)
    \/ \E ask \in Asks, eth \in BOOLEAN : DebugTest(ask, eth)
    \/ TxTimeout \/ MacConfig \/ PageEndIrq \/ StartResetInit
    \/ \E d \in Devs : UserOpen(d) \/ UserClose(d)
    \/ \E c \in Chips : ChipOnline(c) \/ ChipOffline(c)
    \/ \E d \in MuxDevs : MuxPoll(d)

Next ==
    \/ WorkStep \/ MonitorStep \/ DebugStore \/ WifiAck \/ Outside
    \/ \E c \in Chips : ChipStep(c)
    \/ \E d \in MuxDevs : MuxStep(d)

Spec == Init /\ [][Next]_vars

\* Works are run by kworkers, the lock hands over in order, and the Wi-Fi driver
\* works off what it is told.  Nothing is assumed of users, of chips that come
\* and go, or of what the hardware meets with.
Fairness ==
    /\ WF_vars(WorkStep)
    /\ WF_vars(MonitorStep)
    /\ WF_vars(DebugStore)
    /\ WF_vars(WifiAck)
    /\ \A c \in Chips : WF_vars(ChipStep(c))
    /\ \A d \in MuxDevs : WF_vars(MuxStep(d))
FairSpec == Spec /\ Fairness

----------------------------------------------------------------------------
(* Properties.                                                              *)

Requests == Asks \cup {"MTK_FE_START_TRAFFIC", "MTK_FE_RESET_DONE"}
Upsets   == {"phylink", "mux", "leak", "late", "force", "stopfail", "chips"}

\* The variables have the types of their declarations (mtk_eth_reset.c:32-34,
\* mtk_eth_soc.c:36-43), and the counters stay within what the code means by them.
TypeOK ==
    /\ reset_lock \in {0, 1} /\ force \in 0..(MaxEvents + 2)
    /\ event \in Asks \cup {None} /\ rstctrl_eth \in BOOLEAN /\ resetting \in BOOLEAN
    /\ wait_ser_done \in Nat /\ wait_ack_done \in Nat /\ mtk_rest_cnt \in Int
    /\ mtk_wifi_num \in 0..Cardinality(Chips) /\ mtk_stop_fail \in BOOLEAN
    /\ running \subseteq Devs /\ phylink \in [Devs -> {"null", "stopped", "started"}]
    /\ dma_refcnt \in Nat /\ dma \in {"off", "on", "stale"}
    /\ rtnl \in {"free", "work", "dead"} /\ queued \in BOOLEAN
    /\ pc \in Labels /\ told \in Asks \cup {None} /\ restart \subseteq Devs
    /\ mon \in Asks \cup {None, "gdm", "test"}
    /\ dbg \in [ask : Asks, eth : BOOLEAN] \cup {None}
    /\ mux \in [Devs -> {"idle", "stop", "setbit", "create", "open"}]
    /\ chip \in [Chips -> {"absent", "up", "stopped", "down"}]
    /\ todo \in [Chips -> Seq(Requests)]
    /\ ack_due \in BOOLEAN /\ hang \in Hangs \cup {None} /\ v3 \in BOOLEAN
    /\ events \in 0..MaxEvents /\ upset \subseteq Upsets

\* The frame engine is reset only when every Wi-Fi chip that is online has
\* done what it was told (mtk_pending_work waits for wait_ser_done, counted
\* by mtk_rest_cnt): the answers of several chips, of a chip that could not
\* stop and of the round that follows are not mistaken for one another.  And
\* their DMA engines are reset with it (mtk_eth_warm_reset) if and only if
\* they were told to expect it.
ChipsQuietAtReset ==
    pc = "hw" /\ upset \cap {"chips", "stopfail", "late"} = {} =>
        /\ \A c \in Online : chip[c] = IF told = STOP THEN "stopped" ELSE "down"
        /\ event # None => (told = START <=> event = START)

\* After a reset every chip has been resumed by the message that fits what it
\* was told, and no completion or count is left over for the next one.
HandshakeBalanced ==
    /\ pc = "idle" /\ ~ack_due
    /\ \A c \in Chips : todo[c] = <<>>
    /\ upset \cap {"chips", "stopfail", "late"} = {}
    => /\ \A c \in Online : chip[c] = "up"
       /\ wait_ser_done = 0 /\ wait_ack_done = 0
       /\ mtk_rest_cnt = mtk_wifi_num
       /\ v3 => ~mtk_stop_fail

\* "stop all devices to make sure that dma is properly shut down"
\* (mtk_eth_soc.c:5483).
DmaDownAtReset == pc = "hw" => dma = "off"

\* The frame engine is not reset under running DMA rings, and the rings in use
\* afterwards were set up after the reset (mtk_open and mtk_stop share dma_refcnt).
DmaSound ==
    upset \cap {"mux", "leak"} = {} =>
        /\ DmaDownAtReset
        /\ dma # "stale"
        /\ rtnl = "free" /\ (\A d \in Devs : mux[d] \in {"idle", "stop"}) =>
               dma_refcnt = Cardinality(running) /\ (dma = "on" <=> running # {})

\* Outside of resets and switches the devices that run are those whose
\* phylink was started, although the reset leaves phylink alone when it does
\* not reset the ETH (mtk_open, mtk_stop).
PhylinkFollows ==
    /\ pc = "idle" /\ rtnl = "free" /\ \A d \in Devs : mux[d] = "idle"
    /\ upset \cap {"phylink", "mux", "leak", "late"} = {}
    => \A d \in Devs : d \in running <=> phylink[d] = "started"

\* The reset holds rtnl and spins for MTK_RESETTING, which the switch of a mux
\* holds while it waits for rtnl.
Deadlocked == pc = "setbit" /\ \E d \in MuxDevs : mux[d] = "create"
Stuck == Deadlocked \/ rtnl = "dead"

\* Nobody keeps the lock of the network configuration for ever, even when a
\* Wi-Fi chip never answers: mtk_pending_work gives it back before it waits
\* (mtk_eth_soc.c:5455-5475, 5526-5530).
RtnlReleased == rtnl # "free" ~> (rtnl = "free" \/ Stuck)

\* Every reset that starts ends, unless a chip comes or goes in the middle, a
\* failed stop is confused with an answer, or an event is overwritten.
ResetEnds ==
    pc # "idle" ~> (pc = "idle" \/ Stuck \/ upset \cap {"chips", "stopfail", "late"} # {})

\* A hang that a monitor recognises is followed by a reset that cures it,
\* whatever other triggers are under way, as long as the forced reset is
\* neither turned off nor counted up.
HangIsCured ==
    hang # None ~>
        (hang = None \/ Stuck \/ upset \cap {"chips", "stopfail", "late", "force"} # {})
\* "trigger FE and WDMA force reset" (mtk_eth_dbg.c:824, 829): a request that
\* debugfs takes is followed by a reset.
DebugResets == dbg # None ~> pc = "hw"

=============================================================================
