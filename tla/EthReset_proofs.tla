-------------------------- MODULE EthReset_proofs --------------------------
(***************************************************************************)
(* What holds of the reset of the frame engine, for any number of network  *)
(* devices, muxes and Wi-Fi chips and any number of hangs, requests and    *)
(* failures: who holds the locks, what dma_refcnt counts, which phylink is *)
(* started, and how the answers of the chips are counted.                  *)
(*                                                                         *)
(* The invariant is a conjunction of one part for each of these questions; *)
(* a step that leaves alone what a part speaks of keeps it, so each part   *)
(* is proved for the few steps that do not.                                *)
(***************************************************************************)
EXTENDS EthReset, FiniteSetTheorems, SequenceTheorems, TLAPS

----------------------------------------------------------------------------
(* Types.                                                                   *)

FlagTypes ==
    /\ reset_lock \in {0, 1} /\ force \in 0..(MaxEvents + 2)
    /\ event \in Asks \cup {None} /\ rstctrl_eth \in BOOLEAN /\ resetting \in BOOLEAN
    /\ events \in 0..MaxEvents /\ upset \subseteq Upsets
WifiTypes ==
    /\ wait_ser_done \in Nat /\ wait_ack_done \in Nat /\ mtk_rest_cnt \in Int
    /\ mtk_wifi_num \in 0..Cardinality(Chips) /\ mtk_stop_fail \in BOOLEAN
    /\ chip \in [Chips -> {"absent", "up", "stopped", "down"}]
    /\ todo \in [Chips -> Seq(Requests)] /\ ack_due \in BOOLEAN
DevTypes ==
    /\ running \subseteq Devs /\ phylink \in [Devs -> {"null", "stopped", "started"}]
    /\ dma_refcnt \in Nat /\ dma \in {"off", "on", "stale"} /\ rtnl \in {"free", "work", "dead"}
    /\ mux \in [Devs -> {"idle", "stop", "setbit", "create", "open"}]
WorkTypes ==
    /\ queued \in BOOLEAN /\ pc \in Labels /\ told \in Asks \cup {None} /\ restart \subseteq Devs
    /\ mon \in Asks \cup {None, "gdm", "test"} /\ dbg \in [ask : Asks, eth : BOOLEAN] \cup {None}
    /\ hang \in Hangs \cup {None} /\ v3 \in BOOLEAN

\* The type invariant, in parts.
LEMMA Parts ==
    /\ TypeOK <=> FlagTypes /\ WifiTypes /\ DevTypes /\ WorkTypes
    /\ TypeOK' <=> FlagTypes' /\ WifiTypes' /\ DevTypes' /\ WorkTypes'
BY DEF TypeOK, FlagTypes, WifiTypes, DevTypes, WorkTypes

\* Sets of devices and of chips can be counted.
LEMMA Countable ==
    /\ \A S \in SUBSET Devs : IsFiniteSet(S) /\ Cardinality(S) \in Nat
    /\ \A S \in SUBSET Chips :
           IsFiniteSet(S) /\ Cardinality(S) \in Nat /\ Cardinality(S) <= Cardinality(Chips)
<1>1. \A S \in SUBSET Devs : IsFiniteSet(S) /\ Cardinality(S) \in Nat
  BY DevAssumption, FS_Subset, FS_CardinalityType
<1>2. ASSUME NEW S \in SUBSET Chips
      PROVE  IsFiniteSet(S) /\ Cardinality(S) \in Nat /\ Cardinality(S) <= Cardinality(Chips)
  BY ChipAssumption, FS_Subset, FS_CardinalityType
<1> QED  BY <1>1, <1>2

\* What opening or closing devices leaves of the types.
LEMMA DevicesTypes ==
    ASSUME DevTypes, NEW S \in SUBSET Devs, StopDevs(S) \/ OpenDevs(S)
    PROVE  /\ phylink' \in [Devs -> {"null", "stopped", "started"}]
           /\ dma_refcnt' \in Nat /\ dma' \in {"off", "on", "stale"}
           /\ rtnl' \in {rtnl, "dead"} /\ rtnl' \in {"free", "work", "dead"}
<1>1. Cardinality(S) \in Nat
  BY Countable
<1>2. /\ phylink \in [Devs -> {"null", "stopped", "started"}]
      /\ dma_refcnt \in Nat /\ dma \in {"off", "on", "stale"} /\ rtnl \in {"free", "work", "dead"}
  BY DEF DevTypes
<1>3. /\ SetPhylink(S, "stopped") \/ SetPhylink(S, "started")
      /\ RtnlAfter(S) /\ dma' \in {dma, "off", "on"}
      /\ \/ dma_refcnt' = IF dma_refcnt > Cardinality(S) THEN dma_refcnt - Cardinality(S) ELSE 0
         \/ dma_refcnt' = dma_refcnt + Cardinality(S)
  BY DEF StopDevs, OpenDevs, RefAfterStop
<1>4. phylink' \in [Devs -> {"null", "stopped", "started"}]
  BY <1>2, <1>3 DEF SetPhylink
<1>5. dma_refcnt' \in Nat
  BY <1>1, <1>2, <1>3
<1>6. dma' \in {"off", "on", "stale"}
  BY <1>2, <1>3
<1>7. rtnl' \in {rtnl, "dead"} /\ rtnl' \in {"free", "work", "dead"}
  BY <1>2, <1>3 DEF RtnlAfter
<1> QED  BY <1>4, <1>5, <1>6, <1>7

\* The kinds of what devices and chips are upset by.
LEMMA UpsetTypes ==
    /\ \A d \in Devs : MuxUpset(d) \subseteq Upsets /\ UserUpset(d) \subseteq Upsets
    /\ OpenUpset \subseteq Upsets /\ LateUpset \subseteq Upsets
    /\ \A c \in Chips : FailUpset(c) \subseteq Upsets
    /\ \A S \in SUBSET Devs : UNION {MuxUpset(d) : d \in S} \subseteq Upsets
BY DEF MuxUpset, UserUpset, OpenUpset, LateUpset, FailUpset, Upsets

\* The bound of events.
LEMMA EventTypes == FlagTypes /\ Spend => events' \in 0..MaxEvents /\ events' = events - 1
BY EventAssumption DEF FlagTypes, Spend

\* What is told is put on the lists of the chips.
LEMMA TellTypes ==
    ASSUME WifiTypes, NEW what \in Requests, Tell(what)
    PROVE  todo' \in [Chips -> Seq(Requests)]
BY DEF WifiTypes, Tell

----------------------------------------------------------------------------
(* Who changes what.                                                        *)

\* Steps of the users, of the muxes and of the chips, each with its device or chip.
DevStep(d)  == UserOpen(d) \/ UserClose(d)
MoveStep(c) == ChipOnline(c) \/ ChipOffline(c)
\* Triggers: nothing but flags, bounds and the state of the triggers themselves.
Trigger ==
    \/ MonitorStep \/ DebugStore \/ TxTimeout \/ MacConfig \/ PageEndIrq \/ StartResetInit
    \/ \E h \in Hangs : Hang(h)
    \/ \E f \in {0, 1} : DebugForce(f)
    \/ \E ask \in Asks, eth \in BOOLEAN : DebugTest(ask, eth)

\* The next-state relation, by kinds of steps.
LEMMA Steps ==
    Next => \/ WorkStep \/ Trigger \/ WifiAck
            \/ \E d \in Devs : DevStep(d) \/ MuxPoll(d) \/ MuxStep(d)
            \/ \E c \in Chips : MoveStep(c) \/ ChipStep(c)
BY DevAssumption DEF Next, Outside, Trigger, DevStep, MoveStep

\* What a trigger leaves alone, and what it does to the event.
LEMMA TriggerFrame ==
    ASSUME Trigger
    PROVE  /\ UNCHANGED <<reset_lock, resetting, wifi, devs, rtnl, worker, mux, chips, v3>>
           /\ upset \subseteq upset'
           /\ UNCHANGED <<event, rstctrl_eth>> \/ "late" \in upset' \/ reset_lock = 0
<1>1. CASE MonitorStep
  BY <1>1 DEF MonitorStep, MonitorPoll, MonitorGdm, MonitorTest, MonitorStore, LateUpset, flags
<1>2. CASE DebugStore
  BY <1>2 DEF DebugStore, LateUpset
<1>3. CASE TxTimeout \/ MacConfig \/ PageEndIrq \/ StartResetInit
  BY <1>3 DEF TxTimeout, MacConfig, PageEndIrq, StartResetInit, flags, others
<1>4. CASE \E h \in Hangs : Hang(h)
  BY <1>4 DEF Hang, flags, others
<1>5. CASE \E f \in {0, 1} : DebugForce(f)
  BY <1>5 DEF DebugForce, others
<1>6. CASE \E ask \in Asks, eth \in BOOLEAN : DebugTest(ask, eth)
  BY <1>6 DEF DebugTest, flags
<1> QED  BY <1>1, <1>2, <1>3, <1>4, <1>5, <1>6 DEF Trigger

\* What the users, the muxes and the chips leave alone.
LEMMA DevFrame ==
    ASSUME NEW d \in Devs, DevStep(d)
    PROVE  /\ UNCHANGED <<flags, wifi, queued, worker, others, chips, hang, v3>>
           /\ upset \subseteq upset' /\ rtnl = "free"
BY DEF DevStep, UserOpen, UserClose, OpenFails

\* A mux may take and give back MTK_RESETTING.
LEMMA MuxFrame ==
    ASSUME NEW d \in Devs, MuxPoll(d) \/ MuxStep(d)
    PROVE  /\ UNCHANGED <<reset_lock, force, event, rstctrl_eth, wifi, queued, worker, mon, dbg,
                         chips, hang, v3>>
           /\ UNCHANGED running /\ upset \subseteq upset'
BY DEF MuxPoll, MuxStep, MuxStop, MuxSetBit, MuxCreate, MuxOpen, OpenFails, flags, devs

\* Chips that come and go, answer and acknowledge.
LEMMA ChipFrame ==
    ASSUME WifiAck \/ \E c \in Chips : MoveStep(c) \/ ChipStep(c)
    PROVE  /\ UNCHANGED <<reset_lock, force, rstctrl_eth, resetting, devs, rtnl, queued, worker,
                         others, hang, v3>>
           /\ upset \subseteq upset'
BY DEF WifiAck, MoveStep, ChipOnline, ChipOffline, ChipMove, ChipStep, ChipStops, ChipResets,
       ChipResumes, flags

\* The work.
LEMMA WorkFrame ==
    ASSUME WorkStep
    PROVE  /\ UNCHANGED <<others, chip, v3>> /\ UNCHANGED <<force, mtk_wifi_num>>
           /\ upset \subseteq upset'
<1>1. CASE WorkStart \/ WorkCheck \/ WorkLock \/ WorkSetBit \/ WorkNotify \/ WorkWifi
  BY <1>1 DEF WorkStart, WorkCheck, WorkLock, WorkSetBit, WorkNotify, WorkWifi, flags, wifi, chips
<1>2. CASE WorkWaitSer \/ WorkAgain \/ WorkWaitAgain \/ WorkStop \/ WorkHwInit
  BY <1>2 DEF WorkWaitSer, WorkAgain, WorkWaitAgain, WorkStop, WorkHwInit, flags, wifi, chips
<1>3. CASE WorkOpen \/ WorkDone \/ WorkWaitAck \/ WorkFinish
  BY <1>3 DEF WorkOpen, WorkDone, WorkWaitAck, WorkFinish, flags, wifi, chips
<1> QED  BY <1>1, <1>2, <1>3 DEF WorkStep

\* What is upset stays so, and the SoC is the same.
LEMMA Grows == Next => upset \subseteq upset' /\ v3' = v3
BY Steps, TriggerFrame, DevFrame, MuxFrame, ChipFrame, WorkFrame

----------------------------------------------------------------------------
(* What is counted.                                                         *)

\* reset_lock is up for the time of the work; what turns the forced reset on or counts it up
\* takes an event; mtk_wifi_num is the number of chips that are online.
LockCount  == reset_lock = IF pc = "idle" THEN 0 ELSE 1
ForceCount == force \in Nat /\ events \in 0..MaxEvents /\ force + events <= MaxEvents + 2
ChipCount  ==
    /\ mtk_wifi_num = Cardinality(Online)
    /\ \A c \in Chips \ Online : todo[c] = <<>>

\* Only the work moves reset_lock.
LEMMA LockCountStep == ASSUME TypeOK, LockCount, Next PROVE LockCount'
<1>1. CASE ~WorkStep
  <2>1. UNCHANGED <<reset_lock, pc>>
    BY <1>1, Steps, TriggerFrame, DevFrame, MuxFrame, ChipFrame DEF worker, flags
  <2> QED  BY <2>1 DEF LockCount
<1>2. CASE WorkStart \/ WorkCheck \/ WorkFinish
  BY <1>2 DEF WorkStart, WorkCheck, WorkFinish, LockCount
<1>3. CASE WorkLock \/ WorkSetBit \/ WorkNotify \/ WorkWifi \/ WorkWaitSer \/ WorkAgain
  BY <1>3 DEF WorkLock, WorkSetBit, WorkNotify, WorkWifi, WorkWaitSer, WorkAgain, flags, LockCount
<1>4. CASE WorkWaitAgain \/ WorkStop \/ WorkHwInit \/ WorkOpen \/ WorkDone \/ WorkWaitAck
  BY <1>4 DEF WorkWaitAgain, WorkStop, WorkHwInit, WorkOpen, WorkDone, WorkWaitAck, flags,
              LockCount
<1> QED  BY <1>1, <1>2, <1>3, <1>4 DEF WorkStep

\* An event is spent or not.
LEMMA Spending == ASSUME Next PROVE Spend \/ UNCHANGED events
<1>1. CASE WorkStart \/ WorkCheck \/ WorkLock \/ WorkSetBit \/ WorkNotify \/ WorkWifi
  BY <1>1 DEF WorkStart, WorkCheck, WorkLock, WorkSetBit, WorkNotify, WorkWifi
<1>2. CASE WorkWaitSer \/ WorkAgain \/ WorkWaitAgain \/ WorkStop \/ WorkHwInit
  BY <1>2 DEF WorkWaitSer, WorkAgain, WorkWaitAgain, WorkStop, WorkHwInit
<1>3. CASE WorkOpen \/ WorkDone \/ WorkWaitAck \/ WorkFinish
  BY <1>3 DEF WorkOpen, WorkDone, WorkWaitAck, WorkFinish
<1>4. CASE Trigger
  BY <1>4 DEF Trigger, MonitorStep, MonitorPoll, MonitorGdm, MonitorTest, MonitorStore, DebugStore,
              TxTimeout, MacConfig, PageEndIrq, StartResetInit, Hang, DebugForce, DebugTest
<1>5. ASSUME NEW d \in Devs, DevStep(d) \/ MuxPoll(d) \/ MuxStep(d) PROVE Spend \/ UNCHANGED events
  BY <1>5 DEF DevStep, UserOpen, UserClose, OpenFails, MuxPoll, MuxStep, MuxStop, MuxSetBit,
              MuxCreate, MuxOpen
<1>6. ASSUME NEW c \in Chips, MoveStep(c) \/ ChipStep(c) PROVE Spend \/ UNCHANGED events
  BY <1>6 DEF MoveStep, ChipOnline, ChipOffline, ChipMove, ChipStep, ChipStops, ChipResets,
              ChipResumes
<1>7. CASE WifiAck
  BY <1>7 DEF WifiAck
<1> QED  BY Steps, <1>1, <1>2, <1>3, <1>4, <1>5, <1>6, <1>7 DEF WorkStep

\* Whoever raises the forced reset spends an event.
LEMMA ForceCountStep == ASSUME ForceCount, Next PROVE ForceCount'
<1>1. /\ force \in Nat /\ events \in 0..MaxEvents /\ force + events <= MaxEvents + 2
      /\ MaxEvents \in Nat
  BY EventAssumption DEF ForceCount
<1>2. events' = events \/ (events > 0 /\ events' = events - 1)
  BY Spending DEF Spend
<1>3. force' \in {force, 0, 1} \/ (Spend /\ force' \in {2, force + 1})
  <2>1. CASE ~Trigger
    BY <2>1, Steps, DevFrame, MuxFrame, ChipFrame, WorkFrame DEF flags
  <2>2. CASE MonitorStep \/ DebugStore \/ TxTimeout
    BY <2>2 DEF MonitorStep, MonitorPoll, MonitorGdm, MonitorTest, MonitorStore, DebugStore,
                TxTimeout, flags
  <2>3. CASE MacConfig \/ PageEndIrq \/ StartResetInit
    BY <2>3 DEF MacConfig, PageEndIrq, StartResetInit
  <2>4. CASE \E h \in Hangs : Hang(h)
    BY <2>4 DEF Hang, flags
  <2>5. CASE \E f \in {0, 1} : DebugForce(f)
    BY <2>5 DEF DebugForce
  <2>6. CASE \E ask \in Asks, eth \in BOOLEAN : DebugTest(ask, eth)
    BY <2>6 DEF DebugTest, flags
  <2> QED  BY <2>1, <2>2, <2>3, <2>4, <2>5, <2>6 DEF Trigger
<1>4. Spend => events > 0 /\ events' = events - 1
  BY DEF Spend
<1>5. events' \in 0..MaxEvents
  BY <1>1, <1>2
<1>6. force' \in Nat /\ force' + events' <= MaxEvents + 2
  <2>1. CASE force' \in {force, 0, 1}
    BY <1>1, <1>2, <2>1
  <2>2. CASE Spend /\ force' \in {2, force + 1}
    <3>1. events > 0 /\ events' = events - 1 /\ events \in Int /\ events <= MaxEvents
      BY <1>1, <1>4, <2>2
    <3>2. CASE force' = 2
      BY <1>1, <3>1, <3>2
    <3>3. CASE force' = force + 1
      BY <1>1, <3>1, <3>3
    <3> QED  BY <2>2, <3>2, <3>3
  <2> QED  BY <1>3, <2>1, <2>2
<1> QED  BY <1>5, <1>6 DEF ForceCount

\* The chips that are online after a chip has moved.
LEMMA MoveOnline ==
    ASSUME TypeOK, NEW c \in Chips, MoveStep(c)
    PROVE  /\ IsFiniteSet(Online) /\ Cardinality(Online) \in Nat
           /\ \/ /\ c \notin Online /\ Online' = Online \cup {c} /\ mtk_wifi_num' = mtk_wifi_num + 1
                 /\ chip' = [chip EXCEPT ![c] = "up"]
                 /\ Cardinality(Online') = Cardinality(Online) + 1
              \/ /\ c \in Online /\ Online' = Online \ {c} /\ mtk_wifi_num' = mtk_wifi_num - 1
                 /\ chip' = [chip EXCEPT ![c] = "absent"]
                 /\ Cardinality(Online') = Cardinality(Online) - 1
<1>1. chip \in [Chips -> {"absent", "up", "stopped", "down"}]
  BY DEF TypeOK
<1>2. IsFiniteSet(Online) /\ Cardinality(Online) \in Nat
  BY Countable DEF Online
<1>3. \/ /\ c \notin Online /\ Online' = Online \cup {c} /\ mtk_wifi_num' = mtk_wifi_num + 1
         /\ chip' = [chip EXCEPT ![c] = "up"]
      \/ /\ c \in Online /\ Online' = Online \ {c} /\ mtk_wifi_num' = mtk_wifi_num - 1
         /\ chip' = [chip EXCEPT ![c] = "absent"]
  BY <1>1 DEF MoveStep, ChipOnline, ChipOffline, ChipMove, Online
<1>4. c \notin Online => Cardinality(Online \cup {c}) = Cardinality(Online) + 1
  BY <1>2, FS_AddElement
<1>5. c \in Online => Cardinality(Online \ {c}) = Cardinality(Online) - 1
  BY <1>2, FS_RemoveElement
<1> QED  BY <1>2, <1>3, <1>4, <1>5

\* A step of a chip that is online leaves it there.
LEMMA StepOnline ==
    ASSUME TypeOK, ChipCount, NEW c \in Chips, ChipStep(c)
    PROVE  c \in Online /\ Online' = Online /\ todo' = [todo EXCEPT ![c] = Tail(todo[c])]
<1>1. chip \in [Chips -> {"absent", "up", "stopped", "down"}]
  BY DEF TypeOK
<1>2. todo[c] # <<>> /\ todo' = [todo EXCEPT ![c] = Tail(todo[c])]
  BY DEF ChipStep, ChipStops, ChipResets, ChipResumes
<1>3. c \in Online
  BY <1>2 DEF ChipCount
<1>4. chip' = chip \/ \E to \in {"stopped", "down", "up"} : chip' = [chip EXCEPT ![c] = to]
  BY <1>1, <1>3 DEF ChipStep, ChipStops, ChipResets, ChipResumes, Online
<1> QED  BY <1>1, <1>2, <1>3, <1>4 DEF Online

\* Chips are counted as they come and go, and those that are gone are told nothing.
LEMMA ChipCountStep == ASSUME TypeOK, ChipCount, Next PROVE ChipCount'
<1>1. todo \in [Chips -> Seq(Requests)] /\ Online \subseteq Chips
  BY DEF TypeOK, Online
<1>2. ASSUME UNCHANGED <<chip, mtk_wifi_num>>, \A c \in Chips \ Online : todo'[c] = todo[c]
      PROVE  ChipCount'
  BY <1>2 DEF ChipCount, Online
<1>3. CASE WorkStep
  <2>1. UNCHANGED <<chip, mtk_wifi_num>>
    BY <1>3, WorkFrame
  <2>2. \A c \in Chips \ Online : todo'[c] = todo[c]
    <3>1. CASE WorkNotify \/ WorkAgain \/ WorkDone
      BY <3>1 DEF WorkNotify, WorkAgain, WorkDone, Tell
    <3>2. CASE ~(WorkNotify \/ WorkAgain \/ WorkDone)
      BY <1>3, <3>2 DEF WorkStep, WorkStart, WorkCheck, WorkLock, WorkSetBit, WorkWifi, WorkWaitSer,
         WorkWaitAgain, WorkStop, WorkHwInit, WorkOpen, WorkWaitAck, WorkFinish, chips
    <3> QED  BY <3>1, <3>2
  <2> QED  BY <1>2, <2>1, <2>2
<1>4. CASE Trigger \/ WifiAck \/ \E d \in Devs : DevStep(d) \/ MuxPoll(d) \/ MuxStep(d)
  <2>1. UNCHANGED <<chip, mtk_wifi_num, todo>>
    BY <1>4, TriggerFrame, DevFrame, MuxFrame DEF chips, wifi, WifiAck
  <2> QED  BY <1>2, <2>1
<1>5. CASE \E c \in Chips : ChipStep(c)
  <2>1. PICK c \in Chips : ChipStep(c)
    BY <1>5
  <2>2. mtk_wifi_num' = mtk_wifi_num
    BY <2>1 DEF ChipStep, ChipStops, ChipResets, ChipResumes, wifi
  <2>3. c \in Online /\ Online' = Online /\ todo' = [todo EXCEPT ![c] = Tail(todo[c])]
    BY <2>1, StepOnline
  <2> QED  BY <1>1, <2>2, <2>3 DEF ChipCount
<1>6. CASE \E c \in Chips : MoveStep(c)
  <2>1. PICK c \in Chips : MoveStep(c)
    BY <1>6
  <2>2. todo' = [todo EXCEPT ![c] = <<>>]
    BY <2>1 DEF MoveStep, ChipOnline, ChipOffline, ChipMove
  <2>3. /\ mtk_wifi_num = Cardinality(Online) /\ Cardinality(Online) \in Nat
        /\ mtk_wifi_num' = Cardinality(Online')
    BY <2>1, MoveOnline DEF ChipCount
  <2>4. Online' = Online \cup {c} \/ Online' = Online \ {c}
    BY <2>1, MoveOnline
  <2> QED  BY <1>1, <2>2, <2>3, <2>4 DEF ChipCount
<1> QED  BY <1>3, <1>4, <1>5, <1>6, Steps

----------------------------------------------------------------------------
(* Every step keeps the types.                                              *)

\* The flags.
LEMMA FlagStep ==
    ASSUME TypeOK, Next, LockCount', ForceCount'
    PROVE  FlagTypes'
<1>1. FlagTypes /\ WorkTypes
  BY Parts
<1>2. reset_lock' \in {0, 1}
  BY DEF LockCount
<1>3. force' \in 0..(MaxEvents + 2) /\ events' \in 0..MaxEvents
  <2>1. /\ MaxEvents \in Nat /\ force' \in Nat /\ events' \in 0..MaxEvents
        /\ force' + events' <= MaxEvents + 2
    BY EventAssumption DEF ForceCount
  <2>2. \A f, e, m \in Nat : f + e <= m + 2 => f <= m + 2
    OBVIOUS
  <2>3. events' \in Nat
    BY <2>1
  <2>4. force' <= MaxEvents + 2
    BY <2>1, <2>2, <2>3
  <2> QED  BY <2>1, <2>4
<1>4. /\ event' \in Asks \cup {None} /\ rstctrl_eth' \in BOOLEAN /\ resetting' \in BOOLEAN
      /\ upset' \subseteq Upsets
  <2>0. /\ event \in Asks \cup {None} /\ rstctrl_eth \in BOOLEAN /\ resetting \in BOOLEAN
        /\ upset \subseteq Upsets
    BY <1>1 DEF FlagTypes
  <2>1. CASE WorkStep
    <3>1. CASE WorkStart \/ WorkCheck \/ WorkLock \/ WorkSetBit \/ WorkNotify \/ WorkWifi
      BY <2>0, <3>1 DEF WorkStart, WorkCheck, WorkLock, WorkSetBit, WorkNotify, WorkWifi, flags
    <3>2. CASE WorkWaitSer \/ WorkAgain \/ WorkWaitAgain \/ WorkHwInit \/ WorkDone \/ WorkWaitAck
      BY <2>0, <3>2 DEF WorkWaitSer, WorkAgain, WorkWaitAgain, WorkHwInit, WorkDone, WorkWaitAck,
                        flags
    <3>3. CASE WorkStop
      <4>1. restart' = running /\ running \in SUBSET Devs
        BY <3>3, Parts DEF WorkStop, DevTypes
      <4>2. UNION {MuxUpset(d) : d \in running} \subseteq Upsets
        BY <4>1, UpsetTypes
      <4> QED  BY <2>0, <3>3, <4>2 DEF WorkStop, flags
    <3>4. CASE WorkOpen \/ WorkFinish
      BY <2>0, <3>4, UpsetTypes DEF WorkOpen, WorkFinish, flags
    <3> QED  BY <2>1, <3>1, <3>2, <3>3, <3>4 DEF WorkStep
  <2>2. CASE Trigger
    <3>1. CASE MonitorStep \/ DebugStore
      BY <1>1, <2>0, <3>1, UpsetTypes DEF MonitorStep, MonitorPoll, MonitorGdm, MonitorTest,
         MonitorStore, DebugStore, WorkTypes, flags
    <3>2. CASE TxTimeout \/ MacConfig \/ PageEndIrq \/ StartResetInit
      BY <2>0, <3>2 DEF TxTimeout, MacConfig, PageEndIrq, StartResetInit, flags, Upsets, Asks
    <3>3. CASE \E h \in Hangs : Hang(h)
      BY <2>0, <3>3 DEF Hang, flags
    <3>4. CASE \E f \in {0, 1} : DebugForce(f)
      BY <2>0, <3>4 DEF DebugForce, Upsets
    <3>5. CASE \E ask \in Asks, eth \in BOOLEAN : DebugTest(ask, eth)
      BY <2>0, <3>5 DEF DebugTest, flags
    <3> QED  BY <2>2, <3>1, <3>2, <3>3, <3>4, <3>5 DEF Trigger
  <2>3. ASSUME NEW d \in Devs, DevStep(d)
        PROVE  UNCHANGED <<event, rstctrl_eth, resetting>> /\ upset' \subseteq Upsets
    BY <2>0, <2>3, UpsetTypes DEF DevStep, UserOpen, UserClose, OpenFails, flags, Upsets
  <2>4. ASSUME NEW d \in Devs, MuxPoll(d) \/ MuxStep(d)
        PROVE  /\ UNCHANGED <<event, rstctrl_eth>> /\ resetting' \in BOOLEAN
               /\ upset' \subseteq Upsets
    BY <2>0, <2>4, UpsetTypes DEF MuxPoll, MuxStep, MuxStop, MuxSetBit, MuxCreate, MuxOpen,
       OpenFails, flags, Upsets
  <2>5. ASSUME NEW c \in Chips, MoveStep(c)
        PROVE  UNCHANGED <<event, rstctrl_eth, resetting>> /\ upset' \subseteq Upsets
    BY <2>0, <2>5 DEF MoveStep, ChipOnline, ChipOffline, ChipMove, flags, Upsets
  <2>6. ASSUME NEW c \in Chips, ChipStep(c)
        PROVE  /\ event' \in Asks \cup {None} /\ UNCHANGED <<rstctrl_eth, resetting>>
               /\ upset' \subseteq Upsets
    BY <2>0, <2>6, UpsetTypes DEF ChipStep, ChipStops, ChipResets, ChipResumes, AnswerDone,
       AnswerFail, flags, Asks
  <2>7. WifiAck => UNCHANGED <<event, rstctrl_eth, resetting, upset>>
    BY DEF WifiAck, flags
  <2> QED  BY <2>0, <2>1, <2>2, <2>3, <2>4, <2>5, <2>6, <2>7, Steps
<1> QED  BY <1>2, <1>3, <1>4 DEF FlagTypes

\* The handshake with the chips.
LEMMA WifiStep ==
    ASSUME TypeOK, Next, ChipCount, ChipCount'
    PROVE  WifiTypes'
<1>1. WifiTypes /\ FlagTypes
  BY Parts
<1>2. mtk_wifi_num \in Int /\ (chip' \in [Chips -> {"absent", "up", "stopped", "down"}] =>
          mtk_wifi_num' \in 0..Cardinality(Chips))
  <2>1. mtk_wifi_num' = Cardinality(Online')
    BY DEF ChipCount
  <2>2. Online' \in SUBSET Chips
    BY DEF Online
  <2>3. Cardinality(Online') \in 0..Cardinality(Chips)
    BY <2>2, Countable
  <2> QED  BY <1>1, <2>1, <2>3 DEF WifiTypes
<1>3. /\ wait_ser_done \in Nat /\ wait_ack_done \in Nat /\ mtk_rest_cnt \in Int
      /\ mtk_stop_fail \in BOOLEAN /\ chip \in [Chips -> {"absent", "up", "stopped", "down"}]
      /\ todo \in [Chips -> Seq(Requests)] /\ ack_due \in BOOLEAN
  BY <1>1 DEF WifiTypes
<1>4. CASE WorkStep
  <2>1. wait_ser_done' \in Nat /\ wait_ack_done' \in Nat /\ UNCHANGED mtk_rest_cnt
    BY <1>3, <1>4 DEF WorkStep, WorkStart, WorkCheck, WorkLock, WorkSetBit, WorkNotify, WorkWifi,
       WorkWaitSer, WorkAgain, WorkWaitAgain, WorkStop, WorkHwInit, WorkOpen, WorkDone, WorkWaitAck,
       WorkFinish, wifi
  <2>2. mtk_stop_fail' \in BOOLEAN /\ chip' = chip
    BY <1>3, <1>4, WorkFrame DEF WorkStep, WorkStart, WorkCheck, WorkLock, WorkSetBit, WorkNotify,
       WorkWifi, WorkWaitSer, WorkAgain, WorkWaitAgain, WorkStop, WorkHwInit, WorkOpen, WorkDone,
       WorkWaitAck, WorkFinish, wifi
  <2>3. todo' \in [Chips -> Seq(Requests)]
    <3>1. UNCHANGED todo \/ \E what \in Requests : Tell(what)
      BY <1>4 DEF WorkStep, WorkStart, WorkCheck, WorkLock, WorkSetBit, WorkNotify, WorkWifi,
         WorkWaitSer, WorkAgain, WorkWaitAgain, WorkStop, WorkHwInit, WorkOpen, WorkDone,
         WorkWaitAck, WorkFinish, chips, Requests, Asks
    <3> QED  BY <1>1, <1>3, <3>1, TellTypes
  <2>4. ack_due' \in BOOLEAN
    BY <1>3, <1>4 DEF WorkStep, WorkStart, WorkCheck, WorkLock, WorkSetBit, WorkNotify, WorkWifi,
       WorkWaitSer, WorkAgain, WorkWaitAgain, WorkStop, WorkHwInit, WorkOpen, WorkDone, WorkWaitAck,
       WorkFinish, chips
  <2> QED  BY <1>2, <1>3, <2>1, <2>2, <2>3, <2>4 DEF WifiTypes
<1>5. CASE Trigger \/ \E d \in Devs : DevStep(d) \/ MuxPoll(d) \/ MuxStep(d)
  <2>1. UNCHANGED <<wifi, chips>>
    BY <1>5, TriggerFrame, DevFrame, MuxFrame
  <2> QED  BY <1>1, <2>1 DEF WifiTypes, wifi, chips
<1>6. CASE WifiAck
  <2>1. /\ wait_ack_done' = wait_ack_done + 1 /\ ack_due' = FALSE
        /\ UNCHANGED <<wait_ser_done, mtk_rest_cnt, mtk_wifi_num, mtk_stop_fail, chip, todo>>
    BY <1>6 DEF WifiAck
  <2>2. wait_ack_done' \in Nat
    BY <1>3, <2>1
  <2>3. ack_due' \in BOOLEAN
    BY <2>1
  <2> QED  BY <1>2, <1>3, <2>1, <2>2, <2>3 DEF WifiTypes
<1>7. CASE \E c \in Chips : MoveStep(c)
  <2>1. PICK c \in Chips : MoveStep(c)
    BY <1>7
  <2>2. /\ UNCHANGED <<wait_ser_done, wait_ack_done, mtk_stop_fail, ack_due>>
        /\ mtk_rest_cnt' = mtk_wifi_num' /\ todo' = [todo EXCEPT ![c] = <<>>]
        /\ \E to \in {"up", "absent"} : chip' = [chip EXCEPT ![c] = to]
    BY <2>1 DEF MoveStep, ChipOnline, ChipOffline, ChipMove
  <2>3. /\ chip' \in [Chips -> {"absent", "up", "stopped", "down"}]
        /\ todo' \in [Chips -> Seq(Requests)]
    BY <1>3, <2>2
  <2>4. mtk_wifi_num' \in 0..Cardinality(Chips) /\ mtk_rest_cnt' \in Int
    BY <1>2, <2>2, <2>3
  <2> QED  BY <1>3, <2>2, <2>3, <2>4 DEF WifiTypes
<1>8. CASE \E c \in Chips : ChipStep(c)
  <2>1. PICK c \in Chips : ChipStep(c)
    BY <1>8
  <2>2. /\ UNCHANGED <<wait_ack_done, mtk_wifi_num, ack_due>> /\ mtk_stop_fail' \in BOOLEAN
        /\ wait_ser_done' \in {wait_ser_done, wait_ser_done + 1}
        /\ mtk_rest_cnt' \in {mtk_rest_cnt, mtk_wifi_num, mtk_rest_cnt - 1}
    BY <1>3, <2>1 DEF ChipStep, ChipStops, ChipResets, ChipResumes, AnswerDone, AnswerFail, wifi
  <2>3. todo' = [todo EXCEPT ![c] = Tail(todo[c])] /\ todo[c] # <<>>
    BY <2>1 DEF ChipStep, ChipStops, ChipResets, ChipResumes
  <2>4. todo' \in [Chips -> Seq(Requests)]
    <3>1. todo[c] \in Seq(Requests) /\ Tail(todo[c]) \in Seq(Requests)
      BY <1>3, <2>3
    <3> QED  BY <1>3, <2>3, <3>1
  <2>5. chip' \in [Chips -> {"absent", "up", "stopped", "down"}]
    BY <1>3, <2>1 DEF ChipStep, ChipStops, ChipResets, ChipResumes
  <2>6. wait_ser_done' \in Nat /\ mtk_rest_cnt' \in Int /\ mtk_wifi_num' \in 0..Cardinality(Chips)
    BY <1>2, <1>3, <2>2, <2>5
  <2> QED  BY <1>3, <2>2, <2>4, <2>5, <2>6 DEF WifiTypes
<1> QED  BY <1>4, <1>5, <1>6, <1>7, <1>8, Steps

\* The devices.
LEMMA DevicesStep == ASSUME TypeOK, Next PROVE DevTypes'
<1>1. DevTypes
  BY Parts
<1>2. /\ running \subseteq Devs /\ phylink \in [Devs -> {"null", "stopped", "started"}]
      /\ dma_refcnt \in Nat /\ dma \in {"off", "on", "stale"} /\ rtnl \in {"free", "work", "dead"}
      /\ mux \in [Devs -> {"idle", "stop", "setbit", "create", "open"}] /\ restart \subseteq Devs
  BY <1>1, Parts DEF DevTypes, WorkTypes
<1>3. CASE Trigger \/ WifiAck \/ \E c \in Chips : MoveStep(c) \/ ChipStep(c)
  <2>1. UNCHANGED <<devs, rtnl, mux>>
    BY <1>3, TriggerFrame, ChipFrame DEF others
  <2> QED  BY <1>1, <2>1 DEF DevTypes, devs
<1>4. ASSUME NEW S \in SUBSET Devs, StopDevs(S) \/ OpenDevs(S), UNCHANGED mux,
             running' \subseteq Devs
      PROVE  DevTypes'
  BY <1>1, <1>2, <1>4, DevicesTypes DEF DevTypes
<1>5. ASSUME NEW d \in Devs, OpenFails(d),
             mux' \in [Devs -> {"idle", "stop", "setbit", "create", "open"}]
      PROVE  DevTypes'
  <2>1. \/ UNCHANGED <<devs, rtnl>>
        \/ /\ dma_refcnt' = dma_refcnt + 1 /\ dma' \in {"on", dma}
           /\ UNCHANGED <<running, phylink, rtnl>>
    BY <1>5 DEF OpenFails
  <2> QED  BY <1>2, <1>5, <2>1 DEF DevTypes, devs
<1>6. CASE WorkStep
  <2>1. mux' = mux
    BY <1>6, WorkFrame DEF others
  <2>2. CASE WorkStop
    <3>1. StopDevs(running) /\ running' = running
      BY <2>2 DEF WorkStop
    <3> QED  BY <1>2, <1>4, <2>1, <3>1
  <2>3. CASE WorkOpen
    <3>1. PICK F \in SUBSET restart : running' = running \ F /\ OpenDevs(restart \ F)
      BY <2>3 DEF WorkOpen
    <3> QED  BY <1>2, <1>4, <2>1, <3>1
  <2>4. CASE WorkHwInit
    BY <1>2, <2>1, <2>4 DEF WorkHwInit, DevTypes
  <2>5. CASE ~(WorkStop \/ WorkOpen \/ WorkHwInit)
    <3>1. UNCHANGED devs /\ rtnl' \in {rtnl, "free", "work"}
      BY <1>6, <2>5 DEF WorkStep, WorkStart, WorkCheck, WorkLock, WorkSetBit, WorkNotify, WorkWifi,
         WorkWaitSer, WorkAgain, WorkWaitAgain, WorkDone, WorkWaitAck, WorkFinish
    <3> QED  BY <1>2, <2>1, <3>1 DEF DevTypes, devs
  <2> QED  BY <2>2, <2>3, <2>4, <2>5
<1>7. ASSUME NEW d \in Devs, DevStep(d) PROVE DevTypes'
  <2>1. mux' = mux
    BY <1>7, DevFrame DEF others
  <2>2. \/ running' \in {running \cup {d}, running \ {d}} /\ (StopDevs({d}) \/ OpenDevs({d}))
        \/ OpenFails(d)
    BY <1>7 DEF DevStep, UserOpen, UserClose
  <2>3. running \cup {d} \subseteq Devs /\ running \ {d} \subseteq Devs /\ {d} \in SUBSET Devs
    BY <1>2
  <2> QED  BY <1>2, <1>4, <1>5, <2>1, <2>2, <2>3
<1>8. ASSUME NEW d \in Devs, MuxPoll(d) \/ MuxStep(d) PROVE DevTypes'
  <2>1. running' = running /\ running' \subseteq Devs
    BY <1>2, <1>8, MuxFrame
  <2>2. \E to \in {"idle", "stop", "setbit", "create", "open"} : mux' = [mux EXCEPT ![d] = to]
    BY <1>8 DEF MuxPoll, MuxStep, MuxStop, MuxSetBit, MuxCreate, MuxOpen, MuxPc
  <2>3. mux' \in [Devs -> {"idle", "stop", "setbit", "create", "open"}]
    BY <1>2, <2>2
  <2>4. CASE MuxStop(d) \/ (MuxOpen(d) /\ OpenDevs({d}))
    <3>1. StopDevs({d}) \/ OpenDevs({d})
      BY <2>4 DEF MuxStop
    <3> QED  BY <1>1, <1>2, <2>1, <2>3, <3>1, DevicesTypes DEF DevTypes
  <2>5. CASE MuxOpen(d) /\ OpenFails(d)
    BY <1>5, <2>3, <2>5
  <2>6. CASE MuxPoll(d) \/ MuxSetBit(d) \/ MuxCreate(d)
    <3>1. /\ UNCHANGED <<dma_refcnt, dma, rtnl>>
          /\ \/ phylink' = phylink
             \/ \E to \in {"null", "stopped"} : phylink' = [phylink EXCEPT ![d] = to]
      BY <2>6 DEF MuxPoll, MuxSetBit, MuxCreate, devs
    <3> QED  BY <1>2, <2>1, <2>3, <3>1 DEF DevTypes
  <2> QED  BY <1>8, <2>4, <2>5, <2>6 DEF MuxStep, MuxOpen
<1> QED  BY <1>3, <1>6, <1>7, <1>8, Steps

\* The threads.
LEMMA ThreadStep == ASSUME TypeOK, Next PROVE WorkTypes'
<1>1. WorkTypes
  BY Parts
<1>2. /\ queued \in BOOLEAN /\ pc \in Labels /\ told \in Asks \cup {None} /\ restart \subseteq Devs
      /\ mon \in Asks \cup {None, "gdm", "test"} /\ dbg \in [ask : Asks, eth : BOOLEAN] \cup {None}
      /\ hang \in Hangs \cup {None} /\ v3 \in BOOLEAN /\ running \subseteq Devs
  BY <1>1, Parts DEF WorkTypes, DevTypes
<1>3. CASE WorkStep
  <2>1. UNCHANGED <<mon, dbg, v3>> /\ queued' \in BOOLEAN /\ hang' \in {hang, None}
    BY <1>2, <1>3, WorkFrame DEF others, WorkStep, WorkStart, WorkCheck, WorkLock, WorkSetBit,
       WorkNotify, WorkWifi, WorkWaitSer, WorkAgain, WorkWaitAgain, WorkStop, WorkHwInit, WorkOpen,
       WorkDone, WorkWaitAck, WorkFinish
  <2>2. pc' \in Labels
    BY <1>3 DEF WorkStep, WorkStart, WorkCheck, WorkLock, WorkSetBit, WorkNotify,
       WorkWifi, WorkWaitSer, WorkAgain, WorkWaitAgain, WorkStop, WorkHwInit, WorkOpen, WorkDone,
       WorkWaitAck, WorkFinish, Labels
  <2>3. told' \in {told, START, STOP, None} /\ restart' \in {restart, running, {}}
    BY <1>3 DEF WorkStep, WorkStart, WorkCheck, WorkLock, WorkSetBit, WorkNotify,
       WorkWifi, WorkWaitSer, WorkAgain, WorkWaitAgain, WorkStop, WorkHwInit, WorkOpen, WorkDone,
       WorkWaitAck, WorkFinish
  <2> QED  BY <1>2, <2>1, <2>2, <2>3 DEF WorkTypes, Asks
<1>4. CASE Trigger
  <2>1. UNCHANGED <<pc, told, restart, v3>>
    BY <1>4, TriggerFrame DEF worker
  <2>2. /\ queued' \in BOOLEAN /\ mon' \in Asks \cup {None, "gdm", "test"}
        /\ dbg' \in [ask : Asks, eth : BOOLEAN] \cup {None} /\ hang' \in Hangs \cup {None}
    <3>1. CASE MonitorStep
      BY <1>2, <3>1 DEF MonitorStep, MonitorPoll, MonitorGdm, MonitorTest, MonitorStore, Hangs
    <3>2. CASE DebugStore \/ TxTimeout \/ MacConfig \/ PageEndIrq \/ StartResetInit
      BY <1>2, <3>2 DEF DebugStore, TxTimeout, MacConfig, PageEndIrq, StartResetInit, others
    <3>3. CASE \E h \in Hangs : Hang(h)
      BY <1>2, <3>3 DEF Hang, others
    <3>4. CASE \E f \in {0, 1} : DebugForce(f)
      BY <1>2, <3>4 DEF DebugForce, others
    <3>5. CASE \E ask \in Asks, eth \in BOOLEAN : DebugTest(ask, eth)
      BY <1>2, <3>5 DEF DebugTest, others
    <3> QED  BY <1>4, <3>1, <3>2, <3>3, <3>4, <3>5 DEF Trigger
  <2> QED  BY <1>2, <2>1, <2>2 DEF WorkTypes
<1>5. CASE ~WorkStep /\ ~Trigger
  <2>1. UNCHANGED <<queued, worker, mon, dbg, hang, v3>>
    BY <1>5, Steps, DevFrame, MuxFrame, ChipFrame DEF others
  <2> QED  BY <1>1, <2>1 DEF WorkTypes, worker
<1> QED  BY <1>3, <1>4, <1>5

\* All of them.
LEMMA TypeStep ==
    ASSUME TypeOK, LockCount, ForceCount, ChipCount, Next
    PROVE  TypeOK' /\ LockCount' /\ ForceCount' /\ ChipCount'
<1>1. LockCount' /\ ForceCount' /\ ChipCount'
  BY LockCountStep, ForceCountStep, ChipCountStep
<1> QED  BY <1>1, FlagStep, WifiStep, DevicesStep, ThreadStep, Parts

----------------------------------------------------------------------------
(* Locks.                                                                   *)

\* The labels at which the work holds rtnl, and those at which it holds MTK_RESETTING.
Locked == {"setbit", "notify", "stop", "hw", "open", "done", "finish"}
Marked == {"notify", "wifi", "wait_ser", "again", "wait_again", "relock", "stop", "hw", "open",
           "done", "wait_ack", "ack_lock", "finish", "dead"}

\* Either the work holds MTK_RESETTING or one mux that makes a new phylink; and a phylink is
\* missing only there.
Locks ==
    /\ pc \in Locked => rtnl = "work"
    /\ pc \in Marked => resetting /\ \A d \in Devs : mux[d] # "create"
    /\ \A d \in Devs : mux[d] = "create" => resetting
    /\ \A d, e \in Devs : mux[d] = "create" /\ mux[e] = "create" => d = e
Attached == "mux" \notin upset => \A d \in Devs : phylink[d] = "null" => mux[d] = "create"

\* Opening and closing devices neither makes nor breaks a phylink.
LEMMA LinksStay ==
    ASSUME DevTypes, NEW S \in SUBSET Devs, StopDevs(S) \/ OpenDevs(S)
    PROVE  /\ \A d \in Devs : phylink'[d] = "null" <=> phylink[d] = "null"
           /\ Dies(S) \/ rtnl' = rtnl
BY DEF StopDevs, OpenDevs, SetPhylink, RtnlAfter, DevTypes

\* The steps of the work take and give back the locks as its label says.
LEMMA WorkLocks ==
    ASSUME TypeOK, Locks, Attached, WorkStep
    PROVE  Locks' /\ Attached'
<1>1. /\ DevTypes /\ mux' = mux /\ upset \subseteq upset' /\ restart \subseteq Devs
      /\ running \subseteq Devs
  BY Parts, WorkFrame DEF others, WorkTypes, DevTypes
<1>2. ASSUME UNCHANGED phylink PROVE Attached'
  BY <1>1, <1>2 DEF Attached
<1>3. CASE WorkStart \/ WorkCheck \/ WorkWifi \/ WorkWaitSer \/ WorkAgain
  <2>1. /\ UNCHANGED <<resetting, rtnl, phylink>> /\ pc' \notin Locked
        /\ pc' \in Marked => pc \in Marked
    BY <1>3 DEF WorkStart, WorkCheck, WorkWifi, WorkWaitSer, WorkAgain, flags, devs, Locked, Marked
  <2> QED  BY <1>1, <1>2, <2>1 DEF Locks
<1>4. CASE WorkWaitAgain \/ WorkHwInit \/ WorkWaitAck \/ WorkNotify \/ WorkDone
  <2>1. /\ UNCHANGED <<resetting, phylink>> /\ pc \in Marked
        /\ pc' \in Locked => pc \in Locked /\ rtnl' = rtnl
    BY <1>4 DEF WorkWaitAgain, WorkHwInit, WorkWaitAck, WorkNotify, WorkDone, flags, devs,
       Locked, Marked
  <2> QED  BY <1>1, <1>2, <2>1 DEF Locks
<1>5. CASE WorkLock
  <2>1. /\ UNCHANGED <<resetting, phylink>> /\ rtnl' = "work"
        /\ pc' \in Marked => pc \in Marked
    BY <1>5 DEF WorkLock, flags, devs, Marked
  <2> QED  BY <1>1, <1>2, <2>1 DEF Locks
<1>6. CASE WorkSetBit
  BY <1>1, <1>2, <1>6 DEF WorkSetBit, Locks, Locked, devs
<1>7. CASE WorkStop
  <2>1. StopDevs(running) /\ resetting' = resetting /\ pc = "stop"
        /\ pc' = IF Dies(running) THEN "dead" ELSE "hw"
    BY <1>7 DEF WorkStop, flags
  <2>2. Locks'
    BY <1>1, <2>1, LinksStay DEF Locks, Locked, Marked
  <2>3. Attached'
    BY <1>1, <2>1, LinksStay DEF Attached
  <2> QED  BY <2>2, <2>3
<1>8. CASE WorkOpen
  <2>1. PICK F \in SUBSET restart : OpenDevs(restart \ F)
    BY <1>8 DEF WorkOpen
  <2>2. /\ resetting' = resetting /\ pc = "open"
        /\ pc' = IF Dies(restart) THEN "dead" ELSE "done"
    BY <1>8 DEF WorkOpen, flags
  <2>3. restart \ F \in SUBSET Devs /\ (Dies(restart \ F) => Dies(restart))
    BY <1>1 DEF Dies
  <2>4. Locks'
    BY <1>1, <2>1, <2>2, <2>3, LinksStay DEF Locks, Locked, Marked
  <2>5. Attached'
    BY <1>1, <2>1, <2>3, LinksStay DEF Attached
  <2> QED  BY <2>4, <2>5
<1>9. CASE WorkFinish
  BY <1>1, <1>2, <1>9 DEF WorkFinish, Locks, Locked, Marked, devs
<1> QED  BY <1>3, <1>4, <1>5, <1>6, <1>7, <1>8, <1>9 DEF WorkStep

\* Users and muxes wait for them.
LEMMA DeviceLocks ==
    ASSUME TypeOK, Locks, Attached, NEW d \in Devs, DevStep(d) \/ MuxPoll(d) \/ MuxStep(d)
    PROVE  Locks' /\ Attached'
<1>1. /\ DevTypes /\ upset \subseteq upset' /\ pc' = pc /\ {d} \in SUBSET Devs
      /\ mux \in [Devs -> {"idle", "stop", "setbit", "create", "open"}]
  BY Parts, MuxFrame, DevFrame DEF worker, DevTypes
<1>2. CASE DevStep(d)
  <2>1. /\ UNCHANGED <<resetting, mux>> /\ rtnl = "free"
    BY <1>2, DevFrame DEF flags, others
  <2>2. UNCHANGED phylink \/ StopDevs({d}) \/ OpenDevs({d})
    BY <1>2 DEF DevStep, UserOpen, UserClose, OpenFails, devs
  <2>3. Locks'
    BY <1>1, <2>1 DEF Locks
  <2>4. Attached'
    BY <1>1, <2>1, <2>2, LinksStay DEF Attached
  <2> QED  BY <2>3, <2>4
<1>3. CASE MuxPoll(d)
  BY <1>1, <1>3 DEF MuxPoll, MuxPc, Locks, Attached, flags, devs
<1>4. CASE MuxStop(d)
  <2>1. /\ resetting' = resetting /\ rtnl = "free" /\ mux[d] = "stop"
        /\ mux' = [mux EXCEPT ![d] = "setbit"] /\ StopDevs({d})
    BY <1>4 DEF MuxStop, MuxPc, flags
  <2>2. Locks'
    BY <1>1, <2>1 DEF Locks
  <2>3. Attached'
    BY <1>1, <2>1, LinksStay DEF Attached
  <2> QED  BY <2>2, <2>3
<1>5. CASE MuxSetBit(d)
  BY <1>1, <1>5 DEF MuxSetBit, MuxPc, Locks, Attached, DevTypes
<1>6. CASE MuxCreate(d)
  <2>1. /\ rtnl = "free" /\ rtnl' = rtnl /\ mux[d] = "create" /\ resetting' = FALSE
        /\ \/ mux' = [mux EXCEPT ![d] = "open"] /\ phylink' = [phylink EXCEPT ![d] = "stopped"]
           \/ mux' = [mux EXCEPT ![d] = "idle"] /\ "mux" \in upset'
    BY <1>6 DEF MuxCreate, MuxPc
  <2>2. /\ pc \notin Marked /\ \A e \in Devs : mux[e] = "create" => e = d
    BY <2>1 DEF Locks
  <2>3. Locks'
    BY <1>1, <2>1, <2>2 DEF Locks
  <2>4. Attached'
    BY <1>1, <2>1, <2>2 DEF Attached, DevTypes
  <2> QED  BY <2>3, <2>4
<1>7. CASE MuxOpen(d)
  <2>1. /\ UNCHANGED resetting /\ rtnl = "free" /\ mux' = [mux EXCEPT ![d] = "idle"]
        /\ mux[d] = "open" /\ (UNCHANGED phylink \/ OpenDevs({d}))
    BY <1>7 DEF MuxOpen, MuxPc, OpenFails, flags, devs
  <2>2. Locks'
    BY <1>1, <2>1 DEF Locks
  <2>3. Attached'
    BY <1>1, <2>1, LinksStay DEF Attached
  <2> QED  BY <2>2, <2>3
<1> QED  BY <1>2, <1>3, <1>4, <1>5, <1>6, <1>7 DEF MuxStep

\* And nobody else has to do with them.
LEMMA LocksStep == ASSUME TypeOK, Locks, Attached, Next PROVE Locks' /\ Attached'
<1>1. CASE Trigger \/ WifiAck \/ \E c \in Chips : MoveStep(c) \/ ChipStep(c)
  <2>1. UNCHANGED <<resetting, devs, rtnl, pc, mux>> /\ upset \subseteq upset'
    BY <1>1, TriggerFrame, ChipFrame DEF worker, others
  <2> QED  BY <2>1 DEF Locks, Attached, devs
<1> QED  BY <1>1, WorkLocks, DeviceLocks, Steps

----------------------------------------------------------------------------
(* The DMA engines.                                                         *)

\* A mux has closed this device and not opened it yet.
Out(d) == mux[d] \in {"setbit", "create", "open"}
\* The devices that have a share in the DMA engine.
Live == IF pc \in {"hw", "open"} THEN {} ELSE {d \in running : ~Out(d)}

Shares ==
    upset \cap {"mux", "leak"} = {} =>
        /\ dma_refcnt = Cardinality(Live) /\ dma = (IF Live = {} THEN "off" ELSE "on")
        /\ \A d \in Devs : Out(d) => d \in running
        /\ pc \in {"hw", "open"} => restart = running /\ \A d \in Devs : ~Out(d)

\* The last share stops the engine.
LEMMA StopShare ==
    ASSUME TypeOK, dma_refcnt = Cardinality(Live), dma = (IF Live = {} THEN "off" ELSE "on"),
           NEW d \in Live, StopDevs({d}), Live' = Live \ {d}
    PROVE  dma_refcnt' = Cardinality(Live') /\ dma' = (IF Live' = {} THEN "off" ELSE "on")
<1>1. Live \in SUBSET Devs /\ IsFiniteSet(Live) /\ Cardinality(Live) \in Nat
  <2>1. Live \in SUBSET Devs
    BY Parts DEF Live, DevTypes
  <2> QED  BY <2>1, Countable
<1>2. Cardinality(Live \ {d}) = Cardinality(Live) - 1 /\ IsFiniteSet(Live \ {d})
  BY <1>1, FS_RemoveElement
<1>3. Cardinality({d}) = 1 /\ Cardinality(Live \ {d}) \in Nat
  BY <1>2, FS_Singleton, FS_CardinalityType
<1>4. Live \ {d} = {} <=> Cardinality(Live \ {d}) = 0
  BY <1>2, FS_EmptySet
<1>5. RefAfterStop({d}) = Cardinality(Live) - 1 /\ dma_refcnt > 0
  BY <1>1, <1>2, <1>3 DEF RefAfterStop
<1>6. Live # {}
  OBVIOUS
<1> QED  BY <1>1, <1>2, <1>3, <1>4, <1>5, <1>6 DEF StopDevs

\* The first one starts it.
LEMMA OpenShare ==
    ASSUME TypeOK, dma_refcnt = Cardinality(Live), dma = (IF Live = {} THEN "off" ELSE "on"),
           NEW d \in Devs, d \notin Live, OpenDevs({d}), Live' = Live \cup {d}
    PROVE  dma_refcnt' = Cardinality(Live') /\ dma' = (IF Live' = {} THEN "off" ELSE "on")
<1>1. Live \in SUBSET Devs /\ IsFiniteSet(Live) /\ Cardinality(Live) \in Nat
  <2>1. Live \in SUBSET Devs
    BY Parts DEF Live, DevTypes
  <2> QED  BY <2>1, Countable
<1>2. Cardinality(Live \cup {d}) = Cardinality(Live) + 1
  BY <1>1, FS_AddElement
<1>3. Cardinality({d}) = 1 /\ (Live = {} <=> Cardinality(Live) = 0)
  BY <1>1, FS_Singleton, FS_EmptySet
<1>4. {d} # {} /\ Live' # {}
  OBVIOUS
<1>5. dma_refcnt' = Cardinality(Live) + 1 /\ dma' = "on"
  BY <1>1, <1>3, <1>4 DEF OpenDevs
<1> QED  BY <1>2, <1>4, <1>5

\* mtk_open and mtk_stop share the count with what the reset closes and opens.
LEMMA WorkShares ==
    ASSUME TypeOK, Attached, Locks, Shares, WorkStep
    PROVE  Shares'
<1>1. /\ running \in SUBSET Devs /\ mux' = mux /\ upset \subseteq upset'
      /\ mux \in [Devs -> {"idle", "stop", "setbit", "create", "open"}]
      /\ dma_refcnt \in Nat /\ dma \in {"off", "on", "stale"} /\ restart \in SUBSET Devs
  BY Parts, WorkFrame DEF others, DevTypes, WorkTypes
<1>2. SUFFICES ASSUME upset' \cap {"mux", "leak"} = {}
               PROVE  /\ dma_refcnt' = Cardinality(Live')
                      /\ dma' = (IF Live' = {} THEN "off" ELSE "on")
                      /\ \A d \in Devs : Out(d)' => d \in running'
                      /\ pc' \in {"hw", "open"} => /\ restart' = running'
                                                   /\ \A d \in Devs : ~(Out(d)')
  BY DEF Shares
<1>3. /\ dma_refcnt = Cardinality(Live) /\ dma = (IF Live = {} THEN "off" ELSE "on")
      /\ \A d \in Devs : Out(d) => d \in running
      /\ pc \in {"hw", "open"} => restart = running /\ \A d \in Devs : ~Out(d)
      /\ \A d \in Devs : phylink[d] = "null" => mux[d] = "create"
  BY <1>1, <1>2 DEF Shares, Attached
<1>4. Cardinality({}) = 0 /\ IsFiniteSet(Live)
      /\ (Cardinality(Live) = 0 <=> Live = {})
  <2>1. Live \in SUBSET Devs
    BY <1>1 DEF Live
  <2> QED  BY <2>1, Countable, FS_EmptySet
<1>5. \A d \in Devs : Out(d)' <=> Out(d)
  BY <1>1 DEF Out
<1>6. (\A d \in Devs : ~Out(d)) => ~Dies(running)
  BY <1>1, <1>3 DEF Out, Dies
<1>7. CASE WorkStop
  <2>1. /\ pc = "stop" /\ restart' = running /\ StopDevs(running) /\ running' = running
        /\ upset' = upset \cup UNION {MuxUpset(d) : d \in running}
        /\ pc' = IF Dies(running) THEN "dead" ELSE "hw"
    BY <1>7 DEF WorkStop
  <2>2. \A d \in running : MuxUpset(d) = {}
    BY <1>2, <2>1 DEF MuxUpset
  <2>3. \A d \in Devs : ~Out(d)
    BY <1>1, <1>3, <2>2 DEF MuxUpset, Out
  <2>4. Live = running /\ pc' = "hw" /\ Live' = {}
    BY <1>1, <1>6, <2>1, <2>3 DEF Live
  <2>5. dma_refcnt' = 0 /\ dma' = "off"
    BY <1>1, <1>3, <1>4, <2>1, <2>4 DEF StopDevs, RefAfterStop
  <2> QED  BY <1>3, <1>4, <1>5, <2>1, <2>3, <2>4, <2>5
<1>8. CASE WorkHwInit
  <2>1. /\ pc = "hw" /\ pc' = "open" /\ UNCHANGED <<running, dma_refcnt, restart>>
        /\ dma' = IF dma = "on" THEN "stale" ELSE dma
    BY <1>8 DEF WorkHwInit
  <2>2. Live = {} /\ Live' = {}
    BY <2>1 DEF Live
  <2> QED  BY <1>3, <1>4, <1>5, <2>1, <2>2
<1>9. CASE WorkOpen
  <2>1. PICK F \in SUBSET restart : running' = running \ F /\ OpenDevs(restart \ F)
    BY <1>9 DEF WorkOpen
  <2>2. pc = "open" /\ pc' = (IF Dies(restart) THEN "dead" ELSE "done") /\ restart' = restart
    BY <1>9 DEF WorkOpen
  <2>3. restart = running /\ (\A d \in Devs : ~Out(d)) /\ ~Dies(restart) /\ Live = {}
    BY <1>3, <1>6, <2>2 DEF Live
  <2>4. pc' = "done" /\ Live' = running \ F /\ restart \ F = running \ F
    BY <1>1, <1>5, <2>1, <2>2, <2>3 DEF Live
  <2>5. /\ dma_refcnt' = 0 + Cardinality(running \ F) /\ Cardinality(running \ F) \in Nat
        /\ dma' = IF running \ F # {} THEN "on" ELSE "off"
    BY <1>1, <1>3, <1>4, <2>1, <2>3, <2>4, Countable DEF OpenDevs
  <2> QED  BY <1>5, <2>2, <2>3, <2>4, <2>5
<1>10. CASE ~(WorkStop \/ WorkHwInit \/ WorkOpen)
  <2>1. UNCHANGED devs /\ pc \notin {"hw", "open"} /\ pc' \notin {"hw", "open"}
    BY <1>10 DEF WorkStep, WorkStart, WorkCheck, WorkLock, WorkSetBit, WorkNotify, WorkWifi,
       WorkWaitSer, WorkAgain, WorkWaitAgain, WorkDone, WorkWaitAck, WorkFinish
  <2>2. Live' = Live
    BY <1>1, <1>5, <2>1 DEF Live, devs
  <2> QED  BY <1>3, <1>5, <2>1, <2>2 DEF devs
<1> QED  BY <1>7, <1>8, <1>9, <1>10

\* And with what users and muxes close and open.
LEMMA DeviceShares ==
    ASSUME TypeOK, Locks, Shares, NEW d \in Devs, DevStep(d) \/ MuxPoll(d) \/ MuxStep(d)
    PROVE  Shares'
<1>1. /\ running \in SUBSET Devs /\ upset \subseteq upset' /\ UNCHANGED <<pc, restart>>
      /\ mux \in [Devs -> {"idle", "stop", "setbit", "create", "open"}]
      /\ rtnl = "free" => pc \notin {"hw", "open"}
  BY Parts, MuxFrame, DevFrame DEF worker, DevTypes, Locks, Locked
<1>2. SUFFICES ASSUME upset' \cap {"mux", "leak"} = {}
               PROVE  /\ dma_refcnt' = Cardinality(Live')
                      /\ dma' = (IF Live' = {} THEN "off" ELSE "on")
                      /\ \A e \in Devs : Out(e)' => e \in running'
                      /\ pc' \in {"hw", "open"} => /\ restart' = running'
                                                   /\ \A e \in Devs : ~(Out(e)')
  BY DEF Shares
<1>3. /\ dma_refcnt = Cardinality(Live) /\ dma = (IF Live = {} THEN "off" ELSE "on")
      /\ \A e \in Devs : Out(e) => e \in running
      /\ pc \in {"hw", "open"} => restart = running /\ \A e \in Devs : ~Out(e)
  BY <1>1, <1>2 DEF Shares
<1>4. ~OpenFails(d)
  BY <1>2 DEF OpenFails
<1>5. CASE UserOpen(d)
  <2>1. /\ rtnl = "free" /\ d \notin running /\ running' = running \cup {d} /\ OpenDevs({d})
        /\ mux' = mux /\ upset' = upset \cup UserUpset(d)
    BY <1>4, <1>5 DEF UserOpen, others
  <2>2. \A e \in Devs : (Out(e)' <=> Out(e)) /\ (e = d => ~Out(e))
    BY <1>1, <1>2, <2>1 DEF Out, UserUpset, MuxUpset
  <2>3. d \notin Live /\ Live' = Live \cup {d}
    BY <1>1, <2>1, <2>2 DEF Live
  <2> QED  BY <1>1, <1>3, <2>1, <2>2, <2>3, OpenShare
<1>6. CASE UserClose(d)
  <2>1. /\ rtnl = "free" /\ d \in running /\ running' = running \ {d} /\ StopDevs({d})
        /\ mux' = mux /\ upset' = upset \cup UserUpset(d)
    BY <1>6 DEF UserClose, others
  <2>2. \A e \in Devs : (Out(e)' <=> Out(e)) /\ (e = d => ~Out(e))
    BY <1>1, <1>2, <2>1 DEF Out, UserUpset, MuxUpset
  <2>3. d \in Live /\ Live' = Live \ {d}
    BY <1>1, <2>1, <2>2 DEF Live
  <2> QED  BY <1>1, <1>3, <2>1, <2>2, <2>3, StopShare
<1>7. CASE MuxPoll(d) \/ MuxSetBit(d) \/ MuxCreate(d)
  <2>1. UNCHANGED <<running, dma_refcnt, dma>>
    BY <1>7 DEF MuxPoll, MuxSetBit, MuxCreate, devs
  <2>2. \A e \in Devs : Out(e)' <=> Out(e)
    BY <1>1, <1>2, <1>7 DEF MuxPoll, MuxSetBit, MuxCreate, MuxPc, Out
  <2>3. Live' = Live
    BY <1>1, <2>1, <2>2 DEF Live
  <2> QED  BY <1>1, <1>3, <2>1, <2>2, <2>3
<1>8. CASE MuxStop(d)
  <2>1. /\ rtnl = "free" /\ mux[d] = "stop" /\ mux' = [mux EXCEPT ![d] = "setbit"]
        /\ StopDevs({d}) /\ running' = running /\ d \in running
    BY <1>2, <1>8 DEF MuxStop, MuxPc
  <2>2. \A e \in Devs : Out(e)' <=> (Out(e) \/ e = d)
    BY <1>1, <2>1 DEF Out
  <2>3. d \in Live /\ Live' = Live \ {d}
    BY <1>1, <2>1, <2>2 DEF Live, Out
  <2> QED  BY <1>1, <1>3, <2>1, <2>2, <2>3, StopShare
<1>9. CASE MuxOpen(d)
  <2>1. /\ rtnl = "free" /\ mux[d] = "open" /\ mux' = [mux EXCEPT ![d] = "idle"]
        /\ OpenDevs({d}) /\ running' = running
    BY <1>4, <1>9 DEF MuxOpen, MuxPc
  <2>2. \A e \in Devs : Out(e)' <=> (Out(e) /\ e # d)
    BY <1>1, <2>1 DEF Out
  <2>3. d \notin Live /\ Live' = Live \cup {d}
    BY <1>1, <1>3, <2>1, <2>2 DEF Live, Out
  <2> QED  BY <1>1, <1>3, <2>1, <2>2, <2>3, OpenShare
<1> QED  BY <1>5, <1>6, <1>7, <1>8, <1>9 DEF DevStep, MuxStep

\* Nobody else has a share.
LEMMA SharesStep ==
    ASSUME TypeOK, Locks, Attached, Shares, Next
    PROVE  Shares'
<1>1. CASE Trigger \/ WifiAck \/ \E c \in Chips : MoveStep(c) \/ ChipStep(c)
  <2>1. UNCHANGED <<devs, pc, restart, mux>> /\ upset \subseteq upset'
    BY <1>1, TriggerFrame, ChipFrame DEF worker, others
  <2>2. Live' = Live /\ \A d \in Devs : Out(d)' <=> Out(d)
    BY <2>1 DEF Live, Out, devs
  <2> QED  BY <2>1, <2>2 DEF Shares, devs
<1> QED  BY <1>1, WorkShares, DeviceShares, Steps

----------------------------------------------------------------------------
(* Who has started the phylink.                                             *)

\* A device that runs has a started phylink, but for the time that a reset of the ETH has
\* closed it, and for the time that a mux has.
Follows(d) ==
    IF pc \in {"hw", "open"} /\ rstctrl_eth THEN phylink[d] # "started"
    ELSE d \in running <=> phylink[d] = "started"
Links ==
    upset \cap {"phylink", "mux", "leak", "late"} = {} => \A d \in Devs : ~Out(d) => Follows(d)

\* What mtk_stop and mtk_open do to phylink.
LEMMA LinkMoves ==
    ASSUME DevTypes, NEW S \in SUBSET Devs, \A d \in S : phylink[d] # "null", NEW d \in Devs
    PROVE  /\ StopDevs(S) => phylink'[d] = IF TouchPhylink /\ d \in S THEN "stopped" ELSE phylink[d]
           /\ OpenDevs(S) => phylink'[d] = IF TouchPhylink /\ d \in S THEN "started" ELSE phylink[d]
BY DEF StopDevs, OpenDevs, SetPhylink, DevTypes

\* A reset closes and opens the phylink of every device, or of none.
LEMMA WorkLinks ==
    ASSUME TypeOK, Attached, Locks, Shares, Links, WorkStep
    PROVE  Links'
<1>1. /\ DevTypes /\ running \in SUBSET Devs /\ mux' = mux /\ upset \subseteq upset'
      /\ mux \in [Devs -> {"idle", "stop", "setbit", "create", "open"}]
  BY Parts, WorkFrame DEF others, DevTypes
<1>2. SUFFICES ASSUME upset' \cap {"phylink", "mux", "leak", "late"} = {},
                      NEW d \in Devs, ~(Out(d)')
               PROVE  Follows(d)'
  BY DEF Links
<1>3. /\ ~Out(d) /\ Follows(d)
      /\ \A e \in Devs : Out(e) => e \in running
      /\ pc \in {"hw", "open"} => restart = running /\ \A e \in Devs : ~Out(e)
      /\ \A e \in Devs : phylink[e] = "null" => Out(e)
  BY <1>1, <1>2 DEF Shares, Attached, Links, Out
<1>4. ASSUME \A e \in Devs : ~Out(e) PROVE \A e \in running : phylink[e] # "null"
  BY <1>1, <1>3, <1>4
<1>5. pc \in Marked => resetting
  BY DEF Locks
<1>6. CASE WorkStop
  <2>1. /\ pc = "stop" /\ StopDevs(running) /\ UNCHANGED <<running, rstctrl_eth>>
        /\ upset' = upset \cup UNION {MuxUpset(e) : e \in running}
        /\ pc' = IF Dies(running) THEN "dead" ELSE "hw"
    BY <1>6 DEF WorkStop, flags
  <2>2. \A e \in running : MuxUpset(e) = {}
    BY <1>2, <2>1 DEF MuxUpset
  <2>3. \A e \in running : phylink[e] # "null"
    BY <1>1, <1>3, <1>4, <2>2 DEF MuxUpset, Out
  <2>4. pc' = "hw" /\ TouchPhylink = rstctrl_eth
    BY <1>5, <2>1, <2>3, Parts DEF Dies, Marked, TouchPhylink, FlagTypes
  <2>5. phylink'[d] = IF TouchPhylink /\ d \in running THEN "stopped" ELSE phylink[d]
    BY <1>1, <2>1, <2>3, LinkMoves
  <2> QED  BY <1>3, <2>1, <2>4, <2>5 DEF Follows
<1>7. CASE WorkOpen
  <2>1. PICK F \in SUBSET restart :
            /\ running' = running \ F /\ OpenDevs(restart \ F)
            /\ F # {} => upset' = upset \cup OpenUpset
    BY <1>7 DEF WorkOpen
  <2>2. pc = "open" /\ pc' \notin {"hw", "open"} /\ rstctrl_eth' = rstctrl_eth
    BY <1>7 DEF WorkOpen, flags
  <2>3. restart = running /\ \A e \in running : phylink[e] # "null"
    BY <1>3, <1>4, <2>2
  <2>4. TouchPhylink = rstctrl_eth /\ (F # {} => rstctrl_eth)
    BY <1>2, <1>5, <2>1, <2>2, Parts DEF OpenUpset, Marked, TouchPhylink, FlagTypes
  <2>5. running \ F \in SUBSET Devs /\ \A e \in running \ F : phylink[e] # "null"
    BY <1>1, <2>3
  <2>6. phylink'[d] = IF TouchPhylink /\ d \in running \ F THEN "started" ELSE phylink[d]
    BY <1>1, <2>1, <2>3, <2>5, LinkMoves
  <2> QED  BY <1>3, <2>1, <2>2, <2>4, <2>6 DEF Follows
<1>8. CASE WorkHwInit
  BY <1>3, <1>8 DEF WorkHwInit, Follows, flags
<1>9. CASE ~(WorkStop \/ WorkHwInit \/ WorkOpen)
  <2>1. UNCHANGED devs /\ pc \notin {"hw", "open"} /\ pc' \notin {"hw", "open"}
    BY <1>9 DEF WorkStep, WorkStart, WorkCheck, WorkLock, WorkSetBit, WorkNotify, WorkWifi,
       WorkWaitSer, WorkAgain, WorkWaitAgain, WorkDone, WorkWaitAck, WorkFinish
  <2> QED  BY <1>3, <2>1 DEF Follows, devs
<1> QED  BY <1>6, <1>7, <1>8, <1>9

\* Users and muxes do it for one device, and are noticed when they leave it out.
LEMMA DeviceLinks ==
    ASSUME TypeOK, Attached, Locks, Shares, Links,
           NEW d \in Devs, DevStep(d) \/ MuxPoll(d) \/ MuxStep(d)
    PROVE  Links'
<1>1. /\ DevTypes /\ running \in SUBSET Devs /\ upset \subseteq upset'
      /\ UNCHANGED <<pc, rstctrl_eth>>
      /\ mux \in [Devs -> {"idle", "stop", "setbit", "create", "open"}]
      /\ rtnl = "free" => pc \notin {"hw", "open"}
      /\ phylink \in [Devs -> {"null", "stopped", "started"}]
  BY Parts, MuxFrame, DevFrame DEF worker, DevTypes, Locks, Locked, flags
<1>2. SUFFICES ASSUME upset' \cap {"phylink", "mux", "leak", "late"} = {},
                      NEW e \in Devs, ~(Out(e)')
               PROVE  Follows(e)'
  BY DEF Links
<1>3. /\ ~Out(e) => Follows(e)
      /\ Out(d) => d \in running
      /\ mux[d] # "create" => phylink[d] # "null"
  BY <1>1, <1>2 DEF Shares, Attached, Links
<1>4. ~OpenFails(d) /\ {d} \in SUBSET Devs
  BY <1>2 DEF OpenFails
<1>5. CASE UserOpen(d)
  <2>1. /\ rtnl = "free" /\ running' = running \cup {d} /\ OpenDevs({d})
        /\ mux' = mux /\ upset' = upset \cup UserUpset(d)
    BY <1>4, <1>5 DEF UserOpen, others
  <2>2. TouchPhylink /\ mux[d] # "create" /\ ~Out(e)
    BY <1>1, <1>2, <2>1 DEF UserUpset, MuxUpset, OpenUpset, Out
  <2>3. phylink'[e] = IF TouchPhylink /\ e \in {d} THEN "started" ELSE phylink[e]
    BY <1>1, <1>3, <1>4, <2>1, <2>2, LinkMoves
  <2> QED  BY <1>1, <1>3, <2>1, <2>2, <2>3 DEF Follows
<1>6. CASE UserClose(d)
  <2>1. /\ rtnl = "free" /\ running' = running \ {d} /\ StopDevs({d})
        /\ mux' = mux /\ upset' = upset \cup UserUpset(d)
    BY <1>6 DEF UserClose, others
  <2>2. TouchPhylink /\ mux[d] # "create" /\ ~Out(e)
    BY <1>1, <1>2, <2>1 DEF UserUpset, MuxUpset, OpenUpset, Out
  <2>3. phylink'[e] = IF TouchPhylink /\ e \in {d} THEN "stopped" ELSE phylink[e]
    BY <1>1, <1>3, <1>4, <2>1, <2>2, LinkMoves
  <2> QED  BY <1>1, <1>3, <2>1, <2>2, <2>3 DEF Follows
<1>7. CASE MuxPoll(d)
  BY <1>1, <1>2, <1>3, <1>7 DEF MuxPoll, MuxPc, Out, Follows, devs
<1>8. CASE MuxStop(d)
  <2>1. /\ rtnl = "free" /\ mux[d] = "stop" /\ mux' = [mux EXCEPT ![d] = "setbit"]
        /\ StopDevs({d}) /\ running' = running
    BY <1>8 DEF MuxStop, MuxPc
  <2>2. e # d /\ ~Out(e)
    BY <1>1, <1>2, <2>1 DEF Out
  <2>3. phylink'[e] = phylink[e]
    BY <1>1, <1>3, <1>4, <2>1, <2>2, LinkMoves
  <2> QED  BY <1>1, <1>3, <2>1, <2>2, <2>3 DEF Follows
<1>9. CASE MuxSetBit(d) \/ MuxCreate(d)
  <2>1. /\ running' = running /\ \E to \in {"create", "open"} : mux' = [mux EXCEPT ![d] = to]
        /\ \E to \in {"null", "stopped"} : phylink' = [phylink EXCEPT ![d] = to]
    BY <1>2, <1>9 DEF MuxSetBit, MuxCreate, MuxPc
  <2>2. e # d /\ ~Out(e) /\ phylink'[e] = phylink[e]
    BY <1>1, <1>2, <2>1 DEF Out
  <2> QED  BY <1>1, <1>3, <2>1, <2>2 DEF Follows
<1>10. CASE MuxOpen(d)
  <2>1. /\ rtnl = "free" /\ mux[d] = "open" /\ mux' = [mux EXCEPT ![d] = "idle"]
        /\ OpenDevs({d}) /\ running' = running /\ upset' = upset \cup OpenUpset
    BY <1>4, <1>10 DEF MuxOpen, MuxPc
  <2>2. TouchPhylink /\ (e # d => ~Out(e)) /\ d \in running
    BY <1>1, <1>2, <1>3, <2>1 DEF Out, OpenUpset
  <2>3. phylink'[e] = IF TouchPhylink /\ e \in {d} THEN "started" ELSE phylink[e]
    BY <1>1, <1>3, <1>4, <2>1, <2>2, LinkMoves
  <2> QED  BY <1>1, <1>3, <2>1, <2>2, <2>3 DEF Follows
<1> QED  BY <1>5, <1>6, <1>7, <1>8, <1>9, <1>10 DEF DevStep, MuxStep

\* A request that arrives during a reset does not change what the reset resets, or it is late.
LEMMA LinksStep ==
    ASSUME TypeOK, LockCount, Locks, Attached, Shares, Links, Next
    PROVE  Links'
<1>1. CASE Trigger
  <2>1. /\ UNCHANGED <<devs, pc, mux>> /\ upset \subseteq upset'
        /\ rstctrl_eth' = rstctrl_eth \/ "late" \in upset' \/ pc = "idle"
    BY <1>1, TriggerFrame DEF worker, LockCount
  <2> QED  BY <2>1 DEF Links, Follows, Out, devs
<1>2. CASE WifiAck \/ \E c \in Chips : MoveStep(c) \/ ChipStep(c)
  <2>1. UNCHANGED <<devs, pc, mux, rstctrl_eth>> /\ upset \subseteq upset'
    BY <1>2, ChipFrame DEF worker, others
  <2> QED  BY <2>1 DEF Links, Follows, Out, devs
<1> QED  BY <1>1, <1>2, WorkLinks, DeviceLinks, Steps

----------------------------------------------------------------------------
(* The handshake with the chips.                                            *)

\* How a chip is resumed, and what it does until then, by what it was told.
Resume(what) == IF what = STOP THEN "MTK_FE_START_TRAFFIC" ELSE "MTK_FE_RESET_DONE"
State(what)  == IF what = STOP THEN "stopped" ELSE "down"

\* A chip is up, or is about to be; has been told and has not answered; has answered.
Resting(c) ==
    \/ todo[c] = <<>> /\ chip[c] = "up"
    \/ \E what \in Asks : todo[c] = <<Resume(what)>> /\ chip[c] = State(what)
Asked(c) == todo[c] = <<told>> \/ \E what \in Asks : todo[c] = <<Resume(what), told>>
Quiet(c) == todo[c] = <<>> /\ chip[c] = State(told)
Due == {c \in Online : Asked(c)}

\* Between resets nothing is left over; while the work waits mtk_rest_cnt is the number of
\* answers that are due, and the completion comes with the last; a stop has failed; and all
\* have answered.
Clean == wait_ser_done = 0 /\ mtk_rest_cnt = mtk_wifi_num /\ ~mtk_stop_fail
Calm  == Clean /\ \A c \in Online : Resting(c)
Waiting ==
    /\ \A c \in Online : Asked(c) \/ Quiet(c)
    /\ mtk_rest_cnt = (IF Due = {} THEN mtk_wifi_num ELSE Cardinality(Due))
    /\ wait_ser_done = (IF Due = {} /\ Online # {} THEN 1 ELSE 0)
Failed ==
    /\ Online # {} /\ mtk_stop_fail /\ v3 /\ event = START /\ mtk_rest_cnt = mtk_wifi_num
    /\ \A c \in Online : todo[c] = <<>>
Agreed == Clean /\ (told = STOP <=> event = STOP) /\ \A c \in Online : Quiet(c)

\* The acknowledgement of the chips that are back is waited for, or it is not there.
Acks ==
    /\ wait_ack_done # 0 =>
           /\ wait_ack_done = 1 /\ pc = "wait_ack" /\ ~ack_due
           /\ \A c \in Online : todo[c] = <<>>
    /\ ack_due => Online = {} \/ pc = "wait_ack"

\* The labels before the chips are told and after they are resumed, and those in between
\* when all have answered.
Before == {"idle", "check", "lock", "setbit", "notify", "wait_ack", "ack_lock", "finish"}
After  == {"relock", "stop", "hw", "open", "done"}

Round ==
    /\ pc \in Before => Calm
    /\ pc \in {"wifi", "wait_ser"} =>
           \/ Waiting /\ ~mtk_stop_fail /\ (told = STOP <=> event = STOP)
           \/ Failed /\ wait_ser_done = 1
    /\ pc = "again" => Failed /\ wait_ser_done = 0
    /\ pc = "wait_again" => Waiting /\ mtk_stop_fail /\ told = START /\ event = START
    /\ pc \in After => Agreed
Handshake == upset \cap {"chips", "stopfail", "late"} = {} => Round /\ (pc # "dead" => Acks)
Told == pc \in {"wifi", "wait_ser", "again", "wait_again"} \cup After => told \in Asks

\* Lists of one and of two requests.
LEMMA Lists ==
    ASSUME NEW a \in Requests, NEW b \in Requests
    PROVE  /\ Append(<<>>, a) = <<a>> /\ Append(<<a>>, b) = <<a, b>>
           /\ Head(<<a>>) = a /\ Tail(<<a>>) = <<>> /\ Head(<<a, b>>) = a /\ Tail(<<a, b>>) = <<b>>
           /\ <<a>> # <<>> /\ <<a, b>> # <<>> /\ (<<a>> = <<b>> => a = b)
<1>1. <<a>> \in Seq(Requests) /\ <<a, b>> \in Seq(Requests) /\ Len(<<a>>) = 1 /\ Len(<<a, b>>) = 2
  OBVIOUS
<1> DEFINE x == Append(<<a>>, b)
           y == <<a, b>>
<1>2. /\ x \in Seq(Requests) /\ y \in Seq(Requests) /\ Len(x) = 2 /\ Len(y) = 2
      /\ x[1] = y[1] /\ x[2] = y[2]
  BY <1>1
<1>3. x = y
  <2> HIDE DEF x, y
  <2>1. \A i \in 1..Len(x) : x[i] = y[i]
    BY <1>2
  <2> QED  BY <1>2, <2>1, SeqEqual
<1>4. Append(<<>>, a) = <<a>>
  OBVIOUS
<1>5. Head(<<a>>) = a /\ Tail(<<a>>) = <<>> /\ Head(<<a, b>>) = a
  OBVIOUS
<1>6. Tail(<<a, b>>) = <<b>>
  OBVIOUS
<1>7. <<a>> # <<>> /\ <<a, b>> # <<>> /\ (<<a>> = <<b>> => a = b)
  OBVIOUS
<1> QED  BY <1>3, <1>4, <1>5, <1>6, <1>7

\* What the chips are told and how they are resumed are different requests.
LEMMA Words ==
    /\ START \in Requests /\ STOP \in Requests /\ START # STOP /\ Asks = {START, STOP}
    /\ \A what : /\ Resume(what) \in Requests /\ Resume(what) \notin Asks
                 /\ State(what) \in {"stopped", "down"} /\ State(what) # "up"
    /\ \A a, b \in Asks : (Resume(a) = Resume(b) => a = b) /\ (State(a) = State(b) => a = b)
BY DEF Requests, Asks, START, STOP, Resume, State

\* What is told to the chips that are online.
LEMMA Telling ==
    ASSUME WifiTypes, NEW what, Tell(what), chip' = chip
    PROVE  Online' = Online /\ \A c \in Online : todo'[c] = Append(todo[c], what)
BY DEF WifiTypes, Tell, Online

\* How many chips are due.
LEMMA DueCount ==
    /\ IsFiniteSet(Due) /\ Cardinality(Due) \in Nat /\ (Due = {} <=> Cardinality(Due) = 0)
    /\ \A c \in Due : Cardinality(Due \ {c}) = Cardinality(Due) - 1
<1>1. Due \in SUBSET Chips
  BY DEF Due, Online
<1>2. IsFiniteSet(Due) /\ Cardinality(Due) \in Nat
  BY <1>1, Countable
<1> QED  BY <1>2, FS_EmptySet, FS_RemoveElement

\* Steps that have nothing to do with the handshake.
LEMMA HandshakeFrame ==
    ASSUME UNCHANGED <<wifi, chips, told, v3>>, upset \subseteq upset',
           pc' = pc, event' = event \/ "late" \in upset' \/ pc = "idle",
           Handshake
    PROVE  Handshake'
<1>1. Online' = Online
  BY DEF Online, chips
<1>2. \A c \in Online : /\ (Resting(c)' <=> Resting(c)) /\ (Asked(c)' <=> Asked(c))
                        /\ (Quiet(c)' <=> Quiet(c))
  BY DEF Resting, Asked, Quiet, chips
<1>3. Due' = Due
  BY <1>1, <1>2 DEF Due
<1>4. /\ (Clean' <=> Clean) /\ (Waiting' <=> Waiting) /\ (Calm' <=> Calm) /\ (Acks' <=> Acks)
      /\ event' = event => (Failed' <=> Failed) /\ (Agreed' <=> Agreed)
  BY <1>1, <1>2, <1>3 DEF Clean, Waiting, Calm, Acks, Failed, Agreed, wifi, chips
<1> QED  BY <1>4 DEF Handshake, Round, Before, After, wifi, chips

\* The work tells the chips, waits for their answers, and resumes them.
LEMMA WorkHandshake ==
    ASSUME TypeOK, ChipCount, Told, Handshake, WorkStep
    PROVE  Handshake'
<1>1. /\ WifiTypes /\ chip' = chip /\ v3' = v3 /\ mtk_wifi_num' = mtk_wifi_num
      /\ upset \subseteq upset' /\ Online' = Online
  BY Parts, WorkFrame DEF Online
<1>2. SUFFICES ASSUME upset' \cap {"chips", "stopfail", "late"} = {}
               PROVE  Round' /\ (pc' # "dead" => Acks')
  BY DEF Handshake
<1>3. Round /\ (pc # "dead" => Acks)
  BY <1>1, <1>2 DEF Handshake
<1>4. ASSUME UNCHANGED <<wait_ack_done, ack_due>>, pc \notin {"wait_ack", "dead"} PROVE Acks'
  BY <1>1, <1>3, <1>4 DEF Acks
<1>5. ASSUME UNCHANGED <<todo, told>>, NEW c \in Chips
      PROVE  /\ (Resting(c)' <=> Resting(c)) /\ (Asked(c)' <=> Asked(c))
             /\ (Quiet(c)' <=> Quiet(c))
  BY <1>1, <1>5 DEF Resting, Asked, Quiet
<1>6. Online \subseteq Chips /\ todo \in [Chips -> Seq(Requests)]
      /\ mtk_wifi_num = Cardinality(Online) /\ IsFiniteSet(Online)
      /\ (Online = {} <=> Cardinality(Online) = 0) /\ Cardinality(Online) \in Nat
  <2>1. Online \in SUBSET Chips
    BY DEF Online
  <2> QED  BY <1>1, <2>1, Countable, FS_EmptySet DEF WifiTypes, ChipCount
<1>7. /\ wait_ser_done \in Nat /\ wait_ack_done \in Nat /\ mtk_stop_fail \in BOOLEAN
  BY <1>1 DEF WifiTypes
<1>8. ASSUME UNCHANGED <<wifi, chips>>, pc \in Before, pc' \in Before, pc # "wait_ack"
      PROVE  Round' /\ Acks'
  <2>1. /\ UNCHANGED <<todo, wait_ser_done, wait_ack_done, mtk_rest_cnt, mtk_stop_fail, ack_due>>
        /\ Calm
    BY <1>3, <1>8 DEF Round, wifi, chips
  <2>2. \A c \in Online : Resting(c)'
    BY <1>1, <1>6, <2>1 DEF Resting, Calm
  <2>3. Calm'
    BY <1>1, <2>1, <2>2 DEF Calm, Clean
  <2> QED  BY <1>4, <1>8, <2>1, <2>3 DEF Round, Before, After
<1>9. ASSUME UNCHANGED <<wifi, chips, told, event>>, pc \in After, pc' \in After \cup {"dead"}
      PROVE  Round' /\ Acks'
  <2>1. /\ UNCHANGED <<todo, wait_ser_done, wait_ack_done, mtk_rest_cnt, mtk_stop_fail, ack_due>>
        /\ UNCHANGED told /\ Agreed
    BY <1>3, <1>9 DEF Round, wifi, chips
  <2>2. Agreed'
    BY <1>1, <1>5, <1>6, <1>9, <2>1 DEF Agreed, Clean
  <2> QED  BY <1>4, <1>9, <2>1, <2>2 DEF Round, Before, After
<1>10. CASE WorkStart \/ WorkCheck \/ WorkSetBit \/ WorkFinish \/ (WorkLock /\ pc # "relock")
  BY <1>8, <1>10 DEF WorkStart, WorkCheck, WorkSetBit, WorkFinish, WorkLock, Before
<1>11. CASE WorkStop \/ WorkHwInit \/ WorkOpen \/ (WorkLock /\ pc = "relock")
  BY <1>9, <1>11 DEF WorkStop, WorkHwInit, WorkOpen, WorkLock, After, flags
<1>12. CASE WorkNotify
  <2>1. /\ pc = "notify" /\ told' = (IF event = STOP THEN STOP ELSE START) /\ Tell(told')
        /\ pc' = "wifi" /\ UNCHANGED <<wifi, ack_due, event>> /\ UNCHANGED <<wait_ack_done>>
    BY <1>12 DEF WorkNotify, flags, wifi
  <2>2. Calm /\ told' \in Asks /\ told' \in Requests /\ (told' = STOP <=> event' = STOP)
    BY <1>3, <2>1, Words DEF Round, Before
  <2>3. \A c \in Online : todo'[c] = Append(todo[c], told')
    BY <1>1, <2>1, Telling
  <2>4. \A c \in Online : Asked(c)'
    <3> SUFFICES ASSUME NEW c \in Online
                 PROVE  \/ todo'[c] = <<told'>>
                        \/ \E what \in Asks : todo'[c] = <<Resume(what), told'>>
      BY DEF Asked
    <3>1. todo[c] = <<>> \/ \E what \in Asks : todo[c] = <<Resume(what)>>
      BY <2>2 DEF Calm, Resting
    <3>2. CASE todo[c] = <<>>
      BY <2>2, <2>3, <3>2, Lists
    <3>3. ASSUME NEW what \in Asks, todo[c] = <<Resume(what)>>
          PROVE  todo'[c] = <<Resume(what), told'>>
      BY <2>2, <2>3, <3>3, Lists, Words
    <3> QED  BY <3>1, <3>2, <3>3
  <2>5. Due' = Online
    BY <1>1, <2>4 DEF Due
  <2>6. Waiting' /\ ~mtk_stop_fail'
    BY <1>1, <1>6, <2>1, <2>2, <2>4, <2>5 DEF Waiting, Calm, Clean, wifi
  <2> QED  BY <1>4, <2>1, <2>2, <2>6 DEF Round, Before, After
<1>13. CASE WorkWifi
  <2>1. /\ pc = "wifi" /\ pc' = (IF mtk_wifi_num > 0 THEN "wait_ser" ELSE "relock")
        /\ UNCHANGED <<wifi, chips, told, event>> /\ UNCHANGED <<todo, wait_ack_done, ack_due>>
    BY <1>13 DEF WorkWifi, flags, wifi, chips
  <2>2. Due' = Due
    BY <1>1, <1>5, <1>6, <2>1 DEF Due
  <2>3. (Waiting' <=> Waiting) /\ (Failed' <=> Failed)
    BY <1>1, <1>5, <1>6, <2>1, <2>2 DEF Waiting, Failed, wifi
  <2>4. mtk_wifi_num > 0 <=> Online # {}
    BY <1>6
  <2>5. CASE Online # {}
    BY <1>3, <1>4, <2>1, <2>3, <2>4, <2>5 DEF Round, Before, After, wifi
  <2>6. CASE Online = {}
    <3>1. Waiting /\ ~mtk_stop_fail /\ (told = STOP <=> event = STOP) /\ Due = {}
      BY <1>3, <2>1, <2>6 DEF Round, Failed, Due
    <3>2. Agreed'
      BY <1>1, <2>1, <2>6, <3>1 DEF Waiting, Agreed, Clean, wifi
    <3> QED  BY <1>4, <2>1, <2>4, <2>6, <3>2 DEF Round, Before, After
  <2> QED  BY <2>5, <2>6
<1>14. CASE WorkWaitSer
  <2>1. /\ pc = "wait_ser" /\ wait_ser_done > 0 /\ wait_ser_done' = wait_ser_done - 1
        /\ pc' = (IF v3 /\ mtk_stop_fail THEN "again" ELSE "relock")
        /\ UNCHANGED <<wait_ack_done, mtk_rest_cnt, mtk_stop_fail, told, event, todo, ack_due>>
    BY <1>14 DEF WorkWaitSer, flags, chips
  <2>2. CASE Failed /\ wait_ser_done = 1
    <3>1. Failed' /\ wait_ser_done' = 0
      BY <1>1, <2>1, <2>2 DEF Failed
    <3> QED  BY <1>4, <2>1, <2>2, <3>1 DEF Round, Before, After, Failed
  <2>3. CASE Waiting /\ ~mtk_stop_fail /\ (told = STOP <=> event = STOP)
    <3>1. Due = {} /\ wait_ser_done' = 0
      BY <2>1, <2>3 DEF Waiting
    <3>2. \A c \in Online : Quiet(c)'
      BY <1>5, <1>6, <2>1, <2>3, <3>1 DEF Waiting, Due
    <3>3. Agreed'
      BY <1>1, <2>1, <2>3, <3>1, <3>2 DEF Agreed, Clean, Waiting
    <3> QED  BY <1>4, <2>1, <2>3, <3>3 DEF Round, Before, After
  <2> QED  BY <1>3, <2>1, <2>2, <2>3 DEF Round
<1>15. CASE WorkAgain
  <2>1. /\ pc = "again" /\ told' = START /\ Tell(START) /\ pc' = "wait_again"
        /\ UNCHANGED <<wait_ser_done, wait_ack_done, mtk_rest_cnt, mtk_stop_fail, event, ack_due>>
    BY <1>15 DEF WorkAgain, flags, wifi
  <2>2. Failed /\ wait_ser_done = 0
    BY <1>3, <2>1 DEF Round
  <2>3. \A c \in Online : todo'[c] = <<START>>
    BY <1>1, <2>1, <2>2, Telling, Lists, Words DEF Failed
  <2>4. Due' = Online /\ \A c \in Online : Asked(c)'
    BY <1>1, <2>1, <2>3 DEF Due, Asked
  <2>5. Waiting'
    BY <1>1, <1>6, <2>1, <2>2, <2>4 DEF Waiting, Failed
  <2> QED  BY <1>4, <2>1, <2>2, <2>5 DEF Round, Before, After, Failed
<1>16. CASE WorkWaitAgain
  <2>1. /\ pc = "wait_again" /\ wait_ser_done > 0 /\ wait_ser_done' = wait_ser_done - 1
        /\ pc' = "relock" /\ mtk_stop_fail' = FALSE
        /\ UNCHANGED <<wait_ack_done, mtk_rest_cnt, told, event, todo, ack_due>>
    BY <1>16 DEF WorkWaitAgain, flags, chips
  <2>2. Waiting /\ told = START /\ event = START
    BY <1>3, <2>1 DEF Round
  <2>3. Due = {} /\ wait_ser_done' = 0
    BY <2>1, <2>2 DEF Waiting
  <2>4. \A c \in Online : Quiet(c)'
    BY <1>5, <1>6, <2>1, <2>2, <2>3 DEF Waiting, Due
  <2>5. Agreed'
    BY <1>1, <2>1, <2>2, <2>3, <2>4 DEF Agreed, Clean, Waiting
  <2> QED  BY <1>4, <2>1, <2>5 DEF Round, Before, After
<1>17. CASE WorkDone
  <2>1. /\ pc = "done" /\ Tell(Resume(event))
        /\ ack_due' = (ack_due \/ (event # STOP /\ v3))
        /\ pc' = IF event # STOP /\ v3 /\ mtk_wifi_num > 0 THEN "wait_ack" ELSE "finish"
        /\ UNCHANGED <<wait_ser_done, wait_ack_done, mtk_rest_cnt, mtk_stop_fail>>
    BY <1>17 DEF WorkDone, Resume, wifi
  <2>2. Agreed /\ told \in Asks /\ Resume(event) = Resume(told)
    BY <1>3, <2>1 DEF Round, After, Told, Agreed, Resume
  <2>3. \A c \in Online : todo'[c] = <<Resume(told)>> /\ chip'[c] = State(told)
    BY <1>1, <2>1, <2>2, Telling, Lists, Words DEF Agreed, Quiet
  <2>4. \A c \in Online : Resting(c)'
    BY <2>2, <2>3 DEF Resting
  <2>5. Calm'
    BY <1>1, <2>1, <2>2, <2>4 DEF Calm, Agreed, Clean
  <2>6. wait_ack_done = 0 /\ (ack_due => Online = {})
    BY <1>3, <2>1 DEF Acks
  <2>7. mtk_wifi_num > 0 <=> Online # {}
    BY <1>6
  <2>8. ack_due' => Online = {} \/ pc' = "wait_ack"
    BY <2>1, <2>6, <2>7
  <2>9. Acks'
    BY <1>1, <2>1, <2>6, <2>8 DEF Acks
  <2> QED  BY <2>1, <2>5, <2>9 DEF Round, Before, After
<1>18. CASE WorkWaitAck
  <2>1. /\ pc = "wait_ack" /\ wait_ack_done > 0 /\ wait_ack_done' = wait_ack_done - 1
        /\ pc' = "ack_lock"
        /\ UNCHANGED <<wait_ser_done, mtk_rest_cnt, mtk_stop_fail, todo, ack_due>>
    BY <1>18 DEF WorkWaitAck, chips
  <2>2. Calm /\ wait_ack_done = 1 /\ ~ack_due
    BY <1>3, <2>1 DEF Round, Before, Acks
  <2>3. \A c \in Online : Resting(c)'
    BY <1>1, <2>1, <2>2 DEF Resting, Calm
  <2>4. Calm' /\ Acks'
    BY <1>1, <2>1, <2>2, <2>3 DEF Calm, Clean, Acks
  <2> QED  BY <2>1, <2>4 DEF Round, Before, After
<1> QED  BY <1>10, <1>11, <1>12, <1>13, <1>14, <1>15, <1>16, <1>17, <1>18 DEF WorkStep

\* One chip answers: the last one completes, unless a chip could not stop its traffic.
LEMMA AnswerHandshake ==
    ASSUME TypeOK, ChipCount, Told, Handshake, NEW c \in Chips, ChipStops(c) \/ ChipResets(c)
    PROVE  Handshake'
<1>1. /\ upset \subseteq upset' /\ UNCHANGED <<pc, told, v3, wait_ack_done, mtk_wifi_num, ack_due>>
      /\ chip \in [Chips -> {"absent", "up", "stopped", "down"}]
      /\ todo \in [Chips -> Seq(Requests)] /\ mtk_rest_cnt \in Int
  BY Parts DEF ChipStops, ChipResets, worker, WifiTypes
<1>2. SUFFICES ASSUME upset' \cap {"chips", "stopfail", "late"} = {}
               PROVE  Round' /\ (pc' # "dead" => Acks')
  BY DEF Handshake
<1>3. Round /\ (pc # "dead" => Acks)
  BY <1>1, <1>2 DEF Handshake
<1>4. /\ c \in Online /\ Online' = Online /\ Online \subseteq Chips
      /\ todo' = [todo EXCEPT ![c] = Tail(todo[c])]
  BY StepOnline DEF ChipStep, Online
<1>5. todo[c] # <<>> /\ Head(todo[c]) \in Asks /\ (ChipStops(c) <=> Head(todo[c]) = STOP)
  BY Words DEF ChipStops, ChipResets
<1>6. CASE pc = "dead"
  BY <1>1, <1>6 DEF Round, Before, After
<1>7. CASE pc # "dead"
  <2>1. \A what \in Asks : todo[c] # <<Resume(what)>> /\ todo[c] # <<Resume(what), told>>
    <3> SUFFICES ASSUME NEW what \in Asks,
                        todo[c] = <<Resume(what)>> \/ todo[c] = <<Resume(what), told>>
                 PROVE  Head(todo[c]) = Resume(what)
      BY <1>5, Words
    <3> QED  OBVIOUS
  <2>2. ~Resting(c) /\ ~Quiet(c) /\ ~Failed
    BY <1>4, <1>5, <2>1 DEF Resting, Quiet, Failed
  <2>3. pc \notin Before \cup After \cup {"again"}
    BY <1>3, <1>4, <2>2 DEF Round, Calm, Agreed
  <2>4. pc \in {"wifi", "wait_ser", "wait_again"} /\ Waiting /\ told \in Asks
    BY <1>3, <1>7, <2>2, <2>3, Parts DEF Round, Told, WorkTypes, Labels, Before, After
  <2>5. Asked(c) /\ todo[c] = <<told>> /\ c \in Due
    BY <1>4, <2>1, <2>2, <2>4 DEF Waiting, Asked, Due
  <2>6. Head(todo[c]) = told /\ todo'[c] = <<>>
    BY <1>1, <1>4, <2>4, <2>5, Lists, Words
  <2>7. Acks'
    BY <1>1, <1>3, <1>4, <1>5, <1>7, <2>4 DEF Acks
  <2>8. /\ Cardinality(Due) \in Nat /\ Cardinality(Due) > 0 /\ mtk_rest_cnt = Cardinality(Due)
        /\ Cardinality(Due \ {c}) = Cardinality(Due) - 1 /\ wait_ser_done = 0
        /\ (Due \ {c} = {} <=> Cardinality(Due \ {c}) = 0)
    <3>1. IsFiniteSet(Due \ {c})
      BY DueCount, FS_Subset
    <3>2. Due \ {c} = {} <=> Cardinality(Due \ {c}) = 0
      BY <3>1, FS_EmptySet
    <3>3. Cardinality(Due) \in Nat /\ (Due = {} <=> Cardinality(Due) = 0) /\ Due # {}
          /\ Cardinality(Due \ {c}) = Cardinality(Due) - 1
      BY <2>5, DueCount
    <3> QED  BY <2>4, <3>2, <3>3 DEF Waiting
  <2>9. ASSUME NEW d \in Online, d # c
        PROVE  (Asked(d)' <=> Asked(d)) /\ (chip'[d] = chip[d] => (Quiet(d)' <=> Quiet(d)))
    BY <1>1, <1>4, <2>9 DEF Asked, Quiet
  <2>10. ~Asked(c)'
    BY <2>6 DEF Asked
  <2>11. Due' = Due \ {c}
    BY <1>4, <2>9, <2>10 DEF Due
  <2>12. CASE chip' = [chip EXCEPT ![c] = State(told)] /\ AnswerDone
    <3>1. /\ mtk_rest_cnt' = (IF mtk_rest_cnt = 1 THEN mtk_wifi_num ELSE mtk_rest_cnt - 1)
          /\ wait_ser_done' = (IF mtk_rest_cnt = 1 THEN wait_ser_done + 1 ELSE wait_ser_done)
          /\ UNCHANGED <<event, mtk_stop_fail>>
      BY <2>12 DEF AnswerDone, LastAnswer
    <3>2. Quiet(c)'
      BY <1>1, <2>6, <2>12 DEF Quiet
    <3>3. \A d \in Online : Asked(d)' \/ Quiet(d)'
      BY <1>1, <1>4, <2>4, <2>9, <2>12, <3>2 DEF Waiting
    <3>4. mtk_rest_cnt = 1 <=> Due' = {}
      BY <2>8, <2>11
    <3>5. Waiting'
      BY <1>1, <1>4, <2>8, <2>11, <3>1, <3>3, <3>4 DEF Waiting
    <3> QED  BY <1>1, <1>3, <2>2, <2>4, <2>7, <3>1, <3>5 DEF Round, Before, After
  <2>13. CASE ChipStops(c) /\ AnswerFail /\ upset' = upset \cup FailUpset(c)
    <3>1. told = STOP /\ pc \in {"wifi", "wait_ser"}
      BY <1>3, <1>5, <2>4, <2>6, <2>13, Words DEF Round
    <3>2. v3 /\ \A d \in Online \ {c} : \A i \in DOMAIN todo[d] : todo[d][i] # STOP
      BY <1>2, <2>13 DEF FailUpset
    <3>3. ASSUME NEW d \in Online, d # c PROVE todo'[d] = <<>>
      <4>1. ~Asked(d)
        <5>1. todo[d] # <<told>>
          BY <3>1, <3>2, <3>3
        <5>2. \A what \in Asks : todo[d] # <<Resume(what), told>>
          BY <3>1, <3>2, <3>3
        <5> QED  BY <5>1, <5>2 DEF Asked
      <4> QED  BY <1>1, <1>4, <2>4, <3>3, <4>1 DEF Waiting, Quiet
    <3>4. Failed' /\ wait_ser_done' = 1
      BY <1>1, <1>4, <2>6, <2>8, <2>13, <3>2, <3>3 DEF Failed, AnswerFail
    <3> QED  BY <1>1, <2>7, <3>1, <3>4 DEF Round, Before, After
  <2> QED  BY <1>5, <2>6, <2>12, <2>13, Words DEF ChipStops, ChipResets, State
<1> QED  BY <1>6, <1>7

\* One chip resumes.
LEMMA ResumeHandshake ==
    ASSUME TypeOK, ChipCount, Told, Handshake, NEW c \in Chips, ChipResumes(c)
    PROVE  Handshake'
<1>1. /\ UNCHANGED <<upset, pc, told, v3, event, wifi, ack_due>>
      /\ chip \in [Chips -> {"absent", "up", "stopped", "down"}]
      /\ todo \in [Chips -> Seq(Requests)]
  BY Parts DEF ChipResumes, worker, flags, WifiTypes
<1>2. SUFFICES ASSUME upset' \cap {"chips", "stopfail", "late"} = {}
               PROVE  Round' /\ (pc' # "dead" => Acks')
  BY DEF Handshake
<1>3. Round /\ (pc # "dead" => Acks)
  BY <1>1, <1>2 DEF Handshake
<1>4. /\ c \in Online /\ Online' = Online /\ Online \subseteq Chips
      /\ todo' = [todo EXCEPT ![c] = Tail(todo[c])]
  BY StepOnline DEF ChipStep, Online
<1>5. /\ todo[c] # <<>> /\ Head(todo[c]) \in {"MTK_FE_START_TRAFFIC", "MTK_FE_RESET_DONE"}
      /\ \A d \in Chips : d # c => chip'[d] = chip[d]
      /\ chip'[c] = IF \/ chip[c] = "stopped" /\ Head(todo[c]) = "MTK_FE_START_TRAFFIC"
                       \/ chip[c] = "down"    /\ Head(todo[c]) = "MTK_FE_RESET_DONE"
                    THEN "up" ELSE chip[c]
  BY <1>1 DEF ChipResumes
<1>6. ASSUME pc # "dead" PROVE Acks'
  BY <1>1, <1>3, <1>4, <1>5, <1>6 DEF Acks, wifi
<1>7. ASSUME NEW d \in Chips, d # c
      PROVE  /\ (Resting(d)' <=> Resting(d)) /\ (Asked(d)' <=> Asked(d))
             /\ (Quiet(d)' <=> Quiet(d))
  BY <1>1, <1>4, <1>5, <1>7 DEF Resting, Asked, Quiet
<1>8. ~Quiet(c) /\ ~Failed
  BY <1>4, <1>5 DEF Quiet, Failed
<1>9. CASE pc \in Before
  <2>1. Resting(c)
    BY <1>3, <1>4, <1>9 DEF Round, Calm
  <2>2. PICK what \in Asks : todo[c] = <<Resume(what)>> /\ chip[c] = State(what)
    BY <1>5, <2>1 DEF Resting
  <2>3. Head(todo[c]) = Resume(what) /\ Tail(todo[c]) = <<>>
    BY <2>2, Lists, Words
  <2>4. Resting(c)'
    BY <1>1, <1>4, <1>5, <2>2, <2>3 DEF Resting, Resume, State
  <2>5. Calm'
    BY <1>1, <1>3, <1>4, <1>7, <1>9, <2>4 DEF Round, Calm, Clean, wifi
  <2> QED  BY <1>1, <1>6, <1>9, <2>5 DEF Round, Before, After
<1>10. CASE pc \in {"wifi", "wait_ser", "wait_again"}
  <2>1. Waiting /\ told \in Asks
    BY <1>3, <1>8, <1>10 DEF Round, Told
  <2>2. Asked(c)
    BY <1>4, <1>8, <2>1 DEF Waiting
  <2>3. Head(<<told>>) = told
    OBVIOUS
  <2>4. todo[c] # <<told>>
    BY <1>5, <2>1, <2>3, Words DEF START, STOP
  <2>5. PICK what \in Asks : todo[c] = <<Resume(what), told>>
    BY <2>2, <2>4 DEF Asked
  <2>6. todo'[c] = <<told>>
    BY <1>1, <1>4, <2>1, <2>5, Lists, Words
  <2>7. Asked(c)'
    BY <1>1, <2>6 DEF Asked
  <2>8. Due' = Due
    BY <1>4, <1>7, <2>2, <2>7 DEF Due
  <2>9. Waiting'
    BY <1>1, <1>4, <1>7, <2>1, <2>7, <2>8 DEF Waiting, wifi
  <2> QED  BY <1>1, <1>3, <1>6, <1>8, <1>10, <2>9 DEF Round, Before, After, wifi
<1>11. CASE pc \in After \cup {"again"}
  BY <1>3, <1>4, <1>8, <1>11 DEF Round, Agreed
<1>12. CASE pc = "dead"
  BY <1>1, <1>12 DEF Round, Before, After
<1> QED  BY <1>9, <1>10, <1>11, <1>12, Parts DEF WorkTypes, Labels, Before, After

\* A chip may come and go when nothing is under way.
LEMMA MoveHandshake ==
    ASSUME TypeOK, ChipCount, Handshake, NEW c \in Chips, MoveStep(c)
    PROVE  Handshake'
<1>1. /\ UNCHANGED <<pc, wait_ser_done, wait_ack_done, mtk_stop_fail, ack_due>>
      /\ mtk_rest_cnt' = mtk_wifi_num' /\ todo' = [todo EXCEPT ![c] = <<>>]
      /\ upset' = upset \cup (IF InReset \/ ack_due \/ \E d \in Chips : todo[d] # <<>>
                              THEN {"chips"} ELSE {})
      /\ chip' \in {[chip EXCEPT ![c] = "up"], [chip EXCEPT ![c] = "absent"]}
      /\ chip \in [Chips -> {"absent", "up", "stopped", "down"}]
      /\ todo \in [Chips -> Seq(Requests)]
  BY Parts DEF MoveStep, ChipOnline, ChipOffline, ChipMove, worker, WifiTypes
<1>2. SUFFICES ASSUME upset' \cap {"chips", "stopfail", "late"} = {}
               PROVE  Round' /\ (pc' # "dead" => Acks')
  BY DEF Handshake
<1>3. Round /\ (pc # "dead" => Acks)
  BY <1>1, <1>2 DEF Handshake
<1>4. ~InReset /\ ~ack_due /\ \A d \in Chips : todo[d] = <<>>
  BY <1>1, <1>2
<1>5. pc \in (Before \ {"wait_ack"}) \cup {"dead"}
  BY <1>4, Parts DEF InReset, Before, WorkTypes, Labels
<1>6. CASE pc = "dead"
  BY <1>1, <1>6 DEF Round, Before, After
<1>7. CASE pc # "dead"
  <2>1. Calm /\ \A d \in Chips : todo'[d] = <<>>
    BY <1>1, <1>3, <1>4, <1>5, <1>7 DEF Round
  <2>2. \A d \in Online : chip[d] = "up"
    BY <1>4, <2>1, Lists, Words DEF Calm, Resting, Online
  <2>3. \A d \in Online' : d \in Chips /\ chip'[d] = "up"
    BY <1>1, <2>2 DEF Online
  <2>4. Calm'
    BY <1>1, <2>1, <2>3 DEF Calm, Clean, Resting
  <2>5. Acks'
    BY <1>1, <1>3, <1>4, <1>5, <1>7 DEF Acks
  <2> QED  BY <1>1, <1>5, <1>7, <2>4, <2>5 DEF Round, Before, After
<1> QED  BY <1>6, <1>7

\* All are back.
LEMMA AckHandshake ==
    ASSUME TypeOK, Handshake, WifiAck
    PROVE  Handshake'
<1>1. /\ UNCHANGED <<flags, wait_ser_done, mtk_rest_cnt, mtk_wifi_num, mtk_stop_fail, pc, told,
                     chip, todo, v3, upset>>
      /\ wait_ack_done' = wait_ack_done + 1 /\ ack_due /\ ack_due' = FALSE
      /\ Online # {} /\ \A c \in Online : todo[c] = <<>>
  BY DEF WifiAck, worker
<1>2. Online' = Online
  BY <1>1 DEF Online
<1>3. \A c \in Online : /\ (Resting(c)' <=> Resting(c)) /\ (Asked(c)' <=> Asked(c))
                        /\ (Quiet(c)' <=> Quiet(c))
  BY <1>1 DEF Resting, Asked, Quiet
<1>4. Due' = Due
  BY <1>2, <1>3 DEF Due
<1>5. Round' <=> Round
  BY <1>1, <1>2, <1>3, <1>4 DEF Round, Calm, Clean, Waiting, Failed, Agreed, flags
<1>6. Acks => Acks'
  <2>1. ASSUME Acks PROVE pc = "wait_ack" /\ wait_ack_done = 0
    BY <1>1, <2>1 DEF Acks
  <2> QED  BY <1>1, <1>2, <2>1 DEF Acks
<1> QED  BY <1>1, <1>5, <1>6 DEF Handshake

\* The work knows what it has told the chips.
LEMMA ToldStep == ASSUME Told, Next PROVE Told'
<1>1. CASE ~WorkStep
  BY <1>1, Steps, TriggerFrame, DevFrame, MuxFrame, ChipFrame DEF Told, worker
<1>2. CASE WorkStep
  BY <1>2 DEF Told, WorkStep, WorkStart, WorkCheck, WorkLock, WorkSetBit, WorkNotify, WorkWifi,
     WorkWaitSer, WorkAgain, WorkWaitAgain, WorkStop, WorkHwInit, WorkOpen, WorkDone, WorkWaitAck,
     WorkFinish, Asks, After
<1> QED  BY <1>1, <1>2

\* Every step keeps the handshake.
LEMMA HandshakeStep ==
    ASSUME TypeOK, LockCount, ChipCount, Told, Handshake, Next
    PROVE  Handshake'
<1>1. CASE Trigger \/ \E d \in Devs : DevStep(d) \/ MuxPoll(d) \/ MuxStep(d)
  <2>1. /\ UNCHANGED <<wifi, chips, pc, told, v3>> /\ upset \subseteq upset'
        /\ event' = event \/ "late" \in upset' \/ pc = "idle"
    BY <1>1, TriggerFrame, DevFrame, MuxFrame DEF worker, flags, LockCount
  <2> QED  BY <2>1, HandshakeFrame
<1> QED  BY <1>1, Steps, WorkHandshake, AnswerHandshake, ResumeHandshake, MoveHandshake,
            AckHandshake DEF ChipStep

----------------------------------------------------------------------------
(* The invariant.                                                           *)

Counts == LockCount /\ ForceCount /\ ChipCount
IInv   == TypeOK /\ Counts /\ Locks /\ Attached /\ Shares /\ Links /\ Told /\ Handshake

\* A system that has started, with every device open.
LEMMA Started == Init => IInv
<1> SUFFICES ASSUME Init PROVE IInv
  OBVIOUS
<1>1. Online \in SUBSET Chips /\ Devs \in SUBSET Devs
  BY DEF Online
<1>2. /\ Cardinality(Online) \in Nat /\ Cardinality(Online) <= Cardinality(Chips)
      /\ Cardinality(Devs) \in Nat /\ Cardinality(Chips) \in Nat /\ MaxEvents \in Nat
  BY <1>1, Countable, EventAssumption
<1>3. TypeOK
  <2>1. FlagTypes
    <3>1. rstctrl_eth \in BOOLEAN /\ resetting \in BOOLEAN
      BY DEF Init
    <3> QED  BY <1>2, <3>1 DEF Init, FlagTypes
  <2>2. WifiTypes
    <3>1. todo \in [Chips -> Seq(Requests)]
      BY DEF Init
    <3>2. ack_due \in BOOLEAN /\ mtk_stop_fail \in BOOLEAN
      BY DEF Init
    <3>3. mtk_wifi_num \in 0..Cardinality(Chips) /\ mtk_rest_cnt \in Int
      BY <1>2 DEF Init
    <3> QED  BY <3>1, <3>2, <3>3 DEF Init, WifiTypes
  <2>3. DevTypes
    BY <1>2 DEF Init, DevTypes
  <2>4. WorkTypes
    BY CapsAssumption DEF Init, WorkTypes, Labels
  <2> QED  BY <2>1, <2>2, <2>3, <2>4, Parts
<1>4. Counts
  <2>1. LockCount /\ ForceCount
    BY <1>2 DEF Init, LockCount, ForceCount
  <2>2. ChipCount
    BY DEF Init, ChipCount
  <2> QED  BY <2>1, <2>2 DEF Counts
<1>5. Locks /\ Attached /\ \A d \in Devs : ~Out(d)
  BY DEF Init, Locks, Locked, Marked, Attached, Out
<1>6. Live = Devs
  BY <1>5 DEF Init, Live
<1>7. Shares /\ Links
  BY <1>5, <1>6 DEF Init, Shares, Links, Follows
<1>8. Told /\ Handshake
  <2>1. \A c \in Online : Resting(c)
    BY DEF Init, Online, Resting
  <2>2. Calm /\ Acks
    BY <2>1 DEF Init, Calm, Clean, Acks
  <2> QED  BY <2>2 DEF Init, Told, Handshake, Round, Before, After
<1> QED  BY <1>3, <1>4, <1>5, <1>7, <1>8 DEF IInv

\* Every step keeps every part.
LEMMA InvStep == IInv /\ [Next]_vars => IInv'
<1>1. ASSUME IInv, Next PROVE IInv'
  <2>1. TypeOK' /\ Counts'
    BY <1>1, TypeStep DEF IInv, Counts
  <2>2. Locks' /\ Attached' /\ Shares' /\ Links'
    BY <1>1, LocksStep, SharesStep, LinksStep DEF IInv, Counts
  <2>3. Told' /\ Handshake'
    BY <1>1, ToldStep, HandshakeStep DEF IInv, Counts
  <2> QED  BY <2>1, <2>2, <2>3 DEF IInv
<1>2. ASSUME IInv, UNCHANGED vars PROVE IInv'
  <2>1. UNCHANGED <<flags, wifi, devs, rtnl, queued, worker, others, chips, hang, v3, events,
                    upset>>
    BY <1>2 DEF vars
  <2>2. TypeOK'
    BY <1>2, <2>1 DEF IInv, TypeOK, flags, wifi, devs, worker, others, chips
  <2>3. Counts'
    BY <1>2, <2>1 DEF IInv, Counts, LockCount, ForceCount, ChipCount, Online, flags, wifi, worker,
                      chips
  <2>4. Locks' /\ Attached'
    BY <1>2, <2>1 DEF IInv, Locks, Attached, flags, devs, worker, others
  <2>5. Live' = Live /\ \A d \in Devs : Out(d)' <=> Out(d)
    BY <2>1 DEF Live, Out, devs, worker, others
  <2>6. Shares' /\ Links'
    BY <1>2, <2>1, <2>5 DEF IInv, Shares, Links, Follows, flags, devs, worker
  <2>7. Told' /\ Handshake'
    BY <1>2, <2>1, HandshakeFrame DEF IInv, Told, flags, worker
  <2> QED  BY <2>2, <2>3, <2>4, <2>6, <2>7 DEF IInv
<1> QED  BY <1>1, <1>2

\* It holds in every state.
LEMMA Invariant == Spec => []IInv
BY Started, InvStep, PTL DEF Spec

\* The variables of the reset keep the types of their declarations: reset_lock is 0 or 1
\* and mtk_wifi_num never negative, and the forced reset is bounded by what raises it
\* (mtk_eth_reset.c:32-34, mtk_eth_soc.c:36-43).
THEOREM ResetTypes == Spec => []TypeOK
<1>1. IInv => TypeOK
  BY DEF IInv
<1> QED  BY <1>1, Invariant, PTL

\* The frame engine is not reset under running DMA rings, and what counts the users of the
\* rings counts those that run, however resets, users and muxes interleave (mtk_open,
\* mtk_stop, mtk_pending_work).
THEOREM DmaIsSound == Spec => []DmaSound
<1>1. IInv => DmaSound
  <2> SUFFICES ASSUME IInv, upset \cap {"mux", "leak"} = {}
               PROVE  /\ DmaDownAtReset /\ dma # "stale"
                      /\ rtnl = "free" /\ (\A d \in Devs : mux[d] \in {"idle", "stop"}) =>
                             dma_refcnt = Cardinality(running) /\ (dma = "on" <=> running # {})
    BY DEF DmaSound
  <2>1. dma_refcnt = Cardinality(Live) /\ dma = (IF Live = {} THEN "off" ELSE "on")
    BY DEF IInv, Shares
  <2>2. DmaDownAtReset /\ dma # "stale"
    BY <2>1 DEF DmaDownAtReset, Live
  <2>3. ASSUME rtnl = "free", \A d \in Devs : mux[d] \in {"idle", "stop"}
        PROVE  Live = running
    <3>1. pc \notin {"hw", "open"} /\ running \subseteq Devs
      BY <2>3, Parts DEF IInv, Locks, Locked, DevTypes
    <3> QED  BY <2>3, <3>1 DEF Live, Out
  <2> QED  BY <2>1, <2>2, <2>3
<1> QED  BY <1>1, Invariant, PTL

\* Between resets the devices that run are those whose phylink was started, although the
\* reset closes and opens the phylinks only when it resets the ETH too, and although the test
\* of that is made anew in mtk_stop and in mtk_open.
THEOREM PhylinkAlwaysFollows == Spec => []PhylinkFollows
<1>1. IInv => PhylinkFollows
  BY DEF IInv, Links, Follows, Out, PhylinkFollows
<1> QED  BY <1>1, Invariant, PTL

\* The frame engine is reset only when every chip that is online has done what it was told,
\* and their DMA engines with it just when they were told so: no answer is taken for that of
\* another chip, of a failed stop, or of the round before (mtk_pending_work,
\* mtk_eth_netdevice_event).
THEOREM ChipsAreQuiet == Spec => []ChipsQuietAtReset
<1>1. IInv => ChipsQuietAtReset
  <2> SUFFICES ASSUME IInv, pc = "hw", upset \cap {"chips", "stopfail", "late"} = {}
               PROVE  /\ \A c \in Online : chip[c] = IF told = STOP THEN "stopped" ELSE "down"
                      /\ event # None => (told = START <=> event = START)
    BY DEF ChipsQuietAtReset
  <2>1. Agreed /\ told \in Asks
    BY DEF IInv, Handshake, Round, Told, After
  <2>2. event \in Asks \cup {None}
    BY Parts DEF IInv, FlagTypes
  <2> QED  BY <2>1, <2>2, Words DEF Agreed, Quiet, State
<1> QED  BY <1>1, Invariant, PTL

\* After a reset every chip has been resumed as it was stopped, and neither a completion nor
\* a count is left over that the next reset would take for an answer (wait_ser_done,
\* wait_ack_done, mtk_rest_cnt, mtk_stop_fail).
THEOREM HandshakeIsBalanced == Spec => []HandshakeBalanced
<1>1. IInv => HandshakeBalanced
  <2> SUFFICES ASSUME IInv, pc = "idle", \A c \in Chips : todo[c] = <<>>,
                      upset \cap {"chips", "stopfail", "late"} = {}
               PROVE  /\ \A c \in Online : chip[c] = "up"
                      /\ wait_ser_done = 0 /\ wait_ack_done = 0
                      /\ mtk_rest_cnt = mtk_wifi_num /\ ~mtk_stop_fail
    BY DEF HandshakeBalanced
  <2>1. Calm /\ Acks
    BY DEF IInv, Handshake, Round, Before
  <2>2. \A c \in Online : chip[c] = "up"
    BY <2>1, Lists, Words DEF Calm, Resting, Online
  <2> QED  BY <2>1, <2>2 DEF Calm, Clean, Acks
<1> QED  BY <1>1, Invariant, PTL

=============================================================================
