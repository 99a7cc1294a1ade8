-------------------------- MODULE ImageSlots_proofs --------------------------
(***************************************************************************)
(* What an upgrade never breaks, for every size of chip and image, every     *)
(* board, and any number of upgrades, failures and cuts.                     *)
(*                                                                          *)
(* The properties follow from what is true of the slot that Linux runs from  *)
(* (it can be started again) and of the one that is written (current_slot    *)
(* does not lead there before it is whole).                                  *)
(***************************************************************************)
EXTENDS ImageSlots, WellFoundedInduction, TLAPS

\* The part of the types that the steps need.
SlotTypes ==
    /\ fw \in [Slots -> [size : Int, whole : BOOLEAN]]
    /\ current \in Slots /\ invalid \in SUBSET Slots
    /\ image \in ImageSizes
    /\ booted \in Slots \union {None} /\ promised \in Slots \union {None}
    /\ booted = None <=> pc = "off"

RunsFromWhole == pc # "off" => Bootable(booted)

\* Behind the write, the slot is whole; only then current_slot may name it without a mark.
Written == {"set_slot", "set_valid", "reboot"}
TargetIsApart ==
    pc # "off" => /\ pc \in Written => fw[Target].whole
                  /\ pc \in {"set_valid", "reboot"} /\ "env" \notin spoiled => current = Target
                  /\ current = Target /\ current \notin invalid => pc \in Written

\* A promise is made at the end of an upgrade, and lasts until the next start.
PromiseInv ==
    promised # None =>
        /\ pc \in {"reboot", "off"}
        /\ "env" \notin spoiled => current = promised /\ Bootable(promised)

SlotInv == /\ SlotTypes /\ RunsFromWhole /\ AlwaysBoots /\ CurrentIsWhole
           /\ TargetIsApart /\ PromiseInv

\* The smallest image is a number: there is one, as the numbers are well founded.
LEMMA SmallIsNat == /\ Small \in ImageSizes /\ Small \in Nat
                    /\ \A n \in ImageSizes : Small <= n
<1>1. ImageSizes \subseteq Nat /\ ImageSizes # {}
  BY ImageAssumption, BoundAssumption
<1>2. \E n \in ImageSizes : \A k \in ImageSizes : <<k, n>> \notin OpToRel(<, Nat)
  BY <1>1, NatLessThanWellFounded, WFMin
<1>3. \A n, k \in Nat : <<k, n>> \notin OpToRel(<, Nat) => n <= k
  BY DEF OpToRel
<1>4. \E n \in ImageSizes : \A k \in ImageSizes : n <= k
  BY <1>1, <1>2, <1>3
<1> QED  BY <1>1, <1>4 DEF Small

\* A board that leaves the factory starts from its first slot.
LEMMA InitInv == Init => SlotInv
<1> SUFFICES ASSUME Init PROVE SlotInv
  OBVIOUS
<1>1. fw \in [Slots -> [size : Int, whole : BOOLEAN]] /\ fw[0].whole
  <2>1. PICK present \in {{0}, Slots} :
           fw = [s \in Slots |->
                   IF s \in present THEN [size |-> Small, whole |-> TRUE] ELSE NoImage]
    BY DEF Init
  <2> QED  BY <2>1, SmallIsNat DEF Slots, NoImage
<1>2. image = Small /\ current = 0 /\ invalid = {} /\ pc = "off" /\ booted = None /\ promised = None
  BY DEF Init
<1> QED  BY <1>1, <1>2, SmallIsNat DEF SlotInv, SlotTypes, RunsFromWhole, AlwaysBoots,
           CurrentIsWhole, TargetIsApart, PromiseInv, Bootable, Slots, None, Target, Other

\* The boot loader marks a slot that it passes over, so that current_slot, wherever it points
\* afterwards, does not lead to a slot that the next upgrade tears.
LEMMA StartStep == ASSUME SlotInv, NEW s \in Slots, Start(s) PROVE SlotInv'
<1> USE DEF SlotInv, SlotTypes, Slots, None, Other
<1>1. fw' = fw /\ image' = image /\ booted' = s /\ pc' = "init" /\ promised' = None /\ Bootable(s)
  BY DEF Start, chip
<1>2. CASE s = current
  <2>1. UNCHANGED <<current, invalid>>
    BY <1>2 DEF Start, env
  <2>2. Target' # current'
    BY <1>1, <1>2, <2>1 DEF Target
  <2> QED  BY <1>1, <1>2, <2>1, <2>2 DEF RunsFromWhole, AlwaysBoots, CurrentIsWhole,
                    TargetIsApart, PromiseInv, Bootable, Written
<1>3. CASE s # current
  <2>1. invalid' = invalid \union {current} /\ current' \in Slots
    BY <1>3 DEF Start
  <2> QED  BY <1>1, <1>3, <2>1 DEF RunsFromWhole, AlwaysBoots, CurrentIsWhole, TargetIsApart,
                    PromiseInv, Bootable, Target, Written
<1> QED  BY <1>2, <1>3

\* The device goes off or on running, and nothing of the slots changes.
LEMMA QuietStep ==
    ASSUME SlotInv, pc # "off", UNCHANGED <<fw, current, invalid, promised>>, image' \in ImageSizes,
           "env" \in spoiled => "env" \in spoiled',
           \/ pc' = "off" /\ booted' = None
           \/ /\ pc' \notin Written \union {"off"} /\ pc \notin Written
              /\ booted' = booted
    PROVE  SlotInv'
<1> USE DEF SlotInv, SlotTypes, Slots, None, Other
<1>1. booted \in Slots /\ Bootable(booted)
  BY DEF RunsFromWhole
<1>2. CASE pc' = "off" /\ booted' = None
  BY <1>1, <1>2 DEF RunsFromWhole, AlwaysBoots, CurrentIsWhole, TargetIsApart, PromiseInv, Bootable
<1>3. CASE pc' \notin Written \union {"off"} /\ pc \notin Written /\ booted' = booted
  BY <1>1, <1>3 DEF RunsFromWhole, AlwaysBoots, CurrentIsWhole, TargetIsApart, PromiseInv,
                    Bootable, Target, Written
<1> QED  BY <1>2, <1>3

\* The upgrade changes the slot that Linux does not run from; what it leaves there is torn, and
\* current_slot does not name it, or whole.
LEMMA TargetStep ==
    ASSUME SlotInv, pc # "off", UNCHANGED <<booted, image>>,
           \E r \in [size : Int, whole : BOOLEAN] : fw' = [fw EXCEPT ![Target] = r],
           invalid' = invalid \/ (invalid' = invalid \ {Target} /\ fw'[Target].whole),
           current' = current \/ current' = Target,
           current' = Target /\ current' \notin invalid' => pc' \in Written,
           pc' \in Written => fw'[Target].whole, pc' # "off",
           pc' \in {"set_valid", "reboot"} /\ "env" \notin spoiled' => current' = Target,
           promised' = None \/ ( /\ promised' = Target /\ pc' = "reboot"
                                 /\ "env" \notin spoiled' => Target \notin invalid')
    PROVE  SlotInv'
<1> USE DEF SlotInv, SlotTypes, None
<1>1. booted \in Slots /\ Bootable(booted)
  BY DEF RunsFromWhole
<1>2. /\ Target \in Slots /\ Target # booted /\ Target' = Target
      /\ \A s \in Slots : s = booted \/ s = Target
  BY <1>1 DEF Target, Other, Slots
<1>3. /\ fw' \in [Slots -> [size : Int, whole : BOOLEAN]] /\ fw'[booted] = fw[booted]
      /\ invalid' \in SUBSET Slots /\ current' \in Slots /\ promised' \in Slots \union {None}
      /\ booted \notin invalid'
  BY <1>1, <1>2 DEF Bootable
<1>4. SlotTypes'
  BY <1>1, <1>3, <1>2 DEF Slots
<1>5. RunsFromWhole' /\ AlwaysBoots'
  BY <1>1, <1>3 DEF RunsFromWhole, AlwaysBoots, Bootable
<1>6. CurrentIsWhole' /\ TargetIsApart'
  BY <1>1, <1>2, <1>3 DEF CurrentIsWhole, TargetIsApart, Bootable
<1>7. PromiseInv'
  BY <1>2, <1>3 DEF PromiseInv, Bootable, Written
<1> QED  BY <1>4, <1>5, <1>6, <1>7

LEMMA WriteStep ==
    ASSUME SlotInv, KillFirmware \/ MakeFirmware \/ WriteFirmware
    PROVE  SlotInv'
<1>1. /\ pc \notin Written \union {"off"} /\ promised = None
      /\ fw \in [Slots -> [size : Int, whole : BOOLEAN]] /\ image \in Int /\ Target \in Slots
      /\ current = Target => current \in invalid
  BY ImageAssumption, BoundAssumption
     DEF SlotInv, SlotTypes, TargetIsApart, PromiseInv, KillFirmware, MakeFirmware, WriteFirmware,
         Written, Target, Other, Slots, None
<1>2. CASE KillFirmware
  <2>1. NoImage \in [size : Int, whole : BOOLEAN]
    BY DEF NoImage
  <2>2. /\ fw' = [fw EXCEPT ![Target] = NoImage] /\ pc' \notin Written \union {"off"}
        /\ UNCHANGED <<current, invalid, booted, image, promised, spoiled>>
    BY <1>2 DEF KillFirmware, AfterFirmware, Goto, env, Written
  <2> QED  BY <1>1, <2>1, <2>2, TargetStep DEF Written
<1>3. CASE MakeFirmware /\ fw[Target].size = 0 /\ Free >= image
  <2> DEFINE torn == [size |-> image, whole |-> FALSE]
  <2>1. torn \in [size : Int, whole : BOOLEAN]
    BY <1>1
  <2>2. /\ fw' = [fw EXCEPT ![Target] = torn] /\ pc' \notin Written \union {"off"}
        /\ UNCHANGED <<current, invalid, booted, image, promised, spoiled>>
    BY <1>3 DEF MakeFirmware, Goto, env, Written
  <2> HIDE DEF torn
  <2> QED  BY <1>1, <2>1, <2>2, TargetStep DEF Written
<1>4. CASE MakeFirmware /\ ~(fw[Target].size = 0 /\ Free >= image)
  <2>1. /\ pc' = "stuck" /\ UNCHANGED <<fw, current, invalid, booted, image, promised, spoiled>>
    BY <1>4 DEF MakeFirmware, GiveUp, chip, env
  <2> QED  BY <1>1, <2>1, QuietStep DEF Written, SlotInv, SlotTypes
<1>5. CASE WriteFirmware
  <2> DEFINE whole == [fw[Target] EXCEPT !.whole = TRUE]
  <2>1. whole \in [size : Int, whole : BOOLEAN] /\ whole.whole
    BY <1>1
  <2>2. /\ fw' = [fw EXCEPT ![Target] = whole] /\ pc' = "set_slot"
        /\ UNCHANGED <<current, invalid, booted, image, promised, spoiled>>
    BY <1>1, <1>5 DEF WriteFirmware, Goto, env
  <2>3. fw'[Target].whole
    BY <1>1, <2>1, <2>2
  <2> HIDE DEF whole
  <2> QED  BY <1>1, <2>1, <2>2, <2>3, TargetStep DEF Written
<1> QED  BY <1>2, <1>3, <1>4, <1>5

\* Behind the write, current_slot moves and the mark goes.
LEMMA SwitchStep == ASSUME SlotInv, SetSlot \/ SetValid \/ EnvFails PROVE SlotInv'
<1>1. /\ pc \in Written /\ pc # "off" /\ promised = None
      /\ Target \in Slots /\ fw[Target].whole
      /\ UNCHANGED <<fw, booted, image>>
  BY DEF SlotInv, SlotTypes, RunsFromWhole, TargetIsApart, PromiseInv, SetSlot, SetValid, EnvFails,
         Goto,         chip, Written, Target, Other, Slots, None
<1>2. fw[Target] \in [size : Int, whole : BOOLEAN] /\ fw' = [fw EXCEPT ![Target] = fw[Target]]
  BY <1>1 DEF SlotInv, SlotTypes
<1>3. CASE SetSlot
  <2>1. current' = Target /\ UNCHANGED <<invalid, promised, spoiled>> /\ pc' = "set_valid"
    BY <1>3 DEF SetSlot, Goto
  <2> QED  BY <1>1, <1>2, <2>1, TargetStep DEF Written
<1>4. CASE SetValid
  <2>1. /\ invalid' = invalid \ {Target} /\ promised' = Target /\ pc' = "reboot"
        /\ "env" \notin spoiled => current = Target
        /\ UNCHANGED <<current, spoiled>>
    BY <1>4 DEF SetValid, SlotInv, TargetIsApart
  <2> QED  BY <1>1, <1>2, <1>4, <2>1, TargetStep DEF Written
<1>5. CASE EnvFails
  <2>1. /\ UNCHANGED <<current, invalid>> /\ "env" \in spoiled'
        /\ \/ pc = "set_slot" /\ pc' = "set_valid" /\ promised' = None
           \/ pc' = "reboot" /\ promised' = Target
    BY <1>1, <1>5 DEF EnvFails, env
  <2> QED  BY <1>1, <1>2, <2>1, TargetStep DEF Written
<1> QED  BY <1>3, <1>4, <1>5

\* Every other step leaves the slots and the boot environment alone.
LEMMA StepInv == SlotInv /\ [Next]_vars => SlotInv'
<1> SUFFICES ASSUME SlotInv, [Next]_vars PROVE SlotInv'
  OBVIOUS
<1>1. CASE \E s \in Slots : Start(s)
  BY <1>1, StartStep
<1>2. CASE KillFirmware \/ MakeFirmware \/ WriteFirmware
  BY <1>2, WriteStep
<1>3. CASE SetSlot \/ SetValid \/ EnvFails
  BY <1>3, SwitchStep
<1>4. CASE \/ InitOverlay \/ ResetMake \/ ResetKeeps \/ ResetMakeFails \/ Upgrade
           \/ RemoveUbiblocks \/ KillData \/ KillFirmwareFails \/ KillDataFails
  <2>1. /\ pc \notin Written \union {"off"} /\ pc' \notin Written \union {"off"}
        /\ UNCHANGED <<fw, current, invalid, booted, promised>>
        /\ "env" \in spoiled => "env" \in spoiled'
    BY <1>4
       DEF InitOverlay, ResetMake, ResetKeeps, ResetMakeFails, Upgrade, RemoveUbiblocks, KillData,
           RemoveData, KillFirmwareFails, KillDataFails, Keeps, AfterFirmware, Goto, chip, env,
           Written
  <2>2. image' \in ImageSizes
    BY <1>4 DEF InitOverlay, ResetMake, ResetKeeps, ResetMakeFails, Upgrade, RemoveUbiblocks,
                KillData, RemoveData, KillFirmwareFails, KillDataFails, Keeps, Goto, SlotInv,
                SlotTypes
  <2> QED  BY <2>1, <2>2, QuietStep
<1>5. CASE MakeData \/ UbiblockBusy \/ MakeFails \/ WriteFails
  <2>1. /\ pc \notin Written \union {"off"} /\ pc' \notin Written \union {"off"}
        /\ UNCHANGED <<fw, current, invalid, booted, image, promised, spoiled>>
    BY <1>5
       DEF MakeData, UbiblockBusy, MakeFails, WriteFails, Fails, GiveUp, Goto, chip, env, Written
  <2> QED  BY <2>1, QuietStep DEF SlotInv, SlotTypes
<1>6. CASE Reboot \/ AskReset \/ Cut
  <2>1. /\ pc # "off" /\ pc' = "off" /\ booted' = None
        /\ UNCHANGED <<fw, current, invalid, image, promised>>
        /\ "env" \in spoiled => "env" \in spoiled'
    BY <1>6 DEF Reboot, AskReset, Cut, chip, env
  <2> QED  BY <2>1, QuietStep DEF SlotInv, SlotTypes
<1>7. CASE UNCHANGED vars
  BY <1>7 DEF vars, chip, env, SlotInv, SlotTypes, RunsFromWhole, AlwaysBoots, CurrentIsWhole,
              TargetIsApart, PromiseInv, Bootable, Target, Other
<1> QED  BY <1>1, <1>2, <1>3, <1>4, <1>5, <1>6, <1>7 DEF Next, Script

\* Whenever the power is cut and whatever command fails, one slot can be started: the slots
\* change hands only behind the last step of nand_v2.sh that may fail.
THEOREM SomeSlotBoots == Spec => []AlwaysBoots
<1>1. SlotInv => AlwaysBoots
  BY DEF SlotInv
<1> QED  BY InitInv, StepInv, <1>1, PTL DEF Spec

\* The boot environment never names an image that is missing or torn as one to start.
THEOREM CurrentSlotIsWhole == Spec => []CurrentIsWhole
<1>1. SlotInv => CurrentIsWhole
  BY DEF SlotInv
<1> QED  BY InitInv, StepInv, <1>1, PTL DEF Spec

\* An upgrade that has reported success is what the next start runs, if it comes up at all.
THEOREM UpgradeIsKept == Spec => []PromiseKept
<1>1. SlotInv => PromiseKept
  BY DEF SlotInv, PromiseInv, PromiseKept
<1> QED  BY InitInv, StepInv, <1>1, PTL DEF Spec

-----------------------------------------------------------------------------
(***************************************************************************)
(* The settings are there, and there is room: types, and who has taken how  *)
(* much of the chip.                                                        *)
(***************************************************************************)
\* A volume that is there holds the smallest image, or the settings that the board asks for.
ImageFits(s) == fw[s].size >= Small
Full(v)      == data[v].size > 0 /\ data[v].size >= board.limit

SizesInv ==
    /\ \A s \in Slots : ImageFits(s) \/ (fw[s].size = 0 /\ ~fw[s].whole)
    /\ \A v \in Slots : Full(v) \/ (data[v].size = 0 /\ ~data[v].reset)
    /\ board.shared => data[1].size = 0

\* Where settings may be missing: those being reset; shared ones during an upgrade.
SettingsInv ==
    /\ pc = "resetting" => data[Vol(booted)].size = 0 /\ Free > 0 /\ Free >= board.limit
    /\ pc = "up" /\ overlay => Full(Vol(booted))
    /\ pc = "write" /\ ~board.reserve => Full(Vol(Target))
    /\ spoiled \intersect {"reset", "kept"} = {} /\ ~board.shared =>
          \A s \in Slots : fw[s].whole => Full(s) \/ (pc = "resetting" /\ s = booted)
    /\ spoiled \intersect Lost = {} /\ board.shared =>
          \/ Full(0)
          \/ pc = "resetting"
          \/ pc \in {"make_fw", "make_data", "stuck"} /\ ~board.reserve

\* What the upgrade has removed, unless it could not.
ClearedInv ==
    /\ pc \in {"kill_data", "make_fw"} /\ "inway" \notin spoiled => fw[Target].size = 0
    /\ pc \in {"make_data", "write"} => fw[Target].size = image
    /\ pc \in {"kill_data", "make_data"} => ~board.reserve
    /\ pc \in {"make_fw", "make_data"} /\ ~board.reserve
          /\ "inway" \notin spoiled
          /\ (board.shared \/ spoiled \intersect {"reset", "kept"} = {})
       => data[Vol(Target)].size = 0

\* A slot and its settings can be replaced in the room they have and what is free.
RoomInv ==
    /\ board.shared /\ ~board.reserve =>
          \A s \in Slots : fw[s].whole => /\ fw[s].size + Small + board.limit <= Total
                                         /\ fw[s].size + Small < Total
    /\ spoiled \intersect {"greedy", "reset", "kept"} = {} =>
          /\ board.reserve => \A s \in Slots : Free + fw[s].size >= Small
          /\ ~board.shared =>
                \A s \in Slots : Free + fw[s].size + data[s].size >= Small + board.limit

ChipInv == /\ SlotInv /\ TypeOK /\ SizesInv /\ SettingsInv /\ ClearedInv /\ RoomInv
           /\ OverlayThere

\* The number of the settings that are being reset is still theirs: no volume takes it before.
\* With shared settings there is a number more than volumes, and it is never used.
Held == There \union (IF pc = "resetting" THEN {<<"data", Vol(booted)>>} ELSE {})
IdsInv ==
    /\ \A v \in Held : board.shared => vol_id[v] < 3
    /\ \A v, x \in Held : vol_id[v] = vol_id[x] => v = x

\* What the steps need of the constants.
LEMMA Numbers ==
    /\ Total \in Nat /\ Small \in ImageSizes /\ Small \in 1..Total
    /\ ImageSizes \subseteq 1..Total /\ \A n \in ImageSizes : Small <= n
BY SmallIsNat, ImageAssumption, BoundAssumption

\* Of the types, those of the volumes take an argument about room; the others do not.
VolumeTypes ==
    /\ fw \in [Slots -> [size : 0..Total, whole : BOOLEAN]]
    /\ data \in [Slots -> [size : 0..Total, reset : BOOLEAN]]
    /\ Free >= 0

\* No step leaves the ranges of the counters, the labels and the history.
LEMMA PlainTypes ==
    ASSUME ChipInv, SlotInv', VolumeTypes', Next
    PROVE  TypeOK'
<1> USE BoundAssumption DEF ChipInv, TypeOK, Slots, None
<1>1. ops' \in 0..MaxOps /\ faults' \in 0..MaxFaults /\ cuts' \in 0..MaxCuts
  BY DEF Next, Script, InitOverlay, ResetMake, ResetKeeps, ResetMakeFails, RemoveData,
         KillFirmwareFails, KillDataFails, Keeps, AfterFirmware, RemoveUbiblocks,
         KillFirmware, KillData, MakeFirmware, MakeData, WriteFirmware, SetSlot, SetValid,
         Reboot, UbiblockBusy, MakeFails, WriteFails, EnvFails, Start, AskReset, Upgrade, Cut,
         Goto, Fails, GiveUp, spent
<1>2. board' \in Boards /\ overlay' \in BOOLEAN /\ pc' \in Labels
  <2>1. board' = board /\ pc' \in Labels
    BY DEF Next, Script, InitOverlay, ResetMake, ResetKeeps, ResetMakeFails, RemoveData,
           KillFirmwareFails, KillDataFails, Keeps, AfterFirmware, RemoveUbiblocks,
           KillFirmware, KillData, MakeFirmware, MakeData, WriteFirmware, SetSlot, SetValid,
           Reboot, UbiblockBusy, MakeFails, WriteFails, EnvFails, Start, AskReset, Upgrade, Cut,
           Goto, Fails, GiveUp, Labels
  <2>2. overlay' \in BOOLEAN
    BY DEF Next, Script, InitOverlay, ResetMake, ResetKeeps, ResetMakeFails, RemoveData,
           KillFirmwareFails, KillDataFails, Keeps, AfterFirmware, RemoveUbiblocks,
           KillFirmware, KillData, MakeFirmware, MakeData, WriteFirmware, SetSlot, SetValid,
           Reboot, UbiblockBusy, MakeFails, WriteFails, EnvFails, Start, AskReset, Upgrade, Cut,
           Goto, Fails, GiveUp
  <2> QED  BY <2>1, <2>2
<1>3. vol_id' \in [Volumes -> Ids]
  <2>1. \/ vol_id' = vol_id
        \/ \E v \in Volumes : Number(v)
    BY DEF Next, Script, InitOverlay, ResetMake, ResetKeeps, ResetMakeFails, RemoveData,
           KillFirmwareFails, KillDataFails, Keeps, RemoveUbiblocks, KillFirmware, KillData,
           MakeFirmware, MakeData, WriteFirmware, SetSlot, SetValid, Reboot, UbiblockBusy,
           MakeFails, WriteFails, EnvFails, Start, AskReset, Upgrade, Cut, Goto, Fails, GiveUp,
           chip, Volumes, Vol, Target, Other, SlotInv, SlotTypes
  <2> QED  BY <2>1 DEF Number, NewIds, FreeIds
<1>4. spoiled' \subseteq {"greedy", "reset", "shared", "kept", "env", "node", "inway"}
  BY DEF Next, Script, InitOverlay, ResetMake, ResetKeeps, ResetMakeFails, RemoveData,
         KillFirmwareFails, KillDataFails, Keeps, AfterFirmware, RemoveUbiblocks,
         KillFirmware, KillData, MakeFirmware, MakeData, WriteFirmware, SetSlot, SetValid,
         Reboot, UbiblockBusy, MakeFails, WriteFails, EnvFails, Start, AskReset, Upgrade, Cut,
         Goto, Fails, GiveUp
<1> QED  BY <1>1, <1>2, <1>3, <1>4 DEF SlotInv, SlotTypes, VolumeTypes

\* What the types come to for a device that is on.
RunningTypes ==
    /\ VolumeTypes /\ booted \in Slots /\ Vol(booted) \in Slots
    /\ Target \in Slots /\ Vol(Target) \in Slots
    /\ Total \in Nat /\ board.limit \in 0..Total /\ image \in 1..Total
    /\ Free \in 0..Total
    /\ \A v \in Slots : data[v].size \in 0..Total /\ fw[v].size \in 0..Total

LEMMA AreRunningTypes == ChipInv /\ pc # "off" => RunningTypes
<1> SUFFICES ASSUME ChipInv, pc # "off" PROVE RunningTypes
  OBVIOUS
<1>1. /\ VolumeTypes /\ booted \in Slots /\ Vol(booted) \in Slots
      /\ Target \in Slots /\ Vol(Target) \in Slots
      /\ Total \in Nat /\ board.limit \in 0..Total /\ image \in 1..Total
  BY Numbers, BoardAssumption
     DEF ChipInv, TypeOK, VolumeTypes, Vol, Target, Other, Slots, None, Board
<1>2. /\ Free \in 0..Total
      /\ \A v \in Slots : data[v].size \in 0..Total /\ fw[v].size \in 0..Total
  BY <1>1 DEF VolumeTypes, Free, Slots
<1> QED  BY <1>1, <1>2 DEF RunningTypes

\* Giving the volume v other contents moves the free room by the difference.
LEMMA PutData ==
    ASSUME VolumeTypes, NEW v \in Slots, NEW r \in [size : 0..Total, reset : BOOLEAN],
           data' = [data EXCEPT ![v] = r], fw' = fw, Free + data[v].size - r.size >= 0
    PROVE  /\ VolumeTypes' /\ Free' = Free + data[v].size - r.size
           /\ data'[v] = r /\ \A w \in Slots : w # v => data'[w] = data[w]
<1>1. v = 0 \/ v = 1
  BY DEF Slots
<1>2. /\ data' \in [Slots -> [size : 0..Total, reset : BOOLEAN]]
      /\ data'[v] = r /\ \A w \in Slots : w # v => data'[w] = data[w]
  BY DEF VolumeTypes
<1>3. data'[0] = (IF v = 0 THEN r ELSE data[0]) /\ data'[1] = (IF v = 1 THEN r ELSE data[1])
  BY <1>1, <1>2 DEF Slots
<1>4. /\ Total \in Nat /\ r.size \in 0..Total
      /\ \A w \in {0, 1} : fw[w].size \in 0..Total /\ data[w].size \in 0..Total
  BY Numbers DEF VolumeTypes, Slots
<1>5. Free' = Free + data[v].size - r.size
  BY <1>1, <1>3, <1>4 DEF Free
<1> QED  BY <1>2, <1>4, <1>5 DEF VolumeTypes

\* So does giving the slot s another image.
LEMMA PutImage ==
    ASSUME VolumeTypes, NEW s \in Slots, NEW r \in [size : 0..Total, whole : BOOLEAN],
           fw' = [fw EXCEPT ![s] = r], data' = data, Free + fw[s].size - r.size >= 0
    PROVE  /\ VolumeTypes' /\ Free' = Free + fw[s].size - r.size
           /\ fw'[s] = r /\ \A t \in Slots : t # s => fw'[t] = fw[t]
<1>1. s = 0 \/ s = 1
  BY DEF Slots
<1>2. /\ fw' \in [Slots -> [size : 0..Total, whole : BOOLEAN]]
      /\ fw'[s] = r /\ \A t \in Slots : t # s => fw'[t] = fw[t]
  BY DEF VolumeTypes
<1>3. fw'[0] = (IF s = 0 THEN r ELSE fw[0]) /\ fw'[1] = (IF s = 1 THEN r ELSE fw[1])
  BY <1>1, <1>2 DEF Slots
<1>4. /\ Total \in Nat /\ r.size \in 0..Total
      /\ \A t \in {0, 1} : fw[t].size \in 0..Total /\ data[t].size \in 0..Total
  BY Numbers DEF VolumeTypes, Slots
<1>5. Free' = Free + fw[s].size - r.size
  BY <1>1, <1>3, <1>4 DEF Free
<1> QED  BY <1>2, <1>4, <1>5 DEF VolumeTypes

\* Settings that are to be reset were there, so their room is enough for new ones.
LEMMA InitOverlayChip == ASSUME ChipInv, InitOverlay, SlotInv' PROVE ChipInv'
<1> DEFINE B == Vol(booted)
<1>1. /\ VolumeTypes' /\ pc = "init" /\ B \in Slots
      /\ Free \in 0..Total /\ UNCHANGED <<board, fw, booted, image, spoiled>>
      /\ overlay' = (data[B].size > 0 /\ ~data[B].reset)
      /\ \/ /\ pc' = "resetting" /\ Full(B) /\ data'[B] = NoData
            /\ Free' = Free + data[B].size
            /\ \A w \in Slots : w # B => data'[w] = data[w]
         \/ pc' = "up" /\ data' = data /\ Free' = Free /\ ~data[B].reset
  <2>1. pc # "off"
    BY DEF InitOverlay
  <2>2. RunningTypes
    BY <2>1, AreRunningTypes
  <2> USE <2>2 DEF RunningTypes
  <2>3. CASE data[B].reset
    <3>1. data' = [data EXCEPT ![B] = NoData] /\ UNCHANGED <<fw, board, booted, image, spoiled>>
      BY <2>3 DEF InitOverlay
    <3>2. NoData \in [size : 0..Total, reset : BOOLEAN] /\ NoData.size = 0
      BY <2>1 DEF NoData
    <3>3. Free + data[B].size - NoData.size >= 0 /\ fw' = fw
      BY <3>1, <3>2
    <3>4. /\ VolumeTypes' /\ Free' = Free + data[B].size - NoData.size /\ data'[B] = NoData
          /\ \A w \in Slots : w # B => data'[w] = data[w]
      BY <2>1, <3>1, <3>2, <3>3, PutData, Zenon
    <3>5. Full(B)
      BY <2>1, <2>3 DEF ChipInv, SizesInv
    <3> QED  BY <2>3, <3>1, <3>2, <3>4, <3>5 DEF InitOverlay
  <2>4. CASE ~data[B].reset
    <3>1. pc' = "up" /\ UNCHANGED <<fw, data, board, booted, image, spoiled>>
      BY <2>4 DEF InitOverlay
    <3> QED  BY <2>4, <3>1 DEF InitOverlay, VolumeTypes, Free
  <2> QED  BY <2>3, <2>4
<1> USE DEF NoData
<1> USE Numbers DEF ChipInv, TypeOK, VolumeTypes, SizesInv, SettingsInv, Lost, ImageFits, Full,
           Vol, Slots, None, Other, Board, Target
<1>2. SizesInv'
  BY <1>1 DEF SlotInv, RunsFromWhole, ClearedInv, Bootable
<1>3. SettingsInv'
  <2>1. CASE pc' = "resetting"
    <3>1. Full(B) /\ data'[B].size = 0 /\ Free' = Free + data[B].size
          /\ \A w \in Slots : w # B => data'[w] = data[w]
      BY <1>1, <2>1
    <3>2. data'[Vol(booted)].size = 0 /\ Free' > 0 /\ Free' >= board.limit
      BY <1>1, <3>1, BoardAssumption
    <3>3. spoiled \intersect {"reset", "kept"} = {} /\ ~board.shared =>
             \A s \in Slots : fw[s].whole => Full(s)' \/ s = booted
      BY <1>1, <3>1
    <3> QED  BY <1>1, <2>1, <3>2, <3>3
  <2>2. CASE pc' = "up" /\ data' = data
    BY <1>1, <2>2 DEF SlotInv, RunsFromWhole, Bootable
  <2> QED  BY <1>1, <2>1, <2>2
<1>4. ClearedInv' /\ OverlayThere'
  BY <1>1 DEF ClearedInv, OverlayThere, SlotInv, RunsFromWhole, Bootable
<1>5. RoomInv'
  BY <1>1, BoardAssumption DEF RoomInv, ClearedInv, SlotInv, RunsFromWhole, Bootable
<1> QED  BY <1>1, <1>2, <1>3, <1>4, <1>5, PlainTypes DEF Next, Script

\* A reset on a chip where no other volume is missing gets the number back that it freed.
LEMMA SameNumber ==
    ASSUME ChipInv, IdsInv, ResetMake,
           \A v \in Needed : v = <<"data", Vol(booted)>> \/ v \in There
    PROVE  vol_id'[<<"data", Vol(booted)>>] = vol_id[<<"data", Vol(booted)>>]
<1> DEFINE new == <<"data", Vol(booted)>>
<1>1. /\ pc = "resetting" /\ booted \in Slots /\ board.shared \in BOOLEAN
      /\ vol_id \in [Volumes -> Ids] /\ data[Vol(booted)].size = 0
      /\ board.shared => data[1].size = 0
  BY BoardAssumption DEF ChipInv, TypeOK, SizesInv, SettingsInv, ResetMake, Board, None, Slots
<1>2. new \in Volumes /\ new \notin There /\ There \subseteq Volumes /\ Held = There \union {new}
  BY <1>1 DEF Held, There, Volumes, Vol, Slots
<1>3. PICK i \in NewIds : vol_id' = [vol_id EXCEPT ![new] = i]
  BY DEF ResetMake, Number
<1>4. vol_id[new] \in FreeIds
  BY <1>1, <1>2 DEF FreeIds, IdsInv
<1>5. Volumes = {<<"fw", 0>>, <<"fw", 1>>, <<"data", 0>>, <<"data", 1>>}
  BY DEF Volumes, Slots
<1>6. \A j \in FreeIds : vol_id[new] <= j
  <2>1. SUFFICES ASSUME NEW j \in FreeIds, j < vol_id[new] PROVE FALSE
    BY <1>1, <1>2 DEF FreeIds, Ids
  <2>2. j \in 0..3 /\ \A v \in There : vol_id[v] # j
    BY <2>1 DEF FreeIds, Ids
  <2>3. \A v \in Needed : vol_id[v] \in 0..3 /\ vol_id[v] # j
    BY <1>1, <1>2, <2>1, <2>2 DEF Needed, Ids
  <2>4. \A v, x \in Needed : vol_id[v] = vol_id[x] => v = x
    BY <1>2 DEF IdsInv
  <2>5. CASE board.shared
    <3>1. {<<"fw", 0>>, <<"fw", 1>>, <<"data", 0>>} \subseteq Needed /\ new = <<"data", 0>>
      BY <1>5, <2>5 DEF Needed, Vol
    <3>2. \A v \in Needed : vol_id[v] \in 0..2
      BY <1>2, <2>3, <2>5 DEF IdsInv
    <3> QED  BY <2>1, <2>2, <2>3, <2>4, <3>1, <3>2
  <2>6. CASE ~board.shared
    <3>1. Needed = Volumes
      BY <2>6 DEF Needed
    <3> QED  BY <1>5, <2>2, <2>3, <2>4, <3>1
  <2> QED  BY <2>5, <2>6
<1>7. i = vol_id[new]
  BY <1>1, <1>2, <1>4, <1>6 DEF NewIds, FreeIds, Ids
<1> QED  BY <1>1, <1>2, <1>3, <1>7

\* New settings take the free room; if both images are there and, unless shared, the other
\* settings, that is no room that an upgrade counts on.
LEMMA ResetMakeChip == ASSUME ChipInv, IdsInv, ResetMake, SlotInv' PROVE ChipInv'
<1> DEFINE B == Vol(booted)
<1>1. /\ VolumeTypes' /\ pc = "resetting" /\ pc' = "up" /\ B \in Slots
      /\ Free \in 0..Total /\ UNCHANGED <<board, fw, booted, image>>
      /\ Free > 0 /\ Free >= board.limit /\ data[B].size = 0
      /\ data'[B].size = Free /\ ~data'[B].reset /\ Free' = 0
      /\ \A w \in Slots : w # B => data'[w] = data[w]
      /\ spoiled \subseteq spoiled'
      /\ "greedy" \notin spoiled' => /\ fw[Other(booted)].size # 0
                                     /\ board.shared \/ data[Other(booted)].size # 0
  <2>1. pc # "off"
    BY DEF ResetMake
  <2>2. RunningTypes
    BY <2>1, AreRunningTypes
  <2> USE <2>2 DEF RunningTypes
  <2>3. data[B].size = 0 /\ Free > 0 /\ Free >= board.limit
    BY DEF ChipInv, SettingsInv, ResetMake
  <2>4. data' = [data EXCEPT ![B] = Fresh(Free)] /\ UNCHANGED <<fw, board, booted, image>>
    BY DEF ResetMake
  <2>5. /\ Fresh(Free) \in [size : 0..Total, reset : BOOLEAN]
        /\ Fresh(Free).size = Free /\ ~Fresh(Free).reset
    BY <2>2 DEF Fresh
  <2>6. Free + data[B].size - Fresh(Free).size = 0 /\ Free + data[B].size - Fresh(Free).size >= 0
        /\ fw' = fw
    BY <2>2, <2>3, <2>4, <2>5
  <2>7. /\ VolumeTypes' /\ data'[B] = Fresh(Free) /\ Free' = Free + data[B].size - Fresh(Free).size
        /\ \A w \in Slots : w # B => data'[w] = data[w]
    BY <2>1, <2>4, <2>5, <2>6, PutData, Zenon
  <2> QED  BY <2>1, <2>3, <2>4, <2>5, <2>6, <2>7 DEF ResetMake
<1> USE Numbers DEF ChipInv, TypeOK, VolumeTypes, SizesInv, SettingsInv, Lost, ImageFits, Full,
           Vol, Slots, None, Other, Board, Target
<1>2. SizesInv'
  BY <1>1 DEF SlotInv, RunsFromWhole, ClearedInv, Bootable
<1>3. SettingsInv'
  BY <1>1 DEF SlotInv, RunsFromWhole, ClearedInv, Bootable
<1>4. ClearedInv'
  BY <1>1 DEF ClearedInv, SlotInv, RunsFromWhole, Bootable
<1>6. OverlayThere'
  <2>1. CASE \A v \in Needed : v = <<"data", B>> \/ v \in There
    BY <2>1, SameNumber DEF ResetMake, OverlayThere
  <2>2. CASE \E v \in Needed : v # <<"data", B>> /\ v \notin There
    <3>1. PICK v \in Needed : v # <<"data", B>> /\ v \notin There
      BY <2>2
    <3>2. v \in Needed' /\ v \notin There'
      BY <1>1, <3>1 DEF Needed, Volumes, There
    <3>3. overlay' \/ "node" \in spoiled'
      BY DEF ResetMake
    <3> QED  BY <1>1, <3>2, <3>3 DEF OverlayThere
  <2> QED  BY <2>1, <2>2
<1>5. RoomInv'
  BY <1>1, BoardAssumption DEF RoomInv, ClearedInv, SlotInv, RunsFromWhole, Bootable
<1> QED  BY <1>1, <1>2, <1>3, <1>4, <1>5, <1>6, PlainTypes DEF Next, Script

\* The new volume is torn until it is written, and takes the room of the old one.
LEMMA MakeFirmwareChip == ASSUME ChipInv, MakeFirmware, SlotInv' PROVE ChipInv'
<1>1. /\ VolumeTypes' /\ pc = "make_fw" /\ Target \in Slots /\ image \in 1..Total
      /\ Free \in 0..Total /\ UNCHANGED <<board, data, booted, overlay, image, spoiled>>
      /\ \/ /\ pc' = (IF board.reserve THEN "write" ELSE "make_data")
            /\ fw[Target].size = 0 /\ fw'[Target].size = image /\ ~fw'[Target].whole
            /\ Free' = Free - image
            /\ \A t \in Slots : t # Target => fw'[t] = fw[t]
         \/ pc' = "stuck" /\ fw' = fw /\ Free' = Free
  <2>1. pc # "off"
    BY DEF MakeFirmware
  <2>2. RunningTypes
    BY <2>1, AreRunningTypes
  <2> USE <2>2 DEF RunningTypes
  <2>4. CASE fw[Target].size = 0 /\ Free >= image
    <3> DEFINE torn == [size |-> image, whole |-> FALSE]
    <3>1. /\ fw' = [fw EXCEPT ![Target] = torn]
          /\ pc' = (IF board.reserve THEN "write" ELSE "make_data")
          /\ UNCHANGED <<board, data, booted, overlay, image, spoiled>>
      BY <2>4 DEF MakeFirmware, Goto
    <3>2. torn \in [size : 0..Total, whole : BOOLEAN] /\ torn.size = image /\ ~torn.whole
      BY <2>1
    <3> HIDE DEF torn
    <3>3. Free + fw[Target].size - torn.size >= 0 /\ data' = data
      BY <2>4, <3>1, <3>2
    <3>4. /\ VolumeTypes' /\ Free' = Free + fw[Target].size - torn.size /\ fw'[Target] = torn
          /\ \A t \in Slots : t # Target => fw'[t] = fw[t]
      BY <2>1, <3>1, <3>2, <3>3, PutImage
    <3> QED  BY <2>4, <3>1, <3>2, <3>4 DEF MakeFirmware
  <2>5. CASE ~(fw[Target].size = 0 /\ Free >= image)
    <3>1. pc' = "stuck" /\ UNCHANGED <<fw, data, board, booted, overlay, image, spoiled>>
      BY <2>5 DEF MakeFirmware, GiveUp, chip
    <3> QED  BY <3>1 DEF MakeFirmware, VolumeTypes, Free
  <2> QED  BY <2>4, <2>5
<1> USE Numbers DEF ChipInv, TypeOK, VolumeTypes, SizesInv, SettingsInv, Lost, ImageFits, Full,
           Vol, Slots, None, Other, Board, Target
<1>2. SizesInv'
  BY <1>1 DEF SlotInv, RunsFromWhole, ClearedInv, Bootable
<1>3. SettingsInv'
  BY <1>1 DEF SlotInv, RunsFromWhole, ClearedInv, Bootable
<1>4. ClearedInv' /\ OverlayThere'
  BY <1>1 DEF ClearedInv, OverlayThere, SlotInv, RunsFromWhole, Bootable
<1>5. RoomInv'
  BY <1>1, BoardAssumption DEF RoomInv, ClearedInv, SlotInv, RunsFromWhole, Bootable
<1> QED  BY <1>1, <1>2, <1>3, <1>4, <1>5, PlainTypes DEF Next, Script

\* The settings take what the board allows, or all.
LEMMA MakeDataChip == ASSUME ChipInv, MakeData, SlotInv' PROVE ChipInv'
<1> DEFINE n == IF board.limit > 0 THEN board.limit ELSE Free
           T == Vol(Target)
<1>1. /\ VolumeTypes' /\ pc = "make_data" /\ T \in Slots /\ n \in 0..Total
      /\ Free \in 0..Total /\ UNCHANGED <<board, fw, booted, overlay, image, spoiled>>
      /\ \/ /\ pc' = "write" /\ n > 0 /\ n <= Free /\ n >= board.limit /\ Free' = Free - n
            /\ data[T].size = 0 /\ data'[T].size = n /\ ~data'[T].reset
            /\ \A w \in Slots : w # T => data'[w] = data[w]
         \/ pc' = "stuck" /\ data' = data /\ Free' = Free
  <2>1. pc # "off"
    BY DEF MakeData
  <2>2. RunningTypes
    BY <2>1, AreRunningTypes
  <2> USE <2>2 DEF RunningTypes
  <2>3. CASE CanMakeData
    <3>1. data' = [data EXCEPT ![T] = Fresh(n)] /\ pc' = "write"
          /\ UNCHANGED <<fw, board, booted, overlay, image, spoiled>>
      BY <2>3 DEF MakeData, Goto
    <3>2. data[T].size = 0 /\ n \in 0..Total /\ n > 0 /\ n <= Free /\ n >= board.limit
      BY <2>3 DEF CanMakeData
    <3> HIDE DEF n
    <3>3. Fresh(n) \in [size : 0..Total, reset : BOOLEAN] /\ Fresh(n).size = n /\ ~Fresh(n).reset
      BY <3>2 DEF Fresh
    <3>4. Free + data[T].size - Fresh(n).size >= 0 /\ fw' = fw
      BY <2>2, <3>1, <3>2, <3>3
    <3>5. /\ VolumeTypes' /\ Free' = Free + data[T].size - Fresh(n).size /\ data'[T] = Fresh(n)
          /\ \A w \in Slots : w # T => data'[w] = data[w]
      BY <2>1, <3>1, <3>3, <3>4, PutData
    <3> QED  BY <3>1, <3>2, <3>3, <3>5 DEF MakeData
  <2>4. CASE ~CanMakeData
    <3>1. pc' = "stuck" /\ UNCHANGED <<fw, data, board, booted, overlay, image, spoiled>>
      BY <2>4 DEF MakeData, GiveUp, chip
    <3> QED  BY <3>1 DEF MakeData, VolumeTypes, Free
  <2> QED  BY <2>3, <2>4
<1> HIDE DEF n
<1> USE Numbers DEF ChipInv, TypeOK, VolumeTypes, SizesInv, SettingsInv, Lost, ImageFits, Full,
           Vol, Slots, None, Other, Board, Target
<1>2. SizesInv'
  BY <1>1 DEF SlotInv, RunsFromWhole, ClearedInv, Bootable
<1>3. SettingsInv'
  BY <1>1 DEF SlotInv, RunsFromWhole, ClearedInv, Bootable
<1>4. ClearedInv' /\ OverlayThere'
  BY <1>1 DEF ClearedInv, OverlayThere, SlotInv, RunsFromWhole, Bootable
<1>5. RoomInv'
  BY <1>1, BoardAssumption DEF RoomInv, ClearedInv, SlotInv, RunsFromWhole, Bootable
<1> QED  BY <1>1, <1>2, <1>3, <1>4, <1>5, PlainTypes DEF Next, Script

\* An image that is whole has its settings beside it, and leaves room for another.
LEMMA WriteFirmwareChip == ASSUME ChipInv, WriteFirmware, SlotInv' PROVE ChipInv'
<1>1. /\ VolumeTypes' /\ pc = "write" /\ pc' = "set_slot" /\ Target \in Slots
      /\ Free \in 0..Total /\ UNCHANGED <<board, data, booted, overlay, image, spoiled>>
      /\ fw'[Target].size = fw[Target].size /\ fw'[Target].whole /\ Free' = Free
      /\ \A t \in Slots : t # Target => fw'[t] = fw[t]
  <2>1. pc # "off"
    BY DEF WriteFirmware
  <2>2. RunningTypes
    BY <2>1, AreRunningTypes
  <2> USE <2>2 DEF RunningTypes
  <2> DEFINE whole == [fw[Target] EXCEPT !.whole = TRUE]
  <2>3. /\ fw' = [fw EXCEPT ![Target] = whole]
        /\ UNCHANGED <<board, data, booted, overlay, image, spoiled>>
    BY DEF WriteFirmware, Goto
  <2>4. /\ whole \in [size : 0..Total, whole : BOOLEAN] 
        /\ whole.size = fw[Target].size /\ whole.whole
    BY <2>1 DEF VolumeTypes
  <2> HIDE DEF whole
  <2>5. Free + fw[Target].size - whole.size >= 0 /\ data' = data
    BY <2>3, <2>4
  <2>6. /\ VolumeTypes' /\ Free' = Free + fw[Target].size - whole.size /\ fw'[Target] = whole
        /\ \A t \in Slots : t # Target => fw'[t] = fw[t]
    BY <2>1, <2>3, <2>4, <2>5, PutImage
  <2> QED  BY <2>3, <2>4, <2>6 DEF WriteFirmware, Goto
<1> USE Numbers DEF ChipInv, TypeOK, VolumeTypes, SizesInv, SettingsInv, Lost, ImageFits, Full,
           Vol, Slots, None, Other, Board, Target
<1>2. SizesInv'
  BY <1>1 DEF SlotInv, RunsFromWhole, ClearedInv, Bootable
<1>3. SettingsInv'
  BY <1>1, BoardAssumption DEF SlotInv, RunsFromWhole, ClearedInv, Bootable
<1>4. ClearedInv' /\ OverlayThere'
  BY <1>1 DEF ClearedInv, OverlayThere, SlotInv, RunsFromWhole, Bootable
<1>5. RoomInv'
  <2>1. \A s \in Slots : s = booted \/ s = Target
    BY <1>1
  <2>2. Bootable(booted) /\ fw'[booted] = fw[booted]
    BY <1>1 DEF SlotInv, RunsFromWhole
  <2>3. CASE board.shared /\ ~board.reserve
    <3>1. Full(0) /\ ImageFits(booted) /\ data[1].size = 0
      BY <1>1, <2>2, <2>3 DEF Bootable
    <3>2. fw[Target].size + Small + board.limit <= Total /\ fw[Target].size + Small < Total
      <4>1. (Target = 0 /\ booted = 1) \/ (Target = 1 /\ booted = 0)
        BY <1>1
      <4>2. Free = Total - fw[Target].size - fw[booted].size - data[0].size
        BY <3>1, <4>1 DEF Free
      <4>3. /\ Free >= 0 /\ fw[booted].size >= Small /\ data[0].size >= board.limit
            /\ data[0].size > 0
        BY <3>1
      <4> HIDE DEF Free
      <4> QED  BY <1>1, <4>1, <4>2, <4>3, BoardAssumption
    <3> QED  BY <1>1, <2>1, <2>2, <2>3, <3>2 DEF RoomInv, Bootable
  <2>4. CASE ~(board.shared /\ ~board.reserve)
    BY <1>1, <2>4 DEF RoomInv
  <2> QED  BY <2>3, <2>4
<1> QED  BY <1>1, <1>2, <1>3, <1>4, <1>5, PlainTypes DEF Next, Script

\* The boot loader changes no volume; the device is not up yet.
LEMMA StartChip == ASSUME ChipInv, NEW s \in Slots, Start(s), SlotInv' PROVE ChipInv'
<1> USE Numbers DEF ChipInv, TypeOK, VolumeTypes, SizesInv, SettingsInv, Lost, ImageFits, Full,
           Vol, Free, Slots, None, Other, Board, Target,
           Start, Bootable, env, chip, spent
<1>1. VolumeTypes'
  BY DEF ClearedInv
<1>2. SizesInv'
  BY DEF SlotInv, RunsFromWhole, ClearedInv, Bootable
<1>3. SettingsInv'
  BY DEF SlotInv, RunsFromWhole, ClearedInv, Bootable
<1>4. ClearedInv' /\ OverlayThere'
  BY DEF ClearedInv, OverlayThere, SlotInv, RunsFromWhole, Bootable
<1>5. RoomInv'
  BY BoardAssumption DEF RoomInv, ClearedInv, SlotInv, RunsFromWhole, Bootable
<1> QED  BY <1>1, <1>2, <1>3, <1>4, <1>5, PlainTypes DEF Next, Script

\* Only settings that are there are marked for the reset.
LEMMA AskResetChip == ASSUME ChipInv, AskReset, SlotInv' PROVE ChipInv'
<1> USE Numbers DEF ChipInv, TypeOK, VolumeTypes, SizesInv, SettingsInv, Lost, ImageFits, Full,
           Vol, Free, Slots, None, Other, Board, Target,
           AskReset, env
<1>1. VolumeTypes'
  BY DEF ClearedInv
<1>2. SizesInv'
  BY DEF SlotInv, RunsFromWhole, ClearedInv, Bootable
<1>3. SettingsInv'
  BY DEF SlotInv, RunsFromWhole, ClearedInv, Bootable
<1>4. ClearedInv' /\ OverlayThere'
  BY DEF ClearedInv, OverlayThere, SlotInv, RunsFromWhole, Bootable
<1>5. RoomInv'
  BY BoardAssumption DEF RoomInv, ClearedInv, SlotInv, RunsFromWhole, Bootable
<1> QED  BY <1>1, <1>2, <1>3, <1>4, <1>5, PlainTypes DEF Next, Script

\* The image of the other slot gives its room back.
LEMMA KillFirmwareChip == ASSUME ChipInv, KillFirmware, SlotInv' PROVE ChipInv'
<1> USE Numbers DEF ChipInv, TypeOK, VolumeTypes, SizesInv, SettingsInv, Lost, ImageFits, Full,
           Vol, Free, Slots, None, Other, Board, Target,
           KillFirmware, AfterFirmware, Goto, NoImage, env, spent
<1>1. VolumeTypes'
  BY DEF ClearedInv
<1>2. SizesInv'
  BY DEF SlotInv, RunsFromWhole, ClearedInv, Bootable
<1>3. SettingsInv'
  BY DEF SlotInv, RunsFromWhole, ClearedInv, Bootable
<1>4. ClearedInv' /\ OverlayThere'
  BY DEF ClearedInv, OverlayThere, SlotInv, RunsFromWhole, Bootable
<1>5. RoomInv'
  BY BoardAssumption DEF RoomInv, ClearedInv, SlotInv, RunsFromWhole, Bootable
<1> QED  BY <1>1, <1>2, <1>3, <1>4, <1>5, PlainTypes DEF Next, Script

\* The volume of the settings goes, if the upgrade makes it again; if the volume named
\* rootfs_data is missing, so are shared settings, and the booted slot has lost its own.
LEMMA KillDataChip == ASSUME ChipInv, KillData, SlotInv' PROVE ChipInv'
<1>1. VolumeTypes'
  <2>1. RunningTypes
    BY AreRunningTypes DEF KillData, RemoveData
  <2>2. CASE data' = data
    BY <2>1, <2>2 DEF RunningTypes, VolumeTypes, Free, KillData, RemoveData
  <2>3. CASE data' = [data EXCEPT ![Vol(Target)] = NoData]
    <3>1. NoData \in [size : 0..Total, reset : BOOLEAN] /\ NoData.size = 0
      BY <2>1 DEF NoData, RunningTypes
    <3>2. fw' = fw /\ Free + data[Vol(Target)].size - NoData.size >= 0 /\ Vol(Target) \in Slots
      BY <2>1, <3>1 DEF RunningTypes, KillData, RemoveData
    <3> QED  BY <2>1, <2>3, <3>1, <3>2, PutData, Zenon DEF RunningTypes
  <2> QED  BY <2>2, <2>3 DEF KillData, RemoveData
<1> USE Numbers DEF ChipInv, TypeOK, VolumeTypes, SizesInv, SettingsInv, Lost, ImageFits, Full,
           Vol, Free, Slots, None, Other, Board, Target,
           KillData, RemoveData, NoData, env, spent
<1>2. SizesInv'
  BY DEF SlotInv, RunsFromWhole, ClearedInv, Bootable
<1>3. SettingsInv'
  BY DEF SlotInv, RunsFromWhole, ClearedInv, Bootable
<1>4. ClearedInv' /\ OverlayThere'
  BY DEF ClearedInv, OverlayThere, SlotInv, RunsFromWhole, Bootable
<1>5. RoomInv'
  BY BoardAssumption DEF RoomInv, ClearedInv, SlotInv, RunsFromWhole, Bootable
<1> QED  BY <1>1, <1>2, <1>3, <1>4, <1>5, PlainTypes DEF Next, Script

\* No volume changes while the boot environment is written, nor before the first removal.
LEMMA CalmChip ==
    ASSUME ChipInv, SetSlot \/ SetValid \/ EnvFails \/ Reboot \/ Upgrade \/ RemoveUbiblocks,
           SlotInv'
    PROVE  ChipInv'
<1> USE Numbers DEF ChipInv, TypeOK, VolumeTypes, SizesInv, SettingsInv, Lost, ImageFits, Full,
           Vol, Free, Slots, None, Other, Board, Target,
           SetSlot, SetValid, EnvFails, Reboot, Upgrade, RemoveUbiblocks,
           Goto, chip, env, spent
<1>1. VolumeTypes'
  BY DEF ClearedInv
<1>2. SizesInv'
  BY DEF SlotInv, RunsFromWhole, ClearedInv, Bootable
<1>3. SettingsInv'
  BY DEF SlotInv, RunsFromWhole, ClearedInv, Bootable
<1>4. ClearedInv' /\ OverlayThere'
  BY DEF ClearedInv, OverlayThere, SlotInv, RunsFromWhole, Bootable
<1>5. RoomInv'
  BY BoardAssumption DEF RoomInv, ClearedInv, SlotInv, RunsFromWhole, Bootable
<1> QED  BY <1>1, <1>2, <1>3, <1>4, <1>5, PlainTypes DEF Next, Script

\* A failure or a cut leaves the volumes as they are; only the cuts that the scripts do not
\* make good again may leave the device without settings.
LEMMA FailChip ==
    ASSUME ChipInv, UbiblockBusy \/ MakeFails \/ WriteFails \/ Cut,
           SlotInv'
    PROVE  ChipInv'
<1> USE Numbers DEF ChipInv, TypeOK, VolumeTypes, SizesInv, SettingsInv, Lost, ImageFits, Full,
           Vol, Free, Slots, None, Other, Board, Target,
           UbiblockBusy, MakeFails, WriteFails, Fails, Cut, chip, env
<1>1. VolumeTypes'
  BY DEF ClearedInv
<1>2. SizesInv'
  BY DEF SlotInv, RunsFromWhole, ClearedInv, Bootable
<1>3. SettingsInv'
  BY DEF SlotInv, RunsFromWhole, ClearedInv, Bootable
<1>4. ClearedInv' /\ OverlayThere'
  BY DEF ClearedInv, OverlayThere, SlotInv, RunsFromWhole, Bootable
<1>5. RoomInv'
  BY BoardAssumption DEF RoomInv, ClearedInv, SlotInv, RunsFromWhole, Bootable
<1> QED  BY <1>1, <1>2, <1>3, <1>4, <1>5, PlainTypes DEF Next, Script

\* A command that fails and that the script goes on behind leaves the volumes as they are; a
\* reset that has removed the settings and cannot make them again has lost them.
LEMMA GoOnChip ==
    ASSUME ChipInv, ResetKeeps \/ ResetMakeFails \/ KillFirmwareFails \/ KillDataFails,
           SlotInv'
    PROVE  ChipInv'
<1> USE Numbers DEF ChipInv, TypeOK, VolumeTypes, SizesInv, SettingsInv, Lost, ImageFits, Full,
           Vol, Free, Slots, None, Other, Board, Target,
           ResetKeeps, ResetMakeFails, KillFirmwareFails, KillDataFails, Keeps, AfterFirmware,
           chip, env
<1>1. VolumeTypes'
  BY DEF ClearedInv
<1>2. SizesInv'
  BY DEF SlotInv, RunsFromWhole, ClearedInv, Bootable
<1>3. SettingsInv'
  BY DEF SlotInv, RunsFromWhole, ClearedInv, Bootable
<1>4. ClearedInv' /\ OverlayThere'
  BY DEF ClearedInv, OverlayThere, SlotInv, RunsFromWhole, Bootable
<1>5. RoomInv'
  BY BoardAssumption DEF RoomInv, ClearedInv, SlotInv, RunsFromWhole, Bootable
<1> QED  BY <1>1, <1>2, <1>3, <1>4, <1>5, PlainTypes DEF Next, Script

\* The factory leaves room for a second image, unless the settings fill the chip beside two.
LEMMA InitChip == Init => ChipInv
<1> SUFFICES ASSUME Init PROVE ChipInv
  OBVIOUS
<1> USE Numbers, BoundAssumption DEF Slots, None, Board
<1>1. SlotInv
  BY InitInv
<1>2. PICK present \in {{0}, Slots} :
         /\ board.limit = 0 => present = Slots
         /\ fw = [s \in Slots |->
                    IF s \in present THEN [size |-> Small, whole |-> TRUE] ELSE NoImage]
         /\ data = [v \in Slots |->
                      IF v \notin {Vol(s) : s \in present} THEN NoData
                      ELSE IF board.limit > 0 THEN Fresh(board.limit)
                      ELSE Fresh(Total - 2 * Small)]
  BY DEF Init
<1>3. /\ board \in Boards /\ board.limit \in 0..Total /\ board.shared \in BOOLEAN
      /\ board.reserve \in BOOLEAN
      /\ board.reserve \/ board.limit = 0 => board.shared
      /\ board.shared => 2 * Small + board.limit <= Total
      /\ ~board.shared => 2 * Small + 2 * board.limit <= Total
      /\ 2 * Small < Total
      /\ pc = "off" /\ image = Small /\ booted = None /\ spoiled = {} /\ overlay = FALSE
      /\ ops = 0 /\ faults = 0 /\ cuts = 0
  BY BoardAssumption DEF Init
<1> DEFINE Settings == IF board.limit > 0 THEN board.limit ELSE Total - 2 * Small
<1>4. Settings \in 1..Total /\ Settings >= board.limit
  BY <1>3
<1>5. /\ fw[0] = [size |-> Small, whole |-> TRUE]
      /\ fw[1] = [size |-> Small, whole |-> TRUE] \/ (fw[1] = NoImage /\ board.limit > 0)
      /\ fw[1] = NoImage => ~(1 \in present)
  BY <1>2, <1>3 DEF NoImage
<1>6. /\ data[0] = Fresh(Settings)
      /\ board.shared => data[1] = NoData
      /\ ~board.shared => data[1] = (IF 1 \in present THEN Fresh(Settings) ELSE NoData)
  BY <1>2, <1>3 DEF Vol
<1>7. /\ fw \in [Slots -> [size : 0..Total, whole : BOOLEAN]]
      /\ data \in [Slots -> [size : 0..Total, reset : BOOLEAN]]
  BY <1>2, <1>3, <1>4 DEF NoImage, NoData, Fresh
<1> HIDE DEF Settings
<1>8. Free >= 0
  BY <1>3, <1>4, <1>5, <1>6 DEF Free, NoImage, NoData, Fresh, Settings
<1>9. TypeOK
  <2>1. pc \in Labels /\ image \in ImageSizes /\ overlay \in BOOLEAN
    BY <1>3 DEF Labels
  <2>2. ops \in 0..MaxOps /\ faults \in 0..MaxFaults /\ cuts \in 0..MaxCuts
    BY <1>3
  <2>3. spoiled \subseteq {"greedy", "reset", "shared", "kept", "env", "node", "inway"}
    BY <1>3
  <2>4. vol_id \in [Volumes -> Ids]
    BY DEF Init
  <2> QED  BY <1>1, <1>3, <1>7, <1>8, <2>1, <2>2, <2>3, <2>4 DEF TypeOK, SlotInv, SlotTypes
<1>10. SizesInv /\ SettingsInv
  BY <1>2, <1>3, <1>4, <1>5, <1>6
     DEF SizesInv, SettingsInv, Lost, ImageFits, Full, Vol, NoImage, NoData, Fresh
<1>11. ClearedInv /\ OverlayThere
  BY <1>3 DEF ClearedInv, OverlayThere
<1>12. RoomInv
  BY <1>2, <1>3, <1>4, <1>5, <1>6
     DEF RoomInv, Free, NoImage, NoData, Fresh, Settings
<1> QED  BY <1>1, <1>9, <1>10, <1>11, <1>12 DEF ChipInv

\* The factory gives each volume its own number, the lowest ones.
LEMMA InitIds == Init => IdsInv
<1> SUFFICES ASSUME Init PROVE IdsInv
  OBVIOUS
<1>1. /\ vol_id \in [Volumes -> Ids]
      /\ \A v, x \in Volumes : vol_id[v] = vol_id[x] => v = x
      /\ \A v \in There, x \in Volumes \ There : vol_id[v] < vol_id[x]
  BY DEF Init
<1>2. Held = There /\ There \subseteq Volumes
  BY DEF Init, Held, There
<1>3. board.shared => <<"data", 1>> \in Volumes \ There
  BY InitChip DEF ChipInv, SizesInv, There, Volumes, Slots
<1>4. \A v \in Held : board.shared => vol_id[v] < 3
  BY <1>1, <1>2, <1>3 DEF Ids
<1> QED  BY <1>1, <1>2, <1>4 DEF IdsInv

\* Where no volume is made, none gets a number.
LEMMA IdsKept ==
    ASSUME IdsInv, Held' \subseteq Held, UNCHANGED <<board, vol_id>>
    PROVE  IdsInv'
BY DEF IdsInv

\* A new volume gets a number that no other has, and with shared settings not the last one:
\* there are but two other volumes.
LEMMA IdsTaken ==
    ASSUME ChipInv, IdsInv, NEW v \in Needed, v \notin There, Number(v), UNCHANGED board,
           Held' \subseteq There \union {v}
    PROVE  IdsInv'
<1>1. vol_id \in [Volumes -> Ids] /\ v \in Volumes /\ There \subseteq Volumes
  BY DEF ChipInv, TypeOK, Needed, There
<1>2. PICK i \in NewIds : vol_id' = [vol_id EXCEPT ![v] = i]
  BY DEF Number
<1>3. /\ i \in 0..3 /\ \A x \in There : vol_id[x] # i
      /\ \A j \in 0..3 : (\A x \in There : vol_id[x] # j) => i <= j
  BY DEF NewIds, FreeIds, Ids
<1>4. vol_id'[v] = i /\ \A x \in There : vol_id'[x] = vol_id[x]
  BY <1>1, <1>2
<1>5. board.shared => i < 3
  <2>1. SUFFICES ASSUME board.shared PROVE i < 3
    OBVIOUS
  <2>2. There \subseteq {<<"fw", 0>>, <<"fw", 1>>, <<"data", 0>>} \ {v}
    BY <2>1 DEF ChipInv, SizesInv, There, Volumes, Slots
  <2>3. v \in {<<"fw", 0>>, <<"fw", 1>>, <<"data", 0>>}
    BY <2>1 DEF Needed, Volumes, Slots
  <2>4. PICK a, b \in Volumes : There \subseteq {a, b}
    BY <2>2, <2>3 DEF Volumes, Slots
  <2>5. vol_id[a] \in 0..3 /\ vol_id[b] \in 0..3
    BY <1>1 DEF Ids
  <2>6. PICK j \in 0..2 : j # vol_id[a] /\ j # vol_id[b]
    <3>1. 0 \in 0..2 /\ 1 \in 0..2 /\ 2 \in 0..2
      OBVIOUS
    <3> QED  BY <2>5, <3>1
  <2>7. i <= j
    BY <1>3, <2>4, <2>6
  <2> QED  BY <1>3, <2>6, <2>7
<1>6. Held \cap There = There
  BY DEF Held
<1> QED  BY <1>3, <1>4, <1>5, <1>6 DEF IdsInv

\* Only the steps that make a volume give out a number.
LEMMA IdsStep == ChipInv /\ IdsInv /\ [Next]_vars => IdsInv'
<1> SUFFICES ASSUME ChipInv, IdsInv, [Next]_vars PROVE IdsInv'
  OBVIOUS
<1> USE DEF Held, There, Volumes
<1>1. CASE ResetMake
  <2> DEFINE new == <<"data", Vol(booted)>>
  <2>1. RunningTypes /\ data[Vol(booted)].size = 0
    BY <1>1, AreRunningTypes DEF ChipInv, SettingsInv, ResetMake
  <2>2. new \in Needed /\ new \notin There
    BY <2>1 DEF Needed, RunningTypes, Vol, Slots
  <2>3. Held' \subseteq There \union {new} /\ Number(new) /\ UNCHANGED board
    BY <1>1, <2>1 DEF ResetMake, RunningTypes, VolumeTypes
  <2> QED  BY <2>2, <2>3, IdsTaken
<1>2. CASE MakeFirmware /\ fw[Target].size = 0 /\ Free >= image
  <2>1. RunningTypes
    BY <1>2, AreRunningTypes DEF MakeFirmware
  <2>2. <<"fw", Target>> \in Needed /\ <<"fw", Target>> \notin There
    BY <1>2, <2>1 DEF Needed, RunningTypes
  <2>3. Held' \subseteq There \union {<<"fw", Target>>} /\ Number(<<"fw", Target>>)
    BY <1>2, <2>1 DEF MakeFirmware, Goto, RunningTypes, VolumeTypes
  <2> QED  BY <1>2, <2>2, <2>3, IdsTaken DEF MakeFirmware, Goto
<1>3. CASE MakeData /\ CanMakeData
  <2> DEFINE new == <<"data", Vol(Target)>>
  <2>1. RunningTypes
    BY <1>3, AreRunningTypes DEF MakeData
  <2>2. new \in Needed /\ new \notin There
    BY <1>3, <2>1 DEF CanMakeData, Needed, RunningTypes, Vol, Slots
  <2>3. Held' \subseteq There \union {new} /\ Number(new)
    BY <1>3, <2>1 DEF MakeData, Goto, RunningTypes, VolumeTypes
  <2> QED  BY <1>3, <2>2, <2>3, IdsTaken DEF MakeData, Goto
<1>4. CASE InitOverlay
  <2>1. RunningTypes
    BY <1>4, AreRunningTypes DEF InitOverlay
  <2>2. data[Vol(booted)].reset => data[Vol(booted)].size > 0
    BY <2>1, BoardAssumption DEF ChipInv, SizesInv, Full, RunningTypes
  <2>3. Held' \subseteq Held /\ UNCHANGED <<board, vol_id>>
    BY <1>4, <2>1, <2>2 DEF InitOverlay, RunningTypes, VolumeTypes, Vol, NoData
  <2> QED  BY <2>3, IdsKept
<1>5. CASE KillFirmware \/ KillData \/ WriteFirmware \/ AskReset
  <2>1. RunningTypes
    BY <1>5, AreRunningTypes
       DEF KillFirmware, KillData, RemoveData, WriteFirmware, AskReset
  <2>2. Held' \subseteq Held /\ UNCHANGED <<board, vol_id>>
    BY <1>5, <2>1
       DEF KillFirmware, AfterFirmware, KillData, RemoveData, WriteFirmware, AskReset, Goto,
           RunningTypes, VolumeTypes, NoImage, NoData, Vol
  <2> QED  BY <2>2, IdsKept
<1>6. CASE UNCHANGED vars
  <2>1. Held' \subseteq Held /\ UNCHANGED <<board, vol_id>>
    BY <1>6 DEF vars, chip, Vol
  <2> QED  BY <2>1, IdsKept
<1>7. CASE \/ RemoveUbiblocks \/ SetSlot \/ SetValid \/ Reboot \/ UbiblockBusy \/ MakeFails
           \/ WriteFails \/ EnvFails \/ Upgrade \/ Cut \/ ResetKeeps \/ ResetMakeFails
           \/ KillFirmwareFails \/ KillDataFails \/ (\E s \in Slots : Start(s))
           \/ (MakeFirmware /\ ~(fw[Target].size = 0 /\ Free >= image))
           \/ (MakeData /\ ~CanMakeData)
  <2>1. UNCHANGED <<board, fw, data, vol_id>> /\ pc' # "resetting"
    BY <1>7
       DEF RemoveUbiblocks, SetSlot, SetValid, Reboot, UbiblockBusy, MakeFails, WriteFails,
           EnvFails, Upgrade, Cut, ResetKeeps, ResetMakeFails, KillFirmwareFails, KillDataFails,
           Keeps, AfterFirmware, Start, MakeFirmware, MakeData, GiveUp, Fails, Goto, chip
  <2>2. Held' \subseteq Held
    BY <2>1
  <2> QED  BY <2>1, <2>2, IdsKept
<1> QED  BY <1>1, <1>2, <1>3, <1>4, <1>5, <1>6, <1>7 DEF Next, Script

\* Every step keeps the invariant of the chip.
LEMMA ChipStep == ChipInv /\ IdsInv /\ [Next]_vars => ChipInv'
<1> SUFFICES ASSUME ChipInv, IdsInv, [Next]_vars PROVE ChipInv'
  OBVIOUS
<1>1. SlotInv'
  BY StepInv DEF ChipInv
<1>2. CASE Next
  BY <1>1, <1>2, StartChip, InitOverlayChip, ResetMakeChip, AskResetChip, KillFirmwareChip,
     KillDataChip, MakeFirmwareChip, MakeDataChip, WriteFirmwareChip, CalmChip, FailChip, GoOnChip
     DEF Next, Script
<1>3. CASE UNCHANGED vars
  BY <1>1, <1>3
     DEF vars, chip, env, spent, ChipInv, TypeOK, SizesInv, SettingsInv, ClearedInv, RoomInv,
         OverlayThere, Lost, There, Needed, Volumes, ImageFits, Full, Vol, Target, Other, Free
<1> QED  BY <1>2, <1>3

\* The variables keep their types, the volumes never take more than the chip has, and Linux
\* runs from a slot exactly while the device is on.
THEOREM TypesHold == Spec => []TypeOK
<1>1. ChipInv => TypeOK
  BY DEF ChipInv
<1> QED  BY InitChip, InitIds, ChipStep, IdsStep, <1>1, PTL DEF Spec

\* A device that is up has its settings, from whichever slot it started and however often
\* upgrades broke off, unless a cut or a failing command hit settings that were being replaced,
\* or an image stayed whose settings went.  A reset that ends without mounting the settings
\* that it made has found a volume missing: where none is, UBI gives the new volume the number
\* of the old one, and $data_ubivol is still its node.
THEOREM SettingsAreThere == Spec => []OverlayThere
<1>1. ChipInv => OverlayThere
  BY DEF ChipInv
<1> QED  BY InitChip, InitIds, ChipStep, IdsStep, <1>1, PTL DEF Spec

\* An upgrade to the smallest image finds room for it and for the settings: what a broken
\* upgrade left in the way is what the next one removes.
THEOREM UpgradeFindsRoom == Spec => []RoomFound
<1>1. ChipInv => RoomFound
  BY Numbers, BoardAssumption
     DEF ChipInv, SlotInv, SlotTypes, RunsFromWhole, Bootable, TypeOK, SizesInv, SettingsInv,
         ClearedInv, RoomInv, RoomFound, CanMakeData, ImageFits, Full, Vol, Target, Other, Slots,
         Free, Board, None
<1> QED  BY InitChip, InitIds, ChipStep, IdsStep, <1>1, PTL DEF Spec
=============================================================================
