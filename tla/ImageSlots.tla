----------------------------- MODULE ImageSlots -----------------------------
(***************************************************************************)
(* The firmware upgrade of a device with two image slots in UBI             *)
(* (sysupgrade_v2, do_stage2_v2, platform_v2.sh, nand_v2.sh) and the start   *)
(* that puts an overlay over its read-only root                              *)
(* (kernelv6-init_readonlyfs.sh).  A slot is a volume with an image; the     *)
(* settings of users are in a volume rootfs_data, of which each slot has its *)
(* own or both share one.                                                    *)
(*                                                                          *)
(* A step is one change of a volume or of the boot environment; the power    *)
(* may be cut between any two.  The boot loader is external: it starts the   *)
(* current slot, or the other one if that is invalid, broken, or has failed  *)
(* too often, and tells Linux which (the properties mediatek,... of the      *)
(* device tree).                                                             *)
(***************************************************************************)
EXTENDS Integers, FiniteSets

CONSTANTS
    Total,       \* erase blocks that UBI has for these volumes
    ImageSizes,  \* what images may need of them
    Boards,      \* how the boot loader has set up the device, see Board
    MaxOps,      \* bound: upgrades and resets to the defaults
    MaxFaults,   \* bound: commands that fail, and slots that fail to come up
    MaxCuts      \* bound: power cuts

Slots == {0, 1}
Other(s) == 1 - s
None == 2

\* shared: one rootfs_data for both slots; reserve: mediatek,reserve-rootfs_data;
\* limit: mediatek,rootfs_data-size-limit, 0 if there is none.
Board == [shared : BOOLEAN, reserve : BOOLEAN, limit : 0..Total]

Small == CHOOSE n \in ImageSizes : \A k \in ImageSizes : n <= k

ASSUME BoundAssumption == /\ Total \in Nat /\ MaxOps \in Nat
                          /\ MaxFaults \in Nat /\ MaxCuts \in Nat
ASSUME ImageAssumption == ImageSizes # {} /\ ImageSizes \subseteq 1..Total
\* Two images and the settings fit; settings that are kept, or may fill the chip, are shared.
ASSUME BoardAssumption ==
    /\ Boards # {} /\ Boards \subseteq Board
    /\ \A b \in Boards :
          /\ b.reserve \/ b.limit = 0 => b.shared
          /\ 2 * Small + (IF b.shared THEN 1 ELSE 2) * b.limit <= Total
          /\ 2 * Small < Total

VARIABLES
    board,      \* which board this is
    fw,         \* the volumes of the slots
    data,       \* the volumes rootfs_data: 0 is named so, 1 is the other slot's
    vol_id,     \* UBI's number of each volume, or of the last one of that name
    current,    \* the boot environment: dual_boot.current_slot
    invalid,    \* the slots s with dual_boot.slot_s_invalid
    pc,
    booted,     \* mediatek,boot-firmware-part, or None
    image,      \* blocks that the image of the upgrade needs
    overlay,    \* whether the root has its overlay
    ops, faults, cuts,
    promised,   \* history: the slot of an upgrade that has reported success
    spoiled     \* history: what the scripts do not make good again, or not before the next start

chip  == <<fw, data, vol_id>>
env   == <<current, invalid>>
spent == <<ops, faults, cuts>>
vars  == <<board, chip, env, pc, booted, image, overlay, spent, promised, spoiled>>

\* size 0: there is no such volume
NoImage == [size |-> 0, whole |-> FALSE]
NoData  == [size |-> 0, reset |-> FALSE]
Fresh(n) == [size |-> n, reset |-> FALSE]

Vol(s)  == IF board.shared THEN 0 ELSE s
Target_OfEnv == Other(current)
Target  == Other(booted)                    \* mediatek,upgrade-image-slot
Free    == Total - fw[0].size - fw[1].size - data[0].size - data[1].size
Bootable(s) == s \notin invalid /\ fw[s].whole

\* The numbers that the permanent volumes leave to these; shared settings need one less.
Ids     == 0..3
Volumes == {"fw", "data"} \X Slots
Needed  == Volumes \ (IF board.shared THEN {<<"data", 1>>} ELSE {})
There   == {v \in Volumes : IF v[1] = "fw" THEN fw[v[2]].size > 0 ELSE data[v[2]].size > 0}

\* UBI gives a new volume the lowest number that is free.
FreeIds == Ids \ {vol_id[v] : v \in There}
NewIds  == {i \in FreeIds : \A j \in FreeIds : i <= j}
Number(v) == \E i \in NewIds : vol_id' = [vol_id EXCEPT ![v] = i]

Labels == {"off", "init", "resetting", "up", "prepare", "kill_fw", "kill_data", "make_fw",
           "make_data", "write", "set_slot", "set_valid", "reboot", "stuck"}

Goto(l) == pc' = l /\ UNCHANGED <<board, booted, image, overlay, spent, promised, spoiled>>
\* A command fails: the script ends; with two slots nothing restarts the device.
Fails == /\ faults < MaxFaults
         /\ faults' = faults + 1
         /\ pc' = "stuck"
         /\ UNCHANGED <<board, chip, env, booted, image, overlay, ops, cuts, promised, spoiled>>
GiveUp  == pc' = "stuck"
           /\ UNCHANGED <<board, chip, env, booted, image, overlay, spent, promised, spoiled>>

\* The boards leave the factory with one image or two; each has its settings.  Settings that
\* fill the chip leave room for the second image only if it is there.  The volumes are numbered
\* without a gap.
Init ==
    /\ board \in Boards
    /\ \E present \in {{0}, Slots} :
          /\ board.limit = 0 => present = Slots
          /\ fw = [s \in Slots |->
                     IF s \in present THEN [size |-> Small, whole |-> TRUE] ELSE NoImage]
          /\ data = [v \in Slots |->
                     IF v \notin {Vol(s) : s \in present} THEN NoData
                     ELSE IF board.limit > 0 THEN Fresh(board.limit)
                     ELSE Fresh(Total - 2 * Small)]
    /\ vol_id \in {id \in [Volumes -> Ids] :
                     /\ \A v, x \in Volumes : id[v] = id[x] => v = x
                     /\ \A v \in There, x \in Volumes \ There : id[v] < id[x]}
    /\ image = Small
    /\ current = 0 /\ invalid = {} /\ pc = "off" /\ booted = None /\ overlay = FALSE
    /\ ops = 0 /\ faults = 0 /\ cuts = 0 /\ promised = None /\ spoiled = {}

-----------------------------------------------------------------------------
(***************************************************************************)
(* Starting                                                                 *)
(***************************************************************************)
\* The boot loader.  A slot that does not start, or did not come up often enough, is
\* marked invalid if there is another one; whether current_slot follows is its own affair.
Start(s) ==
    /\ pc = "off" /\ Bootable(s)
    /\ IF s = current THEN UNCHANGED <<env, faults>>
       ELSE /\ Bootable(current) => faults < MaxFaults
            /\ faults' = IF Bootable(current) THEN faults + 1 ELSE faults
            /\ invalid' = invalid \union {current}
            /\ current' \in Slots
    /\ booted' = s /\ pc' = "init" /\ promised' = None /\ overlay' = FALSE
    /\ spoiled' = spoiled \ {"node", "inway"}
    /\ UNCHANGED <<board, chip, image, ops, cuts>>

\* kernelv6-init_readonlyfs.sh: mount the settings over the root; without them go on.
InitOverlay ==
    /\ pc = "init"
    /\ overlay' = (data[Vol(booted)].size > 0 /\ ~data[Vol(booted)].reset)
    /\ IF data[Vol(booted)].reset
       THEN /\ data' = [data EXCEPT ![Vol(booted)] = NoData]
            /\ pc' = "resetting"
       ELSE pc' = "up" /\ UNCHANGED data
    /\ UNCHANGED <<board, fw, vol_id, env, booted, image, spent, promised, spoiled>>
\* The volume cannot be removed, so that none can be made; the old one is mounted again.
ResetKeeps ==
    /\ pc = "init" /\ data[Vol(booted)].reset /\ faults < MaxFaults
    /\ faults' = faults + 1
    /\ overlay' = TRUE
    /\ pc' = "up"
    /\ UNCHANGED <<board, chip, env, booted, image, ops, cuts, promised, spoiled>>

\* The new volume takes all that is available, also the room of volumes that the other slot
\* does not have at the moment.  What is mounted is the node of the volume that was removed
\* ($data_ubivol): there is none if the new one has got a lower number.
ResetMake ==
    LET new == <<"data", Vol(booted)>>
    IN  /\ pc = "resetting"
        /\ data' = [data EXCEPT ![Vol(booted)] = Fresh(Free)]
        /\ Number(new)
        /\ overlay' = (vol_id'[new] = vol_id[new])
        /\ spoiled' = spoiled
              \union (IF \/ fw[Other(booted)].size = 0
                         \/ ~board.shared /\ data[Other(booted)].size = 0
                      THEN {"greedy"} ELSE {})
              \union (IF overlay' THEN {} ELSE {"node"})
        /\ pc' = "up"
        /\ UNCHANGED <<board, fw, env, booted, image, spent, promised>>
\* Nobody looks at the result of ubimkvol either; there is nothing to mount.
ResetMakeFails ==
    /\ pc = "resetting" /\ faults < MaxFaults
    /\ faults' = faults + 1
    /\ overlay' = FALSE
    /\ spoiled' = spoiled \union {"reset"}
    /\ pc' = "up"
    /\ UNCHANGED <<board, chip, env, booted, image, ops, cuts, promised>>

\* A user asks for the defaults: the file reset-default, and a restart.
AskReset ==
    /\ pc = "up" /\ overlay /\ ops < MaxOps
    /\ ops' = ops + 1
    /\ data' = [data EXCEPT ![Vol(booted)].reset = TRUE]
    /\ pc' = "off" /\ booted' = None
    /\ UNCHANGED <<board, fw, vol_id, env, image, overlay, faults, cuts, promised, spoiled>>

-----------------------------------------------------------------------------
(***************************************************************************)
(* The upgrade: ubi_dual_boot_upgrade_itb, dual_boot_upgrade_prepare_ubi     *)
(***************************************************************************)
Upgrade ==
    /\ pc = "up" /\ ops < MaxOps
    /\ ops' = ops + 1
    /\ image' \in ImageSizes
    /\ pc' = "prepare"
    /\ UNCHANGED <<board, chip, env, booted, overlay, faults, cuts, promised, spoiled>>

\* nand_remove_ubiblock may find one in use, before anything has changed.
RemoveUbiblocks == pc = "prepare" /\ UNCHANGED <<chip, env>> /\ Goto("kill_fw")
UbiblockBusy    == pc = "prepare" /\ Fails

AfterFirmware == IF board.reserve THEN "make_fw" ELSE "kill_data"
KillFirmware ==
    /\ pc = "kill_fw"
    /\ fw' = [fw EXCEPT ![Target] = NoImage]
    /\ UNCHANGED <<data, vol_id, env>>
    /\ Goto(AfterFirmware)

\* A removal fails and the script goes on ("|| :"), to fail where it makes the volume again.
Keeps(l) ==
    /\ faults < MaxFaults
    /\ faults' = faults + 1
    /\ pc' = l
    /\ spoiled' = spoiled \union {"inway"}
    /\ UNCHANGED <<board, chip, env, booted, image, overlay, ops, cuts, promised>>
KillFirmwareFails == pc = "kill_fw" /\ fw[Target].size > 0 /\ Keeps(AfterFirmware)

\* The volume is removed if there is one named rootfs_data, whatever its own name is, and
\* also when its image could not be removed and can still be started.
RemoveData(v) ==
    /\ pc = "kill_data"
    /\ IF data[0].size > 0
       THEN /\ data' = [data EXCEPT ![v] = NoData]
            /\ spoiled' = IF fw[Target].whole THEN spoiled \union {"kept"} ELSE spoiled
       ELSE UNCHANGED <<data, spoiled>>
    /\ pc' = "make_fw"
    /\ UNCHANGED <<board, fw, vol_id, env, booted, image, overlay, spent, promised>>
KillData_Keep == pc = "kill_data" /\ UNCHANGED <<chip, env>> /\ Goto("make_fw")
KillData_OfBooted == RemoveData(Vol(booted))
KillData == RemoveData(Vol(Target))
KillDataFails ==
    pc = "kill_data" /\ data[0].size > 0 /\ data[Vol(Target)].size > 0 /\ Keeps("make_fw")

MakeFirmware ==
    /\ pc = "make_fw"
    /\ IF fw[Target].size = 0 /\ Free >= image
       THEN /\ fw' = [fw EXCEPT ![Target] = [size |-> image, whole |-> FALSE]]
            /\ Number(<<"fw", Target>>)
            /\ UNCHANGED <<data, env>>
            /\ Goto(IF board.reserve THEN "write" ELSE "make_data")
       ELSE GiveUp

\* The second try, with all that is left, names no device (root_ubidev is not set).
CanMakeData == data[Vol(Target)].size = 0 /\ Free > 0 /\ Free >= board.limit
MakeData ==
    /\ pc = "make_data"
    /\ IF CanMakeData
       THEN /\ data' = [data EXCEPT ![Vol(Target)] =
                           Fresh(IF board.limit > 0 THEN board.limit ELSE Free)]
            /\ Number(<<"data", Vol(Target)>>)
            /\ UNCHANGED <<fw, env>>
            /\ Goto("write")
       ELSE GiveUp
MakeFails == pc \in {"make_fw", "make_data"} /\ Fails

\* ubiupdatevol: an update that is cut or fails leaves a volume that cannot be read.
WriteFirmware ==
    /\ pc = "write"
    /\ fw' = [fw EXCEPT ![Target].whole = TRUE]
    /\ UNCHANGED <<data, vol_id, env>>
    /\ Goto("set_slot")
WriteFails == pc = "write" /\ Fails

SetSlot_Next ==
    /\ pc = "set_slot"
    /\ current' = Target + 1
    /\ UNCHANGED <<chip, invalid>>
    /\ Goto("set_valid")
SetSlot ==
    /\ pc = "set_slot"
    /\ current' = Target
    /\ UNCHANGED <<chip, invalid>>
    /\ Goto("set_valid")

SetValid_KeepFlag ==
    /\ pc = "set_valid"
    /\ promised' = Target
    /\ pc' = "reboot"
    /\ UNCHANGED <<board, chip, env, booted, image, overlay, spent, spoiled>>
SetValid ==
    /\ pc = "set_valid"
    /\ invalid' = invalid \ {Target}
    /\ promised' = Target
    /\ pc' = "reboot"
    /\ UNCHANGED <<board, chip, current, booted, image, overlay, spent, spoiled>>

\* Nobody looks at the result of fw_setenv.
EnvFails ==
    /\ pc \in {"set_slot", "set_valid"} /\ faults < MaxFaults
    /\ faults' = faults + 1
    /\ spoiled' = spoiled \union {"env"}
    /\ IF pc = "set_slot" THEN pc' = "set_valid" /\ UNCHANGED promised
       ELSE pc' = "reboot" /\ promised' = Target
    /\ UNCHANGED <<board, chip, env, booted, image, overlay, ops, cuts>>

Reboot ==
    /\ pc = "reboot"
    /\ pc' = "off" /\ booted' = None
    /\ UNCHANGED <<board, chip, env, image, overlay, spent, promised, spoiled>>

\* Settings that both slots use are missing between their removal and the end of the upgrade;
\* nothing makes a volume again that a reset has removed.
Cut ==
    /\ pc # "off" /\ cuts < MaxCuts
    /\ cuts' = cuts + 1
    /\ spoiled' = IF pc = "resetting" THEN spoiled \union {"reset"}
                  ELSE IF /\ board.shared
                          /\ \/ pc \in {"make_fw", "make_data"} /\ ~board.reserve
                             \/ pc = "stuck" /\ data[0].size = 0
                  THEN spoiled \union {"shared"} ELSE spoiled
    /\ pc' = "off" /\ booted' = None
    /\ UNCHANGED <<board, chip, env, image, overlay, ops, faults, promised>>

-----------------------------------------------------------------------------
Script == \/ InitOverlay \/ ResetMake \/ ResetKeeps \/ ResetMakeFails
          \/ KillFirmwareFails \/ KillDataFails
          \/ RemoveUbiblocks \/ KillFirmware \/ KillData \/ MakeFirmware \/ MakeData
          \/ WriteFirmware \/ SetSlot \/ SetValid \/ Reboot
          \/ UbiblockBusy \/ MakeFails \/ WriteFails \/ EnvFails
Next == \/ Script
        \/ \E s \in Slots : Start(s)
        \/ AskReset \/ Upgrade \/ Cut
Spec == Init /\ [][Next]_vars

-----------------------------------------------------------------------------
(***************************************************************************)
(* Properties                                                               *)
(***************************************************************************)
\* The variables have their types, and Linux knows which slot it runs from.
TypeOK ==
    /\ board \in Boards
    /\ fw \in [Slots -> [size : 0..Total, whole : BOOLEAN]]
    /\ data \in [Slots -> [size : 0..Total, reset : BOOLEAN]]
    /\ vol_id \in [Volumes -> Ids]
    /\ current \in Slots /\ invalid \in SUBSET Slots /\ promised \in Slots \union {None}
    /\ pc \in Labels /\ overlay \in BOOLEAN /\ image \in ImageSizes
    /\ booted \in Slots \union {None} /\ (booted = None <=> pc = "off")
    /\ ops \in 0..MaxOps /\ faults \in 0..MaxFaults /\ cuts \in 0..MaxCuts
    /\ spoiled \subseteq {"greedy", "reset", "shared", "kept", "env", "node", "inway"}
    /\ Free >= 0

\* Whenever the power fails and whatever command fails, there is a slot to start from, also
\* when the boot loader has fallen back to the other slot and current_slot still names this
\* one: the upgrade writes the slot that Linux does not run from.
AlwaysBoots == \E s \in Slots : Bootable(s)

\* The boot environment never sends the boot loader to an image that is missing or half
\* written: the slot is switched behind the last step that may fail, and a slot that was
\* invalid stays so until it has been written.
CurrentIsWhole == current \notin invalid => fw[current].whole

\* Once the script has said that the upgrade was successful, the boot loader starts the new
\* image, although its slot may have been marked invalid by an earlier failure; unless the
\* boot environment could not be written.
PromiseKept == promised # None /\ "env" \notin spoiled => current = promised /\ Bootable(promised)

\* A device that is up has its settings, from whichever slot it started and however often an
\* upgrade broke off (init_readonlyfs mounts them, or goes on without), except where a script
\* has lost them: a cut or a failing ubimkvol while settings that both slots share, or those
\* being reset, were removed, or an image that stayed when its settings went.  A reset may
\* leave the device without them until the next start, but only when a volume is missing, as
\* after an upgrade that broke off.
Lost == {"reset", "shared", "kept"}
OverlayThere ==
    pc = "up" /\ spoiled \intersect Lost = {} =>
        \/ overlay
        \/ /\ "node" \in spoiled /\ data[Vol(booted)].size > 0
           /\ \E v \in Needed : v \notin There

\* An upgrade to an image that fits finds room for it and for the settings, after any
\* upgrades that broke off: the volumes that are in the way have been removed before, unless
\* that failed in this upgrade.  Not so after a reset that took the room of a missing image,
\* or where settings were lost for good: KillData looks for the name rootfs_data, and does not
\* remove the other slot's volume when that one is missing.
RoomFound ==
    image = Small /\ spoiled \intersect {"greedy", "reset", "kept", "inway"} = {} =>
        /\ pc = "make_fw" => fw[Target].size = 0 /\ Free >= image
        /\ pc = "make_data" => CanMakeData
=============================================================================
