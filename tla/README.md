# Verification of the NAND, Ethernet reset and flow offload drivers and the firmware upgrade of meta-filogic

meta-filogic is the Yocto layer from which RDK-B images for MediaTek's filogic
routers are built: kernel drivers and patches for Linux 5.4, 6.6 and 6.12, Wi-Fi
packages, and the tools and scripts that upgrade and start the device. Most of
it is recipes and patches to other projects, vendor SDKs and register headers. What
has a logic of its own, keeps state over a crash or across threads, and cannot be tested on
a bench in all its cases is modelled here: the layer that hides bad flash blocks,
with its three back ends and its front end, the reset of the Ethernet frame
engine, the driver that moves flows into hardware, and the upgrade of a device with two images. `drivers/` below stands for
`src/recipes-kernel/linux/linux-mediatek-6.12/generic/files/drivers/`, `eth/` for
`src/recipes-kernel/linux/linux-mediatek-5.4/mediatek/files-5.4/drivers/net/ethernet/mediatek/`.

## Inventory

| part | state | operations | interacts with | what is hard | correct when |
|---|---|---|---|---|---|
| **NMBM back end** `drivers/mtd/nand/mtk_bmt_nmbm.c` | on flash: signature, main and backup info table, bad marks; in memory: `struct nmbm_instance` (states, map, addresses, counters, `protected`) | attach: find the signature, load, rescue or create tables; map, remap, unmap a block; update, rebuild, rescue the tables | called by the front end, calls the flash driver | power cuts at any flash operation, erases and programs that fail, blocks running out | data stays where a logical block maps to, now and after any restart; the map is one-to-one and stays out of the management area; every call returns |
| **MTD front end** `drivers/mtd/nand/mtk_bmt.c`, `mtk_bmt.h` | `bmtd`: the saved MTD operations, one page buffer | read, write, erase, isbad, markbad; debugfs files mark_bad, mark_good, repair | replaces the MTD operations; calls one of three back ends | retries, partial copies, no lock at all | a logical block reads as last written; errors are reported |
| **BMT v2 back end** `mtk_bmt_v2.c` | one table on flash (`bb_tbl`, pool), in memory `bmt_blk_idx` | init (load or build), remap, unmap, free unused pool blocks | as above | the only table copy is erased before it is rewritten; pool runs out | as for NMBM |
| **BBT back end** `mtk_bmt_bbt.c` | bitmap of bad blocks, one copy | init, remap, unmap | as above | a new bad block shifts every later one | as for NMBM |
| **NMBM of Linux 5.4** `linux-mediatek-5.4/.../mtd/nmbm/nmbm-core.c` | as NMBM, plus its own read and write paths | as NMBM | MTD and a lower device | as NMBM | as NMBM |
| **Serial NAND driver** `.../mtd/mtk-snand` (5.4) | registers, ECC engine | page read and program, erase | below the mapping | bitflips | it reports errors |
| **Ethernet reset** `eth/mtk_eth_reset.c`, part of `eth/mtk_eth_soc.c`, `eth/mtk_eth_dbg.c` (5.4) | `reset_lock`, `force`, `event`, `MTK_RESETTING`, completions and counts of the Wi-Fi handshake, `dma_refcnt`, phylinks | monitor, debugfs, interrupts ask for a reset; the work resets; devices open and close; a mux switches; Wi-Fi chips answer | network stack (rtnl), Wi-Fi driver over notifiers, offload driver | locks given back in the middle, several chips behind one count, requests that overlap | chips and DMA are quiet at the reset; everything runs again after it; it ends, and cures the hang |
| **Flow offload** `eth/mtk_hnat/` (5.4) | the table and the cache of the PPE, prepared entries for Wi-Fi, the list of neighbour updates, the timer | bind a flow from a packet; delete entries by neighbour, device, station; warm init | network stack, neighbours, Wi-Fi transmit path, Ethernet reset (`MTK_FE_RESET_NAT_DONE`) | hardware reads the table without a lock; packets, updates and resets overlap | no flow goes to an old address; a bound entry is not rewritten; updates are worked off |
| **firmware upgrade** `src/recipes-devtools/fw-upgrade/files` and **root overlay** `src/recipes-devtools/initrd/files` | the two image slots, the volumes of settings, the boot environment | write an image to the other slot, switch; mount the settings, reset them | boot loader (device tree, environment), UBI | a power cut or a failing command between any two steps, the boot loader falling back | one slot always boots; settings survive; the next upgrade works |
| **boot counter** `reset-boot-count.c` (5.4) | a register | reset | boot loader | - | it keeps the slot |
| **tools** (`mtd`, `regs`, `mii-mgr`, `flowtable`, FIT and dm-verity tools, `smp` scripts) | none that lasts | one-shot | kernel interfaces | - | - |
| **Wi-Fi, hostapd, recipes, blobs, kernel patches** | in other projects' sources | - | - | - | - |

`PROJECT.json` lists the parts with sources, and the hazards at their lines.

## Plan

1. `NMBM`, `MapStore` (done): the NMBM back end with failures and power cuts, its abstract
   store, and the refinement; all its safety invariants and the refinement proved.
2. `BMTv2`, `BBT` (done): the other two back ends; all their properties proved.
3. `BlockFront` (done): the front end at page level with several callers; all proved.
4. `EthReset` (done): the reset with its triggers, the handshake, devices and the mux; all
   its safety properties proved.
5. `FlowOffload` (done): the table of the PPE and what changes it; the same.
6. `ImageSlots` (done): the firmware upgrade and the start; all proved.
7. Nothing of the plan is left. What could come next is the NMBM of the 5.4 kernel and what "Not modelled"
   lists.

## Modules

| module | what it is |
|---|---|
| `NMBM`, `MCNMBM` | the NMBM back end: one action per flash operation of the driver or request of the user; instances: factory marks, a chip already formatted, a chip whose spare blocks are bad |
| `MapStore` | what the info tables of NMBM are for: an abstract store of one map, which `NMBM` implements (`StoresMap`) |
| `BMTv2`, `MCBMTv2` | the second back end, in the same style; instances: factory marks, a chip already in use |
| `BBT`, `MCBBT` | the third back end; instance: one remap range |
| `BlockFront`, `MCBlockFront` | the front end at page level, over the remap of BMT v2, several callers |
| `EthReset`, `MCEthReset` | the reset of the frame engine |
| `FlowOffload`, `MCFlowOffload` | the hardware NAT driver |
| `ImageSlots`, `MCImageSlots` | the firmware upgrade with two slots in UBI, the boot loader, the start with the root overlay |
| `ImageSlots_proofs` | TLAPS: `SomeSlotBoots`, `CurrentSlotIsWhole`, `UpgradeIsKept`, `TypesHold`, `SettingsAreThere`, `UpgradeFindsRoom` |
| `BMTv2_proofs` | TLAPS: `TablesAreTyped`, `MapStaysInjective`, `TableStaysApart`, `DataIsReachable`, `RestartAlwaysFindsData` |
| `BBT_proofs` | TLAPS: `TableTypes`, `MappingAlwaysPermutes`, `DataAlwaysStays`, `TableIsSaved` |
| `BlockFront_proofs` | TLAPS: `FrontTypes`, `PoolIsSpared`, `DataIsKept`, `ReadsAreTrue` |
| `EthReset_proofs` | TLAPS: `ResetTypes`, `DmaIsSound`, `PhylinkAlwaysFollows`, `ChipsAreQuiet`, `HandshakeIsBalanced` |
| `FlowOffload_proofs` | TLAPS: `OffloadTypes`, `BoundIsAlwaysLeft`, `CacheAlwaysFollows`, `NoPathIsEverStale` |
| `NMBM_map` | TLAPS: the types and the map of NMBM, `TypeCorrect`, `MapIsInjective`, `AreaIsDisjoint` |
| `NMBM_proofs` | TLAPS: the tables and the data of NMBM, `TablesNeverOverlap`, `RestartAlwaysFindsData`, `DataIsReachable`; the store they make, `TablesStoreMap` |

The three back ends have the calls of the front end at the level of blocks in them (attach,
write, erase, isbad, markbad, debugfs), as these decide when a remap happens.
`BlockFront` stands in front of the plainest remap (BMT v2's, without its tables), so that
page offsets, retries and two callers fit into one model. `FlowOffload` starts where
`EthReset` ends: the work of the reset calls the notifier at
`mtk_eth_soc.c:5536`, whose handler is `WarmStart` to `WarmEnd`.

### How `NMBM` corresponds to the code

*State.* Every variable above the line "Where the driver is" is a member of
`struct nmbm_instance` under its own name, except that `bad` is the set of blocks
whose two bits in `block_state` are `BLOCK_ST_BAD` (no code stores
`BLOCK_ST_NEED_REMAP`), and that the two `..._changed` counters are kept as
"greater than zero", which is all the code asks. `content` and `marked` are the
flash. The address 0 means "no table", as in the code.

*Steps.* The driver is sequential code that calls the flash. A step of the model is one
flash operation with the computation up to the next one, because flash
operations are where something may fail and where a power cut makes a difference.
`pc` names the work that comes next; `caller` is where `nmbm_update_info_table`
returns to, and `w.cont` where `nmbm_write_info_table` and `nmbm_erase_range` do.
Those two are shared by all the functions that call them: `w_erase`/`w_program`
is the loop of `nmbm_write_mgmt_range`, `e_erase` that of `nmbm_erase_range`. Each function
that writes tables is then a group of actions, named for the function and the
outcome (`RescueTmpWritten`, `RescueTmpFailed`, ...).

*Attach.* `nmbm_load_info_table` reads only, so that finding the tables is one step:
`Loadable` is the set of blocks from which the search can take a table
(`nmbm_try_load_info_table` with the header, checksum and plausibility checks), `FirstTable`
and `SecondTable` its two searches. `LoadTables` computes what the load leaves in
memory, including the states that reading found and that the load of a table
overwrites. `Restart` is the table such an attach would load, as a state
function: the properties on crashes are stated with it.

*Failures.* An erase may fail leaving the block as it was or torn; a program may
fail leaving it torn; both are what is left after the three tries of
`nmbm_erase_phys_block` and `nmbm_write_phys_page`. Marking a block bad in its
out-of-band area is taken to succeed. A torn block may or may not pass the ECC at
the next attach (`EccErrors`). A power cut may hit the block in flight at any
stage: untouched, torn, or complete and not yet verified.

*User.* A logical block is erased and written as a whole; `content` distinguishes
the last data of a logical block (`data`) from earlier data (`old`), which is all
that the properties need of it. `intact` is history: the logical blocks that were written and
whose data no fault has destroyed since.

*`weak`.* A history variable that records that something happened after which the
code no longer promises what a property says, so that the properties can be
stated for the rest:

| tag | what happened | who sets it |
|---|---|---|
| `skip` | a walk of `nmbm_map_block` passed over a bad block (first finding below) | `MapTo` |
| `unmap` | `unmap_block_nmbm` (debugfs only) chose a block of the management area, one that is marked bad, or another logical block's; or a repair copied a table (`Overwritten`) | `UserUnmap`, `RemapCopy` |
| `overlap` | a load took a table above the lowest remapped block | `LoadTables` |
| `unsaved` | the map changed while the chip was protected, or no table could be written at all | `RemapBlock`, `UserUnmap`, `RebuildMainFailed` |

`NoOverlap` says that `overlap` never happens by itself, so that it is no exception for the other properties.

### How `BMTv2` corresponds to the code

`bb_tbl`, `bmt_tbl` and `bmt_blk_idx` are the variables of the code; `bmt_tbl` is long enough for
every block, and `None` is the index `(u16)-1`. `upload_bmt` is the loop of
`UploadErase`, `UploadWrite`, `UploadFails` and `UploadNoRoom` over its index `n`; the labels
`init_erase` and `init_write` are the call from init, the only one whose result is looked at.
`AttachFound` is a start that accepts the highest table it meets, `AttachScan` one that
builds the tables from the bad marks and from what it cannot read (`ScannedMap` and
`ScannedPool` are the two loops of `scan_bad_blocks` as functions, `FindValid` the search they
share). A block that holds the first part of a table passes for one; the search for
its index then reads on behind the table, so that the start either rejects it or goes
`wild`. The pool is handed out from below (`Available`, `Take`), the table walks down from
above. `UserFree` is the debugfs value 100.

`wild` is the end of the model: the driver has used `(u16)-1` as an index of its table,
and what it reads or writes then is not its own. `weak` has `moved` (a block failed under
the table), `cut` (power went while the table was rewritten, or after any of the
others), `full` (no room for the table, or none but entry 0, which a start rejects), `unmap` and
`freed` (debugfs took a block that is in use), `shadow` (a scan puts its table below a block
that passes for one) and `wild`. A rebuilt table starts with no promise broken, and with no
data promised (`intact` is emptied); but `unmap` and `freed` stay (`Leftover`) while any table is on the
flash, as the one they spoiled may be loaded by a later start.

### How `BBT` corresponds to the code

`bad` is the bitmap `bbt_buf`, `home` the block of the table (`bmt_blk_idx`), `Mapped` the function
of `get_mapping_block_index_bbt`: within a remap range the n-th logical block is the n-th good
one, and those that are left over get the bad ones. A remap is a change of `bad`, the
save (`SaveErase`, `SaveWrite`) and the copy of one block; where the save returns to
depends on the call (`AfterSave`, `AfterNew`). `kept` is history: the logical blocks whose data
the driver has to keep. A new bad block moves the others of its range
without their data, which is what the code does, so `KeptWith` takes them out; what is left is
checked by `DataStays`. `spoiled` has `cut` (power went while the only table was erased) and
`fault` (its erase or program failed, which the code does not look at).

### How `BlockFront` corresponds to the code

A step is one access to the chip, the map, the pool or the page buffer; `call` has the local
variables of each caller (`retry`, `ret` as `err`, the block that was looked up, the copy length).
`want` is what a page has to be read back as (`Lost` when the chip lost it or the request that
writes it is not done), `due` is `want` at the start of a read and `got` what it delivered.
`upset` is history: a logical block whose remap was crossed by another request to it, or
`None` when two searches of the pool or two uses of the page buffer crossed. Nothing is locked there,
so that nothing can be said of such data; `CopiesOwn` shows what happens to it. Requests are for one
block; a write starts at a page boundary and goes to the end; a user of MTD does not write or
erase a block that another one uses.

### How `EthReset` corresponds to the code

A step is what a thread does between two points at which another one matters: rtnl,
`MTK_RESETTING`, a completion, or a test whose answer is used later (the monitor and debugfs test
`reset_lock` and store `event` afterwards). `pc` is the place in `mtk_pending_work`, `mon`,
`dbg` and `mux` those of the monitor, of debugfs and of `mtk_mux_switch_channel`. `rtnl` is who
holds the lock; `dead` is a thread that died with it. The variables of
`mtk_eth_reset.c` have their names. The count `dma_refcnt` is a `refcount_t`, which stays 0 once it
is 0. The chips are external: they do what they are told in order and answer through
the notifier. The phylink of a mux channel with an SFP cage takes rtnl when it is created
or destroyed. The build is the one without `CONFIG_NET_MEDIATEK_SOC_WED`; the answer of TOPS is
polled with a timeout and changes nothing, and is left out.

*`upset`* has what happened that the protocol does not allow for, and which property then says
nothing:

| tag | what happened |
|---|---|
| `late` | an event was stored while a reset was under way, or overwritten |
| `chips` | a chip came or went between a question and the last answer |
| `stopfail` | a chip could not stop while answers of others, or of the round before, were due |
| `force` | an interrupt or debugfs changed `force`, which the monitors need to be 1 |
| `leak` | `mtk_open` failed behind the count it does not take back |
| `phylink` | devices were opened or closed while the reset had given rtnl back and leaves phylinks alone |
| `mux` | a mux switched, or its device was opened or closed in the middle |

### How `FlowOffload` corresponds to the code

One PPE. `foe` is its table; an entry has its state, the flow that the hardware compares (`key`), and
the flow and next-hop address that were written into it. `cache` is what the hardware has
loaded of it, `sma` whether it builds entries (`PPE_TB_CFG.SMA`). `Learn`, `Age`, `Load` and `NeighUpdate` are
the hardware and the kernel. A packet of a flow that is due is in the hands of a CPU: `FillWired` and
`FillWifi` are the code up to the last check (the address of the next hop is read here, `flow` is
`foe_flow`), `Transmit` the hook of the Wi-Fi driver, `Commit` the check and the write under
`entry_lock`. A flow may go out of a wired or a Wi-Fi device by packet, as bridges and routes have it.
Scans of the table (`WorkSlot`, `DeleteSlot`) take one slot a step; everything else may happen
between two slots and before the cache is cleared. `events`, `pending`, `work` and `local` are the
list of updates, its delayed work, the scan of the handler and its batch; `del` is a call of
`foe_clear_all_bind_entries` or `entry_delete_by_mac`; `warm` is the place in `hnat_warm_init`, which
the reset calls. `missed` is history: bound entries that the driver was not told
about (the notifier was unregistered, the list was full, the update was to `NUD_STALE`), or
that a packet bound with an address it had read before, when the scan was over. `busy` says that
the cache could not be cleared in ten tries.

### How `ImageSlots` corresponds to the code

A volume has a size in erase blocks; that of an image is whole or not, that of settings has the file
`reset-default` or not. `pc` is the place in `dual_boot_upgrade_prepare_ubi` and
`ubi_dual_boot_upgrade_itb` (`prepare` to `reboot`), in the start (`init`, `resetting`), or `stuck`: where the
scripts return 1, `do_stage2` ends without a restart, as the device has two slots. `board` is what the boot
loader puts into the device tree. `KillData` asks for the volume named `rootfs_data` and removes the
one of the slot, as the script does; the second try of `MakeData` cannot work, as `root_ubidev` is not
set there. `Start` is the boot loader as far as the scripts depend on it: any bootable slot, the current
one first; a slot that is passed over gets its mark, and `current_slot` may follow or not. `promised` is
history: the slot of an upgrade that has reported success.

`vol_id` is the number that UBI gave each volume, the lowest that was free, as no script asks for one (`Number`).
It matters where a reset mounts `/dev/$data_ubivol`, the node of the volume it has removed
(`kernelv6-init_readonlyfs.sh:47,62`): `ResetMake` has an overlay only if the new volume got the old number. A
removal that fails has an action of its own, as the scripts go on behind it: `KillFirmwareFails` and
`KillDataFails` (`nand_v2.sh:335,340`), `ResetKeeps` and `ResetMakeFails` (`kernelv6-init_readonlyfs.sh:57,61`).

`spoiled` is history, the exceptions that the properties name:

| tag | meaning |
|---|---|
| `reset` | settings were removed by a reset and not made again: the power was cut, or `ubimkvol` failed |
| `shared` | power was cut while settings of both slots were removed by an upgrade |
| `kept` | an upgrade removed the settings of an image that it had failed to remove |
| `greedy` | a reset took room of a missing volume |
| `env` | `fw_setenv` failed |
| `node` | a reset made the settings under another number than the node it mounts; until the next start |
| `inway` | a removal failed in this upgrade; until the next start |

### Abstractions

- NMBM: a table fits in one erase block (`size2blk(info_table_size) = 1`): it needs about 4
  bytes per block of the chip, and erase blocks have 128 KiB or more. Hence
  `info_table_spare_blocks = 2`, and a table is found, written and verified as a
  whole. In `nmbm_rescue_main_info_table` the part after "not overwritten" is then
  unreachable, as `nmbm_write_info_table` stops below its limit. In
  `nmbm_update_info_table_once`, `main_table_ba = 0` cannot occur: `TablesInv`
  (proved) says the chip is protected then.
- Addresses are block numbers; headers, checksums, the signature's parameters and
  repeated pages are "this block holds a table" and "holds the signature".
  `mgmt_start_ba` is the constant `MgmtStart`; a chip that carries a signature has it.
- The back ends have one call at a time, and the remap range of the device tree
  covers the chip for NMBM and v2 (`mapping_block_in_range`).
- `ImageSlots`: UBI's operations are atomic but for the write of an image, which leaves a marked volume when it
  breaks off; so is a write of the (redundant) boot environment; `upgrade-image-slot` is in the device tree;
  the file is a FIT image; the switch to a root in memory changes nothing of the above. A failing `ubirmvol`
  changes nothing. The factory numbers the volumes without a gap, in any order; the volumes of the boot
  environment are there, so that `ubi_prepare_u_boot_env` makes none, and the numbers are those that the permanent
  volumes leave. A volume of settings that is there can be mounted.
- BBT has at least one remap range (`RangeAssumption`). Without one, `mapping_block_in_range` gives the
  whole chip but counts its end in blocks (`mtk_bmt.c:77-81`), which `get_mapping_block_index_bbt` takes for bytes: no
  block is then mapped elsewhere.
- `EthReset`: the test of `reset_lock` and the store of `event` (`mtk_eth_reset.c:1283,1286`) are one step of
  `StartResetInit`.
- `FlowOffload`: checking a slot and deleting it is one step (what another CPU binds in between
  is deleted too, which costs speed only), and so is a commit; the address of the
  sender, which `entry_delete_by_mac` compares too, is left out; a TCP connection that ends is an entry
  that ages; the age of a prepared entry is a choice; one deletion runs at a time; an update of a
  neighbour and its announcement are one step; the rest of an invalid entry is dropped, as
  nobody reads more of it than its key.

## What the runs check

| run | instance | distinct states | properties |
|---|---|---|---|
| `nmbm_main` | 11 blocks, 3 logical; a new chip with six sets of factory marks and 1 failure, or a formatted chip full of data, with all or one of its replacements, and 3 failures or remaps; 1 cut | 0.82 M | `TypeOK`, `MappingInjective`, `AreaDisjoint`, `RestartFindsData`, `DataReachable`, `NoOverlap`, `StoresMap` |
| `nmbm_worn` | formatted chip, 10 blocks, 1 logical, spare blocks bad; 4 failures or remaps, 2 cuts; weak fairness | 0.73 M | `StoresMap`, `Settles` |
| `v2_main` | 10 blocks, 4 logical, new with five sets of factory marks or in use; 3 failures or requests, 1 cut | 0.92 M | `TypeOK`, `MappingInjective`, `TableApart`, `RestartFindsData`, `DataReachable` |
| `bbt_main` | 8 blocks, a range of three; 2 failures or requests, 1 cut | 0.51 M | `TypeOK`, `MappingPermutes`, `DataStays`, `TableSaved` |
| `front_main` | 2 callers, 2 requests, 2 logical blocks of 2 pages, 3 in the pool; 3 failures; 1 retry | 3.9 M | `TypeOK`, `DataKept`, `ReadTrue`, `PoolSpent` |
| `eth_main` | 2 devices, 1 behind a mux, up to 2 chips, both kinds of SoC; 3 events | 1.6 M | `TypeOK`, `ChipsQuietAtReset`, `HandshakeBalanced`, `DmaSound`, `PhylinkFollows` |
| `eth_live` | 1 device behind a mux, up to 2 chips; 2 events; weak fairness | 0.13 M | `RtnlReleased`, `ResetEnds`, `HangIsCured` |
| `hnat_main` | 2 CPUs, 1 flow, 2 slots, 2 addresses, 1 update per batch, room for 2; 3 events; weak fairness | 0.81 M | `TypeOK`, `NoStalePath`, `CacheFollows`, `BoundIsLeft`, `EventsHandled` |
| `upgrade_main` | four boards, 9 blocks, images of 2 and 4; 3 upgrades or resets, 2 failures, 2 cuts | 1.3 M | `TypeOK`, `AlwaysBoots`, `PromiseKept`, `OverlayThere`, `RoomFound` |

`nmbm_double_map`, `front_buffer` and `eth_deadlock` find a violation each; see the disagreements below.

**NAND.** `RestartFindsData` of `NMBM` is the central one: at every state, so between any two flash
operations, the table that an attach would load maps every intact logical
block to its data. `StoresMap` is the refinement of `MapStore`: this table changes from the
old map to the new one in one step, though two tables are erased and programmed
one after the other, may slide over their neighbours and may be rescued to other
places; a start takes up exactly that map; and while the driver has a backup
table there always is one. `DataReachable` says of the driver that is up that
its data are where it thinks. `NoOverlap`, `MappingInjective` and
`AreaDisjoint` are about the ways in which a table or a block could be lost: a stale table
in a mapped block, a block handed out twice, a block in use that counts as unmapped.

For BMT v2 the same questions have weaker answers, as there is one table and it is
erased before it is rewritten. `RestartFindsData` holds at every flash operation but those
of the upload, as long as no upload had to move; `DataReachable` holds of the running driver
whatever happens to its table; `MappingInjective` and `TableApart` (the walk of the table down the
pool never reaches a block in use) hold after any start, also from an old table
or a rebuilt one. For BBT, `MappingPermutes` holds even when the good blocks run out;
`DataStays` says which blocks keep their data when a new bad one moves those behind it.

At page level, `DataKept` and `ReadTrue` are the promise of a block device, over retries, partial
copies and blocks that decay while they are copied; they hold for callers whose remaps
do not cross. `ReadTrue` depends on an oddity of the code: `mtk_bmt_read` keeps the error of the first
attempt although the retry succeeds. Without it (the mutant `ReadErr_Last`), pages that could not be
copied would be delivered as erased ones.

**Reset.** `ChipsQuietAtReset` and `HandshakeBalanced` are about the one count for the answers of
all chips: no answer is taken for another chip's, for that of the round before or after, and
nothing is left over; the DMA engines of the chips are reset if and only if they were told to expect it. `DmaSound` relates the users of the DMA, which open and close while the reset has
given rtnl back, to the rings; `PhylinkFollows` the flag that
decides what a reset touches to what was touched. The liveness properties name their exceptions in
their statements.

**Offload.** `NoStalePath` says that no update is lost in the list, its budget, the batch, a scan or
a reset, from the moment it is announced to the moment the entry is gone; `CacheFollows` that the
cache is cleared behind every scan that deleted something, when scans and resets overlap; `BoundIsLeft`
that two CPUs and the Wi-Fi hook, which prepare the same entry, never rewrite one that is in use.

**Upgrade.** `AlwaysBoots` is the promise of two slots; it depends on writing the slot that Linux does not run
from, which is not always the one that `current_slot` does not name. `PromiseKept` is
about the order of the switch and the mark of an earlier failure. `OverlayThere` and `RoomFound` relate the
two slots through the settings they share and the room they compete for, over upgrades that broke off and
removals that failed. `OverlayThere` is about every start: it excludes settings that are lost for good (`reset`,
`shared`, `kept`), and says of a reset that mounts nothing (`node`) that the settings were made all the same, and
that a volume the device should have was missing. Without that exception TLC
refutes it in thirteen states and with no failing command; see the disagreements below.

*Bounds.* `MaxFaults`, `MaxEvents` and `MaxOps` bound what comes from outside: failures of operations,
requests, updates, moves of chips; `MaxCuts` bounds power cuts. For NMBM, a
remap takes a block from the top, a failed write moves a table by one, and a
rescue needs the whole gap of two spare blocks to fail (hence `nmbm_worn`, where it is
bad from the start), so that three or four events reach every branch of the
update, the rescue and the rebuild: over the `nmbm_` runs every action of `Next` is
taken. 11 blocks leave three unmapped; where two of them are bad, a remap uses up the area. Two logical blocks suffice for two to collide; three for a target of
`unmap_block_nmbm` two blocks away. The factory marks of `nmbm_main` include
chips on which there is no room for a backup table, or for any. For BMT v2, a pool of two
blocks is used up by one remap and one failing upload, and a third event then
meets the driver without a table. For BBT, one factory mark and two remaps use up a range of three
blocks. For the front end, three failures are one more than the two attempts of a request.
For the reset, three events are a hang, something that disturbs the reset, and something that
disturbs what follows; two chips suffice to confuse answers, two devices to share the DMA.
For the offload, one flow with two CPUs suffices for every race about an entry, as entries only meet
in the scans (the second slot) and in the list; three updates overflow a list of two and leave something
over a budget of one, and two of them with a reset meet a handler that runs and is pending again.
For the upgrade, one operation breaks off, one leaves its mark and a third meets what is left; a large image does
not fit beside the settings of two slots.
Deadlock is not checked: a device that did not attach, or an instance that has used
up its bounds, stops.

*Fairness.* `Settles` assumes weak fairness of `DriverStep`, the driver's own
steps: a call runs in its caller's context and waits for nobody. Nothing is
assumed of the user or of power. `Settles` holds for finitely many failures only,
as the bound has it; each loop of the code is bounded by the blocks that are left.
The reset assumes that kworkers run (`WorkStep`, `MonitorStep`, `MuxStep`), which includes that rtnl,
a mutex that wakes its waiters in order, is handed over, that the store of a
debugfs write is reached, and that the Wi-Fi driver works off what it is told; a wait
for a completion has no timeout in the code and none in the model. The offload assumes kworkers, the timer, and
that a scan or a warm init goes on in its caller's context; nothing is assumed of packets, of the hardware or of
the kernel's neighbours.

### Disagreements with the code's own words

Shown by a run:

- `nmbm_double_map` / `Injective`: `nmbm_map_block` lowers `mapping_blocks_top_ba` by one
  even when it walked further down; the same spare block is mapped twice.
- `front_buffer` / `CopiesOwn`: two callers whose blocks are remapped at the same time find the same free
  entry of the pool, and copy through one buffer; one's data ends up in the block of the other.
- `eth_deadlock` / `DebugResets`: the reset holds rtnl and spins for `MTK_RESETTING`, the switch of a
  mux holds `MTK_RESETTING` and its phylink waits for rtnl.

Met while modelling; the models follow the code, and exclude what follows from what they promise:

- NMBM: an update can end with a newly found bad block in neither table (`mtk_bmt_nmbm.c:1476`,
  against 1521); a chip that is "now read-only" (1957) goes on being written; a remap that cannot
  copy loses readable data silently (2228); `unmap_block_nmbm` takes whatever block lies
  next to the neighbour's (2321), without asking whose it is; a repair from debugfs
  copies the data after the map was saved (`mtk_bmt.c:331`), when the block it copies from may have
  become a table: a copy of a table then lies among the mapped blocks. The proof of `NoOverlap` showed it
  (`unmap`, set by `RemapCopy`).
- BMT v2: when an upload falls back to the previous block (`mtk_bmt_v2.c:210`), the mark that
  says where the table is stays behind, and the next start rejects the table and forgets every
  remap; `(u16)-1` for "no room" is kept as the index of the table (274, against `mtk_bmt.h:64`); freeing
  unused blocks frees the one of logical block 0 (311, 135); a scan (469) leaves an old table that was
  rejected on a block it may not use, above the new one, and the next start meets that one first: eight
  or more remaps and failures are needed, beyond the bounds of `v2_main`, and the
  proof of `RestartFindsData` showed it (`shadow`).
- Reset: after an `mtk_open` that failed behind `dma_refcnt` (`mtk_eth_soc.c:4674`), the DMA
  is not shut down by any later reset, against 5483.
- Offload: a flow that goes through a gateway keeps its address when the gateway gets another one, as
  `foe_clear_entry` compares the destination of the flow with the neighbour
  (`hnat_nf_hook.c:475`; `Direct` in the model); an update to `NUD_STALE` with a new address
  is ignored (589); the flush of `NETDEV_GOING_DOWN` (392) comes while the device still forwards, so
  that flows are bound again when the timer fires early; when the table could only be allocated in a smaller
  size (`hnat.c:1194`), `entry_delete_by_mac` (384) and the teardown (621) still run to the full
  size; `hnat_hw_init` takes references on the two net devices for every PPE and at every
  warm init (1173), and one each is given back.

- Upgrade: when `rootfs_data` is missing, the volume of the other slot is not removed and every upgrade fails
  where it makes it again (`nand_v2.sh:327`, 340); the second try to make the settings names no device (369);
  a removal that fails (335) leaves an image whose settings are removed (340) and not made again (344), and
  which can be started; a reset mounts the node of the volume it has removed
  (`kernelv6-init_readonlyfs.sh:47,62`), and behind an upgrade that was cut at 335 the new volume may get a lower
  number (61 asks for none), so that the device comes up without its settings until the next start (tag `node`),
  against "Proceed with reset to default" (55); a reset to the defaults ignores the limit for the settings (`kernelv6-init_readonlyfs.sh:60`), and one that
  was cut leaves none for good; the result of `fw_setenv` is not looked at (409), and "sysupgrade successful"
  follows.

## What is proved

Every safety property of the runs, and the refinement `StoresMap`, is a theorem for all values of the
constants. The assumptions are those named in the modules, which say that the constants are numbers in order
and that the sets are of the right kind; the bounds on failures, cuts, requests and events are
arbitrary numbers. A theorem has the premises of its property (`weak`, `upset`, `spoiled`), and no others.
The invariants share one pattern: what the property
says of a state at rest has to be said of every state on the way, and of everything that a
later step may take up, which is, for the drivers with a crash, all that lies on the flash.

*BMT v2.* For every chip, pool and set of factory marks. The invariant `IInv` of the first
three theorems says that the map and the pool fit (`Fits`: no two logical blocks on one block; the pool
rises, lies behind the data, and has no mapped block that is not marked), in memory and *in every
table on the flash*, as a start loads whatever table it meets first. To keep that, `upload_bmt` must
write only to an unused entry: `Tries`, `Writes` and `Index` say that all entries from the table down are there.
The scan is the induction of this module: `MapRises` and `PoolRises` say of the two loops of
`scan_bad_blocks` that each block found lies behind the one before. For the data there is
`DInv`. `MemData` follows a logical block through a remap: it is on its old block
(`Where`) until the copy is done. `AtHome` says that nothing above the table passes for one and that no copy
goes there, `Saved` that the table on the flash is the one in memory, but for the remap under way;
`Left` is what a power cut leaves of both: one block that a start takes its table from, and
that table leads to the data. `OneRestart` is the lemma that such a start has no other choice.

*BBT.* For every chip and set of remap ranges. The mapping of a range is counted, not stored, so that
`MappingPermutes` is a matter of cardinalities: in a finite set of numbers there is exactly one of each rank
(`RankExists`), and the good and bad blocks of a range have as many ranks as it has blocks. `DataStays` needs,
besides, where the data is during each of the requests (`Moving`: at its source until copied, and
the target is not the source), and that the table lies behind all users (`Placed`, `Topmost`).

*Front end.* For any number of callers, blocks, pages and attempts. Ownership is the heart (`Owned`): a
block that is mapped, taken, or just left by the map while it is copied belongs to one logical block, so that
what others write goes elsewhere. `Copied` says where each page is at every step of a copy; `Spared` that what a
partial copy leaves out is what the request replaces; `Read` that a read without an error has,
or will get, what was there when it began. `PoolSpent` needs the count of attempts (`Attempts`).

*Reset.* For any number of devices, muxes and chips. `DmaIsSound` and `PhylinkAlwaysFollows` rest on who
holds the locks (`Locks`): the work and a mux that makes a phylink exclude each other by `MTK_RESETTING` although rtnl
changes hands in the middle. `Shares` makes `dma_refcnt` the number of devices that have
a share, at every step of a reset and a switch. `ChipsAreQuiet` and `HandshakeIsBalanced` rest on
`Handshake`: which answers are due in each phase, that `mtk_rest_cnt` counts them, that the completion comes
with the last, and what a failed stop leaves for the second round.

*Offload.* For any number of processors, flows, slots, addresses and updates, with types as the only
invariant needed: `BoundIsLeft`, `CacheFollows` and `NoStalePath` are each kept by every
step. `NoStalePath` is about all stations that an update passes: in the list, in the batch, before the scan
has reached the slot, and behind a reset; each step is shown to hand the update on.

*Upgrade.* For every number of blocks, set of image sizes and boards, and any number of upgrades, failures and
cuts. `SlotInv` is behind `SomeSlotBoots`, `CurrentSlotIsWhole` and `UpgradeIsKept` (`AlwaysBoots`,
`CurrentIsWhole` and `PromiseKept` of every behaviour; `CurrentIsWhole`, that `current_slot` never names a missing
or torn image without its mark, is in no run): the slot Linux runs from can be
started, that being written is whole from `set_slot` on, and `current_slot` does not name it before,
unless it has its mark. `TargetStep` is the one lemma behind all steps that write the other slot or switch,
`QuietStep` that behind those that leave the slots alone. `ChipInv` adds the sizes for `SettingsAreThere` and
`UpgradeFindsRoom`: each slot can be replaced in the room it has and what is free (`RoomInv`), what is in the way has been removed
at each step (`ClearedInv`), and where settings may be missing (`SettingsInv`). `IdsInv` is about numbers: volumes
that are there, and the one being reset, have different ones, and the last of four stays unused where settings
are shared. Hence, where no other volume is missing, the number that a reset has freed is the lowest that is free
(`SameNumber`), the node it mounts is that of the new volume, and a reset that mounts nothing has found one missing.

*NMBM.* For every number of blocks, every start of the management area, every set of
factory marks and any number of failures and cuts, from the five named
assumptions of `NMBM` (the constants are numbers in order):

- `TypeCorrect`: `Spec => []TypeOK`. `TypeOK` alone is not inductive: that the
  block in hand is a block needs `w.ba` to be in its range while the driver is
  writing, and that the table addresses are blocks needs to know from which function
  a write was called. `TypeInv` adds this as `ControlInv`: which `cont` and `caller` values
  go with which label, and what `at` may be in each. One lemma per group of
  actions.
- `MapIsInjective`: `Spec => []MappingInjective`.
- `AreaIsDisjoint`: `Spec => []AreaDisjoint`.
- `TablesNeverOverlap`: `Spec => []NoOverlap`.
- `RestartAlwaysFindsData`: `Spec => []RestartFindsData`.
- `DataIsReachable`: `Spec => []DataReachable`.
- `TablesStoreMap`: `Spec => StoresMap`.

The second and third come from one invariant, `MapInv == Sound => SoundInv`, on top of `TypeInv`.
`SoundInv` says that

- `MapsOneToOne`: the map in memory, the cached one and *every table on the
  flash* are one-to-one: any of them may be in use after the next restart;
- `CountInv`: logical blocks from `data_block_count` on are unmapped;
- `AreaInv`: `MgmtStart <= mapping_blocks_ba <= mapping_blocks_top_ba < signature_ba`, and every mapped
  block lies below `MgmtStart` or strictly between `mapping_blocks_top_ba` and the
  end without being the signature;
- `RangeInv`, `TablesInv`: the range being written and the tables lie within the
  area, so that the updates of `mapping_blocks_ba` keep the order.

An injective map is not inductive without `AreaInv` (the block that `nmbm_map_block`
hands out is new only because all mapped ones are above the top), and `AreaInv` not
without the table addresses, as these move `mapping_blocks_ba`. The invariants were
checked by TLC before they were proved. The step that needs care is the load
(`LoadSound`): what `nmbm_check_info_table` checks, with the top it computes, is just enough to
establish `AreaInv` from an arbitrary one-to-one table, provided the table lies
below the top, which is what the tag `overlap` excludes.

`NoOverlap` comes from `CopiesInv`, which holds as long as no block was skipped and no
repair went astray (`Regular`). Its parts:

- `FlashInv` is about the tables on the flash alone, so that a power cut leaves it true: at most two
  of them count, the others are in blocks marked bad (`PlaceInv`); each would be accepted (`CopyInv`); of two,
  the newer one has every bad block of the older, maps nothing to where they lie, and is not the first one unless the
  maps are the same (`AgeInv`); and the newest knows the stale tables it may come across (`NewInv`);
- `PathInv` is where the driver is: the blocks it passed are bad, which address
  stands for which table at each label, and how far each range goes;
- `TableInv` relates the two: the tables that count are those the driver knows (`WhereInv`), none is newer than
  the cache (`CacheInv`), a stale one is never handed out as a replacement block
  (`StaleInv`, `Shields`) and known to the table that is being written (`CeilingInv`).

The steps that need care are the ones that take a table away or put one there (`FlashRemove`, `FlashProgram`), and
the load (`TableLoad`), where what the driver knows is what the newest table says.

The data come from `DataInv`, which holds as long as `weak` is empty: each table that a search can find points
to the data (`DataFlash`), so does the map in memory, or the data is where a remap copies from (`DataRam`); no
table that counts has data where tables are written or blocks are handed out, nor where a remap copies to, except the
older of two (`ClearInv`); unless a flag says that they are behind, the tables have the map in memory (`SavedInv`); and
`LostInv` says what happened to data that is gone. The central step is the one in `DataWrite`: the first
table with the new map may replace the old one only because the data was copied before.

The refinement needs one more, `OneMap`: until an update writes its first table, all tables that count have the
same map, though perhaps not the one in memory. It is what lets `nmbm_update_info_table` erase one of two
tables without anything to be seen in the store (`StoredLess`). `Stored` is the map of the newest
table (`StoredNow`); `StoreChange` says that a step either leaves it as it is or makes it the map in memory, or
removes the only table while the driver knows of no other (`Replaced`), and `StoreStep` gives each step its action of `MapStore`:
programming the newer table, or losing the old one when the newer is there, is `Commit`; erasing the only
one is `Erase`; a cut is `Stop`, even if it falls into one of these; taking up a table is `Start`; all others are
`Change`, `Stop` (the driver gives up) or a stutter. These invariants, too, were checked by TLC before they were proved.

*Model-checked only*: the liveness properties (`Settles`, `RtnlReleased`, `ResetEnds`, `HangIsCured`,
`EventsHandled`) and fairness, which are beyond the proof system. The library's induction theorems cannot be used with the installed
provers, as they take an operator as a parameter; the scans of BMT v2 are instead recursive functions, and
what holds of them is shown with a set of indices and its least element (`Least`, `Induction`).

## Not modelled

- NMBM of Linux 5.4: the same algorithm in an earlier form with its own read and write paths.
- Of the reset: saved and restored registers (QDMA, PPE, PSE, GDM), what the monitors measure, the data path.
- Of the offload: the filling in of headers, multicast, 464XLAT, tunnels and crypto, QoS, accounting,
  updates of entries in place, the hooks' enabling and disabling, probe and remove.
- The serial NAND driver, the PHY and switch SDKs (`rtl8367c`, `an8855`): access to registers, most of it
  generated tables and headers; they make up most of the lines of the tree.
- Boot counter: two conversions of a register; what counts and what acts on it is the boot loader. Upgrades of
  devices with one slot, on eMMC and of Linux 5.4: with one slot there is no image while it is written; on eMMC
  the image is one `dd`, whose result is not looked at.
- The tools keep no state. Hostapd, mt76, the kernel patches and the recipes are changes
  to other projects' sources which are not part of the tree.
