---------------------------- MODULE DiskInstall -----------------------------
(***************************************************************************)
(* The x86 kernel's two uses of the VirtIO disks, driven by its frame loop *)
(* (main.rs): the INSTALL tab, which clones the first disk onto the second *)
(* a few sectors a frame and then sets boot flags on the clone             *)
(* (gpt_boot_patch.rs), and the settings blob kept in the last sector of   *)
(* the first disk (settings_persist_disk.rs).                              *)
(*                                                                         *)
(* A read or write of a sector is one step with the contract of            *)
(* SectorDisk: it may fail, and a failed write may or may not have left    *)
(* its data.  A sector is a record of the fields this code looks at: an    *)
(* MBR, a GPT header, a sector of GPT entries, a settings blob, or other   *)
(* data.  A checksum is the value it is computed from.                     *)
(***************************************************************************)
EXTENDS Integers, FiniteSets

CONSTANTS
  Machines,     \* the disks a machine may have: [src : sectors, dst : sectors]
  SettingsVals, \* values of the settings, see DefaultSettings
  Chunk,        \* CHUNK = 32 sectors a frame
  EntrySectors, \* sectors of the GPT entry array
  MaxFaults     \* bound on failing sector operations

ASSUME BoundsAssumption ==
  /\ Chunk \in Nat \ {0}
  /\ EntrySectors \in Nat \ {0}
  /\ MaxFaults \in Nat

\* DeviceSettings: the display fields, the home URL, and the rest, which encode and
\* decode_v2 carry over unchanged.  home is "empty" when home_url_len is 0.
DefaultSettings == [display |-> 0, home |-> "default", other |-> 0]

SettingsOk(v) == v = [display |-> v.display, home |-> v.home, other |-> v.other]

ASSUME SettingsAssumption == \A v \in SettingsVals : SettingsOk(v)

VARIABLES
  src, dst,    \* the disks' contents, [0 .. capacity - 1 -> sector]
  boot,        \* what kernel_main found: pair_ready, on_src, src_written, caps
  loop,        \* where the frame loop is: "off", "input", "install", "save"
  install,     \* UiState.disk_install_*: request, phase, cur, total
  ui,          \* UiState.settings and settings_save_requested
  faults,      \* failed sector operations so far
  saved,       \* ghost: the settings of the last save that reported success
  held         \* ghost: what src's last sector held since this install began

vars == <<src, dst, boot, loop, install, ui, faults, saved, held>>

Capacity(disk) == Cardinality(DOMAIN disk)
Smaller(a, b)  == IF a < b THEN a ELSE b

None == [kind |-> "none"]

\* settings_persist::encode
Blob(v) == [kind |-> "evs2", v |-> v]

\* The fields of a sector of each kind the code looks into.
SectorOk(s) ==
  /\ s = [x \in DOMAIN s |-> s[x]] /\ "kind" \in DOMAIN s
  /\ s.kind = "mbr" => {"protective", "active"} \subseteq DOMAIN s
  /\ s.kind = "ent" => {"used", "boot_attrs"} \subseteq DOMAIN s
  /\ s.kind = "gpt" => {"size", "entry_lba", "part_crc", "hdr_crc"} \subseteq DOMAIN s
  /\ s.kind = "evs2" => "v" \in DOMAIN s /\ SettingsOk(s.v)
  /\ s.kind = "evs1" => "display" \in DOMAIN s

\* A disk is a finite run of sectors from LBA 0 on.
DiskOk(disk) ==
  /\ disk = [l \in DOMAIN disk |-> disk[l]] /\ IsFiniteSet(DOMAIN disk)
  /\ DOMAIN disk = 0 .. Capacity(disk) - 1
  /\ \A l \in DOMAIN disk : SectorOk(disk[l])

\* A GPT header at LBA 1 has its entries after it and before the last sector,
\* where the backup header is.
HeaderOk(disk) ==
  1 \in DOMAIN disk /\ disk[1].kind = "gpt" =>
    LET e == disk[1].entry_lba
    IN  e \in Nat /\ e >= 2 /\ e + EntrySectors < Capacity(disk) /\ disk[e].kind = "ent"

\* The last sector holds no partition table.
LastOk(disk) ==
  Capacity(disk) > 0 => disk[Capacity(disk) - 1].kind \notin {"mbr", "gpt", "ent"}

ASSUME MachinesAssumption ==
  \A m \in Machines :
    /\ DiskOk(m.src) /\ HeaderOk(m.src) /\ LastOk(m.src)
    /\ DiskOk(m.dst) /\ HeaderOk(m.dst)

-----------------------------------------------------------------------------
(***************************************************************************)
(* gpt_boot_patch.rs.                                                      *)
(***************************************************************************)
EntryRange(h) == h.entry_lba .. h.entry_lba + EntrySectors - 1

\* crc_partition_bytes
PartCrc(disk, h) == [l \in EntryRange(h) |-> disk[l]]

\* The header checksum is over the header with its own field cleared.
HeaderCrc(h) == [entry_lba |-> h.entry_lba, size |-> h.size, part_crc |-> h.part_crc]

\* What a failing write of value s to sector l may leave.
TornWrite(disk, l, s) == {disk, [disk EXCEPT ![l] = s]}

\* Mutant: the header is written back with the old entry checksum.
Mut_SealKeepsCrc(disk) == disk

\* The header rewritten for the entries now on disk: part_crc first, then the
\* header's own checksum.
SealHeader(disk) ==
  LET h  == [disk[1] EXCEPT !.part_crc = PartCrc(disk, disk[1])]
  IN  [disk EXCEPT ![1] = [h EXCEPT !.hdr_crc = HeaderCrc(h)]]

\* The disks try_patch_gpt may leave; fail says whether an operation may fail.
\* The entry is written before the checksums are computed and before the
\* header is found too long (more than 128 bytes) for the checksum buffer.
GptPatched(disk, fail) ==
  LET h   == disk[1]
      ent == [disk[h.entry_lba] EXCEPT !.boot_attrs = TRUE]
      one == [disk EXCEPT ![h.entry_lba] = ent]
  IN  IF \/ h.size = "invalid"
         \/ h.entry_lba \notin DOMAIN disk
         \/ ~disk[h.entry_lba].used
         \/ disk[h.entry_lba].boot_attrs
      THEN {disk}
      ELSE (IF fail THEN {disk, one} ELSE {})
           \cup (IF h.size = "long" \/ ~(EntryRange(h) \subseteq DOMAIN disk)
                 THEN {one}
                 ELSE {SealHeader(one)})

\* The disks try_patch_mbr may leave: partition 1 active, the others not,
\* unless there is no boot signature or the MBR is a protective one.
MbrPatched(disk, fail) ==
  LET m == [disk[0] EXCEPT !.active = 1]
  IN  IF disk[0].kind # "mbr" \/ disk[0].protective
      THEN {disk}
      ELSE IF fail THEN TornWrite(disk, 0, m) ELSE {[disk EXCEPT ![0] = m]}

\* patch_install_target_boot
PatchOutcomes(disk, fail) ==
  IF 1 \notin DOMAIN disk THEN {disk}
  ELSE IF disk[1].kind = "gpt" THEN GptPatched(disk, fail)
  ELSE MbrPatched(disk, fail)

-----------------------------------------------------------------------------
Init ==
  /\ \E m \in Machines : src = m.src /\ dst = m.dst
  /\ boot = [pair_ready |-> FALSE, on_src |-> FALSE, blk_ready |-> FALSE,
             src_written |-> FALSE, caps |-> FALSE]
  /\ loop = "off"
  /\ install = [request |-> FALSE, phase |-> "Idle", cur |-> 0, total |-> 0]
  /\ ui = [settings |-> DefaultSettings, save_requested |-> FALSE]
  /\ faults = 0
  /\ saved = None
  /\ held = {}

\* An operation may fail while the bound on faults is not used up.
MayFail == faults < MaxFaults

SettingsLba(disk) == Capacity(disk) - 1

\* Mutant: an empty home URL is loaded as it is.
Mut_DecodedEmptyHome(sector) ==
  CASE sector.kind = "evs2" -> sector.v
    [] sector.kind = "evs1" -> [DefaultSettings EXCEPT !.display = sector.display]
    [] OTHER -> DefaultSettings

\* What decode_merge makes of the defaults: a blob with a good checksum replaces
\* them, an old one only the display fields, and anything else nothing.  An empty
\* home URL is read as the built-in one.
Decoded(sector) ==
  CASE sector.kind = "evs2" ->
         [sector.v EXCEPT !.home = IF @ = "empty" THEN DefaultSettings.home ELSE @]
    [] sector.kind = "evs1" -> [DefaultSettings EXCEPT !.display = sector.display]
    [] OTHER -> DefaultSettings

\* Mutant: load looks for the blob in the first sector.
Mut_LoadedFirst(disk) == IF Capacity(disk) = 0 THEN DefaultSettings ELSE Decoded(disk[0])

\* settings_persist_disk::load into the defaults.
Loaded(disk) ==
  IF Capacity(disk) = 0 THEN DefaultSettings ELSE Decoded(disk[SettingsLba(disk)])

(***************************************************************************)
(* kernel_main up to the frame loop.  n disks are found; ok1 and ok2 say   *)
(* whether VirtioBlk::init succeeds on each (it refuses a read-only        *)
(* target).  The source is moved into DISK_SRC only when the second disk   *)
(* initialises, SETTINGS_ON_DISK_SRC is set before.                        *)
(***************************************************************************)
Boot(n, ok1, ok2, read_fails) ==
  /\ loop = "off"
  /\ LET usable == n >= 1 /\ ok1 /\ Capacity(src) >= 1
         pair   == n >= 2 /\ ok1 /\ ok2
     IN  /\ boot' = [pair_ready |-> pair,
                     on_src |-> n >= 2 /\ usable,
                     blk_ready |-> n = 1 /\ usable,
                     src_written |-> pair,
                     caps |-> usable]
         /\ read_fails => MayFail /\ usable
         /\ ui' = [settings |-> IF usable /\ ~read_fails THEN Loaded(src) ELSE DefaultSettings,
                   save_requested |-> FALSE]
         /\ install' = [request |-> FALSE, phase |-> "Idle", cur |-> 0,
                        total |-> IF pair THEN Smaller(Capacity(src), Capacity(dst)) ELSE 0]
  /\ loop' = "input"
  /\ faults' = faults + (IF read_fails THEN 1 ELSE 0)
  /\ UNCHANGED <<src, dst, saved, held>>

\* Power is cut, or the user reboots.  A cut inside a chunk leaves the disks as
\* a failed operation at that sector does.
PowerOff ==
  /\ loop # "off"
  /\ loop' = "off"
  /\ UNCHANGED <<src, dst, boot, install, ui, faults, saved, held>>

(***************************************************************************)
(* One frame: clicks, then the install step, then a requested save.        *)
(***************************************************************************)
NoClick ==
  /\ loop = "input"
  /\ loop' = "install"
  /\ UNCHANGED <<src, dst, boot, install, ui, faults, saved, held>>

\* The INSTALL button, there while the phase is Idle and a pair was found.
ClickInstall ==
  /\ loop = "input"
  /\ boot.pair_ready /\ install.phase = "Idle"
  /\ install' = [install EXCEPT !.request = TRUE]
  /\ loop' = "install"
  /\ UNCHANGED <<src, dst, boot, ui, faults, saved, held>>

\* A row of the settings screen, or a key in its home URL, which backspace may empty.
ClickSetting(v) ==
  /\ loop = "input"
  /\ ui' = [ui EXCEPT !.settings = v]
  /\ loop' = "install"
  /\ UNCHANGED <<src, dst, boot, install, faults, saved, held>>

\* The save row, live when settings_persist_supported.
ClickSave ==
  /\ loop = "input"
  /\ boot.caps
  /\ ui' = [ui EXCEPT !.save_requested = TRUE]
  /\ loop' = "install"
  /\ UNCHANGED <<src, dst, boot, install, faults, saved, held>>

\* The install state after disk_install_start_request is looked at.
Started ==
  IF ~install.request THEN install
  ELSE IF install.phase # "Idle" THEN [install EXCEPT !.request = FALSE]
  ELSE LET t == Smaller(Capacity(src), Capacity(dst))
       IN  IF t = 0
           THEN [install EXCEPT !.request = FALSE, !.phase = "Failed"]
           ELSE [request |-> FALSE, phase |-> "Running", cur |-> 0, total |-> t]

\* Sectors the copy loop moves in one frame if nothing fails.
ChunkLen(i) == Smaller(Chunk, i.total - i.cur)

\* dst with n sectors from cur on copied.
Copied(i, n) == [l \in DOMAIN dst |-> IF l \in i.cur .. i.cur + n - 1 THEN src[l] ELSE dst[l]]

\* No disk_install_start_request pending and nothing running, or no pair.
InstallIdle ==
  /\ loop = "install"
  /\ ~boot.pair_ready \/ Started.phase # "Running"
  /\ install' = IF boot.pair_ready THEN Started ELSE install
  /\ loop' = "save"
  /\ UNCHANGED <<src, dst, boot, ui, faults, saved, held>>

\* The last value of src's settings sector when this install begins.
HeldAtStart == IF Started = install THEN held ELSE {src[SettingsLba(src)]}

\* Mutant: disk_install_cur is not advanced past a full chunk.
Mut_Advance(i, n) == [i EXCEPT !.cur = IF n = Chunk THEN @ ELSE @ + n]

Advance(i, n) == [i EXCEPT !.cur = @ + n]

\* A whole chunk is copied; the end, if reached, is noticed in the next frame.
CopyChunk ==
  /\ loop = "install"
  /\ boot.pair_ready /\ Started.phase = "Running"
  /\ ChunkLen(Started) = Chunk
  /\ dst' = Copied(Started, Chunk)
  /\ install' = Advance(Started, Chunk)
  /\ held' = HeldAtStart
  /\ loop' = "save"
  /\ UNCHANGED <<src, boot, ui, faults, saved>>

\* The rest is copied, the clone's boot flags are patched, and the phase is Done
\* whatever the patch returned.
CopyLast(patch_fails) ==
  /\ loop = "install"
  /\ boot.pair_ready /\ Started.phase = "Running"
  /\ ChunkLen(Started) < Chunk
  /\ patch_fails => MayFail
  /\ dst' \in PatchOutcomes(Copied(Started, ChunkLen(Started)), patch_fails)
  /\ install' = [Advance(Started, ChunkLen(Started)) EXCEPT !.phase = "Done"]
  /\ held' = HeldAtStart
  /\ faults' = faults + (IF patch_fails THEN 1 ELSE 0)
  /\ loop' = "save"
  /\ UNCHANGED <<src, boot, ui, saved>>

\* Mutant: a failing sector is skipped and the install goes on.
Mut_AfterFault(i, n) == [i EXCEPT !.cur = @ + n + 1]

AfterFault(i, n) == [i EXCEPT !.cur = @ + n, !.phase = "Failed"]

\* Reading or writing sector cur + n fails; the failed write may have happened.
CopyFault(n) ==
  /\ loop = "install"
  /\ boot.pair_ready /\ Started.phase = "Running"
  /\ MayFail
  /\ n < ChunkLen(Started)
  /\ dst' \in TornWrite(Copied(Started, n), Started.cur + n, src[Started.cur + n])
  /\ install' = AfterFault(Started, n)
  /\ held' = HeldAtStart
  /\ faults' = faults + 1
  /\ loop' = "save"
  /\ UNCHANGED <<src, boot, ui, saved>>

\* Mutant: SETTINGS_BLK is never used.
Mut_SaveReachesPairOnly == boot.on_src /\ boot.src_written

\* settings_persist_disk::save reaches a disk it can write: DISK_SRC if it was
\* ever written (an unwritten static is zeroed memory, of capacity 0), else
\* SETTINGS_BLK.
SaveReaches == IF boot.on_src THEN boot.src_written ELSE boot.blk_ready

\* No save asked for.
SaveIdle ==
  /\ loop = "save"
  /\ ~ui.save_requested
  /\ loop' = "input"
  /\ UNCHANGED <<src, dst, boot, install, ui, faults, saved, held>>

\* settings_save_requested: the blob is written, or the save fails silently.
Save(write_fails) ==
  /\ loop = "save"
  /\ ui.save_requested
  /\ ui' = [ui EXCEPT !.save_requested = FALSE]
  /\ write_fails => MayFail /\ SaveReaches
  /\ LET blob == Blob(ui.settings)
     IN  /\ src' \in IF ~SaveReaches THEN {src}
                     ELSE IF write_fails THEN TornWrite(src, SettingsLba(src), blob)
                     ELSE {[src EXCEPT ![SettingsLba(src)] = blob]}
         /\ saved' = IF ~SaveReaches THEN saved
                     ELSE IF write_fails THEN None
                     ELSE blob
  /\ held' = IF install.phase = "Running" THEN held \cup {src'[SettingsLba(src)]} ELSE held
  /\ faults' = faults + (IF write_fails THEN 1 ELSE 0)
  /\ loop' = "input"
  /\ UNCHANGED <<dst, boot, install>>

-----------------------------------------------------------------------------
InstallStep ==
  \/ InstallIdle \/ CopyChunk
  \/ \E f \in BOOLEAN : CopyLast(f)
  \/ \E n \in 0 .. Chunk - 1 : CopyFault(n)

SaveStep == SaveIdle \/ \E f \in BOOLEAN : Save(f)

Click == NoClick \/ ClickInstall \/ ClickSave \/ \E v \in SettingsVals : ClickSetting(v)

Start ==
  \E n \in 0 .. 2, ok1 \in BOOLEAN, ok2 \in BOOLEAN, f \in BOOLEAN : Boot(n, ok1, ok2, f)

Next == Start \/ PowerOff \/ Click \/ InstallStep \/ SaveStep

Spec == Init /\ [][Next]_vars

\* The frame loop never blocks: it takes its next step unless power is cut.
FairSpec == Spec /\ WF_vars(Click \/ InstallStep \/ SaveStep)

-----------------------------------------------------------------------------
(***************************************************************************)
(* Properties.                                                             *)
(***************************************************************************)

\* The install counters stay within the overlap of the two disks, and DISK_SRC is
\* in use for an install only when it was written.
TypeOK ==
  /\ install.phase \in {"Idle", "Running", "Done", "Failed"}
  /\ install.request \in BOOLEAN
  /\ install.cur \in 0 .. install.total
  /\ install.total \in 0 .. Smaller(Capacity(src), Capacity(dst))
  /\ loop \in {"off", "input", "install", "save"}
  /\ SettingsOk(ui.settings) /\ ui.save_requested \in BOOLEAN
  /\ install.phase # "Idle" => boot.src_written
  /\ faults \in 0 .. MaxFaults

\* b is a with nothing changed but what patch_install_target_boot sets.
SameButBootFlags(a, b) ==
  /\ a.kind = b.kind
  /\ CASE a.kind = "mbr" -> b = [a EXCEPT !.active = b.active]
       [] a.kind = "ent" -> b = [a EXCEPT !.boot_attrs = b.boot_attrs]
       [] a.kind = "gpt" -> b = [a EXCEPT !.part_crc = b.part_crc, !.hdr_crc = b.hdr_crc]
       [] OTHER          -> b = a

\* When the INSTALL tab says DONE, every sector of the overlap is on the target as
\* it is on the source, but for the boot flags; after interrupted and failed
\* installs, and with settings saved while the copy ran (the source's last
\* sector is then copied as it was at some moment of the install).
CloneIsFaithful ==
  install.phase = "Done" =>
    \A l \in 0 .. Smaller(Capacity(src), Capacity(dst)) - 1 :
      \/ SameButBootFlags(src[l], dst[l])
      \/ l = Capacity(src) - 1 /\ dst[l] \in held

GptOk(disk) ==
  /\ 1 \in DOMAIN disk
  /\ disk[1].kind = "gpt"
  /\ disk[1].hdr_crc = HeaderCrc(disk[1])
  /\ disk[1].part_crc = PartCrc(disk, disk[1])

\* A clone of a disk whose GPT firmware accepts has a GPT firmware accepts: after
\* the boot flags are set, both checksums of the header match again.
CloneHasValidGpt ==
  install.phase = "Done" /\ Capacity(dst) >= Capacity(src) /\ GptOk(src) => GptOk(dst)

\* The same, short of the two things try_patch_gpt does not survive: a sector
\* operation that fails inside it, and a header of more than 128 bytes.
CleanCloneHasValidGpt ==
  faults = 0 /\ (\A l \in DOMAIN src : src[l].kind = "gpt" => src[l].size # "long")
    => CloneHasValidGpt

\* An install that has started reports DONE or FAILED, unless power is cut.
InstallEnds ==
  install.phase = "Running" /\ loop # "off" ~> install.phase # "Running" \/ loop = "off"

\* A save that reported success is what the next boot loads, whatever was
\* installed, interrupted or changed in between; only a home URL saved empty comes
\* back as the built-in one.  No boot, from a blob of either version or from none,
\* comes up without a home URL to fetch.
SavedSettingsSurvive ==
  [][loop = "off" /\ loop' = "input"
       => /\ ui'.settings.home # "empty"
          /\ boot'.caps /\ faults' = faults /\ saved # None
               => \/ ui'.settings = saved.v
                  \/ /\ saved.v.home = "empty"
                     /\ ui'.settings = [saved.v EXCEPT !.home = "default"]]_vars

\* The SAVE SETTINGS row writes the settings when no sector operation fails, but
\* for a machine whose second disk did not initialise: the row is offered there
\* (SETTINGS_ON_DISK_SRC is set) and DISK_SRC was never written.
SaveRowSaves ==
  [][loop = "save" /\ loop' = "input" /\ ui.save_requested /\ faults' = faults
       => saved' = Blob(ui.settings) \/ (boot.on_src /\ ~boot.src_written)]_vars

\* Saving settings on the last sector disturbs nothing the disk kept there: a
\* backup GPT header stays.
BackupGptKept ==
  [][\A l \in DOMAIN src : src[l].kind = "backup" => src'[l] = src[l]]_vars

\* SAVE SETTINGS does what it says: the row writes, and what it wrote is loaded
\* again, or the built-in home URL for one saved empty.
SettingsKept == SaveRowSaves /\ SavedSettingsSurvive
=============================================================================
