------------------------- MODULE DiskInstallProofs --------------------------
(***************************************************************************)
(* Proofs about DiskInstall, for disks of any size and any chunk: what the *)
(* INSTALL tab calls DONE is a faithful clone, with a GPT that still       *)
(* checks; and settings that were saved are loaded again.                  *)
(***************************************************************************)
EXTENDS DiskInstall, FiniteSetTheorems, TLAPS

\* The number of the last sector, and the number of sectors both disks have.
Last == Capacity(src) - 1
Overlap == Smaller(Capacity(src), Capacity(dst))

-----------------------------------------------------------------------------
\* Sectors and disks.

\* A disk has a natural number of sectors.
LEMMA CapacityNat == ASSUME NEW d, DiskOk(d) PROVE Capacity(d) \in Nat
  BY FS_CardinalityType DEF DiskOk, Capacity

\* A disk with sector l written, a header with its checksums.
Put(d, l, s) == [d EXCEPT ![l] = s]
Sealed(h, p, c) == [[h EXCEPT !.part_crc = p] EXCEPT !.hdr_crc = c]

\* Writing a sector of the right kind keeps a disk a disk, of the same size.
LEMMA WriteOk ==
  ASSUME NEW d, DiskOk(d), NEW l \in DOMAIN d, NEW s, SectorOk(s)
  PROVE  /\ DiskOk(Put(d, l, s)) /\ Capacity(Put(d, l, s)) = Capacity(d)
         /\ DOMAIN Put(d, l, s) = DOMAIN d /\ Put(d, l, s)[l] = s
         /\ \A k \in DOMAIN d : k # l => Put(d, l, s)[k] = d[k]
<1> DEFINE e == Put(d, l, s)
<1>1. /\ DOMAIN e = DOMAIN d /\ e = [k \in DOMAIN e |-> e[k]]
      /\ e[l] = s /\ \A k \in DOMAIN d : k # l => e[k] = d[k]
  BY DEF Put
<1> HIDE DEF e
<1>2. Capacity(e) = Capacity(d)
  BY <1>1 DEF Capacity
<1>3. DiskOk(e)
  BY <1>1, <1>2 DEF DiskOk
<1> QED
  BY <1>1, <1>2, <1>3 DEF e

\* A sector differs from itself in nothing.
LEMMA SameSelf == ASSUME NEW a, SectorOk(a) PROVE SameButBootFlags(a, a)
  BY DEF SectorOk, SameButBootFlags

\* try_patch_mbr changes the active flags alone.
LEMMA SameMbr ==
  ASSUME NEW a, SectorOk(a), a.kind = "mbr", NEW v
  PROVE  SectorOk([a EXCEPT !.active = v]) /\ SameButBootFlags(a, [a EXCEPT !.active = v])
  BY DEF SectorOk, SameButBootFlags

\* The entry written by try_patch_gpt has its attributes changed alone.
LEMMA SameEnt ==
  ASSUME NEW a, SectorOk(a), a.kind = "ent", NEW v
  PROVE  /\ SectorOk([a EXCEPT !.boot_attrs = v]) /\ SameButBootFlags(a, [a EXCEPT !.boot_attrs = v])
         /\ [a EXCEPT !.boot_attrs = v].kind = "ent"
  BY DEF SectorOk, SameButBootFlags

\* The header written by try_patch_gpt has its two checksums changed alone.
LEMMA SameGpt ==
  ASSUME NEW a, SectorOk(a), a.kind = "gpt", NEW p, NEW c
  PROVE  /\ SectorOk(Sealed(a, p, c)) /\ SameButBootFlags(a, Sealed(a, p, c))
         /\ Sealed(a, p, c).kind = "gpt" /\ Sealed(a, p, c).entry_lba = a.entry_lba
         /\ Sealed(a, p, c).size = a.size
         /\ Sealed(a, p, c).part_crc = p /\ Sealed(a, p, c).hdr_crc = c
<1> DEFINE g == Sealed(a, p, c)
<1>1. /\ g = [x \in DOMAIN a |-> IF x = "hdr_crc" THEN c ELSE IF x = "part_crc" THEN p ELSE a[x]]
  BY DEF SectorOk, Sealed
<1> HIDE DEF g
<1>2. g.part_crc = p /\ g.hdr_crc = c
  BY <1>1 DEF SectorOk
<1>3. g.kind = "gpt" /\ g.entry_lba = a.entry_lba /\ g.size = a.size
  BY <1>1 DEF SectorOk
<1>4. SectorOk(g)
  BY <1>1, <1>3 DEF SectorOk
<1>5. g = [a EXCEPT !.part_crc = g.part_crc, !.hdr_crc = g.hdr_crc]
  BY <1>1, <1>2 DEF SectorOk
<1>6. SameButBootFlags(a, g)
  BY <1>3, <1>5 DEF SameButBootFlags
<1> QED
  BY <1>2, <1>3, <1>4, <1>6 DEF g

\* The entries of the header are entries, as far as the disk reaches.
EntryOk(d) ==
  1 \in DOMAIN d /\ d[1].kind = "gpt" =>
    LET e == d[1].entry_lba
    IN  e \in Nat /\ e >= 2 /\ (e \in DOMAIN d => d[e].kind = "ent")

\* What separates a disk from the one the patch leaves.
OnlyPatched(d, r) ==
  /\ DiskOk(r) /\ Capacity(r) = Capacity(d) /\ DOMAIN r = DOMAIN d
  /\ \A l \in DOMAIN d :
       /\ SameButBootFlags(d[l], r[l]) /\ r[l].kind = d[l].kind
       /\ d[l].kind \notin {"mbr", "gpt", "ent"} => r[l] = d[l]
       /\ d[l].kind = "gpt" => r[l].entry_lba = d[l].entry_lba

LEMMA PatchedSelf == ASSUME NEW d, DiskOk(d) PROVE OnlyPatched(d, d)
  BY SameSelf DEF DiskOk, OnlyPatched

\* try_patch_mbr, whether its write fails or not.
LEMMA MbrOnlyPatched ==
  ASSUME NEW d, DiskOk(d), 0 \in DOMAIN d, NEW f, NEW r \in MbrPatched(d, f)
  PROVE  OnlyPatched(d, r)
<1> DEFINE m == [d[0] EXCEPT !.active = 1]
<1>1. CASE r = d
  BY <1>1, PatchedSelf
<1>2. CASE r # d
  <2>1. d[0].kind = "mbr" /\ r = Put(d, 0, m)
    BY <1>2 DEF MbrPatched, TornWrite, Put
  <2>2. SectorOk(d[0])
    BY DEF DiskOk
  <2>3. SectorOk(m) /\ SameButBootFlags(d[0], m)
    BY <2>1, <2>2, SameMbr
  <2>4. m.kind = "mbr"
    BY <2>1, <2>2 DEF SectorOk
  <2> HIDE DEF m
  <2>5. /\ DiskOk(r) /\ Capacity(r) = Capacity(d) /\ DOMAIN r = DOMAIN d
        /\ r[0] = m /\ \A k \in DOMAIN d : k # 0 => r[k] = d[k]
    BY <2>1, <2>3, WriteOk
  <2>6. \A k \in DOMAIN d : SameButBootFlags(d[k], d[k])
    BY SameSelf DEF DiskOk
  <2> QED
    BY <2>1, <2>3, <2>4, <2>5, <2>6 DEF OnlyPatched
<1> QED
  BY <1>1, <1>2

\* try_patch_gpt: where it stops, or how it ends.
LEMMA GptOnlyPatched ==
  ASSUME NEW d, DiskOk(d), EntryOk(d), 1 \in DOMAIN d, d[1].kind = "gpt",
         NEW f, NEW r \in GptPatched(d, f)
  PROVE  OnlyPatched(d, r)
<1> DEFINE e == d[1].entry_lba
           ent == [d[e] EXCEPT !.boot_attrs = TRUE]
           one == Put(d, e, ent)
           p == PartCrc(one, one[1])
           c == HeaderCrc([one[1] EXCEPT !.part_crc = p])
           g == Sealed(one[1], p, c)
<1>1. CASE r = d
  BY <1>1, PatchedSelf
<1>2. CASE r # d
  <2>1. e \in DOMAIN d /\ e \in Nat /\ e >= 2 /\ d[e].kind = "ent"
        /\ (r = one \/ r = SealHeader(one))
    BY <1>2 DEF GptPatched, EntryOk, Put
  <2>2. \A k \in DOMAIN d : SectorOk(d[k]) /\ SameButBootFlags(d[k], d[k])
    BY SameSelf DEF DiskOk
  <2>3. SectorOk(ent) /\ SameButBootFlags(d[e], ent) /\ ent.kind = "ent"
    BY <2>1, <2>2, SameEnt
  <2> HIDE DEF ent
  <2>4. /\ DiskOk(one) /\ Capacity(one) = Capacity(d) /\ DOMAIN one = DOMAIN d
        /\ one[e] = ent /\ \A k \in DOMAIN d : k # e => one[k] = d[k]
    BY <2>1, <2>3, WriteOk
  <2> HIDE DEF one
  <2>5. OnlyPatched(d, one)
    BY <2>1, <2>2, <2>3, <2>4 DEF OnlyPatched
  <2>6. one[1] = d[1] /\ SectorOk(one[1]) /\ one[1].kind = "gpt"
    BY <2>1, <2>2, <2>4
  <2>8. SealHeader(one) = Put(one, 1, g)
    BY DEF SealHeader, Sealed, Put
  <2> HIDE DEF p, c
  <2>7. SectorOk(g) /\ SameButBootFlags(one[1], g) /\ g.kind = "gpt" /\ g.entry_lba = e
    BY <2>6, SameGpt
  <2> HIDE DEF g
  <2>9. CASE r = SealHeader(one)
    <3>1. /\ DiskOk(r) /\ Capacity(r) = Capacity(d) /\ DOMAIN r = DOMAIN d
          /\ r[1] = g /\ \A k \in DOMAIN d : k # 1 => r[k] = one[k]
      <4>1. 1 \in DOMAIN one /\ r = Put(one, 1, g)
        BY <2>4, <2>8, <2>9
      <4> QED
        BY <4>1, <2>4, <2>7, WriteOk
    <3> QED
      BY <2>5, <2>6, <2>7, <3>1 DEF OnlyPatched
  <2> QED
    BY <2>1, <2>5, <2>9
<1> QED
  BY <1>1, <1>2

\* patch_install_target_boot changes boot flags and checksums, nothing else.
LEMMA PatchOnlyPatched ==
  ASSUME NEW d, DiskOk(d), EntryOk(d), NEW f, NEW r \in PatchOutcomes(d, f)
  PROVE  OnlyPatched(d, r)
<1>0. Capacity(d) \in Nat
  BY CapacityNat
<1>1. 1 \in DOMAIN d => 0 \in DOMAIN d
  BY <1>0 DEF DiskOk
<1> QED
  BY <1>1, PatchedSelf, MbrOnlyPatched, GptOnlyPatched DEF PatchOutcomes

-----------------------------------------------------------------------------
(***************************************************************************)
(* The invariant.  A disk keeps its shape; a running install has copied    *)
(* what lies before cur; the settings sector is copied as it was at some   *)
(* moment of the install, all of which held remembers.                     *)
(***************************************************************************)
Plain(s) == SectorOk(s) /\ s.kind \notin {"mbr", "gpt", "ent"}

DisksInv ==
  /\ DiskOk(src) /\ HeaderOk(src) /\ LastOk(src)
  /\ DiskOk(dst) /\ (Capacity(src) = 1 => HeaderOk(dst))
  /\ \A s \in held : Plain(s)

InstallType ==
  install \in [request : BOOLEAN, phase : {"Idle", "Running", "Done", "Failed"},
               cur : Nat, total : Nat]

\* Sector l of d is what the source holds there, or held there since the start.
CopiedAt(d, H, l) == (l # Last => d[l] = src[l]) /\ (l = Last => d[l] \in H)

RunningInv ==
  install.phase = "Running" =>
    /\ install.total = Overlap /\ install.total > 0 /\ install.cur <= install.total
    /\ src[Last] \in held
    /\ \A l \in 0 .. install.cur - 1 : CopiedAt(dst, held, l)

DoneInv ==
  install.phase = "Done" =>
    \A l \in 0 .. Overlap - 1 :
      /\ l # Last => SameButBootFlags(src[l], dst[l])
      /\ l = Last => dst[l] \in held

CloneInv ==
  /\ DisksInv /\ InstallType
  /\ install.request => install.phase = "Idle"
  /\ RunningInv /\ DoneInv

LEMMA CloneInit == Init => CloneInv
<1> SUFFICES ASSUME Init PROVE CloneInv
  OBVIOUS
<1>1. DisksInv
  BY MachinesAssumption DEF Init, DisksInv
<1>2. install = [request |-> FALSE, phase |-> "Idle", cur |-> 0, total |-> 0]
  BY DEF Init
<1> QED
  BY <1>1, <1>2 DEF CloneInv, InstallType, RunningInv, DoneInv

\* The invariant says what the tab promises.
LEMMA CloneGivesFaithful == CloneInv => CloneIsFaithful
  BY DEF CloneInv, DoneInv, CloneIsFaithful, Last, Overlap

-----------------------------------------------------------------------------
\* The sectors copied so far, when a frame goes on with S.
RunningWith(S, H) ==
  /\ S \in [request : BOOLEAN, phase : {"Running"}, cur : Nat, total : Nat] /\ ~S.request
  /\ S.total = Overlap /\ S.total > 0 /\ S.cur <= S.total
  /\ src[Last] \in H /\ (\A s \in H : Plain(s))
  /\ \A l \in 0 .. S.cur - 1 : CopiedAt(dst, H, l)

LEMMA Sizes ==
  ASSUME DisksInv
  PROVE  /\ Capacity(src) \in Nat /\ Capacity(dst) \in Nat /\ Overlap \in Nat
         /\ Overlap <= Capacity(src) /\ Overlap <= Capacity(dst)
         /\ Overlap = Capacity(src) \/ Overlap = Capacity(dst)
         /\ DOMAIN src = 0 .. Capacity(src) - 1 /\ DOMAIN dst = 0 .. Capacity(dst) - 1
<1>1. Capacity(src) \in Nat /\ Capacity(dst) \in Nat
  BY CapacityNat DEF DisksInv
<1> QED
  BY <1>1 DEF DisksInv, DiskOk, Overlap, Smaller

\* A running install goes on, or one asked for begins at sector 0.
LEMMA StartedRuns ==
  ASSUME CloneInv, Started.phase = "Running"
  PROVE  RunningWith(Started, HeldAtStart)
<1>1. /\ install \in [request : BOOLEAN, phase : {"Idle", "Running", "Done", "Failed"},
                      cur : Nat, total : Nat]
      /\ install.request => install.phase = "Idle"
      /\ DisksInv
  BY DEF CloneInv, InstallType
<1>2. CASE install.request
  <2>1. Started = [request |-> FALSE, phase |-> "Running", cur |-> 0, total |-> Overlap] /\ Overlap # 0
    BY <1>1, <1>2 DEF Started, Overlap
  <2>2. HeldAtStart = {src[Last]}
    BY <1>2, <2>1 DEF HeldAtStart, Last, SettingsLba
  <2>3. Plain(src[Last])
    BY <1>1, <2>1, Sizes DEF DisksInv, LastOk, DiskOk, Plain, Last
  <2> QED
    BY <1>1, <2>1, <2>2, <2>3, Sizes DEF RunningWith
<1>3. CASE ~install.request
  <2>1. Started = install /\ HeldAtStart = held
    BY <1>3 DEF Started, HeldAtStart
  <2> QED
    BY <1>1, <1>3, <2>1 DEF CloneInv, RunningInv, RunningWith, DisksInv
<1> QED
  BY <1>1, <1>2, <1>3

\* n more sectors copied.
LEMMA CopiedFacts ==
  ASSUME DisksInv, NEW S, NEW H, RunningWith(S, H), NEW n \in Nat, S.cur + n <= S.total
  PROVE  /\ DiskOk(Copied(S, n)) /\ DOMAIN Copied(S, n) = DOMAIN dst
         /\ Capacity(Copied(S, n)) = Capacity(dst)
         /\ \A l \in 0 .. S.cur + n - 1 : CopiedAt(Copied(S, n), H, l)
         /\ \A l \in DOMAIN dst : l >= S.total => Copied(S, n)[l] = dst[l]
<1> DEFINE d == Copied(S, n)
<1>1. /\ DOMAIN d = DOMAIN dst /\ d = [l \in DOMAIN d |-> d[l]]
      /\ \A l \in DOMAIN dst : d[l] = IF l \in S.cur .. S.cur + n - 1 THEN src[l] ELSE dst[l]
  BY DEF Copied
<1> HIDE DEF d
<1>2. /\ S.cur \in Nat /\ S.total = Overlap /\ S.cur <= S.total
      /\ src[Last] \in H /\ \A l \in 0 .. S.cur - 1 : CopiedAt(dst, H, l)
  BY DEF RunningWith
<1>3. Capacity(d) = Capacity(dst)
  BY <1>1 DEF Capacity
<1>4. \A l \in DOMAIN d : SectorOk(d[l])
  BY <1>1, <1>2, Sizes, SMTT(30) DEF DisksInv, DiskOk
<1>5. DiskOk(d)
  BY <1>1, <1>3, <1>4 DEF DisksInv, DiskOk
<1>6. ASSUME NEW l \in 0 .. S.cur + n - 1 PROVE CopiedAt(d, H, l)
  <2>1. l \in DOMAIN dst
    BY <1>2, Sizes
  <2>2. CASE l < S.cur
    BY <1>1, <1>2, <2>1, <2>2 DEF CopiedAt
  <2>3. CASE l >= S.cur
    BY <1>1, <1>2, <2>1, <2>3 DEF CopiedAt
  <2> QED
    BY <1>2, <2>2, <2>3
<1>7. \A l \in DOMAIN dst : l >= S.total => d[l] = dst[l]
  BY <1>1, <1>2, Sizes
<1> QED
  BY <1>1, <1>3, <1>5, <1>6, <1>7 DEF d

-----------------------------------------------------------------------------
\* One lemma for each action that touches a disk or the install state.

\* The disks are as before, and the install is not Running or Done unless it was.
LEMMA CloneQuiet ==
  ASSUME CloneInv, UNCHANGED <<src, dst, held>>, InstallType',
         install'.request => install'.phase = "Idle",
         install'.phase \in {"Running", "Done"} => install' = install
  PROVE  CloneInv'
<1>1. DisksInv'
  BY DEF CloneInv, DisksInv
<1>2. Overlap' = Overlap /\ Last' = Last
  BY DEF Overlap, Last
<1>3. RunningInv' /\ DoneInv'
  BY <1>2 DEF CloneInv, RunningInv, DoneInv, CopiedAt
<1> QED
  BY <1>1, <1>3 DEF CloneInv

LEMMA CloneBoot ==
  ASSUME CloneInv, NEW n \in 0 .. 2, NEW ok1 \in BOOLEAN, NEW ok2 \in BOOLEAN, NEW f \in BOOLEAN,
         Boot(n, ok1, ok2, f)
  PROVE  CloneInv'
<1>1. \E t \in Nat : install' = [request |-> FALSE, phase |-> "Idle", cur |-> 0, total |-> t]
  <2>1. Overlap \in Nat
    BY Sizes DEF CloneInv
  <2> QED
    BY <2>1 DEF Boot, Overlap
<1>2. UNCHANGED <<src, dst, held>>
  BY DEF Boot
<1> QED
  BY <1>1, <1>2, CloneQuiet DEF InstallType

LEMMA CloneClickInstall == ASSUME CloneInv, ClickInstall PROVE CloneInv'
<1>1. /\ install' = [request |-> TRUE, phase |-> "Idle", cur |-> install.cur, total |-> install.total]
      /\ install.cur \in Nat /\ install.total \in Nat
  BY DEF ClickInstall, CloneInv, InstallType
<1> QED
  BY <1>1, CloneQuiet DEF ClickInstall, InstallType

LEMMA CloneIdle == ASSUME CloneInv, InstallIdle PROVE CloneInv'
<1>1. /\ install \in [request : BOOLEAN, phase : {"Idle", "Running", "Done", "Failed"},
                      cur : Nat, total : Nat]
      /\ install.request => install.phase = "Idle"
  BY DEF CloneInv, InstallType
<1>2. CASE install' = install
  BY <1>1, <1>2, CloneQuiet DEF InstallIdle, InstallType
<1>3. CASE install' # install
  <2>1. install' = Started /\ Started.phase # "Running" /\ install.request /\ install.phase = "Idle"
    BY <1>1, <1>3 DEF InstallIdle, Started
  <2>2. install' = [request |-> FALSE, phase |-> "Failed", cur |-> install.cur, total |-> install.total]
    BY <1>1, <2>1 DEF Started
  <2>3. UNCHANGED <<src, dst, held>>
    BY DEF InstallIdle
  <2>4. InstallType' /\ ~install'.request /\ install'.phase = "Failed"
    BY <1>1, <2>2 DEF InstallType
  <2> QED
    BY <2>3, <2>4, CloneQuiet
<1> QED
  BY <1>2, <1>3

\* The target after some sectors were copied and before the patch.
LEMMA CloneCopies ==
  ASSUME CloneInv, NEW H, NEW S, RunningWith(S, H), NEW d, DiskOk(d), DOMAIN d = DOMAIN dst,
         \A l \in DOMAIN dst : l >= S.total => d[l] = dst[l],
         UNCHANGED src, dst' = d, held' = H
  PROVE  DisksInv' /\ Overlap' = Overlap /\ Last' = Last
<1>1. Capacity(d) = Capacity(dst)
  BY DEF Capacity
<1>2. Overlap' = Overlap /\ Last' = Last
  BY <1>1 DEF Overlap, Last
<1>3. ASSUME Capacity(src) = 1 PROVE HeaderOk(d)
  <2>1. S.total <= 1
    BY <1>3, Sizes DEF CloneInv, RunningWith
  <2>2. HeaderOk(dst) /\ DOMAIN dst = 0 .. Capacity(dst) - 1 /\ Capacity(dst) \in Nat
    BY <1>3, Sizes DEF CloneInv, DisksInv
  <2>3. \A l \in DOMAIN dst : l >= 1 => d[l] = dst[l]
    BY <2>1, <2>2 DEF RunningWith
  <2>4. EntrySectors \in Nat
    BY BoundsAssumption
  <2>5. ASSUME 1 \in DOMAIN d, d[1].kind = "gpt"
        PROVE  LET e == d[1].entry_lba
               IN  e \in Nat /\ e >= 2 /\ e + EntrySectors < Capacity(d) /\ d[e].kind = "ent"
    <3>1. d[1] = dst[1]
      BY <2>3, <2>5
    <3>2. LET e == dst[1].entry_lba
          IN  e \in Nat /\ e >= 2 /\ e + EntrySectors < Capacity(dst) /\ dst[e].kind = "ent"
      BY <2>2, <2>5, <3>1 DEF HeaderOk
    <3>3. dst[1].entry_lba \in DOMAIN dst
      BY <2>2, <2>4, <3>2
    <3> QED
      BY <1>1, <2>3, <3>1, <3>2, <3>3
  <2> QED
    BY <2>5 DEF HeaderOk
<1> QED
  BY <1>2, <1>3 DEF CloneInv, DisksInv, RunningWith

LEMMA CloneCopyChunk == ASSUME CloneInv, CopyChunk PROVE CloneInv'
<1> DEFINE S == Started
           H == HeldAtStart
           d == Copied(S, Chunk)
<1>1. RunningWith(S, H) /\ DisksInv
  BY StartedRuns DEF CopyChunk, CloneInv
<1>2. Chunk \in Nat /\ S.cur \in Nat /\ S.total \in Nat /\ S.cur + Chunk <= S.total
  BY <1>1, BoundsAssumption DEF CopyChunk, ChunkLen, Smaller, RunningWith
<1>3. /\ dst' = d /\ held' = H /\ UNCHANGED src
      /\ install' = [S EXCEPT !.cur = @ + Chunk]
  BY DEF CopyChunk, Advance
<1> HIDE DEF S, H
<1>4. /\ DiskOk(d) /\ DOMAIN d = DOMAIN dst
      /\ \A l \in 0 .. S.cur + Chunk - 1 : CopiedAt(d, H, l)
      /\ \A l \in DOMAIN dst : l >= S.total => d[l] = dst[l]
  BY <1>1, <1>2, CopiedFacts
<1> HIDE DEF d
<1>5. DisksInv' /\ Overlap' = Overlap /\ Last' = Last
  BY <1>1, <1>3, <1>4, CloneCopies
<1>6. install' = [request |-> FALSE, phase |-> "Running", cur |-> S.cur + Chunk, total |-> S.total]
  BY <1>1, <1>3 DEF RunningWith
<1>7. RunningInv'
  BY <1>1, <1>2, <1>3, <1>4, <1>5, <1>6 DEF RunningInv, RunningWith, CopiedAt
<1> QED
  BY <1>2, <1>5, <1>6, <1>7 DEF CloneInv, InstallType, DoneInv

LEMMA CloneCopyFault ==
  ASSUME CloneInv, NEW n \in 0 .. Chunk - 1, CopyFault(n) PROVE CloneInv'
<1> DEFINE S == Started
           H == HeldAtStart
           d == Copied(S, n)
           l == S.cur + n
<1>1. RunningWith(S, H) /\ DisksInv
  BY StartedRuns DEF CopyFault, CloneInv
<1>2. n \in Nat /\ S.cur \in Nat /\ S.total \in Nat /\ S.cur + n < S.total
  BY <1>1, BoundsAssumption DEF CopyFault, ChunkLen, Smaller, RunningWith
<1>3. /\ dst' = d \/ dst' = Put(d, l, src[l])
      /\ held' = H /\ UNCHANGED src
      /\ install' = [S EXCEPT !.cur = @ + n, !.phase = "Failed"]
  BY DEF CopyFault, TornWrite, AfterFault, Put
<1> HIDE DEF S, H
<1>4. /\ DiskOk(d) /\ DOMAIN d = DOMAIN dst
      /\ \A k \in DOMAIN dst : k >= S.total => d[k] = dst[k]
  BY <1>1, <1>2, CopiedFacts
<1> HIDE DEF d
<1>5. l \in DOMAIN d /\ SectorOk(src[l]) /\ l < S.total
  <2>1. S.total <= Capacity(src) /\ S.total <= Capacity(dst)
    BY <1>1, Sizes DEF RunningWith
  <2>2. l \in DOMAIN dst /\ l \in DOMAIN src /\ l < S.total
    BY <1>1, <1>2, <2>1, Sizes
  <2>3. \A k \in DOMAIN src : SectorOk(src[k])
    BY <1>1 DEF DisksInv, DiskOk
  <2> QED
    BY <1>4, <2>2, <2>3
<1> HIDE DEF l
<1>6. /\ DiskOk(Put(d, l, src[l])) /\ DOMAIN Put(d, l, src[l]) = DOMAIN dst
      /\ \A k \in DOMAIN dst : k # l => Put(d, l, src[l])[k] = d[k]
  BY <1>4, <1>5, WriteOk
<1>7. \A k \in DOMAIN dst : k >= S.total => Put(d, l, src[l])[k] = dst[k]
  BY <1>1, <1>2, <1>4, <1>5, <1>6, Sizes DEF l
<1>8. DisksInv'
  BY <1>1, <1>3, <1>4, <1>6, <1>7, CloneCopies
<1>9. install' = [request |-> FALSE, phase |-> "Failed", cur |-> S.cur + n, total |-> S.total]
  BY <1>1, <1>3 DEF RunningWith
<1> QED
  BY <1>2, <1>8, <1>9 DEF CloneInv, InstallType, DoneInv, RunningInv

\* The whole overlap is copied: the header of the target is one of the source,
\* whose entries were copied with it, or the target's own.
LEMMA FullCopyEntries ==
  ASSUME DisksInv, NEW S, NEW H, RunningWith(S, H), NEW d, DOMAIN d = DOMAIN dst,
         \A l \in 0 .. S.total - 1 : CopiedAt(d, H, l),
         \A l \in DOMAIN dst : l >= S.total => d[l] = dst[l]
  PROVE  EntryOk(d)
<1> SUFFICES ASSUME 1 \in DOMAIN d, d[1].kind = "gpt"
             PROVE  LET e == d[1].entry_lba
                    IN  e \in Nat /\ e >= 2 /\ (e \in DOMAIN d => d[e].kind = "ent")
  BY DEF EntryOk
<1>1. /\ S.total = Overlap /\ S.total > 0 /\ S.total \in Nat
      /\ \A s \in H : Plain(s)
  BY DEF RunningWith
<1>2. EntrySectors \in Nat /\ EntrySectors > 0
  BY BoundsAssumption
<1>3. CASE S.total >= 2
  <2>1. CopiedAt(d, H, 1)
    BY <1>1, <1>3
  <2>2. d[1] = src[1] /\ 1 \in DOMAIN src
    BY <1>1, <1>3, <2>1, Sizes DEF CopiedAt, Plain
  <2>3. LET e == src[1].entry_lba
        IN  e \in Nat /\ e >= 2 /\ e + EntrySectors < Capacity(src) /\ src[e].kind = "ent"
    BY <2>2 DEF DisksInv, HeaderOk
  <2> DEFINE e == src[1].entry_lba
  <2>4. ASSUME e \in DOMAIN d PROVE d[e] = src[e]
    <3>1. e \in 0 .. S.total - 1 /\ e # Last
      BY <1>1, <1>2, <2>3, <2>4, Sizes DEF Last
    <3> QED
      BY <3>1 DEF CopiedAt
  <2> QED
    BY <2>2, <2>3, <2>4
<1>4. CASE S.total = 1
  <2>1. Capacity(src) = 1 /\ DOMAIN dst = 0 .. Capacity(dst) - 1 /\ Capacity(dst) \in Nat
    BY <1>1, <1>4, Sizes
  <2>2. \A l \in DOMAIN dst : l >= 1 => d[l] = dst[l]
    BY <1>4
  <2>3. LET e == dst[1].entry_lba
        IN  e \in Nat /\ e >= 2 /\ e + EntrySectors < Capacity(dst) /\ dst[e].kind = "ent"
    BY <2>1, <2>2 DEF DisksInv, HeaderOk
  <2> QED
    BY <2>1, <2>2, <2>3
<1> QED
  BY <1>1, <1>3, <1>4

\* Patching a clone does not undo it.
LEMMA ClonePatched ==
  ASSUME DisksInv, NEW S, NEW H, RunningWith(S, H), NEW d, DiskOk(d), DOMAIN d = DOMAIN dst,
         \A l \in 0 .. S.total - 1 : CopiedAt(d, H, l), NEW r, OnlyPatched(d, r)
  PROVE  \A l \in 0 .. Overlap - 1 :
           /\ l # Last => SameButBootFlags(src[l], r[l])
           /\ l = Last => r[l] \in H
<1> SUFFICES ASSUME NEW l \in 0 .. Overlap - 1
             PROVE  (l # Last => SameButBootFlags(src[l], r[l])) /\ (l = Last => r[l] \in H)
  OBVIOUS
<1>1. l \in DOMAIN d /\ CopiedAt(d, H, l)
  BY Sizes DEF RunningWith
<1>2. SameButBootFlags(d[l], r[l]) /\ (d[l].kind \notin {"mbr", "gpt", "ent"} => r[l] = d[l])
  BY <1>1 DEF OnlyPatched
<1>3. \A s \in H : Plain(s)
  BY DEF RunningWith
<1> QED
  BY <1>1, <1>2, <1>3 DEF CopiedAt, Plain

LEMMA CloneCopyLast ==
  ASSUME CloneInv, NEW f \in BOOLEAN, CopyLast(f)
  PROVE  CloneInv' /\ Capacity(dst') = Capacity(dst)
<1> DEFINE S == Started
           H == HeldAtStart
           n == ChunkLen(S)
           d == Copied(S, n)
<1>1. RunningWith(S, H) /\ DisksInv
  BY StartedRuns DEF CopyLast, CloneInv
<1>2. n \in Nat /\ S.cur \in Nat /\ S.total \in Nat /\ S.cur + n = S.total
  BY <1>1, BoundsAssumption DEF CopyLast, ChunkLen, Smaller, RunningWith
<1>3. /\ dst' \in PatchOutcomes(d, f) /\ held' = H /\ UNCHANGED src
      /\ install' = [[S EXCEPT !.cur = @ + n] EXCEPT !.phase = "Done"]
  BY DEF CopyLast, Advance
<1> HIDE DEF S, H, n
<1>4. /\ DiskOk(d) /\ DOMAIN d = DOMAIN dst
      /\ \A l \in 0 .. S.total - 1 : CopiedAt(d, H, l)
      /\ \A l \in DOMAIN dst : l >= S.total => d[l] = dst[l]
  <2>1. S.cur + n <= S.total
    BY <1>2
  <2>2. /\ DiskOk(d) /\ DOMAIN d = DOMAIN dst
        /\ \A l \in 0 .. S.cur + n - 1 : CopiedAt(d, H, l)
        /\ \A l \in DOMAIN dst : l >= S.total => d[l] = dst[l]
    BY <1>1, <1>2, <2>1, CopiedFacts
  <2> QED
    BY <1>2, <2>2
<1> HIDE DEF d
<1>5. EntryOk(d)
  BY <1>1, <1>4, FullCopyEntries
<1>6. OnlyPatched(d, dst')
  BY <1>3, <1>4, <1>5, PatchOnlyPatched
<1>7. DisksInv' /\ Overlap' = Overlap /\ Last' = Last /\ Capacity(dst') = Capacity(dst)
  <2>1. DiskOk(dst') /\ DOMAIN dst' = DOMAIN dst /\ Capacity(dst') = Capacity(d)
    BY <1>4, <1>6 DEF OnlyPatched
  <2>2. Capacity(d) = Capacity(dst)
    BY <1>4 DEF Capacity
  <2>3. ASSUME Capacity(src) = 1 PROVE HeaderOk(dst')
    <3>1. HeaderOk(dst) /\ DOMAIN dst = 0 .. Capacity(dst) - 1 /\ Capacity(dst) \in Nat
          /\ S.total = 1
      BY <1>1, <2>3, Sizes DEF DisksInv, RunningWith
    <3>2. \A l \in DOMAIN dst : l >= 1 => d[l] = dst[l]
      BY <1>4, <3>1
    <3>3. \A l \in DOMAIN dst : l >= 1 =>
             /\ dst'[l].kind = dst[l].kind
             /\ dst[l].kind = "gpt" => dst'[l].entry_lba = dst[l].entry_lba
      BY <1>4, <1>6, <3>2 DEF OnlyPatched
    <3>4. EntrySectors \in Nat
      BY BoundsAssumption
    <3>5. ASSUME 1 \in DOMAIN dst, dst[1].kind = "gpt"
          PROVE  /\ dst'[1].entry_lba = dst[1].entry_lba
                 /\ dst[1].entry_lba \in DOMAIN dst /\ dst[1].entry_lba >= 1
      BY <3>1, <3>3, <3>4, <3>5 DEF HeaderOk
    <3> QED
      BY <2>1, <2>2, <3>1, <3>3, <3>5 DEF HeaderOk
  <2>4. Overlap' = Overlap /\ Last' = Last
    BY <1>3, <2>1, <2>2 DEF Overlap, Last
  <2> QED
    BY <1>1, <1>3, <2>1, <2>2, <2>3, <2>4 DEF DisksInv, RunningWith
<1>8. install' = [request |-> FALSE, phase |-> "Done", cur |-> S.cur + n, total |-> S.total]
  BY <1>1, <1>3 DEF RunningWith
<1>9. \A l \in 0 .. Overlap - 1 :
        /\ l # Last => SameButBootFlags(src[l], dst'[l])
        /\ l = Last => dst'[l] \in H
  BY <1>1, <1>4, <1>6, ClonePatched
<1>10. DoneInv'
  BY <1>3, <1>7, <1>9 DEF DoneInv
<1> QED
  BY <1>2, <1>7, <1>8, <1>10 DEF CloneInv, InstallType, RunningInv

-----------------------------------------------------------------------------
(***************************************************************************)
(* Saving.  A save was asked for where the row is live, the row is live    *)
(* where there is a disk, and the last save that reported success is in    *)
(* the last sector.                                                        *)
(***************************************************************************)
SaveInv ==
  /\ faults \in Nat
  /\ ui = [settings |-> ui.settings, save_requested |-> ui.save_requested]
  /\ SettingsOk(ui.settings)
  /\ boot.on_src \/ boot.blk_ready => Capacity(src) > 0
  /\ boot.caps => boot.on_src \/ boot.blk_ready
  /\ ui.save_requested => boot.caps
  /\ saved # None => Capacity(src) > 0 /\ src[Last] = saved /\ saved = Blob(saved.v) /\ SettingsOk(saved.v)

\* A blob is no partition table, and no blob is None.
LEMMA BlobFacts ==
  ASSUME NEW v, SettingsOk(v)
  PROVE  Plain(Blob(v)) /\ Blob(v).kind = "evs2" /\ Blob(v).v = v /\ Blob(v) # None
<1>1. Blob(v).kind = "evs2" /\ Blob(v).v = v
  BY DEF Blob
<1>2. None.kind = "none"
  BY DEF None
<1>3. SectorOk(Blob(v))
  BY <1>1 DEF SectorOk, Blob
<1> QED
  BY <1>1, <1>2, <1>3 DEF Plain

\* Decoding keeps the shape of the settings, gives back what a blob holds but for an
\* empty home URL, and never leaves one.
LEMMA DecodedFacts ==
  ASSUME NEW s, SectorOk(s)
  PROVE  /\ SettingsOk(Decoded(s)) /\ Decoded(s).home # "empty"
         /\ s.kind = "evs2" =>
              \/ Decoded(s) = s.v
              \/ s.v.home = "empty" /\ Decoded(s) = [s.v EXCEPT !.home = "default"]
<1>1. CASE s.kind = "evs2"
  <2> DEFINE v == s.v
  <2>1. v = [display |-> v.display, home |-> v.home, other |-> v.other]
    BY <1>1 DEF SectorOk, SettingsOk
  <2>2. Decoded(s) = [v EXCEPT !.home = IF v.home = "empty" THEN "default" ELSE v.home]
    BY <1>1 DEF Decoded, DefaultSettings
  <2> HIDE DEF v
  <2>3. CASE v.home = "empty"
    <3>1. Decoded(s) = [display |-> v.display, home |-> "default", other |-> v.other]
      BY <2>1, <2>2, <2>3
    <3>2. Decoded(s) = [v EXCEPT !.home = "default"]
      BY <2>2, <2>3
    <3>3. Decoded(s).home = "default"
      BY <3>1
    <3> QED
      BY <2>3, <3>1, <3>2, <3>3 DEF SettingsOk, v
  <2>4. CASE v.home # "empty"
    <3>1. Decoded(s) = v
      BY <2>1, <2>2, <2>4
    <3> QED
      BY <2>1, <2>4, <3>1 DEF SettingsOk, v
  <2> QED
    BY <2>3, <2>4
<1>2. CASE s.kind = "evs1"
  BY <1>2 DEF Decoded, DefaultSettings, SettingsOk
<1>3. CASE s.kind \notin {"evs1", "evs2"}
  BY <1>3 DEF Decoded, DefaultSettings, SettingsOk
<1> QED
  BY <1>1, <1>2, <1>3

\* The settings blob overwrites the last sector, which no partition table is in.
LEMMA SaveKeepsDisk ==
  ASSUME DisksInv, Capacity(src) > 0, NEW v, SettingsOk(v), src' = Put(src, Last, Blob(v))
  PROVE  /\ DiskOk(src') /\ HeaderOk(src') /\ LastOk(src') /\ Capacity(src') = Capacity(src)
         /\ DOMAIN src' = DOMAIN src /\ Last' = Last /\ src'[Last] = Blob(v) /\ Last \in DOMAIN src
         /\ \A l \in DOMAIN src : l # Last => src'[l] = src[l]
<1>1. Last \in DOMAIN src /\ Capacity(src) \in Nat /\ DOMAIN src = 0 .. Capacity(src) - 1
  BY Sizes DEF Last
<1>2. DiskOk(src) /\ SectorOk(Blob(v)) /\ Plain(Blob(v))
  BY BlobFacts DEF DisksInv, Plain
<1>3. /\ DiskOk(src') /\ Capacity(src') = Capacity(src) /\ DOMAIN src' = DOMAIN src
      /\ src'[Last] = Blob(v) /\ \A l \in DOMAIN src : l # Last => src'[l] = src[l]
  <2> DEFINE w == Put(src, Last, Blob(v))
  <2>1. /\ DiskOk(w) /\ Capacity(w) = Capacity(src) /\ DOMAIN w = DOMAIN src
        /\ w[Last] = Blob(v) /\ \A l \in DOMAIN src : l # Last => w[l] = src[l]
    <3>1. \A d, k, b : DiskOk(d) /\ k \in DOMAIN d /\ SectorOk(b) =>
             /\ DiskOk(Put(d, k, b)) /\ Capacity(Put(d, k, b)) = Capacity(d)
             /\ DOMAIN Put(d, k, b) = DOMAIN d /\ Put(d, k, b)[k] = b
             /\ \A l \in DOMAIN d : l # k => Put(d, k, b)[l] = d[l]
      BY WriteOk
    <3>2. DiskOk(src) /\ Last \in DOMAIN src /\ SectorOk(Blob(v))
      BY <1>1, <1>2
    <3> QED
      BY <3>1, <3>2
  <2>2. src' = w
    OBVIOUS
  <2> HIDE DEF w
  <2> QED
    BY <2>1, <2>2
<1>4. Last' = Last
  BY <1>3 DEF Last
<1>5. LastOk(src')
  BY <1>2, <1>3 DEF LastOk, Plain, Last
<1>6. ASSUME 1 \in DOMAIN src', src'[1].kind = "gpt"
      PROVE  LET e == src'[1].entry_lba
             IN  e \in Nat /\ e >= 2 /\ e + EntrySectors < Capacity(src') /\ src'[e].kind = "ent"
  <2>1. src'[1] = src[1]
    BY <1>2, <1>3, <1>6 DEF Plain
  <2>2. LET e == src[1].entry_lba
        IN  e \in Nat /\ e >= 2 /\ e + EntrySectors < Capacity(src) /\ src[e].kind = "ent"
    BY <1>3, <1>6, <2>1 DEF DisksInv, HeaderOk
  <2>3. src[1].entry_lba \in DOMAIN src /\ src[1].entry_lba # Last
    BY <1>1, <2>2, BoundsAssumption DEF Last
  <2> QED
    BY <1>3, <2>1, <2>2, <2>3
<1>7. HeaderOk(src')
  BY <1>6 DEF HeaderOk
<1> QED
  BY <1>1, <1>3, <1>4, <1>5, <1>7

\* What a save does to the source.
LEMMA SaveWrites ==
  ASSUME SaveInv, NEW f \in BOOLEAN, Save(f)
  PROVE  /\ src' = src \/ (SaveReaches /\ Capacity(src) > 0 /\ src' = Put(src, Last, Blob(ui.settings)))
         /\ \/ saved' = saved /\ src' = src
            \/ saved' = None
            \/ saved' = Blob(ui.settings) /\ src' = Put(src, Last, Blob(ui.settings)) /\ Capacity(src) > 0
<1> DEFINE w == Put(src, Last, Blob(ui.settings))
<1>1. [src EXCEPT ![SettingsLba(src)] = Blob(ui.settings)] = w
  BY DEF SettingsLba, Last, Put
<1>2. SaveReaches => Capacity(src) > 0
  BY DEF SaveReaches, SaveInv
<1>3. CASE ~SaveReaches
  BY <1>3 DEF Save
<1>4. CASE SaveReaches /\ f
  BY <1>1, <1>2, <1>4 DEF Save, TornWrite
<1>5. CASE SaveReaches /\ ~f
  BY <1>1, <1>2, <1>5 DEF Save
<1> QED
  BY <1>3, <1>4, <1>5

LEMMA CloneSave == ASSUME CloneInv, SaveInv, NEW f \in BOOLEAN, Save(f) PROVE CloneInv'
<1>1. UNCHANGED <<dst, install>>
  BY DEF Save
<1>2. DisksInv /\ InstallType
  BY DEF CloneInv
<1>3. held' = IF install.phase = "Running" THEN held \cup {src'[Last]} ELSE held
  BY DEF Save, SettingsLba, Last
<1>4. CASE src' = src
  <2>1. install.phase = "Running" => held' = held
    BY <1>3, <1>4 DEF CloneInv, RunningInv
  <2>2. held' = held
    BY <1>3, <2>1
  <2> QED
    BY <1>1, <1>2, <1>4, <2>2, CloneQuiet DEF CloneInv, InstallType
<1>5. CASE src' # src
  <2>1. Capacity(src) > 0 /\ src' = Put(src, Last, Blob(ui.settings))
    BY <1>5, SaveWrites
  <2>2. /\ DiskOk(src') /\ HeaderOk(src') /\ LastOk(src') /\ Capacity(src') = Capacity(src)
        /\ Last' = Last /\ src'[Last] = Blob(ui.settings)
        /\ \A l \in DOMAIN src : l # Last => src'[l] = src[l]
    BY <1>2, <2>1, SaveKeepsDisk DEF SaveInv
  <2>3. Overlap' = Overlap
    BY <1>1, <2>2 DEF Overlap
  <2>4. \A s \in held' : Plain(s)
    BY <1>2, <1>3, <2>2, BlobFacts DEF DisksInv, SaveInv
  <2>5. DisksInv'
    BY <1>1, <1>2, <2>2, <2>4 DEF DisksInv
  <2>6. held \subseteq held'
    BY <1>3
  <2>7. ASSUME install.phase = "Running" PROVE RunningInv'
    <3>1. /\ install.total = Overlap /\ install.total > 0 /\ install.cur <= install.total
          /\ install.cur \in Nat
          /\ \A l \in 0 .. install.cur - 1 : CopiedAt(dst, held, l)
      BY <1>2, <2>7 DEF CloneInv, RunningInv, InstallType
    <3>2. 0 .. install.cur - 1 \subseteq DOMAIN src
      BY <1>2, <3>1, Sizes
    <3>3. \A l \in 0 .. install.cur - 1 : CopiedAt(dst, held, l)'
      BY <1>1, <2>2, <2>6, <3>1, <3>2 DEF CopiedAt
    <3>4. src'[Last] \in held'
      BY <1>3, <2>7
    <3> QED
      BY <1>1, <2>2, <2>3, <3>1, <3>3, <3>4 DEF RunningInv
  <2>8. DoneInv'
    <3>1. 0 .. Overlap - 1 \subseteq DOMAIN src
      BY <1>2, Sizes
    <3> QED
      BY <1>1, <2>2, <2>3, <2>6, <3>1 DEF CloneInv, DoneInv
  <2>9. RunningInv'
    BY <1>1, <2>7 DEF RunningInv
  <2> QED
    BY <1>1, <1>2, <2>5, <2>8, <2>9 DEF CloneInv, InstallType
<1> QED
  BY <1>4, <1>5

LEMMA DefaultFacts == SettingsOk(DefaultSettings) /\ DefaultSettings.home # "empty"
  BY DEF SettingsOk, DefaultSettings

LEMMA SaveInit == Init => SaveInv
  BY DefaultFacts DEF Init, SaveInv

\* What load returns.
LEMMA LoadedFacts ==
  ASSUME DisksInv
  PROVE  /\ SettingsOk(Loaded(src)) /\ Loaded(src).home # "empty"
         /\ Capacity(src) > 0 => Loaded(src) = Decoded(src[Last]) /\ SectorOk(src[Last])
<1>1. CASE Capacity(src) = 0
  BY <1>1, DefaultFacts DEF Loaded
<1>2. CASE Capacity(src) # 0
  <2>1. Last \in DOMAIN src
    BY <1>2, Sizes DEF Last
  <2>2. SectorOk(src[Last])
    BY <2>1 DEF DisksInv, DiskOk
  <2>3. Loaded(src) = Decoded(src[Last])
    BY <1>2 DEF Loaded, SettingsLba, Last
  <2> QED
    BY <2>2, <2>3, DecodedFacts
<1> QED
  BY <1>1, <1>2

\* Booting resets the request and finds the disk again.
LEMMA SaveBoot ==
  ASSUME SaveInv, NEW n \in 0 .. 2, NEW ok1 \in BOOLEAN, NEW ok2 \in BOOLEAN, NEW f \in BOOLEAN,
         Boot(n, ok1, ok2, f), DisksInv
  PROVE  SaveInv'
<1> DEFINE usable == n >= 1 /\ ok1 /\ Capacity(src) >= 1
           pair == n >= 2 /\ ok1 /\ ok2
           v == IF usable /\ ~f THEN Loaded(src) ELSE DefaultSettings
<1>0. Capacity(src) \in Nat /\ SettingsOk(v)
  BY Sizes, LoadedFacts, DefaultFacts
<1>1. /\ boot' = [pair_ready |-> pair, on_src |-> n >= 2 /\ usable,
                  blk_ready |-> n = 1 /\ usable, src_written |-> pair, caps |-> usable]
      /\ ui' = [settings |-> v, save_requested |-> FALSE]
      /\ faults' = faults + (IF f THEN 1 ELSE 0) /\ UNCHANGED <<src, saved>>
  BY DEF Boot
<1>2. boot'.caps = usable /\ boot'.on_src = (n >= 2 /\ usable) /\ boot'.blk_ready = (n = 1 /\ usable)
  BY <1>1
<1>3. Last' = Last
  BY <1>1 DEF Last
<1>4. faults' \in Nat /\ ui' = [settings |-> ui'.settings, save_requested |-> ui'.save_requested]
      /\ ~ui'.save_requested /\ SettingsOk(ui'.settings)
  BY <1>0, <1>1 DEF SaveInv
<1>5. boot'.on_src \/ boot'.blk_ready => Capacity(src) > 0
  <2>1. ASSUME ~usable PROVE ~boot'.on_src /\ ~boot'.blk_ready
    BY <1>2, <2>1
  <2> QED
    BY <1>0, <2>1
<1>6. boot'.caps => boot'.on_src \/ boot'.blk_ready
  BY <1>2
<1>7. UNCHANGED <<src, saved>>
  BY <1>1
<1> QED
  BY <1>3, <1>4, <1>5, <1>6, <1>7 DEF SaveInv

LEMMA SaveSave ==
  ASSUME SaveInv, DisksInv, NEW f \in BOOLEAN, Save(f) PROVE SaveInv'
<1>1. faults' \in Nat
  BY DEF Save, SaveInv
<1>2. ui' = [settings |-> ui.settings, save_requested |-> FALSE]
  <2>1. ui' = [ui EXCEPT !.save_requested = FALSE]
    BY DEF Save
  <2>2. ui = [settings |-> ui.settings, save_requested |-> ui.save_requested]
    BY DEF SaveInv
  <2> QED
    BY <2>1, <2>2
<1>3. UNCHANGED boot
  BY DEF Save
<1>4. CASE src' = src
  <2>1. \/ saved' = saved \/ saved' = None
        \/ saved' = Blob(ui.settings) /\ src' = Put(src, Last, Blob(ui.settings)) /\ Capacity(src) > 0
    BY SaveWrites
  <2>2. saved' = Blob(ui.settings) /\ src' = Put(src, Last, Blob(ui.settings)) /\ Capacity(src) > 0
          => src'[Last] = Blob(ui.settings)
    BY SaveKeepsDisk DEF SaveInv
  <2> QED
    BY <1>1, <1>2, <1>3, <1>4, <2>1, <2>2, BlobFacts DEF SaveInv, Last
<1>5. CASE src' # src
  <2>1. /\ Capacity(src) > 0 /\ src' = Put(src, Last, Blob(ui.settings))
        /\ saved' = None \/ saved' = Blob(ui.settings)
    BY <1>5, SaveWrites
  <2>2. Capacity(src') = Capacity(src) /\ Last' = Last /\ src'[Last] = Blob(ui.settings)
    BY <2>1, SaveKeepsDisk DEF SaveInv
  <2> QED
    BY <1>1, <1>2, <1>3, <2>1, <2>2, BlobFacts DEF SaveInv
<1> QED
  BY <1>4, <1>5

\* Every step keeps both invariants.
LEMMA DiskStep == CloneInv /\ SaveInv /\ [Next]_vars => CloneInv' /\ SaveInv'
<1> SUFFICES ASSUME CloneInv, SaveInv, [Next]_vars PROVE CloneInv' /\ SaveInv'
  OBVIOUS
<1>q. ASSUME UNCHANGED <<src, dst, held, install>> PROVE CloneInv'
  BY <1>q, CloneQuiet DEF CloneInv, InstallType
<1>k. ASSUME UNCHANGED <<src, boot, ui, saved>>, faults' \in Nat PROVE SaveInv'
  BY <1>k DEF SaveInv, Last
<1>n. faults \in Nat
  BY DEF SaveInv
<1>0. CASE UNCHANGED vars
  BY <1>0, <1>q, <1>k, <1>n DEF vars
<1>1. CASE Start
  <2> PICK n \in 0 .. 2, ok1 \in BOOLEAN, ok2 \in BOOLEAN, f \in BOOLEAN : Boot(n, ok1, ok2, f)
    BY <1>1 DEF Start
  <2>1. DisksInv
    BY DEF CloneInv
  <2> QED
    BY <2>1, CloneBoot, SaveBoot
<1>2. CASE PowerOff
  BY <1>2, <1>q, <1>k, <1>n DEF PowerOff
<1>3. CASE Click
  <2>1. CASE NoClick
    BY <2>1, <1>q, <1>k, <1>n DEF NoClick
  <2>2. CASE ClickInstall
    BY <2>2, <1>k, <1>n, CloneClickInstall DEF ClickInstall
  <2>3. CASE ClickSave
    <3>1. CloneInv'
      BY <2>3, <1>q DEF ClickSave
    <3>2. ui' = [settings |-> ui.settings, save_requested |-> TRUE]
      BY <2>3 DEF ClickSave, SaveInv
    <3>3. UNCHANGED <<src, boot, saved, faults>> /\ boot.caps
      BY <2>3 DEF ClickSave
    <3> QED
      BY <3>1, <3>2, <3>3 DEF SaveInv, Last
  <2>4. ASSUME NEW v \in SettingsVals, ClickSetting(v) PROVE CloneInv' /\ SaveInv'
    <3>1. CloneInv'
      BY <2>4, <1>q DEF ClickSetting
    <3>2. ui' = [settings |-> v, save_requested |-> ui.save_requested]
      BY <2>4 DEF ClickSetting, SaveInv
    <3>4. SettingsOk(v)
      BY SettingsAssumption
    <3>3. UNCHANGED <<src, boot, saved, faults>>
      BY <2>4 DEF ClickSetting
    <3> QED
      BY <3>1, <3>2, <3>3, <3>4 DEF SaveInv, Last
  <2> QED
    BY <1>3, <2>1, <2>2, <2>3, <2>4 DEF Click
<1>4. CASE InstallStep
  <2>1. UNCHANGED <<src, boot, ui, saved>> /\ faults' \in Nat
    BY <1>4, <1>n DEF InstallStep, InstallIdle, CopyChunk, CopyLast, CopyFault
  <2> QED
    BY <1>4, <2>1, <1>k, CloneIdle, CloneCopyChunk, CloneCopyLast, CloneCopyFault DEF InstallStep
<1>5. CASE SaveStep
  <2>1. CASE SaveIdle
    BY <2>1, <1>q, <1>k, <1>n DEF SaveIdle
  <2>2. ASSUME NEW f \in BOOLEAN, Save(f) PROVE CloneInv' /\ SaveInv'
    BY <2>2, CloneSave, SaveSave DEF CloneInv
  <2> QED
    BY <1>5, <2>1, <2>2 DEF SaveStep
<1> QED
  BY <1>0, <1>1, <1>2, <1>3, <1>4, <1>5 DEF Next

\* Whatever failed, was interrupted or saved on the way, a target the INSTALL tab
\* calls DONE has every sector of the overlap as the source has it, but for the
\* boot flags and for settings saved while the copy ran.
THEOREM CloneFaithful == Spec => []CloneIsFaithful
<1>1. Init => CloneInv /\ SaveInv
  BY CloneInit, SaveInit
<1> QED
  BY <1>1, DiskStep, CloneGivesFaithful, PTL DEF Spec

\* The SAVE SETTINGS row writes what it shows wherever it is live, but on the
\* machine with a second disk that failed; what a save that reported success wrote
\* is what the next boot loads, with the built-in home URL for one saved empty; and
\* no boot is without a home URL.
THEOREM SettingsAreKept == Spec => SettingsKept
<1>1. Init => CloneInv /\ SaveInv
  BY CloneInit, SaveInit
<1>2. ASSUME SaveInv, [Next]_vars, loop = "save", loop' = "input", ui.save_requested, faults' = faults
      PROVE  saved' = Blob(ui.settings) \/ (boot.on_src /\ ~boot.src_written)
  <2>1. PICK f \in BOOLEAN : Save(f)
    BY <1>2 DEF Next, vars, Start, Boot, PowerOff, Click, NoClick, ClickInstall, ClickSave, ClickSetting,
                InstallStep, InstallIdle, CopyChunk, CopyLast, CopyFault, SaveStep, SaveIdle
  <2>2. ~f
    BY <1>2, <2>1 DEF Save, SaveInv
  <2>3. SaveReaches \/ (boot.on_src /\ ~boot.src_written)
    BY <1>2 DEF SaveInv, SaveReaches
  <2> QED
    BY <2>1, <2>2, <2>3 DEF Save
<1>3. ASSUME CloneInv, SaveInv, [Next]_vars, loop = "off", loop' = "input"
      PROVE  /\ ui'.settings.home # "empty"
             /\ boot'.caps /\ faults' = faults /\ saved # None
                  => \/ ui'.settings = saved.v
                     \/ saved.v.home = "empty" /\ ui'.settings = [saved.v EXCEPT !.home = "default"]
  <2>0. DisksInv
    BY <1>3 DEF CloneInv
  <2>1. PICK n \in 0 .. 2, ok1 \in BOOLEAN, ok2 \in BOOLEAN, f \in BOOLEAN : Boot(n, ok1, ok2, f)
    BY <1>3 DEF Next, vars, Start, PowerOff, Click, NoClick, ClickInstall, ClickSave, ClickSetting,
                InstallStep, InstallIdle, CopyChunk, CopyLast, CopyFault, SaveStep, SaveIdle, Save
  <2>2. ui'.settings = Loaded(src) \/ ui'.settings = DefaultSettings
    BY <2>1 DEF Boot
  <2>3. ui'.settings.home # "empty"
    BY <2>0, <2>2, LoadedFacts, DefaultFacts
  <2>4. ASSUME boot'.caps, faults' = faults, saved # None
        PROVE  \/ ui'.settings = saved.v
               \/ saved.v.home = "empty" /\ ui'.settings = [saved.v EXCEPT !.home = "default"]
    <3>1. ~f
      BY <1>3, <2>1, <2>4 DEF Boot, SaveInv
    <3>2. ui'.settings = Loaded(src)
      BY <2>1, <2>4, <3>1 DEF Boot
    <3>3. Capacity(src) > 0 /\ src[Last] = saved /\ saved.kind = "evs2"
      BY <1>3, <2>4, BlobFacts DEF SaveInv
    <3>4. Loaded(src) = Decoded(saved) /\ SectorOk(saved)
      BY <2>0, <3>3, LoadedFacts
    <3> QED
      BY <3>2, <3>3, <3>4, DecodedFacts
  <2> QED
    BY <2>3, <2>4
<1>4. CloneInv /\ SaveInv /\ [Next]_vars =>
        /\ loop = "save" /\ loop' = "input" /\ ui.save_requested /\ faults' = faults
             => saved' = Blob(ui.settings) \/ (boot.on_src /\ ~boot.src_written)
        /\ loop = "off" /\ loop' = "input"
             => /\ ui'.settings.home # "empty"
                /\ boot'.caps /\ faults' = faults /\ saved # None
                     => \/ ui'.settings = saved.v
                        \/ /\ saved.v.home = "empty"
                           /\ ui'.settings = [saved.v EXCEPT !.home = "default"]
  BY <1>2, <1>3
<1> QED
  BY <1>1, <1>4, DiskStep, PTL DEF Spec, SettingsKept, SaveRowSaves, SavedSettingsSurvive

-----------------------------------------------------------------------------
(***************************************************************************)
(* The checksums of the clone.                                             *)
(***************************************************************************)
NoLong(disk) == \A l \in DOMAIN disk : disk[l].kind = "gpt" => disk[l].size # "long"

\* Two disks that agree on the header and on the entries have the same checksums.
LEMMA GptAgree ==
  ASSUME NEW a, NEW b, GptOk(a), 1 \in DOMAIN b, b[1] = a[1],
         \A l \in EntryRange(a[1]) : b[l] = a[l]
  PROVE  GptOk(b)
<1>1. PartCrc(b, b[1]) = PartCrc(a, a[1])
  BY DEF PartCrc
<1> QED
  BY <1>1 DEF GptOk

\* Where the entries lie.
LEMMA EntriesInside ==
  ASSUME NEW d, DiskOk(d), HeaderOk(d), 1 \in DOMAIN d, d[1].kind = "gpt"
  PROVE  /\ \A l \in EntryRange(d[1]) : l \in Int /\ l >= 2 /\ l < Capacity(d) - 1
         /\ d[1].entry_lba \in EntryRange(d[1]) /\ d[1].entry_lba \in DOMAIN d
         /\ d[1].entry_lba >= 2 /\ d[d[1].entry_lba].kind = "ent"
         /\ EntryRange(d[1]) \subseteq DOMAIN d
<1>1. Capacity(d) \in Nat
  BY CapacityNat
<1>2. /\ d[1].entry_lba \in Nat /\ d[1].entry_lba >= 2
      /\ d[1].entry_lba + EntrySectors < Capacity(d) /\ d[d[1].entry_lba].kind = "ent"
  BY DEF HeaderOk
<1>3. EntrySectors \in Nat /\ EntrySectors > 0
  BY BoundsAssumption
<1> QED
  BY <1>1, <1>2, <1>3 DEF EntryRange, DiskOk

\* try_patch_gpt, when nothing fails inside it and the header is short, leaves a
\* header whose two checksums are those of what is on the disk.
LEMMA PatchSeals ==
  ASSUME NEW d, DiskOk(d), HeaderOk(d), GptOk(d), d[1].size # "long", NEW r \in PatchOutcomes(d, FALSE)
  PROVE  GptOk(r)
<1>0. 1 \in DOMAIN d /\ d[1].kind = "gpt" /\ r \in GptPatched(d, FALSE)
  BY DEF GptOk, PatchOutcomes
<1> DEFINE e == d[1].entry_lba
           ent == [d[e] EXCEPT !.boot_attrs = TRUE]
           one == Put(d, e, ent)
           p == PartCrc(one, one[1])
           c == HeaderCrc([one[1] EXCEPT !.part_crc = p])
           g == Sealed(one[1], p, c)
<1>1. /\ \A l \in EntryRange(d[1]) : l \in Int /\ l >= 2
      /\ e \in DOMAIN d /\ e >= 2 /\ d[e].kind = "ent" /\ EntryRange(d[1]) \subseteq DOMAIN d
  BY <1>0, EntriesInside
<1>2. CASE r = d
  BY <1>2
<1>3. CASE r # d
  <2>1. r = SealHeader(one)
    BY <1>0, <1>1, <1>3 DEF GptPatched, Put
  <2>2. SealHeader(one) = Put(one, 1, g)
    BY DEF SealHeader, Sealed, Put
  <2>3. SectorOk(d[1]) /\ SectorOk(d[e])
    BY <1>0, <1>1 DEF DiskOk
  <2>4. SectorOk(ent)
    BY <1>1, <2>3, SameEnt
  <2> HIDE DEF ent
  <2>5. /\ DiskOk(one) /\ DOMAIN one = DOMAIN d
        /\ \A k \in DOMAIN d : k # e => one[k] = d[k]
    BY <1>1, <2>4, WriteOk
  <2>6. one[1] = d[1]
    BY <1>0, <1>1, <2>5
  <2> HIDE DEF one
  <2>7. HeaderCrc([one[1] EXCEPT !.part_crc = p])
          = [entry_lba |-> e, size |-> d[1].size, part_crc |-> p]
    BY <1>0, <2>3, <2>6 DEF HeaderCrc, SectorOk
  <2> HIDE DEF p
  <2>8. c = [entry_lba |-> e, size |-> d[1].size, part_crc |-> p]
    BY <2>7
  <2> HIDE DEF c
  <2>9. SectorOk(g) /\ g.kind = "gpt" /\ g.entry_lba = e /\ g.size = d[1].size
        /\ g.part_crc = p /\ g.hdr_crc = c
    BY <1>0, <2>3, <2>6, SameGpt
  <2> HIDE DEF g
  <2>10. /\ DOMAIN r = DOMAIN d /\ r[1] = g
         /\ \A k \in DOMAIN d : k # 1 => r[k] = one[k]
    BY <1>0, <2>1, <2>2, <2>5, <2>9, WriteOk
  <2>11. EntryRange(r[1]) = EntryRange(d[1]) /\ EntryRange(one[1]) = EntryRange(d[1])
    BY <2>6, <2>9, <2>10 DEF EntryRange
  <2>12. PartCrc(r, r[1]) = p
    <3>1. \A l \in EntryRange(d[1]) : r[l] = one[l]
      BY <1>1, <2>10
    <3> QED
      BY <2>11, <3>1 DEF PartCrc, p
  <2>13. HeaderCrc(r[1]) = c
    BY <2>8, <2>9, <2>10 DEF HeaderCrc
  <2> QED
    BY <1>0, <2>9, <2>10, <2>12, <2>13 DEF GptOk
<1> QED
  BY <1>2, <1>3

LEMMA GptCopyLast ==
  ASSUME CloneInv, faults \in Nat, NEW f \in BOOLEAN, CopyLast(f), faults' = 0, NoLong(src),
         Capacity(dst) >= Capacity(src), GptOk(src)
  PROVE  GptOk(dst')
<1> DEFINE S == Started
           H == HeldAtStart
           n == ChunkLen(S)
           d == Copied(S, n)
<1>1. RunningWith(S, H) /\ DisksInv
  BY StartedRuns DEF CopyLast, CloneInv
<1>2. n \in Nat /\ S.cur \in Nat /\ S.total \in Nat /\ S.cur + n = S.total
  BY <1>1, BoundsAssumption DEF CopyLast, ChunkLen, Smaller, RunningWith
<1>3. dst' \in PatchOutcomes(d, FALSE)
  <2>1. faults' = faults + (IF f THEN 1 ELSE 0) /\ dst' \in PatchOutcomes(d, f)
    BY DEF CopyLast
  <2>2. f = FALSE
    BY <2>1
  <2> QED
    BY <2>1, <2>2
<1> HIDE DEF S, H, n
<1>4. S.cur + n <= S.total
  BY <1>2
<1>5. /\ DiskOk(d) /\ DOMAIN d = DOMAIN dst /\ Capacity(d) = Capacity(dst)
      /\ \A l \in 0 .. S.cur + n - 1 : CopiedAt(d, H, l)
  BY <1>1, <1>2, <1>4, CopiedFacts
<1> HIDE DEF d
<1>6. Capacity(src) \in Nat /\ Capacity(dst) \in Nat /\ S.total = Capacity(src)
      /\ DOMAIN src = 0 .. Capacity(src) - 1 /\ DOMAIN dst = 0 .. Capacity(dst) - 1
  BY <1>1, Sizes DEF RunningWith, Overlap, Smaller
<1>7. \A l \in 0 .. Capacity(src) - 2 : d[l] = src[l]
  BY <1>2, <1>5, <1>6, SMTT(30) DEF CopiedAt, Last
<1>8. 1 \in DOMAIN src /\ src[1].kind = "gpt" /\ DiskOk(src) /\ HeaderOk(src)
  BY <1>1 DEF GptOk, DisksInv
<1>9. /\ \A l \in EntryRange(src[1]) : l \in Int /\ l >= 2 /\ l < Capacity(src) - 1
      /\ src[1].entry_lba \in EntryRange(src[1])
  BY <1>8, EntriesInside
<1>10. d[1] = src[1] /\ 1 \in DOMAIN d /\ \A l \in EntryRange(src[1]) : d[l] = src[l]
  BY <1>5, <1>6, <1>7, <1>8, <1>9
<1>11. GptOk(d)
  BY <1>10, GptAgree
<1>12. HeaderOk(d)
  <2>1. /\ src[1].entry_lba \in Nat /\ src[1].entry_lba >= 2
        /\ src[1].entry_lba + EntrySectors < Capacity(src) /\ src[src[1].entry_lba].kind = "ent"
    BY <1>8 DEF HeaderOk
  <2>2. d[src[1].entry_lba] = src[src[1].entry_lba]
    BY <1>9, <1>10
  <2>3. src[1].entry_lba + EntrySectors < Capacity(d)
    BY <1>5, <1>6, <2>1, BoundsAssumption
  <2> QED
    BY <1>10, <2>1, <2>2, <2>3 DEF HeaderOk
<1>13. d[1].size # "long"
  BY <1>8, <1>10 DEF NoLong
<1> QED
  BY <1>3, <1>5, <1>11, <1>12, <1>13, PatchSeals

\* Saving settings changes nothing the checksums are over.
LEMMA GptSave ==
  ASSUME DisksInv, SaveInv, NEW f \in BOOLEAN, Save(f), NoLong(src'), GptOk(src')
  PROVE  NoLong(src) /\ GptOk(src) /\ Capacity(src') = Capacity(src)
<1>1. CASE src' = src
  BY <1>1
<1>2. CASE src' # src
  <2>1. Capacity(src) > 0 /\ src' = Put(src, Last, Blob(ui.settings))
    BY <1>2, SaveWrites
  <2>2. /\ DiskOk(src') /\ HeaderOk(src') /\ Capacity(src') = Capacity(src) /\ DOMAIN src' = DOMAIN src
        /\ src'[Last] = Blob(ui.settings)
        /\ \A l \in DOMAIN src : l # Last => src'[l] = src[l]
    BY <2>1, SaveKeepsDisk DEF SaveInv
  <2>3. LastOk(src)
    BY DEF DisksInv
  <2>4. NoLong(src)
    BY <2>1, <2>2, <2>3 DEF NoLong, LastOk, Last
  <2>5. 1 \in DOMAIN src' /\ src'[1].kind = "gpt" /\ 1 # Last
    BY <2>2, BlobFacts DEF GptOk, SaveInv
  <2>6. \A l \in EntryRange(src'[1]) : l # Last /\ l \in DOMAIN src
    BY <2>2, <2>5, EntriesInside DEF Last
  <2>7. GptOk(src)
    BY <2>2, <2>5, <2>6, GptAgree
  <2> QED
    BY <2>2, <2>4, <2>7
<1> QED
  BY <1>1, <1>2

LEMMA GptStep ==
  CloneInv /\ SaveInv /\ CleanCloneHasValidGpt /\ [Next]_vars => CleanCloneHasValidGpt'
<1> SUFFICES ASSUME CloneInv, SaveInv, CleanCloneHasValidGpt, [Next]_vars,
                    faults' = 0, NoLong(src'), install'.phase = "Done",
                    Capacity(dst') >= Capacity(src'), GptOk(src')
             PROVE  GptOk(dst')
  BY DEF CleanCloneHasValidGpt, CloneHasValidGpt, NoLong
<1>n. faults \in Nat /\ DisksInv /\ install \in [request : BOOLEAN, phase : {"Idle", "Running", "Done", "Failed"},
                                           cur : Nat, total : Nat]
  BY DEF SaveInv, CloneInv, InstallType
<1>q. ASSUME UNCHANGED <<src, dst>>, install.phase = "Done", faults' = faults PROVE GptOk(dst')
  BY <1>q DEF CleanCloneHasValidGpt, CloneHasValidGpt, NoLong
<1>0. CASE UNCHANGED vars
  BY <1>0, <1>q DEF vars
<1>1. CASE Start
  BY <1>1 DEF Start, Boot
<1>2. CASE PowerOff
  BY <1>2, <1>q DEF PowerOff
<1>3. CASE Click
  <2>1. UNCHANGED <<src, dst, faults>>
    BY <1>3 DEF Click, NoClick, ClickInstall, ClickSave, ClickSetting
  <2>2. install'.phase = install.phase
    BY <1>3, <1>n DEF Click, NoClick, ClickInstall, ClickSave, ClickSetting
  <2> QED
    BY <2>1, <2>2, <1>q
<1>4. CASE InstallIdle
  BY <1>4, <1>n, <1>q DEF InstallIdle, Started
<1>5. CASE CopyChunk
  <2>1. RunningWith(Started, HeldAtStart)
    BY <1>5, StartedRuns DEF CopyChunk
  <2> QED
    BY <1>5, <2>1 DEF CopyChunk, Advance, RunningWith
<1>6. ASSUME NEW f \in BOOLEAN, CopyLast(f) PROVE GptOk(dst')
  <2>1. UNCHANGED src
    BY <1>6 DEF CopyLast
  <2>2. Capacity(dst') = Capacity(dst)
    BY <1>6, CloneCopyLast
  <2> QED
    BY <1>6, <1>n, <2>1, <2>2, GptCopyLast
<1>7. ASSUME NEW n \in 0 .. Chunk - 1, CopyFault(n) PROVE GptOk(dst')
  BY <1>7, <1>n DEF CopyFault
<1>8. CASE SaveIdle
  BY <1>8, <1>q DEF SaveIdle
<1>9. ASSUME NEW f \in BOOLEAN, Save(f) PROVE GptOk(dst')
  <2>1. UNCHANGED <<dst, install>> /\ faults = 0
    BY <1>9, <1>n DEF Save
  <2>2. NoLong(src) /\ GptOk(src) /\ Capacity(src') = Capacity(src)
    BY <1>9, <1>n, GptSave
  <2> QED
    BY <2>1, <2>2 DEF CleanCloneHasValidGpt, CloneHasValidGpt, NoLong
<1> QED
  BY <1>0, <1>1, <1>2, <1>3, <1>4, <1>5, <1>6, <1>7, <1>8, <1>9 DEF Next, InstallStep, SaveStep

\* While no sector operation fails and the GPT header is not a long one, a clone
\* of a disk whose GPT checks has a GPT that checks.
THEOREM CleanGpt == Spec => []CleanCloneHasValidGpt
<1>1. Init => CloneInv /\ SaveInv /\ CleanCloneHasValidGpt
  BY CloneInit, SaveInit DEF Init, CleanCloneHasValidGpt, CloneHasValidGpt
<1> QED
  BY <1>1, DiskStep, GptStep, PTL DEF Spec
=============================================================================
