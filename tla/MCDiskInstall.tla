--------------------------- MODULE MCDiskInstall ----------------------------
(* Instances of DiskInstall for TLC: small disks of every layout the code tells apart. *)
EXTENDS DiskInstall, Sequences, TLC

\* A disk from the sequence of its sectors, LBA 0 first.
DiskOf(s) == [l \in 0 .. Len(s) - 1 |-> s[l + 1]]

Data(d) == [kind |-> "data", data |-> d]
Mbr(protective) == [kind |-> "mbr", protective |-> protective, active |-> 0]
Ent(used, attrs) == [kind |-> "ent", used |-> used, boot_attrs |-> attrs]
Blank(n) == DiskOf([i \in 1 .. n |-> Data(0)])

\* A GPT disk with a valid primary header over two sectors of entries.
Gpt(size, used, attrs, last) ==
  LET entries == (2 :> Ent(used, attrs)) @@ (3 :> Ent(FALSE, FALSE))
      h == [kind |-> "gpt", size |-> size, entry_lba |-> 2, part_crc |-> entries]
      sealed == h @@ [hdr_crc |-> HeaderCrc(h)]
  IN  DiskOf(<<Mbr(TRUE), sealed, entries[2], entries[3], last>>)

Backup == [kind |-> "backup"]

\* The defaults, and settings all changed, the home URL deleted.
Changed == [display |-> 1, home |-> "empty", other |-> 1]
MCSettings == {DefaultSettings, Changed}

\* Blobs of an earlier boot: of the present version, and of the one that kept only
\* the display fields.
OldBlob == [kind |-> "evs1", display |-> 1]
NewBlob == Blob(Changed)

\* Layouts the patch accepts or leaves alone, onto targets larger, smaller and empty.
MCMachines ==
  { [src |-> s, dst |-> d] :
      s \in { Gpt("short", TRUE, FALSE, Data(1)), Gpt("short", TRUE, TRUE, Backup),
              Gpt("short", FALSE, FALSE, Data(1)), Gpt("invalid", TRUE, FALSE, Data(1)),
              Gpt("long", TRUE, FALSE, Backup),
              DiskOf(<<Mbr(FALSE), Data(1), Data(2)>>), DiskOf(<<Mbr(TRUE), Data(1), Data(2)>>),
              DiskOf(<<Mbr(FALSE), OldBlob>>), DiskOf(<<NewBlob>>), Blank(0) },
      d \in { Blank(6), Blank(3), Blank(0) } }

MCShortHeader == { [src |-> Gpt("short", TRUE, FALSE, Backup), dst |-> Blank(5)] }
=============================================================================
