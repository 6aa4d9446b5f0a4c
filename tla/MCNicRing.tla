---------------------------- MODULE MCNicRing ----------------------------
(* One machine for every NIC alone, one with none, and those in which a    *)
(* device that cannot be used comes before one that can.                   *)
EXTENDS NicRing

With(bad, n) == [k \in Kinds |-> IF k = n THEN "ok" ELSE IF k \in DOMAIN bad THEN bad[k] ELSE "absent"]

MCMachines ==
    {With(<<>>, n) : n \in Kinds}
    \cup {With([k \in {"virtio"} |-> "nobar"], "e1000"),
          With([k \in {"virtio", "vmxnet3"} |-> "dead"], "pcnet"),
          With([k \in {"rtl8139"} |-> "dead"], "rtl8168"),
          With([k \in {"pcnet"} |-> "dead"], "bge")}
===========================================================================
