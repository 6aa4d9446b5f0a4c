----------------------------- MODULE MCNetStack -----------------------------
(* Small instances of NetStack for TLC.                                    *)
EXTENDS NetStack

MCStaticAddrs == {"lan"}
MCStaticTag   == [a \in MCStaticAddrs |-> 2]

(* Two of these triples share a fingerprint.                               *)
IpStaticAddrs == {"lan", "zero", "twin1", "twin2"}
IpStaticTag   == [a \in IpStaticAddrs |-> CASE a = "lan" -> 2 [] a = "zero" -> 3 [] OTHER -> 4]
=============================================================================
