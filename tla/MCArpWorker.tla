---------------------------- MODULE MCArpWorker ----------------------------
(* An instance of ArpWorker with two messages that alternate. Going from   *)
(* the first to the second, t1 stays poisoned, t2 leaves, the router is    *)
(* replaced by another at its address and full duplex begins; going back,  *)
(* t1 stays again and the gateway's entry for it is left behind. g2 is     *)
(* named as a target of the second, and refused: it is the gateway.        *)
EXTENDS ArpWorker

CONSTANTS t1, t2, g1, g2

Addresses == [h \in Host |-> CASE h = t1 -> 1 [] h = t2 -> 2 [] OTHER -> 3]

Messages ==
    { [gateway |-> g1, targets |-> {t1, t2}, fullDuplex |-> FALSE],
      [gateway |-> g2, targets |-> {t1, g2}, fullDuplex |-> TRUE] }
=============================================================================
