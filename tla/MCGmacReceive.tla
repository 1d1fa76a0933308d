--------------------------- MODULE MCGmacReceive ---------------------------
(* A small instance of GmacReceive for TLC. *)
EXTENDS GmacReceive

CONSTANTS f1, bad, torn, nothing

\* The contents of a descriptor that is the engine's, the frame copied last and
\* the link status read last are not read again.
View ==
  <<rx_own, [i \in RxSlot |-> IF rx_own[i] THEN Nothing ELSE rx_buffer[i]], rx_index, rx_engine,
    rx_handler, rx_mails, erx,
    IF erx \in {"recycle", "advance"} THEN p ELSE Nothing,
    link_up, link_changed, link_status, phy, netif_up, erx = "set" /\ link, cut>>
=============================================================================
