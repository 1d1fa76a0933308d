---------------------------- MODULE GmacReceive ----------------------------
(***************************************************************************)
(* Reception of the Ethernet driver: the ring of receive descriptors that  *)
(* the DMA engine fills and rk3576_gmac_dma_receive empties, the interrupt *)
(* that reports frames, the erx thread of ethernetif.c, and the PHY thread *)
(* that reports the link over the same mailbox.  The engine is external:   *)
(* it fills the descriptor it is at when that is its own, gives it back,   *)
(* raises RI, and goes on to the next; without a descriptor it raises RBU  *)
(* and halts until the tail pointer is written.                            *)
(***************************************************************************)
EXTENDS Integers, Sequences, FiniteSets

CONSTANTS Good,     \* frames that arrive whole
          Bad,      \* a frame the engine marks with DESC3_RX_ERROR
          Torn,     \* the contents of a buffer while the engine writes it
          Nothing,  \* no frame
          RxCount,  \* GMAC_RX_DESC_COUNT
          RxSize,   \* RT_LWIP_ETHTHREAD_MBOX_SIZE
          Faults    \* what may happen beside frames: "alloc" (pbuf_alloc fails),
                    \* "close" (the device is closed)

ASSUME GmacReceiveAssumption ==
  /\ RxCount \in Nat \ {0} /\ RxSize \in Nat \ {0}
  /\ Bad \notin Good /\ {Torn, Nothing} \cap (Good \cup {Bad}) = {}

VARIABLES rx_own,      \* DESC3_OWN of every descriptor
          rx_buffer,   \* the frame in every buffer
          rx_index,    \* gmac->rx_index
          rx_dma, rx_current, \* the engine: what it does, and at which descriptor
          dma_status,  \* DMA_CH0_STATUS
          enabled,     \* DMA_CH0_INT_ENABLE
          isr,         \* the interrupt handler: where it is, and the status it read
          rx_notice,   \* dev->rx_notice
          rx_mails,    \* entries of eth_rx_thread_mb; all are the device
          erx,         \* where the erx thread is
          p,           \* the frame it has copied
          link_up,     \* gmac->link_up
          link_changed, link_status, \* of the eth_device
          phy,         \* where the PHY thread is
          netif_up,    \* the link flag of the netif
          link,        \* the status the erx thread has read
          taken,       \* history: the frame taken from the ring last
          cut          \* history: the last drain stopped at a frame that was dropped

rx_ring    == <<rx_own, rx_buffer, rx_index>>
rx_engine  == <<rx_dma, rx_current, dma_status, enabled>>
rx_handler == <<isr, rx_notice>>
history    == <<taken, cut>>
links      == <<link_up, link_changed, link_status, phy, netif_up, link>>
rx_vars    == <<rx_own, rx_buffer, rx_index, rx_dma, rx_current, dma_status, enabled, isr,
                rx_notice, rx_mails, erx, p, link_up, link_changed, link_status, phy, netif_up,
                link, taken, cut>>

RxSlot  == 0 .. RxCount - 1
RxFrame == Good \cup {Bad}
IsrIdle  == [at |-> "idle", read |-> {}]

\* gmac_init_dma_memory and rk3576_gmac_dma_start
RxInit ==
  /\ rx_own = [i \in RxSlot |-> TRUE] /\ rx_buffer = [i \in RxSlot |-> Nothing] /\ rx_index = 0
  /\ rx_dma = "run" /\ rx_current = 0 /\ dma_status = {} /\ enabled = TRUE
  /\ isr = IsrIdle /\ rx_notice = FALSE /\ rx_mails = 0
  /\ erx = "recv" /\ p = Nothing
  /\ link_up = FALSE /\ link_changed = FALSE /\ link_status = FALSE
  /\ phy = "poll" /\ netif_up = FALSE /\ link = FALSE
  /\ taken = Nothing /\ cut = FALSE

RxNextSlot(i) == (i + 1) % RxCount

\* rt_mb_send: a full mailbox refuses the mail.
Mailed == IF rx_mails < RxSize THEN rx_mails + 1 ELSE rx_mails

-----------------------------------------------------------------------------
(* The DMA engine *)

RxDmaFetch ==
  /\ rx_dma = "run"
  /\ IF rx_own[rx_current]
     THEN /\ rx_dma' = "write"
          /\ rx_buffer' = [rx_buffer EXCEPT ![rx_current] = Torn]
          /\ UNCHANGED dma_status
     ELSE /\ rx_dma' = "halt"
          /\ dma_status' = dma_status \cup {"RBU"}
          /\ UNCHANGED rx_buffer
  /\ UNCHANGED <<rx_own, rx_index, rx_current, enabled, rx_handler, rx_mails, erx, p, links,
                 history>>

RxDmaClose(f) ==
  /\ rx_dma = "write"
  /\ rx_buffer' = [rx_buffer EXCEPT ![rx_current] = f]
  /\ rx_own' = [rx_own EXCEPT ![rx_current] = FALSE]
  /\ rx_dma' = "raise"
  /\ rx_current' = RxNextSlot(rx_current)
  /\ UNCHANGED <<rx_index, dma_status, enabled, rx_handler, rx_mails, erx, p, links, history>>

\* The engine stops behind a frame if it was told to since it began it, which is
\* only after the interrupts were disabled (RxStop).
DmaRaise ==
  /\ rx_dma = "raise"
  /\ dma_status' = dma_status \cup {"RI"}
  /\ rx_dma' \in {"run"} \cup (IF enabled THEN {} ELSE {"stop"})
  /\ UNCHANGED <<rx_ring, rx_current, enabled, rx_handler, rx_mails, erx, p, links, history>>

-----------------------------------------------------------------------------
(* gmac_isr; threads wait while it runs, the engine does not *)

IsrRead ==
  /\ isr.at = "idle" /\ enabled /\ dma_status # {}
  /\ isr' = [at |-> "ack", read |-> dma_status]
  /\ UNCHANGED <<rx_ring, rx_engine, rx_notice, rx_mails, erx, p, links, history>>

\* Writing the bits back clears them, also those raised again since; then
\* eth_device_ready.
IsrAck ==
  /\ isr.at = "ack"
  /\ dma_status' = dma_status \ isr.read
  /\ isr' = IsrIdle
  /\ rx_notice' = TRUE
  /\ rx_mails' = IF rx_notice THEN rx_mails ELSE Mailed
  /\ cut' = FALSE
  /\ UNCHANGED <<rx_ring, rx_dma, rx_current, enabled, erx, p, links, taken>>

-----------------------------------------------------------------------------
(* eth_rx_thread_entry *)

ErxAt(where) == isr.at = "idle" /\ erx = where

Recv ==
  /\ ErxAt("recv") /\ rx_mails > 0
  /\ rx_mails' = rx_mails - 1
  /\ erx' = "link"
  /\ UNCHANGED <<rx_ring, rx_engine, rx_handler, p, links, history>>

\* link_changed is tested before interrupts are disabled.
TestLink ==
  /\ ErxAt("link")
  /\ erx' = IF link_changed THEN "status" ELSE "notice"
  /\ UNCHANGED <<rx_ring, rx_engine, rx_handler, rx_mails, p, links, history>>

ReadLink ==
  /\ ErxAt("status")
  /\ link' = link_status
  /\ link_changed' = FALSE
  /\ erx' = "set"
  /\ UNCHANGED <<rx_ring, rx_engine, rx_handler, rx_mails, p, link_up, link_status, phy,
                 netif_up, history>>

SetLink ==
  /\ ErxAt("set")
  /\ netif_up' = link
  /\ erx' = "notice"
  /\ UNCHANGED <<rx_ring, rx_engine, rx_handler, rx_mails, p, link_up, link_changed, link_status,
                 phy, link, history>>

\* The notice stays set while frames are received.
ClearNotice_kept ==
  /\ ErxAt("notice")
  /\ erx' = "look"
  /\ UNCHANGED <<rx_ring, rx_engine, rx_handler, rx_mails, p, links, history>>

ClearNotice ==
  /\ ErxAt("notice")
  /\ rx_notice' = FALSE
  /\ erx' = "look"
  /\ UNCHANGED <<rx_ring, rx_engine, isr, rx_mails, p, links, history>>

\* The descriptor is given back before its frame is copied.
Look_recycles ==
  /\ ErxAt("look")
  /\ erx' = IF rx_own[rx_index] THEN "recv" ELSE "copy"
  /\ rx_own' = [rx_own EXCEPT ![rx_index] = TRUE]
  /\ UNCHANGED <<rx_buffer, rx_index, rx_engine, rx_handler, rx_mails, p, links, history>>

\* rk3576_gmac_dma_receive: the descriptor is looked at, ...
Look ==
  /\ ErxAt("look")
  /\ erx' = IF rx_own[rx_index] THEN "recv" ELSE "copy"
  /\ UNCHANGED <<rx_ring, rx_engine, rx_handler, rx_mails, p, links, history>>

\* ... its frame is copied unless it is bad or there is no pbuf, ...
RxCopy ==
  /\ ErxAt("copy")
  /\ \/ p' = rx_buffer[rx_index]
     \/ p' = Nothing /\ (rx_buffer[rx_index] = Bad \/ "alloc" \in Faults)
  /\ p' # Bad
  /\ taken' = rx_buffer[rx_index]
  /\ erx' = "recycle"
  /\ UNCHANGED <<rx_ring, rx_engine, rx_handler, rx_mails, links, cut>>

\* ... the descriptor is given back to the engine, ...
Recycle ==
  /\ ErxAt("recycle")
  /\ rx_own' = [rx_own EXCEPT ![rx_index] = TRUE]
  /\ erx' = "advance"
  /\ UNCHANGED <<rx_buffer, rx_index, rx_engine, rx_handler, rx_mails, p, links, history>>

\* The engine is not told.
RxWriteTail_missing == rx_dma

\* Writing the tail pointer sets a halted engine going again.
RxWriteTail == IF rx_dma = "halt" THEN "run" ELSE rx_dma

\* A frame that was dropped is looked at again.
RxFollowing_dropped == IF p = Nothing THEN rx_index ELSE RxNextSlot(rx_index)

RxFollowing == RxNextSlot(rx_index)

\* ... and the tail pointer follows rx_index.  A dropped frame ends the loop.
RxAdvance ==
  /\ ErxAt("advance")
  /\ rx_index' = RxFollowing
  /\ rx_dma' = RxWriteTail
  /\ erx' = IF p # Nothing THEN "look" ELSE "recv"
  /\ cut' = (p = Nothing)
  /\ UNCHANGED <<rx_own, rx_buffer, rx_current, dma_status, enabled, rx_handler, rx_mails, p,
                 links, taken>>

ErxStep ==
  \/ Recv \/ TestLink \/ ReadLink \/ SetLink \/ ClearNotice
  \/ Look \/ RxCopy \/ Recycle \/ RxAdvance

-----------------------------------------------------------------------------
(* gmac_phy_thread and eth_device_linkchange *)

PhyAt(where) == isr.at = "idle" /\ phy = where

RxPhyPoll(up) ==
  /\ PhyAt("poll")
  /\ up # link_up
  /\ link_up' = up
  /\ phy' = "change"
  /\ UNCHANGED <<rx_ring, rx_engine, rx_handler, rx_mails, erx, p, link_changed, link_status,
                 netif_up, link, history>>

PhyChange ==
  /\ PhyAt("change")
  /\ link_changed' = TRUE
  /\ link_status' = link_up
  /\ phy' = "send"
  /\ UNCHANGED <<rx_ring, rx_engine, rx_handler, rx_mails, erx, p, link_up, netif_up, link,
                 history>>

\* No mail is sent while the device has one of its own on the way.
PhySend_quiet ==
  /\ PhyAt("send")
  /\ rx_mails' = IF rx_notice THEN rx_mails ELSE Mailed
  /\ phy' = "poll"
  /\ UNCHANGED <<rx_ring, rx_engine, rx_handler, erx, p, link_up, link_changed, link_status,
                 netif_up, link, history>>

PhySend ==
  /\ PhyAt("send")
  /\ rx_mails' = Mailed
  /\ phy' = "poll"
  /\ UNCHANGED <<rx_ring, rx_engine, rx_handler, erx, p, link_up, link_changed, link_status,
                 netif_up, link, history>>

-----------------------------------------------------------------------------
\* gmac_device_close; gmac_device_open does nothing. The interrupts are disabled,
\* at the MAC and then at the interrupt controller, where nothing is left to mask.
RxClose ==
  /\ "close" \in Faults
  /\ isr.at = "idle" /\ enabled
  /\ enabled' = FALSE
  /\ UNCHANGED <<rx_ring, rx_dma, rx_current, dma_status, rx_handler, rx_mails, erx, p, links,
                 history>>

\* The engine is stopped in a later step, between two frames.
RxStop ==
  /\ ~enabled
  /\ rx_dma \in {"run", "halt"}
  /\ rx_dma' = "stop"
  /\ UNCHANGED <<rx_ring, rx_current, dma_status, enabled, rx_handler, rx_mails, erx, p, links,
                 history>>

Engine == RxDmaFetch \/ DmaRaise \/ \E f \in RxFrame : RxDmaClose(f)

RxHandler == IsrRead \/ IsrAck

Phy == PhyChange \/ PhySend \/ \E up \in BOOLEAN : RxPhyPoll(up)

RxNext == Engine \/ RxHandler \/ ErxStep \/ Phy \/ RxClose \/ RxStop

RxSpec == RxInit /\ [][RxNext]_rx_vars

\* Interrupts are served and threads get the processor; the PHY thread finishes
\* what it has begun, but no frame needs to come and no link needs to change.
RxFairness ==
  /\ WF_rx_vars(RxHandler)
  /\ SF_rx_vars(ErxStep)
  /\ SF_rx_vars(PhyChange \/ PhySend)
  /\ WF_rx_vars(DmaRaise)

RxFairSpec == RxSpec /\ RxFairness

-----------------------------------------------------------------------------
(* Properties *)

\* The drain loop runs, or a mail or an interrupt will start it.
OnTheWay ==
  \/ erx # "recv" \/ rx_mails > 0
  \/ isr.at # "idle" \/ dma_status # {} \/ rx_dma = "raise"

\* No frame stays in the ring unnoticed, whatever the interrupt handler clears
\* and however frames arrive while the ring is drained; the one exception is a
\* drain that ended at a frame it dropped.  And rx_notice, which keeps the
\* handler from sending a mail, is set only while a mail is on the way.
Noticed ==
  /\ enabled /\ ~rx_own[rx_index] => OnTheWay \/ cut
  /\ rx_notice => rx_mails > 0 \/ erx \in {"link", "status", "set", "notice"}

\* "receive all of buffer", as the loop of the erx thread says, without that
\* exception.
AllReceived == enabled /\ ~rx_own[rx_index] => OnTheWay

\* The engine does not stay halted when it has a descriptor: every one that is
\* given back while it is halted is followed by a write of the tail pointer.
EngineGoesOn == rx_dma = "halt" /\ erx # "advance" => \A i \in RxSlot : ~rx_own[i]

\* When the mailbox is empty and the erx thread past its link test, the netif
\* knows the link, although mails may be refused and the flag is tested unlocked.
LinkKnown ==
  phy = "poll" /\ rx_mails = 0 /\ erx \notin {"link", "status", "set"} => netif_up = link_up

\* Every frame is taken from the ring, unless a drain was cut short.
Drained == \A i \in RxSlot : ~rx_own[i] ~> rx_own[i] \/ cut \/ ~enabled

\* The frames in the ring that were not taken yet, the oldest first.
Waiting ==
  LET past == IF erx \in {"recycle", "advance"} THEN 1 ELSE 0
      full == Cardinality({i \in RxSlot : ~rx_own[i]}) - (IF erx = "recycle" THEN 1 ELSE 0)
  IN  [j \in 1 .. full |-> rx_buffer[(rx_index + past + j - 1) % RxCount]]

\* The descriptors are a queue that nothing but the engine's frames enter and
\* nothing but rk3576_gmac_dma_receive empties: frames leave it whole, in the
\* order in which they arrived, none twice and none skipped, with no lock
\* between the driver and the engine.
RxFifo == INSTANCE BoundedFifo
          WITH Message <- RxFrame, Capacity <- RxCount, queue <- Waiting, got <- taken

RxImplementsFifo ==
  RxFifo!Init /\ [][RxFifo!Get \/ \E f \in RxFrame : RxFifo!Put(f)]_<<Waiting, taken>>
=============================================================================
