---------------------------- MODULE GmacTransmit ---------------------------
(***************************************************************************)
(* Transmission of the Ethernet driver: threads hand frames to the etx     *)
(* thread of ethernetif.c by mail and wait for its acknowledgement; it     *)
(* copies each frame into the ring of transmit descriptors, gives the      *)
(* descriptor to the DMA engine and polls for it with a limit of a second. *)
(* The engine is external: it sends the frame of the descriptor it is at   *)
(* when that is its own, gives it back and goes on to the next, and halts  *)
(* otherwise until the tail pointer is written.                            *)
(***************************************************************************)
EXTENDS Integers, Sequences, FiniteSets, SequencesExt

CONSTANTS Sender,    \* threads that call ethernetif_linkoutput
          NoSender,  \* none of them
          TxFrame,   \* frames
          Big,       \* those longer than GMAC_DMA_BUFFER_SIZE
          NoFrame,   \* no frame
          TxCount,   \* GMAC_TX_DESC_COUNT
          TxSize     \* RT_LWIP_ETHTHREAD_MBOX_SIZE

ASSUME GmacTransmitAssumption ==
  /\ TxCount \in Nat \ {0} /\ TxSize \in Nat \ {0}
  /\ Big \subseteq TxFrame /\ NoFrame \notin TxFrame /\ NoSender \notin Sender

VARIABLES sender_at,   \* where each sender is in ethernetif_linkoutput
          buf,         \* the frame of its message, which lives on its stack
          ack,         \* the message's completion
          tx_mails,    \* eth_tx_thread_mb: the senders whose messages are posted
          etx, msg,    \* where the etx thread is, and whose message it handles
          tx_own,      \* DESC3_OWN of every descriptor
          tx_buffer,   \* the frame in every buffer
          tx_index,    \* gmac->tx_index
          tx_dma, tx_current, \* the engine: what it does, and at which descriptor
          tx_link_up,  \* gmac->link_up
          wire,        \* history: the frame sent last
          late         \* history: a transmit gave up a descriptor it had handed over

senders   == <<sender_at, buf, ack>>
tx_ring   == <<tx_own, tx_buffer, tx_index>>
tx_engine == <<tx_dma, tx_current, wire>>
tx_vars   == <<sender_at, buf, ack, tx_mails, etx, msg, tx_own, tx_buffer, tx_index, tx_dma,
               tx_current, tx_link_up, wire, late>>

TxSlot == 0 .. TxCount - 1

\* gmac_init_dma_memory and rk3576_gmac_dma_start
TxInit ==
  /\ sender_at = [s \in Sender |-> "idle"]
  /\ buf = [s \in Sender |-> NoFrame] /\ ack = [s \in Sender |-> FALSE]
  /\ tx_mails = <<>> /\ etx = "recv" /\ msg = NoSender
  /\ tx_own = [i \in TxSlot |-> FALSE] /\ tx_buffer = [i \in TxSlot |-> NoFrame] /\ tx_index = 0
  /\ tx_dma = "run" /\ tx_current = 0
  /\ tx_link_up = FALSE /\ wire = NoFrame /\ late = FALSE

TxNextSlot(i) == (i + 1) % TxCount

-----------------------------------------------------------------------------
(* ethernetif_linkoutput *)

\* A mail that a full mailbox refuses takes the frame with it: the call returns
\* ERR_OK without waiting.
Output(s, f) ==
  /\ sender_at[s] = "idle"
  /\ IF Len(tx_mails) < TxSize
     THEN /\ tx_mails' = Append(tx_mails, s)
          /\ sender_at' = [sender_at EXCEPT ![s] = "posted"]
          /\ buf' = [buf EXCEPT ![s] = f]
          /\ ack' = [ack EXCEPT ![s] = FALSE]
     ELSE UNCHANGED <<tx_mails, senders>>
  /\ UNCHANGED <<etx, msg, tx_ring, tx_engine, tx_link_up, late>>

\* The wait is limited, as in rt_completion_wait(&msg.ack, 0).
Wait_limited(s) ==
  /\ sender_at[s] = "posted"
  /\ sender_at' = [sender_at EXCEPT ![s] = "idle"]
  /\ UNCHANGED <<buf, ack, tx_mails, etx, msg, tx_ring, tx_engine, tx_link_up, late>>

\* rt_completion_wait
Wait(s) ==
  /\ sender_at[s] = "posted"
  /\ sender_at' = [sender_at EXCEPT ![s] = IF ack[s] THEN "idle" ELSE "waiting"]
  /\ UNCHANGED <<buf, ack, tx_mails, etx, msg, tx_ring, tx_engine, tx_link_up, late>>

-----------------------------------------------------------------------------
(* eth_tx_thread_entry and rk3576_gmac_dma_transmit *)

RecvMail ==
  /\ etx = "recv" /\ tx_mails # <<>>
  /\ msg' = Head(tx_mails) /\ tx_mails' = Tail(tx_mails)
  /\ etx' = "test"
  /\ UNCHANGED <<senders, tx_ring, tx_engine, tx_link_up, late>>

\* tx_lock is taken here and released on every return: it is always free, since
\* only the etx thread transmits, so the wait for it and its time-out are left out.
Test ==
  /\ etx = "test"
  /\ etx' = IF buf[msg] \in Big \/ ~tx_link_up THEN "ack" ELSE "free"
  /\ UNCHANGED <<senders, tx_mails, msg, tx_ring, tx_engine, tx_link_up, late>>

\* The descriptor is not waited for.
WaitFree_unchecked ==
  /\ etx = "free"
  /\ etx' = "copy"
  /\ UNCHANGED <<senders, tx_mails, msg, tx_ring, tx_engine, tx_link_up, late>>

\* The descriptor is polled until it is the driver's or a second is over.
WaitFree ==
  /\ etx = "free"
  /\ \/ ~tx_own[tx_index] /\ etx' = "copy"
     \/ tx_own[tx_index] /\ etx' = "ack"
  /\ UNCHANGED <<senders, tx_mails, msg, tx_ring, tx_engine, tx_link_up, late>>

TxCopy ==
  /\ etx = "copy"
  /\ tx_buffer' = [tx_buffer EXCEPT ![tx_index] = buf[msg]]
  /\ etx' = "own"
  /\ UNCHANGED <<senders, tx_mails, msg, tx_own, tx_index, tx_engine, tx_link_up, late>>

HandOver ==
  /\ etx = "own"
  /\ tx_own' = [tx_own EXCEPT ![tx_index] = TRUE]
  /\ etx' = "tail"
  /\ UNCHANGED <<senders, tx_mails, msg, tx_buffer, tx_index, tx_engine, tx_link_up, late>>

TxWriteTail ==
  /\ etx = "tail"
  /\ tx_dma' = IF tx_dma = "halt" THEN "run" ELSE tx_dma
  /\ etx' = "wait"
  /\ UNCHANGED <<senders, tx_mails, msg, tx_ring, tx_current, wire, tx_link_up, late>>

\* A transmit is over once the frame is handed over.
WaitSent_unchecked ==
  /\ etx = "wait"
  /\ etx' = "advance"
  /\ UNCHANGED <<senders, tx_mails, msg, tx_ring, tx_engine, tx_link_up, late>>

WaitSent ==
  /\ etx = "wait"
  /\ \/ ~tx_own[tx_index] /\ etx' = "advance" /\ UNCHANGED late
     \/ tx_own[tx_index] /\ etx' = "ack" /\ late' = TRUE
  /\ UNCHANGED <<senders, tx_mails, msg, tx_ring, tx_engine, tx_link_up>>

\* The ring is taken to have one descriptor more.
TxFollowing_over == IF tx_index = TxCount - 1 THEN tx_index ELSE tx_index + 1

TxFollowing == TxNextSlot(tx_index)

TxAdvance ==
  /\ etx = "advance"
  /\ tx_index' = TxFollowing
  /\ etx' = "ack"
  /\ UNCHANGED <<senders, tx_mails, msg, tx_own, tx_buffer, tx_engine, tx_link_up, late>>

\* Only a sender that waits already is told.
Complete_waiting ==
  /\ ack' = [ack EXCEPT ![msg] = sender_at[msg] = "waiting"]
  /\ sender_at' = [sender_at EXCEPT ![msg] = IF @ = "waiting" THEN "idle" ELSE @]

\* rt_completion_done
Complete ==
  /\ ack' = [ack EXCEPT ![msg] = TRUE]
  /\ sender_at' = [sender_at EXCEPT ![msg] = IF @ = "waiting" THEN "idle" ELSE @]

Acknowledge ==
  /\ etx = "ack"
  /\ Complete
  /\ msg' = NoSender
  /\ etx' = "recv"
  /\ UNCHANGED <<buf, tx_mails, tx_ring, tx_engine, tx_link_up, late>>

EtxStep ==
  \/ RecvMail \/ Test \/ WaitFree \/ TxCopy \/ HandOver \/ TxWriteTail
  \/ WaitSent \/ TxAdvance \/ Acknowledge

-----------------------------------------------------------------------------
(* The DMA engine, the PHY thread and gmac_device_close *)

TxDmaFetch ==
  /\ tx_dma = "run"
  /\ tx_dma' = IF tx_own[tx_current] THEN "send" ELSE "halt"
  /\ UNCHANGED <<senders, tx_mails, etx, msg, tx_ring, tx_current, tx_link_up, wire, late>>

TxDmaClose ==
  /\ tx_dma = "send"
  /\ wire' = tx_buffer[tx_current]
  /\ tx_own' = [tx_own EXCEPT ![tx_current] = FALSE]
  /\ tx_current' = TxNextSlot(tx_current)
  /\ tx_dma' = "run"
  /\ UNCHANGED <<senders, tx_mails, etx, msg, tx_buffer, tx_index, tx_link_up, late>>

TxPhyPoll ==
  /\ tx_link_up' = ~tx_link_up
  /\ UNCHANGED <<senders, tx_mails, etx, msg, tx_ring, tx_engine, late>>

\* The engine stops between two frames.
TxClose ==
  /\ tx_dma \in {"run", "halt"}
  /\ tx_dma' = "stop"
  /\ UNCHANGED <<senders, tx_mails, etx, msg, tx_ring, tx_current, tx_link_up, wire, late>>

TxNext ==
  \/ \E s \in Sender : Wait(s) \/ \E f \in TxFrame : Output(s, f)
  \/ EtxStep
  \/ TxDmaFetch \/ TxDmaClose
  \/ TxPhyPoll \/ TxClose

TxSpec == TxInit /\ [][TxNext]_tx_vars

\* The etx thread and the senders get the processor; nothing is asked of the
\* engine.
TxFairSpec == TxSpec /\ WF_tx_vars(EtxStep) /\ \A s \in Sender : WF_tx_vars(Wait(s))

-----------------------------------------------------------------------------
(* Properties *)

\* The etx thread only reads messages of senders that have not returned: the
\* message is a local variable of ethernetif_linkoutput.
MessagesLive ==
  /\ IsInjective(tx_mails) /\ msg \notin ToSet(tx_mails)
  /\ \A s \in ToSet(tx_mails) \cup ({msg} \ {NoSender}) : sender_at[s] # "idle" /\ ~ack[s]

\* rk3576_gmac_dma_transmit returns RT_EOK only for a frame the engine has sent.
EokSent == etx = "advance" => wire = buf[msg]

\* The driver and the engine are at the same descriptor, the engine one ahead
\* from the time it has sent a frame until the driver notices, as long as no
\* transmit gives up a descriptor that it has handed over.
InStep ==
  late \/ tx_current = IF etx \in {"tail", "wait", "advance"} /\ ~tx_own[tx_index]
                    THEN TxNextSlot(tx_index) ELSE tx_index

\* Every call of ethernetif_linkoutput returns, though the engine may stop, the
\* link may go down and the mailbox may be full.
Returns == \A s \in Sender : sender_at[s] # "idle" ~> sender_at[s] = "idle"

\* The frames that are handed over: at most one, since each is waited for and
\* one that was given up keeps its descriptor busy.
HandedOver ==
  LET handed == SetToSeq({i \in TxSlot : tx_own[i]})
  IN  [j \in DOMAIN handed |-> tx_buffer[handed[j]]]

\* Frames leave whole and in the order in which they are handed over, one at a
\* time, none twice and none replaced, also after timeouts: no buffer is written
\* again while the engine may read it.
TxFifo == INSTANCE BoundedFifo
          WITH Message <- TxFrame, Nothing <- NoFrame, Capacity <- 1, queue <- HandedOver, got <- wire

TxImplementsFifo ==
  TxFifo!Init /\ [][TxFifo!Get \/ \E f \in TxFrame : TxFifo!Put(f)]_<<HandedOver, wire>>
=============================================================================
