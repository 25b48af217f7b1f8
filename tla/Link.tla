-------------------------------- MODULE Link --------------------------------
(***************************************************************************)
(* The e1000 driver between the network card and the protocols             *)
(* (drivers/eth/e1000.c): the receive ring, the transmit ring, the causes   *)
(* of an interrupt and the handler that serves them.  The card is external  *)
(* and is modelled from how the driver uses it: it owns the receive         *)
(* descriptors from RDH up to, not including, RDT and the transmit          *)
(* descriptors from TDH up to TDT, and reading ICR clears it.               *)
(*                                                                          *)
(* Two contexts run driver code: the kernel's main line ("main"), with      *)
(* interrupts enabled, and the interrupt handler ("irq"), which an arriving *)
(* frame may make send an answer through the same transmit ring.            *)
(***************************************************************************)
EXTENDS Integers, FiniteSets, Sequences

CONSTANTS RX_LEN,     \* descriptors of the receive ring
          TX_LEN,     \* descriptors of the transmit ring
          MaxFrames,  \* bound: good frames the card stores
          MaxBad,     \* bound: bad frames the card stores
          MaxSends    \* bound: packets the main line sends

ASSUME LinkAssumption ==
    /\ RX_LEN \in Nat /\ RX_LEN > 1
    /\ TX_LEN \in Nat /\ TX_LEN > 2     \* 256: more than the two descriptors of a packet
    /\ MaxFrames \in Nat /\ MaxBad \in Nat /\ MaxSends \in Nat

VARIABLES
    rx,        \* the receive descriptors: what status and errors say of each
    RDH, RDT,  \* the card's receive head and tail registers
    rx_tail,   \* the next descriptor the driver reads
    ICR,       \* the causes of interrupt since ICR was last read
    stored,    \* how many good and bad frames the card has stored
    taken,     \* the number of the last frame given to the protocols
    tx,        \* the transmit descriptors
    TDH, TDT,  \* the card's transmit head and tail registers
    tx_tail,   \* the next descriptor the driver writes
    loaded,    \* the value of tx_tail each context has read last
    _d,        \* the data descriptor each context waits for
    sending,   \* the packet parts the card has collected since the last EOP
    torn,      \* a frame went out that was not one packet's header and data
    sent,      \* how many packets the main line has sent
    pc,        \* where "main" and "irq" are
    loops,     \* the calls of e1000_read_packet the handler has still to make
    intr,      \* whether the processor accepts interrupts
    nested     \* the handler has sent while "main" was inside a send

rxVars == <<rx, RDH, RDT, rx_tail, stored, taken>>
txVars == <<tx, TDH, TDT, tx_tail, loaded, _d, sending, torn, nested>>
vars == <<rxVars, txVars, ICR, pc, loops, intr, sent>>

RxSlots == 0 .. RX_LEN - 1
TxSlots == 0 .. TX_LEN - 1
Contexts == {"main", "irq"}
Causes == {"RXT0", "RXDMT0", "RXO", "TXDW"}

Empty == [status |-> "empty", ask |-> FALSE, id |-> 0]
Free == [who |-> "none", part |-> "none", done |-> TRUE]

NextRx(i) == (i + 1) % RX_LEN
NextTx(i) == (i + 1) % TX_LEN

\* The descriptors the card may still fill, and the ones it has still to send.
RxOwned == (RDT + RX_LEN - RDH) % RX_LEN
TxOwned == {i \in TxSlots : (i + TX_LEN - TDH) % TX_LEN < (TDT + TX_LEN - TDH) % TX_LEN}

\* Where a send is about to use the value of tx_tail, and where it reads it.
Uses == {"header", "advance", "data", "next"}
Load == [header |-> "load_header", advance |-> "load_advance",
         data |-> "load_data", next |-> "load_next"]
Loads == {Load[u] : u \in Uses}
Sends == Loads \cup Uses \cup {"commit", "wait"}

Init ==
    /\ rx = [i \in RxSlots |-> Empty]
    /\ RDH = 0 /\ RDT = 0 /\ rx_tail = 0
    /\ ICR = {} /\ stored = [good |-> 0, bad |-> 0] /\ taken = 0
    /\ tx = [i \in TxSlots |-> Free]
    /\ TDH = 0 /\ TDT = 0 /\ tx_tail = 0
    /\ sending = <<>> /\ torn = FALSE /\ sent = 0
    /\ pc = [main |-> "off", irq |-> "idle"]
    /\ loops = 0
    /\ loaded = [who \in Contexts |-> 0]
    /\ _d = [who \in Contexts |-> 0]
    /\ intr = TRUE /\ nested = FALSE

-----------------------------------------------------------------------------
(***************************************************************************)
(* Start-up.                                                               *)
(***************************************************************************)

\* Hand every descriptor but one to the card and switch the receiver on.
e1000_receive_init ==
    /\ pc.main = "off"
    /\ rx' = [i \in RxSlots |-> Empty]
    /\ RDH' = 0 /\ RDT' = RX_LEN - 1 /\ rx_tail' = 0

\* The card owns no transmit descriptor until a packet is sent.
e1000_transmit_init ==
    /\ tx' = [i \in TxSlots |-> Free]
    /\ TDH' = 0 /\ TDT' = 0 /\ tx_tail' = 0

e1000_init ==
    /\ e1000_receive_init
    /\ e1000_transmit_init
    /\ pc' = [pc EXCEPT !.main = "rings"]
    /\ UNCHANGED <<stored, taken, loaded, _d, sending, torn, nested, ICR, loops, intr, sent>>

\* Allow the causes, then read ICR: what was raised before is forgotten.
e1000_int_enable ==
    /\ pc.main = "rings"
    /\ pc' = [pc EXCEPT !.main = "idle"]
    /\ ICR' = {}
    /\ UNCHANGED <<rxVars, txVars, loops, intr, sent>>

-----------------------------------------------------------------------------
(***************************************************************************)
(* The card.                                                               *)
(***************************************************************************)

\* A frame comes: the card fills its next descriptor.
\* "bad" stands for receive errors and for a frame that needs more than one
\* descriptor; "ask" for a frame the protocols answer.
Arrive(status, ask) ==
    /\ pc.main # "off"
    /\ RDH # RDT
    /\ stored[status] < (IF status = "good" THEN MaxFrames ELSE MaxBad)
    /\ stored' = [stored EXCEPT ![status] = @ + 1]
    /\ rx' = [rx EXCEPT ![RDH] = [status |-> status, ask |-> ask,
                                  id |-> IF status = "good" THEN stored'.good ELSE 0]]
    /\ RDH' = NextRx(RDH)
    /\ ICR' = ICR \cup {"RXT0"} \cup (IF RxOwned - 1 = RX_LEN \div 2 THEN {"RXDMT0"} ELSE {})
    /\ UNCHANGED <<RDT, rx_tail, taken, txVars, pc, loops, intr, sent>>

\* A frame comes and the card has no descriptor for it: it is dropped.
Overrun ==
    /\ pc.main # "off"
    /\ RDH = RDT
    /\ ICR' = ICR \cup {"RXO"}
    /\ UNCHANGED <<rxVars, txVars, pc, loops, intr, sent>>

\* The card sends its next descriptor and marks it done; the one with EOP
\* completes a frame.  What a sent descriptor holds is not told apart.
Transmit ==
    /\ TDH # TDT
    /\ LET d == tx[TDH] IN
       /\ sending' = IF d.part = "data" THEN <<>> ELSE Append(sending, d.who)
       /\ torn' = (torn \/ (d.part = "data" /\ sending # <<d.who>>))
    /\ tx' = [tx EXCEPT ![TDH] = Free]
    /\ TDH' = NextTx(TDH)
    /\ ICR' = ICR \cup {"TXDW"}
    /\ UNCHANGED <<TDT, tx_tail, loaded, _d, nested, rxVars, pc, loops, intr, sent>>

-----------------------------------------------------------------------------
(***************************************************************************)
(* e1000_send_packet, one step per access of what the contexts share.       *)
(* tx_tail is read first, as an argument or for the sum, and the            *)
(* descriptor, or tx_tail itself, is written later; an interrupt may come   *)
(* in between.                                                              *)
(***************************************************************************)

Goto(who, at) == pc' = [pc EXCEPT ![who] = at]

\* A fault: every descriptor is marked as the end of a packet.
WriteEveryEop(who, part) ==
    tx' = [tx EXCEPT ![loaded[who]] = [who |-> who, part |-> "data", done |-> FALSE]]

e1000_write_transmit_descriptor(who, part) ==
    tx' = [tx EXCEPT ![loaded[who]] = [who |-> who, part |-> part, done |-> FALSE]]

\* What "main" may do when it is not interrupted; "irq" always runs.
Runs(who) == who = "irq" \/ pc.irq = "idle"

SendLoad(who) ==
    /\ Runs(who)
    /\ \E u \in Uses : pc[who] = Load[u] /\ Goto(who, u)
    /\ loaded' = [loaded EXCEPT ![who] = tx_tail]
    /\ UNCHANGED <<rxVars, tx, TDH, TDT, tx_tail, _d, sending, torn, nested, ICR, loops, intr, sent>>

SendHeader(who) ==
    /\ pc[who] = "header" /\ Runs(who)
    /\ e1000_write_transmit_descriptor(who, "header")
    /\ Goto(who, Load.advance)
    /\ UNCHANGED <<rxVars, TDH, TDT, tx_tail, loaded, _d, sending, torn, nested, ICR, loops, intr, sent>>

SendData(who) ==
    /\ pc[who] = "data" /\ Runs(who)
    /\ e1000_write_transmit_descriptor(who, "data")
    /\ _d' = [_d EXCEPT ![who] = loaded[who]]
    /\ Goto(who, Load.next)
    /\ UNCHANGED <<rxVars, TDH, TDT, tx_tail, loaded, sending, torn, nested, ICR, loops, intr, sent>>

\* tx_tail moves past the descriptor just written.
SendAdvance(who) ==
    /\ pc[who] \in {"advance", "next"} /\ Runs(who)
    /\ tx_tail' = NextTx(loaded[who])
    /\ Goto(who, IF pc[who] = "advance" THEN Load.data ELSE "commit")
    /\ UNCHANGED <<rxVars, tx, TDH, TDT, loaded, _d, sending, torn, nested, ICR, loops, intr, sent>>

\* A fault: the card is told of one descriptor too many.
SendCommitPast(who) ==
    /\ pc[who] = "commit" /\ Runs(who)
    /\ intr' = FALSE
    /\ TDT' = NextTx(tx_tail)
    /\ Goto(who, "wait")
    /\ UNCHANGED <<rxVars, tx, TDH, tx_tail, loaded, _d, sending, torn, nested, ICR, loops, sent>>

\* interrupts_disable, then the card is told of the new tail.
SendCommit(who) ==
    /\ pc[who] = "commit" /\ Runs(who)
    /\ intr' = FALSE
    /\ TDT' = tx_tail
    /\ Goto(who, "wait")
    /\ UNCHANGED <<rxVars, tx, TDH, tx_tail, loaded, _d, sending, torn, nested, ICR, loops, sent>>

\* The busy wait for the data descriptor ends; interrupts_reenable.
SendReturn(who) ==
    /\ pc[who] = "wait" /\ Runs(who)
    /\ tx[_d[who]].done
    /\ intr' = TRUE
    /\ Goto(who, IF who = "main" THEN "idle" ELSE "release")
    /\ UNCHANGED <<rxVars, txVars, ICR, loops, sent>>

\* A protocol sends from the main line (DHCP, ARP).
e1000_send_packet ==
    /\ pc.main = "idle" /\ Runs("main")
    /\ sent < MaxSends
    /\ sent' = sent + 1
    /\ Goto("main", Load.header)
    /\ UNCHANGED <<rxVars, txVars, ICR, loops, intr>>

-----------------------------------------------------------------------------
(***************************************************************************)
(* The interrupt handler.                                                  *)
(***************************************************************************)

ReadCalls(causes) == Cardinality(causes \cap {"RXT0", "RXDMT0"})

\* The interrupt is accepted: irq_handler, ethernet_handler, and the causes
\* read (and so cleared).  Each receive cause calls e1000_read_packet.
e1000_int_handler ==
    /\ intr /\ pc.irq = "idle" /\ pc.main \notin {"off", "rings"} /\ ICR # {}
    /\ intr' = FALSE
    /\ loops' = ReadCalls(ICR)
    /\ ICR' = {}
    /\ Goto("irq", "loop")
    /\ UNCHANGED <<rxVars, txVars, sent>>

\* After a descriptor has been read, give it back and step over it.
GiveBack ==
    /\ RDT' = rx_tail
    /\ rx_tail' = NextRx(rx_tail)

\* The main line has read tx_tail and has not yet disabled interrupts.
InMain == pc.main \in Sends \ {Load.header, "wait"}

\* A fault: the status of a frame that was taken is not cleared.
TakeKeepsStatus ==
    /\ pc.irq = "loop" /\ loops > 0
    /\ rx[rx_tail].status = "good"
    /\ taken' = rx[rx_tail].id
    /\ GiveBack
    /\ UNCHANGED <<rx, RDH, stored, txVars, ICR, pc, loops, intr, sent>>

\* A good frame: its status is cleared and the protocols take it.  Its
\* answer, if any, is sent before the descriptor is given back.
TakeFrame ==
    /\ pc.irq = "loop" /\ loops > 0
    /\ rx[rx_tail].status = "good"
    /\ rx' = [rx EXCEPT ![rx_tail] = Empty]
    /\ taken' = rx[rx_tail].id
    /\ \/ /\ rx[rx_tail].ask
          /\ Goto("irq", Load.header)
          /\ nested' = (nested \/ InMain)
          /\ UNCHANGED <<RDT, rx_tail>>
       \/ /\ ~rx[rx_tail].ask
          /\ GiveBack
          /\ UNCHANGED <<pc, nested>>
    /\ UNCHANGED <<RDH, stored, tx, TDH, TDT, tx_tail, loaded, _d, sending, torn, ICR, loops, intr, sent>>

\* The answer is on the wire: the descriptor it answers is given back.
Release ==
    /\ pc.irq = "release"
    /\ GiveBack
    /\ Goto("irq", "loop")
    /\ UNCHANGED <<rx, RDH, stored, taken, txVars, ICR, loops, intr, sent>>

\* A fault: a bad frame ends the loop as an empty descriptor does.
SkipStops ==
    /\ pc.irq = "loop" /\ loops > 0
    /\ rx[rx_tail].status = "bad"
    /\ loops' = loops - 1
    /\ UNCHANGED <<rxVars, txVars, ICR, pc, intr, sent>>

\* A bad frame is stepped over; its descriptor keeps its status and errors.
SkipFrame ==
    /\ pc.irq = "loop" /\ loops > 0
    /\ rx[rx_tail].status = "bad"
    /\ GiveBack
    /\ UNCHANGED <<rx, RDH, stored, taken, txVars, ICR, pc, loops, intr, sent>>

\* No more frames: this call of e1000_read_packet returns.
e1000_read_packet ==
    /\ pc.irq = "loop" /\ loops > 0
    /\ rx[rx_tail].status = "empty"
    /\ loops' = loops - 1
    /\ UNCHANGED <<rxVars, txVars, ICR, pc, intr, sent>>

\* The handler reads ICR once more, which forgets every cause raised since
\* it began, and returns: end of interrupt, the interrupted context goes on.
HandlerEnd ==
    /\ pc.irq = "loop" /\ loops = 0
    /\ ICR' = {}
    /\ intr' = TRUE
    /\ Goto("irq", "idle")
    /\ UNCHANGED <<rxVars, txVars, loops, sent>>

-----------------------------------------------------------------------------
Card ==
    \/ Transmit
    \/ Overrun
    \/ \E ask \in BOOLEAN : Arrive("good", ask)
    \/ Arrive("bad", FALSE)

Send(who) ==
    \/ SendLoad(who) \/ SendHeader(who) \/ SendAdvance(who) \/ SendData(who)
    \/ SendCommit(who) \/ SendReturn(who)

Handler == TakeFrame \/ Release \/ SkipFrame \/ e1000_read_packet \/ HandlerEnd

Next ==
    \/ e1000_init \/ e1000_int_enable
    \/ Card
    \/ e1000_send_packet \/ Send("main") \/ Send("irq")
    \/ e1000_int_handler \/ Handler

\* A running handler and a running send go on, the card sends what it was
\* given, and a pending interrupt is accepted as soon as interrupts are on.
Fairness ==
    /\ WF_vars(Handler) /\ WF_vars(Send("irq")) /\ WF_vars(Send("main"))
    /\ WF_vars(Transmit) /\ SF_vars(e1000_int_handler)

Spec == Init /\ [][Next]_vars /\ Fairness

-----------------------------------------------------------------------------
(***************************************************************************)
(* Properties.                                                             *)
(***************************************************************************)

\* The protocols get the good frames the card stored in the order it stored
\* them, each once: the driver's tail never skips a full descriptor, the card
\* never overwrites one that was not read (e1000_read_packet, RDT one behind
\* rx_tail).
DeliveredInOrder == [][taken' # taken => taken' = taken + 1]_vars

\* A descriptor the card has still to send is never written: the ring needs
\* no test for room, because every send waits for its own descriptors before
\* it returns (e1000_send_packet's busy wait).  The exception is a handler that
\* has sent while the main line was between its first read of tx_tail and
\* interrupts_disable: the main line may then set TDT back behind TDH.
OwnedUntouched ==
    [][~nested => \A i \in TxOwned \cap TxOwned' : tx'[i] = tx[i]]_vars

\* A frame on the wire is the header and the data of one packet, unless the
\* handler sent while the main line had read tx_tail and not yet disabled
\* interrupts: interrupts are off only from the write of TDT on.
WholeFrames == torn => nested

\* A frame whose interrupt is still pending when the handler is not running
\* is given to the protocols: e1000_read_packet empties the ring, whatever bad
\* frames lie before it.  The exception is again a handler that has sent inside
\* a send of the main line: the wait for a descriptor whose advance was lost
\* never ends, and interrupts stay off.
RaisedIsDelivered ==
    \A i \in RxSlots :
        (rx[i].status = "good" /\ "RXT0" \in ICR /\ pc.irq = "idle" /\ pc.main \notin {"off", "rings"})
            ~> (rx[i].status = "empty" \/ nested)
=============================================================================
