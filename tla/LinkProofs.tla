----------------------------- MODULE LinkProofs -----------------------------
(***************************************************************************)
(* Link, for rings of any length and any number of frames and sends: the   *)
(* frames are delivered in order, and the card never reads a descriptor    *)
(* that is being written.                                                  *)
(***************************************************************************)
EXTENDS Link, TLAPS

-----------------------------------------------------------------------------
(* The inductive invariant.                                                *)

Places == Sends \cup {"off", "rings", "idle"}
RxDescs == [status : {"empty", "good", "bad"}, ask : BOOLEAN, id : Nat]
TxDescs == [who : Contexts \cup {"none"}, part : {"header", "data", "none"}, done : BOOLEAN]

TypeOK ==
    /\ rx \in [RxSlots -> RxDescs] /\ RDH \in RxSlots /\ RDT \in RxSlots /\ rx_tail \in RxSlots
    /\ stored \in [good : Nat, bad : Nat] /\ taken \in Nat
    /\ tx \in [TxSlots -> TxDescs] /\ TDH \in TxSlots /\ TDT \in TxSlots /\ tx_tail \in TxSlots
    /\ loaded \in [Contexts -> TxSlots] /\ _d \in [Contexts -> TxSlots]
    /\ pc \in [main : Places, irq : Sends \cup {"idle", "loop", "release"}]

\* The handler interrupts neither the start-up nor a wait for the card.
Contained ==
    /\ pc.main = "wait" => ~intr /\ pc.irq = "idle"
    /\ pc.main \in {"off", "rings"} => pc.irq = "idle"

\* How far i lies from h in a ring of n.
Dist(n, h, i) == (i + n - h) % n

\* How far a descriptor lies from the next one the driver reads, and how many the card
\* has filled from there.
Ahead(i) == Dist(RX_LEN, rx_tail, i)
Filled == Ahead(RDH)

\* The frames not yet taken lie in the descriptors the card has filled, all of them, in
\* their order.
Good(i) == rx[i].status = "good"
Behind == pc.main # "off" => rx_tail = NextRx(RDT)
InFilled == \A i \in RxSlots : Good(i) => Ahead(i) < Filled
Untaken == \A i \in RxSlots : Good(i) => rx[i].id \in taken + 1 .. stored.good
AllThere == \A n \in taken + 1 .. stored.good : \E i \in RxSlots : Good(i) /\ rx[i].id = n
Ordered == \A i, j \in RxSlots : Good(i) /\ Good(j) /\ Ahead(i) < Ahead(j) => rx[i].id < rx[j].id
Counts == taken <= stored.good /\ (pc.main = "off" => stored.good = 0)
RxInv == Behind /\ InFilled /\ Untaken /\ AllThere /\ Ordered /\ Counts

\* While a frame is answered its descriptor is the driver's.
Answering ==
    pc.irq \in Sends \cup {"release"} => Filled > 0 /\ ~Good(rx_tail)

\* How far a transmit descriptor lies from the one the card sends next.
Off(i) == Dist(TX_LEN, TDH, i)
Written == Off(tx_tail)
Given == Off(TDT)
Unsent(who) == ~tx[_d[who]].done

\* The descriptors of one packet, from the one the card sends next, while one context
\* writes them and nothing comes in between.
Holds(i, who, part) == tx[i].who = who /\ tx[i].part = part /\ ~tx[i].done
One == {"load_data", "data", "load_next", "next"}
Two == {"load_next", "next", "commit"}
Whole(who) ==
    /\ pc[who] \notin One \cup {"commit", "wait"} => Written = 0
    /\ pc[who] # "wait" => Given = 0 /\ sending = <<>>
    /\ pc[who] \in Uses => loaded[who] = tx_tail
    /\ pc[who] \in One => Written = 1
    /\ pc[who] = "commit" => Written = 2
    /\ pc[who] \in One \cup {"load_advance", "advance", "commit"} => Holds(TDH, who, "header")
    /\ pc[who] \in Two => Holds(NextTx(TDH), who, "data") /\ _d[who] = NextTx(TDH)
    /\ pc[who] = "wait" =>
        /\ Written = Given
        /\ \/ /\ Given = 2 /\ sending = <<>>
              /\ Holds(TDH, who, "header") /\ Holds(NextTx(TDH), who, "data") /\ _d[who] = NextTx(TDH)
           \/ /\ Given = 1 /\ sending = <<who>>
              /\ Holds(TDH, who, "data") /\ _d[who] = TDH
           \/ Given = 0 /\ sending = <<>>

Sender == IF pc.irq \in Sends THEN "irq" ELSE "main"
WholeInv ==
    ~nested =>
        /\ ~torn
        /\ pc.irq \in Sends => pc.main \in {"idle", "load_header"}
        /\ Whole(Sender)

IInv == TypeOK /\ Contained /\ RxInv /\ Answering /\ WholeInv

-----------------------------------------------------------------------------
(* Rings.                                                                  *)

LEMMA ModSmall ==
    ASSUME NEW n \in Nat, n > 0, NEW x \in 0 .. n - 1
    PROVE  x % n = x
BY Z3

LEMMA ModOnce ==
    ASSUME NEW n \in Nat, n > 0, NEW x \in n .. 2 * n - 1
    PROVE  x % n = x - n
BY Z3

LEMMA DistIs ==
    ASSUME NEW n \in Nat, n > 0, NEW h \in 0 .. n - 1, NEW i \in 0 .. n - 1
    PROVE  Dist(n, h, i) = IF h <= i THEN i - h ELSE i + n - h
<1>1. CASE h <= i
  <2>1. i + n - h \in n .. 2 * n - 1
    BY <1>1
  <2>2. (i + n - h) % n = i + n - h - n
    BY <2>1, ModOnce
  <2> QED
    BY <1>1, <2>2 DEF Dist
<1>2. CASE ~(h <= i)
  <2>1. i + n - h \in 0 .. n - 1
    BY <1>2
  <2> QED
    BY <1>2, <2>1, ModSmall DEF Dist
<1> QED
  BY <1>1, <1>2

LEMMA NextIs ==
    ASSUME NEW n \in Nat, n > 1, NEW i \in 0 .. n - 1
    PROVE  (i + 1) % n \in 0 .. n - 1 /\ (i + 1) % n = IF i = n - 1 THEN 0 ELSE i + 1
<1>1. CASE i = n - 1
  BY <1>1, ModOnce
<1>2. CASE i # n - 1
  BY <1>2, ModSmall
<1> QED
  BY <1>1, <1>2

\* Distances from h: a step of i adds one, a step of h takes one off.
LEMMA DistFacts ==
    ASSUME NEW n \in Nat, n > 1, NEW h \in 0 .. n - 1, NEW i \in 0 .. n - 1
    PROVE  /\ Dist(n, h, i) \in 0 .. n - 1
           /\ Dist(n, h, i) = 0 <=> i = h
           /\ Dist(n, h, (i + 1) % n) = IF Dist(n, h, i) = n - 1 THEN 0 ELSE Dist(n, h, i) + 1
           /\ Dist(n, (h + 1) % n, i) = IF Dist(n, h, i) = 0 THEN n - 1 ELSE Dist(n, h, i) - 1
<1> DEFINE j == (i + 1) % n
           k == (h + 1) % n
<1>1. j \in 0 .. n - 1 /\ j = IF i = n - 1 THEN 0 ELSE i + 1
  BY NextIs
<1>2. k \in 0 .. n - 1 /\ k = IF h = n - 1 THEN 0 ELSE h + 1
  BY NextIs
<1> HIDE DEF j, k
<1>3. Dist(n, h, i) = IF h <= i THEN i - h ELSE i + n - h
  BY DistIs
<1>4. Dist(n, h, j) = IF h <= j THEN j - h ELSE j + n - h
  BY <1>1, DistIs
<1>5. Dist(n, k, i) = IF k <= i THEN i - k ELSE i + n - k
  BY <1>2, DistIs
<1>6. Dist(n, h, j) = IF Dist(n, h, i) = n - 1 THEN 0 ELSE Dist(n, h, i) + 1
  BY <1>1, <1>3, <1>4
<1>7. Dist(n, k, i) = IF Dist(n, h, i) = 0 THEN n - 1 ELSE Dist(n, h, i) - 1
  BY <1>2, <1>3, <1>5
<1> QED
  BY <1>3, <1>6, <1>7 DEF j, k

LEMMA DistInjective ==
    ASSUME NEW n \in Nat, n > 1, NEW h \in 0 .. n - 1, NEW i \in 0 .. n - 1, NEW j \in 0 .. n - 1,
           Dist(n, h, i) = Dist(n, h, j)
    PROVE  i = j
BY DistIs

\* The two rings.
LEMMA RxRing ==
    ASSUME NEW h \in RxSlots, NEW i \in RxSlots
    PROVE  /\ Dist(RX_LEN, h, i) \in 0 .. RX_LEN - 1
           /\ Dist(RX_LEN, h, i) = 0 <=> i = h
           /\ NextRx(i) \in RxSlots
           /\ Dist(RX_LEN, h, NextRx(i)) =
                IF Dist(RX_LEN, h, i) = RX_LEN - 1 THEN 0 ELSE Dist(RX_LEN, h, i) + 1
           /\ Dist(RX_LEN, NextRx(h), i) =
                IF Dist(RX_LEN, h, i) = 0 THEN RX_LEN - 1 ELSE Dist(RX_LEN, h, i) - 1
BY LinkAssumption, DistFacts, NextIs DEF RxSlots, NextRx

LEMMA TxRing ==
    ASSUME NEW h \in TxSlots, NEW i \in TxSlots
    PROVE  /\ Dist(TX_LEN, h, i) \in 0 .. TX_LEN - 1
           /\ Dist(TX_LEN, h, i) = 0 <=> i = h
           /\ NextTx(i) \in TxSlots
           /\ Dist(TX_LEN, h, NextTx(i)) =
                IF Dist(TX_LEN, h, i) = TX_LEN - 1 THEN 0 ELSE Dist(TX_LEN, h, i) + 1
           /\ Dist(TX_LEN, NextTx(h), i) =
                IF Dist(TX_LEN, h, i) = 0 THEN TX_LEN - 1 ELSE Dist(TX_LEN, h, i) - 1
BY LinkAssumption, DistFacts, NextIs DEF TxSlots, NextTx

LEMMA RxInjective ==
    ASSUME NEW h \in RxSlots, NEW i \in RxSlots, NEW j \in RxSlots,
           Dist(RX_LEN, h, i) = Dist(RX_LEN, h, j)
    PROVE  i = j
BY LinkAssumption, DistInjective DEF RxSlots

LEMMA TxInjective ==
    ASSUME NEW h \in TxSlots, NEW i \in TxSlots, NEW j \in TxSlots,
           Dist(TX_LEN, h, i) = Dist(TX_LEN, h, j)
    PROVE  i = j
BY LinkAssumption, DistInjective DEF TxSlots

-----------------------------------------------------------------------------
(* Types, and where the contexts are.                                      *)

\* The names of the places in a send.
LEMMA SendsAre ==
    /\ Uses = {"header", "advance", "data", "next"}
    /\ Load.header = "load_header" /\ Load.advance = "load_advance"
    /\ Load.data = "load_data" /\ Load.next = "load_next"
    /\ Sends = {"load_header", "load_advance", "load_data", "load_next",
                "header", "advance", "data", "next", "commit", "wait"}
<1>1. Loads = {"load_header", "load_advance", "load_data", "load_next"}
  BY DEF Loads, Load, Uses
<1> QED
  BY <1>1 DEF Load, Uses, Sends

\* Where a send goes from where it is.
LEMMA SendGoes ==
    ASSUME TypeOK, NEW who \in Contexts, Send(who)
    PROVE  /\ pc[who] \in Sends
           /\ \A c \in Contexts : c # who => pc'[c] = pc[c]
           /\ \A u \in Uses : pc[who] = Load[u] => SendLoad(who) /\ pc'[who] = u
           /\ pc[who] = "header"  => SendHeader(who)  /\ pc'[who] = "load_advance"
           /\ pc[who] = "advance" => SendAdvance(who) /\ pc'[who] = "load_data"
           /\ pc[who] = "data"    => SendData(who)    /\ pc'[who] = "load_next"
           /\ pc[who] = "next"    => SendAdvance(who) /\ pc'[who] = "commit"
           /\ pc[who] = "commit"  => SendCommit(who)  /\ pc'[who] = "wait"
           /\ pc[who] = "wait"    => /\ SendReturn(who)
                                     /\ pc'[who] = IF who = "main" THEN "idle" ELSE "release"
           /\ pc' \in [main : Places, irq : Sends \cup {"idle", "loop", "release"}]
<1>0. who \in DOMAIN pc /\ \A c \in Contexts : c \in DOMAIN pc
  BY DEF TypeOK, Contexts
<1>1. ASSUME NEW place \in Sends \cup {IF who = "main" THEN "idle" ELSE "release"}, Goto(who, place)
      PROVE  /\ pc'[who] = place /\ \A c \in Contexts : c # who => pc'[c] = pc[c]
             /\ pc' \in [main : Places, irq : Sends \cup {"idle", "loop", "release"}]
  BY <1>0, <1>1 DEF Goto, TypeOK, Contexts, Places
<1>2. SendLoad(who) => \E u \in Uses : pc[who] = Load[u] /\ Goto(who, u)
  BY DEF SendLoad
<1>3. SendHeader(who) => pc[who] = "header" /\ Goto(who, "load_advance")
  BY SendsAre DEF SendHeader
<1> DEFINE to == IF pc[who] = "advance" THEN Load.data ELSE "commit"
<1>4. SendAdvance(who) => pc[who] \in {"advance", "next"} /\ Goto(who, to)
  BY DEF SendAdvance
<1>10. to \in Sends /\ to = IF pc[who] = "advance" THEN "load_data" ELSE "commit"
  BY SendsAre
<1> HIDE DEF to
<1>5. SendData(who) => pc[who] = "data" /\ Goto(who, "load_next")
  BY SendsAre DEF SendData
<1>6. SendCommit(who) => pc[who] = "commit" /\ Goto(who, "wait")
  BY DEF SendCommit
<1>7. SendReturn(who) => pc[who] = "wait" /\ Goto(who, IF who = "main" THEN "idle" ELSE "release")
  BY DEF SendReturn
<1>8. CASE SendLoad(who)
  <2>1. PICK u \in Uses : pc[who] = Load[u] /\ Goto(who, u)
    BY <1>2, <1>8
  <2>2. pc'[who] = u /\ (\A c \in Contexts : c # who => pc'[c] = pc[c])
        /\ pc' \in [main : Places, irq : Sends \cup {"idle", "loop", "release"}]
    BY <1>1, <2>1, SendsAre
  <2>3. \A v \in Uses : Load[v] = Load[u] => v = u
    BY <2>1, SendsAre
  <2>4. pc[who] \in Sends /\ pc[who] \notin Uses \cup {"commit", "wait"}
    BY <2>1, SendsAre
  <2> QED
    BY <1>8, <2>1, <2>2, <2>3, <2>4, SendsAre
<1>9. CASE SendHeader(who) \/ SendAdvance(who) \/ SendData(who) \/ SendCommit(who) \/ SendReturn(who)
  <2>1. pc[who] \in Uses \cup {"commit", "wait"}
    BY <1>3, <1>4, <1>5, <1>6, <1>7, <1>9, SendsAre
  <2>2. \A u \in Uses : pc[who] # Load[u]
    BY <2>1, SendsAre
  <2> QED
    BY <1>1, <1>3, <1>4, <1>5, <1>6, <1>7, <1>9, <1>10, <2>1, <2>2, SendsAre
<1> QED
  BY <1>8, <1>9 DEF Send

\* The steps of the handler and of the main line outside a send.
LEMMA OtherGoes ==
    ASSUME TypeOK
    PROVE  /\ e1000_init => pc.main = "off" /\ pc' = [pc EXCEPT !.main = "rings"]
           /\ e1000_int_enable => pc.main = "rings" /\ pc' = [pc EXCEPT !.main = "idle"]
           /\ e1000_send_packet => pc.main = "idle" /\ pc' = [pc EXCEPT !.main = "load_header"]
           /\ e1000_int_handler => /\ intr /\ pc.irq = "idle" /\ pc.main \notin {"off", "rings"}
                                   /\ pc' = [pc EXCEPT !.irq = "loop"]
           /\ TakeFrame => pc.irq = "loop" /\ pc' \in {pc, [pc EXCEPT !.irq = "load_header"]}
           /\ Release => pc.irq = "release" /\ pc' = [pc EXCEPT !.irq = "loop"]
           /\ SkipFrame \/ e1000_read_packet => pc' = pc
           /\ HandlerEnd => pc.irq = "loop" /\ pc' = [pc EXCEPT !.irq = "idle"]
BY SendsAre DEF e1000_init, e1000_receive_init, e1000_int_enable, e1000_send_packet, e1000_int_handler,
       TakeFrame, Release, SkipFrame, e1000_read_packet, HandlerEnd, Goto, Contexts

LEMMA PlacesStep ==
    ASSUME TypeOK, Contained, [Next]_vars
    PROVE  /\ pc' \in [main : Places, irq : Sends \cup {"idle", "loop", "release"}]
           /\ Contained'
<1> USE DEF Contained
<1>1. CASE e1000_init \/ e1000_int_enable \/ e1000_send_packet
  <2>1. intr' = intr
    BY <1>1 DEF e1000_init, e1000_int_enable, e1000_send_packet
  <2> QED
    BY <1>1, <2>1, OtherGoes, SendsAre DEF TypeOK, Places
<1>2. CASE e1000_int_handler
  BY <1>2, OtherGoes, SendsAre DEF TypeOK, Places
<1>3. CASE TakeFrame \/ Release \/ SkipFrame \/ e1000_read_packet
  <2>1. intr' = intr
    BY <1>3 DEF TakeFrame, Release, SkipFrame, e1000_read_packet
  <2> QED
    BY <1>3, <2>1, OtherGoes, SendsAre DEF TypeOK, Places
<1>4. CASE HandlerEnd
  BY <1>4, OtherGoes, SendsAre DEF TypeOK, Places
<1>5. CASE Send("main")
  <2>1. pc.irq = "idle" /\ "main" \in Contexts
    BY <1>5 DEF Send, SendLoad, SendHeader, SendAdvance, SendData, SendCommit, SendReturn, Runs, Contexts
  <2>2. pc.main = "commit" => intr' = FALSE
    BY <1>5, <2>1, SendGoes DEF SendCommit
  <2> QED
    BY <1>5, <2>1, <2>2, SendGoes, SendsAre DEF Contexts
<1>6. CASE Send("irq")
  <2>1. "irq" \in Contexts /\ "main" \in Contexts
    BY DEF Contexts
  <2>2. pc.irq \in Sends /\ pc'["main"] = pc["main"]
        /\ pc' \in [main : Places, irq : Sends \cup {"idle", "loop", "release"}]
    BY <1>6, <2>1, SendGoes
  <2>3. pc.main \notin {"wait", "off", "rings"}
    BY <2>2, SendsAre
  <2> QED
    BY <2>2, <2>3
<1>7. CASE Card \/ UNCHANGED vars
  <2>1. pc' = pc /\ intr' = intr
    BY <1>7 DEF Card, Transmit, Overrun, Arrive, vars
  <2> QED
    BY <2>1 DEF TypeOK
<1> QED
  BY <1>1, <1>2, <1>3, <1>4, <1>5, <1>6, <1>7 DEF Next, Handler

LEMMA TypeStep ==
    ASSUME TypeOK, Contained, [Next]_vars
    PROVE  TypeOK'
<1>0. pc' \in [main : Places, irq : Sends \cup {"idle", "loop", "release"}]
  BY PlacesStep
<1>1. 0 \in RxSlots /\ RX_LEN - 1 \in RxSlots /\ 0 \in TxSlots
  BY LinkAssumption DEF RxSlots, TxSlots
<1>2. Empty \in RxDescs /\ Free \in TxDescs
  BY DEF Empty, Free, RxDescs, TxDescs
<1>3. /\ \A i \in RxSlots : NextRx(i) \in RxSlots
      /\ \A i \in TxSlots : NextTx(i) \in TxSlots
  BY RxRing, TxRing
<1> USE <1>0 DEF TypeOK
<1>4. CASE e1000_init
  BY <1>1, <1>2, <1>4 DEF e1000_init, e1000_receive_init, e1000_transmit_init
<1>5. CASE e1000_int_enable \/ e1000_send_packet \/ e1000_int_handler \/ e1000_read_packet \/ HandlerEnd
           \/ Overrun \/ UNCHANGED vars
  BY <1>5 DEF e1000_int_enable, e1000_send_packet, e1000_int_handler, e1000_read_packet, HandlerEnd,
              Overrun, vars, rxVars, txVars
<1>6. ASSUME NEW status \in {"good", "bad"}, NEW ask \in BOOLEAN, Arrive(status, ask) PROVE TypeOK'
  <2>1. stored' \in [good : Nat, bad : Nat]
    BY <1>6 DEF Arrive
  <2>2. [status |-> status, ask |-> ask, id |-> IF status = "good" THEN stored'.good ELSE 0] \in RxDescs
    BY <2>1 DEF RxDescs
  <2>3. rx' \in [RxSlots -> RxDescs]
    BY <1>6, <2>2 DEF Arrive
  <2> QED
    BY <1>3, <1>6, <2>1, <2>3 DEF Arrive, txVars
<1>7. CASE Transmit
  BY <1>2, <1>3, <1>7 DEF Transmit, rxVars
<1>8. CASE TakeFrame
  <2>1. taken' \in Nat /\ rx' \in [RxSlots -> RxDescs]
    BY <1>2, <1>8 DEF TakeFrame, RxDescs
  <2>2. rx_tail' \in RxSlots /\ RDT' \in RxSlots
    BY <1>3, <1>8 DEF TakeFrame, GiveBack
  <2> QED
    BY <1>8, <2>1, <2>2 DEF TakeFrame
<1>9. CASE Release \/ SkipFrame
  BY <1>3, <1>9 DEF Release, SkipFrame, GiveBack, txVars
<1>10. ASSUME NEW who \in Contexts, Send(who) PROVE TypeOK'
  <2>1. ASSUME NEW part \in {"header", "data"}, e1000_write_transmit_descriptor(who, part)
        PROVE tx' \in [TxSlots -> TxDescs]
    BY <2>1 DEF e1000_write_transmit_descriptor, TxDescs
  <2>2. CASE SendHeader(who) \/ SendData(who)
    BY <2>1, <2>2 DEF SendHeader, SendData, rxVars
  <2>3. CASE SendAdvance(who) \/ SendCommit(who) \/ SendReturn(who)
    BY <1>3, <2>3 DEF SendAdvance, SendCommit, SendReturn, rxVars, txVars
  <2>4. CASE SendLoad(who)
    BY <2>4 DEF SendLoad, rxVars
  <2> QED
    BY <1>10, <2>2, <2>3, <2>4 DEF Send
<1> QED
  BY <1>4, <1>5, <1>6, <1>7, <1>8, <1>9, <1>10 DEF Next, Handler, Card, Contexts

-----------------------------------------------------------------------------
(* The receive ring.                                                       *)

\* Stepping over a descriptor that holds no frame keeps the rest in order.
LEMMA ShiftStep ==
    ASSUME TypeOK, TypeOK', InFilled, Ordered, GiveBack, RDH' = RDH,
           rx'[rx_tail].status # "good",
           \A i \in RxSlots : i # rx_tail => rx'[i] = rx[i]
    PROVE  InFilled' /\ Ordered' /\ rx_tail' = NextRx(RDT')
<1>1. rx_tail' = NextRx(rx_tail) /\ RDT' = rx_tail
  BY DEF GiveBack
<1>2. /\ RX_LEN \in Nat /\ RX_LEN > 1 /\ rx_tail \in RxSlots /\ RDH \in RxSlots
  BY LinkAssumption DEF TypeOK
<1>3. \A i \in RxSlots : Ahead(i) \in 0 .. RX_LEN - 1 /\ (Ahead(i) = 0 <=> i = rx_tail)
  BY <1>2, RxRing DEF Ahead
<1>4. \A i \in RxSlots : Ahead(i)' = IF Ahead(i) = 0 THEN RX_LEN - 1 ELSE Ahead(i) - 1
  BY <1>1, <1>2, RxRing DEF Ahead
<1>5. Filled = Ahead(RDH) /\ Filled' = IF Filled = 0 THEN RX_LEN - 1 ELSE Filled - 1
  BY <1>1, <1>2, RxRing DEF Ahead, Filled
<1>6. \A i \in RxSlots : Good(i)' => Good(i) /\ Ahead(i) # 0 /\ rx'[i] = rx[i]
  BY <1>3 DEF Good
<1>7. ASSUME NEW i \in RxSlots, Good(i)' PROVE Ahead(i)' < Filled'
  <2>1. Ahead(i) < Filled /\ Ahead(i) # 0
    BY <1>6, <1>7 DEF InFilled
  <2> QED
    BY <1>2, <1>3, <1>4, <1>5, <2>1
<1>8. ASSUME NEW i \in RxSlots, NEW j \in RxSlots, Good(i)', Good(j)', Ahead(i)' < Ahead(j)'
      PROVE rx'[i].id < rx'[j].id
  <2>1. Ahead(i) < Ahead(j)
    BY <1>3, <1>4, <1>6, <1>8
  <2>2. rx[i].id < rx[j].id
    BY <1>6, <1>8, <2>1 DEF Ordered
  <2> QED
    BY <1>6, <1>8, <2>2
<1> QED
  BY <1>1, <1>7, <1>8 DEF InFilled, Ordered

\* The frame at the tail is the next one.
LEMMA NextFrame ==
    ASSUME TypeOK, RxInv, Good(rx_tail)
    PROVE  rx[rx_tail].id = taken + 1 /\ Filled > 0
<1>1. rx_tail \in RxSlots /\ RDH \in RxSlots /\ RX_LEN \in Nat
  BY LinkAssumption DEF TypeOK
<1>2. \A i \in RxSlots : Ahead(i) \in 0 .. RX_LEN - 1 /\ (Ahead(i) = 0 <=> i = rx_tail)
  BY <1>1, RxRing DEF Ahead
<1>3. rx[rx_tail].id \in taken + 1 .. stored.good /\ Ahead(rx_tail) < Filled
  BY <1>1 DEF RxInv, Untaken, InFilled
<1>4. taken \in Nat /\ stored.good \in Nat /\ rx[rx_tail].id \in Nat
  BY <1>1 DEF TypeOK, RxDescs
<1>5. taken + 1 \in taken + 1 .. stored.good
  BY <1>3, <1>4
<1>6. PICK i \in RxSlots : Good(i) /\ rx[i].id = taken + 1
  BY <1>5 DEF RxInv, AllThere
<1>7. CASE i = rx_tail
  BY <1>1, <1>2, <1>3, <1>6, <1>7 DEF Filled
<1>8. CASE i # rx_tail
  <2>1. Ahead(rx_tail) < Ahead(i)
    BY <1>1, <1>2, <1>8
  <2>2. rx[rx_tail].id < rx[i].id
    BY <1>1, <1>6, <2>1 DEF RxInv, Ordered
  <2> QED
    BY <1>3, <1>4, <1>6, <2>2
<1> QED
  BY <1>7, <1>8

\* With the frame at the tail taken, the others are the frames left.
LEMMA TakenStep ==
    ASSUME TypeOK, RxInv, Good(rx_tail), rx' = [rx EXCEPT ![rx_tail] = Empty],
           taken' = rx[rx_tail].id, stored' = stored
    PROVE  Untaken' /\ AllThere' /\ taken' = taken + 1 /\ taken' <= stored'.good
<1>1. rx_tail \in RxSlots /\ RDH \in RxSlots /\ RX_LEN \in Nat
  BY LinkAssumption DEF TypeOK
<1>2. \A i \in RxSlots : Ahead(i) \in 0 .. RX_LEN - 1 /\ (Ahead(i) = 0 <=> i = rx_tail)
  BY <1>1, RxRing DEF Ahead
<1>3. taken' = taken + 1 /\ taken \in Nat /\ stored.good \in Nat /\ rx[rx_tail].id = taken + 1
  BY NextFrame DEF TypeOK
<1>4. \A i \in RxSlots : i # rx_tail => rx'[i] = rx[i]
  BY DEF TypeOK
<1>5. rx'[rx_tail].status # "good"
  BY <1>1 DEF TypeOK, Empty
<1>6. \A i \in RxSlots : Good(i)' => i # rx_tail /\ Good(i)
  BY <1>4, <1>5 DEF Good
<1>7. ASSUME NEW i \in RxSlots, Good(i)' PROVE rx'[i].id \in taken' + 1 .. stored'.good
  <2>1. Good(i) /\ i # rx_tail /\ rx'[i] = rx[i]
    BY <1>4, <1>6, <1>7
  <2>2. Ahead(rx_tail) < Ahead(i)
    BY <1>1, <1>2, <2>1
  <2>3. rx[rx_tail].id < rx[i].id /\ rx[i].id \in taken + 1 .. stored.good
    BY <1>1, <2>1, <2>2 DEF RxInv, Ordered, Untaken
  <2> QED
    BY <1>3, <2>1, <2>3
<1>8. ASSUME NEW n \in taken' + 1 .. stored'.good PROVE \E i \in RxSlots : Good(i)' /\ rx'[i].id = n
  <2>1. n \in taken + 1 .. stored.good /\ n # taken + 1
    BY <1>3
  <2>2. PICK i \in RxSlots : Good(i) /\ rx[i].id = n
    BY <2>1 DEF RxInv, AllThere
  <2>3. i # rx_tail
    BY <1>3, <2>1, <2>2
  <2> QED
    BY <1>4, <2>2, <2>3 DEF Good
<1>9. taken + 1 <= stored.good
  BY <1>1, <1>3 DEF RxInv, Untaken
<1> QED
  BY <1>3, <1>7, <1>8, <1>9 DEF Untaken, AllThere

\* A frame is stored behind all that are waiting.
LEMMA ArriveStep ==
    ASSUME TypeOK, TypeOK', RxInv, Answering,
           NEW status \in {"good", "bad"}, NEW ask \in BOOLEAN, Arrive(status, ask)
    PROVE  RxInv' /\ Answering' /\ taken' = taken
<1> DEFINE e == [status |-> status, ask |-> ask, id |-> IF status = "good" THEN stored'.good ELSE 0]
<1>1. /\ pc.main # "off" /\ RDH # RDT /\ RDH' = NextRx(RDH) /\ rx' = [rx EXCEPT ![RDH] = e]
      /\ UNCHANGED <<RDT, rx_tail, taken, pc>>
  BY DEF Arrive
<1>2. /\ RX_LEN \in Nat /\ RX_LEN > 1 /\ rx_tail \in RxSlots /\ RDH \in RxSlots /\ RDT \in RxSlots
      /\ taken \in Nat /\ stored.good \in Nat
  BY LinkAssumption DEF TypeOK
<1>3. stored'.good = IF status = "good" THEN stored.good + 1 ELSE stored.good
  BY DEF Arrive, TypeOK
<1>4. \A i \in RxSlots : Ahead(i) \in 0 .. RX_LEN - 1 /\ Ahead(i)' = Ahead(i)
  BY <1>1, <1>2, RxRing DEF Ahead
<1>5. Ahead(RDT) = RX_LEN - 1
  <2>1. Dist(RX_LEN, rx_tail, NextRx(RDT)) = 0
    BY <1>1, <1>2, RxRing DEF RxInv, Behind
  <2> QED
    BY <1>2, <2>1, RxRing DEF Ahead
<1>6. Filled < RX_LEN - 1
  <2>1. Ahead(RDH) # Ahead(RDT)
    BY <1>1, <1>2, RxInjective DEF Ahead
  <2> QED
    BY <1>2, <1>4, <1>5, <2>1 DEF Filled
<1>7. Filled' = Filled + 1 /\ Filled \in Nat /\ Filled = Ahead(RDH)
  BY <1>1, <1>2, <1>4, <1>6, RxRing DEF Filled, Ahead
<1>8. rx'[RDH] = e /\ \A i \in RxSlots : i # RDH => rx'[i] = rx[i]
  BY <1>1, <1>2 DEF TypeOK
<1>9. ~Good(RDH)
  BY <1>2, <1>7 DEF RxInv, InFilled
<1>10. \A i \in RxSlots : Good(i)' => (i = RDH /\ status = "good") \/ (i # RDH /\ Good(i))
  BY <1>8 DEF Good
<1>11. \A i \in RxSlots : Good(i) => i # RDH /\ Good(i)' /\ rx'[i] = rx[i]
  BY <1>8, <1>9 DEF Good
<1> HIDE DEF e
<1>12. status = "good" => rx'[RDH].status = "good" /\ rx'[RDH].id = stored.good + 1
  BY <1>3, <1>8 DEF e
<1>13. InFilled'
  <2> SUFFICES ASSUME NEW i \in RxSlots, Good(i)' PROVE Ahead(i)' < Filled'
    BY DEF InFilled
  <2>1. i = RDH \/ Ahead(i) < Filled
    BY <1>10 DEF RxInv, InFilled
  <2> QED
    BY <1>4, <1>7, <2>1
<1>14. Untaken'
  <2> SUFFICES ASSUME NEW i \in RxSlots, Good(i)' PROVE rx'[i].id \in taken' + 1 .. stored'.good
    BY DEF Untaken
  <2>1. CASE i = RDH
    <3>1. status = "good" /\ taken <= stored.good
      BY <1>10, <2>1 DEF RxInv, Counts
    <3> QED
      BY <1>1, <1>2, <1>3, <1>12, <2>1, <3>1
  <2>2. CASE i # RDH
    <3>1. rx'[i] = rx[i] /\ rx[i].id \in taken + 1 .. stored.good
      BY <1>10, <1>11, <2>2 DEF RxInv, Untaken
    <3> QED
      BY <1>1, <1>2, <1>3, <3>1
  <2> QED
    BY <2>1, <2>2
<1>15. AllThere'
  <2> SUFFICES ASSUME NEW n \in taken' + 1 .. stored'.good
               PROVE \E i \in RxSlots : Good(i)' /\ rx'[i].id = n
    BY DEF AllThere
  <2>1. CASE n \in taken + 1 .. stored.good
    <3>1. PICK i \in RxSlots : Good(i) /\ rx[i].id = n
      BY <2>1 DEF RxInv, AllThere
    <3> QED
      BY <1>11, <3>1
  <2>2. CASE n \notin taken + 1 .. stored.good
    <3>1. status = "good" /\ n = stored.good + 1
      BY <1>1, <1>2, <1>3, <2>2
    <3> QED
      BY <1>2, <1>12, <3>1 DEF Good
  <2> QED
    BY <2>1, <2>2
<1>16. Ordered'
  <2> SUFFICES ASSUME NEW i \in RxSlots, NEW j \in RxSlots, Good(i)', Good(j)', Ahead(i)' < Ahead(j)'
               PROVE rx'[i].id < rx'[j].id
    BY DEF Ordered
  <2>1. i # RDH /\ Good(i)
    <3>1. CASE i = RDH
      <4>1. j # RDH /\ Good(j) /\ Ahead(RDH) < Ahead(j)
        BY <1>4, <1>10, <3>1
      <4> QED
        BY <1>4, <1>7, <4>1 DEF RxInv, InFilled
    <3> QED
      BY <1>10, <3>1
  <2>2. rx'[i] = rx[i] /\ rx[i].id \in taken + 1 .. stored.good
    BY <1>11, <2>1 DEF RxInv, Untaken
  <2>3. CASE j = RDH
    BY <1>2, <1>10, <1>12, <2>2, <2>3
  <2>4. CASE j # RDH
    BY <1>4, <1>10, <1>11, <2>1, <2>2, <2>4 DEF RxInv, Ordered
  <2> QED
    BY <2>3, <2>4
<1>17. Answering'
  <2>1. CASE pc.irq \in Sends \cup {"release"}
    <3>1. Filled > 0 /\ ~Good(rx_tail)
      BY <2>1 DEF Answering
    <3>2. rx_tail # RDH
      BY <1>2, <1>7, <3>1, RxRing DEF Ahead
    <3>3. rx'[rx_tail'].status # "good"
      BY <1>1, <1>2, <1>8, <3>1, <3>2 DEF Good
    <3> QED
      BY <1>7, <3>1, <3>3 DEF Answering, Good
  <2> QED
    BY <1>1, <2>1 DEF Answering
<1>18. Counts'
  BY <1>1, <1>2, <1>3 DEF RxInv, Counts
<1> QED
  BY <1>1, <1>13, <1>14, <1>15, <1>16, <1>17, <1>18 DEF RxInv, Behind

\* A step that leaves the ring alone.
LEMMA RxSame ==
    ASSUME RxInv, UNCHANGED rxVars, pc'.main = "off" <=> pc.main = "off"
    PROVE  RxInv' /\ Filled' = Filled /\ (Good(rx_tail)' <=> Good(rx_tail))
<1>1. UNCHANGED <<rx, RDH, RDT, rx_tail, stored, taken>>
  BY DEF rxVars
<1>2. \A i \in RxSlots : (Good(i)' <=> Good(i)) /\ Ahead(i)' = Ahead(i)
  BY <1>1 DEF Good, Ahead
<1>3. Filled' = Filled /\ (Good(rx_tail)' <=> Good(rx_tail))
  BY <1>1 DEF Filled, Ahead, Good
<1>4. InFilled' /\ Untaken' /\ AllThere' /\ Ordered'
  BY <1>1, <1>2, <1>3 DEF RxInv, InFilled, Untaken, AllThere, Ordered
<1> QED
  BY <1>1, <1>3, <1>4 DEF RxInv, Behind, Counts

LEMMA TakeStep ==
    ASSUME TypeOK, TypeOK', Contained, RxInv, TakeFrame
    PROVE  RxInv' /\ Answering' /\ taken' = taken + 1
<1>1. /\ Good(rx_tail) /\ rx' = [rx EXCEPT ![rx_tail] = Empty] /\ taken' = rx[rx_tail].id
      /\ UNCHANGED <<RDH, stored>> /\ pc.irq = "loop"
  BY DEF TakeFrame, Good
<1>2. Untaken' /\ AllThere' /\ taken' = taken + 1 /\ taken' <= stored'.good
  BY <1>1, TakenStep
<1>3. rx_tail \in RxSlots /\ pc'.main = pc.main /\ pc.main # "off"
  BY <1>1, OtherGoes DEF TypeOK, Contained
<1>4. rx'[rx_tail].status # "good" /\ \A i \in RxSlots : i # rx_tail => rx'[i] = rx[i]
  BY <1>1, <1>3 DEF TypeOK, Empty
<1>5. Filled > 0
  BY <1>1, NextFrame
<1>6. CASE pc' = [pc EXCEPT !.irq = "load_header"] /\ UNCHANGED <<RDT, rx_tail>>
  <2>1. \A i \in RxSlots : Ahead(i)' = Ahead(i) /\ (Good(i)' => Good(i) /\ rx'[i] = rx[i])
    BY <1>4, <1>6 DEF Ahead, Good
  <2>2. Filled' = Filled
    BY <1>1, <1>6 DEF Filled, Ahead
  <2>3. InFilled' /\ Ordered'
    BY <2>1, <2>2 DEF RxInv, InFilled, Ordered
  <2>4. Answering'
    BY <1>4, <1>5, <1>6, <2>2 DEF Answering, Good
  <2> QED
    BY <1>2, <1>3, <1>6, <2>3, <2>4 DEF RxInv, Behind, Counts
<1>7. CASE GiveBack /\ pc' = pc
  <2>1. InFilled' /\ Ordered' /\ rx_tail' = NextRx(RDT')
    BY <1>1, <1>4, <1>7, ShiftStep DEF RxInv
  <2>2. Answering'
    BY <1>1, <1>7, SendsAre DEF Answering
  <2> QED
    BY <1>2, <1>3, <1>7, <2>1, <2>2 DEF RxInv, Behind, Counts
<1> QED
  BY <1>6, <1>7, SendsAre DEF TakeFrame, Goto

\* The other steps over a descriptor: one that was answered, or a bad frame.
LEMMA StepOver ==
    ASSUME TypeOK, TypeOK', Contained, RxInv, Answering, Release \/ SkipFrame
    PROVE  RxInv' /\ Answering' /\ taken' = taken
<1>1. GiveBack /\ UNCHANGED <<rx, RDH, stored, taken>>
  BY DEF Release, SkipFrame
<1>2. pc.irq \in {"loop", "release"} /\ pc'.irq = "loop" /\ pc'.main = pc.main /\ pc.main # "off"
  BY OtherGoes DEF TypeOK, Contained, SkipFrame
<1>3. rx'[rx_tail].status # "good"
  BY <1>1 DEF Release, SkipFrame, Answering, Good
<1>4. InFilled' /\ Ordered' /\ rx_tail' = NextRx(RDT')
  BY <1>1, <1>3, ShiftStep DEF RxInv
<1>5. Untaken' /\ AllThere'
  BY <1>1 DEF RxInv, Untaken, AllThere, Good
<1> QED
  BY <1>1, <1>2, <1>4, <1>5, SendsAre DEF RxInv, Behind, Counts, Answering

LEMMA RxStep ==
    ASSUME TypeOK, TypeOK', Contained, RxInv, Answering, [Next]_vars
    PROVE  RxInv' /\ Answering' /\ taken' \in {taken, taken + 1}
<1> DEFINE Goal == RxInv' /\ Answering' /\ taken' \in {taken, taken + 1}
<1>1. ASSUME UNCHANGED rxVars, pc'.main = "off" <=> pc.main = "off",
             pc'.irq \in Sends \cup {"release"} => pc.irq \in Sends \cup {"release"}
      PROVE Goal
  BY <1>1, RxSame DEF Answering, rxVars
<1>2. CASE e1000_init
  <2>1. /\ \A i \in RxSlots : ~Good(i)'
        /\ RDT' = RX_LEN - 1 /\ rx_tail' = 0 /\ UNCHANGED <<stored, taken>>
    BY <1>2 DEF e1000_init, e1000_receive_init, Good, Empty
  <2>2. pc.main = "off" /\ pc.irq = "idle" /\ pc'.irq = "idle" /\ pc'.main = "rings"
    BY <1>2, OtherGoes DEF TypeOK, Contained
  <2>3. stored.good = 0 /\ taken \in Nat /\ taken <= 0
    BY <2>2 DEF RxInv, Counts, TypeOK
  <2>4. NextRx(RX_LEN - 1) = 0
    BY LinkAssumption, NextIs DEF NextRx
  <2>5. InFilled' /\ Untaken' /\ Ordered'
    BY <2>1 DEF InFilled, Untaken, Ordered
  <2>6. AllThere' /\ Counts'
    BY <2>1, <2>2, <2>3 DEF AllThere, Counts
  <2> QED
    BY <2>1, <2>2, <2>4, <2>5, <2>6, SendsAre DEF RxInv, Behind, Answering
<1>3. CASE e1000_int_enable \/ e1000_send_packet \/ e1000_int_handler \/ HandlerEnd
  <2>1. UNCHANGED rxVars
    BY <1>3 DEF e1000_int_enable, e1000_send_packet, e1000_int_handler, HandlerEnd
  <2>2. pc'.main = "off" <=> pc.main = "off"
    BY <1>3, OtherGoes DEF TypeOK
  <2>3. pc'.irq \in Sends \cup {"release"} => pc.irq \in Sends \cup {"release"}
    BY <1>3, OtherGoes, SendsAre DEF TypeOK
  <2> QED
    BY <1>1, <2>1, <2>2, <2>3
<1>4. CASE e1000_read_packet \/ Overrun \/ Transmit \/ UNCHANGED vars
  BY <1>1, <1>4 DEF e1000_read_packet, Overrun, Transmit, vars
<1>5. ASSUME NEW who \in Contexts, Send(who) PROVE Goal
  <2>1. UNCHANGED rxVars
    BY <1>5 DEF Send, SendLoad, SendHeader, SendAdvance, SendData, SendCommit, SendReturn
  <2>2. pc[who] \in Sends /\ pc'[who] # "off" /\ \A c \in Contexts : c # who => pc'[c] = pc[c]
    BY <1>5, SendGoes, SendsAre
  <2>3. pc'.main = "off" <=> pc.main = "off"
    BY <2>2, SendsAre DEF Contexts
  <2>4. pc'.irq \in Sends \cup {"release"} => pc.irq \in Sends \cup {"release"}
    BY <2>2, SendsAre DEF Contexts
  <2> QED
    BY <1>1, <2>1, <2>3, <2>4
<1>6. ASSUME NEW status \in {"good", "bad"}, NEW ask \in BOOLEAN, Arrive(status, ask) PROVE Goal
  BY <1>6, ArriveStep
<1>7. CASE TakeFrame
  BY <1>7, TakeStep
<1>8. CASE Release \/ SkipFrame
  BY <1>8, StepOver
<1> QED
  BY <1>2, <1>3, <1>4, <1>5, <1>6, <1>7, <1>8 DEF Next, Handler, Card, Contexts

-----------------------------------------------------------------------------
(* The transmit ring.                                                      *)

LEMMA TxPlaces ==
    ASSUME TypeOK
    PROVE  /\ TX_LEN \in Nat /\ TX_LEN > 2
           /\ Written \in 0 .. TX_LEN - 1 /\ Given \in 0 .. TX_LEN - 1
           /\ Given = 0 <=> TDH = TDT
           /\ \A i \in TxSlots : /\ NextTx(i) \in TxSlots
                                 /\ Off(i) \in 0 .. TX_LEN - 1 /\ (Off(i) = 0 <=> i = TDH)
                                 /\ Off(NextTx(i)) = IF Off(i) = TX_LEN - 1 THEN 0 ELSE Off(i) + 1
           /\ \A who \in Contexts : _d[who] \in TxSlots
BY LinkAssumption, TxRing DEF TypeOK, Written, Given, Off

\* The card moves on by one.
LEMMA TransmitMoves ==
    ASSUME TypeOK, Given <= Written, Transmit
    PROVE  /\ Given > 0 /\ Given' = Given - 1 /\ Written' = Written - 1
           /\ \A i \in TxSlots : Off(i) # 0 => tx'[i] = tx[i]
           /\ UNCHANGED <<TDT, tx_tail, _d, pc, nested>>
<1>1. TDH # TDT /\ TDH' = NextTx(TDH) /\ tx' = [tx EXCEPT ![TDH] = Free]
      /\ UNCHANGED <<TDT, tx_tail, _d, pc, nested>>
  BY DEF Transmit
<1>2. TDH \in TxSlots /\ TDT \in TxSlots /\ tx_tail \in TxSlots
  BY DEF TypeOK
<1>3. Given > 0 /\ Written > 0
  BY <1>1, TxPlaces
<1>4. Given' = Given - 1 /\ Written' = Written - 1
  BY <1>1, <1>2, <1>3, TxRing, TxPlaces DEF Given, Written, Off
<1>5. \A i \in TxSlots : Off(i) # 0 => tx'[i] = tx[i]
  BY <1>1, TxPlaces DEF TypeOK
<1> QED
  BY <1>1, <1>3, <1>4, <1>5

\* What a step of a send does to the ring.
LEMMA SendMoves ==
    ASSUME TypeOK, NEW who \in Contexts
    PROVE  /\ SendLoad(who) => /\ Written' = Written /\ Given' = Given
                               /\ loaded' = [loaded EXCEPT ![who] = tx_tail]
                               /\ UNCHANGED <<tx, TDH, TDT, tx_tail, _d, sending, torn, nested>>
           /\ SendHeader(who) =>
                /\ Written' = Written /\ Given' = Given
                /\ tx' = [tx EXCEPT ![loaded[who]] = [who |-> who, part |-> "header", done |-> FALSE]]
                /\ UNCHANGED <<TDH, TDT, tx_tail, _d, sending, torn, nested>>
           /\ SendData(who) =>
                /\ Written' = Written /\ Given' = Given
                /\ tx' = [tx EXCEPT ![loaded[who]] = [who |-> who, part |-> "data", done |-> FALSE]]
                /\ _d' = [_d EXCEPT ![who] = loaded[who]]
                /\ UNCHANGED <<TDH, TDT, tx_tail, sending, torn, nested>>
           /\ SendAdvance(who) /\ loaded[who] = tx_tail /\ Written < TX_LEN - 1 =>
                /\ Written' = Written + 1 /\ Given' = Given /\ tx_tail' = NextTx(tx_tail)
                /\ UNCHANGED <<tx, TDH, TDT, _d, sending, torn, nested>>
           /\ SendCommit(who) => /\ Written' = Written /\ Given' = Written /\ TDT' = tx_tail
                                 /\ UNCHANGED <<tx, TDH, tx_tail, _d, sending, torn, nested>>
           /\ SendReturn(who) => /\ Written' = Written /\ Given' = Given /\ ~Unsent(who)
                                 /\ UNCHANGED txVars
<1>1. tx_tail \in TxSlots /\ TDH \in TxSlots
  BY DEF TypeOK
<1>2. ASSUME SendAdvance(who), loaded[who] = tx_tail, Written < TX_LEN - 1
      PROVE Written' = Written + 1 /\ Given' = Given /\ tx_tail' = NextTx(tx_tail)
  <2>1. tx_tail' = NextTx(tx_tail) /\ TDH' = TDH /\ TDT' = TDT
    BY <1>2 DEF SendAdvance
  <2> QED
    BY <1>1, <1>2, <2>1, TxPlaces DEF Written, Given, Off
<1>3. ASSUME TDH' = TDH, tx_tail' = tx_tail PROVE Written' = Written /\ (TDT' = TDT => Given' = Given)
                                                  /\ (TDT' = tx_tail => Given' = Written)
  BY <1>3 DEF Written, Given, Off
<1>4. SendLoad(who) \/ SendHeader(who) \/ SendData(who) => UNCHANGED <<TDH, TDT, tx_tail>>
  BY DEF SendLoad, SendHeader, SendData
<1>5. SendReturn(who) => UNCHANGED txVars /\ UNCHANGED <<TDH, TDT, tx_tail>> /\ ~Unsent(who)
  BY DEF SendReturn, txVars, Unsent
<1>6. SendCommit(who) => UNCHANGED <<TDH, tx_tail>> /\ TDT' = tx_tail
  BY DEF SendCommit
<1> QED
  BY <1>2, <1>3, <1>4, <1>5, <1>6
  DEF SendLoad, SendHeader, SendData, SendAdvance, SendCommit, e1000_write_transmit_descriptor

LEMMA TxSame ==
    ASSUME UNCHANGED <<tx, TDH, TDT, tx_tail, _d>>
    PROVE  Written' = Written /\ Given' = Given /\ \A who \in Contexts : Unsent(who)' <=> Unsent(who)
BY DEF Written, Given, Off, Unsent

\* Nothing lies between what is written and what the card was given.
LEMMA GivenIsWritten ==
    ASSUME TypeOK, NEW who \in Contexts, Whole(who)
    PROVE  Given <= Written
<1>1. Given \in Nat /\ Written \in Nat
  BY TxPlaces
<1> QED
  BY <1>1 DEF Whole

\* No step writes a descriptor that the card has still to send.
LEMMA OwnedStep ==
    ASSUME TypeOK, TypeOK', ~nested, WholeInv, [Next]_vars
    PROVE  \A i \in TxOwned \cap TxOwned' : tx'[i] = tx[i]
<1>0. /\ TxOwned = {i \in TxSlots : Off(i) < Given}
      /\ tx_tail \in TxSlots /\ Given <= Written
      /\ tx \in [TxSlots -> TxDescs]
  <2>1. Sender \in Contexts /\ Whole(Sender)
    BY DEF WholeInv, Sender, Contexts
  <2> QED
    BY <2>1, GivenIsWritten DEF TxOwned, Off, Given, Dist, TypeOK
<1>1. tx_tail \notin TxOwned
  BY <1>0, TxPlaces DEF Written
<1>2. ASSUME NEW who \in Contexts, Send(who) PROVE \A i \in TxOwned : tx'[i] = tx[i]
  <2>1. CASE SendHeader(who) \/ SendData(who)
    <3>1. pc[who] \in {"header", "data"} /\ Runs(who)
      BY <2>1 DEF SendHeader, SendData
    <3>2. who = Sender
      BY <3>1, SendsAre DEF Runs, Sender, Contexts
    <3>3. loaded[who] = tx_tail
      BY <3>1, <3>2, SendsAre DEF WholeInv, Whole
    <3> QED
      BY <1>0, <1>1, <2>1, <3>3, SendMoves
  <2>2. CASE SendLoad(who) \/ SendAdvance(who) \/ SendCommit(who) \/ SendReturn(who)
    BY <2>2 DEF SendLoad, SendAdvance, SendCommit, SendReturn, txVars
  <2> QED
    BY <1>2, <2>1, <2>2 DEF Send
<1>3. CASE Transmit
  <2>1. TDH' = NextTx(TDH) /\ \A i \in TxSlots : Off(i) # 0 => tx'[i] = tx[i]
    BY <1>0, <1>3, TransmitMoves DEF Transmit
  <2>2. TDH \notin TxOwned'
    <3>1. TDH \in TxSlots /\ TDH' \in TxSlots /\ TDT' \in TxSlots
      BY DEF TypeOK
    <3>2. Dist(TX_LEN, NextTx(TDH), TDH) = TX_LEN - 1
      BY <3>1, TxRing
    <3>3. Dist(TX_LEN, TDH', TDT') \in 0 .. TX_LEN - 1
      BY <3>1, TxRing
    <3>4. TxOwned' = {i \in TxSlots : Dist(TX_LEN, TDH', i) < Dist(TX_LEN, TDH', TDT')}
      BY DEF TxOwned, Dist
    <3> QED
      BY <2>1, <3>2, <3>3, <3>4, LinkAssumption
  <2> QED
    BY <1>0, <2>1, <2>2, TxPlaces
<1>4. CASE e1000_init
  <2>1. TDH' = 0 /\ TDT' = 0 /\ 0 \in TxSlots
    BY <1>4, LinkAssumption DEF e1000_init, e1000_transmit_init, TxSlots
  <2>2. Dist(TX_LEN, TDH', TDT') = 0 /\ \A i \in TxSlots : Dist(TX_LEN, TDH', i) \in 0 .. TX_LEN - 1
    BY <2>1, TxRing
  <2>3. TxOwned' = {i \in TxSlots : Dist(TX_LEN, TDH', i) < Dist(TX_LEN, TDH', TDT')}
    BY DEF TxOwned, Dist
  <2> QED
    BY <2>2, <2>3, LinkAssumption
<1>5. CASE \/ e1000_int_enable \/ e1000_send_packet \/ e1000_int_handler \/ Handler \/ Overrun
           \/ UNCHANGED vars
  BY <1>5 DEF e1000_int_enable, e1000_send_packet, e1000_int_handler, Handler, TakeFrame, Release,
              SkipFrame, e1000_read_packet, HandlerEnd, Overrun, vars, txVars
<1>6. ASSUME NEW status, NEW ask, Arrive(status, ask) PROVE tx' = tx
  BY <1>6 DEF Arrive, txVars
<1> QED
  BY <1>2, <1>3, <1>4, <1>5, <1>6 DEF Next, Card, Contexts

-----------------------------------------------------------------------------
(* Whole frames.                                                           *)

\* One packet, written and sent by one context with nothing in between.
LEMMA SendWhole ==
    ASSUME TypeOK, TypeOK', NEW who \in Contexts, Send(who), Whole(who)
    PROVE  Whole(who)' /\ UNCHANGED <<torn, nested>> /\ (pc[who] = "wait" => Given = 0 /\ sending = <<>>)
<1>1. /\ TX_LEN \in Nat /\ TX_LEN > 2 /\ tx_tail \in TxSlots /\ TDH \in TxSlots /\ NextTx(TDH) \in TxSlots
      /\ Written \in Nat /\ Given \in Nat
      /\ Off(TDH) = 0 /\ Off(NextTx(TDH)) = 1 /\ Off(tx_tail) = Written
  BY TxPlaces DEF TypeOK, Written
<1>2. \A i \in TxSlots : Off(i) = Written => i = tx_tail
  BY <1>1, TxInjective DEF Off
<1>3. tx \in [TxSlots -> TxDescs] /\ _d \in [Contexts -> TxSlots]
  BY DEF TypeOK
<1> USE SendsAre DEF One, Two
<1>10. ASSUME NEW u \in Uses, pc[who] = Load[u] PROVE Whole(who)' /\ UNCHANGED <<torn, nested>>
  <2>1. SendLoad(who) /\ pc'[who] = u
    BY <1>10, SendGoes
  <2>2. /\ Written' = Written /\ Given' = Given /\ loaded'[who] = tx_tail
        /\ UNCHANGED <<tx, TDH, TDT, tx_tail, _d, sending, torn, nested>>
    BY <2>1, SendMoves DEF TypeOK
  <2>3. \A i, part : Holds(i, who, part)' <=> Holds(i, who, part)
    BY <2>2 DEF Holds
  <2>4. Given = 0 /\ sending = <<>> /\ Given' = 0 /\ sending' = <<>>
    BY <1>10, <2>2 DEF Whole
  <2>5. CASE u \in {"header", "advance"}
    <3>1. Written' = 0 /\ (u = "advance" => Holds(TDH, who, "header"))
      BY <1>10, <2>2, <2>5 DEF Whole
    <3> QED
      BY <2>1, <2>2, <2>3, <2>4, <2>5, <3>1 DEF Whole
  <2>6. CASE u \in {"data", "next"}
    <3>1. /\ Written' = 1 /\ Holds(TDH, who, "header")
          /\ u = "next" => Holds(NextTx(TDH), who, "data") /\ _d[who] = NextTx(TDH)
      BY <1>10, <2>2, <2>6 DEF Whole
    <3> QED
      BY <2>1, <2>2, <2>3, <2>4, <2>6, <3>1 DEF Whole
  <2> QED
    BY <2>2, <2>5, <2>6
<1>4. CASE pc[who] = "header"
  <2>1. SendHeader(who) /\ pc'[who] = "load_advance"
    BY <1>4, SendGoes
  <2>2. Written = 0 /\ Given = 0 /\ sending = <<>> /\ TDH = tx_tail /\ loaded[who] = tx_tail
    BY <1>1, <1>2, <1>4 DEF Whole
  <2>3. /\ Written' = Written /\ Given' = Given /\ UNCHANGED <<TDH, sending, torn, nested>>
        /\ tx' = [tx EXCEPT ![tx_tail] = [who |-> who, part |-> "header", done |-> FALSE]]
    BY <2>1, <2>2, SendMoves
  <2>4. Holds(TDH, who, "header")'
    BY <1>1, <1>3, <2>2, <2>3 DEF Holds
  <2> QED
    BY <1>4, <2>1, <2>2, <2>3, <2>4 DEF Whole
<1>5. CASE pc[who] = "advance"
  <2>1. SendAdvance(who) /\ pc'[who] = "load_data"
    BY <1>5, SendGoes
  <2>2. /\ Written = 0 /\ Given = 0 /\ sending = <<>> /\ Holds(TDH, who, "header")
        /\ loaded[who] = tx_tail
    BY <1>5 DEF Whole
  <2>4. Written < TX_LEN - 1
    BY <1>1, <2>2
  <2>5. /\ Written' = Written + 1 /\ Given' = Given
        /\ UNCHANGED <<tx, TDH, TDT, _d, sending, torn, nested>>
    BY <2>1, <2>2, <2>4, SendMoves, Zenon
  <2>3. Written' = 1 /\ Given' = Given /\ UNCHANGED <<tx, TDH, sending, torn, nested>>
    BY <2>2, <2>5
  <2> QED
    BY <1>5, <2>1, <2>2, <2>3 DEF Whole, Holds
<1>6. CASE pc[who] = "data"
  <2>1. SendData(who) /\ pc'[who] = "load_next"
    BY <1>6, SendGoes
  <2>2. /\ Written = 1 /\ Given = 0 /\ sending = <<>> /\ Holds(TDH, who, "header")
        /\ loaded[who] = tx_tail
    BY <1>6 DEF Whole
  <2>3. NextTx(TDH) = tx_tail /\ TDH # tx_tail
    BY <1>1, <1>2, <2>2
  <2>4. /\ Written' = Written /\ Given' = Given /\ UNCHANGED <<TDH, tx_tail, sending, torn, nested>>
        /\ tx' = [tx EXCEPT ![tx_tail] = [who |-> who, part |-> "data", done |-> FALSE]]
        /\ _d' = [_d EXCEPT ![who] = tx_tail]
    BY <2>1, <2>2, SendMoves
  <2>5. Holds(TDH, who, "header")' /\ Holds(NextTx(TDH), who, "data")'
    BY <1>1, <1>3, <2>2, <2>3, <2>4 DEF Holds
  <2>6. _d'[who] = NextTx(TDH')
    BY <1>3, <2>3, <2>4
  <2> QED
    BY <1>6, <2>1, <2>2, <2>4, <2>5, <2>6 DEF Whole
<1>7. CASE pc[who] = "next"
  <2>1. SendAdvance(who) /\ pc'[who] = "commit"
    BY <1>7, SendGoes
  <2>2. /\ Written = 1 /\ Given = 0 /\ sending = <<>> /\ Holds(TDH, who, "header")
        /\ Holds(NextTx(TDH), who, "data") /\ _d[who] = NextTx(TDH) /\ loaded[who] = tx_tail
    BY <1>7 DEF Whole
  <2>4. Written < TX_LEN - 1
    BY <1>1, <2>2
  <2>5. /\ Written' = Written + 1 /\ Given' = Given
        /\ UNCHANGED <<tx, TDH, TDT, _d, sending, torn, nested>>
    BY <2>1, <2>2, <2>4, SendMoves, Zenon
  <2>3. Written' = 2 /\ Given' = Given /\ UNCHANGED <<tx, TDH, _d, sending, torn, nested>>
    BY <2>2, <2>5
  <2> QED
    BY <1>7, <2>1, <2>2, <2>3 DEF Whole, Holds
<1>8. CASE pc[who] = "commit"
  <2>1. SendCommit(who) /\ pc'[who] = "wait"
    BY <1>8, SendGoes
  <2>2. /\ Written = 2 /\ sending = <<>> /\ Holds(TDH, who, "header")
        /\ Holds(NextTx(TDH), who, "data") /\ _d[who] = NextTx(TDH)
    BY <1>8 DEF Whole
  <2>3. Written' = 2 /\ Given' = 2 /\ UNCHANGED <<tx, TDH, _d, sending, torn, nested>>
    BY <2>1, <2>2, SendMoves
  <2> QED
    BY <1>8, <2>1, <2>2, <2>3 DEF Whole, Holds
<1>9. CASE pc[who] = "wait"
  <2>1. SendReturn(who) /\ pc'[who] \in {"idle", "release"}
    BY <1>9, SendGoes
  <2>2. Written' = Written /\ Given' = Given /\ ~Unsent(who) /\ UNCHANGED <<tx, TDH, _d, sending, torn, nested>>
    BY <2>1, SendMoves DEF txVars
  <2>3. Given = 0 /\ Written = 0 /\ sending = <<>>
    BY <1>9, <2>2 DEF Whole, Holds, Unsent
  <2> QED
    BY <1>9, <2>1, <2>2, <2>3 DEF Whole
<1> QED
  BY <1>4, <1>5, <1>6, <1>7, <1>8, <1>9, <1>10, SendGoes

\* The card sends the header, then the data, of the packet that is waited for.
LEMMA TransmitWhole ==
    ASSUME TypeOK, TypeOK', NEW who \in Contexts, Transmit, Whole(who), ~torn
    PROVE  Whole(who)' /\ ~torn' /\ UNCHANGED <<pc, nested>>
<1>0. Given <= Written
  BY GivenIsWritten
<1> USE SendsAre DEF One, Two
<1>1. /\ Given > 0 /\ Given' = Given - 1 /\ Written' = Written - 1
      /\ \A i \in TxSlots : Off(i) # 0 => tx'[i] = tx[i]
      /\ UNCHANGED <<TDT, tx_tail, _d, pc, nested>>
  BY <1>0, TransmitMoves
<1>2. /\ Given \in Nat /\ Off(NextTx(TDH)) = 1 /\ NextTx(TDH) \in TxSlots /\ TDH' = NextTx(TDH)
  BY TxPlaces DEF TypeOK, Transmit
<1>3. /\ sending' = IF tx[TDH].part = "data" THEN <<>> ELSE Append(sending, tx[TDH].who)
      /\ torn' = (torn \/ (tx[TDH].part = "data" /\ sending # <<tx[TDH].who>>))
  BY DEF Transmit
<1>4. pc[who] = "wait" /\ pc'[who] = "wait" /\ Written = Given
  BY <1>1 DEF Whole
<1>5. CASE Given = 2
  <2>1. /\ sending = <<>> /\ Holds(TDH, who, "header") /\ Holds(NextTx(TDH), who, "data")
        /\ _d[who] = NextTx(TDH)
    BY <1>4, <1>5 DEF Whole
  <2>2. sending' = <<who>> /\ ~torn'
    <3>1. tx[TDH].part = "header" /\ tx[TDH].who = who
      BY <2>1 DEF Holds
    <3>2. sending' = Append(<<>>, who) /\ ~torn'
      BY <1>3, <2>1, <3>1
    <3>3. Append(<<>>, who) = <<who>>
      OBVIOUS
    <3> QED
      BY <3>2, <3>3
  <2>3. Holds(TDH, who, "data")'
    BY <1>1, <1>2, <2>1 DEF Holds
  <2> QED
    BY <1>1, <1>2, <1>4, <1>5, <2>1, <2>2, <2>3 DEF Whole
<1>6. CASE Given = 1
  <2>1. sending = <<who>> /\ Holds(TDH, who, "data")
    BY <1>4, <1>6 DEF Whole
  <2>2. sending' = <<>> /\ torn' = FALSE
    BY <1>3, <2>1 DEF Holds
  <2> QED
    BY <1>1, <1>4, <1>6, <2>2 DEF Whole
<1> QED
  BY <1>1, <1>4, <1>5, <1>6 DEF Whole

LEMMA WholeSame ==
    ASSUME UNCHANGED txVars, NEW who \in Contexts, pc'[who] = pc[who], Whole(who)
    PROVE  Whole(who)'
<1>1. UNCHANGED <<tx, TDH, TDT, tx_tail, loaded, _d, sending>>
  BY DEF txVars
<1> QED
  BY <1>1, TxSame DEF Whole, Holds

LEMMA WholeStep ==
    ASSUME TypeOK, TypeOK', Contained, Contained', WholeInv, [Next]_vars
    PROVE  WholeInv'
<1>0. "main" \in Contexts /\ "irq" \in Contexts
  BY DEF Contexts
<1> USE SendsAre DEF One, Two
<1>1. CASE nested
  <2>1. nested' = TRUE \/ nested' = nested
    BY <1>1 DEF Next, e1000_init, e1000_int_enable, Card, Transmit, Overrun, Arrive, e1000_send_packet,
          Send, SendLoad, SendHeader, SendAdvance, SendData, SendCommit, SendReturn, e1000_int_handler, Handler,
          TakeFrame, Release, SkipFrame, e1000_read_packet, HandlerEnd, vars, txVars
  <2> QED
    BY <1>1, <2>1 DEF WholeInv
<1>2. CASE ~nested
  <2>0. ~torn /\ (pc.irq \in Sends => pc.main \in {"idle", "load_header"}) /\ Whole(Sender)
    BY <1>2 DEF WholeInv
  <2>1. CASE Transmit
    <3>1. Whole(Sender)' /\ ~torn' /\ UNCHANGED <<pc, nested>>
      <4>1. CASE pc.irq \in Sends
        BY <1>0, <2>0, <2>1, <4>1, TransmitWhole DEF Sender
      <4>2. CASE pc.irq \notin Sends
        BY <1>0, <2>0, <2>1, <4>2, TransmitWhole DEF Sender
      <4> QED
        BY <4>1, <4>2
    <3> QED
      BY <2>0, <3>1 DEF WholeInv
  <2>2. CASE Send("main")
    <3>1. pc.irq = "idle"
      BY <2>2 DEF Send, SendLoad, SendHeader, SendAdvance, SendData, SendCommit, SendReturn, Runs
    <3>2. pc'.irq = "idle"
      BY <1>0, <2>2, <3>1, SendGoes
    <3>3. Sender = "main" /\ Sender' = "main"
      BY <3>1, <3>2, SendsAre DEF Sender
    <3>4. Whole("main")' /\ UNCHANGED <<torn, nested>>
      BY <1>0, <2>0, <2>2, <3>3, SendWhole
    <3>5. Whole(Sender)'
      BY <3>2, <3>4, SendsAre DEF Sender
    <3> QED
      BY <2>0, <3>2, <3>4, <3>5, SendsAre DEF WholeInv
  <2>3. CASE Send("irq")
    <3>1. pc.irq \in Sends /\ pc'.main = pc.main /\ pc.main \in {"idle", "load_header"}
      BY <1>0, <2>0, <2>3, SendGoes
    <3>2. Whole("irq")' /\ UNCHANGED <<torn, nested>>
      BY <1>0, <2>0, <2>3, <3>1, SendWhole DEF Sender
    <3>3. CASE pc'.irq \in Sends
      BY <2>0, <3>1, <3>2, <3>3 DEF WholeInv, Sender
    <3>4. CASE pc'.irq \notin Sends
      <4>1. pc'.irq = "release"
        BY <1>0, <2>3, <3>4, SendGoes, SendsAre
      <4>2. Written' = 0 /\ Given' = 0 /\ sending' = <<>>
        BY <3>2, <4>1 DEF Whole
      <4>3. Whole("main")'
        BY <3>1, <4>2 DEF Whole
      <4> QED
        BY <2>0, <3>2, <3>4, <4>3 DEF WholeInv, Sender
    <3> QED
      BY <3>3, <3>4
  <2>4. CASE TakeFrame
    <3>1. pc.irq = "loop" /\ pc' \in {pc, [pc EXCEPT !.irq = "load_header"]}
      BY <2>4, OtherGoes
    <3>2. Whole("main") /\ pc.main \notin {"wait", "off", "rings"}
      BY <2>0, <3>1, SendsAre DEF Sender, Contained
    <3>3. UNCHANGED <<tx, TDH, TDT, tx_tail, loaded, _d, sending, torn>>
      BY <2>4 DEF TakeFrame
    <3>4. CASE pc' = pc
      <4>1. nested' = nested
        BY <2>4, <3>1, <3>4 DEF TakeFrame, Goto, TypeOK
      <4>2. Whole("main")'
        BY <1>0, <3>2, <3>3, <3>4, <4>1, WholeSame DEF txVars
      <4> QED
        BY <2>0, <3>1, <3>3, <3>4, <4>1, <4>2, SendsAre DEF WholeInv, Sender
    <3>5. CASE pc' = [pc EXCEPT !.irq = "load_header"]
      <4>1. pc'.irq = "load_header" /\ pc'.main = pc.main /\ pc' # pc
        BY <3>1, <3>5, SendsAre DEF TypeOK
      <4>2. nested' = (nested \/ InMain)
        BY <2>4, <4>1 DEF TakeFrame
      <4>3. CASE InMain
        BY <4>2, <4>3 DEF WholeInv
      <4>4. CASE ~InMain
        <5>1. pc.main \in {"idle", "load_header"}
          BY <3>2, <4>4, SendsAre DEF InMain, TypeOK, Places
        <5>2. Written = 0 /\ Given = 0 /\ sending = <<>>
          BY <3>2, <5>1 DEF Whole
        <5>3. Written' = 0 /\ Given' = 0 /\ sending' = <<>>
          BY <3>3, <5>2, TxSame
        <5>4. Whole("irq")'
          BY <4>1, <5>3 DEF Whole
        <5> QED
          BY <2>0, <3>3, <4>1, <5>1, <5>4, SendsAre DEF WholeInv, Sender
      <4> QED
        BY <4>3, <4>4
    <3> QED
      BY <3>1, <3>4, <3>5
  <2>5. CASE e1000_init
    <3>1. TDH' = 0 /\ TDT' = 0 /\ tx_tail' = 0 /\ 0 \in TxSlots /\ UNCHANGED <<sending, torn, nested>>
      BY <2>5, LinkAssumption DEF e1000_init, e1000_transmit_init, TxSlots
    <3>2. Written' = 0 /\ Given' = 0
      BY <3>1, TxRing DEF Written, Given, Off
    <3>3. pc.main = "off" /\ pc.irq = "idle" /\ pc'.main = "rings" /\ pc'.irq = "idle"
      BY <2>5, OtherGoes DEF TypeOK, Contained
    <3>4. sending = <<>>
      BY <2>0, <3>3, SendsAre DEF Whole, Sender
    <3>5. Whole("main")'
      BY <3>1, <3>2, <3>3, <3>4 DEF Whole
    <3> QED
      BY <2>0, <3>1, <3>3, <3>5, SendsAre DEF WholeInv, Sender
  <2>6. CASE e1000_int_enable \/ e1000_send_packet
    <3>1. UNCHANGED txVars
      BY <2>6 DEF e1000_int_enable, e1000_send_packet
    <3>2. pc.main \in {"rings", "idle"} /\ pc'.main \in {"idle", "load_header"} /\ pc.irq = "idle" /\ pc'.irq = "idle"
      BY <2>6, OtherGoes DEF TypeOK, Contained, e1000_send_packet, Runs
    <3>3. Written = 0 /\ Given = 0 /\ sending = <<>>
      BY <2>0, <3>2, SendsAre DEF Whole, Sender
    <3>4. Written' = 0 /\ Given' = 0 /\ sending' = <<>> /\ UNCHANGED <<torn, nested>>
      BY <3>1, <3>3, TxSame DEF txVars
    <3>5. Whole("main")'
      BY <3>2, <3>4 DEF Whole
    <3> QED
      BY <2>0, <3>2, <3>4, <3>5, SendsAre DEF WholeInv, Sender
  <2>7. ASSUME UNCHANGED txVars, pc'.main = pc.main,
               pc'.irq = pc.irq \/ (pc.irq \notin Sends /\ pc'.irq \notin Sends)
        PROVE WholeInv'
    <3>1. UNCHANGED <<torn, nested>>
      BY <2>7 DEF txVars
    <3>2. CASE pc.irq \in Sends
      <4>1. Whole("irq")'
        BY <1>0, <2>0, <2>7, <3>2, WholeSame DEF Sender
      <4> QED
        BY <2>0, <2>7, <3>1, <3>2, <4>1 DEF WholeInv, Sender
    <3>3. CASE pc.irq \notin Sends
      <4>1. Whole("main")'
        BY <1>0, <2>0, <2>7, <3>3, WholeSame DEF Sender
      <4> QED
        BY <2>0, <2>7, <3>1, <3>3, <4>1 DEF WholeInv, Sender
    <3> QED
      BY <3>2, <3>3
  <2>8. CASE e1000_int_handler \/ Release \/ HandlerEnd
    <3>1. UNCHANGED txVars
      BY <2>8 DEF e1000_int_handler, Release, HandlerEnd
    <3>2. pc'.main = pc.main /\ pc.irq \notin Sends /\ pc'.irq \notin Sends
      BY <2>8, OtherGoes, SendsAre DEF TypeOK
    <3> QED
      BY <2>7, <3>1, <3>2
  <2>9. CASE SkipFrame \/ e1000_read_packet \/ Overrun \/ UNCHANGED vars
    BY <2>7, <2>9 DEF SkipFrame, e1000_read_packet, Overrun, vars
  <2>10. ASSUME NEW status, NEW ask, Arrive(status, ask) PROVE WholeInv'
    BY <2>7, <2>10 DEF Arrive
  <2> QED
    BY <2>1, <2>2, <2>3, <2>4, <2>5, <2>6, <2>8, <2>9, <2>10 DEF Next, Handler, Card
<1> QED
  BY <1>1, <1>2

-----------------------------------------------------------------------------
(* The theorems.                                                           *)

LEMMA InitIInv == Init => IInv
<1> SUFFICES ASSUME Init PROVE IInv
  OBVIOUS
<1>0. 0 \in RxSlots /\ 0 \in TxSlots
  BY LinkAssumption DEF RxSlots, TxSlots
<1>1. Written = 0 /\ Given = 0
  BY <1>0, TxRing DEF Init, Written, Given, Off
<1>2. \A i \in RxSlots : ~Good(i)
  BY DEF Init, Good, Empty
<1>3. TypeOK
  BY <1>0, SendsAre DEF Init, TypeOK, RxDescs, TxDescs, Empty, Free, Places, Contexts
<1>4. Contained
  BY DEF Init, Contained
<1>5. RxInv
  <2>1. taken = 0 /\ stored.good = 0 /\ pc.main = "off"
    BY DEF Init
  <2> QED
    BY <1>2, <2>1 DEF RxInv, Behind, InFilled, Untaken, AllThere, Ordered, Counts
<1>6. Answering
  BY SendsAre DEF Init, Answering
<1>8. WholeInv
  <2>1. Sender = "main"
    BY SendsAre DEF Init, Sender
  <2>2. Whole("main")
    BY <1>1, SendsAre DEF Init, Whole, One, Two
  <2> QED
    BY <2>1, <2>2, SendsAre DEF Init, WholeInv
<1> QED
  BY <1>3, <1>4, <1>5, <1>6, <1>8 DEF IInv

LEMMA NextIInv == IInv /\ [Next]_vars => IInv'
<1> SUFFICES ASSUME IInv, [Next]_vars PROVE IInv'
  OBVIOUS
<1> USE DEF IInv
<1>1. TypeOK' /\ Contained'
  BY TypeStep, PlacesStep
<1>2. RxInv' /\ Answering'
  BY <1>1, RxStep
<1>4. WholeInv'
  BY <1>1, WholeStep
<1> QED
  BY <1>1, <1>2, <1>4

\* The card, the handler and the main line keep the two rings consistent.
THEOREM LinkInvariant == Spec => []IInv
BY InitIInv, NextIInv, PTL DEF Spec

\* e1000_read_packet gives the protocols every good frame once, in the order the card
\* stored them.
THEOREM FramesInOrder == Spec => DeliveredInOrder
<1>1. IInv /\ IInv' /\ [Next]_vars => [taken' # taken => taken' = taken + 1]_vars
  BY RxStep DEF IInv
<1> QED
  BY <1>1, LinkInvariant, PTL DEF Spec, DeliveredInOrder

\* e1000_send_packet never writes a descriptor the card has still to send, as long as
\* the handler has not sent in the middle of a send of the main line.
THEOREM OwnedStaysUntouched == Spec => OwnedUntouched
<1>1. IInv /\ IInv' /\ [Next]_vars => [~nested => \A i \in TxOwned \cap TxOwned' : tx'[i] = tx[i]]_vars
  BY OwnedStep DEF IInv
<1> QED
  BY <1>1, LinkInvariant, PTL DEF Spec, OwnedUntouched

\* Every frame on the wire is one packet's header and data, unless the handler sent in
\* the middle of a send of the main line.
THEOREM FramesAreWhole == Spec => []WholeFrames
<1>1. IInv => WholeFrames
  BY DEF IInv, WholeInv, WholeFrames
<1> QED
  BY <1>1, LinkInvariant, PTL
=============================================================================
