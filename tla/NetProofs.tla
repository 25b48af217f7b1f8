----------------------------- MODULE NetProofs -----------------------------
(***************************************************************************)
(* Net, for any network: any stations, DHCP servers, names and numbers of  *)
(* polls, any length of the tables.                                        *)
(***************************************************************************)
EXTENDS Net, SequenceTheorems, NaturalsInduction, WellFoundedInduction, TLAPS

-----------------------------------------------------------------------------
(* The inductive invariant.                                                *)

\* The entries the tables may hold: replies of the station that has the address,
\* offers of the server that made them, and names with their own address, unless
\* the name is spoilt.
ArpEntries == {[ip |-> a, mac |-> Holder[a]] : a \in DOMAIN Holder}
OfferEntries == {[server |-> s, offered |-> OfferOf[s]] : s \in Servers}
Hosts == {HostOf[d] : d \in DOMAIN HostOf}
NameEntries ==
    {[domain |-> d, ip |-> HostOf[d]] : d \in DOMAIN HostOf} \cup [domain : {Junk}, ip : Hosts]
ConnEntries == [port : {OurPort}, syn : BOOLEAN, ack : Nat]

Tables ==
    /\ arp_list \in Seq(ArpEntries)
    /\ offers \in Seq(OfferEntries)
    /\ dns_ip_cache \in Seq(NameEntries)
    /\ tcp_syn_cache \in Seq(ConnEntries)
    /\ syn_c \in Nat

\* A packet the boot code waits to send, or whose answer it waits for.
QueryPacket(p) ==
    /\ p = Udp(p.dst, [op |-> "query", domain |-> p.body.domain])
    /\ p.body.domain \in DOMAIN HostOf
TcpPacket(p) ==
    /\ p = [type |-> "tcp", dst |-> p.dst,
            body |-> [op |-> p.body.op, port |-> OurPort, seq |-> p.body.seq, ack |-> p.body.ack]]
    /\ p.body.op \in {"syn", "data"} /\ p.body.seq \in Nat

Dhcp == {"start", "offers", "probe", "probing", "claim"}
BootShape ==
    /\ boot = [pc |-> boot.pc, left |-> boot.left, i |-> boot.i, pkt |-> boot.pkt]
    /\ boot.pc \in Dhcp \cup {"idle", "resolve", "answer", "synack"}
    /\ boot.pc \in {"probe", "probing", "claim"} => boot.i \in Nat \ {0}
    /\ boot.pc = "resolve" => QueryPacket(boot.pkt) \/ TcpPacket(boot.pkt)
    /\ boot.pc = "answer" => QueryPacket(boot.pkt)
    /\ boot.pc = "synack" => TcpPacket(boot.pkt)

\* What was sent can be answered: queries ask for names, connections use our port.
Answerable(f) ==
    /\ f.type = "udp" /\ f.body.op = "query" => f.body.domain \in DOMAIN HostOf
    /\ f.type = "tcp" /\ f.body.op \in {"syn", "data"} => f.body.port = OurPort /\ f.body.seq \in Nat
SentShape == \A f \in sent : Answerable(f)

\* The probe of an address that is about to be claimed.
Probing ==
    /\ boot.pc \in {"probing", "claim"} =>
        /\ boot.i \in DOMAIN offers
        /\ arp_request(offers[boot.i].offered) \in sent
    /\ boot.pc = "claim" =>
        /\ boot.left \in 0 .. Len(arp_list)
        /\ \A k \in 1 .. boot.left : arp_list[k].ip # offers[boot.i].offered

\* A claim's probe was looked at to an end that the table has reached.
ClaimBounded == \A r \in Requests : r.at \in 0 .. Len(arp_list)

\* dhcp_init leaves its loop with the first claim.
OneRequest ==
    /\ boot.pc \in Dhcp => Requests = {}
    /\ \A r, q \in Requests : r = q

Unset == [ip |-> None, netmask |-> None, gateway |-> None, dns |-> None]
Settings ==
    \/ ipv4 = Unset
    \/ \E r \in Requests : ipv4 = Configured(r.server, r.addr, Unset)

\* The name in found is the one that is being asked for.
Asked ==
    /\ DOMAIN found = {"domain", "ip"}
    /\ found.ip # None => found.domain \in DOMAIN HostOf
    /\ boot.pc \in {"resolve", "answer"} /\ boot.pkt.type = "udp" =>
        found.domain = boot.pkt.body.domain

\* Only the first entry of our port is ever marked.
OnlyFirst ==
    /\ \A k \in DOMAIN tcp_syn_cache : tcp_syn_cache[k].syn => k = 1
    /\ OurPort \in DOMAIN last

IInv ==
    /\ Tables /\ BootShape /\ SentShape
    /\ FramesResolved
    /\ Probing /\ ClaimBounded /\ ClaimProbed
    /\ OneRequest /\ Settings
    /\ Asked /\ AnswerIsForName
    /\ OnlyFirst /\ OpenIsAcked

-----------------------------------------------------------------------------
(* Looking up a table.                                                     *)

\* A set of naturals has a least element, which is what Min chooses.
LEMMA MinIn ==
    ASSUME NEW I \in SUBSET Nat, I # {}
    PROVE  Min(I) \in I /\ \A y \in I : Min(I) <= y
<1> DEFINE R == OpToRel(<, Nat)
<1>1. PICK x \in I : \A y \in I : ~ (<<y, x>> \in R)
  BY NatLessThanWellFounded, WFMin, Zenon
<1>2. \A y \in I : ~ (y < x)
  BY <1>1 DEF OpToRel
<1>3. \A y \in I : x <= y
  BY <1>2
<1> QED
  BY <1>3 DEF Min

\* arp_get_mac finds the station that holds the address.
LEMMA MacKnown ==
    ASSUME Tables, NEW ip, Known(ip)
    PROVE  ip \in DOMAIN Holder /\ MacOf(ip) = Holder[ip]
<1> DEFINE I == {i \in 1 .. Len(arp_list) : arp_list[i].ip = ip}
<1>1. Len(arp_list) \in Nat /\ DOMAIN arp_list = 1 .. Len(arp_list)
  BY LenProperties DEF Tables
<1>2. I # {} /\ I \in SUBSET Nat
  BY <1>1 DEF Known
<1>3. Min(I) \in I
  BY <1>2, MinIn
<1>4. MacOf(ip) = arp_list[Min(I)].mac
  BY <1>2 DEF MacOf, SelectInSeq
<1>5. arp_list[Min(I)] \in ArpEntries
  BY <1>1, <1>3, ElementOfSeq DEF Tables
<1>6. PICK a \in DOMAIN Holder : arp_list[Min(I)] = [ip |-> a, mac |-> Holder[a]]
  BY <1>5 DEF ArpEntries
<1>7. arp_list[Min(I)].ip = ip
  BY <1>3
<1> QED
  BY <1>4, <1>6, <1>7

\* dns_query_ipv4 finds the address of a name that is not spoilt.
LEMMA NameKnown ==
    ASSUME Tables, NEW d \in DOMAIN HostOf, Cached(d)
    PROVE  CachedIp(d) = HostOf[d]
<1> DEFINE I == {i \in 1 .. Len(dns_ip_cache) : dns_ip_cache[i].domain = d}
<1>1. Len(dns_ip_cache) \in Nat /\ DOMAIN dns_ip_cache = 1 .. Len(dns_ip_cache)
  BY LenProperties DEF Tables
<1>2. I # {} /\ I \in SUBSET Nat
  BY <1>1 DEF Cached
<1>3. Min(I) \in I
  BY <1>2, MinIn
<1>4. CachedIp(d) = dns_ip_cache[Min(I)].ip
  BY <1>2 DEF CachedIp, SelectInSeq
<1>5. dns_ip_cache[Min(I)] \in NameEntries
  BY <1>1, <1>3, ElementOfSeq DEF Tables
<1>6. dns_ip_cache[Min(I)].domain = d
  BY <1>3
<1>7. dns_ip_cache[Min(I)] \notin [domain : {Junk}, ip : Hosts]
  BY <1>6, NetAssumption
<1>8. PICK e \in DOMAIN HostOf : dns_ip_cache[Min(I)] = [domain |-> e, ip |-> HostOf[e]]
  BY <1>5, <1>7 DEF NameEntries
<1> QED
  BY <1>4, <1>6, <1>8

-----------------------------------------------------------------------------
(* What is sent.                                                           *)

\* The part of FramesResolved about one frame.
Addressed(f) ==
    f.type \in {"udp", "tcp"} =>
        IF f.dst = All THEN f.mac = All
        ELSE f.via \in DOMAIN Holder /\ f.mac = Holder[f.via]

IsRequest(f) == f.type = "udp" /\ f.body.op = "request"

\* ipv4_send_packet sends the packet to a resolved address, or a question.
LEMMA OutFacts ==
    ASSUME Tables, NEW p, Answerable(p), NEW f \in Out(p)
    PROVE  /\ Addressed(f) /\ Answerable(f)
           /\ IsRequest(f) => IsRequest(p) /\ f.body = p.body
<1>1. CASE Resolved(p)
  <2>1. f = Frame(p)
    BY <1>1 DEF Out
  <2>2. f.type = p.type /\ f.body = p.body /\ f.dst = p.dst /\ f.via = ipv4.gateway
    BY <2>1 DEF Frame
  <2>3. f.mac = IF p.dst = All THEN All ELSE MacOf(ipv4.gateway)
    BY <2>1 DEF Frame
  <2> QED
    BY <1>1, <2>2, <2>3, MacKnown DEF Resolved, Addressed, Answerable, IsRequest
<1>2. CASE ~Resolved(p)
  <2>1. f.type = "arp_request"
    BY <1>2 DEF Out, arp_request
  <2> QED
    BY <2>1 DEF Addressed, Answerable, IsRequest
<1> QED
  BY <1>1, <1>2

\* What a step adds to sent.
NewFrames(X) ==
    /\ sent' = sent \cup X
    /\ \A f \in X : Addressed(f) /\ Answerable(f)
    /\ \A f \in X : IsRequest(f) => Claim /\ f.body = Request(boot.i).body

\* A packet that is no claim adds no claim.
LEMMA SendFrames ==
    ASSUME Tables, NEW p, Answerable(p), ~IsRequest(p), sent' = sent \cup Out(p)
    PROVE  NewFrames(Out(p))
BY OutFacts DEF NewFrames

\* The packets the boot code sends when it resumes.
LEMMA PacketsAnswerable ==
    ASSUME NEW p, QueryPacket(p) \/ TcpPacket(p)
    PROVE  Answerable(p) /\ ~IsRequest(p)
<1>1. CASE QueryPacket(p)
  <2>1. p.type = "udp" /\ p.body.op = "query"
    BY <1>1 DEF QueryPacket, Udp
  <2> QED
    BY <1>1, <2>1 DEF QueryPacket, Answerable, IsRequest
<1>2. CASE TcpPacket(p)
  <2>1. p.type = "tcp" /\ p.body.port = OurPort
    BY <1>2 DEF TcpPacket
  <2> QED
    BY <1>2, <2>1 DEF TcpPacket, Answerable, IsRequest
<1> QED
  BY <1>1, <1>2

LEMMA QueryIsPacket ==
    ASSUME NEW dst, NEW d \in DOMAIN HostOf
    PROVE  QueryPacket(Udp(dst, [op |-> "query", domain |-> d]))
BY DEF QueryPacket, Udp

LEMMA TcpIsPacket ==
    ASSUME Tables, NEW dst, NEW op \in {"syn", "data"}, NEW ack
    PROVE  TcpPacket(Tcp(dst, op, OurPort, 0, ack))
BY DEF TcpPacket, Tcp, Tables

\* The answers of tcp_receive_packet open nothing.
LEMMA ReplyAnswerable ==
    ASSUME NEW p, NEW op \in {"ack", "finack"}, NEW ack
    PROVE  Answerable(Reply(p, op, ack)) /\ ~IsRequest(Reply(p, op, ack))
BY DEF Answerable, IsRequest, Reply, Tcp

\* Every step adds only frames that are addressed and can be answered, and only
\* Claim claims.
LEMMA FramesStep ==
    ASSUME Tables, BootShape, [Next]_vars
    PROVE  \E X : NewFrames(X)
<1>0. ASSUME UNCHANGED sent PROVE NewFrames({})
  BY <1>0 DEF NewFrames
<1>1. CASE DhcpInit
  <2>1. Answerable(Discover) /\ ~IsRequest(Discover)
    BY DEF Discover, Udp, Answerable, IsRequest
  <2>2. sent' = sent \cup Out(Discover)
    BY <1>1 DEF DhcpInit
  <2> QED
    BY <2>1, <2>2, SendFrames
<1>2. CASE Probe
  <2>1. CASE Known(offers[boot.i].offered)
    BY <1>0, <1>2, <2>1 DEF Probe
  <2>2. CASE ~Known(offers[boot.i].offered)
    <3> DEFINE f == arp_request(offers[boot.i].offered)
    <3>1. sent' = sent \cup {f}
      BY <1>2, <2>2 DEF Probe
    <3>2. f.type = "arp_request"
      BY DEF arp_request
    <3>3. Addressed(f) /\ Answerable(f) /\ ~IsRequest(f)
      BY <3>2 DEF Addressed, Answerable, IsRequest
    <3>4. NewFrames({f})
      BY <3>1, <3>3 DEF NewFrames
    <3> QED
      BY <3>4
  <2> QED
    BY <2>1, <2>2
<1>3. CASE Claim
  <2> DEFINE p == Request(boot.i)
  <2>1. Answerable(p)
    BY DEF Request, Udp, Answerable
  <2>2. sent' = sent \cup Out(p)
    BY <1>3 DEF Claim
  <2>3. NewFrames(Out(p))
    BY <1>3, <2>1, <2>2, OutFacts DEF NewFrames
  <2> QED
    BY <2>3
<1>4. CASE PollResolve
  <2>1. CASE Known(boot.i)
    <3>1. boot.pc = "resolve" /\ sent' = sent \cup Out(boot.pkt)
      BY <1>4, <2>1 DEF PollResolve, Send, At
    <3>2. Answerable(boot.pkt) /\ ~IsRequest(boot.pkt)
      BY <3>1, PacketsAnswerable DEF BootShape
    <3> QED
      BY <3>1, <3>2, SendFrames
  <2>2. CASE ~Known(boot.i)
    BY <1>0, <1>4, <2>2 DEF PollResolve
  <2> QED
    BY <2>1, <2>2
<1>5. CASE PollSyn
  <2>1. CASE Established # {}
    <3>1. PICK k \in Established :
             sent' = sent \cup Out(Tcp(boot.pkt.dst, "data", OurPort, 0, tcp_syn_cache[k].ack))
      BY <1>5, <2>1 DEF PollSyn, Send
    <3> DEFINE p == Tcp(boot.pkt.dst, "data", OurPort, 0, tcp_syn_cache[k].ack)
    <3>2. TcpPacket(p)
      BY TcpIsPacket
    <3> HIDE DEF p
    <3>3. NewFrames(Out(p))
      BY <3>1, <3>2, SendFrames, PacketsAnswerable DEF p
    <3> QED
      BY <3>3
  <2>2. CASE Established = {}
    BY <1>0, <1>5, <2>2 DEF PollSyn
  <2> QED
    BY <2>1, <2>2
<1>6. ASSUME NEW m, NEW t, ReceiveArpRequest([ip |-> None, mac |-> m, target |-> t])
      PROVE \E X : NewFrames(X)
  <2> DEFINE f == [type |-> "arp_reply", mac |-> m, ip |-> None]
  <2>1. sent' = sent \cup {f}
    BY <1>6 DEF ReceiveArpRequest
  <2>2. Addressed(f) /\ Answerable(f) /\ ~IsRequest(f)
    BY DEF Addressed, Answerable, IsRequest
  <2>3. NewFrames({f})
    BY <2>1, <2>2 DEF NewFrames
  <2> QED
    BY <2>3
<1>7. ASSUME NEW p \in Segments, ReceiveSynAck(p) PROVE \E X : NewFrames(X)
  <2>1. sent' = sent \cup Out(Reply(p, "ack", p.seq + 1))
    BY <1>7 DEF ReceiveSynAck
  <2> QED
    BY <2>1, SendFrames, ReplyAnswerable
<1>8. ASSUME NEW p \in Segments, ReceiveSegment(p) PROVE \E X : NewFrames(X)
  <2> DEFINE heard == IF p.port \in tcp_listeners /\ p.len > 0 THEN 1 ELSE 0
             op == IF "ack" \in p.flags THEN "ack" ELSE "finack"
             seq == IF p.ack = 0 THEN Taken(p, heard) ELSE Reply(p, op, p.seq + 1).body.seq
             answer == [Reply(p, op, p.seq + 1) EXCEPT !.body.seq = seq]
             A == IF heard = 1 THEN Out(Reply(p, "ack", p.seq + p.len)) ELSE {}
             B == IF (IF "fin" \in p.flags THEN 1 ELSE 0) = 1 THEN Out(answer) ELSE {}
  <2>1. sent' = sent \cup (A \cup B)
    BY <1>8, Zenon DEF ReceiveSegment
  <2> HIDE DEF seq, heard
  <2>0. Answerable(answer) /\ ~IsRequest(answer)
    BY DEF Answerable, IsRequest, Reply, Tcp
  <2>2. \A f \in A : Addressed(f) /\ Answerable(f) /\ ~IsRequest(f)
    BY ReplyAnswerable, OutFacts
  <2> HIDE DEF answer
  <2>3. \A f \in B : Addressed(f) /\ Answerable(f) /\ ~IsRequest(f)
    BY <2>0, OutFacts
  <2> HIDE DEF A, B
  <2>4. NewFrames(A \cup B)
    BY <2>1, <2>2, <2>3 DEF NewFrames
  <2> QED
    BY <2>4
<1>9. ASSUME NEW d \in DOMAIN HostOf, Query(d) PROVE \E X : NewFrames(X)
  <2>1. CASE Cached(d)
    BY <1>0, <1>9, <2>1 DEF Query
  <2>2. CASE ~Cached(d)
    <3> DEFINE p == Udp(ipv4.dns, [op |-> "query", domain |-> d])
    <3>1. sent' = sent \cup Out(p)
      BY <1>9, <2>2 DEF Query, Send
    <3>2. QueryPacket(p)
      BY QueryIsPacket
    <3> HIDE DEF p
    <3>3. NewFrames(Out(p))
      BY <3>1, <3>2, SendFrames, PacketsAnswerable
    <3> QED
      BY <3>3
  <2> QED
    BY <2>1, <2>2
<1>10. CASE Connect
  <2> DEFINE p == Tcp(found.ip, "syn", OurPort, 0, 0)
  <2>1. sent' = sent \cup Out(p)
    BY <1>10 DEF Connect, Send
  <2>2. TcpPacket(p)
    BY TcpIsPacket
  <2> HIDE DEF p
  <2>3. NewFrames(Out(p))
    BY <2>1, <2>2, SendFrames, PacketsAnswerable
  <2> QED
    BY <2>3
<1>11. CASE PollOffers \/ ProbeEnds \/ PollProbe \/ PollAnswer
  BY <1>0, <1>11 DEF PollOffers, ProbeEnds, PollProbe, PollAnswer
<1>12. ASSUME NEW p, ReceiveOffer(p) \/ ReceiveAck(p) \/ ReceiveDns(p) \/ ReceiveArpReply(p)
       PROVE \E X : NewFrames(X)
  BY <1>0, <1>12 DEF ReceiveOffer, ReceiveAck, ReceiveDns, ReceiveArpReply
<1>13. CASE UNCHANGED vars
  BY <1>0, <1>13 DEF vars
<1> QED
  BY <1>1, <1>2, <1>3, <1>4, <1>5, <1>6, <1>7, <1>8, <1>9, <1>10, <1>11, <1>12, <1>13
  DEF Next, BootStep, ethernet_process_packet, arp_receive_packet, ipv4_receive_packet,
      udp_receive_packet, tcp_receive_packet, Calls

-----------------------------------------------------------------------------
(* The tables.                                                             *)

\* A table that keeps its entries where they are.
Kept(s, t) == Len(s) <= Len(t) /\ \A k \in 1 .. Len(s) : t[k] = s[k]

LEMMA AppendKeeps ==
    ASSUME NEW S, NEW s \in Seq(S), NEW e \in S
    PROVE  Append(s, e) \in Seq(S) /\ Kept(s, Append(s, e))
BY AppendProperties DEF Kept

LEMMA SameKeeps ==
    ASSUME NEW S, NEW s \in Seq(S)
    PROVE  Kept(s, s)
BY LenProperties DEF Kept

\* All connections use one port, so the loops of tcp_receive_packet stop at entry 1.
LEMMA MarkedFacts ==
    ASSUME Tables, NEW port, NEW syn \in BOOLEAN, NEW ack \in Nat
    PROVE  /\ Marked(port, syn, ack) \in Seq(ConnEntries)
           /\ DOMAIN Marked(port, syn, ack) = DOMAIN tcp_syn_cache
           /\ \A k \in DOMAIN tcp_syn_cache :
                Marked(port, syn, ack)[k] =
                    IF k = 1 /\ port = OurPort THEN [port |-> port, syn |-> syn, ack |-> ack]
                    ELSE tcp_syn_cache[k]
<1> DEFINE n == Len(tcp_syn_cache)
           M == Marked(port, syn, ack)
<1>1. n \in Nat /\ DOMAIN tcp_syn_cache = 1 .. n
  BY LenProperties DEF Tables
<1>2. \A k \in 1 .. n : tcp_syn_cache[k] \in ConnEntries
  BY <1>1, ElementOfSeq DEF Tables
<1>3. \A k \in 1 .. n : tcp_syn_cache[k].port = OurPort
  BY <1>2 DEF ConnEntries
<1>4. \A k \in 1 .. n : k \in FirstOf(port) <=> k = 1 /\ port = OurPort
  <2> TAKE k \in 1 .. n
  <2>1. CASE k = 1
    BY <1>1, <1>3, <2>1 DEF FirstOf
  <2>2. CASE k # 1
    <3>1. 1 \in 1 .. k - 1 /\ 1 \in 1 .. n
      BY <1>1, <2>2
    <3>2. ASSUME k \in FirstOf(port) PROVE FALSE
      <4>1. tcp_syn_cache[k].port = port /\ tcp_syn_cache[1].port # port
        BY <3>1, <3>2 DEF FirstOf
      <4> QED
        BY <1>3, <3>1, <4>1
    <3> QED
      BY <2>2, <3>2
  <2> QED
    BY <2>1, <2>2
<1>5. M = [k \in 1 .. n |-> IF k \in FirstOf(port) THEN [port |-> port, syn |-> syn, ack |-> ack]
                            ELSE tcp_syn_cache[k]]
  BY <1>1 DEF Marked
<1> HIDE DEF M
<1>6. \A k \in 1 .. n :
         M[k] = IF k = 1 /\ port = OurPort THEN [port |-> port, syn |-> syn, ack |-> ack]
                ELSE tcp_syn_cache[k]
  BY <1>4, <1>5
<1>7. \A k \in 1 .. n : M[k] \in ConnEntries
  BY <1>2, <1>6 DEF ConnEntries
<1>8. M \in [1 .. n -> ConnEntries]
  BY <1>5, <1>7
<1>9. M \in Seq(ConnEntries)
  BY <1>1, <1>8, SeqDef
<1> QED
  BY <1>1, <1>5, <1>6, <1>9 DEF M

\* A segment is for our port or for one that has no connection, and its number is one.
LEMMA SegmentFacts ==
    ASSUME SentShape, NEW p \in Segments
    PROVE  p.ack \in Nat
<1>1. CASE \E f \in sent : f.type = "tcp" /\ f.body.op \in {"syn", "data"} /\ p.ack = f.body.seq + 1
  BY <1>1 DEF SentShape, Answerable
<1>2. CASE p \in Strangers
  BY <1>2, NetAssumption
<1> QED
  BY <1>1, <1>2 DEF Segments

\* Each step leaves a table alone or appends an entry of its kind.
LEMMA TablesStep ==
    ASSUME Tables, SentShape, [Next]_vars
    PROVE  Tables' /\ Kept(arp_list, arp_list') /\ Kept(offers, offers')
<1> DEFINE Goal == Tables' /\ Kept(arp_list, arp_list') /\ Kept(offers, offers')
<1> USE DEF Tables
<1>0. Kept(arp_list, arp_list) /\ Kept(offers, offers)
  BY SameKeeps
<1>1. ASSUME UNCHANGED <<arp_list, offers, dns_ip_cache, tcp_syn_cache, syn_c>> PROVE Goal
  BY <1>0, <1>1
<1>2. CASE DhcpInit \/ PollOffers \/ ProbeEnds \/ Probe \/ PollProbe \/ Claim \/ PollResolve
           \/ PollAnswer \/ UNCHANGED vars
  BY <1>1, <1>2 DEF DhcpInit, PollOffers, ProbeEnds, Probe, PollProbe, Claim, PollResolve,
                    PollAnswer, vars, tables, conns
<1>3. CASE PollSyn
  <2>1. syn_c' = syn_c \/ syn_c' = syn_c + 1
    BY <1>3 DEF PollSyn, SynCount
  <2> QED
    BY <1>0, <1>3, <2>1 DEF PollSyn, tables
<1>4. CASE Connect
  <2>1. Append(tcp_syn_cache, [port |-> OurPort, syn |-> FALSE, ack |-> 0]) \in Seq(ConnEntries)
    BY AppendKeeps DEF ConnEntries
  <2>2. syn_c' = syn_c + 1
    BY <1>4 DEF Connect, SynCount
  <2> QED
    BY <1>0, <1>4, <2>1, <2>2 DEF Connect, tables
<1>5. ASSUME NEW d, Query(d) PROVE Goal
  BY <1>1, <1>5 DEF Query, tables, conns
<1>6. ASSUME NEW p, ReceiveArpRequest(p) \/ ReceiveAck(p) PROVE Goal
  BY <1>1, <1>6 DEF ReceiveArpRequest, ReceiveAck, tables, conns
<1>7. ASSUME NEW p \in ArpReplies, ReceiveArpReply(p) PROVE Goal
  <2>1. [ip |-> p.ip, mac |-> p.mac] \in ArpEntries
    BY DEF ArpReplies, ArpEntries
  <2> QED
    BY <1>0, <1>7, <2>1, AppendKeeps DEF ReceiveArpReply, conns
<1>8. ASSUME NEW p \in Offers, ReceiveOffer(p) PROVE Goal
  <2>1. p.server \in Servers
    BY DEF Offers
  <2>2. [server |-> p.server, offered |-> OfferOf[p.server]] \in OfferEntries
    BY <2>1 DEF OfferEntries
  <2> QED
    BY <1>0, <1>8, <2>2, AppendKeeps DEF ReceiveOffer, conns
<1>9. ASSUME NEW p \in Answers, ReceiveDns(p) PROVE Goal
  <2>1. PICK f \in sent : f.type = "udp" /\ f.body.op = "query"
                          /\ p = [domain |-> f.body.domain, ip |-> HostOf[f.body.domain]]
    BY DEF Answers, Bodies
  <2>2. p.domain \in DOMAIN HostOf /\ p.ip = HostOf[p.domain]
    BY <2>1 DEF SentShape, Answerable
  <2>3. PICK d \in {p.domain, Junk} : dns_ip_cache' = Append(dns_ip_cache, [domain |-> d, ip |-> p.ip])
    BY <1>9 DEF ReceiveDns
  <2>4. [domain |-> d, ip |-> p.ip] \in NameEntries
    BY <2>2 DEF NameEntries, Hosts
  <2> QED
    BY <1>0, <1>9, <2>3, <2>4, AppendKeeps DEF ReceiveDns, conns
<1>10. ASSUME NEW p \in Segments, ReceiveSynAck(p) PROVE Goal
  <2>1. Marked(p.port, TRUE, p.ack) \in Seq(ConnEntries)
    BY MarkedFacts, SegmentFacts
  <2>2. syn_c' \in Nat
    BY <1>10 DEF ReceiveSynAck, Taken
  <2> QED
    BY <1>0, <1>10, <2>1, <2>2 DEF ReceiveSynAck, tables
<1>11. ASSUME NEW p \in Segments, ReceiveSegment(p) PROVE Goal
  <2>1. Marked(p.port, FALSE, 0) \in Seq(ConnEntries)
    BY MarkedFacts
  <2>2. syn_c' \in Nat
    BY <1>11 DEF ReceiveSegment, Taken
  <2>3. tcp_syn_cache' \in Seq(ConnEntries)
    BY <1>11, <2>1 DEF ReceiveSegment
  <2>4. UNCHANGED <<arp_list, offers, dns_ip_cache>>
    BY <1>11 DEF ReceiveSegment, tables
  <2> QED
    BY <1>0, <2>2, <2>3, <2>4
<1> QED
  BY <1>2, <1>3, <1>4, <1>5, <1>6, <1>7, <1>8, <1>9, <1>10, <1>11
  DEF Next, BootStep, ethernet_process_packet, arp_receive_packet, ipv4_receive_packet,
      udp_receive_packet, tcp_receive_packet, Calls

-----------------------------------------------------------------------------
(* The frames and the claims.                                              *)

LEMMA FramesKept ==
    ASSUME FramesResolved, SentShape, NEW X, NewFrames(X)
    PROVE  FramesResolved' /\ SentShape' /\ sent \subseteq sent'
<1>1. \A f \in sent' : f \in sent \/ f \in X
  BY DEF NewFrames
<1>2. \A f \in sent' : Addressed(f)
  BY <1>1 DEF NewFrames, FramesResolved, Addressed
<1>3. \A f \in sent' : Answerable(f)
  BY <1>1 DEF NewFrames, SentShape
<1> QED
  BY <1>2, <1>3 DEF FramesResolved, Addressed, SentShape, Answerable, NewFrames

\* A claim is the body of a frame.
LEMMA RequestFrame ==
    /\ \A r \in Requests : \E f \in sent : IsRequest(f) /\ r = f.body
    /\ \A f \in sent : IsRequest(f) => f.body \in Requests
BY DEF Requests, Bodies, IsRequest

LEMMA RequestFrameNext ==
    /\ \A r \in Requests' : \E f \in sent' : IsRequest(f) /\ r = f.body
    /\ \A f \in sent' : IsRequest(f) => f.body \in Requests'
BY DEF Requests, Bodies, IsRequest

\* Only Claim claims, and one address.
LEMMA RequestsStep ==
    ASSUME NEW X, NewFrames(X)
    PROVE  /\ Requests \subseteq Requests'
           /\ \A r \in Requests' : r \in Requests \/ (Claim /\ r = Request(boot.i).body)
<1>1. ASSUME NEW r \in Requests PROVE r \in Requests'
  <2>1. PICK f \in sent : IsRequest(f) /\ r = f.body
    BY RequestFrame
  <2> QED
    BY <2>1, RequestFrameNext DEF NewFrames
<1>2. ASSUME NEW r \in Requests' PROVE r \in Requests \/ (Claim /\ r = Request(boot.i).body)
  <2>1. PICK f \in sent' : IsRequest(f) /\ r = f.body
    BY RequestFrameNext
  <2>2. CASE f \in sent
    BY <2>1, <2>2, RequestFrame
  <2>3. CASE f \in X
    BY <2>1, <2>3 DEF NewFrames
  <2> QED
    BY <2>2, <2>3 DEF NewFrames
<1> QED
  BY <1>1, <1>2

-----------------------------------------------------------------------------
(* The boot code.                                                          *)

\* After ipv4_send_packet the boot code waits for a MAC, for an answer, or for nothing.
LEMMA SendBoot ==
    ASSUME NEW p, QueryPacket(p) \/ TcpPacket(p),
           boot' \in {Sent(p), NotSent(p),
                      [pc |-> "resolve", left |-> ArpPolls, i |-> Missing(p), pkt |-> p]}
    PROVE  /\ BootShape'
           /\ boot'.pc \in {"idle", "resolve", "answer", "synack"}
           /\ boot'.pc \in {"resolve", "answer"} => boot'.pkt = p
<1>1. ASSUME boot'.pc \in {"idle", "resolve", "answer", "synack"},
             boot' = [pc |-> boot'.pc, left |-> boot'.left, i |-> boot'.i, pkt |-> boot'.pkt],
             boot'.pc \in {"resolve", "answer", "synack"} => boot'.pkt = p,
             boot'.pc = "answer" => QueryPacket(p),
             boot'.pc = "synack" => TcpPacket(p)
      PROVE BootShape'
  <2>1. boot'.pc \in {"resolve", "answer", "synack"} =>
            (QueryPacket(boot.pkt)' <=> QueryPacket(p)) /\ (TcpPacket(boot.pkt)' <=> TcpPacket(p))
    BY <1>1 DEF QueryPacket, TcpPacket, Udp
  <2> QED
    BY <1>1, <2>1 DEF BootShape, Dhcp
<1>2. CASE QueryPacket(p)
  <2>1. p.body.op = "query"
    BY <1>2 DEF QueryPacket, Udp
  <2>2. \/ boot' = Idle
        \/ boot' = [pc |-> "answer", left |-> AnswerPolls, i |-> 0, pkt |-> p]
        \/ boot' = [pc |-> "resolve", left |-> ArpPolls, i |-> Missing(p), pkt |-> p]
    BY <2>1 DEF Sent, NotSent, Idle
  <2> QED
    BY <1>1, <1>2, <2>2 DEF Idle
<1>3. CASE TcpPacket(p)
  <2>1. p.body.op \in {"syn", "data"}
    BY <1>3 DEF TcpPacket
  <2>2. \/ boot' = Idle
        \/ boot' = [pc |-> "synack", left |-> SynPolls, i |-> 0, pkt |-> p]
        \/ boot' = [pc |-> "resolve", left |-> ArpPolls, i |-> Missing(p), pkt |-> p]
    BY <2>1 DEF Sent, NotSent, Idle
  <2> QED
    BY <1>1, <1>3, <2>2 DEF Idle
<1> QED
  BY <1>2, <1>3

\* How a step moves the boot code: not at all, by sending, by a turn of a waiting loop,
\* or through dhcp_init.
Turn == boot.pc \in {"offers", "resolve", "answer", "synack"} /\ boot' = [boot EXCEPT !.left = @ - 1]
Sends(p) ==
    /\ QueryPacket(p) \/ TcpPacket(p)
    /\ boot' \in {Sent(p), NotSent(p),
                  [pc |-> "resolve", left |-> ArpPolls, i |-> Missing(p), pkt |-> p]}

LEMMA BootMoves ==
    ASSUME Tables, BootShape, [Next]_vars
    PROVE  \/ boot' = boot
           \/ boot' = Idle
           \/ Turn
           \/ DhcpInit \/ PollOffers \/ Probe \/ PollProbe
           \/ \E p : Sends(p)
<1>1. CASE ProbeEnds \/ Claim
  BY <1>1 DEF ProbeEnds, Claim
<1>2. CASE PollResolve
  <2>1. At("resolve") /\ (QueryPacket(boot.pkt) \/ TcpPacket(boot.pkt))
    BY <1>2 DEF PollResolve, At, BootShape
  <2>2. CASE boot' = [boot EXCEPT !.left = @ - 1]
    BY <2>1, <2>2 DEF Turn, At
  <2>3. CASE boot' # [boot EXCEPT !.left = @ - 1]
    <3>1. boot' \in {Sent(boot.pkt), NotSent(boot.pkt),
             [pc |-> "resolve", left |-> ArpPolls, i |-> Missing(boot.pkt), pkt |-> boot.pkt]}
      BY <1>2, <2>3 DEF PollResolve, Send
    <3> QED
      BY <2>1, <3>1 DEF Sends
  <2> QED
    BY <2>2, <2>3
<1>3. CASE PollAnswer
  BY <1>3 DEF PollAnswer, Turn, At
<1>4. CASE PollSyn
  <2>1. CASE Established = {}
    BY <1>4, <2>1 DEF PollSyn, Turn, At
  <2>2. CASE Established # {}
    <3>1. PICK k \in Established :
             Send(Tcp(boot.pkt.dst, "data", OurPort, 0, tcp_syn_cache[k].ack))
      BY <1>4, <2>2 DEF PollSyn
    <3>2. TcpPacket(Tcp(boot.pkt.dst, "data", OurPort, 0, tcp_syn_cache[k].ack))
      BY TcpIsPacket
    <3>3. Sends(Tcp(boot.pkt.dst, "data", OurPort, 0, tcp_syn_cache[k].ack))
      BY <3>1, <3>2 DEF Sends, Send
    <3> QED
      BY <3>3
  <2> QED
    BY <2>1, <2>2
<1>5. ASSUME NEW d \in DOMAIN HostOf, Query(d) PROVE boot' = boot \/ \E p : Sends(p)
  <2>1. CASE Cached(d)
    BY <1>5, <2>1 DEF Query
  <2>2. CASE ~Cached(d)
    <3> DEFINE p == Udp(ipv4.dns, [op |-> "query", domain |-> d])
    <3>1. Send(p)
      BY <1>5, <2>2 DEF Query
    <3>2. QueryPacket(p)
      BY QueryIsPacket
    <3> HIDE DEF p
    <3>3. Sends(p)
      BY <3>1, <3>2 DEF Send, Sends
    <3> QED
      BY <3>3
  <2> QED
    BY <2>1, <2>2
<1>6. CASE Connect
  BY <1>6, TcpIsPacket DEF Connect, Send, Sends
<1>7. ASSUME NEW p, \/ ReceiveOffer(p) \/ ReceiveAck(p) \/ ReceiveDns(p) \/ ReceiveArpReply(p)
                    \/ ReceiveArpRequest(p) \/ ReceiveSynAck(p) \/ ReceiveSegment(p)
      PROVE boot' = boot
  <2>1. CASE ReceiveOffer(p) \/ ReceiveAck(p) \/ ReceiveDns(p) \/ ReceiveArpReply(p)
    BY <2>1 DEF ReceiveOffer, ReceiveAck, ReceiveDns, ReceiveArpReply
  <2>2. CASE ReceiveArpRequest(p) \/ ReceiveSynAck(p)
    BY <2>2 DEF ReceiveArpRequest, ReceiveSynAck
  <2>3. CASE ReceiveSegment(p)
    BY <2>3 DEF ReceiveSegment
  <2> QED
    BY <1>7, <2>1, <2>2, <2>3
<1>8. CASE UNCHANGED vars
  BY <1>8 DEF vars
<1> QED
  BY <1>1, <1>2, <1>3, <1>4, <1>5, <1>6, <1>7, <1>8
  DEF Next, BootStep, ethernet_process_packet, arp_receive_packet, ipv4_receive_packet,
      udp_receive_packet, tcp_receive_packet, Calls

\* The boot code stays in shape, and dhcp_init is not called again.
LEMMA BootStepShape ==
    ASSUME Tables, BootShape, [Next]_vars
    PROVE  BootShape' /\ (boot'.pc \in Dhcp => boot.pc \in Dhcp)
<1>1. CASE boot' = boot
  BY <1>1 DEF BootShape, QueryPacket, TcpPacket
<1>2. CASE boot' = Idle
  BY <1>2 DEF BootShape, Idle, Dhcp
<1>3. CASE Turn
  <2>1. boot' = [pc |-> boot.pc, left |-> boot.left - 1, i |-> boot.i, pkt |-> boot.pkt]
    BY <1>3 DEF Turn, BootShape
  <2>2. (QueryPacket(boot.pkt)' <=> QueryPacket(boot.pkt)) /\ (TcpPacket(boot.pkt)' <=> TcpPacket(boot.pkt))
    BY <2>1 DEF QueryPacket, TcpPacket, Udp
  <2> QED
    BY <1>3, <2>1, <2>2 DEF BootShape, Turn, Dhcp
<1>4. CASE DhcpInit
  BY <1>4 DEF DhcpInit, At, Idle, BootShape, Dhcp
<1>5. ASSUME boot.pc \in Dhcp, NEW pc, NEW left, NEW i, boot' = [pc |-> pc, left |-> left, i |-> i, pkt |-> boot.pkt],
             \/ pc = "offers"
             \/ pc \in {"probe", "probing", "claim"} /\ i \in Nat \ {0}
      PROVE BootShape' /\ (boot'.pc \in Dhcp => boot.pc \in Dhcp)
  BY <1>5 DEF BootShape, Dhcp
<1>6. CASE PollOffers
  <2>1. \/ boot' = [pc |-> "probe", left |-> 0, i |-> 1, pkt |-> boot.pkt]
        \/ boot' = [pc |-> "offers", left |-> boot.left - 1, i |-> boot.i, pkt |-> boot.pkt]
    BY <1>6 DEF PollOffers, At, BootShape
  <2> QED
    BY <1>5, <1>6, <2>1 DEF PollOffers, At, Dhcp
<1>7. CASE Probe \/ PollProbe
  <2>1. boot.pc \in Dhcp /\ boot.i \in Nat \ {0}
    BY <1>7 DEF Probe, PollProbe, At, BootShape, Dhcp
  <2>2. \/ boot' = [pc |-> "probe", left |-> 0, i |-> boot.i + 1, pkt |-> boot.pkt]
        \/ boot' = [pc |-> "probing", left |-> boot.left - 1, i |-> boot.i, pkt |-> boot.pkt]
        \/ boot' = [pc |-> "probing", left |-> ArpPolls, i |-> boot.i, pkt |-> boot.pkt]
        \/ boot' = [pc |-> "claim", left |-> Len(arp_list), i |-> boot.i, pkt |-> boot.pkt]
    BY <1>7 DEF Probe, PollProbe, At, BootShape, NextOffer
  <2> QED
    BY <1>5, <2>1, <2>2
<1>8. ASSUME NEW p, Sends(p) PROVE BootShape' /\ boot'.pc \notin Dhcp
  BY <1>8, SendBoot DEF Sends, Dhcp
<1> QED
  BY <1>1, <1>2, <1>3, <1>4, <1>6, <1>7, <1>8, BootMoves

-----------------------------------------------------------------------------
(* DHCP.                                                                   *)

\* While an address is probed or claimed, its question stays sent, and the replies
\* that had been looked at stay where they are.
LEMMA ProbingStep ==
    ASSUME Tables, Tables', BootShape, Probing, [Next]_vars,
           Kept(arp_list, arp_list'), Kept(offers, offers'), sent \subseteq sent'
    PROVE  Probing'
<1>0. /\ Len(arp_list) \in Nat /\ Len(arp_list') \in Nat /\ Len(offers) \in Nat /\ Len(offers') \in Nat
      /\ DOMAIN offers = 1 .. Len(offers) /\ DOMAIN offers' = 1 .. Len(offers')
      /\ DOMAIN arp_list = 1 .. Len(arp_list)
  BY LenProperties DEF Tables
<1>1. ASSUME boot'.pc \notin {"probing", "claim"} PROVE Probing'
  BY <1>1 DEF Probing
<1>2. ASSUME boot'.i \in 1 .. Len(offers), boot'.pc \in {"probing", "claim"},
             arp_request(offers[boot'.i].offered) \in sent',
             boot'.pc = "claim" =>
                 /\ boot'.left \in 0 .. Len(arp_list)
                 /\ \A k \in 1 .. boot'.left : arp_list[k].ip # offers[boot'.i].offered
      PROVE Probing'
  <2>1. boot'.i \in DOMAIN offers' /\ offers'[boot'.i] = offers[boot'.i]
    BY <1>0, <1>2 DEF Kept
  <2>2. arp_request(offers[boot.i].offered)' = arp_request(offers[boot'.i].offered)
    BY <2>1 DEF arp_request
  <2>3. ASSUME boot'.pc = "claim"
        PROVE  /\ boot'.left \in 0 .. Len(arp_list')
               /\ \A k \in 1 .. boot'.left : arp_list'[k].ip # offers'[boot'.i].offered
    <3>1. Len(arp_list) <= Len(arp_list') /\ boot'.left \in 0 .. Len(arp_list)
      BY <1>2, <2>3 DEF Kept
    <3>2. \A k \in 1 .. boot'.left : k \in 1 .. Len(arp_list)
      BY <1>0, <3>1
    <3>3. \A k \in 1 .. boot'.left : arp_list'[k] = arp_list[k]
      BY <3>2 DEF Kept
    <3> QED
      BY <1>0, <1>2, <2>1, <2>3, <3>1, <3>3
  <2> QED
    BY <1>2, <2>1, <2>2, <2>3 DEF Probing
<1>3. CASE boot' = boot
  <2>1. CASE boot.pc \in {"probing", "claim"}
    BY <1>0, <1>2, <1>3, <2>1 DEF Probing
  <2> QED
    BY <1>1, <1>3, <2>1
<1>4. CASE boot' = Idle
  BY <1>1, <1>4 DEF Idle
<1>5. CASE Turn
  <2>1. boot'.pc = boot.pc
    BY <1>5 DEF Turn, BootShape
  <2> QED
    BY <1>1, <1>5, <2>1 DEF Turn
<1>6. CASE DhcpInit \/ PollOffers
  <2>1. boot'.pc \in {"offers", "probe"}
    BY <1>6 DEF DhcpInit, PollOffers, Idle, At, BootShape
  <2> QED
    BY <1>1, <2>1
<1>7. CASE Probe
  <2>1. boot.i \in 1 .. Len(offers)
    BY <1>0, <1>7 DEF Probe, At, BootShape
  <2>2. CASE Known(offers[boot.i].offered)
    <3>1. boot'.pc = "probe"
      BY <1>7, <2>2 DEF Probe, NextOffer, BootShape
    <3> QED
      BY <1>1, <3>1
  <2>3. CASE ~Known(offers[boot.i].offered)
    <3>1. boot'.pc = "probing" /\ boot'.i = boot.i
      BY <1>7, <2>3 DEF Probe, BootShape
    <3>2. arp_request(offers[boot'.i].offered) \in sent'
      BY <1>7, <2>3, <3>1 DEF Probe
    <3> QED
      BY <1>2, <2>1, <3>1, <3>2
  <2> QED
    BY <2>2, <2>3
<1>8. CASE PollProbe
  <2> DEFINE addr == offers[boot.i].offered
  <2>1. boot.pc = "probing" /\ boot.i \in 1 .. Len(offers) /\ arp_request(addr) \in sent'
    BY <1>0, <1>8 DEF PollProbe, At, Probing
  <2>2. CASE Known(addr)
    <3>1. boot'.pc = "probe"
      BY <1>8, <2>2 DEF PollProbe, NextOffer, BootShape
    <3> QED
      BY <1>1, <3>1
  <2>3. CASE ~Known(addr) /\ boot.left > 1
    <3>1. boot'.pc = "probing" /\ boot'.i = boot.i
      BY <1>8, <2>1, <2>3 DEF PollProbe, BootShape
    <3> QED
      BY <1>2, <2>1, <3>1
  <2>4. CASE ~Known(addr) /\ ~(boot.left > 1)
    <3>1. boot' = [boot EXCEPT !.pc = "claim", !.left = Len(arp_list)]
      BY <1>8, <2>4 DEF PollProbe
    <3>2. boot'.pc = "claim" /\ boot'.i = boot.i /\ boot'.left = Len(arp_list)
      BY <3>1 DEF BootShape
    <3>3. \A k \in 1 .. Len(arp_list) : arp_list[k].ip # addr
      BY <1>0, <2>4 DEF Known
    <3> QED
      BY <1>0, <1>2, <2>1, <3>2, <3>3
  <2> QED
    BY <2>2, <2>3, <2>4
<1>9. ASSUME NEW p, Sends(p) PROVE Probing'
  <2>1. boot'.pc \in {"idle", "resolve", "answer", "synack"}
    BY <1>9, SendBoot DEF Sends
  <2> QED
    BY <1>1, <2>1
<1> QED
  BY <1>3, <1>4, <1>5, <1>6, <1>7, <1>8, <1>9, BootMoves

\* What a claim claims was offered, probed and found free.
LEMMA ClaimStep ==
    ASSUME Tables, Tables', Probing, ClaimBounded, ClaimProbed,
           Kept(arp_list, arp_list'), Kept(offers, offers'), NEW X, NewFrames(X)
    PROVE  ClaimBounded' /\ ClaimProbed'
<1>0. /\ Len(arp_list) \in Nat /\ Len(arp_list') \in Nat /\ Len(offers) \in Nat /\ Len(offers') \in Nat
      /\ DOMAIN offers = 1 .. Len(offers) /\ DOMAIN offers' = 1 .. Len(offers')
  BY LenProperties DEF Tables
<1> DEFINE Good(r) ==
        /\ r.at \in 0 .. Len(arp_list)
        /\ \E k \in DOMAIN offers : offers[k] = [server |-> r.server, offered |-> r.addr]
        /\ arp_request(r.addr) \in sent
        /\ \A k \in 1 .. r.at : arp_list[k].ip # r.addr
<1>1. ASSUME NEW r \in Requests PROVE Good(r)
  BY DEF ClaimBounded, ClaimProbed
<1>2. ASSUME Claim PROVE Good(Request(boot.i).body)
  <2> DEFINE r == Request(boot.i).body
  <2>1. boot.pc = "claim"
    BY <1>2 DEF Claim, At
  <2>2. /\ r.server = offers[boot.i].server /\ r.addr = offers[boot.i].offered /\ r.at = boot.left
    BY DEF Request, Udp
  <2>3. boot.i \in DOMAIN offers /\ offers[boot.i] \in OfferEntries
    BY <1>0, <2>1, ElementOfSeq DEF Probing, Tables
  <2>4. offers[boot.i] = [server |-> r.server, offered |-> r.addr]
    BY <2>2, <2>3 DEF OfferEntries
  <2> QED
    BY <2>1, <2>2, <2>3, <2>4 DEF Probing
<1>3. ASSUME NEW r, Good(r)
      PROVE  /\ r.at \in 0 .. Len(arp_list')
             /\ \E k \in DOMAIN offers' : offers'[k] = [server |-> r.server, offered |-> r.addr]
             /\ arp_request(r.addr) \in sent'
             /\ \A k \in 1 .. r.at : arp_list'[k].ip # r.addr
  <2>1. r.at \in 0 .. Len(arp_list')
    BY <1>0, <1>3 DEF Kept
  <2>2. \E k \in DOMAIN offers' : offers'[k] = [server |-> r.server, offered |-> r.addr]
    <3>1. PICK k \in DOMAIN offers : offers[k] = [server |-> r.server, offered |-> r.addr]
      BY <1>3
    <3>2. k \in DOMAIN offers' /\ offers'[k] = offers[k]
      BY <1>0 DEF Kept
    <3> QED
      BY <3>1, <3>2
  <2>3. \A k \in 1 .. r.at : k \in 1 .. Len(arp_list)
    BY <1>0, <1>3
  <2>4. \A k \in 1 .. r.at : arp_list'[k].ip # r.addr
    BY <1>3, <2>3 DEF Kept
  <2> QED
    BY <1>3, <2>1, <2>2, <2>4 DEF NewFrames
<1> HIDE DEF Good
<1>4. \A r \in Requests' : Good(r)
  BY <1>1, <1>2, RequestsStep
<1> QED
  BY <1>3, <1>4 DEF ClaimBounded, ClaimProbed, arp_request

\* After the claim dhcp_init is over, so there is no second one.
LEMMA OneRequestStep ==
    ASSUME BootShape, OneRequest, boot'.pc \in Dhcp => boot.pc \in Dhcp, NEW X, NewFrames(X)
    PROVE  OneRequest'
<1>1. CASE Claim
  <2>1. boot.pc = "claim" /\ boot'.pc = "idle"
    BY <1>1 DEF Claim, At, Idle
  <2>2. Requests = {} /\ boot'.pc \notin Dhcp
    BY <2>1 DEF OneRequest, Dhcp
  <2>3. \A r \in Requests' : r = Request(boot.i).body
    BY <2>2, RequestsStep
  <2> QED
    BY <2>2, <2>3 DEF OneRequest
<1>2. CASE ~Claim
  <2>1. Requests' = Requests
    BY <1>2, RequestsStep
  <2> QED
    BY <2>1 DEF OneRequest
<1> QED
  BY <1>1, <1>2

\* Applying the one acknowledgement again changes nothing.
LEMMA SettingsStep ==
    ASSUME OneRequest, Settings, [Next]_vars, NEW X, NewFrames(X)
    PROVE  Settings'
<1>1. Requests \subseteq Requests'
  BY RequestsStep
<1>3. CASE ipv4' = ipv4
  BY <1>1, <1>3 DEF Settings, Configured, Option, Unset
<1>4. ASSUME NEW p \in Acks, ReceiveAck(p) PROVE Settings'
  <2>1. PICK r \in Requests : p.server = r.server /\ p.addr = r.addr
    BY DEF Acks, Requests
  <2>2. ipv4' = Configured(r.server, r.addr, ipv4)
    BY <1>4, <2>1 DEF ReceiveAck
  <2>3. CASE ipv4 = Unset
    BY <1>1, <2>2, <2>3 DEF Settings, Configured, Option, Unset
  <2>4. CASE ipv4 # Unset
    <3>1. ipv4 = Configured(r.server, r.addr, Unset)
      BY <2>4 DEF Settings, OneRequest
    <3>2. ipv4' = ipv4
      BY <2>2, <3>1 DEF Configured, Option, Unset
    <3> QED
      BY <1>3, <3>2
  <2> QED
    BY <2>3, <2>4
<1>5. CASE DhcpInit \/ PollOffers \/ ProbeEnds \/ Probe \/ PollProbe \/ Claim \/ PollResolve
           \/ PollAnswer \/ PollSyn \/ Connect \/ UNCHANGED vars
  BY <1>3, <1>5 DEF DhcpInit, PollOffers, ProbeEnds, Probe, PollProbe, Claim, PollResolve,
                    PollAnswer, PollSyn, Connect, vars, tables
<1>6. ASSUME NEW d, Query(d) PROVE Settings'
  BY <1>3, <1>6 DEF Query, tables
<1>7. ASSUME NEW p, ReceiveArpRequest(p) \/ ReceiveArpReply(p) \/ ReceiveOffer(p) \/ ReceiveDns(p)
      PROVE Settings'
  BY <1>3, <1>7 DEF ReceiveArpRequest, ReceiveArpReply, ReceiveOffer, ReceiveDns, tables
<1>8. ASSUME NEW p, ReceiveSynAck(p) \/ ReceiveSegment(p) PROVE Settings'
  BY <1>3, <1>8 DEF ReceiveSynAck, ReceiveSegment, tables
<1> QED
  BY <1>4, <1>5, <1>6, <1>7, <1>8
  DEF Next, BootStep, ethernet_process_packet, arp_receive_packet, ipv4_receive_packet,
      udp_receive_packet, tcp_receive_packet, Calls

-----------------------------------------------------------------------------
(* DNS.                                                                    *)

\* found holds the name of the query under way and its own address, if any.
LEMMA FoundStep ==
    ASSUME Tables, BootShape, Asked, AnswerIsForName, [Next]_vars
    PROVE  Asked' /\ AnswerIsForName'
<1>1. CASE PollAnswer
  <2> DEFINE d == boot.pkt.body.domain
  <2>1. QueryPacket(boot.pkt) /\ boot.pc = "answer"
    BY <1>1 DEF PollAnswer, At, BootShape
  <2>2. d \in DOMAIN HostOf /\ boot.pkt.type = "udp" /\ found.domain = d
    BY <2>1 DEF QueryPacket, Udp, Asked
  <2>3. \/ boot'.pc = "idle"
        \/ boot'.pc = "answer" /\ boot'.pkt = boot.pkt
    BY <1>1, <2>1 DEF PollAnswer, BootShape, Idle
  <2>4. CASE Cached(d)
    <3>1. found' = [found EXCEPT !.ip = HostOf[d]]
      BY <1>1, <2>2, <2>4, NameKnown DEF PollAnswer
    <3>2. DOMAIN found' = {"domain", "ip"} /\ found'.domain = d /\ found'.ip = HostOf[d]
      BY <2>2, <3>1 DEF Asked
    <3> QED
      BY <2>2, <2>3, <3>2 DEF Asked, AnswerIsForName
  <2>5. CASE ~Cached(d)
    <3>1. found' = found
      BY <1>1, <2>5 DEF PollAnswer
    <3> QED
      BY <2>2, <2>3, <3>1 DEF Asked, AnswerIsForName
  <2> QED
    BY <2>4, <2>5
<1>2. ASSUME NEW d \in DOMAIN HostOf, Query(d) PROVE Asked' /\ AnswerIsForName'
  <2>1. CASE Cached(d)
    <3>1. found' = [domain |-> d, ip |-> HostOf[d]] /\ boot' = boot /\ boot.pc = "idle"
      BY <1>2, <2>1, NameKnown DEF Query, At
    <3> QED
      BY <3>1 DEF Asked, AnswerIsForName
  <2>2. CASE ~Cached(d)
    <3> DEFINE p == Udp(ipv4.dns, [op |-> "query", domain |-> d])
    <3>1. found' = [domain |-> d, ip |-> None] /\ Send(p)
      BY <1>2, <2>2 DEF Query
    <3>2. QueryPacket(p) /\ p.body.domain = d
      BY QueryIsPacket DEF Udp
    <3> HIDE DEF p
    <3>3. boot'.pc \in {"resolve", "answer"} => boot'.pkt = p
      BY <3>1, <3>2, SendBoot DEF Send
    <3> QED
      BY <3>1, <3>2, <3>3 DEF Asked, AnswerIsForName
  <2> QED
    BY <2>1, <2>2
<1>3. ASSUME found' = found, boot' = boot \/ boot'.pc \notin {"resolve", "answer"}
      PROVE Asked' /\ AnswerIsForName'
  BY <1>3 DEF Asked, AnswerIsForName
<1>4. ASSUME found' = found, NEW p, TcpPacket(p), Send(p) PROVE Asked' /\ AnswerIsForName'
  <2>1. boot'.pc \in {"resolve", "answer"} => boot'.pkt = p
    BY <1>4, SendBoot DEF Send
  <2>2. p.type = "tcp"
    BY <1>4 DEF TcpPacket
  <2> QED
    BY <1>4, <2>1, <2>2 DEF Asked, AnswerIsForName
<1>5. CASE DhcpInit \/ PollOffers \/ ProbeEnds \/ Claim
  <2>1. found' = found
    BY <1>5 DEF DhcpInit, PollOffers, ProbeEnds, Claim
  <2>2. CASE DhcpInit \/ ProbeEnds \/ Claim
    <3>1. DhcpInit => boot'.pc = "offers"
      BY DEF DhcpInit, Idle
    <3>2. ProbeEnds \/ Claim => boot'.pc = "idle"
      BY DEF ProbeEnds, Claim, Idle
    <3> QED
      BY <1>3, <2>1, <2>2, <3>1, <3>2
  <2>3. CASE PollOffers
    <3>1. boot'.pc \in {"offers", "probe"}
      BY <2>3 DEF PollOffers, At, BootShape
    <3> QED
      BY <1>3, <2>1, <3>1
  <2> QED
    BY <1>5, <2>2, <2>3
<1>6. CASE Probe \/ PollProbe
  <2>1. found' = found /\ boot'.pc \in {"probe", "probing", "claim"}
    BY <1>6 DEF Probe, PollProbe, NextOffer, At, BootShape
  <2> QED
    BY <1>3, <2>1
<1>7. CASE PollResolve
  <2>1. boot.pc = "resolve" /\ found' = found /\ (QueryPacket(boot.pkt) \/ TcpPacket(boot.pkt))
    BY <1>7 DEF PollResolve, At, BootShape
  <2>2. \/ boot' = [boot EXCEPT !.left = @ - 1]
        \/ boot' \in {Sent(boot.pkt), NotSent(boot.pkt),
             [pc |-> "resolve", left |-> ArpPolls, i |-> Missing(boot.pkt), pkt |-> boot.pkt]}
    BY <1>7 DEF PollResolve, Send
  <2>3. boot'.pc \in {"resolve", "answer"} => boot'.pkt = boot.pkt
    <3>1. CASE boot' = [boot EXCEPT !.left = @ - 1]
      BY <3>1 DEF BootShape
    <3> QED
      BY <2>1, <2>2, <3>1, SendBoot
  <2> QED
    BY <2>1, <2>3 DEF Asked, AnswerIsForName
<1>8. CASE PollSyn
  <2>1. found' = found
    BY <1>8 DEF PollSyn
  <2>2. CASE Established # {}
    <3>1. PICK k \in Established :
             Send(Tcp(boot.pkt.dst, "data", OurPort, 0, tcp_syn_cache[k].ack))
      BY <1>8, <2>2 DEF PollSyn
    <3>2. TcpPacket(Tcp(boot.pkt.dst, "data", OurPort, 0, tcp_syn_cache[k].ack))
      BY TcpIsPacket
    <3> QED
      BY <1>4, <2>1, <3>1, <3>2
  <2>3. CASE Established = {}
    <3>1. boot'.pc \in {"idle", "synack"}
      BY <1>8, <2>3 DEF PollSyn, At, Idle, BootShape
    <3> QED
      BY <1>3, <2>1, <3>1
  <2> QED
    BY <2>2, <2>3
<1>9. CASE Connect
  <2>1. found' = found /\ Send(Tcp(found.ip, "syn", OurPort, 0, 0))
    BY <1>9 DEF Connect
  <2> QED
    BY <1>4, <2>1, TcpIsPacket
<1>10. ASSUME NEW p, ReceiveArpRequest(p) \/ ReceiveArpReply(p) \/ ReceiveOffer(p)
                     \/ ReceiveAck(p) \/ ReceiveDns(p)
       PROVE found' = found /\ boot' = boot
  BY <1>10 DEF ReceiveArpRequest, ReceiveArpReply, ReceiveOffer, ReceiveAck, ReceiveDns
<1>11. ASSUME NEW p, ReceiveSynAck(p) \/ ReceiveSegment(p) PROVE found' = found /\ boot' = boot
  BY <1>11 DEF ReceiveSynAck, ReceiveSegment
<1>12. CASE UNCHANGED vars
  BY <1>3, <1>12 DEF vars
<1> QED
  BY <1>1, <1>2, <1>3, <1>5, <1>6, <1>7, <1>8, <1>9, <1>10, <1>11, <1>12
  DEF Next, BootStep, ethernet_process_packet, arp_receive_packet, ipv4_receive_packet,
      udp_receive_packet, tcp_receive_packet, Calls

-----------------------------------------------------------------------------
(* TCP.                                                                    *)

\* Entry 1 is open only as the last SYN-ACK left it; no other entry is ever open.
LEMMA ConnStep ==
    ASSUME Tables, SentShape, OnlyFirst, OpenIsAcked, [Next]_vars
    PROVE  OnlyFirst' /\ OpenIsAcked'
<1> DEFINE n == Len(tcp_syn_cache)
           Goal == OnlyFirst' /\ OpenIsAcked'
<1>0. n \in Nat /\ DOMAIN tcp_syn_cache = 1 .. n /\ \A k \in 1 .. n : tcp_syn_cache[k] \in ConnEntries
  BY LenProperties, ElementOfSeq DEF Tables
<1>1. ASSUME UNCHANGED <<tcp_syn_cache, last>> PROVE Goal
  BY <1>1 DEF OnlyFirst, OpenIsAcked
<1>2. CASE DhcpInit \/ PollOffers \/ ProbeEnds \/ Probe \/ PollProbe \/ Claim \/ PollResolve
           \/ PollAnswer \/ PollSyn \/ UNCHANGED vars
  BY <1>1, <1>2 DEF DhcpInit, PollOffers, ProbeEnds, Probe, PollProbe, Claim, PollResolve,
                    PollAnswer, PollSyn, vars, conns
<1>3. ASSUME NEW d, Query(d) PROVE Goal
  BY <1>1, <1>3 DEF Query, conns
<1>4. ASSUME NEW p, ReceiveArpRequest(p) \/ ReceiveArpReply(p) \/ ReceiveOffer(p)
                    \/ ReceiveAck(p) \/ ReceiveDns(p)
      PROVE Goal
  BY <1>1, <1>4 DEF ReceiveArpRequest, ReceiveArpReply, ReceiveOffer, ReceiveAck, ReceiveDns, conns
<1>5. CASE Connect
  <2> DEFINE e == [port |-> OurPort, syn |-> FALSE, ack |-> 0]
  <2>1. tcp_syn_cache' = Append(tcp_syn_cache, e) /\ last' = last /\ e \in ConnEntries
    BY <1>5 DEF Connect, ConnEntries
  <2>2. /\ DOMAIN tcp_syn_cache' = 1 .. n + 1 /\ tcp_syn_cache'[n + 1] = e
        /\ \A k \in 1 .. n : tcp_syn_cache'[k] = tcp_syn_cache[k]
    BY <1>0, <2>1, AppendProperties, LenProperties DEF Tables
  <2>3. \A k \in DOMAIN tcp_syn_cache' :
            tcp_syn_cache'[k].syn => k \in 1 .. n /\ tcp_syn_cache'[k] = tcp_syn_cache[k]
    BY <1>0, <2>2
  <2> QED
    BY <1>0, <2>1, <2>3 DEF OnlyFirst, OpenIsAcked
<1>6. ASSUME NEW p \in Segments, ReceiveSynAck(p) PROVE Goal
  <2>1. /\ tcp_syn_cache' = Marked(p.port, TRUE, p.ack) /\ last' = [last EXCEPT ![p.port] = p]
        /\ {"syn", "ack"} \subseteq p.flags
    BY <1>6 DEF ReceiveSynAck
  <2>2. /\ DOMAIN tcp_syn_cache' = 1 .. n
        /\ \A k \in 1 .. n :
              tcp_syn_cache'[k] = IF k = 1 /\ p.port = OurPort
                                  THEN [port |-> p.port, syn |-> TRUE, ack |-> p.ack]
                                  ELSE tcp_syn_cache[k]
    <3>1. p.ack \in Nat
      BY SegmentFacts
    <3>2. /\ DOMAIN Marked(p.port, TRUE, p.ack) = DOMAIN tcp_syn_cache
          /\ \A k \in DOMAIN tcp_syn_cache :
                Marked(p.port, TRUE, p.ack)[k] =
                    IF k = 1 /\ p.port = OurPort THEN [port |-> p.port, syn |-> TRUE, ack |-> p.ack]
                    ELSE tcp_syn_cache[k]
      <4> DEFINE t == TRUE
      <4>1. t \in BOOLEAN
        OBVIOUS
      <4> HIDE DEF t
      <4>2. /\ DOMAIN Marked(p.port, t, p.ack) = DOMAIN tcp_syn_cache
            /\ \A k \in DOMAIN tcp_syn_cache :
                  Marked(p.port, t, p.ack)[k] =
                      IF k = 1 /\ p.port = OurPort THEN [port |-> p.port, syn |-> t, ack |-> p.ack]
                      ELSE tcp_syn_cache[k]
        BY <3>1, <4>1, MarkedFacts
      <4> QED
        BY <4>2 DEF t
    <3> QED
      BY <1>0, <2>1, <3>2
  <2>3. OurPort \in DOMAIN last' /\ last'[OurPort] = IF p.port = OurPort THEN p ELSE last[OurPort]
    BY <2>1 DEF OnlyFirst
  <2>4. OnlyFirst'
    BY <1>0, <2>2, <2>3 DEF OnlyFirst
  <2>5. ASSUME NEW k \in 1 .. n, tcp_syn_cache'[k].syn
        PROVE  /\ {"syn", "ack"} \subseteq last'[tcp_syn_cache'[k].port].flags
               /\ tcp_syn_cache'[k].ack = last'[tcp_syn_cache'[k].port].ack
    <3>1. tcp_syn_cache'[k].port = OurPort
      BY <1>0, <2>2 DEF ConnEntries
    <3>2. CASE p.port = OurPort
      <4>1. k = 1
        BY <2>2, <2>4, <2>5 DEF OnlyFirst
      <4>2. tcp_syn_cache'[k].ack = p.ack /\ last'[OurPort] = p
        BY <2>2, <2>3, <3>2, <4>1
      <4> QED
        BY <2>1, <3>1, <4>2
    <3>3. CASE p.port # OurPort
      <4>1. tcp_syn_cache'[k] = tcp_syn_cache[k] /\ last'[OurPort] = last[OurPort]
        BY <2>2, <2>3, <3>3
      <4> QED
        BY <1>0, <2>5, <3>1, <4>1 DEF OpenIsAcked
    <3> QED
      BY <3>2, <3>3
  <2> QED
    BY <2>2, <2>4, <2>5 DEF OpenIsAcked
<1>7. ASSUME NEW p \in Segments, ReceiveSegment(p) PROVE Goal
  <2>1. CASE "fin" \in p.flags
    <3>1. tcp_syn_cache' = Marked(p.port, FALSE, 0) /\ last' = [last EXCEPT ![p.port] = p]
      BY <1>7, <2>1 DEF ReceiveSegment
    <3>2. /\ DOMAIN tcp_syn_cache' = 1 .. n
          /\ \A k \in 1 .. n :
                tcp_syn_cache'[k] = IF k = 1 /\ p.port = OurPort
                                    THEN [port |-> p.port, syn |-> FALSE, ack |-> 0]
                                    ELSE tcp_syn_cache[k]
      <4>1. /\ DOMAIN Marked(p.port, FALSE, 0) = DOMAIN tcp_syn_cache
            /\ \A k \in DOMAIN tcp_syn_cache :
                  Marked(p.port, FALSE, 0)[k] =
                      IF k = 1 /\ p.port = OurPort THEN [port |-> p.port, syn |-> FALSE, ack |-> 0]
                      ELSE tcp_syn_cache[k]
        <5> DEFINE t == FALSE
        <5>1. t \in BOOLEAN
          OBVIOUS
        <5> HIDE DEF t
        <5>2. /\ DOMAIN Marked(p.port, t, 0) = DOMAIN tcp_syn_cache
              /\ \A k \in DOMAIN tcp_syn_cache :
                    Marked(p.port, t, 0)[k] =
                        IF k = 1 /\ p.port = OurPort THEN [port |-> p.port, syn |-> t, ack |-> 0]
                        ELSE tcp_syn_cache[k]
          BY <5>1, MarkedFacts
        <5> QED
          BY <5>2 DEF t
      <4> QED
        BY <1>0, <3>1, <4>1
    <3>3. OurPort \in DOMAIN last' /\ last'[OurPort] = IF p.port = OurPort THEN p ELSE last[OurPort]
      BY <3>1 DEF OnlyFirst
    <3>4. ASSUME NEW k \in 1 .. n, tcp_syn_cache'[k].syn
          PROVE  /\ k = 1 /\ tcp_syn_cache'[k] = tcp_syn_cache[k]
                 /\ tcp_syn_cache[k].port = OurPort /\ last'[OurPort] = last[OurPort]
      BY <1>0, <3>2, <3>3, <3>4 DEF OnlyFirst, ConnEntries
    <3> QED
      BY <1>0, <3>2, <3>3, <3>4 DEF OnlyFirst, OpenIsAcked
  <2>2. CASE "fin" \notin p.flags
    BY <1>1, <1>7, <2>2 DEF ReceiveSegment
  <2> QED
    BY <2>1, <2>2
<1> QED
  BY <1>2, <1>3, <1>4, <1>5, <1>6, <1>7
  DEF Next, BootStep, ethernet_process_packet, arp_receive_packet, ipv4_receive_packet,
      udp_receive_packet, tcp_receive_packet, Calls

-----------------------------------------------------------------------------
(* The theorems.                                                           *)

LEMMA InitIInv == Init => IInv
<1> SUFFICES ASSUME Init PROVE IInv
  OBVIOUS
<1> USE DEF Init
<1>1. Requests = {}
  BY DEF Requests, Bodies
<1>2. Tables
  BY EmptySeq DEF Tables
<1>3. BootShape /\ Probing
  BY DEF BootShape, Probing, Idle, Dhcp
<1>4. SentShape /\ FramesResolved
  BY DEF SentShape, FramesResolved
<1>5. ClaimBounded /\ ClaimProbed /\ OneRequest
  BY <1>1 DEF ClaimBounded, ClaimProbed, OneRequest
<1>6. Settings
  BY DEF Settings, Unset
<1>7. Asked /\ AnswerIsForName
  BY DEF Asked, AnswerIsForName, Idle
<1>8. OnlyFirst /\ OpenIsAcked
  BY DEF OnlyFirst, OpenIsAcked
<1> QED
  BY <1>2, <1>3, <1>4, <1>5, <1>6, <1>7, <1>8 DEF IInv

LEMMA NextIInv == IInv /\ [Next]_vars => IInv'
<1> SUFFICES ASSUME IInv, [Next]_vars PROVE IInv'
  OBVIOUS
<1> USE DEF IInv
<1>1. PICK X : NewFrames(X)
  BY FramesStep
<1>2. Tables' /\ Kept(arp_list, arp_list') /\ Kept(offers, offers')
  BY TablesStep
<1>3. FramesResolved' /\ SentShape' /\ sent \subseteq sent'
  BY <1>1, FramesKept
<1>4. BootShape' /\ (boot'.pc \in Dhcp => boot.pc \in Dhcp)
  BY BootStepShape
<1>5. Probing'
  BY <1>2, <1>3, ProbingStep
<1>6. ClaimBounded' /\ ClaimProbed'
  BY <1>1, <1>2, ClaimStep
<1>7. OneRequest'
  BY <1>1, <1>4, OneRequestStep
<1>8. Settings'
  BY <1>1, SettingsStep
<1>9. Asked' /\ AnswerIsForName'
  BY FoundStep
<1>10. OnlyFirst' /\ OpenIsAcked'
  BY ConnStep
<1> QED
  BY <1>2, <1>3, <1>4, <1>5, <1>6, <1>7, <1>8, <1>9, <1>10

\* Whatever arrives in whatever order, the tables of the network code, the packets it
\* sent and the place of the boot code in its calls belong together.
THEOREM NetInvariant == Spec => []IInv
BY InitIInv, NextIInv, PTL DEF Spec

\* ipv4_send_packet never sends a packet to a MAC it has not resolved.
THEOREM FramesAreResolved == Spec => []FramesResolved
<1>1. IInv => FramesResolved
  BY DEF IInv
<1> QED
  BY <1>1, NetInvariant, PTL

\* dhcp_init claims only an address that was offered to it, asked for and not in use,
\* however offers and replies interleave with its loops.
THEOREM ClaimsAreProbed == Spec => []ClaimProbed
<1>1. IInv => ClaimProbed
  BY DEF IInv
<1> QED
  BY <1>1, NetInvariant, PTL

\* The settings in use are one server's, however often dhcp_process_ack runs.
THEOREM LeaseIsOne == Spec => []OneLease
<1>1. IInv => OneLease
  BY DEF IInv, Settings, OneLease, Unset
<1> QED
  BY <1>1, NetInvariant, PTL

\* dns_query_ipv4 never returns the address of another name, late answers included.
THEOREM AnswersAreForNames == Spec => []AnswerIsForName
<1>1. IInv => AnswerIsForName
  BY DEF IInv
<1> QED
  BY <1>1, NetInvariant, PTL

\* A connection is open only while the last SYN-ACK or FIN for its port was a SYN-ACK.
THEOREM OpenStaysAcked == Spec => []OpenIsAcked
<1>1. IInv => OpenIsAcked
  BY DEF IInv
<1> QED
  BY <1>1, NetInvariant, PTL
=============================================================================
