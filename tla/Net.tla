-------------------------------- MODULE Net --------------------------------
(***************************************************************************)
(* The network protocols: modules/net (ARP, IPv4, UDP, DHCP, DNS, TCP, the *)
(* HTTP client) above drivers/ethernet.c.                                  *)
(*                                                                         *)
(* Two activities share the tables.  The boot code calls dhcp_init, and    *)
(* after it dns_query_ipv4 and http_send_request (the calls at the end of  *)
(* kernel_main, compiled out at present); it waits by polling every 10 ms. *)
(* The receive interrupt handles one frame, whole, between any two of its  *)
(* steps.  The handler is not interrupted by another frame (the interrupt  *)
(* controller is told only when it returns), so an address it has to ask   *)
(* for cannot arrive while it waits: it gives the packet up.               *)
(*                                                                         *)
(* The wire may lose, delay, repeat and reorder: whatever the stations     *)
(* answer to the frames in sent may arrive at any later time, any number   *)
(* of times, or never.  A packet that fails a version, checksum or opcode  *)
(* test is dropped, which is a loss.                                       *)
(***************************************************************************)
EXTENDS Integers, Sequences, FiniteSets, SequencesExt

CONSTANTS
    Subnet,        \* the addresses of our network
    Holder,        \* [address -> station]: who answers ARP for it
    OfferOf,       \* [DHCP server -> address]: what it offers
    OptionsOf,     \* [DHCP server -> [netmask, router, dns]], None where absent
    HostOf,        \* [domain -> address]: what the DNS says
    Aliases,       \* the domains whose answer begins with a CNAME record
    OurPort,       \* 10101
    Strangers,     \* segments nobody asked for
    OfferPolls, ArpPolls, AnswerPolls, SynPolls,   \* 1000, 10, 100, 1000 polls
    MaxOffers,     \* 2: the length of offers
    MaxArp,        \* bound: replies handled (arp_list has 10 entries)
    MaxNames,      \* dns_ip_cache_size, 16
    MaxConns,      \* bound: connections opened (tcp_syn_cache has 16 entries)
    MaxSyn         \* bound: sequence numbers given to answers that name none

None == "0.0.0.0"
All == "255.255.255.255"
Junk == "junk"                    \* a name with what was left on the stack before it

Servers == DOMAIN OfferOf
Addresses == Subnet \cup DOMAIN Holder \cup {HostOf[d] : d \in DOMAIN HostOf}

ASSUME NetAssumption ==
    /\ {OfferOf[s] : s \in Servers} \subseteq Subnet
    /\ DOMAIN OptionsOf = Servers
    /\ Aliases \subseteq DOMAIN HostOf
    /\ None \notin Addresses /\ All \notin Addresses
    /\ {OfferPolls, ArpPolls, AnswerPolls, SynPolls} \subseteq Nat \ {0}
    /\ \A s \in Strangers : s.ack \in Nat
    /\ Junk \notin DOMAIN HostOf      \* nobody asks for such a name
    /\ {MaxOffers, MaxArp, MaxNames, MaxConns, MaxSyn} \subseteq Nat \ {0}

VARIABLES
    ipv4,            \* ethernet_driver: ipv4_config
    arp_list,        \* arp.c
    offers,          \* dhcp.c
    dns_ip_cache,    \* dns.c
    tcp_syn_cache,   \* tcp.c
    syn_c,           \* tcp.c
    udp_listeners, tcp_listeners,
    boot,            \* where the boot code is: pc and the locals of its call
    found,           \* what the last dns_query_ipv4 returned in ip
    sent,            \* history: the frames that were sent
    last             \* history: the last SYN-ACK or FIN handled, per port

tables == <<ipv4, arp_list, offers, dns_ip_cache>>
conns == <<tcp_syn_cache, syn_c, tcp_listeners, last>>
vars == <<tables, conns, udp_listeners, boot, found, sent>>

Idle == [pc |-> "idle", left |-> 0, i |-> 0, pkt |-> None]
At(label) == boot.pc = label

-----------------------------------------------------------------------------
(* ARP and IPv4.                                                           *)

\* arp_get_mac: the entries of an address; the first one counts.  The caller's
\* array keeps what was on the stack if there is none.
Known(ip) == \E k \in DOMAIN arp_list : arp_list[k].ip = ip
MacOf(ip) ==
    IF Known(ip) THEN arp_list[SelectInSeq(arp_list, LAMBDA e : e.ip = ip)].mac ELSE Junk

arp_request(ip) == [type |-> "arp_request", mac |-> All, ip |-> ip]

\* (ip & mask) = (own & mask); before DHCP the mask is 0 and everything matches.
ipv4_is_cidr_subnet(ip) == ipv4.netmask = None \/ ip \in Subnet

\* What ipv4_send_packet looks up: a station of the subnet, then the gateway.  Missing
\* is the address it has to ask for if it does not have all it needs.
NearUnknown(p) == ipv4_is_cidr_subnet(p.dst) /\ ~Known(p.dst)
\* A fault: the answer for the gateway is not waited for.
ResolvedNear(p) == p.dst = All \/ ~NearUnknown(p)
Resolved(p) == p.dst = All \/ (~NearUnknown(p) /\ Known(ipv4.gateway))
Missing(p) == IF NearUnknown(p) THEN p.dst ELSE ipv4.gateway

\* The frame of a packet: to everybody, or to the gateway.
Frame(p) ==
    [type |-> p.type, body |-> p.body, dst |-> p.dst, via |-> ipv4.gateway,
     mac |-> IF p.dst = All THEN All ELSE MacOf(ipv4.gateway)]

\* What ipv4_send_packet sends when it does not wait, or waits in vain.
Out(p) == IF Resolved(p) THEN {Frame(p)} ELSE {arp_request(Missing(p))}

\* arp_process_request and arp_process_reply.
ReceiveArpRequest(p) ==
    /\ p.target = ipv4.ip
    /\ sent' = sent \cup {[type |-> "arp_reply", mac |-> p.mac, ip |-> p.ip]}
    /\ UNCHANGED <<tables, conns, udp_listeners, boot, found>>

ReceiveArpReply(p) ==
    /\ Len(arp_list) < MaxArp
    /\ arp_list' = Append(arp_list, [ip |-> p.ip, mac |-> p.mac])
    /\ UNCHANGED <<ipv4, offers, dns_ip_cache, conns, udp_listeners, boot, found, sent>>

-----------------------------------------------------------------------------
(* DHCP.                                                                   *)

Udp(dst, body) == [type |-> "udp", dst |-> dst, body |-> body]
Discover == Udp(All, [op |-> "discover"])

\* udp_install_listener and dhcp_send_discover.
DhcpInit ==
    /\ At("start")
    /\ udp_listeners' = udp_listeners \cup {68}
    /\ sent' = sent \cup Out(Discover)
    /\ boot' = [Idle EXCEPT !.pc = "offers", !.left = OfferPolls]
    /\ UNCHANGED <<tables, conns, found>>

\* One turn of the loop that waits for an offer.
PollOffersForever ==
    /\ At("offers") /\ offers # <<>>
    /\ boot' = [boot EXCEPT !.pc = "probe", !.left = 0, !.i = 1]
    /\ UNCHANGED <<tables, conns, udp_listeners, found, sent>>
PollOffers ==
    /\ At("offers")
    /\ boot' = IF offers # <<>> \/ boot.left = 1
               THEN [boot EXCEPT !.pc = "probe", !.left = 0, !.i = 1]
               ELSE [boot EXCEPT !.left = @ - 1]
    /\ UNCHANGED <<tables, conns, udp_listeners, found, sent>>

\* The loop over the offers: its end, an address that is known to be in use, and
\* an address that has to be asked for.
NextOffer == [boot EXCEPT !.pc = "probe", !.left = 0, !.i = @ + 1]
ProbeEnds ==
    /\ At("probe") /\ boot.i > Len(offers)
    /\ boot' = Idle
    /\ UNCHANGED <<tables, conns, udp_listeners, found, sent>>

Probe ==
    /\ At("probe") /\ boot.i <= Len(offers)
    /\ IF Known(offers[boot.i].offered)
       THEN boot' = NextOffer /\ sent' = sent
       ELSE /\ boot' = [boot EXCEPT !.pc = "probing", !.left = ArpPolls]
            /\ sent' = sent \cup {arp_request(offers[boot.i].offered)}
    /\ UNCHANGED <<tables, conns, udp_listeners, found>>

\* One turn of arp_get_mac's loop for it; nobody answers: the address is free.
PollProbeBlind ==
    /\ At("probing")
    /\ boot' = IF boot.left > 1 THEN [boot EXCEPT !.left = @ - 1]
               ELSE [boot EXCEPT !.pc = "claim", !.left = Len(arp_list)]
    /\ UNCHANGED <<tables, conns, udp_listeners, found, sent>>
PollProbe ==
    /\ At("probing")
    /\ boot' = CASE Known(offers[boot.i].offered) -> NextOffer
                 [] ~Known(offers[boot.i].offered) /\ boot.left > 1 ->
                        [boot EXCEPT !.left = @ - 1]
                 [] OTHER -> [boot EXCEPT !.pc = "claim", !.left = Len(arp_list)]
    /\ UNCHANGED <<tables, conns, udp_listeners, found, sent>>

\* dhcp_send_request, and the break.  (at: the length of arp_list at the last look.)
Request(k) ==
    Udp(All, [op |-> "request", server |-> offers[k].server,
              addr |-> offers[k].offered, at |-> boot.left])
ClaimAll ==
    /\ At("claim")
    /\ sent' = sent \cup Out(Request(boot.i))
    /\ boot' = NextOffer
    /\ UNCHANGED <<tables, conns, udp_listeners, found>>
Claim ==
    /\ At("claim")
    /\ sent' = sent \cup Out(Request(boot.i))
    /\ boot' = Idle
    /\ UNCHANGED <<tables, conns, udp_listeners, found>>

ReceiveOffer(p) ==
    /\ 68 \in udp_listeners
    /\ Len(offers) < MaxOffers
    /\ offers' = Append(offers, [server |-> p.server, offered |-> OfferOf[p.server]])
    /\ UNCHANGED <<ipv4, arp_list, dns_ip_cache, conns, udp_listeners, boot, found, sent>>

\* dhcp_process_ack: an option that is absent leaves the value as it is, giaddr (0
\* without a relay) replaces the gateway first.
Option(new, old) == IF new = None THEN old ELSE new
Configured(s, addr, old) ==
    [ip |-> addr,
     netmask |-> Option(OptionsOf[s].netmask, old.netmask),
     gateway |-> Option(OptionsOf[s].router, None),
     dns |-> Option(OptionsOf[s].dns, old.dns)]
ReceiveAck(p) ==
    /\ 68 \in udp_listeners
    /\ ipv4' = Configured(p.server, p.addr, ipv4)
    /\ UNCHANGED <<arp_list, offers, dns_ip_cache, conns, udp_listeners, boot, found, sent>>

-----------------------------------------------------------------------------
(* A packet that the boot code sends to one station.                       *)

\* What follows ipv4_send_packet in dns_query_ipv4, tcp_syn and http_send_request.
Sent(p) ==
    CASE p.body.op = "query" -> [Idle EXCEPT !.pc = "answer", !.left = AnswerPolls, !.pkt = p]
      [] p.body.op = "syn"   -> [Idle EXCEPT !.pc = "synack", !.left = SynPolls, !.pkt = p]
      [] OTHER               -> Idle
\* dns_query_ipv4 gives up, the others do not look.
NotSent(p) == IF p.body.op = "query" THEN Idle ELSE Sent(p)

Send(p) ==
    /\ sent' = sent \cup Out(p)
    /\ boot' = IF Resolved(p)
               THEN Sent(p)
               ELSE [pc |-> "resolve", left |-> ArpPolls, i |-> Missing(p), pkt |-> p]

\* arp_get_mac's loop inside ipv4_send_packet; after the station its gateway.
PollResolve ==
    /\ At("resolve")
    /\ \/ /\ Known(boot.i)
          /\ Send(boot.pkt)
       \/ /\ ~Known(boot.i)
          /\ boot' = IF boot.left > 1 THEN [boot EXCEPT !.left = @ - 1] ELSE NotSent(boot.pkt)
          /\ sent' = sent
    /\ UNCHANGED <<tables, conns, udp_listeners, found>>

-----------------------------------------------------------------------------
(* DNS.                                                                    *)

Cached(d) == \E k \in DOMAIN dns_ip_cache : dns_ip_cache[k].domain = d
LastIp(d) == dns_ip_cache[Len(dns_ip_cache)].ip
CachedIp(d) == dns_ip_cache[SelectInSeq(dns_ip_cache, LAMBDA e : e.domain = d)].ip

\* dns_query_ipv4, its first look and the query.
Query(d) ==
    /\ At("idle") /\ ipv4.dns # None
    /\ IF Cached(d)
       THEN found' = [domain |-> d, ip |-> CachedIp(d)] /\ UNCHANGED <<boot, sent>>
       ELSE /\ Send(Udp(ipv4.dns, [op |-> "query", domain |-> d]))
            /\ found' = [domain |-> d, ip |-> None]
    /\ UNCHANGED <<tables, conns, udp_listeners>>

PollAnswer ==
    /\ At("answer")
    /\ LET d == boot.pkt.body.domain IN
       /\ found' = IF Cached(d) THEN [found EXCEPT !.ip = CachedIp(d)] ELSE found
       /\ boot' = IF Cached(d) \/ boot.left = 1 THEN Idle ELSE [boot EXCEPT !.left = @ - 1]
    /\ UNCHANGED <<tables, conns, udp_listeners, sent>>

\* dns_handle_response.  The name is appended to an array that is not cleared before
\* the first answer; the data of a record that is no A record is not skipped, so
\* what follows it is read from the wrong place.
ReceiveDns(p) ==
    /\ 43085 \in udp_listeners
    /\ Len(dns_ip_cache) < MaxNames
    /\ \E d \in (IF p.domain \in Aliases THEN {} ELSE {p.domain}) \cup {Junk} :
          /\ ~Cached(d)
          /\ dns_ip_cache' = Append(dns_ip_cache, [domain |-> d, ip |-> p.ip])
    /\ UNCHANGED <<ipv4, arp_list, offers, conns, udp_listeners, boot, found, sent>>

-----------------------------------------------------------------------------
(* TCP and HTTP.                                                           *)

\* tcp_send_packet; a sequence number of 0 means the next of our own.
Tcp(dst, op, port, seq, ack) ==
    [type |-> "tcp", dst |-> dst,
     body |-> [op |-> op, port |-> port, seq |-> IF seq = 0 THEN syn_c ELSE seq, ack |-> ack]]
SynCount(seq) == IF seq = 0 THEN syn_c + 1 ELSE syn_c

\* The first entry of a port, as a set: the loops stop at it.
FirstOf(port) ==
    {k \in DOMAIN tcp_syn_cache :
        /\ tcp_syn_cache[k].port = port
        /\ \A j \in 1 .. k - 1 : tcp_syn_cache[j].port # port}
Marked(port, syn, ack) ==
    [k \in DOMAIN tcp_syn_cache |->
        IF k \in FirstOf(port) THEN [port |-> port, syn |-> syn, ack |-> ack]
                               ELSE tcp_syn_cache[k]]

\* http_send_request and tcp_syn, up to the SYN.
Connect ==
    /\ At("idle") /\ found.ip # None
    /\ Len(tcp_syn_cache) < MaxConns
    /\ tcp_listeners' = tcp_listeners \cup {OurPort}
    /\ tcp_syn_cache' = Append(tcp_syn_cache, [port |-> OurPort, syn |-> FALSE, ack |-> 0])
    /\ Send(Tcp(found.ip, "syn", OurPort, 0, 0))
    /\ syn_c' = SynCount(0)
    /\ UNCHANGED <<tables, udp_listeners, found, last>>

\* tcp_syn's loop; then the request, with the number it returned, or the end.
Established ==
    {k \in DOMAIN tcp_syn_cache : tcp_syn_cache[k].port = OurPort /\ tcp_syn_cache[k].syn}
PollSyn ==
    /\ At("synack")
    /\ \/ /\ Established # {}
          /\ \E k \in Established :
                /\ \A j \in Established : k <= j
                /\ Send(Tcp(boot.pkt.dst, "data", OurPort, 0, tcp_syn_cache[k].ack))
          /\ syn_c' = SynCount(0)
       \/ /\ Established = {}
          /\ boot' = IF boot.left = 1 THEN Idle ELSE [boot EXCEPT !.left = @ - 1]
          /\ UNCHANGED <<sent, syn_c>>
    /\ UNCHANGED <<tables, tcp_syn_cache, tcp_listeners, udp_listeners, found, last>>

\* tcp_receive_packet.  p: [from, port, flags, seq, ack, len].  The answer's number is
\* the one p acknowledges; one to a segment that acknowledges none, or 0, takes the next
\* of our own.  Taken(p, n) is syn_c after n answers to p.
Reply(p, op, ack) == Tcp(p.from, op, p.port, p.ack, ack)
Taken(p, n) == IF p.ack = 0 THEN syn_c + n ELSE syn_c
ReceiveSynAck(p) ==
    /\ {"syn", "ack"} \subseteq p.flags
    /\ p.ack = 0 => syn_c < MaxSyn
    /\ sent' = sent \cup Out(Reply(p, "ack", p.seq + 1))
    /\ syn_c' = Taken(p, 1)
    /\ tcp_syn_cache' = Marked(p.port, TRUE, p.ack)
    /\ last' = [last EXCEPT ![p.port] = p]
    /\ UNCHANGED <<tables, tcp_listeners, udp_listeners, boot, found>>

ReceiveDataOnly(p) ==
    /\ ~({"syn", "ack"} \subseteq p.flags)
    /\ last' = IF "fin" \in p.flags THEN [last EXCEPT ![p.port] = p] ELSE last
    /\ UNCHANGED <<tables, tcp_syn_cache, syn_c, tcp_listeners, udp_listeners, boot, found, sent>>
ReceiveSegment(p) ==
    /\ ~({"syn", "ack"} \subseteq p.flags)
    /\ p.ack = 0 => syn_c < MaxSyn
    /\ LET heard == IF p.port \in tcp_listeners /\ p.len > 0 THEN 1 ELSE 0
           fin == IF "fin" \in p.flags THEN 1 ELSE 0
           answer == [Reply(p, IF "ack" \in p.flags THEN "ack" ELSE "finack", p.seq + 1)
                         EXCEPT !.body.seq = IF p.ack = 0 THEN Taken(p, heard) ELSE @]
       IN /\ sent' = sent \cup (IF heard = 1 THEN Out(Reply(p, "ack", p.seq + p.len)) ELSE {})
                          \cup (IF fin = 1 THEN Out(answer) ELSE {})
          /\ syn_c' = Taken(p, heard + fin)
          /\ tcp_syn_cache' = IF fin = 1 THEN Marked(p.port, FALSE, 0) ELSE tcp_syn_cache
          /\ last' = IF fin = 1 THEN [last EXCEPT ![p.port] = p] ELSE last
    /\ UNCHANGED <<tables, tcp_listeners, udp_listeners, boot, found>>

-----------------------------------------------------------------------------
(* The other stations.                                                     *)

Bodies(type) == {f.body : f \in {g \in sent : g.type = type}}
ArpReplies ==
    {[ip |-> f.ip, mac |-> Holder[f.ip]] :
        f \in {g \in sent : g.type = "arp_request" /\ g.ip \in DOMAIN Holder}}
Offers == IF [op |-> "discover"] \in Bodies("udp") THEN [server : Servers] ELSE {}
Acks ==
    {[server |-> b.server, addr |-> b.addr] : b \in {c \in Bodies("udp") : c.op = "request"}}
Answers ==
    {[domain |-> b.domain, ip |-> HostOf[b.domain]] :
        b \in {c \in Bodies("udp") : c.op = "query"}}
\* A server accepts the connection, answers the request and closes it.
Segments ==
    {[from |-> f.dst, port |-> f.body.port, flags |-> {"syn", "ack"}, seq |-> 7,
      ack |-> f.body.seq + 1, len |-> 0] :
        f \in {g \in sent : g.type = "tcp" /\ g.body.op = "syn"}}
    \cup
    {[from |-> f.dst, port |-> f.body.port, flags |-> fl, seq |-> 8,
      ack |-> f.body.seq + 1, len |-> IF fl = {"ack"} THEN 1 ELSE 0] :
        f \in {g \in sent : g.type = "tcp" /\ g.body.op = "data"},
        fl \in {{"ack"}, {"fin", "ack"}}}
    \cup Strangers

\* The boot code takes a step of its call.
BootStep ==
    \/ DhcpInit \/ PollOffers \/ ProbeEnds \/ Probe \/ PollProbe \/ Claim
    \/ PollResolve \/ PollAnswer \/ PollSyn

\* udp_receive_packet calls the listener of the port, if there is one.
udp_receive_packet ==
    \/ \E p \in Offers : ReceiveOffer(p)
    \/ \E p \in Acks : ReceiveAck(p)
    \/ \E p \in Answers : ReceiveDns(p)
tcp_receive_packet ==
    \/ \E p \in Segments : ReceiveSynAck(p)
    \/ \E p \in Segments : ReceiveSegment(p)
ipv4_receive_packet == udp_receive_packet \/ tcp_receive_packet

arp_receive_packet ==
    \/ \E m \in {Holder[a] : a \in DOMAIN Holder}, t \in Subnet :
          ReceiveArpRequest([ip |-> None, mac |-> m, target |-> t])
    \/ \E p \in ArpReplies : ReceiveArpReply(p)

ethernet_process_packet == arp_receive_packet \/ ipv4_receive_packet

Calls == (\E d \in DOMAIN HostOf : Query(d)) \/ Connect

\* e1000_init, udp_init, tcp_init, dns_init.
Init ==
    /\ ipv4 = [ip |-> None, netmask |-> None, gateway |-> None, dns |-> None]
    /\ arp_list = <<>> /\ offers = <<>> /\ dns_ip_cache = <<>>
    /\ tcp_syn_cache = <<>> /\ syn_c = 0
    /\ udp_listeners = {43085} /\ tcp_listeners = {}
    /\ boot = [Idle EXCEPT !.pc = "start"]
    /\ found = [domain |-> None, ip |-> None]
    /\ sent = {}
    /\ last = [p \in {OurPort} \cup {s.port : s \in Strangers} |-> [flags |-> {}, ack |-> 0]]

Next == BootStep \/ ethernet_process_packet \/ Calls

\* The timer interrupt goes on: a call that polls takes its next turn.
Spec == Init /\ [][Next]_vars /\ WF_vars(BootStep)

-----------------------------------------------------------------------------
(* Properties.                                                             *)

\* An IP packet leaves only when ipv4_send_packet has found where to: a broadcast to
\* everybody, anything else to the MAC of the station that holds the gateway's
\* address, never to what was left in destination_mac.
FramesResolved ==
    \A f \in {g \in sent : g.type \in {"udp", "tcp"}} :
        IF f.dst = All THEN f.mac = All
        ELSE f.via \in DOMAIN Holder /\ f.mac = Holder[f.via]

\* dhcp_init asks a server only for the address this server offered, after asking the
\* network who uses it and waiting to the end without an answer, in whatever order
\* offers and replies arrive.
Requests == {b \in Bodies("udp") : b.op = "request"}
ClaimProbed ==
    \A r \in Requests :
        /\ \E k \in DOMAIN offers : offers[k] = [server |-> r.server, offered |-> r.addr]
        /\ arp_request(r.addr) \in sent
        /\ \A k \in 1 .. r.at : arp_list[k].ip # r.addr

\* However often the acknowledgement arrives and whoever else made an offer, the
\* settings in use are one server's: address, mask, gateway and DNS belong together.
OneLease ==
    ipv4.ip # None =>
        \E r \in Requests :
            ipv4 = Configured(r.server, r.addr,
                              [ip |-> None, netmask |-> None, gateway |-> None, dns |-> None])

\* dns_query_ipv4 returns the address of the domain it was asked for, whatever other
\* answers, late ones included, are in the cache.
AnswerIsForName == found.ip # None => found.ip = HostOf[found.domain]

\* A connection counts as open only while the last of SYN-ACK and FIN that came for
\* its port is a SYN-ACK, and it keeps the number of that segment.
OpenIsAcked ==
    \A k \in DOMAIN tcp_syn_cache :
        tcp_syn_cache[k].syn =>
            LET l == last[tcp_syn_cache[k].port] IN
            {"syn", "ack"} \subseteq l.flags /\ tcp_syn_cache[k].ack = l.ack

\* Every call that waits for the network returns, even if nothing ever arrives.
CallsReturn == (boot.pc # "idle") ~> (boot.pc = "idle")
=============================================================================
