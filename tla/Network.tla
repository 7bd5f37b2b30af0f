------------------------------- MODULE Network -------------------------------
(***************************************************************************)
(* The network stack: the e1000 driver's descriptor rings                  *)
(* (drivers/net/e1000/e1000.cpp), the dispatch of received frames, the ARP *)
(* cache, sending over UDP, and the DNS resolver (net/).  The adapter      *)
(* works on the rings while the kernel polls them.  The network may lose,  *)
(* delay, repeat and reorder frames.                                       *)
(*                                                                         *)
(* A 16-bit field of a frame is its two bytes: the network's order is high *)
(* byte first, and the processor loads the first byte as the low one.      *)
(*                                                                         *)
(* The kernel has one context that polls: the main loop, or a lookup in    *)
(* it.  Echo replies go to a queue that nothing in the kernel reads.       *)
(***************************************************************************)
EXTENDS Naturals, Sequences, SequencesExt, FiniteSets

CONSTANTS
  RX_DESC_COUNT, TX_DESC_COUNT,  (* lengths of the rings: 8 in the code      *)
  DnsServer,     (* the address of the configured DNS server             *)
  OtherIp,       (* other addresses that answer ARP requests             *)
  Mac,           (* hardware addresses                                   *)
  ArpSlots,      (* length of the cache: 8 in the code                   *)
  HostName,      (* names looked up; each stands for its address too     *)
  Ids,           (* query ids are modulo Ids: 2^16 in the code           *)
  MaxPolls,      (* polls of one lookup: its timeout in milliseconds     *)
  MaxArrivals,   (* frames that arrive in a behaviour (bounds the model) *)
  MaxLookups     (* lookups in a behaviour (bounds the model)            *)

ASSUME NetworkConstants ==
  /\ RX_DESC_COUNT \in Nat /\ RX_DESC_COUNT > 1
  /\ TX_DESC_COUNT \in Nat /\ TX_DESC_COUNT > 1
  /\ {ArpSlots, MaxPolls, MaxArrivals, MaxLookups} \subseteq Nat
  /\ Ids \in Nat /\ Ids > MaxLookups + 1   (* no query id is used twice *)

VARIABLES
  rx,        (* receive descriptors: the frame in each, NoFrame without DD *)
  RDH, RDT,  (* the adapter's receive head and tail registers              *)
  rx_head_,
  poll,      (* rx_poll: its local head, or NotPolling                     *)
  tx,        (* transmit descriptors: the frame in each, NoFrame with DD   *)
  TDH,       (* the adapter's transmit head                                *)
  tx_tail_,  (* which is the tail register too                             *)
  cache,     (* the ARP cache's used slots                                 *)
  query_id_counter,
  response,  (* g_dns_response_buf when g_dns_response_ready, or NoFrame   *)
  lookup,    (* the call of dns_resolve that is under way                  *)
  arrived, taken, accepted, transmitted,  (* history: frames counted      *)
  learnt,    (* history: the addresses accepted for each IP, in order      *)
  asked,     (* history: the queries that left the adapter                 *)
  answers    (* history: what lookups returned                             *)

rxRing == <<rx, RDH, RDT, rx_head_, poll, arrived, taken>>
txRing == <<tx, TDH, tx_tail_, accepted, transmitted>>
resolver == <<query_id_counter, response, lookup, answers>>
netVars == <<rxRing, txRing, resolver, cache, learnt, asked>>

Ip == {DnsServer} \cup OtherIp
RxSlot == 0 .. RX_DESC_COUNT - 1
TxSlot == 0 .. TX_DESC_COUNT - 1

NotPolling == RX_DESC_COUNT
NoLookup == [id |-> 0, name |-> "", left |-> 0]

------------------------------------------------------------------------------
ETHERTYPE_IPV4 == 2048
ETHERTYPE_ARP == 2054
ARP_REPLY == 2

\* A field in the network's order, as other machines send it, and as a store
\* of the processor leaves it, as this kernel does.
NetworkOrder(v) == <<v \div 256, v % 256>>
HostOrder(v) == <<v % 256, v \div 256>>
Load16(bytes) == bytes[1] + 256 * bytes[2]

\* A frame: its number, whether it came in whole and without error, the
\* ethertype, and then an ARP reply's operation, sender and address or a
\* DNS answer's query.
NoFrame == [no |-> 0, good |-> FALSE, ethertype |-> <<0, 0>>, op |-> <<0, 0>>,
            ip |-> "", mac |-> "", id |-> 0, name |-> ""]

ArpReply(b, i, m) ==
  [NoFrame EXCEPT !.good = TRUE, !.ethertype = b[1], !.op = b[2], !.ip = i, !.mac = m]

ArpReplies ==
  {ArpReply(b, i, m) : b \in {<<NetworkOrder(ETHERTYPE_ARP), NetworkOrder(ARP_REPLY)>>,
                             <<HostOrder(ETHERTYPE_ARP), HostOrder(ARP_REPLY)>>},
                       i \in Ip, m \in Mac}

DnsAnswer(g, e, q) == [NoFrame EXCEPT !.good = g, !.ethertype = e, !.id = q.id, !.name = q.name]

\* Answers come for queries that were sent, late or more than once.
DnsAnswers ==
  {DnsAnswer(g, e, q) : g \in BOOLEAN,
                        e \in {NetworkOrder(ETHERTYPE_IPV4), HostOrder(ETHERTYPE_IPV4)},
                        q \in asked}

------------------------------------------------------------------------------
(***************************************************************************)
(* The adapter fills the descriptor at its head while the head is not at   *)
(* the tail, and drops what arrives otherwise; it sends what lies between  *)
(* its transmit head and tail and marks it done.                           *)
(***************************************************************************)
Arrive(f) ==
  /\ arrived < MaxArrivals /\ RDH # RDT
  /\ rx' = [rx EXCEPT ![RDH] = [f EXCEPT !.no = arrived + 1]]
  /\ RDH' = (RDH + 1) % RX_DESC_COUNT
  /\ arrived' = arrived + 1
  /\ UNCHANGED <<RDT, rx_head_, poll, taken, txRing, resolver, cache, learnt, asked>>

Transmit ==
  /\ TDH # tx_tail_
  /\ tx' = [tx EXCEPT ![TDH] = NoFrame]
  /\ TDH' = (TDH + 1) % TX_DESC_COUNT
  /\ transmitted' = tx[TDH].no
  /\ asked' = asked \cup {[id |-> f.id, name |-> f.name] : f \in {g \in {tx[TDH]} : g.id # 0}}
  /\ UNCHANGED <<tx_tail_, accepted, rxRing, resolver, cache, learnt>>

------------------------------------------------------------------------------
(***************************************************************************)
(* Transmission.  A ring is a record of what tx_send reads and writes.     *)
(***************************************************************************)
TxRing == [tx |-> tx, tail |-> tx_tail_, accepted |-> accepted, ok |-> TRUE]

\* Faulty variant: the descriptor is not looked at.
tx_send_blind(r, f) ==
  [tx |-> [r.tx EXCEPT ![r.tail] = [f EXCEPT !.no = r.accepted + 1]],
   tail |-> (r.tail + 1) % TX_DESC_COUNT, accepted |-> r.accepted + 1, ok |-> TRUE]

\* A descriptor that is still in use fails the call.
tx_send(r, f) ==
  IF r.tx[r.tail] # NoFrame THEN [r EXCEPT !.ok = FALSE]
  ELSE [tx |-> [r.tx EXCEPT ![r.tail] = [f EXCEPT !.no = r.accepted + 1]],
        tail |-> (r.tail + 1) % TX_DESC_COUNT, accepted |-> r.accepted + 1, ok |-> TRUE]

Broadcast == "broadcast"

CacheSlots(ip) == {i \in DOMAIN cache : cache[i].ip = ip}

First(S) == CHOOSE i \in S : \A j \in S : i <= j

\* Faulty variant: the first slot is taken for the address looked for.
arp_cache_lookup_any(ip) == IF cache = <<>> THEN Broadcast ELSE cache[1].mac

arp_cache_lookup(ip) ==
  IF CacheSlots(ip) = {} THEN Broadcast ELSE cache[First(CacheSlots(ip))].mac

\* arp_resolve sends a request when it has no address; the frame itself then
\* goes to everybody.
send_udp_packet(query) ==
  LET mac == arp_cache_lookup(DnsServer)
      request == [NoFrame EXCEPT !.good = TRUE, !.ethertype = HostOrder(ETHERTYPE_ARP),
                                 !.op = HostOrder(1), !.ip = DnsServer, !.mac = Broadcast]
      frame == [NoFrame EXCEPT !.good = TRUE, !.ethertype = HostOrder(ETHERTYPE_IPV4),
                               !.ip = DnsServer, !.mac = mac, !.id = query.id, !.name = query.name]
  IN tx_send(IF mac = Broadcast THEN tx_send(TxRing, request) ELSE TxRing, frame)

------------------------------------------------------------------------------
(***************************************************************************)
(* Reception: rx_poll, and what rx_cb does with a frame.                   *)
(***************************************************************************)
\* The entry of the address is changed, or a free slot used; without one the
\* reply is forgotten.
arp_cache_update(f) ==
  IF CacheSlots(f.ip) # {} THEN [cache EXCEPT ![First(CacheSlots(f.ip))].mac = f.mac]
  ELSE IF Len(cache) = ArpSlots THEN cache
  ELSE Append(cache, [ip |-> f.ip, mac |-> f.mac])

IsArpReply(f) == Load16(f.ethertype) = ETHERTYPE_ARP /\ Load16(f.op) = ARP_REPLY
IsIPv4(f) == Load16(f.ethertype) = ETHERTYPE_IPV4

arp_ingest(f) ==
  /\ cache' = arp_cache_update(f)
  /\ learnt' = [learnt EXCEPT ![f.ip] = Append(@, f.mac)]
  /\ UNCHANGED response

\* Any answer is kept, over the one before it.
dns_on_udp_packet(f) == response' = f /\ UNCHANGED <<cache, learnt>>

rx_cb(f) ==
  \/ IsArpReply(f) /\ arp_ingest(f)
  \/ IsIPv4(f) /\ dns_on_udp_packet(f)
  \/ ~IsArpReply(f) /\ ~IsIPv4(f) /\ UNCHANGED <<cache, learnt, response>>

BeginPoll ==
  /\ poll = NotPolling
  /\ poll' = rx_head_
  /\ \/ lookup = NoLookup /\ UNCHANGED lookup
     \/ /\ lookup # NoLookup /\ lookup.left > 0 /\ response = NoFrame
        /\ lookup' = [lookup EXCEPT !.left = @ - 1]
  /\ UNCHANGED <<rx, RDH, RDT, rx_head_, arrived, taken, txRing,
                 query_id_counter, response, answers, cache, learnt, asked>>

\* Faulty variant: the tail is put at the next descriptor to read.
TailAt(head) == head

\* The last descriptor given back is the one before the next to read.
TailBefore(head) == IF head = 0 THEN RX_DESC_COUNT - 1 ELSE head - 1

PollFrame ==
  /\ poll # NotPolling /\ rx[poll] # NoFrame
  /\ \/ rx[poll].good /\ rx_cb(rx[poll])
     \/ ~rx[poll].good /\ UNCHANGED <<cache, learnt, response>>
  /\ rx' = [rx EXCEPT ![poll] = NoFrame]
  /\ poll' = (poll + 1) % RX_DESC_COUNT
  /\ RDT' = TailBefore((poll + 1) % RX_DESC_COUNT)
  /\ taken' = rx[poll].no
  /\ UNCHANGED <<RDH, rx_head_, arrived, txRing, query_id_counter, lookup, answers, asked>>

EndPoll ==
  /\ poll # NotPolling /\ rx[poll] = NoFrame
  /\ rx_head_' = poll /\ poll' = NotPolling
  /\ UNCHANGED <<rx, RDH, RDT, arrived, taken, txRing, resolver, cache, learnt, asked>>

------------------------------------------------------------------------------
(***************************************************************************)
(* The resolver: dns_resolve forgets an earlier answer, sends its query,   *)
(* and polls until there is an answer or its time is over.                 *)
(***************************************************************************)
Answered(name, address) == answers' = answers \cup {[name |-> name, address |-> address]}

dns_resolve(name) ==
  /\ lookup = NoLookup /\ poll = NotPolling
  /\ query_id_counter <= MaxLookups
  /\ query_id_counter' = (query_id_counter + 1) % Ids
  /\ response' = NoFrame
  /\ LET r == send_udp_packet([id |-> query_id_counter, name |-> name])
     IN /\ tx' = r.tx /\ tx_tail_' = r.tail /\ accepted' = r.accepted
        /\ lookup' = IF r.ok THEN [id |-> query_id_counter, name |-> name, left |-> MaxPolls]
                             ELSE NoLookup
  /\ UNCHANGED <<answers, TDH, transmitted, rxRing, cache, learnt, asked>>

\* Faulty variant: the answer's id is not compared.
parse_dns_response_any == BOOLEAN

\* Whether an address is found: in an answer with the query's id only, and not
\* in one that is no response, has an error code or holds no A record.
parse_dns_response == {found \in BOOLEAN : found => response.id = lookup.id}

EndLookup ==
  /\ lookup # NoLookup /\ poll = NotPolling
  /\ lookup.left = 0 \/ response # NoFrame
  /\ \E found \in parse_dns_response :
       \/ found /\ response # NoFrame /\ Answered(lookup.name, response.name)
       \/ ~found /\ UNCHANGED answers
  /\ lookup' = NoLookup
  /\ UNCHANGED <<query_id_counter, response, rxRing, txRing, cache, learnt, asked>>

------------------------------------------------------------------------------
NetInit ==
  /\ rx = [i \in RxSlot |-> NoFrame]
  /\ RDH = 0 /\ RDT = RX_DESC_COUNT - 1 /\ rx_head_ = 0 /\ poll = NotPolling
  /\ tx = [i \in TxSlot |-> NoFrame] /\ TDH = 0 /\ tx_tail_ = 0
  /\ cache = <<>>
  /\ query_id_counter = 1 /\ response = NoFrame /\ lookup = NoLookup
  /\ arrived = 0 /\ taken = 0 /\ accepted = 0 /\ transmitted = 0
  /\ learnt = [i \in Ip |-> <<>>]
  /\ asked = {} /\ answers = {}

NetNext ==
  \/ \E f \in ArpReplies : Arrive(f)
  \/ \E f \in DnsAnswers : Arrive(f)
  \/ Transmit
  \/ BeginPoll \/ PollFrame \/ EndPoll
  \/ \E name \in HostName : dns_resolve(name)
  \/ EndLookup

NetSpec == NetInit /\ [][NetNext]_netVars

------------------------------------------------------------------------------
Frame == [no : 0 .. MaxArrivals + 2 * MaxLookups, good : BOOLEAN, ethertype : Seq(0 .. 255),
          op : Seq(0 .. 255), ip : Ip \cup {""}, mac : Mac \cup {"", Broadcast},
          id : 0 .. Ids - 1, name : HostName \cup {""}]

\* Type invariant of the rings, the cache and the lookup.
NetTypeOK ==
  /\ rx \in [RxSlot -> Frame] /\ RDH \in RxSlot /\ RDT \in RxSlot
  /\ rx_head_ \in RxSlot /\ poll \in RxSlot \cup {NotPolling}
  /\ tx \in [TxSlot -> Frame] /\ TDH \in TxSlot /\ tx_tail_ \in TxSlot
  /\ Len(cache) <= ArpSlots
  /\ response \in Frame
  /\ lookup \in [id : 0 .. Ids - 1, name : HostName \cup {""}, left : 0 .. MaxPolls]

\* Where the next frame is read: rx_poll's own head while it runs.
ReadFrom == IF poll = NotPolling THEN rx_head_ ELSE poll

\* The receive ring holds the frames that came in and were not read yet, in
\* the order they came in, from the place where the driver reads next, and
\* nothing else: none is overwritten, skipped or read twice.  When every frame
\* was read the adapter has descriptors to fill, so driver and adapter never
\* both wait (e1000.cpp:286-322).
RxRingSound ==
  /\ NetTypeOK
  /\ \A k \in RxSlot :
       rx[(ReadFrom + k) % RX_DESC_COUNT].no
         = IF k < arrived - taken THEN taken + 1 + k ELSE 0
  /\ arrived = taken => RDH # RDT

\* The transmit ring holds the frames that tx_send accepted and the adapter
\* has not sent, in order (e1000.cpp:253-284).  Its head and tail meet, which
\* stops the adapter, only with nothing to send or with every descriptor in use.
TxRingSound ==
  /\ \A k \in TxSlot :
       tx[(TDH + k) % TX_DESC_COUNT].no
         = IF k < accepted - transmitted THEN transmitted + 1 + k ELSE 0
  /\ TDH = tx_tail_ => accepted - transmitted \in {0, TX_DESC_COUNT}

\* A frame that does not go to everybody goes to an address that its
\* destination gave in an ARP reply, and the cache has the last one given
\* (arp_cache.cpp:11-25, udp.cpp:42-109).
AddressedAsLearnt ==
  /\ \A s \in TxSlot : tx[s].mac \in {"", Broadcast} \cup Range(learnt[DnsServer])
  /\ \A i \in DOMAIN cache : cache[i].mac = Last(learnt[cache[i].ip])

\* A lookup returns the address of the name it was asked for, although
\* answers come late, twice, or to an earlier query (dns.cpp:127-258).
AnswersAsAsked == \A a \in answers : a.address = a.name
==============================================================================
