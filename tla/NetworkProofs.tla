--------------------------- MODULE NetworkProofs ---------------------------
(***************************************************************************)
(* Proofs about Network, for rings of any length, any addresses and names  *)
(* and any number of arrivals and lookups: what the rings hold, where      *)
(* frames are sent, and which name an answer is for.                       *)
(***************************************************************************)
EXTENDS Network, WellFoundedInduction, TLAPS

(***************************************************************************)
(* A non-empty set of natural numbers has a smallest element: what         *)
(* induction by smallest counterexample rests on.                          *)
(***************************************************************************)
LEMMA MinimumExists ==
  ASSUME NEW T, T \subseteq Nat, T # {}
  PROVE  \E m \in T : \A n \in T : m <= n
<1> DEFINE Less == OpToRel(<, Nat)
<1>1. IsWellFoundedOn(Less, Nat)
  BY NatLessThanWellFounded
<1>2. \E x \in T : \A y \in T : ~ (<<y, x>> \in Less)
  <2> HIDE DEF Less
  <2> QED BY <1>1, WFMin
<1>3. PICK x \in T : \A y \in T : ~ (<<y, x>> \in Less)
  BY <1>2
<1>4. Less = {p \in Nat \X Nat : p[1] < p[2]}
  BY DEF OpToRel
<1>5. \A y \in T : x <= y
  <2> HIDE DEF Less
  <2>1. \A y \in T : ~ (y < x)
    BY <1>3, <1>4
  <2> QED BY <2>1
<1>6. QED
  BY <1>5

(***************************************************************************)
(* Ring arithmetic.  A ring of N descriptors holds, from the one at head   *)
(* on, the frames numbered low + 1 .. high, and nothing in the others.     *)
(***************************************************************************)
Wrap(N, x) == x % N

Holds(N, ring, head, low, high) ==
  \A k \in 0 .. N - 1 :
    ring[Wrap(N, head + k)].no = IF k < high - low THEN low + 1 + k ELSE 0

Numbered(f, n) == f.no = n

\* A frame is stored in a descriptor.
Store(ring, slot, f) == [ring EXCEPT ![slot] = f]

\* The ring and the two counters belong together.
RingSound(N, ring, head, low, high) ==
  /\ N \in Nat \ {0} /\ DOMAIN ring = 0 .. N - 1 /\ head \in 0 .. N - 1
  /\ low \in Nat /\ high \in Nat /\ low <= high /\ high - low <= N
  /\ Holds(N, ring, head, low, high)

(***************************************************************************)
(* One subtraction brings an index back into the ring.                     *)
(***************************************************************************)
LEMMA WrapOnce ==
  ASSUME NEW N \in Nat \ {0}, NEW x \in Nat, x < 2 * N
  PROVE  Wrap(N, x) = (IF x < N THEN x ELSE x - N) /\ Wrap(N, x) \in 0 .. N - 1
<1>1. CASE x < N
  BY <1>1 DEF Wrap
<1>2. CASE ~(x < N)
  <2> DEFINE y == x - N
  <2>1. y \in 0 .. N - 1 /\ x = y + N
    BY <1>2
  <2> HIDE DEF y
  <2>2. (y + N) % N = y
    BY <2>1
  <2> QED BY <2>1, <2>2, <1>2 DEF Wrap
<1> QED BY <1>1, <1>2

(***************************************************************************)
(* A frame stored behind the last one of a ring with room.                 *)
(***************************************************************************)
LEMMA RingPut ==
  ASSUME NEW N, NEW ring, NEW head, NEW low, NEW high, RingSound(N, ring, head, low, high),
         high - low < N, NEW f, Numbered(f, high + 1)
  PROVE  LET slot == Wrap(N, head + (high - low))
         IN /\ slot \in 0 .. N - 1 /\ ring[slot].no = 0
            /\ RingSound(N, Store(ring, slot, f), head, low, high + 1)
            /\ Wrap(N, slot + 1) = Wrap(N, head + ((high + 1) - low))
<1>a. PICK slot, new : slot = Wrap(N, head + (high - low)) /\ new = Store(ring, slot, f)
  OBVIOUS
<1>b. new = [ring EXCEPT ![slot] = f] /\ f.no = high + 1
  BY <1>a DEF Store, Numbered
<1>0. /\ N \in Nat \ {0} /\ DOMAIN ring = 0 .. N - 1 /\ head \in 0 .. N - 1
      /\ low \in Nat /\ high \in Nat /\ low <= high
      /\ Holds(N, ring, head, low, high)
  BY DEF RingSound
<1> USE <1>0, <1>b
<1> DEFINE d == high - low
<1>1. d \in 0 .. N - 1
  OBVIOUS
<1>2. slot = (IF head + d < N THEN head + d ELSE head + d - N) /\ slot \in 0 .. N - 1
  BY <1>a, <1>1, WrapOnce
<1>3. ring[slot].no = 0
  <2>1. ring[Wrap(N, head + d)].no = IF d < high - low THEN low + 1 + d ELSE 0
    BY <1>1, Zenon DEF Holds
  <2> QED BY <1>a, <2>1
<1>4. Holds(N, new, head, low, high + 1)
  <2> SUFFICES ASSUME NEW k \in 0 .. N - 1
               PROVE  new[Wrap(N, head + k)].no = IF k < (high + 1) - low THEN low + 1 + k ELSE 0
    BY Zenon DEF Holds
  <2>1. /\ Wrap(N, head + k) = (IF head + k < N THEN head + k ELSE head + k - N)
        /\ Wrap(N, head + k) \in 0 .. N - 1
    <3>1. head + k \in Nat /\ head + k < 2 * N
      OBVIOUS
    <3> QED BY <3>1, WrapOnce
  <2>2. CASE k = d
    <3>1. new[Wrap(N, head + k)] = f
      BY <1>a, <2>2, <1>2
    <3> QED BY <3>1, <2>2
  <2>3. CASE k # d
    <3>1. Wrap(N, head + k) # slot
      BY <2>1, <2>3, <1>1, <1>2
    <3>2. new[Wrap(N, head + k)] = ring[Wrap(N, head + k)]
      BY <3>1, <2>1
    <3>3. ring[Wrap(N, head + k)].no = IF k < high - low THEN low + 1 + k ELSE 0
      BY DEF Holds
    <3>4. k < high - low <=> k < (high + 1) - low
      BY <2>3
    <3> QED BY <3>2, <3>3, <3>4
  <2> QED BY <2>2, <2>3
<1>5. Wrap(N, slot + 1) = Wrap(N, head + ((high + 1) - low))
  <2>1. head + ((high + 1) - low) = head + d + 1
    OBVIOUS
  <2>2. CASE head + d < N
    BY <2>1, <2>2, <1>2
  <2>3. CASE ~(head + d < N)
    <3>1. Wrap(N, head + d + 1) = head + d + 1 - N
      BY <2>3, <1>1, WrapOnce
    <3>2. slot + 1 < N /\ slot + 1 = head + d + 1 - N
      BY <2>3, <1>1, <1>2
    <3>3. Wrap(N, slot + 1) = slot + 1
      BY <3>2, <1>2, WrapOnce
    <3> QED BY <2>1, <3>1, <3>2, <3>3
  <2> QED BY <2>2, <2>3
<1>6. RingSound(N, new, head, low, high + 1)
  <2>1. DOMAIN new = 0 .. N - 1 /\ high + 1 \in Nat /\ low <= high + 1 /\ (high + 1) - low <= N
    OBVIOUS
  <2> QED BY <2>1, <1>4, Zenon DEF RingSound
<1> QED BY <1>a, <1>2, <1>3, <1>5, <1>6, Zenon

(***************************************************************************)
(* The first frame taken out of a ring that holds one.                     *)
(***************************************************************************)
LEMMA RingTake ==
  ASSUME NEW N, NEW ring, NEW head, NEW low, NEW high, RingSound(N, ring, head, low, high),
         low < high, NEW f, Numbered(f, 0)
  PROVE  /\ ring[head].no = low + 1
         /\ RingSound(N, Store(ring, head, f), Wrap(N, head + 1), low + 1, high)
         /\ Wrap(N, Wrap(N, head + 1) + (high - (low + 1))) = Wrap(N, head + (high - low))
<1>a. PICK new : new = Store(ring, head, f)
  OBVIOUS
<1>b. new = [ring EXCEPT ![head] = f] /\ f.no = 0
  BY <1>a DEF Store, Numbered
<1>0. /\ N \in Nat \ {0} /\ DOMAIN ring = 0 .. N - 1 /\ head \in 0 .. N - 1
      /\ low \in Nat /\ high \in Nat /\ high - low <= N
      /\ Holds(N, ring, head, low, high)
  BY DEF RingSound
<1> USE <1>0, <1>b
<1> DEFINE h == Wrap(N, head + 1)
<1>1. h = (IF head + 1 < N THEN head + 1 ELSE 0) /\ h \in 0 .. N - 1
  BY WrapOnce
<1>2. ring[head].no = low + 1
  <2>1. head + 0 = head /\ Wrap(N, head) = head /\ 0 \in 0 .. N - 1 /\ 0 < high - low
    BY WrapOnce
  <2>2. ring[Wrap(N, head + 0)].no = low + 1 + 0
    BY <2>1 DEF Holds
  <2> QED BY <2>1, <2>2
<1>3. Holds(N, new, h, low + 1, high)
  <2> HIDE DEF h
  <2> SUFFICES ASSUME NEW k \in 0 .. N - 1
               PROVE  new[Wrap(N, h + k)].no = IF k < high - (low + 1) THEN low + 1 + 1 + k ELSE 0
    BY Zenon DEF Holds
  <2>1. /\ Wrap(N, h + k) = (IF h + k < N THEN h + k ELSE h + k - N)
        /\ Wrap(N, h + k) \in 0 .. N - 1
    BY <1>1, WrapOnce
  <2>2. CASE k = N - 1
    <3>1. Wrap(N, h + k) = head
      BY <2>1, <2>2, <1>1
    <3>2. new[Wrap(N, h + k)] = f
      BY <3>1
    <3> QED BY <3>2, <2>2
  <2>3. CASE k < N - 1
    <3>1. /\ Wrap(N, head + (k + 1)) = (IF head + (k + 1) < N THEN head + (k + 1) ELSE head + (k + 1) - N)
      BY <2>3, WrapOnce
    <3>2. Wrap(N, h + k) = Wrap(N, head + (k + 1)) /\ Wrap(N, h + k) # head
      BY <3>1, <2>1, <2>3, <1>1
    <3>3. new[Wrap(N, h + k)] = ring[Wrap(N, head + (k + 1))]
      BY <3>2, <2>1
    <3>4. k + 1 \in 0 .. N - 1
      BY <2>3
    <3>5. ring[Wrap(N, head + (k + 1))].no
            = IF k + 1 < high - low THEN low + 1 + (k + 1) ELSE 0
      BY <3>4, Zenon DEF Holds
    <3> QED BY <3>3, <3>5
  <2> QED BY <2>2, <2>3
<1>4. Wrap(N, h + (high - (low + 1))) = Wrap(N, head + (high - low))
  <2> DEFINE e == high - low
  <2>1. e \in 1 .. N /\ high - (low + 1) = e - 1
    OBVIOUS
  <2> HIDE DEF e, h
  <2>2. CASE head + 1 < N
    BY <2>1, <2>2, <1>1 DEF e
  <2>3. CASE head + 1 = N
    <3>1. h = 0 /\ h + (e - 1) = e - 1 /\ Wrap(N, e - 1) = e - 1
      BY <2>1, <2>3, <1>1, WrapOnce
    <3>2. Wrap(N, head + e) = e - 1
      BY <2>1, <2>3, WrapOnce
    <3> QED BY <2>1, <3>1, <3>2 DEF e
  <2> QED BY <2>2, <2>3
<1>5. RingSound(N, new, h, low + 1, high)
  <2>1. DOMAIN new = 0 .. N - 1 /\ low + 1 \in Nat /\ low + 1 <= high /\ high - (low + 1) <= N
    OBVIOUS
  <2> QED BY <2>1, <1>1, <1>3, Zenon DEF RingSound
<1> QED BY <1>a, <1>1, <1>2, <1>4, <1>5, Zenon

------------------------------------------------------------------------------
(***************************************************************************)
(* The inductive invariant.  It relates each ring to its registers and     *)
(* counters; has the cache one slot for an address; and knows the name of  *)
(* the query in every frame that the lookup could take for its answer.     *)
(***************************************************************************)
RxInv ==
  /\ rx \in [RxSlot -> Frame] /\ rx_head_ \in RxSlot /\ poll \in RxSlot \cup {NotPolling}
  /\ RingSound(RX_DESC_COUNT, rx, ReadFrom, taken, arrived)
  /\ arrived <= MaxArrivals /\ arrived - taken < RX_DESC_COUNT
  /\ RDH = Wrap(RX_DESC_COUNT, ReadFrom + (arrived - taken))
  /\ RDT = TailBefore(ReadFrom)
  /\ \A i \in RxSlot : rx[i].no = 0 => rx[i] = NoFrame

\* A transmit ring with this tail, into which so many frames were put.
TxSound(ring, tail, count) ==
  /\ ring \in [TxSlot -> Frame]
  /\ RingSound(TX_DESC_COUNT, ring, TDH, transmitted, count)
  /\ tail = Wrap(TX_DESC_COUNT, TDH + (count - transmitted))
  /\ \A s \in TxSlot : ring[s].no = 0 => ring[s] = NoFrame

TxInv ==
  /\ TxSound(tx, tx_tail_, accepted)
  /\ query_id_counter \in 1 .. MaxLookups + 1
  /\ accepted <= 2 * (query_id_counter - 1)

CacheEntry == [ip : Ip, mac : Mac]

CacheInv ==
  /\ learnt \in [Ip -> Seq(Mac)]
  /\ cache \in Seq(CacheEntry) /\ Len(cache) <= ArpSlots
  /\ \A i, j \in DOMAIN cache : cache[i].ip = cache[j].ip => i = j
  /\ \A i \in DOMAIN cache :
       learnt[cache[i].ip] # <<>> /\ cache[i].mac = Last(learnt[cache[i].ip])
  /\ \A i \in RxSlot : IsArpReply(rx[i]) => rx[i].ip \in Ip /\ rx[i].mac \in Mac
  /\ \A s \in TxSlot : tx[s].mac \in {"", Broadcast} \cup Range(learnt[DnsServer])

Query == [id : 1 .. Ids - 1, name : HostName]

\* The query that a frame carries, if it carries one, was sent.
WasAsked(f) == f.id # 0 => [id |-> f.id, name |-> f.name] \in asked

ResolverInv ==
  /\ response \in Frame
  /\ lookup \in [id : 0 .. Ids - 1, name : HostName \cup {""}, left : 0 .. MaxPolls]
  /\ lookup # NoLookup => lookup.id # 0
  /\ asked \subseteq Query
  /\ \A q \in asked : q.id < query_id_counter /\ (q.id = lookup.id => q.name = lookup.name)
  /\ \A s \in TxSlot :
       tx[s].id # 0 => /\ tx[s].id < query_id_counter /\ tx[s].name \in HostName
                       /\ tx[s].id = lookup.id => tx[s].name = lookup.name
  /\ \A i \in RxSlot : WasAsked(rx[i])
  /\ WasAsked(response)
  /\ \A a \in answers : a.address = a.name

NetInv == RxInv /\ TxInv /\ CacheInv /\ ResolverInv

------------------------------------------------------------------------------
(***************************************************************************)
(* Frames.                                                                 *)
(***************************************************************************)
FrameNo == 0 .. MaxArrivals + 2 * MaxLookups

\* A 16-bit field is two bytes.
Bytes == Seq(0 .. 255)

(***************************************************************************)
(* The empty frame's fields.                                               *)
(***************************************************************************)
LEMMA NoFrameFields ==
  /\ NoFrame \in Frame
  /\ NoFrame.no = 0 /\ NoFrame.op = <<0, 0>> /\ NoFrame.id = 0 /\ NoFrame.mac = ""
<1>1. 0 \in FrameNo /\ 0 \in 0 .. Ids - 1
  BY NetworkConstants DEF FrameNo
<1>2. <<0, 0>> \in Bytes
  BY DEF Bytes
<1> QED BY <1>1, <1>2 DEF NoFrame, Frame, FrameNo, Bytes

(***************************************************************************)
(* Both byte orders of a field give bytes.                                 *)
(***************************************************************************)
LEMMA FieldBytes ==
  ASSUME NEW v \in {ETHERTYPE_IPV4, ETHERTYPE_ARP, ARP_REPLY, 1}
  PROVE  NetworkOrder(v) \in Bytes /\ HostOrder(v) \in Bytes
<1>1. v \in Nat /\ v < 65536
  BY DEF ETHERTYPE_IPV4, ETHERTYPE_ARP, ARP_REPLY
<1>2. v % 256 \in 0 .. 255 /\ v \div 256 \in 0 .. 255
  BY <1>1
<1> DEFINE lo == v % 256
           hi == v \div 256
<1> HIDE DEF lo, hi
<1>3. <<hi, lo>> \in Bytes /\ <<lo, hi>> \in Bytes
  BY <1>2 DEF Bytes, lo, hi
<1> QED BY <1>3 DEF NetworkOrder, HostOrder, lo, hi

(***************************************************************************)
(* A frame in a descriptor is the frame that was stored, numbered.         *)
(***************************************************************************)
LEMMA NumberedFrame ==
  ASSUME NEW f \in Frame, NEW n \in FrameNo
  PROVE  LET g == [f EXCEPT !.no = n]
         IN g \in Frame /\ g.no = n /\ g.id = f.id /\ g.name = f.name /\ g.op = f.op
              /\ g.ethertype = f.ethertype /\ g.ip = f.ip /\ g.mac = f.mac /\ g.good = f.good
BY DEF Frame, FrameNo

(***************************************************************************)
(* An ARP reply carries no query, and an address of the network.           *)
(***************************************************************************)
LEMMA ArpFrame ==
  ASSUME NEW f \in ArpReplies
  PROVE  f \in Frame /\ f.id = 0 /\ f.ip \in Ip /\ f.mac \in Mac
<1> DEFINE Fields == {<<NetworkOrder(ETHERTYPE_ARP), NetworkOrder(ARP_REPLY)>>,
                      <<HostOrder(ETHERTYPE_ARP), HostOrder(ARP_REPLY)>>}
<1>1. PICK b \in Fields, i \in Ip, m \in Mac : f = ArpReply(b, i, m)
  BY DEF ArpReplies
<1> DEFINE type == b[1]
           op == b[2]
<1>2. type \in Bytes /\ op \in Bytes
  BY FieldBytes
<1>3. f = [NoFrame EXCEPT !.good = TRUE, !.ethertype = type, !.op = op, !.ip = i, !.mac = m]
  BY <1>1, Zenon DEF ArpReply
<1> HIDE DEF type, op
<1> QED BY <1>2, <1>3, NoFrameFields DEF Frame, Bytes

(***************************************************************************)
(* A DNS answer is no ARP reply, and carries a query that was sent.        *)
(***************************************************************************)
LEMMA DnsFrame ==
  ASSUME asked \subseteq Query, NEW f \in DnsAnswers
  PROVE  f \in Frame /\ f.op = <<0, 0>> /\ [id |-> f.id, name |-> f.name] \in asked
<1>1. PICK g \in BOOLEAN, e \in {NetworkOrder(ETHERTYPE_IPV4), HostOrder(ETHERTYPE_IPV4)}, q \in asked :
             f = DnsAnswer(g, e, q)
  BY DEF DnsAnswers
<1>2. e \in Bytes
  BY FieldBytes
<1> DEFINE id == q.id
           name == q.name
<1>3. id \in 0 .. Ids - 1 /\ name \in HostName /\ q = [id |-> id, name |-> name]
  BY NetworkConstants DEF Query
<1>4. f = [NoFrame EXCEPT !.good = g, !.ethertype = e, !.id = id, !.name = name]
  BY <1>1, Zenon DEF DnsAnswer
<1> HIDE DEF id, name
<1>5. f \in Frame /\ f.op = <<0, 0>> /\ f.id = id /\ f.name = name
  <2>1. f = [no |-> NoFrame.no, good |-> g, ethertype |-> e, op |-> NoFrame.op,
             ip |-> NoFrame.ip, mac |-> NoFrame.mac, id |-> id, name |-> name]
    BY <1>4 DEF NoFrame
  <2> QED BY <1>2, <1>3, <2>1, NoFrameFields DEF Frame, Bytes
<1> QED BY <1>3, <1>5

------------------------------------------------------------------------------
(***************************************************************************)
(* tx_send.                                                                *)
(***************************************************************************)
RingRecord == [tx : [TxSlot -> Frame], tail : TxSlot, accepted : Nat, ok : BOOLEAN]

\* What a frame in a descriptor has of the frame that was sent.
CopyOf(g, f) == g.id = f.id /\ g.name = f.name /\ g.mac = f.mac

(***************************************************************************)
(* A call of tx_send leaves a sound ring, with the old frames in it and    *)
(* possibly the new one.                                                   *)
(***************************************************************************)
LEMMA SendStep ==
  ASSUME NEW r \in RingRecord, TxSound(r.tx, r.tail, r.accepted),
         r.accepted < 2 * MaxLookups, NEW f \in Frame
  PROVE  LET sent == tx_send(r, f)
         IN /\ sent \in RingRecord /\ TxSound(sent.tx, sent.tail, sent.accepted)
            /\ sent.accepted <= r.accepted + 1
            /\ \A s \in TxSlot : sent.tx[s] = r.tx[s] \/ CopyOf(sent.tx[s], f)
<1> DEFINE sent == tx_send(r, f)
<1>0. PICK ring, tail, count : ring = r.tx /\ tail = r.tail /\ count = r.accepted
  OBVIOUS
<1>a. TxSound(ring, tail, count) /\ count < 2 * MaxLookups
  BY <1>0
<1>b. SUFFICES ASSUME NEW ring2, NEW tail2, NEW count2
               PROVE  (sent.tx = ring2 /\ sent.tail = tail2 /\ sent.accepted = count2)
                        => /\ sent \in RingRecord /\ TxSound(ring2, tail2, count2)
                           /\ count2 <= count + 1
                           /\ \A s \in TxSlot : ring2[s] = ring[s] \/ CopyOf(ring2[s], f)
  BY <1>0, Zenon
<1>1. CASE ring[tail] # NoFrame
  <2>1. sent = [r EXCEPT !.ok = FALSE]
    BY <1>0, <1>1 DEF tx_send
  <2>2. sent \in RingRecord /\ sent.tx = ring /\ sent.tail = tail /\ sent.accepted = count
    BY <1>0, <2>1 DEF RingRecord
  <2>3. count <= count + 1
    BY <1>a DEF TxSound, RingSound
  <2> QED BY <1>a, <2>2, <2>3, Zenon
<1>2. CASE ring[tail] = NoFrame
  <2> DEFINE g == [f EXCEPT !.no = count + 1]
             new == [ring EXCEPT ![tail] = g]
             after == (tail + 1) % TX_DESC_COUNT
  <2>1. sent = [tx |-> new, tail |-> after, accepted |-> count + 1, ok |-> TRUE]
    BY <1>0, <1>2 DEF tx_send
  <2>2. TX_DESC_COUNT \in Nat \ {0} /\ MaxLookups \in Nat /\ MaxArrivals \in Nat
    BY NetworkConstants
  <2>3. /\ ring \in [0 .. TX_DESC_COUNT - 1 -> Frame] /\ TDH \in 0 .. TX_DESC_COUNT - 1
        /\ transmitted \in Nat /\ count \in Nat /\ transmitted <= count
        /\ count - transmitted <= TX_DESC_COUNT
        /\ Holds(TX_DESC_COUNT, ring, TDH, transmitted, count)
        /\ tail = Wrap(TX_DESC_COUNT, TDH + (count - transmitted))
        /\ \A s \in TxSlot : ring[s].no = 0 => ring[s] = NoFrame
    BY <1>a DEF TxSound, RingSound, TxSlot
  <2>4. count + 1 \in FrameNo
    BY <1>a, <2>2, <2>3 DEF FrameNo
  <2>5. g \in Frame /\ g.no = count + 1 /\ CopyOf(g, f)
    BY <2>4, NumberedFrame DEF CopyOf
  <2> HIDE DEF g
  <2>6. count - transmitted < TX_DESC_COUNT
    <3>1. SUFFICES ASSUME count - transmitted = TX_DESC_COUNT PROVE FALSE
      BY <2>2, <2>3
    <3>2. tail = Wrap(TX_DESC_COUNT, TDH + 0)
      BY <3>1, <2>2, <2>3, WrapOnce
    <3>3. 0 \in 0 .. TX_DESC_COUNT - 1 /\ 0 < count - transmitted
      BY <3>1, <2>2
    <3>4. ring[Wrap(TX_DESC_COUNT, TDH + 0)].no = IF 0 < count - transmitted THEN transmitted + 1 + 0 ELSE 0
      BY <3>3, <2>3, Zenon DEF Holds
    <3>5. ring[tail].no # 0
      BY <3>2, <3>3, <3>4, <2>3
    <3> QED BY <3>5, <1>2, NoFrameFields
  <2>7. /\ tail \in 0 .. TX_DESC_COUNT - 1
        /\ RingSound(TX_DESC_COUNT, new, TDH, transmitted, count + 1)
        /\ Wrap(TX_DESC_COUNT, tail + 1) = Wrap(TX_DESC_COUNT, TDH + ((count + 1) - transmitted))
    <3>1. RingSound(TX_DESC_COUNT, ring, TDH, transmitted, count)
      BY <1>a DEF TxSound
    <3>2. new = Store(ring, tail, g)
      BY DEF Store
    <3> HIDE DEF new
    <3> DEFINE slot == Wrap(TX_DESC_COUNT, TDH + (count - transmitted))
    <3>3. tail = slot
      BY <2>3
    <3>5. Numbered(g, count + 1)
      BY <2>5 DEF Numbered
    <3>4. /\ slot \in 0 .. TX_DESC_COUNT - 1
          /\ RingSound(TX_DESC_COUNT, Store(ring, slot, g), TDH, transmitted, count + 1)
      BY <3>1, <3>5, <2>6, RingPut, Zenon
    <3>6. Wrap(TX_DESC_COUNT, slot + 1) = Wrap(TX_DESC_COUNT, TDH + ((count + 1) - transmitted))
      BY <3>1, <3>5, <2>6, RingPut
    <3> QED BY <3>2, <3>3, <3>4, <3>6, Zenon
  <2>8. \A s \in TxSlot : new[s] = IF s = tail THEN g ELSE ring[s]
    BY <2>3 DEF TxSlot
  <2>9. TxSound(new, after, count + 1)
    <3>1. new \in [TxSlot -> Frame]
      BY <2>3, <2>5 DEF TxSlot
    <3>2. \A s \in TxSlot : new[s].no = 0 => new[s] = NoFrame
      BY <2>3, <2>5, <2>8
    <3>3. after = Wrap(TX_DESC_COUNT, TDH + ((count + 1) - transmitted))
      BY <2>7 DEF Wrap
    <3> HIDE DEF new, after
    <3> QED BY <3>1, <3>2, <3>3, <2>7, Zenon DEF TxSound
  <2>10. count + 1 <= count + 1
    BY <2>3
  <2>11. \A s \in TxSlot : new[s] = ring[s] \/ CopyOf(new[s], f)
    BY <2>5, <2>8
  <2>12. after \in TxSlot
    BY <2>2, <2>7 DEF TxSlot
  <2> HIDE DEF new, after, sent
  <2>13. sent \in RingRecord /\ sent.tx = new /\ sent.tail = after /\ sent.accepted = count + 1
    BY <2>1, <2>3, <2>9, <2>12 DEF RingRecord, TxSound
  <2> QED BY <2>9, <2>10, <2>11, <2>13, Zenon
<1> QED BY <1>1, <1>2

------------------------------------------------------------------------------
(***************************************************************************)
(* The receive ring.                                                       *)
(***************************************************************************)
\* The ring's part of the invariant, with the place where the driver reads.
RxAt(ring, head, low, high, next) ==
  /\ ring \in [RxSlot -> Frame]
  /\ RingSound(RX_DESC_COUNT, ring, head, low, high)
  /\ high <= MaxArrivals /\ high - low < RX_DESC_COUNT
  /\ next = Wrap(RX_DESC_COUNT, head + (high - low))
  /\ \A i \in RxSlot : ring[i].no = 0 => ring[i] = NoFrame

(***************************************************************************)
(* The same invariant, in those terms.                                     *)
(***************************************************************************)
LEMMA RxInvAt ==
  RxInv <=> /\ rx_head_ \in RxSlot /\ poll \in RxSlot \cup {NotPolling}
            /\ RxAt(rx, ReadFrom, taken, arrived, RDH) /\ RDT = TailBefore(ReadFrom)
BY DEF RxInv, RxAt

(***************************************************************************)
(* While the adapter's head is not at its tail there is room for a frame   *)
(* and one more descriptor.                                                *)
(***************************************************************************)
LEMMA RoomBeforeTail ==
  ASSUME NEW ring, NEW head, NEW low, NEW high, NEW next, RxAt(ring, head, low, high, next),
         next # TailBefore(head)
  PROVE  high - low < RX_DESC_COUNT - 1
<1>1. /\ RX_DESC_COUNT \in Nat \ {0} /\ head \in 0 .. RX_DESC_COUNT - 1
      /\ low \in Nat /\ high \in Nat /\ low <= high /\ high - low < RX_DESC_COUNT
      /\ next = Wrap(RX_DESC_COUNT, head + (high - low))
  BY DEF RxAt, RingSound
<1>2. SUFFICES ASSUME high - low = RX_DESC_COUNT - 1 PROVE FALSE
  BY <1>1
<1> DEFINE x == head + (RX_DESC_COUNT - 1)
<1>3. x \in Nat /\ x < 2 * RX_DESC_COUNT
  BY <1>1
<1>4. Wrap(RX_DESC_COUNT, x) = IF x < RX_DESC_COUNT THEN x ELSE x - RX_DESC_COUNT
  <2> HIDE DEF x
  <2> QED BY <1>1, <1>3, WrapOnce
<1>5. Wrap(RX_DESC_COUNT, x) = TailBefore(head)
  BY <1>1, <1>3, <1>4 DEF TailBefore
<1> QED BY <1>1, <1>2, <1>5

(***************************************************************************)
(* A frame that arrives (the adapter's side of e1000.cpp:286-322).         *)
(***************************************************************************)
LEMMA ArriveRx ==
  ASSUME RxInv, NEW f \in Frame, Arrive(f)
  PROVE  /\ RxInv' /\ RDH \in RxSlot
         /\ \A i \in RxSlot : rx'[i] = IF i = RDH THEN [f EXCEPT !.no = arrived + 1] ELSE rx[i]
<1> DEFINE g == [f EXCEPT !.no = arrived + 1]
           N == RX_DESC_COUNT
<1>1. /\ rx_head_ \in RxSlot /\ poll \in RxSlot \cup {NotPolling}
      /\ RxAt(rx, ReadFrom, taken, arrived, RDH) /\ RDT = TailBefore(ReadFrom)
  BY RxInvAt
<1>2. /\ rx' = [rx EXCEPT ![RDH] = g] /\ RDH' = (RDH + 1) % N /\ arrived' = arrived + 1
      /\ arrived < MaxArrivals /\ RDH # RDT /\ taken' = taken /\ RDT' = RDT
      /\ rx_head_' = rx_head_ /\ poll' = poll
  BY DEF Arrive
<1>3. ReadFrom' = ReadFrom
  BY <1>2 DEF ReadFrom
<1>4. arrived - taken < N - 1
  BY <1>1, <1>2, RoomBeforeTail
<1>5. /\ RingSound(N, rx, ReadFrom, taken, arrived) /\ rx \in [RxSlot -> Frame]
      /\ N \in Nat \ {0} /\ taken \in Nat /\ arrived \in Nat /\ taken <= arrived
      /\ RDH = Wrap(N, ReadFrom + (arrived - taken))
      /\ \A i \in RxSlot : rx[i].no = 0 => rx[i] = NoFrame
  BY <1>1 DEF RxAt, RingSound
<1>6. MaxArrivals \in Nat /\ MaxLookups \in Nat
  BY NetworkConstants
<1>7. arrived + 1 \in FrameNo /\ arrived - taken < N /\ (arrived + 1) - taken < N
  BY <1>2, <1>4, <1>5, <1>6 DEF FrameNo
<1>8. g \in Frame /\ g.no = arrived + 1
  BY <1>7, NumberedFrame
<1> HIDE DEF g, N
<1>9. Numbered(g, arrived + 1)
  BY <1>8 DEF Numbered
<1>10. /\ Wrap(N, ReadFrom + (arrived - taken)) \in 0 .. N - 1
       /\ RingSound(N, Store(rx, Wrap(N, ReadFrom + (arrived - taken)), g), ReadFrom, taken, arrived + 1)
  BY <1>5, <1>7, <1>9, RingPut, Zenon
<1>11. Wrap(N, Wrap(N, ReadFrom + (arrived - taken)) + 1) = Wrap(N, ReadFrom + ((arrived + 1) - taken))
  BY <1>5, <1>7, <1>9, RingPut
<1>12. RDH \in RxSlot
  BY <1>5, <1>10 DEF RxSlot, N
<1>13. rx' = Store(rx, RDH, g)
  BY <1>2 DEF Store
<1>14. rx' \in [RxSlot -> Frame] /\ \A i \in RxSlot : rx'[i] = IF i = RDH THEN g ELSE rx[i]
  BY <1>2, <1>5, <1>8
<1>15. \A i \in RxSlot : rx'[i].no = 0 => rx'[i] = NoFrame
  BY <1>5, <1>8, <1>14
<1>16. RxAt(rx', ReadFrom, taken, arrived + 1, RDH')
  <2>1. RDH' = Wrap(N, ReadFrom + ((arrived + 1) - taken))
    BY <1>2, <1>5, <1>11 DEF Wrap
  <2>2. RingSound(N, rx', ReadFrom, taken, arrived + 1)
    BY <1>5, <1>10, <1>13, Zenon
  <2>3. arrived + 1 <= MaxArrivals
    BY <1>2, <1>5, <1>6
  <2> QED BY <2>1, <2>2, <2>3, <1>7, <1>14, <1>15, Zenon DEF RxAt, N
<1>17. RxInv'
  <2>1. RxAt(rx', ReadFrom', taken', arrived', RDH') /\ RDT' = TailBefore(ReadFrom')
    BY <1>1, <1>2, <1>3, <1>16, Zenon
  <2>2. rx_head_' \in RxSlot /\ poll' \in RxSlot \cup {NotPolling}
    BY <1>1, <1>2
  <2> QED BY <2>1, <2>2 DEF RxInv, RxAt
<1> QED BY <1>12, <1>14, <1>17 DEF g

(***************************************************************************)
(* The frame at the place where the driver reads is the oldest one.        *)
(***************************************************************************)
LEMMA OldestFirst ==
  ASSUME NEW N, NEW ring, NEW head, NEW low, NEW high, RingSound(N, ring, head, low, high)
  PROVE  head \in 0 .. N - 1 /\ ring[head].no = IF low < high THEN low + 1 ELSE 0
<1>1. /\ N \in Nat \ {0} /\ head \in 0 .. N - 1 /\ low \in Nat /\ high \in Nat
      /\ Holds(N, ring, head, low, high)
  BY DEF RingSound
<1>2. 0 \in 0 .. N - 1 /\ head + 0 = head /\ Wrap(N, head) = head
  BY <1>1, WrapOnce
<1>3. ring[Wrap(N, head + 0)].no = IF 0 < high - low THEN low + 1 + 0 ELSE 0
  BY <1>1, <1>2, Zenon DEF Holds
<1> QED BY <1>1, <1>2, <1>3

(***************************************************************************)
(* rx_poll takes the oldest frame (e1000.cpp:286-322).                     *)
(***************************************************************************)
LEMMA PollFrameRx ==
  ASSUME RxInv, PollFrame
  PROVE  /\ RxInv' /\ poll \in RxSlot
         /\ \A i \in RxSlot : rx'[i] = IF i = poll THEN NoFrame ELSE rx[i]
<1> DEFINE N == RX_DESC_COUNT
<1>1. /\ rx_head_ \in RxSlot /\ poll \in RxSlot \cup {NotPolling}
      /\ RxAt(rx, ReadFrom, taken, arrived, RDH) /\ RDT = TailBefore(ReadFrom)
  BY RxInvAt
<1>2. /\ poll # NotPolling /\ rx[poll] # NoFrame /\ rx' = [rx EXCEPT ![poll] = NoFrame]
      /\ poll' = (poll + 1) % N /\ RDT' = TailBefore((poll + 1) % N) /\ taken' = rx[poll].no
      /\ RDH' = RDH /\ rx_head_' = rx_head_ /\ arrived' = arrived
  BY DEF PollFrame
<1>3. ReadFrom = poll
  BY <1>2 DEF ReadFrom
<1>4. poll \in RxSlot
  BY <1>1, <1>2
<1>5. /\ RingSound(N, rx, poll, taken, arrived) /\ rx \in [RxSlot -> Frame]
      /\ N \in Nat \ {0} /\ taken \in Nat /\ arrived \in Nat /\ taken <= arrived
      /\ arrived <= MaxArrivals /\ arrived - taken < N
      /\ RDH = Wrap(N, poll + (arrived - taken))
      /\ \A i \in RxSlot : rx[i].no = 0 => rx[i] = NoFrame
  BY <1>1, <1>3 DEF RxAt, RingSound
<1>6. taken < arrived
  BY <1>2, <1>4, <1>5, OldestFirst
<1>7. Numbered(NoFrame, 0)
  BY NoFrameFields DEF Numbered
<1> HIDE DEF N
<1>8. RingSound(N, Store(rx, poll, NoFrame), Wrap(N, poll + 1), taken + 1, arrived)
  BY <1>5, <1>6, <1>7, RingTake, Zenon
<1>9. Wrap(N, Wrap(N, poll + 1) + (arrived - (taken + 1))) = Wrap(N, poll + (arrived - taken))
  BY <1>5, <1>6, <1>7, RingTake
<1>10. taken' = taken + 1
  BY <1>2, <1>5, <1>6, OldestFirst
<1>11. rx' \in [RxSlot -> Frame] /\ \A i \in RxSlot : rx'[i] = IF i = poll THEN NoFrame ELSE rx[i]
  BY <1>2, <1>4, <1>5, NoFrameFields
<1>12. \A i \in RxSlot : rx'[i].no = 0 => rx'[i] = NoFrame
  BY <1>5, <1>11
<1>13. poll' = Wrap(N, poll + 1)
  BY <1>2 DEF Wrap, N
<1>14. poll' \in RxSlot
  <2>1. Wrap(N, poll + 1) \in 0 .. N - 1
    BY <1>8 DEF RingSound
  <2> QED BY <2>1, <1>13 DEF RxSlot, N
<1>15. ReadFrom' = poll' /\ RDT' = TailBefore(poll')
  <2>1. poll' # NotPolling
    BY <1>14, <1>5 DEF NotPolling, RxSlot, N
  <2> QED BY <2>1, <1>2 DEF ReadFrom, N
<1>16. RxAt(rx', poll', taken', arrived', RDH')
  <2>1. RingSound(N, rx', poll', taken', arrived')
    <3>1. rx' = Store(rx, poll, NoFrame)
      BY <1>2 DEF Store
    <3> QED BY <3>1, <1>2, <1>8, <1>10, <1>13
  <2>2. arrived' <= MaxArrivals /\ arrived' - taken' < N
    BY <1>2, <1>5, <1>10
  <2>3. RDH' = Wrap(N, poll' + (arrived' - taken'))
    BY <1>2, <1>5, <1>9, <1>10, <1>13
  <2> QED BY <2>1, <2>2, <2>3, <1>11, <1>12, Zenon DEF RxAt, N
<1>17. RxInv'
  <2>1. rx_head_' \in RxSlot /\ poll' \in RxSlot \cup {NotPolling}
    BY <1>1, <1>2, <1>14
  <2> QED BY <2>1, <1>15, <1>16 DEF RxInv, RxAt
<1> QED BY <1>4, <1>11, <1>17

(***************************************************************************)
(* The other actions leave the ring alone; beginning and ending a poll     *)
(* keeps the place where the driver reads.                                 *)
(***************************************************************************)
LEMMA StableRx ==
  ASSUME RxInv,
         \/ BeginPoll
         \/ EndPoll
         \/ UNCHANGED rxRing
  PROVE  RxInv' /\ rx' = rx
<1>1. /\ rx_head_ \in RxSlot /\ poll \in RxSlot \cup {NotPolling}
      /\ RxAt(rx, ReadFrom, taken, arrived, RDH) /\ RDT = TailBefore(ReadFrom)
  BY RxInvAt
<1>2. NotPolling \notin RxSlot
  BY NetworkConstants DEF NotPolling, RxSlot
<1>3. UNCHANGED <<rx, RDH, RDT, arrived, taken>>
  BY DEF BeginPoll, EndPoll, rxRing
<1>4. rx_head_' \in RxSlot /\ poll' \in RxSlot \cup {NotPolling} /\ ReadFrom' = ReadFrom
  BY <1>1, <1>2 DEF BeginPoll, EndPoll, rxRing, ReadFrom
<1>5. RxAt(rx', ReadFrom', taken', arrived', RDH') /\ RDT' = TailBefore(ReadFrom')
  BY <1>1, <1>3, <1>4, Zenon
<1> QED BY <1>3, <1>4, <1>5 DEF RxInv, RxAt

------------------------------------------------------------------------------
(***************************************************************************)
(* The transmit ring.                                                      *)
(***************************************************************************)

(***************************************************************************)
(* The adapter sends the oldest frame (e1000.cpp:253-284).                 *)
(***************************************************************************)
LEMMA TransmitTx ==
  ASSUME TxInv, Transmit
  PROVE  /\ TxInv' /\ TDH \in TxSlot
         /\ \A s \in TxSlot : tx'[s] = IF s = TDH THEN NoFrame ELSE tx[s]
<1> DEFINE N == TX_DESC_COUNT
<1>1. /\ tx \in [TxSlot -> Frame] /\ RingSound(N, tx, TDH, transmitted, accepted)
      /\ tx_tail_ = Wrap(N, TDH + (accepted - transmitted))
      /\ \A s \in TxSlot : tx[s].no = 0 => tx[s] = NoFrame
  BY DEF TxInv, TxSound
<1>2. /\ TDH # tx_tail_ /\ tx' = [tx EXCEPT ![TDH] = NoFrame] /\ TDH' = (TDH + 1) % N
      /\ transmitted' = tx[TDH].no /\ tx_tail_' = tx_tail_ /\ accepted' = accepted
      /\ query_id_counter' = query_id_counter
  BY DEF Transmit, resolver
<1>3. /\ N \in Nat \ {0} /\ TDH \in 0 .. N - 1 /\ transmitted \in Nat /\ accepted \in Nat
      /\ transmitted <= accepted
  BY <1>1 DEF RingSound
<1>4. TDH \in TxSlot
  BY <1>3 DEF TxSlot
<1> HIDE DEF N
<1>5. transmitted < accepted
  <2>1. SUFFICES ASSUME transmitted = accepted PROVE FALSE
    BY <1>3
  <2>2. tx_tail_ = TDH
    BY <2>1, <1>1, <1>3, WrapOnce
  <2> QED BY <2>2, <1>2
<1>6. Numbered(NoFrame, 0)
  BY NoFrameFields DEF Numbered
<1>7. RingSound(N, Store(tx, TDH, NoFrame), Wrap(N, TDH + 1), transmitted + 1, accepted)
  BY <1>1, <1>5, <1>6, RingTake, Zenon
<1>8. Wrap(N, Wrap(N, TDH + 1) + (accepted - (transmitted + 1))) = Wrap(N, TDH + (accepted - transmitted))
  BY <1>1, <1>5, <1>6, RingTake
<1>9. transmitted' = transmitted + 1
  BY <1>1, <1>2, <1>5, OldestFirst
<1>10. tx' \in [TxSlot -> Frame] /\ \A s \in TxSlot : tx'[s] = IF s = TDH THEN NoFrame ELSE tx[s]
  BY <1>1, <1>2, <1>4, NoFrameFields
<1>11. \A s \in TxSlot : tx'[s].no = 0 => tx'[s] = NoFrame
  BY <1>1, <1>10
<1>12. TxInv'
  <2>1. TDH' = Wrap(N, TDH + 1) /\ tx' = Store(tx, TDH, NoFrame)
    BY <1>2 DEF Wrap, Store, N
  <2>2. RingSound(N, tx', TDH', transmitted', accepted')
    BY <1>2, <1>7, <1>9, <2>1
  <2>3. tx_tail_' = Wrap(N, TDH' + (accepted' - transmitted'))
    BY <1>1, <1>2, <1>8, <1>9, <2>1
  <2> QED BY <2>2, <2>3, <1>2, <1>10, <1>11 DEF TxInv, TxSound, N
<1> QED BY <1>4, <1>10, <1>12

(***************************************************************************)
(* A query is sent to the hardware address mac, after an ARP request when  *)
(* the cache has none (udp.cpp:42-109).                                    *)
(***************************************************************************)
ArpRequest == [NoFrame EXCEPT !.good = TRUE, !.ethertype = HostOrder(ETHERTYPE_ARP),
                              !.op = HostOrder(1), !.ip = DnsServer, !.mac = Broadcast]

QueryFrame(query, mac) ==
  [NoFrame EXCEPT !.good = TRUE, !.ethertype = HostOrder(ETHERTYPE_IPV4),
                  !.ip = DnsServer, !.mac = mac, !.id = query.id, !.name = query.name]

(***************************************************************************)
(* Both are frames.                                                        *)
(***************************************************************************)
LEMMA SentFrames ==
  ASSUME NEW id \in 0 .. Ids - 1, NEW name \in HostName, NEW mac \in Mac \cup {Broadcast}
  PROVE  LET q == [id |-> id, name |-> name]
         IN /\ ArpRequest \in Frame /\ ArpRequest.id = 0 /\ ArpRequest.mac = Broadcast
            /\ QueryFrame(q, mac) \in Frame /\ QueryFrame(q, mac).id = id
            /\ QueryFrame(q, mac).name = name /\ QueryFrame(q, mac).mac = mac
<1> DEFINE arp == HostOrder(ETHERTYPE_ARP)
           op == HostOrder(1)
           ipv4 == HostOrder(ETHERTYPE_IPV4)
           q == [id |-> id, name |-> name]
<1>1. arp \in Bytes /\ op \in Bytes /\ ipv4 \in Bytes /\ DnsServer \in Ip
  BY FieldBytes DEF Ip
<1>2. ArpRequest = [NoFrame EXCEPT !.good = TRUE, !.ethertype = arp, !.op = op, !.ip = DnsServer,
                                   !.mac = Broadcast]
  BY DEF ArpRequest
<1>3. q.id = id /\ q.name = name
  OBVIOUS
<1> HIDE DEF q, arp, op, ipv4
<1>4. QueryFrame(q, mac) = [NoFrame EXCEPT !.good = TRUE, !.ethertype = ipv4, !.ip = DnsServer,
                                           !.mac = mac, !.id = id, !.name = name]
  BY <1>3 DEF QueryFrame, ipv4
<1>5. ArpRequest \in Frame /\ ArpRequest.id = 0 /\ ArpRequest.mac = Broadcast
  BY <1>1, <1>2, NoFrameFields DEF Frame, Bytes
<1>6. /\ QueryFrame(q, mac) \in Frame /\ QueryFrame(q, mac).id = id
      /\ QueryFrame(q, mac).name = name /\ QueryFrame(q, mac).mac = mac
  <2>1. PICK g : g = [NoFrame EXCEPT !.good = TRUE, !.ethertype = ipv4, !.ip = DnsServer,
                                     !.mac = mac, !.id = id, !.name = name]
    OBVIOUS
  <2>2. g \in Frame
    BY <1>1, <2>1, NoFrameFields DEF Frame, Bytes
  <2>3. g.id = id /\ g.name = name /\ g.mac = mac
    BY <2>1, NoFrameFields DEF Frame
  <2> QED BY <1>4, <2>1, <2>2, <2>3
<1> QED BY <1>5, <1>6 DEF q

(***************************************************************************)
(* The frames of a lookup go into a sound ring (dns.cpp:127-258).          *)
(***************************************************************************)
LEMMA ResolveTx ==
  ASSUME TxInv, NEW name \in HostName, dns_resolve(name),
         NEW mac \in Mac \cup {Broadcast}, mac = arp_cache_lookup(DnsServer)
  PROVE  /\ TxInv'
         /\ query_id_counter' = query_id_counter + 1
         /\ \A s \in TxSlot :
              \/ tx'[s] = tx[s]
              \/ tx'[s].id = 0 /\ tx'[s].mac = Broadcast
              \/ tx'[s].id = query_id_counter /\ tx'[s].name = name /\ tx'[s].mac = mac
<1> DEFINE q == [id |-> query_id_counter, name |-> name]
           first == IF mac = Broadcast THEN tx_send(TxRing, ArpRequest) ELSE TxRing
           r == tx_send(first, QueryFrame(q, mac))
<1>1. /\ query_id_counter \in 1 .. MaxLookups + 1 /\ query_id_counter <= MaxLookups
      /\ MaxLookups \in Nat /\ Ids \in Nat /\ Ids > MaxLookups + 1
  BY NetworkConstants DEF TxInv, dns_resolve
<1>2. query_id_counter' = query_id_counter + 1
  BY <1>1 DEF dns_resolve
<1>3. r = send_udp_packet(q)
  BY DEF send_udp_packet, ArpRequest, QueryFrame
<1>4. tx' = r.tx /\ tx_tail_' = r.tail /\ accepted' = r.accepted /\ TDH' = TDH /\ transmitted' = transmitted
  BY <1>3 DEF dns_resolve
<1>5. /\ ArpRequest \in Frame /\ ArpRequest.id = 0 /\ ArpRequest.mac = Broadcast
      /\ QueryFrame(q, mac) \in Frame /\ QueryFrame(q, mac).id = query_id_counter
      /\ QueryFrame(q, mac).name = name /\ QueryFrame(q, mac).mac = mac
  BY <1>1, SentFrames
<1> HIDE DEF q
<1>6. TxRing \in RingRecord /\ TxRing.tx = tx /\ TxRing.tail = tx_tail_ /\ TxRing.accepted = accepted
  <2>1. /\ tx \in [TxSlot -> Frame] /\ accepted \in Nat /\ tx_tail_ \in TxSlot
    <3>1. /\ tx \in [TxSlot -> Frame] /\ RingSound(TX_DESC_COUNT, tx, TDH, transmitted, accepted)
          /\ tx_tail_ = Wrap(TX_DESC_COUNT, TDH + (accepted - transmitted))
      BY DEF TxInv, TxSound
    <3>2. /\ TX_DESC_COUNT \in Nat \ {0} /\ TDH \in 0 .. TX_DESC_COUNT - 1 /\ transmitted \in Nat
          /\ accepted \in Nat /\ transmitted <= accepted /\ accepted - transmitted <= TX_DESC_COUNT
      BY <3>1 DEF RingSound
    <3> DEFINE x == TDH + (accepted - transmitted)
    <3>3. x \in Nat /\ x < 2 * TX_DESC_COUNT
      BY <3>2
    <3> HIDE DEF x
    <3>4. Wrap(TX_DESC_COUNT, x) \in 0 .. TX_DESC_COUNT - 1
      BY <3>2, <3>3, WrapOnce, Zenon
    <3> QED BY <3>1, <3>2, <3>4 DEF TxSlot, x
  <2> QED BY <2>1 DEF TxRing, RingRecord
<1>7. accepted \in Nat /\ accepted <= 2 * (query_id_counter - 1) /\ accepted + 1 < 2 * MaxLookups
  BY <1>1, <1>6 DEF TxInv, RingRecord
<1>8. /\ first \in RingRecord /\ TxSound(first.tx, first.tail, first.accepted)
      /\ first.accepted <= accepted + 1
      /\ \A s \in TxSlot : first.tx[s] = tx[s] \/ CopyOf(first.tx[s], ArpRequest)
  <2>1. TxSound(TxRing.tx, TxRing.tail, TxRing.accepted) /\ TxRing.accepted < 2 * MaxLookups
    BY <1>1, <1>6, <1>7 DEF TxInv
  <2>2. CASE mac = Broadcast
    BY <2>1, <2>2, <1>5, <1>6, SendStep
  <2>3. CASE mac # Broadcast
    BY <2>1, <2>3, <1>6, <1>7
  <2> QED BY <2>2, <2>3
<1> HIDE DEF first
<1>9. first.accepted \in Nat /\ first.accepted < 2 * MaxLookups
  BY <1>1, <1>7, <1>8 DEF RingRecord
<1>10. /\ r \in RingRecord /\ TxSound(r.tx, r.tail, r.accepted)
       /\ r.accepted <= first.accepted + 1
       /\ \A s \in TxSlot : r.tx[s] = first.tx[s] \/ CopyOf(r.tx[s], QueryFrame(q, mac))
  BY <1>5, <1>8, <1>9, SendStep
<1> HIDE DEF r
<1>11. TxSound(tx, tx_tail_, accepted)'
  BY <1>4, <1>10 DEF TxSound
<1>12. accepted' <= 2 * (query_id_counter' - 1)
  BY <1>1, <1>2, <1>4, <1>7, <1>8, <1>9, <1>10 DEF RingRecord
<1>13. TxInv'
  BY <1>1, <1>2, <1>11, <1>12 DEF TxInv
<1> QED BY <1>2, <1>4, <1>5, <1>8, <1>10, <1>13 DEF CopyOf

(***************************************************************************)
(* The other actions leave the ring and the counter of queries alone.      *)
(***************************************************************************)
LEMMA StableTx ==
  ASSUME TxInv, UNCHANGED <<txRing, query_id_counter>>
  PROVE  TxInv' /\ tx' = tx
BY DEF TxInv, TxSound, txRing

------------------------------------------------------------------------------
(***************************************************************************)
(* The ARP cache.                                                          *)
(***************************************************************************)

(***************************************************************************)
(* The cache's loop stops at a slot of the address, if there is one.       *)
(***************************************************************************)
LEMMA FirstSlot ==
  ASSUME CacheInv, NEW ip, CacheSlots(ip) # {}
  PROVE  /\ First(CacheSlots(ip)) \in DOMAIN cache
         /\ cache[First(CacheSlots(ip))].ip = ip
<1>1. cache \in Seq(CacheEntry)
  BY DEF CacheInv
<1>2. DOMAIN cache \subseteq Nat
  BY <1>1
<1>3. CacheSlots(ip) \subseteq Nat
  BY <1>2 DEF CacheSlots
<1>4. \E m \in CacheSlots(ip) : \A n \in CacheSlots(ip) : m <= n
  BY <1>3, MinimumExists, Zenon
<1>5. First(CacheSlots(ip)) \in CacheSlots(ip)
  BY <1>4, Zenon DEF First
<1> QED BY <1>5 DEF CacheSlots

(***************************************************************************)
(* An address learnt stays in the history, which ends with the newest.     *)
(***************************************************************************)
LEMMA LearntAppend ==
  ASSUME NEW s \in Seq(Mac), NEW m \in Mac
  PROVE  /\ Append(s, m) \in Seq(Mac) /\ Append(s, m) # <<>> /\ Last(Append(s, m)) = m
         /\ Range(s) \subseteq Range(Append(s, m))
<1>1. /\ Append(s, m) \in Seq(Mac) /\ Len(Append(s, m)) = Len(s) + 1 /\ Len(s) \in Nat
      /\ Append(s, m)[Len(s) + 1] = m /\ \A i \in 1 .. Len(s) : Append(s, m)[i] = s[i]
  OBVIOUS
<1>2. DOMAIN s = 1 .. Len(s) /\ DOMAIN Append(s, m) = 1 .. Len(s) + 1
  BY <1>1
<1>3. Append(s, m) # <<>>
  BY <1>1
<1>4. Range(s) \subseteq Range(Append(s, m))
  <2> SUFFICES ASSUME NEW i \in DOMAIN s PROVE s[i] \in Range(Append(s, m))
    BY DEF Range
  <2>1. i \in DOMAIN Append(s, m) /\ Append(s, m)[i] = s[i]
    BY <1>1, <1>2
  <2> QED BY <2>1, Zenon DEF Range
<1> QED BY <1>1, <1>3, <1>4 DEF Last

(***************************************************************************)
(* What udp.cpp:42-109 finds in the cache is the newest address learnt.    *)
(***************************************************************************)
LEMMA LookupLearnt ==
  ASSUME CacheInv
  PROVE  /\ arp_cache_lookup(DnsServer) \in Mac \cup {Broadcast}
         /\ arp_cache_lookup(DnsServer) \in {"", Broadcast} \cup Range(learnt[DnsServer])
<1>1. CASE CacheSlots(DnsServer) = {}
  BY <1>1 DEF arp_cache_lookup
<1>2. CASE CacheSlots(DnsServer) # {}
  <2>1. PICK i : i = First(CacheSlots(DnsServer))
    OBVIOUS
  <2>2. i \in DOMAIN cache /\ cache[i].ip = DnsServer
    BY <1>2, <2>1, FirstSlot
  <2>3. arp_cache_lookup(DnsServer) = cache[i].mac
    BY <1>2, <2>1 DEF arp_cache_lookup
  <2>4. cache[i] \in CacheEntry
    <3>1. cache \in Seq(CacheEntry)
      BY DEF CacheInv
    <3> QED BY <3>1, <2>2
  <2>5. learnt[DnsServer] # <<>> /\ cache[i].mac = Last(learnt[DnsServer]) /\ learnt[DnsServer] \in Seq(Mac)
    BY <2>2 DEF CacheInv, Ip
  <2>6. PICK s : s = learnt[DnsServer]
    OBVIOUS
  <2>7. Len(s) \in DOMAIN s
    BY <2>5, <2>6
  <2>8. Last(s) \in Range(s)
    BY <2>7 DEF Last, Range
  <2> QED BY <2>3, <2>4, <2>5, <2>6, <2>8 DEF CacheEntry
<1> QED BY <1>1, <1>2

\* The part of the invariant that is about the cache and the history.
CacheSound(slots, history) ==
  /\ history \in [Ip -> Seq(Mac)]
  /\ slots \in Seq(CacheEntry) /\ Len(slots) <= ArpSlots
  /\ \A i, j \in DOMAIN slots : slots[i].ip = slots[j].ip => i = j
  /\ \A i \in DOMAIN slots :
       history[slots[i].ip] # <<>> /\ slots[i].mac = Last(history[slots[i].ip])

(***************************************************************************)
(* arp_ingest (arp_cache.cpp:11-25): the address' slot is changed, a slot  *)
(* is added, or a full cache is left alone; in each case every slot has    *)
(* the newest address learnt.                                              *)
(***************************************************************************)
LEMMA IngestKeepsCache ==
  ASSUME CacheInv, NEW f, f.ip \in Ip, f.mac \in Mac, arp_ingest(f)
  PROVE  /\ CacheSound(cache', learnt')
         /\ Range(learnt[DnsServer]) \subseteq Range(learnt'[DnsServer])
<1>1. PICK a, m : a = f.ip /\ m = f.mac /\ a \in Ip /\ m \in Mac
  OBVIOUS
<1>2. /\ learnt \in [Ip -> Seq(Mac)] /\ cache \in Seq(CacheEntry) /\ Len(cache) <= ArpSlots
      /\ \A i, j \in DOMAIN cache : cache[i].ip = cache[j].ip => i = j
      /\ \A i \in DOMAIN cache :
           learnt[cache[i].ip] # <<>> /\ cache[i].mac = Last(learnt[cache[i].ip])
  BY DEF CacheInv
<1>3. learnt' = [learnt EXCEPT ![a] = Append(@, m)] /\ cache' = arp_cache_update(f)
  BY <1>1 DEF arp_ingest
<1>4. \A i \in DOMAIN cache : cache[i] \in CacheEntry
  BY <1>2
<1>5. \A i \in DOMAIN cache : cache[i].ip \in Ip /\ cache[i].mac \in Mac
  BY <1>4 DEF CacheEntry
<1>6. learnt[a] \in Seq(Mac)
  BY <1>1, <1>2
<1>7. PICK s : s = Append(learnt[a], m)
  OBVIOUS
<1>8. s \in Seq(Mac) /\ s # <<>> /\ Last(s) = m /\ Range(learnt[a]) \subseteq Range(s)
  BY <1>1, <1>6, <1>7, LearntAppend
<1>9. /\ learnt' \in [Ip -> Seq(Mac)] /\ learnt'[a] = s
      /\ \A i \in Ip : i # a => learnt'[i] = learnt[i]
  BY <1>1, <1>2, <1>3, <1>7, <1>8
<1>10. Range(learnt[DnsServer]) \subseteq Range(learnt'[DnsServer])
  <2>1. DnsServer \in Ip
    BY DEF Ip
  <2>2. CASE DnsServer = a
    BY <2>2, <1>8, <1>9
  <2>3. CASE DnsServer # a
    BY <2>1, <2>3, <1>9
  <2> QED BY <2>2, <2>3
<1>11. CASE CacheSlots(a) # {}
  <2>1. PICK n : n = First(CacheSlots(a))
    OBVIOUS
  <2>2. n \in DOMAIN cache /\ cache[n].ip = a
    BY <1>11, <2>1, FirstSlot
  <2>3. cache' = [cache EXCEPT ![n].mac = m]
    BY <1>1, <1>3, <1>11, <2>1 DEF arp_cache_update
  <2>4. PICK e : e = [cache[n] EXCEPT !.mac = m]
    OBVIOUS
  <2>5. e \in CacheEntry /\ e.ip = a /\ e.mac = m
    BY <1>1, <1>4, <2>2, <2>4 DEF CacheEntry
  <2>6. cache' = [cache EXCEPT ![n] = e]
    BY <2>3, <2>4
  <2>7. /\ cache' \in Seq(CacheEntry) /\ Len(cache') = Len(cache) /\ DOMAIN cache' = DOMAIN cache
        /\ cache'[n] = e /\ \A i \in DOMAIN cache : i # n => cache'[i] = cache[i]
    BY <1>2, <2>2, <2>5, <2>6
  <2>8. \A i \in DOMAIN cache : cache'[i].ip = cache[i].ip
    BY <2>2, <2>5, <2>7
  <2>9. \A i \in DOMAIN cache' : learnt'[cache'[i].ip] # <<>> /\ cache'[i].mac = Last(learnt'[cache'[i].ip])
    <3> SUFFICES ASSUME NEW i \in DOMAIN cache
                 PROVE  learnt'[cache'[i].ip] # <<>> /\ cache'[i].mac = Last(learnt'[cache'[i].ip])
      BY <2>7
    <3>1. CASE i = n
      BY <3>1, <1>8, <1>9, <2>5, <2>7
    <3>2. CASE i # n
      <4>1. cache'[i] = cache[i] /\ cache[i].ip # a /\ cache[i].ip \in Ip
        BY <3>2, <1>2, <1>5, <2>2, <2>7
      <4>2. learnt'[cache[i].ip] = learnt[cache[i].ip]
        BY <4>1, <1>9
      <4> QED BY <4>1, <4>2, <1>2
    <3> QED BY <3>1, <3>2
  <2>10. \A i, j \in DOMAIN cache' : cache'[i].ip = cache'[j].ip => i = j
    BY <1>2, <2>7, <2>8
  <2> QED BY <2>7, <2>9, <2>10, <1>2, <1>9, <1>10 DEF CacheSound
<1>12. CASE CacheSlots(a) = {}
  <2>1. \A i \in DOMAIN cache : cache[i].ip # a
    BY <1>12 DEF CacheSlots
  <2>2. \A i \in DOMAIN cache : learnt'[cache[i].ip] = learnt[cache[i].ip]
    BY <2>1, <1>5, <1>9
  <2>3. CASE Len(cache) = ArpSlots
    <3>1. cache' = cache
      BY <1>1, <1>3, <1>12, <2>3 DEF arp_cache_update
    <3> QED BY <3>1, <2>2, <1>2, <1>9, <1>10 DEF CacheSound
  <2>4. CASE Len(cache) # ArpSlots
    <3>1. PICK e : e = [ip |-> a, mac |-> m]
      OBVIOUS
    <3>2. e \in CacheEntry /\ e.ip = a /\ e.mac = m
      BY <1>1, <3>1 DEF CacheEntry
    <3>3. cache' = Append(cache, e)
      BY <1>1, <1>3, <1>12, <2>4, <3>1 DEF arp_cache_update
    <3>4. /\ cache' \in Seq(CacheEntry) /\ Len(cache') = Len(cache) + 1 /\ Len(cache) \in Nat
          /\ cache'[Len(cache) + 1] = e /\ \A i \in 1 .. Len(cache) : cache'[i] = cache[i]
      BY <1>2, <3>2, <3>3
    <3>5. DOMAIN cache' = 1 .. Len(cache) + 1 /\ DOMAIN cache = 1 .. Len(cache)
      BY <1>2, <3>4
    <3>6. \A i \in DOMAIN cache' : i \in DOMAIN cache \/ i = Len(cache) + 1
      BY <3>4, <3>5
    <3>7. Len(cache') <= ArpSlots
      BY <1>2, <2>4, <3>4, NetworkConstants
    <3>8. \A i \in DOMAIN cache' : learnt'[cache'[i].ip] # <<>> /\ cache'[i].mac = Last(learnt'[cache'[i].ip])
      <4> SUFFICES ASSUME NEW i \in DOMAIN cache'
                   PROVE  learnt'[cache'[i].ip] # <<>> /\ cache'[i].mac = Last(learnt'[cache'[i].ip])
        OBVIOUS
      <4>1. CASE i \in DOMAIN cache
        BY <4>1, <1>2, <2>2, <3>4, <3>5
      <4>2. CASE i = Len(cache) + 1
        BY <4>2, <1>8, <1>9, <3>2, <3>4
      <4> QED BY <4>1, <4>2, <3>6
    <3>9. \A i, j \in DOMAIN cache' : cache'[i].ip = cache'[j].ip => i = j
      BY <1>2, <2>1, <3>2, <3>4, <3>5, <3>6
    <3> QED BY <3>4, <3>7, <3>8, <3>9, <1>9, <1>10 DEF CacheSound
  <2> QED BY <2>3, <2>4
<1> QED BY <1>11, <1>12

\* The part that is about the frames in the rings.
RepliesFromNetwork(ring) ==
  \A i \in RxSlot : IsArpReply(ring[i]) => ring[i].ip \in Ip /\ ring[i].mac \in Mac

FramesAddressed(ring, history) ==
  \A s \in TxSlot : ring[s].mac \in {"", Broadcast} \cup Range(history[DnsServer])

(***************************************************************************)
(* The cache's part of the invariant, in those terms.                      *)
(***************************************************************************)
LEMMA CacheInvParts ==
  CacheInv <=> CacheSound(cache, learnt) /\ RepliesFromNetwork(rx) /\ FramesAddressed(tx, learnt)
BY DEF CacheInv, CacheSound, RepliesFromNetwork, FramesAddressed

(***************************************************************************)
(* The empty frame is no ARP reply.                                        *)
(***************************************************************************)
LEMMA NotArpReply ==
  ASSUME NEW f, f.op = <<0, 0>>
  PROVE  ~IsArpReply(f)
<1>1. Load16(f.op) = 0
  BY DEF Load16
<1> QED BY <1>1 DEF IsArpReply, ARP_REPLY

(***************************************************************************)
(* The steps that leave cache and history alone.                           *)
(***************************************************************************)
LEMMA CacheStable ==
  ASSUME CacheInv, UNCHANGED <<cache, learnt>>, RepliesFromNetwork(rx'), FramesAddressed(tx', learnt)
  PROVE  CacheInv'
<1>1. CacheSound(cache, learnt)
  BY CacheInvParts
<1>2. CacheSound(cache', learnt') /\ FramesAddressed(tx', learnt')
  BY <1>1
<1> QED BY <1>2 DEF CacheInv, CacheSound, RepliesFromNetwork, FramesAddressed

(***************************************************************************)
(* A frame that arrives.                                                   *)
(***************************************************************************)
LEMMA ArriveCache ==
  ASSUME RxInv, CacheInv, NEW f \in Frame, Arrive(f),
         IsArpReply(f) => f.ip \in Ip /\ f.mac \in Mac
  PROVE  CacheInv'
<1>1. PICK g : g = [f EXCEPT !.no = arrived + 1]
  OBVIOUS
<1>2. \A i \in RxSlot : rx'[i] = IF i = RDH THEN g ELSE rx[i]
  BY <1>1, ArriveRx
<1>3. g.op = f.op /\ g.ethertype = f.ethertype /\ g.ip = f.ip /\ g.mac = f.mac
  BY <1>1 DEF Frame
<1>4. IsArpReply(g) => g.ip \in Ip /\ g.mac \in Mac
  BY <1>3 DEF IsArpReply
<1>5. RepliesFromNetwork(rx) /\ FramesAddressed(tx, learnt)
  BY CacheInvParts
<1>6. RepliesFromNetwork(rx')
  BY <1>2, <1>4, <1>5 DEF RepliesFromNetwork
<1>7. UNCHANGED <<cache, learnt, tx>>
  BY DEF Arrive, txRing
<1> QED BY <1>5, <1>6, <1>7, CacheStable

(***************************************************************************)
(* A frame that is taken.                                                  *)
(***************************************************************************)
LEMMA PollFrameCache ==
  ASSUME RxInv, CacheInv, PollFrame
  PROVE  CacheInv'
<1>1. poll \in RxSlot /\ \A i \in RxSlot : rx'[i] = IF i = poll THEN NoFrame ELSE rx[i]
  BY PollFrameRx
<1>2. RepliesFromNetwork(rx) /\ FramesAddressed(tx, learnt)
  BY CacheInvParts
<1>3. RepliesFromNetwork(rx')
  BY <1>1, <1>2, NotArpReply, NoFrameFields DEF RepliesFromNetwork
<1>4. tx' = tx
  BY DEF PollFrame, txRing
<1>5. CASE UNCHANGED <<cache, learnt>>
  BY <1>2, <1>3, <1>4, <1>5, CacheStable
<1>6. CASE IsArpReply(rx[poll]) /\ arp_ingest(rx[poll])
  <2>1. rx[poll].ip \in Ip /\ rx[poll].mac \in Mac
    BY <1>1, <1>2, <1>6 DEF RepliesFromNetwork
  <2>2. CacheSound(cache', learnt') /\ Range(learnt[DnsServer]) \subseteq Range(learnt'[DnsServer])
    BY <1>6, <2>1, IngestKeepsCache
  <2>3. FramesAddressed(tx', learnt')
    BY <1>2, <1>4, <2>2 DEF FramesAddressed
  <2> QED BY <1>3, <2>2, <2>3 DEF CacheInv, CacheSound, RepliesFromNetwork, FramesAddressed
<1> QED BY <1>5, <1>6 DEF PollFrame, rx_cb, dns_on_udp_packet

(***************************************************************************)
(* The frames of a lookup go to everybody or to an address that was        *)
(* learnt, and one that was sent leaves its descriptor empty.              *)
(***************************************************************************)
LEMMA SendCache ==
  ASSUME TxInv, CacheInv, Transmit \/ \E name \in HostName : dns_resolve(name)
  PROVE  CacheInv'
<1>1. RepliesFromNetwork(rx) /\ FramesAddressed(tx, learnt)
  BY CacheInvParts
<1>2. UNCHANGED <<cache, learnt, rx>>
  BY DEF Transmit, dns_resolve, rxRing
<1>3. FramesAddressed(tx', learnt)
  <2>1. CASE Transmit
    BY <2>1, <1>1, TransmitTx, NoFrameFields DEF FramesAddressed
  <2>2. CASE \E name \in HostName : dns_resolve(name)
    <3>1. PICK name \in HostName : dns_resolve(name)
      BY <2>2
    <3>2. PICK mac \in Mac \cup {Broadcast} :
            mac = arp_cache_lookup(DnsServer) /\ mac \in {"", Broadcast} \cup Range(learnt[DnsServer])
      BY LookupLearnt
    <3>3. \A s \in TxSlot : tx'[s] = tx[s] \/ tx'[s].mac = Broadcast \/ tx'[s].mac = mac
      BY <3>1, <3>2, ResolveTx
    <3> QED BY <3>2, <3>3, <1>1 DEF FramesAddressed
  <2> QED BY <2>1, <2>2
<1>4. RepliesFromNetwork(rx')
  BY <1>1, <1>2
<1> QED BY <1>2, <1>3, <1>4, CacheStable

------------------------------------------------------------------------------
(***************************************************************************)
(* The resolver.                                                           *)
(***************************************************************************)
LookupRecord == [id : 0 .. Ids - 1, name : HostName \cup {""}, left : 0 .. MaxPolls]

\* The query of a frame is an earlier one, or the one of the lookup.
QueriesKnown(ring, call, next) ==
  \A s \in TxSlot :
    ring[s].id # 0 => /\ ring[s].id < next /\ ring[s].name \in HostName
                      /\ ring[s].id = call.id => ring[s].name = call.name

AskedKnown(queries, call, next) ==
  \A q \in queries : q.id < next /\ (q.id = call.id => q.name = call.name)

(***************************************************************************)
(* The resolver's part of the invariant, in those terms.                   *)
(***************************************************************************)
LEMMA ResolverInvParts ==
  ResolverInv <=>
    /\ response \in Frame /\ lookup \in LookupRecord /\ (lookup # NoLookup => lookup.id # 0)
    /\ asked \subseteq Query /\ AskedKnown(asked, lookup, query_id_counter)
    /\ QueriesKnown(tx, lookup, query_id_counter)
    /\ \A i \in RxSlot : WasAsked(rx[i])
    /\ WasAsked(response)
    /\ \A a \in answers : a.address = a.name
BY DEF ResolverInv, LookupRecord, AskedKnown, QueriesKnown

(***************************************************************************)
(* The state without a lookup.                                             *)
(***************************************************************************)
LEMMA NoLookupFields == NoLookup \in LookupRecord /\ NoLookup.id = 0
BY NetworkConstants DEF NoLookup, LookupRecord

(***************************************************************************)
(* A frame that arrives carries a query that was sent.                     *)
(***************************************************************************)
LEMMA ArriveResolver ==
  ASSUME RxInv, ResolverInv, NEW f \in Frame, Arrive(f), WasAsked(f)
  PROVE  ResolverInv'
<1>1. PICK g : g = [f EXCEPT !.no = arrived + 1]
  OBVIOUS
<1>2. \A i \in RxSlot : rx'[i] = IF i = RDH THEN g ELSE rx[i]
  BY <1>1, ArriveRx
<1>3. g.id = f.id /\ g.name = f.name
  BY <1>1 DEF Frame
<1>4. UNCHANGED <<query_id_counter, response, lookup, answers, asked, tx>>
  BY DEF Arrive, resolver, txRing
<1>5. \A i \in RxSlot : WasAsked(rx[i])'
  BY <1>2, <1>3, <1>4 DEF ResolverInv, WasAsked
<1> QED BY <1>4, <1>5 DEF ResolverInv, WasAsked

(***************************************************************************)
(* A query that leaves the adapter.                                        *)
(***************************************************************************)
LEMMA TransmitResolver ==
  ASSUME TxInv, ResolverInv, Transmit
  PROVE  ResolverInv'
<1>1. TDH \in TxSlot /\ \A s \in TxSlot : tx'[s] = IF s = TDH THEN NoFrame ELSE tx[s]
  BY TransmitTx
<1>2. UNCHANGED <<query_id_counter, response, lookup, answers, rx>>
  BY DEF Transmit, resolver, rxRing
<1>3. PICK f : f = tx[TDH]
  OBVIOUS
<1>4. f \in Frame
  BY <1>1, <1>3 DEF TxInv, TxSound
<1>5. asked \subseteq asked' /\ \A q \in asked' : q \in asked \/ (q = [id |-> f.id, name |-> f.name] /\ f.id # 0)
  BY <1>3 DEF Transmit
<1>6. f.id # 0 => /\ f.id < query_id_counter /\ f.name \in HostName
                  /\ (f.id = lookup.id => f.name = lookup.name)
  BY <1>1, <1>3 DEF ResolverInv
<1>7. asked' \subseteq Query
  <2>1. f.id # 0 => [id |-> f.id, name |-> f.name] \in Query
    <3>1. f.id \in 0 .. Ids - 1 /\ Ids \in Nat
      BY <1>4, NetworkConstants DEF Frame
    <3> QED BY <3>1, <1>6 DEF Query
  <2> QED BY <1>5, <2>1 DEF ResolverInv
<1>8. AskedKnown(asked', lookup', query_id_counter')
  <2> SUFFICES ASSUME NEW q \in asked'
               PROVE  q.id < query_id_counter /\ (q.id = lookup.id => q.name = lookup.name)
    BY <1>2 DEF AskedKnown
  <2>1. CASE q \in asked
    BY <2>1 DEF ResolverInv
  <2>2. CASE q = [id |-> f.id, name |-> f.name] /\ f.id # 0
    BY <2>2, <1>6
  <2> QED BY <1>5, <2>1, <2>2
<1>9. QueriesKnown(tx', lookup', query_id_counter')
  BY <1>1, <1>2, NoFrameFields DEF ResolverInv, QueriesKnown
<1>10. (\A i \in RxSlot : WasAsked(rx[i])') /\ WasAsked(response)'
  BY <1>2, <1>5 DEF ResolverInv, WasAsked
<1> QED BY <1>2, <1>7, <1>8, <1>9, <1>10 DEF ResolverInv, AskedKnown, QueriesKnown

(***************************************************************************)
(* A frame that is taken may become the answer.                            *)
(***************************************************************************)
LEMMA PollFrameResolver ==
  ASSUME RxInv, ResolverInv, PollFrame
  PROVE  ResolverInv'
<1>1. poll \in RxSlot /\ \A i \in RxSlot : rx'[i] = IF i = poll THEN NoFrame ELSE rx[i]
  BY PollFrameRx
<1>2. UNCHANGED <<query_id_counter, lookup, answers, asked, tx>>
  BY DEF PollFrame, txRing
<1>3. response' = response \/ response' = rx[poll]
  BY DEF PollFrame, rx_cb, arp_ingest, dns_on_udp_packet
<1>4. rx[poll] \in Frame /\ WasAsked(rx[poll]) /\ response \in Frame /\ WasAsked(response)
  BY <1>1 DEF RxInv, ResolverInv
<1>5. response' \in Frame /\ WasAsked(response)'
  BY <1>2, <1>3, <1>4 DEF WasAsked
<1>6. \A i \in RxSlot : WasAsked(rx[i])'
  BY <1>1, <1>2, NoFrameFields DEF ResolverInv, WasAsked
<1> QED BY <1>2, <1>5, <1>6 DEF ResolverInv

(***************************************************************************)
(* One poll of a lookup uses up some of its time.                          *)
(***************************************************************************)
LEMMA BeginPollResolver ==
  ASSUME ResolverInv, BeginPoll
  PROVE  ResolverInv'
<1>1. UNCHANGED <<query_id_counter, response, answers, asked, tx, rx>>
  BY DEF BeginPoll, txRing
<1>2. CASE lookup' = lookup
  BY <1>1, <1>2 DEF ResolverInv, WasAsked
<1>3. CASE lookup # NoLookup /\ lookup.left > 0 /\ lookup' = [lookup EXCEPT !.left = @ - 1]
  <2>1. lookup \in LookupRecord /\ MaxPolls \in Nat
    BY NetworkConstants DEF ResolverInv, LookupRecord
  <2>2. lookup.left - 1 \in 0 .. MaxPolls
    <3>1. lookup.left \in 0 .. MaxPolls
      BY <2>1 DEF LookupRecord
    <3> QED BY <3>1, <2>1, <1>3
  <2>3. PICK n : n = lookup.left - 1
    OBVIOUS
  <2>4. lookup' = [lookup EXCEPT !.left = n] /\ n \in 0 .. MaxPolls
    BY <1>3, <2>2, <2>3
  <2>5. lookup' \in LookupRecord /\ lookup'.id = lookup.id /\ lookup'.name = lookup.name
    BY <2>1, <2>4 DEF LookupRecord
  <2>6. lookup'.id # 0
    BY <1>3, <2>5 DEF ResolverInv
  <2> QED BY <1>1, <2>5, <2>6 DEF ResolverInv, WasAsked, LookupRecord
<1> QED BY <1>2, <1>3 DEF BeginPoll

(***************************************************************************)
(* dns_resolve uses an id that no query before it has (dns.cpp:127-258).   *)
(***************************************************************************)
LEMMA ResolveResolver ==
  ASSUME TxInv, CacheInv, ResolverInv, NEW name \in HostName, dns_resolve(name)
  PROVE  ResolverInv'
<1>1. PICK mac \in Mac \cup {Broadcast} : mac = arp_cache_lookup(DnsServer)
  BY LookupLearnt
<1>2. /\ query_id_counter' = query_id_counter + 1
      /\ \A s \in TxSlot : \/ tx'[s] = tx[s]
                           \/ tx'[s].id = 0
                           \/ tx'[s].id = query_id_counter /\ tx'[s].name = name
  BY <1>1, ResolveTx
<1>3. UNCHANGED <<answers, asked, rx>> /\ response' = NoFrame
  BY DEF dns_resolve, rxRing
<1>4. /\ query_id_counter \in 1 .. MaxLookups + 1 /\ query_id_counter <= MaxLookups
      /\ MaxLookups \in Nat /\ Ids \in Nat /\ Ids > MaxLookups + 1 /\ MaxPolls \in Nat
  BY NetworkConstants DEF TxInv, dns_resolve
<1>5. PICK n : n = query_id_counter
  OBVIOUS
<1>6. n \in 1 .. Ids - 1
  BY <1>4, <1>5
<1>7. lookup' = NoLookup \/ lookup' = [id |-> n, name |-> name, left |-> MaxPolls]
  BY <1>5 DEF dns_resolve
<1>8. /\ lookup' \in LookupRecord /\ (lookup' # NoLookup => lookup'.id # 0)
      /\ lookup'.id = 0 \/ (lookup'.id = n /\ lookup'.name = name)
  <2>1. CASE lookup' = NoLookup
    BY <2>1, NoLookupFields
  <2>2. CASE lookup' = [id |-> n, name |-> name, left |-> MaxPolls]
    <3>1. n \in 0 .. Ids - 1 /\ MaxPolls \in 0 .. MaxPolls /\ n # 0
      BY <1>4, <1>6
    <3> QED BY <2>2, <3>1 DEF LookupRecord
  <2> QED BY <1>7, <2>1, <2>2
<1>9. asked' \subseteq Query /\ AskedKnown(asked', lookup', query_id_counter')
  <2>1. \A q \in asked : q.id \in 1 .. Ids - 1 /\ q.id < n
    BY <1>5 DEF ResolverInv, Query
  <2>2. \A q \in asked : q.id # lookup'.id /\ q.id < n + 1
    BY <2>1, <1>6, <1>8
  <2> QED BY <2>2, <1>2, <1>3, <1>5 DEF ResolverInv, AskedKnown
<1>10. QueriesKnown(tx', lookup', query_id_counter')
  <2> SUFFICES ASSUME NEW s \in TxSlot, tx'[s].id # 0
               PROVE  /\ tx'[s].id < n + 1 /\ tx'[s].name \in HostName
                      /\ tx'[s].id = lookup'.id => tx'[s].name = lookup'.name
    BY <1>2, <1>5 DEF QueriesKnown
  <2>1. CASE tx'[s] = tx[s]
    <3>1. tx[s].id \in 0 .. Ids - 1
      BY DEF TxInv, TxSound, Frame
    <3>2. tx[s].id < n /\ tx[s].name \in HostName
      BY <2>1, <1>5 DEF ResolverInv
    <3> QED BY <2>1, <3>1, <3>2, <1>6, <1>8
  <2>2. CASE tx'[s].id = query_id_counter /\ tx'[s].name = name
    BY <2>2, <1>5, <1>6, <1>8
  <2> QED BY <2>1, <2>2, <1>2
<1>11. (\A i \in RxSlot : WasAsked(rx[i])') /\ WasAsked(response)' /\ response' \in Frame
  BY <1>3, NoFrameFields DEF ResolverInv, WasAsked
<1> QED BY <1>3, <1>8, <1>9, <1>10, <1>11 DEF ResolverInv, AskedKnown, QueriesKnown, LookupRecord

(***************************************************************************)
(* The answer taken has the lookup's id, so it is for the lookup's name.   *)
(***************************************************************************)
LEMMA EndLookupResolver ==
  ASSUME ResolverInv, EndLookup
  PROVE  ResolverInv'
<1>1. UNCHANGED <<query_id_counter, response, asked, rx, tx>> /\ lookup' = NoLookup /\ lookup # NoLookup
  BY DEF EndLookup, rxRing, txRing
<1>2. NoLookup \in LookupRecord /\ NoLookup.id = 0
  BY NoLookupFields
<1>3. \A q \in asked : q.id # 0
  <2>1. \A q \in asked : q.id \in 1 .. Ids - 1
    BY DEF ResolverInv, Query
  <2> QED BY <2>1, NetworkConstants
<1>4. AskedKnown(asked', lookup', query_id_counter') /\ QueriesKnown(tx', lookup', query_id_counter')
  BY <1>1, <1>2, <1>3 DEF ResolverInv, AskedKnown, QueriesKnown
<1>5. \A a \in answers' : a.address = a.name
  <2>1. CASE response # NoFrame /\ TRUE \in parse_dns_response /\ Answered(lookup.name, response.name)
    <3>1. response.id = lookup.id /\ lookup.id # 0
      BY <2>1, <1>1 DEF parse_dns_response, ResolverInv
    <3>2. [id |-> response.id, name |-> response.name] \in asked
      BY <3>1 DEF ResolverInv, WasAsked
    <3>3. response.name = lookup.name
      <4>1. PICK q : q = [id |-> response.id, name |-> response.name]
        OBVIOUS
      <4>2. q \in asked /\ q.id = lookup.id /\ q.name = response.name
        BY <3>1, <3>2, <4>1
      <4> QED BY <4>2 DEF ResolverInv
    <3>4. \A a \in answers' : a \in answers \/ (a.name = lookup.name /\ a.address = response.name)
      BY <2>1 DEF Answered
    <3> QED BY <3>3, <3>4 DEF ResolverInv
  <2>2. CASE UNCHANGED answers
    BY <2>2 DEF ResolverInv
  <2> QED BY <2>1, <2>2 DEF EndLookup
<1> QED BY <1>1, <1>2, <1>4, <1>5 DEF ResolverInv, AskedKnown, QueriesKnown, WasAsked, LookupRecord

------------------------------------------------------------------------------
(***************************************************************************)
(* The invariant holds at the start: empty rings whose head and tail leave *)
(* the adapter all descriptors but one (e1000.cpp's initialisation).       *)
(***************************************************************************)
LEMMA NetStarts == NetInit => NetInv
<1> SUFFICES ASSUME NetInit PROVE NetInv
  OBVIOUS
<1>1. /\ RX_DESC_COUNT \in Nat \ {0} /\ TX_DESC_COUNT \in Nat \ {0} /\ RX_DESC_COUNT > 1
      /\ {ArpSlots, MaxPolls, MaxArrivals, MaxLookups} \subseteq Nat
  BY NetworkConstants
<1>2. /\ rx = [i \in RxSlot |-> NoFrame] /\ tx = [i \in TxSlot |-> NoFrame]
      /\ rx_head_ = 0 /\ poll = NotPolling /\ TDH = 0 /\ tx_tail_ = 0 /\ RDH = 0 /\ RDT = RX_DESC_COUNT - 1
      /\ arrived = 0 /\ taken = 0 /\ accepted = 0 /\ transmitted = 0
      /\ cache = <<>> /\ learnt = [i \in Ip |-> <<>>] /\ query_id_counter = 1
      /\ response = NoFrame /\ lookup = NoLookup /\ asked = {} /\ answers = {}
  BY DEF NetInit
<1>3. /\ rx \in [RxSlot -> Frame] /\ \A i \in RxSlot : rx[i] = NoFrame
      /\ tx \in [TxSlot -> Frame] /\ \A s \in TxSlot : tx[s] = NoFrame
  BY <1>2, NoFrameFields
<1>4. ASSUME NEW N \in Nat \ {0}, NEW ring \in [0 .. N - 1 -> Frame],
             \A i \in 0 .. N - 1 : ring[i] = NoFrame
      PROVE  RingSound(N, ring, 0, 0, 0) /\ Wrap(N, 0 + (0 - 0)) = 0
  <2>1. Wrap(N, 0 + (0 - 0)) = 0
    BY <1>4, WrapOnce
  <2>2. Holds(N, ring, 0, 0, 0)
    <3> SUFFICES ASSUME NEW k \in 0 .. N - 1
                 PROVE  ring[Wrap(N, 0 + k)].no = IF k < 0 - 0 THEN 0 + 1 + k ELSE 0
      BY Zenon DEF Holds
    <3>1. Wrap(N, 0 + k) \in 0 .. N - 1
      BY WrapOnce
    <3>2. ring[Wrap(N, 0 + k)].no = 0
      BY <3>1, <1>4, NoFrameFields
    <3> QED BY <3>2
  <2>3. DOMAIN ring = 0 .. N - 1 /\ 0 \in 0 .. N - 1
    OBVIOUS
  <2> QED BY <2>1, <2>2, <2>3 DEF RingSound
<1>5. RxInv
  <2>1. ReadFrom = 0 /\ 0 \in RxSlot /\ TailBefore(0) = RX_DESC_COUNT - 1
    BY <1>1, <1>2 DEF ReadFrom, RxSlot, TailBefore
  <2>2. RingSound(RX_DESC_COUNT, rx, 0, 0, 0) /\ Wrap(RX_DESC_COUNT, 0 + (0 - 0)) = 0
    BY <1>1, <1>3, <1>4 DEF RxSlot
  <2>3. 0 <= MaxArrivals /\ 0 - 0 < RX_DESC_COUNT
    BY <1>1
  <2> QED BY <1>2, <1>3, <2>1, <2>2, <2>3 DEF RxInv
<1>6. TxInv
  <2>1. RingSound(TX_DESC_COUNT, tx, 0, 0, 0) /\ Wrap(TX_DESC_COUNT, 0 + (0 - 0)) = 0
    BY <1>1, <1>3, <1>4 DEF TxSlot
  <2>2. TxSound(tx, tx_tail_, accepted)
    BY <1>2, <1>3, <2>1 DEF TxSound
  <2>3. 1 \in 1 .. MaxLookups + 1 /\ 0 <= 2 * (1 - 1)
    BY <1>1
  <2> QED BY <1>2, <2>2, <2>3 DEF TxInv
<1>7. CacheInv
  <2>1. RepliesFromNetwork(rx)
    BY <1>3, NoFrameFields, NotArpReply DEF RepliesFromNetwork
  <2>2. FramesAddressed(tx, learnt)
    BY <1>3, NoFrameFields DEF FramesAddressed
  <2>3. learnt \in [Ip -> Seq(Mac)] /\ cache \in Seq(CacheEntry) /\ Len(cache) <= ArpSlots /\ DOMAIN cache = {}
    BY <1>1, <1>2
  <2>4. CacheSound(cache, learnt)
    BY <2>3 DEF CacheSound
  <2> QED BY <2>1, <2>2, <2>4, CacheInvParts
<1>8. ResolverInv
  <2>1. (\A i \in RxSlot : WasAsked(rx[i])) /\ WasAsked(response)
    BY <1>2, <1>3, NoFrameFields DEF WasAsked
  <2>2. QueriesKnown(tx, lookup, query_id_counter)
    BY <1>3, NoFrameFields DEF QueriesKnown
  <2> QED BY <1>2, <2>1, <2>2, NoFrameFields, NoLookupFields, ResolverInvParts DEF AskedKnown
<1> QED BY <1>5, <1>6, <1>7, <1>8 DEF NetInv

(***************************************************************************)
(* Every step keeps it.                                                    *)
(***************************************************************************)
LEMMA NetStep == NetInv /\ [NetNext]_netVars => NetInv'
<1> SUFFICES ASSUME NetInv, [NetNext]_netVars PROVE NetInv'
  OBVIOUS
<1> USE DEF NetInv
<1>1. ASSUME NEW f \in Frame, Arrive(f), IsArpReply(f) => f.ip \in Ip /\ f.mac \in Mac, WasAsked(f)
      PROVE  NetInv'
  <2>1. UNCHANGED <<txRing, query_id_counter>>
    BY <1>1 DEF Arrive, resolver
  <2> QED BY <1>1, <2>1, ArriveRx, ArriveCache, ArriveResolver, StableTx
<1>2. CASE \E f \in ArpReplies : Arrive(f)
  BY <1>1, <1>2, ArpFrame DEF WasAsked
<1>3. CASE \E f \in DnsAnswers : Arrive(f)
  <2>1. asked \subseteq Query
    BY DEF ResolverInv
  <2> QED BY <1>1, <1>3, <2>1, DnsFrame, NotArpReply DEF WasAsked
<1>4. CASE Transmit
  <2>1. UNCHANGED rxRing
    BY <1>4 DEF Transmit
  <2> QED BY <1>4, <2>1, StableRx, TransmitTx, SendCache, TransmitResolver
<1>5. ASSUME UNCHANGED <<cache, learnt, rx, tx>> PROVE CacheInv'
  BY <1>5, CacheInvParts, CacheStable
<1>6. CASE BeginPoll
  <2>1. UNCHANGED <<txRing, query_id_counter>> /\ UNCHANGED <<cache, learnt, rx, tx>>
    BY <1>6 DEF BeginPoll, txRing
  <2> QED BY <1>5, <1>6, <2>1, StableRx, StableTx, BeginPollResolver
<1>7. CASE PollFrame
  <2>1. UNCHANGED <<txRing, query_id_counter>>
    BY <1>7 DEF PollFrame
  <2> QED BY <1>7, <2>1, PollFrameRx, StableTx, PollFrameCache, PollFrameResolver
<1>8. CASE EndPoll
  <2>1. /\ UNCHANGED <<txRing, query_id_counter>> /\ UNCHANGED <<cache, learnt, rx, tx>>
        /\ UNCHANGED <<response, lookup, answers, asked>>
    BY <1>8 DEF EndPoll, txRing, resolver
  <2>2. ResolverInv'
    BY <2>1 DEF ResolverInv, WasAsked
  <2> QED BY <1>5, <1>8, <2>1, <2>2, StableRx, StableTx
<1>9. CASE \E name \in HostName : dns_resolve(name)
  <2>1. UNCHANGED rxRing
    BY <1>9 DEF dns_resolve
  <2>2. TxInv'
    BY <1>9, LookupLearnt, ResolveTx
  <2> QED BY <1>9, <2>1, <2>2, StableRx, SendCache, ResolveResolver
<1>10. CASE EndLookup
  <2>1. UNCHANGED rxRing /\ UNCHANGED <<txRing, query_id_counter>> /\ UNCHANGED <<cache, learnt, rx, tx>>
    BY <1>10 DEF EndLookup, rxRing, txRing
  <2> QED BY <1>5, <1>10, <2>1, StableRx, StableTx, EndLookupResolver
<1>11. CASE UNCHANGED netVars
  <2>1. /\ UNCHANGED rxRing /\ UNCHANGED <<txRing, query_id_counter>> /\ UNCHANGED <<cache, learnt, rx, tx>>
        /\ UNCHANGED <<response, lookup, answers, asked>>
    BY <1>11 DEF netVars, rxRing, txRing, resolver
  <2>2. ResolverInv'
    BY <2>1 DEF ResolverInv, WasAsked
  <2> QED BY <1>5, <2>1, <2>2, StableRx, StableTx
<1> QED BY <1>2, <1>3, <1>4, <1>6, <1>7, <1>8, <1>9, <1>10, <1>11 DEF NetNext

(***************************************************************************)
(* The invariant in every reachable state.                                 *)
(***************************************************************************)
THEOREM NetInvariant == NetSpec => []NetInv
BY NetStarts, NetStep, PTL DEF NetSpec

(***************************************************************************)
(* A register that follows the frames of a ring is one of its descriptors. *)
(***************************************************************************)
LEMMA NextSlot ==
  ASSUME NEW N, NEW ring, NEW head, NEW low, NEW high, RingSound(N, ring, head, low, high)
  PROVE  /\ Wrap(N, head + (high - low)) \in 0 .. N - 1
         /\ Wrap(N, head + (high - low)) = head <=> high - low \in {0, N}
<1>1. /\ N \in Nat \ {0} /\ head \in 0 .. N - 1
      /\ low \in Nat /\ high \in Nat /\ low <= high /\ high - low <= N
  BY DEF RingSound
<1> DEFINE d == high - low
           x == head + d
<1>2. d \in 0 .. N /\ x \in Nat /\ x < 2 * N
  BY <1>1
<1>3. Wrap(N, x) = (IF x < N THEN x ELSE x - N) /\ Wrap(N, x) \in 0 .. N - 1
  <2> HIDE DEF x
  <2> QED BY <1>1, <1>2, WrapOnce
<1>4. Wrap(N, x) = head <=> d \in {0, N}
  <2> HIDE DEF d
  <2> QED BY <1>1, <1>2, <1>3
<1> QED BY <1>3, <1>4

(***************************************************************************)
(* The state of the rings, the cache and the lookup has its type.          *)
(***************************************************************************)
LEMMA NetTypes == NetInv => NetTypeOK
<1> SUFFICES ASSUME NetInv PROVE NetTypeOK
  OBVIOUS
<1>1. RDH \in RxSlot /\ ReadFrom \in RxSlot
  <2>1. RingSound(RX_DESC_COUNT, rx, ReadFrom, taken, arrived) /\ RDH = Wrap(RX_DESC_COUNT, ReadFrom + (arrived - taken))
    BY DEF NetInv, RxInv
  <2> QED BY <2>1, NextSlot DEF RxSlot, RingSound
<1>2. RDT \in RxSlot
  <2>1. RDT = TailBefore(ReadFrom)
    BY DEF NetInv, RxInv
  <2> QED BY <1>1, <2>1, NetworkConstants DEF TailBefore, RxSlot
<1>3. TDH \in TxSlot /\ tx_tail_ \in TxSlot /\ tx \in [TxSlot -> Frame]
  <2>1. /\ RingSound(TX_DESC_COUNT, tx, TDH, transmitted, accepted) /\ tx \in [TxSlot -> Frame]
        /\ tx_tail_ = Wrap(TX_DESC_COUNT, TDH + (accepted - transmitted))
    BY DEF NetInv, TxInv, TxSound
  <2> QED BY <2>1, NextSlot DEF TxSlot, RingSound
<1> QED BY <1>1, <1>2, <1>3 DEF NetInv, RxInv, CacheInv, ResolverInv, NetTypeOK

(***************************************************************************)
(* The receive ring holds the frames that were not read yet, in order, and *)
(* when there is none the adapter has descriptors to fill                  *)
(* (e1000.cpp:286-322), for a ring of any length above one.                *)
(***************************************************************************)
THEOREM RxRingHolds == NetSpec => []RxRingSound
<1>1. NetInv => RxRingSound
  <2> SUFFICES ASSUME NetInv PROVE RxRingSound
    OBVIOUS
  <2>1. /\ RingSound(RX_DESC_COUNT, rx, ReadFrom, taken, arrived)
        /\ RDH = Wrap(RX_DESC_COUNT, ReadFrom + (arrived - taken)) /\ RDT = TailBefore(ReadFrom)
    BY DEF NetInv, RxInv
  <2>2. Holds(RX_DESC_COUNT, rx, ReadFrom, taken, arrived) /\ ReadFrom \in 0 .. RX_DESC_COUNT - 1
    BY <2>1 DEF RingSound
  <2>3. \A k \in RxSlot : rx[(ReadFrom + k) % RX_DESC_COUNT].no
                            = IF k < arrived - taken THEN taken + 1 + k ELSE 0
    BY <2>2 DEF Holds, Wrap, RxSlot
  <2>4. arrived = taken => RDH # RDT
    <3>1. SUFFICES ASSUME arrived = taken PROVE RDH # RDT
      OBVIOUS
    <3>2. arrived - taken = 0
      BY <3>1, <2>1 DEF RingSound
    <3>3. RDH = ReadFrom
      BY <3>2, <2>1, NextSlot
    <3>4. ASSUME NEW h \in 0 .. RX_DESC_COUNT - 1 PROVE TailBefore(h) # h
      BY NetworkConstants DEF TailBefore
    <3> QED BY <3>3, <3>4, <2>1, <2>2
  <2> QED BY <2>3, <2>4, NetTypes DEF RxRingSound
<1> QED BY <1>1, NetInvariant, PTL

(***************************************************************************)
(* The transmit ring holds the frames that were accepted and not sent, in  *)
(* order, and head and tail meet only when it is empty or full             *)
(* (e1000.cpp:253-284).                                                    *)
(***************************************************************************)
THEOREM TxRingHolds == NetSpec => []TxRingSound
<1>1. NetInv => TxRingSound
  <2> SUFFICES ASSUME NetInv PROVE TxRingSound
    OBVIOUS
  <2>1. /\ RingSound(TX_DESC_COUNT, tx, TDH, transmitted, accepted)
        /\ tx_tail_ = Wrap(TX_DESC_COUNT, TDH + (accepted - transmitted))
    BY DEF NetInv, TxInv, TxSound
  <2>2. Holds(TX_DESC_COUNT, tx, TDH, transmitted, accepted)
    BY <2>1 DEF RingSound
  <2>3. \A k \in TxSlot : tx[(TDH + k) % TX_DESC_COUNT].no
                            = IF k < accepted - transmitted THEN transmitted + 1 + k ELSE 0
    BY <2>2 DEF Holds, Wrap, TxSlot
  <2>4. TDH = tx_tail_ => accepted - transmitted \in {0, TX_DESC_COUNT}
    BY <2>1, NextSlot
  <2> QED BY <2>3, <2>4 DEF TxRingSound
<1> QED BY <1>1, NetInvariant, PTL

(***************************************************************************)
(* A frame goes to everybody or to an address that its destination gave,   *)
(* and the cache has the last one given (arp_cache.cpp:11-25,              *)
(* udp.cpp:42-109), for a cache of any size.                               *)
(***************************************************************************)
THEOREM FramesGoWhereLearnt == NetSpec => []AddressedAsLearnt
<1>1. NetInv => AddressedAsLearnt
  BY DEF NetInv, CacheInv, AddressedAsLearnt
<1> QED BY <1>1, NetInvariant, PTL

(***************************************************************************)
(* A lookup returns the address of its own name, whatever answers come     *)
(* late, twice or to an earlier query (dns.cpp:127-258), as long as no     *)
(* query id is used twice.                                                 *)
(***************************************************************************)
THEOREM AnswersBelongToLookups == NetSpec => []AnswersAsAsked
<1>1. NetInv => AnswersAsAsked
  BY DEF NetInv, ResolverInv, AnswersAsAsked
<1> QED BY <1>1, NetInvariant, PTL
=============================================================================
