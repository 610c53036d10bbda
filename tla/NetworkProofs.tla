---------------------------- MODULE NetworkProofs ----------------------------
(***************************************************************************)
(* Proofs about Network for every size of the descriptor ring, every set   *)
(* of frames the network may deliver and any number of them.               *)
(***************************************************************************)
EXTENDS Network, TLAPS

(* The slot after the last one is the first.                               *)
LEMMA AfterWraps ==
  ASSUME NEW s \in Slots
  PROVE  /\ After(s) = IF s + 1 = N THEN 0 ELSE s + 1
         /\ After(s) \in Slots
<1>0. N \in Nat /\ N >= 2 /\ s \in Nat /\ s + 1 <= N
  BY RingAssumption DEF Slots
<1>1. CASE s + 1 = N
  <2>1. N % N = 0  BY <1>0
  <2> QED  BY <1>0, <1>1, <2>1 DEF After, Slots
<1>2. CASE s + 1 # N
  <2>1. s + 1 < N  BY <1>0, <1>2
  <2>2. (s + 1) % N = s + 1  BY <1>0, <2>1
  <2> QED  BY <1>0, <2>1, <2>2 DEF After, Slots
<1> QED  BY <1>1, <1>2

------------------------------------------------------------------------------
(* Types.                                                                  *)

(* A frame leaves the addresses well typed, and the answers as they were.  *)
LEMMA DispatchTyped ==
  ASSUME TypeOK, NEW f \in Frame, net_dispatch(f)
  PROVE  /\ net_gateway_mac' \in Mac /\ net_arp_pending' \in Nat
         /\ net_ip_addr' \in Nat
         /\ net_tcp_state' \in {0, 2}
         /\ UNCHANGED <<net_dns_pending, icmp_replies>>
<1>1. CASE f.etype = "arp"
  <2>1. f \in ArpFrame
    BY <1>1 DEF Frame, ArpFrame, IpFrame
  <2>2. f.sha \in Mac  BY <2>1 DEF ArpFrame
  <2> QED  BY <1>1, <2>2 DEF net_dispatch, net_rx_arp, TypeOK, answers
<1>2. CASE f.etype # "arp"
  <2>1. f \in IpFrame
    BY <1>2 DEF Frame, ArpFrame, IpFrame
  <2>2. f.offer \in Nat  BY <2>1 DEF IpFrame
  <2>3. net_tcp_state' \in {0, 2}
    BY <1>2 DEF net_dispatch, net_rx_ipv4, net_rx_tcp, TypeOK
  <2> QED  BY <1>2, <2>2, <2>3 DEF net_dispatch, net_rx_ipv4, TypeOK
<1> QED  BY <1>1, <1>2

LEMMA TypeInit == Init => TypeOK
<1> SUFFICES ASSUME Init  PROVE TypeOK
  OBVIOUS
<1>1. N \in Nat /\ N >= 2 /\ 0 \in Slots
  BY RingAssumption DEF Slots
<1>2. desc \in [Slots -> Descriptor]
  BY DEF Init, Descriptor
<1>3. net_gateway_mac \in Mac
  BY DEF Init, NoMac, Mac
<1>4. /\ e1000_ready \in BOOLEAN /\ net_started \in BOOLEAN
      /\ net_dns_pending \in BOOLEAN /\ net_irq_pending \in BOOLEAN
      /\ owed \in BOOLEAN /\ expiring \in BOOLEAN /\ net_tcp_state \in {0, 2}
  BY DEF Init
<1>5. /\ 0 \in 0 .. TxCount /\ 0 \in 0 .. N + 1 /\ {} \subseteq Slots
      /\ pc \in Pcs /\ ret \in Waits /\ asked \in {"dns", "ping"}
  BY <1>1, RingAssumption DEF Init, Pcs, Waits
<1> QED  BY <1>1, <1>2, <1>3, <1>4, <1>5 DEF Init, TypeOK

LEMMA TransmitTyped ==
  ASSUME TypeOK, Transmit
  PROVE  e1000_tx_count' \in 0 .. TxCount
BY RingAssumption DEF TypeOK, Transmit

(* What a turn of the poll leaves of the flow: it goes on, or it ends.     *)
LEMMA TurnTyped ==
  ASSUME TypeOK, PollFrame
  PROVE  /\ pc' \in {"poll", ret} /\ expiring' \in BOOLEAN
         /\ e1000_tx_count' \in 0 .. TxCount
<1>1. pc = "poll" /\ e1000_tx_count \in 0 .. TxCount
  BY DEF PollFrame, TypeOK
<1>2. CASE Acked(desc[e1000_rx_idx].frame)
  <2>1. Acknowledge  BY <1>2 DEF PollFrame
  <2> QED  BY <1>1, <2>1, TransmitTyped DEF Acknowledge
<1>3. CASE ~Acked(desc[e1000_rx_idx].frame)
  BY <1>1, <1>3 DEF PollFrame
<1> QED  BY <1>2, <1>3

(* A poll: the register and the index stay inside the ring.                *)
LEMMA PollFrameTyped ==
  ASSUME TypeOK, PollFrame
  PROVE  TypeOK'
<1> DEFINE d == desc[e1000_rx_idx]
<1>1. N \in Nat /\ N >= 2  BY RingAssumption
<1>2. d \in [frame : Frame, num : Nat]
  BY DEF PollFrame, DescriptorDone, Done, TypeOK, Descriptor
<1>3. /\ net_gateway_mac' \in Mac /\ net_arp_pending' \in Nat
      /\ net_ip_addr' \in Nat /\ net_tcp_state' \in {0, 2}
      /\ UNCHANGED <<net_dns_pending, icmp_replies>>
  BY <1>2, DispatchTyped DEF PollFrame
<1>4. After(e1000_rx_idx) \in Slots
  BY AfterWraps DEF TypeOK
<1>5. last' \in Nat
  BY <1>2 DEF PollFrame
<1>6. handled' \in 0 .. N + 1
  BY <1>1 DEF PollFrame, TypeOK
<1>7. pc' \in Pcs /\ expiring' \in BOOLEAN /\ e1000_tx_count' \in 0 .. TxCount
  BY TurnTyped DEF TypeOK, Pcs, Waits
<1> QED
  BY <1>3, <1>4, <1>5, <1>6, <1>7
     DEF PollFrame, Release, TypeOK, card, queries

LEMMA FrameArrivesTyped ==
  ASSUME TypeOK, NEW f \in Arriving, FrameArrives(f)
  PROVE  TypeOK'
<1>1. [frame |-> f, num |-> arrived + 1] \in Descriptor
  BY FrameAssumption DEF TypeOK, Descriptor
<1>2. desc' \in [Slots -> Descriptor]
  BY <1>1 DEF FrameArrives, TypeOK
<1>3. After(head) \in Slots
  BY AfterWraps DEF TypeOK
<1> QED
  BY <1>2, <1>3 DEF FrameArrives, TypeOK, address, answers, flow, history, queries

LEMMA TypeStep ==
  ASSUME TypeOK, [Next]_vars
  PROVE  TypeOK'
<1> USE RingAssumption, AddressAssumption DEF TypeOK
<1>1. CASE PollFrame  BY <1>1, PollFrameTyped
<1>2. CASE \E f \in Arriving : FrameArrives(f)  BY <1>2, FrameArrivesTyped
<1>3. CASE PollEmpty
  <2>1. pc' \in Pcs  BY <1>3 DEF PollEmpty, Pcs, Waits
  <2> QED  BY <1>3, <2>1 DEF PollEmpty, card, address, answers, history, queries
<1>4. CASE kernel_net_tick
  BY <1>4 DEF kernel_net_tick, card, address, answers, flow, history, queries
<1>5. CASE TestRequest
  BY <1>5 DEF TestRequest, Poll, Pcs, Waits, card, address, answers, flow, history, queries
<1>6. CASE ClearRequest
  BY <1>6 DEF ClearRequest, Poll, Pcs, Waits, card, address, answers, flow, history, queries
<1>7. CASE StartNetwork
  <2>1. /\ N - 1 \in Slots /\ 2 \in 0 .. TxCount /\ NoMac \in Mac
        /\ Gateway \in Nat /\ StaticIp \in Nat
    BY DEF Slots, NoMac, Mac
  <2>2. /\ e1000_ready' \in BOOLEAN /\ net_dns_pending' \in BOOLEAN
        /\ net_tcp_state' \in {0, 2} /\ expiring' \in BOOLEAN
    BY <1>7 DEF StartNetwork, Poll
  <2>3. pc' \in Pcs /\ ret' \in Waits
    BY <1>7 DEF StartNetwork, Poll, Pcs, Waits
  <2> QED
    BY <1>7, <2>1, <2>2, <2>3 DEF StartNetwork, card, history, queries
<1>8. CASE StartWithoutCard
  BY <1>8 DEF StartWithoutCard, Poll, Pcs, Waits, card, address, answers, flow, history, queries
<1>9. CASE Started
  BY <1>9 DEF Started, Poll, Pcs, Waits, card, address, answers, flow, history, queries
<1>10. CASE GatewayFound
  BY <1>10 DEF GatewayFound, Poll, Pcs, Waits, card, address, answers, flow, history, queries
<1>11. CASE GatewayAskAgain
  <2>1. e1000_tx_count' \in 0 .. TxCount
    BY <1>11, TransmitTyped DEF GatewayAskAgain
  <2>2. net_started' \in BOOLEAN
    BY <1>11 DEF GatewayAskAgain
  <2>3. pc' \in Pcs /\ ret' \in Waits /\ expiring' \in BOOLEAN
    BY <1>11 DEF GatewayAskAgain, Poll, Pcs, Waits
  <2> QED
    BY <1>11, <2>1, <2>2, <2>3 DEF GatewayAskAgain, card, address, answers, history, queries
<1>12. CASE NoCommand
  BY <1>12 DEF NoCommand, Poll, Pcs, Waits, card, address, answers, flow, history, queries
<1>13. CASE net_dns_resolve
  BY <1>13 DEF net_dns_resolve, Poll, Pcs, Waits, card, address, answers, flow, history, queries
<1>14. CASE net_ping_host
  BY <1>14 DEF net_ping_host, Poll, Pcs, Waits, card, address, answers, flow, history, queries
<1>15. CASE net_ensure_gateway
  <2>1. pc' \in Pcs /\ ret' \in Waits /\ expiring' \in BOOLEAN
    BY <1>15 DEF net_ensure_gateway, Poll, Pcs, Waits
  <2>2. e1000_tx_count' \in 0 .. TxCount
    BY <1>15, TransmitTyped DEF net_ensure_gateway
  <2>3. net_arp_pending' \in Nat
    BY <1>15 DEF net_ensure_gateway
  <2> QED
    BY <1>15, <2>1, <2>2, <2>3 DEF net_ensure_gateway, card, address, answers, history, queries
<1>16. CASE EnsureWait
  <2>1. pc' \in Pcs /\ ret' \in Waits /\ expiring' \in BOOLEAN
    BY <1>16 DEF EnsureWait, Poll, Pcs, Waits
  <2>2. lapsed' \in Nat
    BY <1>16 DEF EnsureWait
  <2> QED
    BY <1>16, <2>1, <2>2 DEF EnsureWait, card, address, answers, history
<1>17. CASE SendQuery
  <2>1. pc' \in Pcs /\ ret' \in Waits /\ expiring' \in BOOLEAN
    BY <1>17 DEF SendQuery, Poll, Pcs, Waits
  <2>2. e1000_tx_count' \in 0 .. TxCount
    BY <1>17, TransmitTyped DEF SendQuery
  <2>3. sent' \in Nat /\ astray' \in Nat
    BY <1>17 DEF SendQuery
  <2> QED
    BY <1>17, <2>1, <2>2, <2>3 DEF SendQuery, card, address, answers, history
<1>18. CASE AnswerWait
  <2>1. pc' \in Pcs /\ ret' \in Waits /\ expiring' \in BOOLEAN
    BY <1>18 DEF AnswerWait, Poll, Pcs, Waits
  <2>2. lapsed' \in Nat
    BY <1>18 DEF AnswerWait
  <2> QED
    BY <1>18, <2>1, <2>2 DEF AnswerWait, card, address, answers, history
<1>19. CASE UNCHANGED vars
  BY <1>19 DEF vars, card, address, answers, flow, history, queries
<1> QED
  BY <1>1, <1>2, <1>3, <1>4, <1>5, <1>6, <1>7, <1>8, <1>9, <1>10, <1>11, <1>12, <1>13, <1>14, <1>15, <1>16, <1>17, <1>18, <1>19 DEF Next, MainLoop

(* Every variable of the receiving path has its type in every reachable    *)
(* state: the ring registers never leave the ring, whatever its size.      *)
THEOREM TypeCorrect == Spec => []TypeOK
<1>1. Init => TypeOK  BY TypeInit
<1>2. TypeOK /\ [Next]_vars => TypeOK'  BY TypeStep
<1> QED  BY <1>1, <1>2, PTL DEF Spec

------------------------------------------------------------------------------
(* The card and the driver on one ring.                                    *)

(* s lies before the head of the card and at or after the index of the     *)
(* driver, going round the ring.                                           *)
Ahead(s) == IF e1000_rx_idx <= head THEN e1000_rx_idx <= s /\ s < head
            ELSE e1000_rx_idx <= s \/ s < head

(* The tail is the slot behind the index, so that the card, which stops at *)
(* the tail, never reaches the index from behind; what has not been        *)
(* dispatched lies between the index and the head.                         *)
RingInv ==
  /\ e1000_ready => tail = IF e1000_rx_idx = 0 THEN N - 1 ELSE e1000_rx_idx - 1
  /\ ~e1000_ready => e1000_rx_idx = 0 /\ fresh = {}
  /\ \A s \in fresh : Ahead(s)

LEMMA RingArrival ==
  ASSUME TypeOK, RingInv, NEW f \in Arriving, FrameArrives(f)
  PROVE  RingInv' /\ head \notin fresh
<1>1. N \in Nat /\ N >= 2  BY RingAssumption
<1>2. After(head) = IF head + 1 = N THEN 0 ELSE head + 1
  BY AfterWraps DEF TypeOK
<1>3. /\ head \in 0 .. N - 1 /\ e1000_rx_idx \in 0 .. N - 1
      /\ fresh \subseteq 0 .. N - 1
  BY DEF TypeOK, Slots
<1>4. head # IF e1000_rx_idx = 0 THEN N - 1 ELSE e1000_rx_idx - 1
  BY DEF FrameArrives, RingInv
<1>5. head \notin fresh
  BY <1>3 DEF RingInv, Ahead
<1>6. ASSUME NEW s \in fresh'
      PROVE  Ahead(s)'
  <2>1. s \in fresh \/ s = head  BY DEF FrameArrives
  <2>2. s \in fresh => Ahead(s)  BY DEF RingInv
  <2>3. /\ head' = IF head + 1 = N THEN 0 ELSE head + 1
        /\ e1000_rx_idx' = e1000_rx_idx
    BY <1>2 DEF FrameArrives
  <2>4. s \in 0 .. N - 1 /\ (s = head \/ Ahead(s))  BY <1>3, <2>1, <2>2
  <2>5. CASE e1000_rx_idx <= head
    <3>1. e1000_rx_idx <= s /\ s <= head  BY <1>3, <2>4, <2>5 DEF Ahead
    <3>2. CASE head + 1 = N
      <4>1. head' = 0 /\ e1000_rx_idx # 0  BY <1>1, <1>3, <1>4, <2>3, <3>2
      <4> QED  BY <1>3, <2>3, <3>1, <4>1 DEF Ahead
    <3>3. CASE head + 1 # N
      BY <1>3, <2>3, <2>4, <2>5, <3>1, <3>3 DEF Ahead
    <3> QED  BY <3>2, <3>3
  <2>6. CASE head < e1000_rx_idx
    <3>1. e1000_rx_idx <= s \/ s <= head  BY <1>3, <2>4, <2>6 DEF Ahead
    <3>2. head' = head + 1 /\ head' < e1000_rx_idx
      BY <1>1, <1>3, <1>4, <2>3, <2>6
    <3> QED  BY <1>3, <2>3, <2>4, <3>1, <3>2 DEF Ahead
  <2> QED  BY <1>3, <2>5, <2>6
<1> QED  BY <1>5, <1>6 DEF RingInv, FrameArrives

LEMMA RingPoll ==
  ASSUME TypeOK, RingInv, PollFrame
  PROVE  RingInv'
<1>1. N \in Nat /\ N >= 2  BY RingAssumption
<1>2. After(e1000_rx_idx) = IF e1000_rx_idx + 1 = N THEN 0 ELSE e1000_rx_idx + 1
  BY AfterWraps DEF TypeOK
<1>3. /\ head \in 0 .. N - 1 /\ e1000_rx_idx \in 0 .. N - 1
      /\ fresh \subseteq 0 .. N - 1
  BY DEF TypeOK, Slots
<1>4. e1000_rx_idx' = IF e1000_rx_idx + 1 = N THEN 0 ELSE e1000_rx_idx + 1
  BY <1>2 DEF PollFrame, Release
<1>5. /\ tail' = e1000_rx_idx /\ head' = head /\ e1000_ready /\ e1000_ready'
      /\ fresh' = fresh \ {e1000_rx_idx}
  BY DEF PollFrame, Release, DescriptorDone, card
<1>6. ASSUME NEW s \in fresh'
      PROVE  Ahead(s)'
  <2>1. s \in fresh /\ s # e1000_rx_idx /\ Ahead(s)  BY <1>5 DEF RingInv
  <2> QED  BY <1>1, <1>3, <1>4, <1>5, <2>1 DEF Ahead
<1>7. tail' = IF e1000_rx_idx' = 0 THEN N - 1 ELSE e1000_rx_idx' - 1
  BY <1>1, <1>3, <1>4, <1>5
<1> QED  BY <1>5, <1>6, <1>7 DEF RingInv

(* While the start of the network is under way with a card, the main loop  *)
(* is in the search for the gateway: the start happens once.               *)
StartInv ==
  e1000_ready /\ ~net_started => pc = "gateway" \/ (pc = "poll" /\ ret = "gateway")

LEMMA StartStep ==
  ASSUME TypeOK, StartInv, [Next]_vars
  PROVE  StartInv'
<1> USE DEF StartInv, TypeOK
<1>1. CASE PollFrame
  <2>1. pc = "poll" /\ pc' \in {"poll", ret} /\ UNCHANGED <<e1000_ready, net_started, ret>>
    BY <1>1, TurnTyped DEF PollFrame
  <2> QED  BY <2>1
<1>2. CASE \E f \in Arriving : FrameArrives(f)  BY <1>2 DEF FrameArrives, flow
<1>3. CASE StartNetwork  BY <1>3 DEF StartNetwork, Poll
<1>4. CASE TestRequest  BY <1>4 DEF TestRequest
<1>5. CASE ClearRequest  BY <1>5 DEF ClearRequest, Poll
<1>6. CASE PollEmpty  BY <1>6 DEF PollEmpty
<1>7. CASE StartWithoutCard  BY <1>7 DEF StartWithoutCard
<1>8. CASE Started  BY <1>8 DEF Started
<1>9. CASE GatewayFound  BY <1>9 DEF GatewayFound
<1>10. CASE GatewayAskAgain  BY <1>10 DEF GatewayAskAgain, Poll
<1>11. CASE NoCommand  BY <1>11 DEF NoCommand
<1>12. CASE net_dns_resolve  BY <1>12 DEF net_dns_resolve
<1>13. CASE net_ping_host  BY <1>13 DEF net_ping_host
<1>14. CASE net_ensure_gateway  BY <1>14 DEF net_ensure_gateway, Poll
<1>15. CASE EnsureWait  BY <1>15 DEF EnsureWait, Poll
<1>16. CASE SendQuery  BY <1>16 DEF SendQuery, Poll
<1>17. CASE AnswerWait  BY <1>17 DEF AnswerWait, Poll
<1>18. CASE kernel_net_tick  BY <1>18 DEF kernel_net_tick, flow
<1>19. CASE UNCHANGED vars  BY <1>19 DEF vars, flow
<1> QED
  BY <1>1, <1>2, <1>3, <1>4, <1>5, <1>6, <1>7, <1>8, <1>9, <1>10, <1>11, <1>12, <1>13, <1>14, <1>15, <1>16, <1>17, <1>18, <1>19 DEF Next, MainLoop

LEMMA RingStep ==
  ASSUME TypeOK, RingInv, StartInv, [Next]_vars
  PROVE  RingInv'
<1>1. CASE PollFrame  BY <1>1, RingPoll
<1>2. CASE \E f \in Arriving : FrameArrives(f)  BY <1>2, RingArrival
<1>3. CASE StartNetwork
  <2>1. ~e1000_ready
    BY <1>3 DEF StartNetwork, StartInv
  <2> QED
    BY <1>3, <2>1 DEF StartNetwork, RingInv, Ahead, card
<1>4. CASE UNCHANGED <<e1000_ready, card, tail, e1000_rx_idx, fresh>>
  BY <1>4 DEF RingInv, Ahead, card
<1>5. CASE ~PollFrame /\ ~StartNetwork /\ ~(\E f \in Arriving : FrameArrives(f))
  <2>1. UNCHANGED <<e1000_ready, card, tail, e1000_rx_idx, fresh>>
    BY <1>5 DEF Next, MainLoop, vars, TestRequest, ClearRequest, PollEmpty, StartWithoutCard, Started,
           GatewayFound, GatewayAskAgain, NoCommand, net_dns_resolve, net_ping_host,
           net_ensure_gateway, EnsureWait, SendQuery, AnswerWait, kernel_net_tick
  <2> QED  BY <2>1, <1>4
<1> QED  BY <1>1, <1>2, <1>3, <1>5

(* No frame is overwritten before it has been dispatched, whatever the     *)
(* network delivers and however the driver's laps and the card's interleave.*)
THEOREM NothingOverwritten == Spec => NoFrameOverwritten
<1> DEFINE Inv == TypeOK /\ RingInv /\ StartInv
<1>1. Init => Inv
  BY TypeInit DEF Init, RingInv, StartInv
<1>2. Inv /\ [Next]_vars => Inv'
  BY TypeStep, RingStep, StartStep
<1>3. Inv /\ [Next]_vars => [head' # head => head \notin fresh]_vars
  <2> SUFFICES ASSUME Inv, [Next]_vars, head' # head  PROVE head \notin fresh
    OBVIOUS
  <2>1. CASE \E f \in Arriving : FrameArrives(f)
    BY <2>1, RingArrival
  <2>2. CASE ~(\E f \in Arriving : FrameArrives(f))
    BY <2>2 DEF Next, MainLoop, vars, card, PollFrame, StartNetwork, TestRequest, ClearRequest, PollEmpty, StartWithoutCard, Started,
           GatewayFound, GatewayAskAgain, NoCommand, net_dns_resolve, net_ping_host,
           net_ensure_gateway, EnsureWait, SendQuery, AnswerWait, kernel_net_tick
  <2> QED  BY <2>1, <2>2
<1> QED  BY <1>1, <1>2, <1>3, PTL DEF Spec, NoFrameOverwritten

------------------------------------------------------------------------------
(* The gateway.                                                            *)

(* Once the gateway is known nobody is asked for any more.                 *)
GatewayInv ==
  Known(net_gateway_mac) => e1000_ready /\ net_arp_pending = 0

LEMMA GatewayStep ==
  ASSUME TypeOK, StartInv, GatewayInv, [Next]_vars
  PROVE  /\ GatewayInv'
         /\ Known(net_gateway_mac) /\ e1000_ready
              => net_gateway_mac' = net_gateway_mac
<1> USE DEF GatewayInv
<1>1. CASE PollFrame
  <2> DEFINE f == desc[e1000_rx_idx].frame
  <2>1. net_rx_arp(f) \/ net_rx_ipv4(f)
    BY <1>1 DEF PollFrame, net_dispatch
  <2>2. \/ UNCHANGED <<net_gateway_mac, net_arp_pending>>
        \/ net_arp_pending # 0 /\ net_arp_pending' = 0
    BY <2>1 DEF net_rx_arp, net_rx_ipv4
  <2>3. e1000_ready /\ e1000_ready'
    BY <1>1 DEF PollFrame, DescriptorDone
  <2> QED  BY <2>2, <2>3
<1>2. CASE StartNetwork
  <2>1. ~e1000_ready  BY <1>2 DEF StartNetwork, StartInv
  <2>2. ~Known(NoMac)  BY DEF Known, NoMac
  <2> QED  BY <1>2, <2>1, <2>2 DEF StartNetwork
<1>3. CASE net_ensure_gateway
  BY <1>3 DEF net_ensure_gateway
<1>4. CASE UNCHANGED <<e1000_ready, net_gateway_mac, net_arp_pending>>
  BY <1>4
<1>5. CASE ~PollFrame /\ ~StartNetwork /\ ~net_ensure_gateway
  <2>1. UNCHANGED <<e1000_ready, net_gateway_mac, net_arp_pending>>
    BY <1>5 DEF Next, MainLoop, vars, address, FrameArrives, TestRequest, ClearRequest,
           PollEmpty, StartWithoutCard, Started, GatewayFound, GatewayAskAgain, NoCommand,
           net_dns_resolve, net_ping_host, EnsureWait, SendQuery, AnswerWait,
           kernel_net_tick
  <2> QED  BY <2>1, <1>4
<1> QED  BY <1>1, <1>2, <1>3, <1>5

(* No later reply, and no stale one dispatched again, moves the gateway.   *)
THEOREM GatewayKept == Spec => GatewayStable
<1> DEFINE Inv == TypeOK /\ StartInv /\ GatewayInv
<1>1. Init => Inv
  BY TypeInit DEF Init, StartInv, GatewayInv, Known, NoMac
<1>2. Inv /\ [Next]_vars => Inv'
  BY TypeStep, StartStep, GatewayStep
<1>3. Inv /\ [Next]_vars
      => [Known(net_gateway_mac) /\ e1000_ready
            => net_gateway_mac' = net_gateway_mac]_vars
  BY GatewayStep
<1> QED  BY <1>1, <1>2, <1>3, PTL DEF Spec, GatewayStable

------------------------------------------------------------------------------
(* The first lap, and the timer.                                           *)

(* Until the driver has gone round once its index is the number of frames  *)
(* it has dispatched.  The card is on the same lap, or on the next and     *)
(* behind the driver, so that what lies from the index on are the frames   *)
(* of the first lap, each in the slot of its number.                       *)
LapInv ==
  /\ handled < N =>
       /\ e1000_rx_idx = handled
       /\ IF arrived < N THEN head = arrived ELSE head < handled
       /\ \A s \in Slots : s >= handled /\ desc[s] # NoFrame => desc[s].num = s + 1
  /\ HandledInOrder

LEMMA LapArrival ==
  ASSUME TypeOK, RingInv, LapInv, NEW f \in Arriving, FrameArrives(f)
  PROVE  LapInv'
<1> USE DEF LapInv, HandledInOrder
<1>1. /\ N \in Nat /\ N >= 2 /\ arrived \in Nat /\ handled \in Nat
      /\ head \in 0 .. N - 1 /\ e1000_rx_idx \in 0 .. N - 1
  BY RingAssumption DEF TypeOK, Slots
<1>2. handled' = handled /\ last' = last /\ e1000_rx_idx' = e1000_rx_idx
  BY DEF FrameArrives, history
<1>3. head # IF e1000_rx_idx = 0 THEN N - 1 ELSE e1000_rx_idx - 1
  BY DEF FrameArrives, RingInv
<1>4. head' = IF head + 1 = N THEN 0 ELSE head + 1
  BY AfterWraps DEF FrameArrives, TypeOK
<1>5. arrived' = arrived + 1  BY DEF FrameArrives
<1>6. ASSUME handled < N
      PROVE  IF arrived' < N THEN head' = arrived' ELSE head' < handled
  BY <1>1, <1>3, <1>4, <1>5, <1>6
<1>7. ASSUME handled < N, NEW s \in Slots, s >= handled, desc'[s] # NoFrame
      PROVE  desc'[s].num = s + 1
  <2>1. CASE s = head
    <3>1. arrived < N /\ head = arrived  BY <1>1, <1>7, <2>1
    <3>2. desc'[s] = [frame |-> f, num |-> arrived + 1]
      BY <2>1 DEF FrameArrives, TypeOK
    <3> QED  BY <2>1, <3>1, <3>2
  <2>2. CASE s # head
    <3>1. desc'[s] = desc[s]  BY <2>2 DEF FrameArrives, TypeOK
    <3> QED  BY <1>7, <3>1
  <2> QED  BY <2>1, <2>2
<1> QED  BY <1>2, <1>6, <1>7

LEMMA LapPoll ==
  ASSUME TypeOK, LapInv, PollFrame
  PROVE  LapInv'
<1> USE DEF LapInv, HandledInOrder
<1>1. /\ N \in Nat /\ N >= 2 /\ arrived \in Nat /\ handled \in 0 .. N + 1
      /\ head \in 0 .. N - 1 /\ e1000_rx_idx \in Slots
  BY RingAssumption DEF TypeOK, Slots
<1>2. handled' = (IF handled <= N THEN handled + 1 ELSE handled)
      /\ last' = desc[e1000_rx_idx].num /\ desc[e1000_rx_idx] # NoFrame
      /\ head' = head /\ arrived' = arrived /\ desc' = desc
  BY DEF PollFrame, DescriptorDone, Done, card
<1>3. e1000_rx_idx' = IF e1000_rx_idx + 1 = N THEN 0 ELSE e1000_rx_idx + 1
  BY AfterWraps, <1>1 DEF PollFrame, Release
<1>4. CASE handled < N
  <2>1. last' = handled + 1 /\ handled' = handled + 1  BY <1>1, <1>2, <1>4
  <2>2. handled' < N => e1000_rx_idx' = handled'  BY <1>1, <1>3, <1>4, <2>1
  <2>3. IF arrived' < N THEN head' = arrived' ELSE head' < handled'
    BY <1>1, <1>2, <1>4, <2>1
  <2>4. \A s \in Slots : s >= handled' /\ desc'[s] # NoFrame => desc'[s].num = s + 1
    BY <1>1, <1>2, <1>4, <2>1 DEF Slots
  <2> QED  BY <2>1, <2>2, <2>3, <2>4
<1>5. CASE handled >= N
  BY <1>1, <1>2, <1>5
<1> QED  BY <1>1, <1>4, <1>5

LEMMA LapStep ==
  ASSUME TypeOK, RingInv, LapInv, [Next]_vars
  PROVE  LapInv'
<1>1. CASE PollFrame  BY <1>1, LapPoll
<1>2. CASE \E f \in Arriving : FrameArrives(f)  BY <1>2, LapArrival
<1>3. CASE UNCHANGED <<card, e1000_rx_idx, history>>
  BY <1>3 DEF LapInv, HandledInOrder, card, history
<1>4. CASE ~PollFrame /\ ~(\E f \in Arriving : FrameArrives(f))
  <2>1. UNCHANGED <<card, e1000_rx_idx, history>>
    BY <1>4 DEF Next, MainLoop, vars, TestRequest, ClearRequest, PollEmpty, StartNetwork,
           StartWithoutCard, Started, GatewayFound, GatewayAskAgain, NoCommand,
           net_dns_resolve, net_ping_host, net_ensure_gateway, EnsureWait, SendQuery,
           AnswerWait, kernel_net_tick
  <2> QED  BY <2>1, <1>3
<1> QED  BY <1>1, <1>2, <1>3, <1>4

(* On its first lap the driver dispatches every frame once and in order,   *)
(* although the card may have begun its second lap meanwhile.              *)
THEOREM OrderCorrect == Spec => []HandledInOrder
<1> DEFINE Inv == TypeOK /\ RingInv /\ StartInv /\ LapInv
<1>1. Init => Inv
  <2> SUFFICES ASSUME Init  PROVE LapInv
    BY TypeInit DEF Init, RingInv, StartInv
  <2> QED  BY RingAssumption DEF Init, LapInv, HandledInOrder
<1>2. Inv /\ [Next]_vars => Inv'
  BY TypeStep, RingStep, StartStep, LapStep
<1>3. Inv => HandledInOrder  BY DEF LapInv
<1> QED  BY <1>1, <1>2, <1>3, PTL DEF Spec

(* The flag that is tested, cleared and set again by the interrupt never   *)
(* falls behind the requests: only the clearing before a poll takes one    *)
(* back.                                                                   *)
THEOREM RequestsCorrect == Spec => []RequestKept
<1>1. Init => RequestKept
  BY DEF Init, RequestKept
<1>2. RequestKept /\ [Next]_vars => RequestKept'
  <2> SUFFICES ASSUME RequestKept, [Next]_vars  PROVE RequestKept'
    OBVIOUS
  <2>1. CASE ClearRequest  BY <2>1 DEF ClearRequest, RequestKept
  <2>2. CASE kernel_net_tick  BY <2>2 DEF kernel_net_tick, RequestKept
  <2>3. CASE ~ClearRequest /\ ~kernel_net_tick
    <3>1. UNCHANGED <<owed, net_irq_pending>>
      BY <2>3 DEF Next, MainLoop, vars, FrameArrives, TestRequest, PollFrame, PollEmpty,
             StartNetwork, StartWithoutCard, Started, GatewayFound, GatewayAskAgain,
             NoCommand, net_dns_resolve, net_ping_host, net_ensure_gateway, EnsureWait,
             SendQuery, AnswerWait
    <3> QED  BY <3>1 DEF RequestKept
  <2> QED  BY <2>1, <2>2, <2>3
<1> QED  BY <1>1, <1>2, PTL DEF Spec

------------------------------------------------------------------------------
(* What is never answered, and what that leaves to ask.                    *)

Searching == pc = "ensured" \/ (pc = "poll" /\ ret = "ensured")
Asking == pc \in {"ensure", "send"} \/ Searching
Waiting(answer) == pc = answer \/ (pc = "poll" /\ ret = answer)
Answering == Waiting("dns") \/ Waiting("ping")

(* No frame ends a wait for a DNS answer or an echo reply: net_rx_ipv4     *)
(* takes the payload's first byte for the protocol, and none of the three  *)
(* it knows leads to the code that would.                                  *)
AnswerInv ==
  /\ icmp_replies = 0
  /\ (Asking /\ asked = "dns") \/ Waiting("dns") => net_dns_pending

LEMMA AnswerStep ==
  ASSUME TypeOK, AnswerInv, [Next]_vars
  PROVE  AnswerInv'
<1> USE DEF AnswerInv, Asking, Searching, Waiting
<1>1. CASE PollFrame
  <2>1. UNCHANGED <<net_dns_pending, icmp_replies>>
    BY <1>1 DEF PollFrame, net_dispatch, net_rx_arp, net_rx_ipv4, answers
  <2>2. pc = "poll" /\ pc' \in {"poll", ret} /\ UNCHANGED <<ret, asked>> /\ ret \in Waits
    BY <1>1, TurnTyped DEF PollFrame, TypeOK
  <2> QED  BY <2>1, <2>2 DEF Waits
<1>2. CASE PollEmpty
  <2>1. pc = "poll" /\ pc' = ret /\ ret' = ret /\ ret \in Waits
    BY <1>2 DEF PollEmpty, TypeOK
  <2> QED  BY <1>2, <2>1 DEF PollEmpty, answers, Waits
<1>3. CASE \E f \in Arriving : FrameArrives(f)
  BY <1>3 DEF FrameArrives, answers, flow
<1>4. CASE kernel_net_tick \/ UNCHANGED vars
  BY <1>4 DEF kernel_net_tick, vars, answers, flow
<1>5. CASE TestRequest \/ StartWithoutCard \/ Started \/ GatewayFound \/ NoCommand
  <2>1. pc' \in {"clear", "render", "commands", "top"} /\ UNCHANGED answers
    BY <1>5 DEF TestRequest, StartWithoutCard, Started, GatewayFound, NoCommand
  <2> QED  BY <2>1 DEF answers
<1>6. CASE ClearRequest \/ StartNetwork \/ GatewayAskAgain
  <2>1. /\ icmp_replies' = icmp_replies
        /\ ((pc' = "poll" /\ ret' \in {"render", "gateway"}) \/ pc' = "commands")
    BY <1>6 DEF ClearRequest, StartNetwork, GatewayAskAgain, Poll, answers
  <2> QED  BY <2>1
<1>7. CASE net_dns_resolve \/ net_ping_host
  <2>1. pc' = "ensure" /\ icmp_replies' = 0
        /\ (asked' = "dns" => net_dns_pending') /\ asked' \in {"dns", "ping"}
    BY <1>7 DEF net_dns_resolve, net_ping_host
  <2> QED  BY <2>1
<1>8. CASE net_ensure_gateway \/ EnsureWait
  <2>1. pc \in {"ensure", "ensured"} /\ asked' = asked
        /\ UNCHANGED answers /\ (pc' = "send" \/ (pc' = "poll" /\ ret' = "ensured"))
    BY <1>8 DEF net_ensure_gateway, EnsureWait, Poll
  <2> QED  BY <2>1 DEF answers
<1>9. CASE SendQuery
  <2>1. pc = "send" /\ pc' = "poll" /\ ret' = asked /\ asked \in {"dns", "ping"}
        /\ UNCHANGED answers
    BY <1>9 DEF SendQuery, Poll, TypeOK
  <2> QED  BY <2>1 DEF answers
<1>10. CASE AnswerWait
  <2>1. pc \in {"dns", "ping"} /\ UNCHANGED answers
        /\ (pc' = "top" \/ (pc' = "poll" /\ ret' = pc))
    BY <1>10 DEF AnswerWait, Poll
  <2> QED  BY <2>1 DEF answers
<1> QED
  BY <1>1, <1>2, <1>3, <1>4, <1>5, <1>6, <1>7, <1>8, <1>9, <1>10 DEF Next, MainLoop

(* How many queries the lapsed waits account for: one more than they are   *)
(* while the last waits for its answer, and one less when one is about to  *)
(* leave without a gateway, whose search has lapsed.                       *)
QueryInv ==
  /\ sent + 2 * astray <= lapsed + 1
  /\ ~Answering => sent + 2 * astray <= lapsed
  /\ pc = "send" /\ ~Known(net_gateway_mac) => sent + 2 * astray + 1 <= lapsed

(* A wait that lapses has cost two transmissions of the first lap: the one *)
(* it began with, and the acknowledgement that left its ecx.               *)
LapseInv ==
  /\ ~e1000_ready => lapsed = 0 /\ ~expiring
  /\ e1000_ready => 2 * lapsed + 2 <= e1000_tx_count
  /\ e1000_ready /\ (Searching \/ Answering) /\ e1000_tx_count < TxCount
       => 2 * lapsed + 3 <= e1000_tx_count
  /\ e1000_ready /\ (Searching \/ Answering) /\ expiring
       => 2 * lapsed + 4 <= e1000_tx_count

LEMMA TurnCounts ==
  ASSUME TypeOK, QueryInv, LapseInv, PollFrame
  PROVE  QueryInv' /\ LapseInv'
<1> USE DEF QueryInv, LapseInv, Searching, Answering, Waiting
<1>1. /\ pc = "poll" /\ pc' \in {"poll", ret} /\ ret' = ret /\ ret \in Waits
      /\ UNCHANGED <<sent, astray, lapsed>> /\ e1000_ready /\ e1000_ready'
  BY TurnTyped DEF PollFrame, DescriptorDone, TypeOK, queries
<1>2. /\ pc' # "send"
      /\ Answering' <=> Answering
      /\ Searching' <=> Searching
  BY <1>1 DEF Waits
<1>3. /\ TxCount \in Nat /\ lapsed \in Nat /\ e1000_tx_count \in 0 .. TxCount
      /\ e1000_tx_count' \in 0 .. TxCount
  BY RingAssumption, TurnTyped DEF TypeOK
<1>4. QueryInv'
  BY <1>1, <1>2
<1>5. CASE Acked(desc[e1000_rx_idx].frame)
  <2>1. Acknowledge  BY <1>5 DEF PollFrame
  <2>2. e1000_tx_count' = IF e1000_tx_count = TxCount THEN e1000_tx_count ELSE e1000_tx_count + 1
    BY <1>1, <2>1 DEF Acknowledge, Transmit
  <2>3. expiring' => e1000_tx_count < TxCount
    BY <2>1 DEF Acknowledge, FirstLap
  <2> QED  BY <1>1, <1>2, <1>3, <1>4, <2>2, <2>3
<1>6. CASE ~Acked(desc[e1000_rx_idx].frame)
  <2>1. e1000_tx_count' = e1000_tx_count /\ ~expiring'
    BY <1>6 DEF PollFrame
  <2> QED  BY <1>1, <1>2, <1>3, <1>4, <2>1
<1> QED  BY <1>5, <1>6

(* A step that begins a wait transmits.                                    *)
LEMMA TransmitCounts ==
  ASSUME TypeOK, LapseInv, Transmit, UNCHANGED <<e1000_ready, lapsed>>, ~expiring'
  PROVE  LapseInv'
<1>1. /\ TxCount \in Nat /\ lapsed \in Nat /\ e1000_tx_count \in 0 .. TxCount
  BY RingAssumption DEF TypeOK
<1>2. CASE e1000_ready
  <2>1. e1000_tx_count' = IF e1000_tx_count = TxCount THEN e1000_tx_count ELSE e1000_tx_count + 1
    BY <1>2 DEF Transmit
  <2> QED  BY <1>1, <1>2, <2>1 DEF LapseInv
<1>3. CASE ~e1000_ready
  BY <1>3 DEF LapseInv
<1> QED  BY <1>2, <1>3

LEMMA CountStep ==
  ASSUME TypeOK, StartInv, AnswerInv, QueryInv, LapseInv, [Next]_vars
  PROVE  QueryInv' /\ LapseInv'
<1> USE DEF QueryInv, LapseInv, Searching, Answering, Waiting
<1>0. /\ TxCount \in Nat /\ TxCount >= 2 /\ lapsed \in Nat /\ e1000_tx_count \in 0 .. TxCount
      /\ sent \in Nat /\ astray \in Nat
  BY RingAssumption DEF TypeOK
<1>1. CASE PollFrame  BY <1>1, TurnCounts
<1>2. CASE PollEmpty
  <2>1. /\ pc = "poll" /\ pc' = ret /\ ret' = ret /\ ret \in Waits
        /\ UNCHANGED <<e1000_ready, e1000_tx_count, expiring, queries>>
    BY <1>2 DEF PollEmpty, TypeOK
  <2>2. /\ pc' # "send"
        /\ Answering' <=> Answering
        /\ Searching' <=> Searching
    BY <2>1 DEF Waits
  <2> QED  BY <2>1, <2>2 DEF queries
<1>3. CASE (\E f \in Arriving : FrameArrives(f)) \/ kernel_net_tick \/ UNCHANGED vars
  <2>1. UNCHANGED <<pc, ret, net_gateway_mac, e1000_ready, e1000_tx_count, expiring, sent,
                    astray, lapsed>>
    BY <1>3 DEF FrameArrives, kernel_net_tick, vars, flow, address, queries
  <2> QED  BY <2>1
<1>4. CASE TestRequest \/ StartWithoutCard \/ Started \/ GatewayFound \/ NoCommand
           \/ net_dns_resolve \/ net_ping_host
  <2>1. /\ pc \in {"top", "render", "gateway", "commands"}
        /\ pc' \in {"clear", "render", "commands", "top", "ensure"}
        /\ UNCHANGED <<e1000_ready, e1000_tx_count, expiring, sent, astray, lapsed>>
    BY <1>4 DEF TestRequest, StartWithoutCard, Started, GatewayFound, NoCommand,
           net_dns_resolve, net_ping_host, queries
  <2> QED  BY <2>1
<1>5. CASE ClearRequest
  <2>1. /\ pc = "clear" /\ pc' = "poll" /\ ret' = "render" /\ ~expiring'
        /\ UNCHANGED <<e1000_ready, e1000_tx_count, sent, astray, lapsed>>
    BY <1>5 DEF ClearRequest, Poll, queries
  <2> QED  BY <2>1
<1>6. CASE StartNetwork
  <2>1. /\ pc = "render" /\ pc' = "poll" /\ ret' = "gateway" /\ ~expiring'
        /\ ~e1000_ready /\ e1000_tx_count' = 2
        /\ UNCHANGED <<sent, astray, lapsed>>
    BY <1>6 DEF StartNetwork, StartInv, Poll, queries
  <2> QED  BY <1>0, <2>1
<1>7. CASE GatewayAskAgain
  <2>1. /\ pc = "gateway" /\ ((pc' = "poll" /\ ret' = "gateway") \/ pc' = "commands")
        /\ Transmit /\ UNCHANGED <<e1000_ready, sent, astray, lapsed>>
        /\ (expiring' => expiring)
    BY <1>7 DEF GatewayAskAgain, Poll, queries, TypeOK
  <2>2. ~Answering /\ ~Searching' /\ ~Answering' /\ pc' # "send"
    BY <2>1
  <2>3. e1000_ready => e1000_tx_count' >= e1000_tx_count
    BY <1>0, <2>1 DEF Transmit
  <2>4. e1000_tx_count' \in 0 .. TxCount
    BY <2>1, TransmitTyped
  <2> QED  BY <1>0, <2>1, <2>2, <2>3, <2>4
<1>8. CASE net_ensure_gateway
  <2>1. pc = "ensure" /\ UNCHANGED <<e1000_ready, net_gateway_mac, sent, astray, lapsed>>
    BY <1>8 DEF net_ensure_gateway, queries
  <2>2. CASE Known(net_gateway_mac)
    <3>1. pc' = "send" /\ UNCHANGED <<e1000_tx_count, expiring>>
      BY <1>8, <2>2 DEF net_ensure_gateway
    <3> QED  BY <2>1, <2>2, <3>1 DEF Known
  <2>3. CASE ~Known(net_gateway_mac)
    <3>1. pc' = "poll" /\ ret' = "ensured" /\ ~expiring' /\ Transmit
      BY <1>8, <2>3 DEF net_ensure_gateway, Poll
    <3>2. LapseInv'  BY <2>1, <3>1, TransmitCounts
    <3> QED  BY <2>1, <3>1, <3>2
  <2> QED  BY <2>2, <2>3
<1>9. CASE EnsureWait
  <2>1. pc = "ensured" /\ UNCHANGED <<e1000_ready, e1000_tx_count, net_gateway_mac, sent, astray>>
    BY <1>9 DEF EnsureWait, address
  <2>2. CASE Known(net_gateway_mac)
    <3>1. pc' = "send" /\ lapsed' = lapsed /\ expiring' = expiring
      BY <1>9, <2>2 DEF EnsureWait
    <3> QED  BY <2>1, <2>2, <3>1 DEF Known
  <2>3. CASE ~Known(net_gateway_mac) /\ expiring
    <3>1. pc' = "send" /\ lapsed' = lapsed + 1 /\ expiring' = expiring
      BY <1>9, <2>3 DEF EnsureWait
    <3>2. e1000_ready  BY <2>3
    <3> QED  BY <1>0, <2>1, <2>3, <3>1, <3>2
  <2>4. CASE ~Known(net_gateway_mac) /\ ~expiring
    <3>1. pc' = "poll" /\ ret' = "ensured" /\ lapsed' = lapsed /\ ~expiring'
      BY <1>9, <2>4 DEF EnsureWait, Poll
    <3> QED  BY <2>1, <3>1
  <2> QED  BY <2>2, <2>3, <2>4
<1>10. CASE SendQuery
  <2>1. /\ pc = "send" /\ pc' = "poll" /\ ret' \in {"dns", "ping"} /\ ~expiring'
        /\ Transmit /\ UNCHANGED <<e1000_ready, lapsed>>
    BY <1>10 DEF SendQuery, Poll, TypeOK
  <2>2. LapseInv'  BY <2>1, TransmitCounts
  <2>3. CASE Known(net_gateway_mac)
    <3>1. sent' = sent + 1 /\ astray' = astray
      BY <1>10, <2>3 DEF SendQuery
    <3> QED  BY <1>0, <2>1, <2>2, <3>1
  <2>4. CASE ~Known(net_gateway_mac)
    <3>1. sent' = sent /\ astray' = astray + 1
      BY <1>10, <2>4 DEF SendQuery
    <3> QED  BY <1>0, <2>1, <2>2, <2>4, <3>1
  <2> QED  BY <2>3, <2>4
<1>11. CASE AnswerWait
  <2>1. /\ pc \in {"dns", "ping"} /\ UNCHANGED <<e1000_ready, e1000_tx_count, sent, astray>>
        /\ ~Answered
    BY <1>11 DEF AnswerWait, Answered, AnswerInv
  <2>2. CASE expiring
    <3>1. pc' = "top" /\ lapsed' = lapsed + 1
      BY <1>11, <2>1, <2>2 DEF AnswerWait
    <3>2. e1000_ready  BY <2>2
    <3> QED  BY <1>0, <2>1, <2>2, <3>1, <3>2
  <2>3. CASE ~expiring
    <3>1. pc' = "poll" /\ ret' = pc /\ lapsed' = lapsed /\ ~expiring'
      BY <1>11, <2>1, <2>3 DEF AnswerWait, Poll
    <3> QED  BY <2>1, <3>1
  <2> QED  BY <2>2, <2>3
<1> QED
  BY <1>1, <1>2, <1>3, <1>4, <1>5, <1>6, <1>7, <1>8, <1>9, <1>10, <1>11
     DEF Next, MainLoop

QueryProofInv == TypeOK /\ StartInv /\ GatewayInv /\ AnswerInv /\ QueryInv /\ LapseInv

LEMMA QueryInductive ==
  /\ Init => QueryProofInv
  /\ QueryProofInv /\ [Next]_vars => QueryProofInv'
  /\ QueryProofInv => QueriesAccounted
<1>1. Init => QueryProofInv
  BY TypeInit DEF Init, QueryProofInv, StartInv, GatewayInv, AnswerInv, QueryInv, LapseInv,
     Known, NoMac, Asking, Searching, Answering, Waiting
<1>2. QueryProofInv /\ [Next]_vars => QueryProofInv'
  BY TypeStep, StartStep, GatewayStep, AnswerStep, CountStep DEF QueryProofInv
<1>3. ASSUME QueryProofInv
      PROVE  QueriesAccounted
  <2>1. TxCount \in Nat /\ TxCount >= 2 /\ lapsed \in Nat /\ e1000_tx_count \in 0 .. TxCount
    BY <1>3, RingAssumption DEF QueryProofInv, TypeOK
  <2> QED  BY <1>3, <2>1 DEF QueryProofInv, QueryInv, LapseInv, QueriesAccounted
<1> QED  BY <1>1, <1>2, <1>3

(* The gateway stays where it is once known, and a query leaves without it *)
(* only after a search for it that lapsed, whatever TCP segments nobody    *)
(* asked for are acknowledged from inside the waits.                       *)
THEOREM GatewayCorrect == Spec => GatewayTrusted
<1>1. QueryProofInv /\ QueryProofInv' /\ [Next]_vars
      => [/\ QueriesAccounted'
          /\ Known(net_gateway_mac) /\ e1000_ready
                => net_gateway_mac' = net_gateway_mac]_vars
  BY GatewayStep, QueryInductive, PTL DEF QueryProofInv
<1> QED  BY <1>1, QueryInductive, PTL DEF Spec, GatewayTrusted

(* No wait for a DNS answer or an echo reply ever sees its answer, and so  *)
(* the machine sends at most half as many queries as there are transmit    *)
(* descriptors and then waits for good, although net_dns_resolve and       *)
(* net_ping_host count the polls of their waits.                           *)
THEOREM QueriesUnanswered ==
  Spec => []((pc \in {"dns", "ping"} => ~Answered) /\ 2 * (sent + astray) <= TxCount)
<1> DEFINE Unanswered == (pc \in {"dns", "ping"} => ~Answered) /\ 2 * (sent + astray) <= TxCount
<1>1. ASSUME QueryProofInv
      PROVE  Unanswered
  <2>1. pc \in {"dns", "ping"} => ~Answered
    BY <1>1 DEF QueryProofInv, AnswerInv, Answered, Waiting
  <2>2. /\ TxCount \in Nat /\ TxCount >= 2 /\ lapsed \in Nat /\ sent \in Nat /\ astray \in Nat
        /\ sent + 2 * astray <= lapsed + 1 /\ 2 * lapsed <= TxCount - 2
    BY <1>1, RingAssumption, QueryInductive DEF QueryProofInv, TypeOK, QueriesAccounted
  <2> QED  BY <2>1, <2>2
<1> QED  BY <1>1, QueryInductive, PTL DEF Spec

(* A frame in the ring is one of those the network delivers.               *)
Received == desc \in [Slots -> [frame : Arriving, num : Nat] \union {NoFrame}]

LEMMA ReceivedStep ==
  ASSUME TypeOK, Received, [Next]_vars
  PROVE  Received'
<1>1. CASE \E f \in Arriving : FrameArrives(f)
  <2>1. PICK f \in Arriving : FrameArrives(f)  BY <1>1
  <2>2. [frame |-> f, num |-> arrived + 1] \in [frame : Arriving, num : Nat]
    BY DEF TypeOK
  <2> QED  BY <2>1, <2>2 DEF FrameArrives, Received
<1>2. CASE ~(\E f \in Arriving : FrameArrives(f))
  <2>1. UNCHANGED desc
    BY <1>2 DEF Next, MainLoop, vars, card, PollFrame, StartNetwork, TestRequest, ClearRequest,
           PollEmpty, StartWithoutCard, Started, GatewayFound, GatewayAskAgain, NoCommand,
           net_dns_resolve, net_ping_host, net_ensure_gateway, EnsureWait, SendQuery,
           AnswerWait, kernel_net_tick
  <2> QED  BY <2>1 DEF Received
<1> QED  BY <1>1, <1>2

(* The guest never has another address than its own: in a network whose    *)
(* answers to DHCP come from a port below 17 * 256 or from 18 * 256 on, as *)
(* the servers' port 67 is, no lease is taken, however many are offered.   *)
THEOREM LeaseNeverTaken ==
  ASSUME \A f \in Arriving : f.etype = "ip" /\ f.dport = 68 => f.first # 17
  PROVE  Spec => [](net_ip_addr \in {0, StaticIp})
<1> DEFINE Own == net_ip_addr \in {0, StaticIp}
<1> DEFINE Inv == TypeOK /\ Received /\ Own
<1>1. Init => Inv
  BY TypeInit DEF Init, Received
<1>2. Inv /\ [Next]_vars => Own'
  <2> SUFFICES ASSUME Inv, [Next]_vars  PROVE Own'
    OBVIOUS
  <2>1. CASE PollFrame
    <3>1. PICK f \in Arriving : f = desc[e1000_rx_idx].frame
      BY <2>1 DEF PollFrame, DescriptorDone, Done, Received, TypeOK
    <3>2. net_dispatch(f)  BY <2>1, <3>1 DEF PollFrame
    <3>3. f \in Frame  BY FrameAssumption
    <3>4. f.etype = "arp" \/ f.etype = "ip"  BY <3>3 DEF Frame, ArpFrame, IpFrame
    <3>5. f.etype = "ip" /\ f.dport = 68 => f.first # 17  OBVIOUS
    <3>6. net_ip_addr' = net_ip_addr
      BY <3>2, <3>4, <3>5 DEF net_dispatch, net_rx_arp, net_rx_ipv4
    <3> QED  BY <3>6
  <2>2. CASE StartNetwork  BY <2>2 DEF StartNetwork
  <2>3. CASE ~PollFrame /\ ~StartNetwork
    <3>1. UNCHANGED net_ip_addr
      BY <2>3 DEF Next, MainLoop, vars, address, FrameArrives, TestRequest, ClearRequest,
             PollEmpty, StartWithoutCard, Started, GatewayFound, GatewayAskAgain, NoCommand,
             net_dns_resolve, net_ping_host, net_ensure_gateway, EnsureWait, SendQuery,
             AnswerWait, kernel_net_tick
    <3> QED  BY <3>1
  <2> QED  BY <2>1, <2>2, <2>3
<1>3. Inv /\ [Next]_vars => Inv'
  BY <1>2, TypeStep, ReceivedStep
<1> QED  BY <1>1, <1>3, PTL DEF Spec
==============================================================================
