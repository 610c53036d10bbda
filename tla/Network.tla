------------------------------- MODULE Network -------------------------------
(***************************************************************************)
(* Receiving: the descriptor ring of the e1000, the poll that empties it,  *)
(* and the four loops of the program that wait in that poll - the timer's  *)
(* request in the main loop, the search for the gateway when the network   *)
(* starts, and the waits for a DNS answer and for an echo reply.           *)
(*                                                                         *)
(* The card writes frames by itself while the program runs; the timer      *)
(* interrupt only leaves a request.  Everything else is the main loop, one *)
(* step per frame received and per test of a waiting loop.                 *)
(*                                                                         *)
(* None of the counted waits counts down: net_poll and what it calls leave *)
(* their own value in ecx, 16 when no frame was there and -1 after most    *)
(* frames, and the caller decrements that.  What a transmission leaves     *)
(* there is the number of looks it had left to see its completion, any     *)
(* number on the first lap of the transmit ring (FirstLap).  So the loop   *)
(* of internet_init, which transmits between poll and decrement, may be    *)
(* left by it; and a TCP frame that net_rx_tcp acknowledges from inside    *)
(* the poll may end that poll, or make the caller's wait expire.           *)
(*                                                                         *)
(* Without an answer from the DNS the guest opens no connection.  What     *)
(* net_rx_tcp files for one (net_tcp_seq, net_tcp_ack, the payload in the  *)
(* buffers of the page and of the socket) is left out.                     *)
(***************************************************************************)
EXTENDS Integers, FiniteSets

CONSTANTS
  NET_DESC_COUNT, \* descriptors of the receive ring (8 in the source)
  TxCount,        \* descriptors of the transmit ring (NET_DESC_COUNT as well)
  Arriving,       \* the frames the network may deliver
  Gateway,        \* NET_GATEWAY
  StaticIp,       \* NET_IP_ADDR
  MaxFrames,      \* bound: frames delivered in a run
  NoFrame         \* an unwritten descriptor

N == NET_DESC_COUNT
Slots == 0 .. N - 1
After(s) == (s + 1) % N

(* A MAC address: its first byte, which is all the driver tests, and the   *)
(* rest of it.                                                             *)
Mac == (0..255) \X Nat
NoMac == <<0, 0>>
Known(mac) == mac[1] # 0

(* What the driver looks at in a frame: of an ARP packet the opcode and    *)
(* the sender, of an IPv4 packet the first byte of its payload (the high   *)
(* byte of the source port, or the ICMP type), the destination port and    *)
(* the address a DHCP answer offers; nobody looks at the protocol.  tcp is *)
(* what net_rx_tcp makes of the flags and the length: a SYN+ACK, a PSH     *)
(* with data, or neither.  odd is bit 0 of the packet checksum the card    *)
(* computes.                                                               *)
ArpFrame == [etype : {"arp"}, odd : BOOLEAN, oper : {1, 2}, spa : Nat, sha : Mac]
IpFrame  == [etype : {"ip"}, odd : BOOLEAN, proto : {1, 6, 17},
             first : 0..255, dport : Nat, offer : Nat,
             tcp : {"synack", "data", "other"}]
Frame == ArpFrame \union IpFrame

ASSUME RingAssumption == N \in Nat /\ N >= 2 /\ TxCount \in Nat /\ TxCount >= 2
ASSUME FrameAssumption == Arriving \subseteq Frame /\ NoFrame \notin [frame : Frame, num : Nat]
ASSUME AddressAssumption == Gateway \in Nat \ {0} /\ StaticIp \in Nat \ {0}
ASSUME BoundAssumption == MaxFrames \in Nat

VARIABLES
  e1000_ready, net_started,
  desc,           \* receive descriptors: what the card wrote, with its number
  head, tail,     \* RDH and RDT
  e1000_rx_idx,
  e1000_tx_count, \* transmissions, up to one lap of the transmit ring
  net_gateway_mac, net_arp_pending, net_ip_addr, net_dns_pending, icmp_replies,
  net_tcp_state,  \* 0 or 2: 1 is set by a connection the guest opens
  net_irq_pending,
  pc, ret,        \* where the main loop is; where net_poll returns to
  expiring,       \* ecx is 1: the next decrement of a caller ends its wait
  asked,          \* the wait that follows the query being sent
  arrived,        \* history: frames delivered by the card
  handled, last,  \* history: dispatches (up to N + 1) and the frame of the last
  fresh,          \* history: descriptors written and not dispatched since
  owed,           \* history: the timer asked and no poll has begun since
  sent, astray,   \* history: queries sent to a known gateway and to none
  lapsed          \* history: waits ended by their count

card    == <<desc, head, arrived>>
address == <<net_gateway_mac, net_arp_pending, net_ip_addr>>
answers == <<net_dns_pending, icmp_replies, net_tcp_state>>
history == <<handled, last>>
flow    == <<pc, ret, expiring, asked>>
queries == <<sent, astray, lapsed>>
vars == <<e1000_ready, net_started, card, tail, e1000_rx_idx, e1000_tx_count,
          address, answers, net_irq_pending, flow, history, fresh, owed, queries>>

Init ==
  /\ e1000_ready = FALSE /\ net_started = FALSE
  /\ desc = [s \in Slots |-> NoFrame] /\ head = 0 /\ tail = 0
  /\ e1000_rx_idx = 0 /\ e1000_tx_count = 0
  /\ net_gateway_mac = NoMac /\ net_arp_pending = 0 /\ net_ip_addr = 0
  /\ net_dns_pending = FALSE /\ icmp_replies = 0 /\ net_tcp_state = 0
  /\ net_irq_pending = FALSE
  /\ pc = "top" /\ ret = "render" /\ expiring = FALSE /\ asked = "dns"
  /\ arrived = 0 /\ handled = 0 /\ last = 0 /\ fresh = {} /\ owed = FALSE
  /\ sent = 0 /\ astray = 0 /\ lapsed = 0

------------------------------------------------------------------------------
(* The card and the timer.                                                 *)

(* The card fills the descriptor at its head unless the head has reached   *)
(* the tail.                                                               *)
FrameArrives(f) ==
  /\ e1000_ready /\ arrived < MaxFrames /\ head # tail
  /\ desc' = [desc EXCEPT ![head] = [frame |-> f, num |-> arrived + 1]]
  /\ head' = After(head)
  /\ arrived' = arrived + 1
  /\ fresh' = fresh \union {head}
  /\ UNCHANGED <<e1000_ready, net_started, tail, e1000_rx_idx, e1000_tx_count, address,
                 answers, net_irq_pending, flow, history, owed, queries>>

(* IRQ 0.                                                                  *)
kernel_net_tick ==
  /\ net_irq_pending' = TRUE /\ owed' = TRUE
  /\ UNCHANGED <<e1000_ready, net_started, card, tail, e1000_rx_idx, e1000_tx_count,
                 address, answers, flow, history, fresh, queries>>

------------------------------------------------------------------------------
(* What a frame does.                                                      *)

(* A reply of the host that is being asked for is believed, once.          *)
net_rx_arp(f) ==
  /\ IF f.oper = 2 /\ net_arp_pending # 0 /\ f.spa = net_arp_pending
     THEN net_gateway_mac' = f.sha /\ net_arp_pending' = 0
     ELSE UNCHANGED <<net_gateway_mac, net_arp_pending>>
  /\ UNCHANGED <<net_ip_addr, answers>>

(* A SYN+ACK is believed whether or not a connection was asked for; data   *)
(* is taken only after one.  Both are acknowledged, on the spot.           *)
Acked(f) == /\ f.etype = "ip" /\ f.first = 6
            /\ \/ f.tcp = "synack"
               \/ f.tcp = "data" /\ net_tcp_state = 2

net_rx_tcp(f) ==
  net_tcp_state' = IF f.tcp = "synack" THEN 2 ELSE net_tcp_state

(* The payload's first byte decides, in place of the protocol: 17 is taken *)
(* for UDP, where a DHCP answer is adopted and a DNS answer would need the *)
(* source port to be 1024 besides; 1 is taken for ICMP, where an echo      *)
(* reply would need the same byte to be 0; 6 is taken for TCP.             *)
net_rx_ipv4(f) ==
  /\ IF f.first = 17 /\ f.dport = 68 /\ f.offer # 0
     THEN net_ip_addr' = f.offer ELSE UNCHANGED net_ip_addr
  /\ IF f.first = 6 THEN net_rx_tcp(f) ELSE UNCHANGED net_tcp_state
  /\ UNCHANGED <<net_gateway_mac, net_arp_pending, net_dns_pending, icmp_replies>>

net_dispatch(f) == IF f.etype = "arp" THEN net_rx_arp(f) ELSE net_rx_ipv4(f)

------------------------------------------------------------------------------
(* Sending.                                                                *)

(* e1000_send, for as far as a transmission can be told from another: the  *)
(* first lap of the ring, whose descriptors have not been completed before.*)
Transmit ==
  e1000_tx_count' = IF ~e1000_ready \/ e1000_tx_count = TxCount THEN e1000_tx_count
                    ELSE e1000_tx_count + 1

(* A descriptor of the first lap may be completed at any of the 100000     *)
(* looks, the last of which leaves 1 in ecx; later ones look completed at  *)
(* once.                                                                   *)
FirstLap == e1000_tx_count < TxCount

------------------------------------------------------------------------------
(* net_poll.                                                               *)

(* The byte tested, at offset 10 of the descriptor, is the low byte of the *)
(* packet checksum (the status with its DD bit is at 12): a frame is found *)
(* when its checksum is odd, and an even one holds up all behind it.       *)
Done(s) == desc[s] # NoFrame /\ desc[s].frame.odd
DescriptorDone == e1000_ready /\ Done(e1000_rx_idx)

(* A slip: the index is not advanced.                                      *)
Release_stuck == tail' = e1000_rx_idx /\ UNCHANGED e1000_rx_idx

(* The descriptor goes back to the card.  The bytes cleared after the copy *)
(* are those of the frame, not of the descriptor: it goes on looking done. *)
Release ==
  /\ tail' = e1000_rx_idx
  /\ e1000_rx_idx' = After(e1000_rx_idx)

(* What is left in ecx by an acknowledgement is decremented by the turn:   *)
(* 1 ends the poll, and 2 ends the caller's wait unless another frame is   *)
(* found first.                                                            *)
Acknowledge ==
  /\ Transmit
  /\ \/ UNCHANGED pc /\ expiring' = FALSE
     \/ FirstLap /\ UNCHANGED pc /\ expiring' = TRUE
     \/ FirstLap /\ pc' = ret /\ expiring' = FALSE

(* One turn of net_poll that finds a frame.  The turn count of 16 is lost  *)
(* in the copy.                                                            *)
PollFrame ==
  /\ pc = "poll" /\ DescriptorDone
  /\ net_dispatch(desc[e1000_rx_idx].frame)
  /\ IF Acked(desc[e1000_rx_idx].frame) THEN Acknowledge
     ELSE UNCHANGED <<pc, e1000_tx_count>> /\ expiring' = FALSE
  /\ Release
  /\ last' = desc[e1000_rx_idx].num
  /\ handled' = IF handled <= N THEN handled + 1 ELSE handled
  /\ fresh' = fresh \ {e1000_rx_idx}
  /\ UNCHANGED <<e1000_ready, net_started, card, net_irq_pending, ret, asked, owed,
                 queries>>

(* A slip: the poll clears the request again when it ends.                 *)
PollEmpty_clears ==
  /\ pc = "poll" /\ ~DescriptorDone
  /\ pc' = ret /\ net_irq_pending' = FALSE
  /\ UNCHANGED <<e1000_ready, net_started, card, tail, e1000_rx_idx, e1000_tx_count,
                 address, answers, ret, expiring, asked, history, fresh, owed, queries>>

(* A slip: a poll that finds nothing hands a descriptor back as well.      *)
PollEmpty_releases ==
  /\ pc = "poll" /\ ~DescriptorDone
  /\ pc' = ret /\ tail' = IF e1000_ready THEN After(tail) ELSE tail
  /\ UNCHANGED <<e1000_ready, net_started, card, e1000_rx_idx, e1000_tx_count,
                 address, answers, net_irq_pending, ret, expiring, asked, history, fresh, owed,
                 queries>>

PollEmpty ==
  /\ pc = "poll" /\ ~DescriptorDone
  /\ pc' = ret
  /\ UNCHANGED <<e1000_ready, net_started, card, tail, e1000_rx_idx, e1000_tx_count,
                 address, answers, net_irq_pending, ret, expiring, asked, history, fresh, owed,
                 queries>>

Poll(back) == pc' = "poll" /\ ret' = back /\ expiring' = FALSE

------------------------------------------------------------------------------
(* The main loop.                                                          *)

TestRequest ==
  /\ pc = "top"
  /\ pc' = IF net_irq_pending THEN "clear" ELSE "render"
  /\ UNCHANGED <<e1000_ready, net_started, card, tail, e1000_rx_idx, e1000_tx_count,
                 address, answers, net_irq_pending, ret, expiring, asked, history, fresh, owed,
                 queries>>

(* The request is cleared before the poll it asks for.                     *)
ClearRequest ==
  /\ pc = "clear"
  /\ net_irq_pending' = FALSE /\ owed' = FALSE
  /\ Poll("render")
  /\ UNCHANGED <<e1000_ready, net_started, card, tail, e1000_rx_idx, e1000_tx_count,
                 address, answers, asked, history, fresh, queries>>

(* init_network, the first time the end of the iteration is reached: with  *)
(* a card the rings are set up, a DHCP discovery and an ARP request go out *)
(* and the search for the gateway begins.                                  *)
StartNetwork ==
  /\ pc = "render" /\ ~net_started
  /\ e1000_ready' = TRUE
  /\ tail' = N - 1
  /\ net_gateway_mac' = NoMac /\ net_arp_pending' = Gateway /\ net_ip_addr' = StaticIp
  /\ net_dns_pending' = FALSE /\ net_tcp_state' = 0
  /\ e1000_tx_count' = 2
  /\ Poll("gateway")
  /\ UNCHANGED <<net_started, card, e1000_rx_idx, icmp_replies, net_irq_pending, asked,
                 history, fresh, owed, queries>>

StartWithoutCard ==
  /\ pc = "render" /\ ~net_started
  /\ net_started' = TRUE /\ pc' = "commands"
  /\ UNCHANGED <<e1000_ready, card, tail, e1000_rx_idx, e1000_tx_count, address, answers,
                 net_irq_pending, ret, expiring, asked, history, fresh, owed, queries>>

Started ==
  /\ pc = "render" /\ net_started
  /\ pc' = "commands"
  /\ UNCHANGED <<e1000_ready, net_started, card, tail, e1000_rx_idx, e1000_tx_count,
                 address, answers, net_irq_pending, ret, expiring, asked, history, fresh, owed,
                 queries>>

(* A slip: the branch swapped, the wait goes on once the gateway is known. *)
GatewayFound_jz ==
  /\ pc = "gateway" /\ Known(net_gateway_mac)
  /\ Poll("gateway")
  /\ UNCHANGED <<e1000_ready, net_started, card, tail, e1000_rx_idx, e1000_tx_count,
                 address, answers, net_irq_pending, asked, history, fresh, owed, queries>>

(* .wait_gw: until the gateway is known, or the request just sent was      *)
(* completed at the last look.                                             *)
GatewayFound ==
  /\ pc = "gateway" /\ Known(net_gateway_mac)
  /\ net_started' = TRUE /\ pc' = "commands"
  /\ UNCHANGED <<e1000_ready, card, tail, e1000_rx_idx, e1000_tx_count, address, answers,
                 net_irq_pending, ret, expiring, asked, history, fresh, owed, queries>>

GatewayAskAgain ==
  /\ pc = "gateway" /\ ~Known(net_gateway_mac)
  /\ Transmit
  /\ \/ Poll("gateway") /\ UNCHANGED net_started
     \/ FirstLap /\ net_started' = TRUE /\ pc' = "commands" /\ UNCHANGED <<ret, expiring>>
  /\ UNCHANGED <<e1000_ready, card, tail, e1000_rx_idx, address, answers,
                 net_irq_pending, asked, history, fresh, owed, queries>>

(* The commands that use the network.  The terminal does not ask whether   *)
(* there is one.                                                           *)
NoCommand ==
  /\ pc = "commands" /\ pc' = "top"
  /\ UNCHANGED <<e1000_ready, net_started, card, tail, e1000_rx_idx, e1000_tx_count,
                 address, answers, net_irq_pending, ret, expiring, asked, history, fresh, owed,
                 queries>>

net_dns_resolve ==
  /\ pc = "commands"
  /\ net_dns_pending' = TRUE /\ asked' = "dns" /\ pc' = "ensure"
  /\ UNCHANGED <<e1000_ready, net_started, card, tail, e1000_rx_idx, e1000_tx_count,
                 address, icmp_replies, net_tcp_state, net_irq_pending, ret, expiring, history,
                 fresh, owed, queries>>

(* The letter g reaches the line in the command line edition only, whose   *)
(* loop is this one but for a first look at the keys before the start of   *)
(* the network, left out here.                                             *)
net_ping_host ==
  /\ pc = "commands"
  /\ icmp_replies' = 0 /\ asked' = "ping" /\ pc' = "ensure"
  /\ UNCHANGED <<e1000_ready, net_started, card, tail, e1000_rx_idx, e1000_tx_count,
                 address, net_dns_pending, net_tcp_state, net_irq_pending, ret, expiring,
                 history, fresh, owed, queries>>

(* net_ensure_gateway: ask once, then wait.                                *)
net_ensure_gateway ==
  /\ pc = "ensure"
  /\ IF Known(net_gateway_mac)
     THEN pc' = "send" /\ UNCHANGED <<net_arp_pending, e1000_tx_count, ret, expiring>>
     ELSE net_arp_pending' = Gateway /\ Transmit /\ Poll("ensured")
  /\ UNCHANGED <<e1000_ready, net_started, card, tail, e1000_rx_idx, net_gateway_mac,
                 net_ip_addr, answers, net_irq_pending, asked, history, fresh, owed,
                 queries>>

(* A slip: no second look after the one poll.                              *)
EnsureWait_once ==
  /\ pc = "ensured" /\ pc' = "send" /\ UNCHANGED <<ret, expiring>>
  /\ UNCHANGED <<e1000_ready, net_started, card, tail, e1000_rx_idx, e1000_tx_count,
                 address, answers, net_irq_pending, asked, history, fresh, owed, queries>>

(* .wait of net_ensure_gateway: until the gateway is known or the count    *)
(* has run out; its caller does not ask which.                             *)
EnsureWait ==
  /\ pc = "ensured"
  /\ IF Known(net_gateway_mac) \/ expiring
     THEN pc' = "send" /\ UNCHANGED <<ret, expiring>> ELSE Poll("ensured")
  /\ lapsed' = IF ~Known(net_gateway_mac) /\ expiring THEN lapsed + 1 ELSE lapsed
  /\ UNCHANGED <<e1000_ready, net_started, card, tail, e1000_rx_idx, e1000_tx_count,
                 address, answers, net_irq_pending, asked, history, fresh, owed, sent,
                 astray>>

(* The query leaves for whatever net_gateway_mac holds, and the wait for   *)
(* its answer begins.                                                      *)
SendQuery ==
  /\ pc = "send"
  /\ IF Known(net_gateway_mac) THEN sent' = sent + 1 /\ UNCHANGED astray
     ELSE astray' = astray + 1 /\ UNCHANGED sent
  /\ Transmit
  /\ Poll(asked)
  /\ UNCHANGED <<e1000_ready, net_started, card, tail, e1000_rx_idx, address, answers,
                 net_irq_pending, asked, history, fresh, owed, lapsed>>

Answered == IF pc = "dns" THEN ~net_dns_pending ELSE icmp_replies # 0

AnswerWait ==
  /\ pc \in {"dns", "ping"}
  /\ IF Answered \/ expiring THEN pc' = "top" /\ UNCHANGED <<ret, expiring>> ELSE Poll(pc)
  /\ lapsed' = IF ~Answered /\ expiring THEN lapsed + 1 ELSE lapsed
  /\ UNCHANGED <<e1000_ready, net_started, card, tail, e1000_rx_idx, e1000_tx_count,
                 address, answers, net_irq_pending, asked, history, fresh, owed, sent,
                 astray>>

------------------------------------------------------------------------------
MainLoop ==
  \/ TestRequest \/ ClearRequest \/ PollFrame \/ PollEmpty
  \/ StartNetwork \/ StartWithoutCard \/ Started \/ GatewayFound \/ GatewayAskAgain
  \/ NoCommand \/ net_dns_resolve \/ net_ping_host
  \/ net_ensure_gateway \/ EnsureWait \/ SendQuery \/ AnswerWait

Next == MainLoop \/ kernel_net_tick \/ \E f \in Arriving : FrameArrives(f)

Spec == Init /\ [][Next]_vars

(* The processor keeps running the main loop and the timer keeps ticking.  *)
(* Nothing is assumed of the network.                                      *)
FairSpec == Spec /\ WF_vars(MainLoop) /\ WF_vars(kernel_net_tick)

------------------------------------------------------------------------------
(* Properties.                                                             *)

Pcs == {"top", "clear", "poll", "render", "gateway", "commands", "ensure", "ensured",
        "send", "dns", "ping"}
Waits == {"render", "gateway", "ensured", "dns", "ping"}   \* where net_poll returns to
Descriptor == [frame : Frame, num : Nat] \union {NoFrame}

(* Every variable has its type: the ring registers stay inside the ring.   *)
TypeOK ==
  /\ e1000_ready \in BOOLEAN /\ net_started \in BOOLEAN
  /\ desc \in [Slots -> Descriptor]
  /\ head \in Slots /\ tail \in Slots /\ e1000_rx_idx \in Slots
  /\ e1000_tx_count \in 0 .. TxCount
  /\ net_gateway_mac \in Mac /\ net_arp_pending \in Nat /\ net_ip_addr \in Nat
  /\ net_dns_pending \in BOOLEAN /\ icmp_replies \in Nat /\ net_tcp_state \in {0, 2}
  /\ net_irq_pending \in BOOLEAN
  /\ pc \in Pcs /\ ret \in Waits /\ expiring \in BOOLEAN /\ asked \in {"dns", "ping"}
  /\ arrived \in Nat /\ handled \in 0 .. N + 1 /\ last \in Nat
  /\ fresh \subseteq Slots /\ owed \in BOOLEAN
  /\ sent \in Nat /\ astray \in Nat /\ lapsed \in Nat

(* The card never overwrites a frame the driver has not dispatched, even   *)
(* when the driver, for which every descriptor of an older lap still looks *)
(* done, has overtaken the card: the tail register always holds it off.    *)
NoFrameOverwritten ==
  [][head' # head => head \notin fresh]_vars

(* On the first lap of the ring the driver dispatches the frames in the    *)
(* order they arrived in, none twice and none left out.                    *)
HandledInOrder == handled <= N => last = handled

(* A request of the timer is not lost between the test, the clearing and   *)
(* the poll: until a poll has begun after it, it is still on record.       *)
RequestKept == owed => net_irq_pending

(* Once known, the gateway's address never changes, whatever replies come  *)
(* later, however often stale descriptors are dispatched again.            *)
GatewayStable ==
  [][Known(net_gateway_mac) /\ e1000_ready => net_gateway_mac' = net_gateway_mac]_vars

(* A query is followed by another only when its wait has lapsed, and one   *)
(* that is sent to nobody follows a lapsed search for the gateway besides; *)
(* and the waits that lapse are fewer than half the transmit descriptors.  *)
QueriesAccounted == sent + 2 * astray <= lapsed + 1 /\ 2 * lapsed <= TxCount - 2

(* The address of the gateway can be relied on: no step moves it once it   *)
(* is known, and none sends a query without it but after a wait that       *)
(* lapsed in a way the first lap of the transmit ring alone allows.        *)
GatewayTrusted ==
  [][/\ QueriesAccounted'
     /\ Known(net_gateway_mac) /\ e1000_ready => net_gateway_mac' = net_gateway_mac]_vars

(* Every frame the card delivers is dispatched, whatever the main loop is  *)
(* doing or waiting for, unless a frame of even checksum holds it up.      *)
HeldUp == \E s \in fresh : ~Done(s)
EveryFrameDispatched == \A s \in Slots : s \in fresh ~> (s \notin fresh \/ HeldUp)

(* The start of the network ends once the gateway is known, unless the     *)
(* card has delivered a full lap of frames by then, which net_poll never   *)
(* finishes.                                                               *)
StartEnds == (~net_started /\ Known(net_gateway_mac)) ~> (net_started \/ arrived >= N)

(* What docs/NETWORK.md says of dhcp.asm: a lease that is offered is       *)
(* taken.                                                                  *)
LeaseTaken ==
  [][\A s \in Slots :
       LET f == desc[s].frame
       IN  s \in fresh \ fresh' /\ f.etype = "ip" /\ f.proto = 17 /\ f.dport = 68
           => net_ip_addr' = f.offer]_vars
==============================================================================
