----------------------------- MODULE MCNetwork -------------------------------
(* Network on small instances: a receive ring of three descriptors and one *)
(* frame more, a transmit ring in whose first lap a wait can lapse.  The   *)
(* network delivers replies of the gateway (one whose address begins with  *)
(* a zero byte), a reply of another host whose checksum is even, DHCP      *)
(* offers, and TCP segments nobody asked for.                              *)
EXTENDS Network

MCGateway == 2
MCStaticIp == 15

Reply(host, mac, odd) ==
  [etype |-> "arp", odd |-> odd, oper |-> 2, spa |-> host, sha |-> mac]
Offer(first, odd) ==
  [etype |-> "ip", odd |-> odd, proto |-> 17, first |-> first, dport |-> 68,
   offer |-> 16, tcp |-> "other"]
Segment(tcp) ==
  [etype |-> "ip", odd |-> TRUE, proto |-> 6, first |-> 6, dport |-> 0, offer |-> 0,
   tcp |-> tcp]

(* The offer comes from a source port between 4352 and 4607.               *)
MCSomeArriving == {Reply(MCGateway, <<82, 1>>, TRUE), Reply(MCGateway, <<0, 3>>, TRUE),
                   Reply(3, <<82, 9>>, FALSE), Offer(17, TRUE), Segment("synack"), Segment("data")}
MCFewArriving == {Reply(MCGateway, <<82, 1>>, TRUE), Reply(3, <<82, 9>>, FALSE),
                  Offer(0, TRUE)}
==============================================================================
