--------------------------- MODULE MCLoadBalancer ---------------------------
(* Two workers, two ports, the first with two queues, and a third that     *)
(* does not transmit; addresses of two high and two low bits.  TCP goes to *)
(* the first queue.                                                        *)
EXTENDS LoadBalancer

MCPackets == << [lb |-> 0, ip |-> 1, port |-> 0, type |-> "IPV4"],
                [lb |-> 1, ip |-> 4, port |-> 0, type |-> "NONFRAG_IPV4_TCP"],
                [lb |-> 2, ip |-> 9, port |-> 0, type |-> "NONFRAG_IPV4_TCP"],
                [lb |-> 2, ip |-> 5, port |-> 0, type |-> "NONFRAG_IPV4_TCP"],
                [lb |-> 0, ip |-> 5, port |-> 0, type |-> "NONFRAG_IPV4_TCP"],
                [lb |-> 2, ip |-> 1, port |-> 0, type |-> "NONFRAG_IPV4_TCP"] >>

Rule(ip, depth, if_out) == [ip |-> ip, depth |-> depth, if_out |-> if_out]

MCRules == {Rule(0, 1, 1), Rule(0, 1, 0), Rule(4, 2, 0), Rule(5, 4, 1), Rule(12, 3, 1), Rule(15, 4, 0),
            Rule(8, 2, 2), Rule(2, 3, 0)}

MCRunRules == { <<Rule(0, 1, 1), Rule(4, 2, 0), Rule(5, 4, 1)>>, <<Rule(0, 1, 1), Rule(8, 2, 2)>> }

\* in the order of --tx
MCTxPorts == <<1, 0>>

MCQueues == << <<0, 0>>, <<0, 1>> >>
=============================================================================
