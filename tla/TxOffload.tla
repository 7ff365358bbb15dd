----------------------------- MODULE TxOffload ------------------------------
(***************************************************************************)
(* The transmit offloads a packet asks for (src/ext/rte_mbuf.c): the flags *)
(* of ol_flags, each the set of its bits, the lengths of the headers, and  *)
(* the check drivers make of them before a packet is sent.                 *)
(***************************************************************************)
EXTENDS Integers, FiniteSets

\* the flags of the transmit side by name; a value of a field of several bits
\* (tunnel type in 45:48, layer 4 checksum in 52:53) is the set of its one bits
PKT_TX ==
    [UDP_SEG |-> {42}, SEC_OFFLOAD |-> {43}, MACSEC |-> {44},
     TUNNEL_VXLAN |-> {45}, TUNNEL_GRE |-> {46}, TUNNEL_IPIP |-> {45, 46},
     TUNNEL_GENEVE |-> {47}, TUNNEL_MPLSINUDP |-> {45, 47}, TUNNEL_MASK |-> 45 .. 48,
     QINQ |-> {49}, TCP_SEG |-> {50}, IEEE1588_TMST |-> {51},
     L4_NO_CKSUM |-> {}, TCP_CKSUM |-> {52}, SCTP_CKSUM |-> {53}, UDP_CKSUM |-> {52, 53},
     L4_MASK |-> {52, 53}, IP_CKSUM |-> {54}, IPV4 |-> {55}, IPV6 |-> {56}, VLAN |-> {57},
     OUTER_IP_CKSUM |-> {58}, OUTER_IPV4 |-> {59}, OUTER_IPV6 |-> {60}]

\* UDP_SEG is not among them
PKT_TX_OFFLOAD_MASK ==
    UNION {PKT_TX[f] : f \in {"IP_CKSUM", "L4_MASK", "OUTER_IP_CKSUM", "TCP_SEG", "IEEE1588_TMST",
                              "QINQ", "VLAN", "TUNNEL_MASK", "MACSEC", "SEC_OFFLOAD"}}

\* ol_flags & flag of C: some bit of the flag is set
Has(m, flag) == m.ol_flags \cap PKT_TX[flag] # {}

MutInnerL3Offset(m) == m.l2_len

inner_l3_offset(m) ==
    m.l2_len + IF Has(m, "OUTER_IP_CKSUM") THEN m.outer_l2_len + m.outer_l3_len ELSE 0

\* the reasons to refuse a packet whose headers are in its first segment
Contradicts(m) ==
    \/ Has(m, "IP_CKSUM") /\ Has(m, "IPV6")
    \/ (Has(m, "L4_MASK") \/ Has(m, "TCP_SEG")) /\ ~Has(m, "IPV4") /\ ~Has(m, "IPV6")
    \/ Has(m, "TCP_SEG") /\ (m.tso_segsz = 0 \/ (Has(m, "IPV4") /\ ~Has(m, "IP_CKSUM")))
    \/ Has(m, "OUTER_IP_CKSUM") /\ ~Has(m, "OUTER_IPV4")

rte_validate_tx_offload(m) ==
    IF m.ol_flags \cap PKT_TX_OFFLOAD_MASK = {} THEN "0"
    ELSE IF m.data_len < inner_l3_offset(m) + m.l3_len + m.l4_len THEN "-ENOTSUP"
    ELSE IF Contradicts(m) THEN "-EINVAL" ELSE "0"
=============================================================================
