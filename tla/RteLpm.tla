------------------------------- MODULE RteLpm -------------------------------
(***************************************************************************)
(* The lookups of src/ext/rte_lpm.c.  An IP has IpHigh bits that index     *)
(* tbl24 and IpLow bits that index a group of tbl8 (24 and 8 in the code), *)
(* and an entry is a word of HopBits bits of next hop (24), the flags      *)
(* valid and valid_group, and the depth of its rule.                       *)
(***************************************************************************)
EXTENDS Integers, Sequences, FiniteSets

CONSTANTS IpHigh, IpLow, HopBits

\* a next hop has room for the number of a tbl8 group
ASSUME LpmAssumption == IpHigh \in Nat /\ IpLow \in Nat /\ HopBits \in Nat /\ IpHigh <= HopBits

\* 1 << k
pow2[k \in Nat] == IF k = 0 THEN 1 ELSE 2 * pow2[k - 1]

IpBits == IpHigh + IpLow

Ips == 0 .. pow2[IpBits] - 1

RTE_LPM_TBL24_NUM_ENTRIES == pow2[IpHigh]

RTE_LPM_TBL8_GROUP_NUM_ENTRIES == pow2[IpLow]

\* struct rte_lpm_tbl_entry as the word the lookups read
Entry(next_hop, valid, valid_group, depth) ==
    next_hop + pow2[HopBits] * (valid + 2 * valid_group + 4 * depth)

NextHop(entry) == entry % pow2[HopBits]

RTE_LPM_VALID_EXT_ENTRY(entry) == (entry \div pow2[HopBits]) % 4 = 3

RTE_LPM_LOOKUP_SUCCESS(entry) == (entry \div pow2[HopBits]) % 2 = 1

----------------------------------------------------------------------------
(* The table rte_lpm_add builds from the rules, added in this order.  The  *)
(* library is not part of the repository: this is what the comments on     *)
(* struct rte_lpm_tbl_entry say of the two tables.                         *)

Covers(rule, ip) == rule.ip \div pow2[IpBits - rule.depth] = ip \div pow2[IpBits - rule.depth]

Match(rules, ip, depths) == {i \in DOMAIN rules : Covers(rules[i], ip) /\ rules[i].depth \in depths}

\* the rule that decides ip among those of the given depths: the deepest, and
\* of two with the same prefix the one added last
Best(rules, ip, depths) ==
    LET match == Match(rules, ip, depths)
    IN  IF match = {} THEN 0
        ELSE CHOOSE i \in match : \A j \in match : \/ rules[j].depth < rules[i].depth
                                                   \/ rules[j].depth = rules[i].depth /\ j <= i

RuleEntry(rules, best, valid_group) ==
    IF best = 0 THEN Entry(0, 0, valid_group, 0)
                ELSE Entry(rules[best].if_out, 1, valid_group, rules[best].depth)

\* tbl24 entries with a rule longer than IpHigh below them
Extended(rules) ==
    {rules[i].ip \div pow2[IpLow] : i \in {j \in DOMAIN rules : rules[j].depth > IpHigh}}

GroupIndex(rules, e) == Cardinality({f \in Extended(rules) : f < e})

rte_lpm(rules) ==
    [tbl24 |-> [e \in 0 .. RTE_LPM_TBL24_NUM_ENTRIES - 1 |->
                  IF e \in Extended(rules) THEN Entry(GroupIndex(rules, e), 1, 1, 0)
                  ELSE RuleEntry(rules, Best(rules, e * pow2[IpLow], 0 .. IpHigh), 0)],
     tbl8 |-> [x \in 0 .. Cardinality(Extended(rules)) * RTE_LPM_TBL8_GROUP_NUM_ENTRIES - 1 |->
                 LET g == x \div RTE_LPM_TBL8_GROUP_NUM_ENTRIES
                     e == CHOOSE f \in Extended(rules) : GroupIndex(rules, f) = g
                 IN  RuleEntry(rules, Best(rules, e * pow2[IpLow] + (x % pow2[IpLow]), 0 .. IpBits), 1)]]

----------------------------------------------------------------------------

MutTblEntry(lpm, ip) ==
    LET tbl24_entry == lpm.tbl24[ip \div pow2[IpLow]]
    IN  IF RTE_LPM_VALID_EXT_ENTRY(tbl24_entry)
        THEN lpm.tbl8[(ip % pow2[IpLow]) + NextHop(tbl24_entry)]
        ELSE tbl24_entry

\* the tbl24 entry, or the tbl8 entry it points to
TblEntry(lpm, ip) ==
    LET tbl24_entry == lpm.tbl24[ip \div pow2[IpLow]]
    IN  IF RTE_LPM_VALID_EXT_ENTRY(tbl24_entry)
        THEN lpm.tbl8[(ip % pow2[IpLow]) + NextHop(tbl24_entry) * RTE_LPM_TBL8_GROUP_NUM_ENTRIES]
        ELSE tbl24_entry

\* next_hop is written on a miss too
rte_lpm_lookup(lpm, ip) ==
    LET entry == TblEntry(lpm, ip)
    IN  [ret |-> IF RTE_LPM_LOOKUP_SUCCESS(entry) THEN "0" ELSE "-ENOENT", next_hop |-> NextHop(entry)]

\* whole entries, flags and depth included
rte_lpm_lookup_bulk_func(lpm, ips) == [i \in DOMAIN ips |-> TblEntry(lpm, ips[i])]
=============================================================================
