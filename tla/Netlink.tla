------------------------------- MODULE Netlink -------------------------------
(***************************************************************************)
(* The rtnetlink requests of src/ext/ext_netlink.c, tap_netlink.c and      *)
(* netlink.c, laid out at the byte offsets the code puts them: a request   *)
(* is its nlmsg_len, its fixed header and its attributes, each with the    *)
(* offset it starts at and its rta_len.  The three files hold copies of    *)
(* the same functions; ext_netlink.c is the one tap.c and kni.c use.       *)
(***************************************************************************)
EXTENDS Integers, Sequences

\* the macros of <linux/netlink.h> and <linux/rtnetlink.h>
NLMSG_ALIGN(k) == ((k + 3) \div 4) * 4

NLMSG_LENGTH(k) == k + 16

RTA_LENGTH(k) == k + 4

sizeof_ifaddrmsg == 8

sizeof_rtmsg == 12

Attribute(at, type, data, data_len) ==
    [at |-> at, len |-> RTA_LENGTH(data_len), type |-> type, data |-> data]

nlattr_add(nh, type, data, data_len) ==
    [nh EXCEPT !.attrs = Append(@, Attribute(NLMSG_ALIGN(nh.len), type, data, data_len)),
               !.len = NLMSG_ALIGN(@) + NLMSG_ALIGN(RTA_LENGTH(data_len))]

nlattr_add32(nh, type, data) == nlattr_add(nh, type, data, 4)

\* two attributes, one behind the other from the start of req.buf
NewAddr(family, ifc_idx, addr, size, mask) ==
    LET first  == Attribute(16 + sizeof_ifaddrmsg, "IFA_ADDRESS", addr, size)
        second == Attribute(first.at + first.len, "IFA_LOCAL", addr, size)
    IN  [type |-> "RTM_NEWADDR", family |-> family, prefixlen |-> mask,
         scope |-> "RT_SCOPE_UNIVERSE", index |-> ifc_idx,
         len |-> NLMSG_LENGTH(sizeof_ifaddrmsg + first.len + second.len),
         attrs |-> <<first, second>>]

add_ipv4(ifc_idx, ipv4, mask) == NewAddr("AF_INET", ifc_idx, ipv4, 4, mask)

add_ipv6(ifc_idx, ipv6, mask) == NewAddr("AF_INET6", ifc_idx, ipv6, 16, mask)

NewRoute(scope, mask) ==
    [type |-> "RTM_NEWROUTE", family |-> "AF_INET", prefixlen |-> mask, scope |-> scope, index |-> 0,
     len |-> NLMSG_LENGTH(sizeof_rtmsg), attrs |-> << >>]

add_route(ifc_idx, gw, dst, mask) ==
    LET req == NewRoute("RT_SCOPE_UNIVERSE", mask)
    IN  nlattr_add32(nlattr_add(nlattr_add(req, "RTA_GATEWAY", gw, 4), "RTA_DST", dst, 4),
                     "RTA_OIF", ifc_idx)

\* the copies
tap_netlink_nlattr_add(nh, type, data, data_len) == nlattr_add(nh, type, data, data_len)

tap_netlink_nlattr_add32(nh, type, data) == tap_netlink_nlattr_add(nh, type, data, 4)

netlink_nlattr_add(nh, type, data, data_len) == nlattr_add(nh, type, data, data_len)

netlink_nlattr_add32(nh, type, data) == netlink_nlattr_add(nh, type, data, 4)

tap_netlink_add_ipv4(ifc_idx, ipv4, mask) == NewAddr("AF_INET", ifc_idx, ipv4, 4, mask)

tap_netlink_add_ipv6(ifc_idx, ipv6, mask) == NewAddr("AF_INET6", ifc_idx, ipv6, 16, mask)

tap_netlink_add_route(ifc_idx, gw, dst, mask) ==
    LET req == NewRoute("RT_SCOPE_UNIVERSE", mask)
        gateway == tap_netlink_nlattr_add(req, "RTA_GATEWAY", gw, 4)
    IN  tap_netlink_nlattr_add32(tap_netlink_nlattr_add(gateway, "RTA_DST", dst, 4), "RTA_OIF", ifc_idx)

netlink_add_ip(ifc_idx, ip_address, mask) == NewAddr("AF_INET", ifc_idx, ip_address, 4, mask)

netlink_add_route(ifc_idx, src, dst, mask) ==
    LET req == NewRoute("RT_SCOPE_LINK", mask)
        gateway == netlink_nlattr_add(req, "RTA_GATEWAY", src, 4)
    IN  netlink_nlattr_add32(netlink_nlattr_add(gateway, "RTA_DST", dst, 4), "RTA_OIF", ifc_idx)

----------------------------------------------------------------------------
(* How the kernel reads a request: the fixed header, then attributes at    *)
(* aligned offsets up to nlmsg_len.                                        *)

HeaderSize(msg) == IF msg.type = "RTM_NEWADDR" THEN sizeof_ifaddrmsg ELSE sizeof_rtmsg

WellFormed(msg) ==
    LET a == msg.attrs
        end(i) == IF i = 0 THEN NLMSG_ALIGN(NLMSG_LENGTH(HeaderSize(msg)))
                           ELSE a[i].at + NLMSG_ALIGN(a[i].len)
    IN  /\ \A i \in 1 .. Len(a) : a[i].at = end(i - 1)
        /\ msg.len = end(Len(a))

\* the value the kernel finds for an attribute
Value(msg, type) == (CHOOSE a \in {msg.attrs[i] : i \in 1 .. Len(msg.attrs)} : a.type = type).data
=============================================================================
