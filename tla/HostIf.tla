------------------------------- MODULE HostIf -------------------------------
(***************************************************************************)
(* The host interfaces of an application: a TAP device (src/ext/tap.c) or  *)
(* a KNI device (src/ext/kni.c), its addresses and routes                  *)
(* (src/ext/ext_netlink.c), and the loops that move packets from it to a   *)
(* ring (src/lib/tap.cr, src/lib/kni.cr).                                  *)
(*                                                                         *)
(* A set-up function is the sequence of system calls it makes; they are    *)
(* taken one by one, and each may fail.  struct ifreq is a union: ifr      *)
(* holds the member written last, and a request that wants another member  *)
(* gets what that one left there.                                          *)
(***************************************************************************)
EXTENDS Netlink, FiniteSets

CONSTANTS IfIndex,   \* index of the interface, unlike any other value here
          Calls,     \* set-ups to try, records of the arguments
          RTE_MAX_ETHPORTS,
          DevCount,  \* rte_eth_dev_count()
          Mbufs,     \* mbufs of the pool
          RingSize,  \* capacity of the ring to the workers
          MaxHeld,   \* bound: mbufs the workers hold at a time
          MaxFails,  \* bound: failed starts of the port
          MaxDowns,  \* bound: times the interface is taken down from outside
          MaxPkts    \* bound: packets from the host

ASSUME HostIfAssumption ==
    /\ RTE_MAX_ETHPORTS \in Nat /\ DevCount \in Nat /\ MaxHeld \in Nat /\ MaxFails \in Nat
    /\ MaxDowns \in Nat /\ MaxPkts \in Nat
    /\ RingSize \in Nat \ {0}
    /\ IsFiniteSet(Mbufs) /\ Mbufs # {} /\ 0 \notin Mbufs

\* what the set-up functions take: numbers, and an array of numbers for the routes
ASSUME CallsAssumption ==
    Calls \subseteq [kind : {"tap", "kni", "copy"}, rw : BOOLEAN, mac : Nat, mtu : Nat, port : Nat,
                     ipv4 : Nat, loopback : Nat, ipv6 : Nat, routes : Seq(Nat), gw : Nat]

NULL == 0

VARIABLES
    call,    \* arguments
    prog,    \* system calls still to make
    status,  \* "run" while setting up, "loop" in the packet loop, "exit" after exit(1), or "crash"
    ifr,     \* the union: member written last, and its value
    sock,    \* the ioctl socket is open
    leaked,  \* ioctl sockets that were never closed
    conf,    \* kernel: value of the last request of each kind
    inbox,   \* kernel: netlink requests received
    lost,    \* a request was not received, and nobody was told
    kni,     \* [pc, up, req, resp, downs, waits]: the loop of kni_create and the kernel's side
    port,    \* [started, fails] of the KNI port
    rx       \* [n, spare, pool, ring, held, batch, out]: the packet loop

vars == <<call, prog, status, ifr, sock, leaked, conf, inbox, lost, kni, port, rx>>

----------------------------------------------------------------------------
(* The set-up functions, as the calls they make.                           *)

Sys(op) == <<[op |-> op, req |-> op, member |-> "none", val |-> 0]>>

Ioctl(req) == <<[op |-> "ioctl", req |-> req, member |-> "none", val |-> 0]>>

IoctlWith(req, member, val) == <<[op |-> "ioctl", req |-> req, member |-> member, val |-> val]>>

Request(fn, addr, mask, gw) ==
    <<[op |-> "netlink", req |-> fn, member |-> "none", val |-> <<addr, mask, gw>>]>>

When(test, steps) == IF test THEN steps ELSE << >>

\* MASK leaves two host bits, the two lowest of the byte that stands for an
\* address here
MASK == 252

DstAddr(ipv4) == ipv4 - 2 * (ipv4 % 4) + 3

BrdAddr(ipv4) == ipv4 - (ipv4 % 4) + 3

set_mac_mtu(mac, mtu) ==
    Ioctl("SIOGIFINDEX")
    \o When(mac # 0, IoctlWith("SIOCSIFHWADDR", "hwaddr", mac))
    \o When(mtu # 0, IoctlWith("SIOCSIFMTU", "mtu", mtu))

MutSetupIp(ipv4, loopback, ipv6) ==
    When(ipv4 # 0, Ioctl("SIOGIFINDEX")
                   \o IoctlWith("SIOCSIFADDR", "addr", ipv4)
                   \o IoctlWith("SIOCSIFDSTADDR", "addr", DstAddr(ipv4))
                   \o IoctlWith("SIOCSIFBRDADDR", "addr", BrdAddr(ipv4))
                   \o IoctlWith("SIOCSIFNETMASK", "addr", MASK))
    \o When(loopback # 0, Request("add_ipv4", loopback, 32, 0))
    \o When(ipv6 # 0, Request("add_ipv6", ipv6, 64, 0))

setup_ip(ipv4, loopback, ipv6) ==
    When(ipv4 # 0, Ioctl("SIOGIFINDEX")
                   \o IoctlWith("SIOCSIFADDR", "addr", ipv4)
                   \o IoctlWith("SIOCSIFDSTADDR", "addr", DstAddr(ipv4))
                   \o IoctlWith("SIOCSIFBRDADDR", "addr", BrdAddr(ipv4))
                   \o IoctlWith("SIOCSIFNETMASK", "addr", MASK))
    \o Ioctl("SIOGIFINDEX")
    \o When(loopback # 0, Request("add_ipv4", loopback, 32, 0))
    \o When(ipv6 # 0, Request("add_ipv6", ipv6, 64, 0))

MutSetupRoutes(routes, gw) ==
    [i \in 1 .. ((Len(routes) - 1) \div 2) |-> Request("add_route", routes[2 * i - 1], routes[2 * i], gw)[1]]

\* pairs <<dst, mask>>; an odd last word is left alone
setup_routes(routes, gw) ==
    [i \in 1 .. (Len(routes) \div 2) |-> Request("add_route", routes[2 * i - 1], routes[2 * i], gw)[1]]

\* IFF_UP, or IFF_UP | IFF_NOARP | IFF_PROMISC
IFF_UP == 1

UpFlags(rw) == IF rw THEN IFF_UP ELSE IFF_UP + 128 + 256

tap_create(c) ==
    Sys("open") \o Sys("TUNSETIFF") \o Sys("socket")
    \o Ioctl("SIOCGIFFLAGS")
    \o set_mac_mtu(c.mac, c.mtu)
    \o Ioctl("SIOGIFINDEX")
    \o IoctlWith("SIOCSIFFLAGS", "flags", UpFlags(c.rw))
    \o Sys("close")

tap_setup_ip(c) ==
    Sys("socket") \o setup_ip(c.ipv4, c.loopback, c.ipv6)
    \o Ioctl("SIOGIFINDEX") \o setup_routes(c.routes, c.gw) \o Sys("close")

kni_create(c) ==
    When(c.port < RTE_MAX_ETHPORTS, Sys("rte_kni_alloc") \o Sys("socket") \o Sys("kni_loop"))

kni_setup_ip(c) ==
    Sys("socket") \o setup_ip(c.ipv4, c.loopback, c.ipv6)
    \o Ioctl("SIOGIFINDEX") \o setup_routes(c.routes, c.gw) \o Sys("close")

\* the exported functions of the other two netlink files, called directly
Copies(c) ==
    Request("tap_netlink_add_ipv4", c.loopback, 32, 0)
    \o Request("tap_netlink_add_ipv6", c.ipv6, 64, 0)
    \o Request("tap_netlink_add_route", 8, 24, c.gw)
    \o Request("netlink_add_ip", c.loopback, 32, 0)
    \o Request("netlink_add_route", 8, 24, c.gw)

\* the host interface is made with rw = 1, a mirror with rw = 0 and no address
setup_host(c) ==
    CASE c.kind = "tap"  -> tap_create(c) \o When(c.rw, tap_setup_ip(c))
      [] c.kind = "kni"  -> kni_create(c) \o When(c.rw, kni_setup_ip(c))
      [] c.kind = "copy" -> Sys("socket") \o Ioctl("SIOGIFINDEX") \o Copies(c) \o Sys("close")

Init ==
    /\ call \in Calls
    /\ prog = setup_host(call) /\ status = "run"
    /\ ifr = [member |-> "none", val |-> 0] /\ sock = FALSE /\ leaked = 0
    /\ conf = [req \in {} |-> 0] /\ inbox = << >> /\ lost = FALSE
    /\ kni = [pc |-> "handle", up |-> FALSE, req |-> << >>, resp |-> << >>,
              downs |-> 0, waits |-> FALSE]
    /\ port = [started |-> TRUE, fails |-> 0]
    /\ \E m \in Mbufs : rx = [n |-> 0, spare |-> m, pool |-> Mbufs \ {m}, ring |-> << >>,
                              held |-> {}, batch |-> << >>, out |-> << >>]

----------------------------------------------------------------------------
(* One system call.  Failure of any but the netlink calls ends the process. *)

Step == Head(prog)

Doing(op) == status = "run" /\ prog # << >> /\ Step.op = op

Done == prog' = Tail(prog) /\ status' = IF Tail(prog) = << >> THEN "loop" ELSE "run"

perror_exit == status' = "exit" /\ UNCHANGED <<prog, ifr, sock, leaked, conf, inbox, lost>>

Rest == <<call, kni, port, rx>>

Exists == call.kind = "copy" \/ {"TUNSETIFF", "rte_kni_alloc"} \cap DOMAIN conf # {}

\* what the kernel keeps of a request
Recorded(req, val) == [r \in {req} \cup DOMAIN conf |-> IF r = req THEN val ELSE conf[r]]

\* open, TUNSETIFF, rte_kni_alloc: what makes the interface
MakeInterface ==
    /\ \/ Doing("open") \/ Doing("TUNSETIFF") \/ Doing("rte_kni_alloc")
    /\ \/ Done /\ conf' = Recorded(Step.op, 1) /\ UNCHANGED <<ifr, sock, leaked, inbox, lost>>
       \/ perror_exit
    /\ UNCHANGED Rest

\* a zeroed ifreq and a socket; the result of socket() is not tested: with -1
\* the next ioctl fails
Socket ==
    /\ Doing("socket") /\ Done
    /\ sock' \in BOOLEAN
    /\ ifr' = [member |-> "none", val |-> 0]
    /\ UNCHANGED <<leaked, conf, inbox, lost>> /\ UNCHANGED Rest

Close ==
    /\ Doing("close") /\ Done
    /\ sock' = FALSE
    /\ UNCHANGED <<ifr, leaked, conf, inbox, lost>> /\ UNCHANGED Rest

\* the member of the union the kernel writes
Filled(req) == CASE req = "SIOGIFINDEX"  -> [member |-> "ifindex", val |-> IfIndex]
                 [] req = "SIOCGIFFLAGS" -> [member |-> "flags", val |-> 0]

ioctl ==
    /\ Doing("ioctl")
    /\ \/ perror_exit
       \/ /\ sock /\ Exists /\ Done
          /\ IF Step.member = "none"
             THEN ifr' = Filled(Step.req) /\ UNCHANGED conf
             ELSE /\ ifr' = [member |-> Step.member, val |-> Step.val]
                  /\ conf' = Recorded(Step.req, Step.val)
          /\ UNCHANGED <<sock, leaked, inbox, lost>>
    /\ UNCHANGED Rest

\* the request a netlink step sends, for the interface index in the union
Message ==
    LET idx == ifr.val  a == Step.val
    IN  CASE Step.req = "add_ipv4"  -> add_ipv4(idx, a[1], a[2])
          [] Step.req = "add_ipv6"  -> add_ipv6(idx, a[1], a[2])
          [] Step.req = "add_route" -> add_route(idx, a[3], a[1], a[2])
          [] Step.req = "tap_netlink_add_ipv4"  -> tap_netlink_add_ipv4(idx, a[1], a[2])
          [] Step.req = "tap_netlink_add_ipv6"  -> tap_netlink_add_ipv6(idx, a[1], a[2])
          [] Step.req = "tap_netlink_add_route" -> tap_netlink_add_route(idx, a[3], a[1], a[2])
          [] Step.req = "netlink_add_ip"    -> netlink_add_ip(idx, a[1], a[2])
          [] Step.req = "netlink_add_route" -> netlink_add_route(idx, a[3], a[1], a[2])

\* whatever fails in the socket, the bind or the send, the call goes on
Send(fns) ==
    /\ Doing("netlink") /\ Step.req \in fns /\ Done
    /\ \/ inbox' = Append(inbox, Message) /\ UNCHANGED lost
       \/ lost' = TRUE /\ UNCHANGED inbox
    /\ UNCHANGED <<ifr, sock, leaked, conf>> /\ UNCHANGED Rest

\* prepare_socket and send_to_socket of each of the three files
send_to_socket == Send({"add_ipv4", "add_ipv6", "add_route"})

tap_send_to_socket == Send({"tap_netlink_add_ipv4", "tap_netlink_add_ipv6", "tap_netlink_add_route"})

netlink_send_to_socket == Send({"netlink_add_ip", "netlink_add_route"})

----------------------------------------------------------------------------
(* The loop of kni_create.  The kernel's side is external: setting the     *)
(* flags queues a request and waits for an answer, which only              *)
(* rte_kni_handle_request of the same thread can give, so the first one    *)
(* times out and a later one is answered by the late answer to it.         *)
(* Somebody else may take the interface down meanwhile, with a request of  *)
(* its own that waits for whatever answer comes first.                     *)

InLoop(at) == Doing("kni_loop") /\ kni.pc = at

KniRest == <<conf, inbox, lost, call, rx>>

Answered(ok) == kni' = [kni EXCEPT !.pc = "get", !.req = Tail(@), !.resp = Append(@, ok)]

MutKniConfig(p, if_up) ==
    /\ p < DevCount
    /\ \E ok \in BOOLEAN :
         /\ ok \/ port.fails < MaxFails
         /\ port' = [started |-> if_up /\ ok, fails |-> IF ok THEN port.fails ELSE port.fails + 1]
    /\ Answered(TRUE)

\* the callback: stop and start the port, or stop it; it refuses a port that is
\* not there
kni_config_network_interface(p, if_up) ==
    \/ /\ p >= DevCount
       /\ Answered(FALSE) /\ UNCHANGED port
    \/ /\ p < DevCount /\ if_up
       /\ \E ok \in BOOLEAN :
            /\ ok \/ port.fails < MaxFails
            /\ port' = [started |-> ok, fails |-> IF ok THEN port.fails ELSE port.fails + 1]
            /\ Answered(ok)
    \/ /\ p < DevCount /\ ~if_up
       /\ port' = [port EXCEPT !.started = FALSE]
       /\ Answered(TRUE)

rte_kni_handle_request ==
    /\ InLoop("handle")
    /\ IF kni.req # << >> THEN kni_config_network_interface(call.port, Head(kni.req))
                          ELSE kni' = [kni EXCEPT !.pc = "get"] /\ UNCHANGED port
    /\ UNCHANGED <<prog, status, ifr, sock, leaked>> /\ UNCHANGED KniRest

\* another process clears IFF_UP: its request waits, and the flag goes when an
\* answer came or the wait timed out
KniDown ==
    /\ Doing("kni_loop") /\ kni.up /\ ~kni.waits /\ kni.downs < MaxDowns
    /\ kni' = [kni EXCEPT !.req = Append(@, FALSE), !.downs = @ + 1, !.waits = TRUE]
    /\ UNCHANGED <<prog, status, ifr, sock, leaked, port>> /\ UNCHANGED KniRest

KniIsDown ==
    /\ kni.waits
    /\ kni' = [kni EXCEPT !.up = FALSE, !.waits = FALSE,
                          !.resp = IF @ = << >> THEN @ ELSE Tail(@)]
    /\ UNCHANGED <<prog, status, ifr, sock, leaked, port>> /\ UNCHANGED KniRest

\* SIOCGIFFLAGS, its result ignored: when it fails ifr keeps what it held
KniGetFlags ==
    LET seen == IF sock THEN (IF kni.up THEN IFF_UP ELSE 0) ELSE ifr.val
    IN  /\ InLoop("get")
        /\ ifr' = [member |-> "flags", val |-> seen]
        /\ IF seen % 2 = IFF_UP
           THEN /\ Done /\ sock' = FALSE /\ leaked' = IF sock THEN leaked + 1 ELSE leaked
                /\ UNCHANGED kni
           ELSE /\ kni' = [kni EXCEPT !.pc = "set"] /\ UNCHANGED <<prog, status, sock, leaked>>
        /\ UNCHANGED port /\ UNCHANGED KniRest

MutKniSetFlags ==
    /\ InLoop("set")
    /\ ifr' = [member |-> "flags", val |-> UpFlags(call.rw)]
    /\ kni' = [kni EXCEPT !.pc = "get", !.req = <<TRUE>>]
    /\ UNCHANGED <<prog, status, sock, leaked, port>> /\ UNCHANGED KniRest

\* one request waits at a time
KniSetFlags ==
    /\ InLoop("set") /\ (sock => ~kni.waits)
    /\ ifr' = [member |-> "flags", val |-> UpFlags(call.rw)]
    /\ \/ ~sock /\ kni' = [kni EXCEPT !.pc = "handle"]
       \/ /\ sock /\ kni.resp = << >>
          /\ kni' = [kni EXCEPT !.pc = "handle", !.req = Append(@, TRUE)]
       \/ /\ sock /\ kni.resp # << >>
          /\ kni' = [kni EXCEPT !.pc = "handle", !.req = Append(@, TRUE),
                                !.up = Head(kni.resp), !.resp = Tail(@)]
    /\ UNCHANGED <<prog, status, sock, leaked, port>> /\ UNCHANGED KniRest

----------------------------------------------------------------------------
(* The packet loops, and a worker that takes from the ring and frees.      *)

LoopRest == <<call, prog, ifr, sock, leaked, conf, inbox, lost, kni, port>>

RxRoom == RingSize - Len(rx.ring)

MutTapRx ==
    /\ status = "loop" /\ call.kind = "tap" /\ call.rw /\ rx.spare # NULL /\ rx.n < MaxPkts
    /\ UNCHANGED status
    /\ rx' = IF RxRoom = 0 THEN [rx EXCEPT !.n = @ + 1]
             ELSE [rx EXCEPT !.n = @ + 1, !.ring = Append(@, <<rx.spare, rx.n + 1>>)]
    /\ UNCHANGED LoopRest

\* tap_read (select, then read) and the rest of the turn; a select that times
\* out or is interrupted reads nothing.  What rte_pktmbuf_alloc returned is not
\* tested: after a NULL the next turn dereferences it.
tap_rx_to_ring ==
    /\ status = "loop" /\ call.kind = "tap" /\ call.rw
    /\ \/ rx.spare = NULL /\ status' = "crash" /\ UNCHANGED rx
       \/ rx.spare # NULL /\ status' = "exit" /\ UNCHANGED rx
       \/ /\ rx.spare # NULL /\ rx.n < MaxPkts /\ UNCHANGED status
          /\ IF RxRoom = 0 THEN rx' = [rx EXCEPT !.n = @ + 1]
             ELSE \E m \in IF rx.pool = {} THEN {NULL} ELSE rx.pool :
                  rx' = [rx EXCEPT !.n = @ + 1, !.spare = m, !.pool = @ \ {m},
                                   !.ring = Append(@, <<rx.spare, rx.n + 1>>)]
    /\ UNCHANGED LoopRest

Fits(seq) == IF Len(seq) <= RxRoom THEN Len(seq) ELSE RxRoom

MutKniRetry ==
    /\ status = "loop" /\ rx.batch # << >>
    /\ rx' = [rx EXCEPT !.ring = @ \o SubSeq(rx.batch, 1, Fits(rx.batch)),
                        !.batch = IF Fits(@) = 0 THEN @ ELSE << >>]
    /\ UNCHANGED status /\ UNCHANGED LoopRest

\* what a full ring did not take is tried again
KniRetry ==
    /\ status = "loop" /\ rx.batch # << >>
    /\ rx' = [rx EXCEPT !.ring = @ \o SubSeq(rx.batch, 1, Fits(rx.batch)),
                        !.batch = SubSeq(@, Fits(@) + 1, Len(@))]
    /\ UNCHANGED status /\ UNCHANGED LoopRest

kni_rx_to_ring ==
    /\ status = "loop" /\ call.kind = "kni" /\ call.rw /\ rx.batch = << >> /\ rx.n + 2 <= MaxPkts
    /\ \E m1, m2 \in rx.pool :
         /\ m1 # m2
         /\ rx' = [rx EXCEPT !.n = @ + 2, !.pool = @ \ {m1, m2},
                             !.batch = <<<<m1, rx.n + 1>>, <<m2, rx.n + 2>>>>]
    /\ UNCHANGED status /\ UNCHANGED LoopRest

WorkerTakes ==
    /\ status = "loop" /\ rx.ring # << >> /\ Cardinality(rx.held) < MaxHeld
    /\ rx' = [rx EXCEPT !.ring = Tail(@), !.held = @ \cup {Head(rx.ring)[1]},
                        !.out = Append(@, Head(rx.ring)[2])]
    /\ UNCHANGED status /\ UNCHANGED LoopRest

WorkerFrees ==
    /\ status = "loop"
    /\ \E m \in rx.held : rx' = [rx EXCEPT !.held = @ \ {m}, !.pool = @ \cup {m}]
    /\ UNCHANGED status /\ UNCHANGED LoopRest

Setup == MakeInterface \/ Socket \/ Close \/ ioctl \/ send_to_socket
         \/ tap_send_to_socket \/ netlink_send_to_socket
         \/ rte_kni_handle_request \/ KniGetFlags \/ KniSetFlags \/ KniIsDown

Worker == WorkerTakes \/ WorkerFrees

Next == Setup \/ KniDown \/ tap_rx_to_ring \/ kni_rx_to_ring \/ KniRetry \/ Worker

Spec == Init /\ [][Next]_vars

\* the set-up goes on by itself, and the kernel lets a wait time out; host and
\* workers need do nothing
FairSpec == Spec /\ WF_vars(Setup)

----------------------------------------------------------------------------
(* Properties.                                                             *)

Received == {inbox[i] : i \in 1 .. Len(inbox)}

\* Every netlink request reads back as it was meant, at the offsets the kernel
\* looks for its attributes, and names the interface that was made: the index
\* was fetched again after the union held an address.
RequestsTarget ==
    \A msg \in Received :
      /\ WellFormed(msg)
      /\ IfIndex = IF msg.type = "RTM_NEWADDR" THEN msg.index ELSE Value(msg, "RTA_OIF")

\* a request of the kernel was made with this value if the arguments ask for
\* it, and was not made otherwise
Option(req, asked, val) ==
    IF asked THEN req \in DOMAIN conf /\ conf[req] = val ELSE req \notin DOMAIN conf

Addresses == {<<Value(r, "IFA_LOCAL"), r.prefixlen>> : r \in {q \in Received : q.type = "RTM_NEWADDR"}}

Routes == {<<Value(r, "RTA_DST"), r.prefixlen, Value(r, "RTA_GATEWAY")>> :
             r \in {q \in Received : q.type = "RTM_NEWROUTE"}}

\* A set-up of a host interface or a mirror (src/lib/tap.cr, src/lib/kni.cr)
\* that comes to its end has configured all it was asked for and nothing else:
\* the hardware address, the MTU and the flags of a TAP device, the address of
\* the interface, the peer's and the broadcast address of its subnet of four,
\* and the netmask; the loopback, the IPv6 address and the routes through the
\* gateway, if no netlink request was lost.  It leaves no socket open but the
\* one that kni_create forgets.
ConfiguredAsAsked ==
    LET tap == call.kind = "tap"
        v4  == call.rw /\ call.ipv4 # 0
        net == call.ipv4 - (call.ipv4 % 4)
    IN  status = "loop" /\ call.kind # "copy" =>
          /\ ~sock /\ leaked <= IF tap THEN 0 ELSE 1
          /\ Option("SIOCSIFHWADDR", tap /\ call.mac # 0, call.mac)
          /\ Option("SIOCSIFMTU", tap /\ call.mtu # 0, call.mtu)
          /\ Option("SIOCSIFFLAGS", tap, IF call.rw THEN IFF_UP ELSE IFF_UP + 128 + 256)
          /\ Option("SIOCSIFADDR", v4, call.ipv4)
          /\ Option("SIOCSIFDSTADDR", v4, net + 3 - (call.ipv4 % 4))
          /\ Option("SIOCSIFBRDADDR", v4, net + 3)
          /\ Option("SIOCSIFNETMASK", v4, MASK)
          /\ lost \/ Addresses = IF call.rw THEN {<<call.loopback, 32>>, <<call.ipv6, 64>>} \ {<<0, 32>>, <<0, 64>>}
                                 ELSE {}
          /\ lost \/ Routes = IF call.rw THEN {<<call.routes[i], call.routes[i + 1], call.gw>> :
                                                i \in {j \in 1 .. Len(call.routes) - 1 : j % 2 = 1}}
                              ELSE {}

\* Answers come a turn of the loop late, but do not pile up: but for the
\* requests of somebody else there is one request or answer under way.  And
\* while nobody takes a KNI device down, its link is up over a stopped port only
\* if the start that failed came after the one that brought the link up: its
\* refusal is the answer nobody has read.
KniAnswers ==
    /\ Len(kni.req) + Len(kni.resp) <= 1 + kni.downs
    /\ kni.up /\ kni.downs = 0 /\ ~port.started => kni.resp = <<FALSE>>

\* Every mbuf is in one place: the pool, the spare of tap_rx_to_ring, the ring,
\* a batch to be tried again, or a worker; none is lost when the ring is full,
\* nor when the pool is empty and the reader is left without a spare.
MbufOwned ==
    LET In(seq) == {seq[i][1] : i \in 1 .. Len(seq)}
        places == <<rx.pool, {rx.spare} \ {NULL}, In(rx.ring), In(rx.batch), rx.held>>
    IN  /\ \A i, j \in 1 .. 5 : i # j => places[i] \cap places[j] = {}
        /\ Cardinality(In(rx.ring)) = Len(rx.ring)
        /\ UNION {places[i] : i \in 1 .. 5} = Mbufs

\* Packets of the host come out in order, and of those of a KNI device none is
\* lost or passed over however often the ring was full.
HostInOrder ==
    LET all == rx.ring \o rx.batch
        line == rx.out \o [i \in 1 .. Len(all) |-> all[i][2]]
    IN  \A i \in 1 .. Len(line) :
          /\ i > 1 => line[i - 1] < line[i]
          /\ call.kind = "kni" => line[i] = i /\ Len(line) = rx.n

\* kni_create ends for a port that exists: late answers, failed starts and
\* somebody who takes the interface down only make it go round again.
KniReturns == [](call.port < DevCount => <>(status # "run"))
=============================================================================
