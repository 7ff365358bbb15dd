------------------------------ MODULE MCHostIf ------------------------------
(* Set-ups with and without each address, with an even and an odd list of  *)
(* route words, ports that exist, do not, and are out of range, mirrors.   *)
EXTENDS HostIf

TapCalls == [kind : {"tap"}, rw : {TRUE}, mac : {0, 7}, mtu : {1518}, port : {0},
             ipv4 : {0, 41}, loopback : {0, 51}, ipv6 : {0, 61},
             routes : {<< >>, <<8, 24>>, <<8, 24, 9, 16, 10>>}, gw : {42}]

KniCalls == [kind : {"kni"}, rw : {TRUE}, mac : {0}, mtu : {0}, port : {0, 1, 2},
             ipv4 : {41, 42}, loopback : {0, 51}, ipv6 : {61}, routes : {<<8, 24>>}, gw : {42}]

Mirrors == [kind : {"tap", "kni"}, rw : {FALSE}, mac : {0}, mtu : {1518}, port : {0},
            ipv4 : {0}, loopback : {0}, ipv6 : {0}, routes : {<< >>}, gw : {0}]

CopyCalls == [kind : {"copy"}, rw : {TRUE}, mac : {0}, mtu : {0}, port : {0},
              ipv4 : {0}, loopback : {51}, ipv6 : {61}, routes : {<< >>}, gw : {42}]

MCCalls == TapCalls \cup KniCalls \cup Mirrors \cup CopyCalls
=============================================================================
