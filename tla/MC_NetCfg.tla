----------------------------- MODULE MC_NetCfg -----------------------------
(***************************************************************************)
(* Small instances of NetCfg: two addresses, two gateways, two name        *)
(* servers, two-bit words (so that one mask of four is not contiguous).    *)
(***************************************************************************)
EXTENDS NetCfg

CONSTANTS i1, i2, g1, g2, d1, d2      \* model values

MCIp      == {i1, i2}
MCGateway == {g1, g2}
MCDns     == {d1, d2}

Full    == [ip |-> i1, prefix |-> 1, gateway |-> g1, dns |-> d1]
Partial == [ip |-> i2, prefix |-> 0, gateway |-> None, dns |-> None]
Lease   == [ip |-> i2, prefix |-> 2, gateway |-> g2, dns |-> d2]
NoDns   == [Lease EXCEPT !.dns = None]
NoRoute == [Lease EXCEPT !.gateway = None]

\* A static configuration that sets everything, and one that leaves gateway and
\* name server unchanged.
MCRequests == {Full, Partial}
FullOnly   == {Full}

OneLease   == {Lease}
SomeLeases == {Lease, NoDns, NoRoute}
NoLease    == {}

\* A factory machine, and one that was configured by hand, with an odd mask.
Factory == [f \in File |-> None]
OddMask == [b \in Bits |-> b = 2]
ByHand  == [f \in File |-> CASE f = "mode"   -> "static"
                             [] f = "ip"     -> i1
                             [] f = "subnet" -> OddMask
                             [] f = "router" -> g2
                             [] f = "dns"    -> d2]
MCImages    == {Factory, ByHand}
FactoryOnly == {Factory}
=============================================================================
