---------------------------- MODULE MC_NetSystem ----------------------------
(***************************************************************************)
(* One apply of either mode and of every form, the gateway and the name    *)
(* server typed or left empty, while a boot in static mode may be still at *)
(* work; two failed calls; two-bit addresses.                              *)
(***************************************************************************)
EXTENDS NetSystem

CONSTANTS i1, i2, g1, g2, d1, d2      \* model values

MCIp      == {i1, i2}
MCGateway == {g1, g2}
MCDns     == {d1, d2}

T(w) == [what |-> w, padded |-> FALSE]

MCTexts     == {T("empty"), T("address")}
MCPrefilled == {[ip |-> T("address"), prefix |-> 1, gateway |-> T("address"),
                  dns |-> T("address")]}

MCLeases     == {[ip |-> i2, prefix |-> 2, gateway |-> g2, dns |-> None]}
NoLease      == {}
MCImages     == {[f \in {"mode", "ip", "subnet", "router", "dns"} |->
                    CASE f = "mode"   -> "static"
                      [] f = "ip"     -> i2
                      [] f = "router" -> g2
                      [] OTHER        -> None]}

\* A bound: automatic mode is asked for with the form as it was prefilled.  Nothing
\* of the form goes into it.
FormOfStatic == wantStatic \/ form \in Prefilled
=============================================================================
