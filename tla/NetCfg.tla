------------------------------- MODULE NetCfg -------------------------------
(***************************************************************************)
(* eos-netcfg (src/netcfg.rs): every process that reconfigures the network *)
(* of one machine, across its boots.                                       *)
(*                                                                         *)
(*   - Shim: eos-netcfg static|dhcp, one process per apply of the GUI,     *)
(*   - Boot: eos-netcfg boot, run by init,                                 *)
(*   - Service: 10_dhcpd.service, which init starts and does not wait for. *)
(*                                                                         *)
(* They share the live stack (addr, routes, resolver: the netcfg: scheme   *)
(* of smolnetd, lost at a reboot) and the files of /etc/net (kept).  Each  *)
(* scheme write is one step; each file write is two, because fs::write     *)
(* truncates before it writes.  A Reboot may come at any point: an orderly *)
(* restart when nothing runs, a crash otherwise.                           *)
(***************************************************************************)
EXTENDS Netmask, Sequences

CONSTANTS Shim, Boot, Service,     \* the processes
          Ip, Gateway, Dns,        \* addresses
          DefaultPrefix,           \* used for a missing or odd mask (24)
          Requests,                \* what a user may ask for in static mode
          Leases,                  \* what a dhcpd run by a shim may obtain
          BootLeases,              \* what the dhcpd of the service may obtain
          Images,                  \* what /etc/net may hold at first boot
          Overlap,                 \* may an apply start while another runs?
          MaxApplies, MaxBoots, MaxFaults      \* bounds for TLC

Actor == Shim \cup {Boot, Service}

Option(S) == S \cup {None}

\* A Cfg of the command line, and a lease: gateway and dns are optional.
Config == [ip : Ip, prefix : PrefixLengths, gateway : Option(Gateway), dns : Option(Dns)]

\* The configuration a process has in hand; Blank before it knows anything.
Job   == [ip : Option(Ip), prefix : Option(PrefixLengths),
          gateway : Option(Gateway), dns : Option(Dns)]
Blank == [ip |-> None, prefix |-> None, gateway |-> None, dns |-> None]

\* The files of /etc/net; None is an absent, empty or truncated file.
Modes       == {"static", "dhcp"}
AddressFile == {"ip", "subnet", "router", "dns"}
File        == {"mode"} \cup AddressFile
Image       == [mode : Option(Modes), ip : Option(Ip), subnet : Option(Masks),
                router : Option(Gateway), dns : Option(Dns)]

ASSUME ActorAssumption ==
    Boot \notin Shim /\ Service \notin Shim /\ Boot # Service
ASSUME NoneAssumption ==
    /\ None \notin Ip /\ None \notin Gateway /\ None \notin Dns
    /\ None \notin Masks
    /\ None \notin [ip : Ip, prefix : PrefixLengths]
ASSUME ConfigAssumption ==
    /\ DefaultPrefix \in PrefixLengths
    /\ Requests \subseteq Config /\ Leases \subseteq Config /\ BootLeases \subseteq Config
    /\ Images \subseteq Image
    /\ Overlap \in BOOLEAN
    /\ MaxApplies \in Nat /\ MaxBoots \in Nat /\ MaxFaults \in Nat

VARIABLES
    addr,      \* live: the interface's address, or None
    routes,    \* live: the gateway of each default route, in the order of the adds
    resolver,  \* live: resolv/nameserver
    etc,       \* the files of /etc/net
    pc,        \* where each process is
    kind,      \* which flow it runs: "static" or "dhcp"
    job,       \* the configuration it has in hand
    open,      \* has it truncated the file it is about to write?
    seen,      \* history: every value that was live, or in the first image
    base,      \* history: /etc/net when the last apply was launched (~Overlap)
    pinned,    \* history: what was live at a reboot, if a static apply set it
    applies, boots, faults      \* counters of the bounds

\* The gateways that some default route leads to.
Gateways == {routes[i] : i \in DOMAIN routes}

live     == <<addr, routes, resolver>>
process  == <<pc, kind, job, open>>
history  == <<seen, base, pinned>>
counters == <<applies, boots, faults>>
vars     == <<live, etc, process, history, counters>>

-----------------------------------------------------------------------------
(* Program counters. *)

Rest   == {"idle", "ok", "fail"}
Labels == Rest \cup File \cup {"elevate", "addr", "rm", "add", "resolver",
             "drop", "lease", "d_addr", "d_route", "d_dns",
             "m_addr", "m_route", "m_dns",
             "start", "b_ip", "b_subnet", "b_router", "b_dns", "wait"}

Quiet == \A a \in Actor : pc[a] \in Rest

At(a, l)   == pc[a] = l
Goto(a, l) == pc' = [pc EXCEPT ![a] = l]

\* Where process a goes when a statement of apply_static, apply_dhcp,
\* files_to_scheme or write_files is done; a field that is None is skipped.

\* Mutant of AfterMode: a static apply writes the files and nothing else.
AfterModeFiles(a) == IF kind[a] = "static" THEN "ip" ELSE "drop"

AfterMode(a) == IF kind[a] = "static" THEN "addr" ELSE "drop"

AfterRoute(a) == IF a = Boot THEN "b_dns"
                 ELSE IF job[a].dns # None THEN "resolver" ELSE "ip"

\* Mutants of AfterAddr: no rm before add; the gateway is not set at all.
AfterAddrNoRm(a) == IF a = Boot THEN "b_router"
                    ELSE IF job[a].gateway # None THEN "add" ELSE AfterRoute(a)
AfterAddrNoRoute(a) == IF a = Boot THEN "b_router" ELSE AfterRoute(a)

AfterAddr(a) == IF a = Boot THEN "b_router"
                ELSE IF job[a].gateway # None THEN "rm" ELSE AfterRoute(a)

\* Mutant of AfterFile: write_files stops before ip_router and dns.
AfterFileShort(a, f) == IF f = "mode" THEN AfterMode(a)
                        ELSE IF f = "ip" THEN "subnet" ELSE "ok"

\* Mutant of AfterFile: ip_router is written whether or not there is a gateway.
AfterFileAlways(a, f) ==
    IF f = "mode" THEN AfterMode(a)
    ELSE IF f = "ip" THEN "subnet"
    ELSE IF f = "subnet" THEN "router"
    ELSE IF f = "router" /\ job[a].dns # None THEN "dns"
    ELSE "ok"

AfterFile(a, f) ==
    IF f = "mode" THEN AfterMode(a)
    ELSE IF f = "ip" THEN "subnet"
    ELSE IF f = "subnet" /\ job[a].gateway # None THEN "router"
    ELSE IF f \in {"subnet", "router"} /\ job[a].dns # None THEN "dns"
    ELSE "ok"

\* dhcpd ends: the service is done, a shim goes on to mirror what is live.
AfterDhcpd(a) == IF a = Service THEN "ok" ELSE "m_addr"

\* mirror_scheme_to_files found no address: nothing to persist.  The boot
\* ignores it, apply_dhcp reports it.
NoAddress(a) == IF a = Boot THEN "ok" ELSE "fail"

-----------------------------------------------------------------------------
(* Initial states: a machine that boots, with some /etc/net. *)

BootPc == [a \in Actor |-> IF a = Boot THEN "start"
                           ELSE IF a = Service THEN "lease" ELSE "idle"]

\* The live stack is empty and the processes are those init starts.  A boot
\* may find the stack unconfigured: wait_for_address exists for that.
Init ==
    /\ addr = None /\ routes = <<>> /\ resolver = None
    /\ pc = BootPc
    /\ kind = [a \in Actor |-> "dhcp"]
    /\ job = [a \in Actor |-> Blank]
    /\ open = [a \in Actor |-> FALSE]
    /\ etc \in Images
    /\ seen = [f \in AddressFile |-> {etc[f]} \ {None}]
    /\ base = etc
    /\ pinned = None
    /\ applies = 0 /\ boots = 0 /\ faults = 0

-----------------------------------------------------------------------------
(* Writes to the netcfg: scheme, by eos-netcfg or by dhcpd. *)

\* addr/set: smolnetd replaces the address of the interface.
WriteAddr(a) ==
    /\ addr' = [ip |-> job[a].ip, prefix |-> job[a].prefix]
    /\ seen' = [seen EXCEPT !["ip"] = @ \cup {job[a].ip}]
    /\ UNCHANGED <<routes, resolver>>

\* route/add does not de-duplicate, not even a route to the same gateway.
WriteRoute(a) ==
    /\ routes' = Append(routes, job[a].gateway)
    /\ seen' = [seen EXCEPT !["router"] = @ \cup {job[a].gateway}]
    /\ UNCHANGED <<addr, resolver>>

WriteResolver(a) ==
    /\ resolver' = job[a].dns
    /\ seen' = [seen EXCEPT !["dns"] = @ \cup {job[a].dns}]
    /\ UNCHANGED <<addr, routes>>

Live(a, l) ==
    /\ Goto(a, l)
    /\ UNCHANGED <<etc, kind, job, open, base, pinned, counters>>

-----------------------------------------------------------------------------
(* eos-netcfg static and dhcp. *)

\* The GUI spawns a shim with a configuration; the status line of the window
\* then forgets the outcome of earlier applies.
Launch(a, k, c) ==
    /\ pc[a] \in Rest
    /\ Overlap \/ Quiet
    /\ applies < MaxApplies
    /\ applies' = applies + 1
    /\ LET gone(b) == b \in Shim /\ pc[b] \in Rest IN
       /\ pc'   = [b \in Actor |-> IF b = a THEN "elevate"
                                   ELSE IF gone(b) THEN "idle" ELSE pc[b]]
       /\ kind' = [b \in Actor |-> IF b = a THEN k
                                   ELSE IF gone(b) THEN "dhcp" ELSE kind[b]]
       /\ job'  = [b \in Actor |-> IF b = a THEN c
                                   ELSE IF gone(b) THEN Blank ELSE job[b]]
    /\ base' = IF Overlap THEN base ELSE etc
    /\ pinned' = None
    /\ UNCHANGED <<live, etc, open, seen, boots, faults>>

\* elevate::to_root: the password is right, or it is not.
Elevate(a) ==
    /\ At(a, "elevate")
    /\ \E l \in {"mode", "fail"} : Goto(a, l)
    /\ UNCHANGED <<live, etc, kind, job, open, history, counters>>

\* set_addr
SetAddr(a) == At(a, "addr") /\ WriteAddr(a) /\ Live(a, AfterAddr(a))

\* route/rm 0.0.0.0/0: set_default_route, and apply_dhcp before the lease.
RemoveDefault(a) ==
    /\ pc[a] \in {"rm", "drop"}
    /\ routes' = <<>>
    /\ Live(a, IF pc[a] = "rm" THEN "add" ELSE "lease")
    /\ UNCHANGED <<addr, resolver, seen>>

AddDefault(a)  == At(a, "add") /\ WriteRoute(a) /\ Live(a, AfterRoute(a))

\* set_resolver
SetResolver(a) ==
    /\ At(a, "resolver")
    /\ WriteResolver(a)
    /\ Live(a, IF a = Boot THEN "ok" ELSE "ip")

-----------------------------------------------------------------------------
(* dhcpd, run by a shim (which waits for it) or as the boot service. *)

LeaseGranted(a) ==
    /\ At(a, "lease")
    /\ \E l \in IF a = Service THEN BootLeases ELSE Leases :
           job' = [job EXCEPT ![a] = l]
    /\ Goto(a, "d_addr")
    /\ UNCHANGED <<live, etc, kind, open, history, counters>>

\* Mutant of LeaseRefused: a failed lease blanks the persistent address.
LeaseRefusedBlanks(a) ==
    /\ At(a, "lease")
    /\ Goto(a, "fail")
    /\ etc' = [etc EXCEPT !["ip"] = None]
    /\ UNCHANGED <<live, kind, job, open, history, counters>>

\* No server answered: dhcpd exits with an error, apply_dhcp returns it.
LeaseRefused(a) ==
    /\ At(a, "lease")
    /\ Goto(a, "fail")
    /\ UNCHANGED <<live, etc, kind, job, open, history, counters>>

DhcpdAddr(a) ==
    /\ At(a, "d_addr")
    /\ WriteAddr(a)
    /\ Live(a, IF job[a].gateway # None THEN "d_route"
               ELSE IF job[a].dns # None THEN "d_dns" ELSE AfterDhcpd(a))

DhcpdRoute(a) ==
    /\ At(a, "d_route")
    /\ WriteRoute(a)
    /\ Live(a, IF job[a].dns # None THEN "d_dns" ELSE AfterDhcpd(a))

DhcpdDns(a) == At(a, "d_dns") /\ WriteResolver(a) /\ Live(a, AfterDhcpd(a))

-----------------------------------------------------------------------------
(* mirror_scheme_to_files: three reads of the live stack, then the files. *)

Read(a, l, j) ==
    /\ Goto(a, l)
    /\ job' = [job EXCEPT ![a] = j]
    /\ UNCHANGED <<live, etc, kind, open, history, counters>>

MirrorAddr(a) ==
    /\ At(a, "m_addr")
    /\ IF addr = None
       THEN Read(a, NoAddress(a), Blank)
       ELSE Read(a, "m_route", [Blank EXCEPT !.ip = addr.ip, !.prefix = addr.prefix])

\* parse_default_gateway takes the first default route of the listing, whose
\* order is smolnetd's.
MirrorRoute(a) ==
    /\ At(a, "m_route")
    /\ \E g \in IF routes = <<>> THEN {None} ELSE Gateways :
           Read(a, "m_dns", [job[a] EXCEPT !.gateway = g])

MirrorDns(a) ==
    /\ At(a, "m_dns")
    /\ Read(a, "ip", [job[a] EXCEPT !.dns = resolver])

-----------------------------------------------------------------------------
(* Writing a file of /etc/net: write_mode and write_files. *)

\* What process a writes, file by file.
Written(a) ==
    [mode   |-> kind[a],
     ip     |-> job[a].ip,
     subnet |-> IF job[a].prefix = None THEN None ELSE PrefixToNetmask(job[a].prefix),
     router |-> job[a].gateway,
     dns    |-> job[a].dns]

Truncate(a) ==
    /\ pc[a] \in File
    /\ ~open[a]
    /\ open' = [open EXCEPT ![a] = TRUE]
    /\ etc' = [etc EXCEPT ![pc[a]] = None]
    /\ UNCHANGED <<live, pc, kind, job, history, counters>>

Store(a) ==
    /\ pc[a] \in File
    /\ open[a]
    /\ open' = [open EXCEPT ![a] = FALSE]
    /\ etc' = [etc EXCEPT ![pc[a]] = Written(a)[pc[a]]]
    /\ Goto(a, AfterFile(a, pc[a]))
    /\ UNCHANGED <<live, kind, job, history, counters>>

-----------------------------------------------------------------------------
(* eos-netcfg boot. *)

\* read_net_mode_at: anything but "static" is DHCP.
BootStart ==
    /\ At(Boot, "start")
    /\ kind' = [kind EXCEPT ![Boot] = IF etc["mode"] = "static" THEN "static" ELSE "dhcp"]
    /\ Goto(Boot, IF etc["mode"] = "static" THEN "b_ip" ELSE "wait")
    /\ UNCHANGED <<live, etc, job, open, history, counters>>

BootIp ==
    /\ At(Boot, "b_ip")
    /\ IF etc["ip"] = None
       THEN Read(Boot, "fail", Blank)
       ELSE Read(Boot, "b_subnet", [Blank EXCEPT !.ip = etc["ip"]])

\* Mutant of ReadPrefix: the mask on disk is not consulted.
ReadPrefixDefault(m) == DefaultPrefix

\* A missing or odd mask degrades to the default.
ReadPrefix(m) ==
    IF m = None \/ NetmaskToPrefix(m) = None THEN DefaultPrefix ELSE NetmaskToPrefix(m)

BootSubnet ==
    /\ At(Boot, "b_subnet")
    /\ Read(Boot, "addr", [job[Boot] EXCEPT !.prefix = ReadPrefix(etc["subnet"])])

BootRouter ==
    /\ At(Boot, "b_router")
    /\ Read(Boot, IF etc["router"] = None THEN "b_dns" ELSE "rm",
                  [job[Boot] EXCEPT !.gateway = etc["router"]])

BootDns ==
    /\ At(Boot, "b_dns")
    /\ Read(Boot, IF etc["dns"] = None THEN "ok" ELSE "resolver",
                  [job[Boot] EXCEPT !.dns = etc["dns"]])

\* wait_for_address polls for 20 s ...
WaitSees ==
    /\ At(Boot, "wait")
    /\ addr # None
    /\ Goto(Boot, "m_addr")
    /\ UNCHANGED <<live, etc, kind, job, open, history, counters>>

\* Mutant of WaitExpires: no deadline.
WaitExpiresNever ==
    /\ FALSE
    /\ Goto(Boot, "ok")
    /\ UNCHANGED <<live, etc, kind, job, open, history, counters>>

\* ... and gives up if the last poll saw none: not a boot failure.
WaitExpires ==
    /\ At(Boot, "wait")
    /\ addr = None
    /\ Goto(Boot, "ok")
    /\ UNCHANGED <<live, etc, kind, job, open, history, counters>>

-----------------------------------------------------------------------------
(* Errors. *)

Fault == faults < MaxFaults /\ faults' = faults + 1

\* A write to the scheme fails: ? returns the error, except for route/rm, whose
\* result is ignored; a dhcpd that cannot set the address still has its ACK.
SchemeFault(a) ==
    /\ Fault
    /\ \/ pc[a] \in {"addr", "add", "resolver"} /\ Goto(a, "fail")
       \/ At(a, "rm")     /\ Goto(a, "add")
       \/ At(a, "drop")   /\ Goto(a, "lease")
       \/ At(a, "d_addr") /\ Goto(a, AfterDhcpd(a))
    /\ UNCHANGED <<live, etc, kind, job, open, history, applies, boots>>

\* A read fails: it reads as None (read_netcfg) or as empty (files_to_scheme).
ReadFault(a) ==
    /\ Fault
    /\ \/ At(a, "start")    /\ Goto(a, "wait")
       \/ At(a, "b_ip")     /\ Goto(a, "fail")
       \/ At(a, "b_subnet") /\ Goto(a, "addr")
       \/ At(a, "b_router") /\ Goto(a, "b_dns")
       \/ At(a, "b_dns")    /\ Goto(a, "ok")
       \/ At(a, "m_addr")   /\ Goto(a, NoAddress(a))
       \/ At(a, "m_route")  /\ Goto(a, "m_dns")
       \/ At(a, "m_dns")    /\ Goto(a, "ip")
    /\ job' = IF At(a, "b_subnet")
              THEN [job EXCEPT ![a] = [@ EXCEPT !.prefix = DefaultPrefix]]
              ELSE job
    /\ UNCHANGED <<live, etc, kind, open, history, applies, boots>>

\* Opening a file fails (it keeps its content) or writing it does (it stays
\* truncated).  write_mode returns the error, write_files goes on.
FileFault(a) ==
    /\ Fault
    /\ pc[a] \in File
    /\ open' = [open EXCEPT ![a] = FALSE]
    /\ Goto(a, IF pc[a] = "mode" THEN "fail" ELSE AfterFile(a, pc[a]))
    /\ UNCHANGED <<live, etc, kind, job, history, applies, boots>>

\* The machine goes down and boots again: processes and live stack are gone,
\* the files are kept as they are.
Reboot ==
    /\ boots < MaxBoots
    /\ boots' = boots + 1
    /\ pinned' = IF \E a \in Shim : kind[a] = "static" /\ pc[a] = "ok"
                 THEN [addr |-> addr, routes |-> Gateways, resolver |-> resolver]
                 ELSE pinned
    /\ addr' = None /\ routes' = <<>> /\ resolver' = None
    /\ pc' = BootPc
    /\ kind' = [a \in Actor |-> "dhcp"]
    /\ job' = [a \in Actor |-> Blank]
    /\ open' = [a \in Actor |-> FALSE]
    /\ UNCHANGED <<etc, seen, base, applies, faults>>

-----------------------------------------------------------------------------
NewApply == \E a \in Shim : \/ \E c \in Requests : Launch(a, "static", c)
                            \/ Launch(a, "dhcp", Blank)

\* What a process does when nothing goes wrong.
ShimStep(a) ==
    \/ Elevate(a) \/ SetAddr(a) \/ RemoveDefault(a) \/ AddDefault(a)
    \/ SetResolver(a)
    \/ MirrorAddr(a) \/ MirrorRoute(a) \/ MirrorDns(a)
    \/ Truncate(a) \/ Store(a)
DhcpdStep(a) ==
    \/ LeaseGranted(a) \/ LeaseRefused(a)
    \/ DhcpdAddr(a) \/ DhcpdRoute(a) \/ DhcpdDns(a)
BootStep ==
    \/ BootStart \/ BootIp \/ BootSubnet \/ BootRouter \/ BootDns
    \/ WaitSees \/ WaitExpires

Progress(a) == ShimStep(a) \/ DhcpdStep(a) \/ (a = Boot /\ BootStep)
Trouble(a)  == SchemeFault(a) \/ ReadFault(a) \/ FileFault(a)

Next ==
    \/ NewApply
    \/ \E a \in Actor : Progress(a) \/ Trouble(a)
    \/ Reboot

Spec == Init /\ [][Next]_vars

\* A started process is scheduled; dhcpd and wait_for_address have timeouts.
FairSpec == Spec /\ \A a \in Actor : WF_vars(Progress(a))

-----------------------------------------------------------------------------
(* Properties. *)

HasAddress(a) == job[a].ip # None /\ job[a].prefix # None

\* No process reaches a write without the value it is to write.
JobReady ==
    \A a \in Actor :
        /\ pc[a] \in {"elevate", "mode"} /\ kind[a] = "static" => HasAddress(a)
        /\ pc[a] \in {"addr", "rm", "add", "resolver", "d_addr", "d_route", "d_dns",
                      "m_route", "m_dns", "b_router", "b_dns"} \cup AddressFile
               => HasAddress(a)
        /\ pc[a] = "b_subnet" => job[a].ip # None
        /\ pc[a] \in {"rm", "add", "d_route", "router"} => job[a].gateway # None
        /\ pc[a] \in {"resolver", "d_dns", "dns"} => job[a].dns # None

\* Every variable keeps its type: every file holds a value of the format its
\* reader expects, and no process reaches a write with a field still missing,
\* whatever error or overlapping process came before (netcfg.rs:169-375).
TypeOK ==
    /\ addr \in Option([ip : Ip, prefix : PrefixLengths])
    /\ routes \in Seq(Gateway)
    /\ resolver \in Option(Dns)
    /\ etc \in Image
    /\ pc \in [Actor -> Labels]
    /\ kind \in [Actor -> Modes]
    /\ job \in [Actor -> Job]
    /\ open \in [Actor -> BOOLEAN]
    /\ DOMAIN seen = AddressFile
    /\ base \in Image
    /\ applies \in 0 .. MaxApplies /\ boots \in 0 .. MaxBoots
    /\ faults \in 0 .. MaxFaults
    /\ JobReady

\* The files never hold an address, gateway or name server that was not live
\* before, in this boot or an earlier one: netcfg.rs:308 "live scheme first,
\* then the files".  It must survive overlapping applies, the boot service,
\* crashes and write errors, because a boot restores whatever it finds.
LiveBeforeFiles ==
    /\ etc["ip"] # None => etc["ip"] \in seen["ip"]
    /\ etc["router"] # None => etc["router"] \in seen["router"]
    /\ etc["dns"] # None => etc["dns"] \in seen["dns"]

\* Why LiveBeforeFiles holds: what is live, and what a process carries towards
\* the files, has been live.
SeenOrNone(f, v) == v # None => v \in seen[f]

LiveSeen ==
    /\ addr # None => addr.ip \in seen["ip"]
    /\ Gateways \subseteq seen["router"]
    /\ SeenOrNone("dns", resolver)

CarriedSeen ==
    \A a \in Actor :
        /\ pc[a] \in {"m_route", "m_dns"} \cup AddressFile =>
               /\ SeenOrNone("ip", job[a].ip)
               /\ SeenOrNone("router", job[a].gateway)
               /\ SeenOrNone("dns", job[a].dns)
        /\ a # Boot /\ pc[a] \in {"rm", "add", "resolver"} => SeenOrNone("ip", job[a].ip)
        /\ a # Boot /\ pc[a] = "resolver" => SeenOrNone("router", job[a].gateway)

FilesInv == LiveSeen /\ CarriedSeen /\ LiveBeforeFiles

\* When nothing runs, what is live is what the files say, so the GUI, which can
\* read only the files, shows the truth and relibc resolves (netcfg.rs:24-25);
\* unless a call failed: write_files goes on after an error.
AddrVisible   == addr # None => /\ etc["ip"] = addr.ip
                                /\ ReadPrefix(etc["subnet"]) = addr.prefix
RoutesVisible == Gateways \subseteq {etc["router"]}
DnsVisible    == resolver # None => etc["dns"] = resolver

LiveIsVisible == Quiet /\ faults = 0 => AddrVisible /\ RoutesVisible /\ DnsVisible

\* An apply that exits 0 has put everything it was asked for on the live stack,
\* whatever write failed on the way (sys.rs:301, "Ok = the shim authenticated
\* and applied the change").
OkMeansApplied ==
    \A a \in Shim : Quiet /\ pc[a] = "ok" =>
        /\ addr = [ip |-> job[a].ip, prefix |-> job[a].prefix]
        /\ job[a].gateway # None => job[a].gateway \in Gateways
        /\ job[a].dns # None => job[a].dns = resolver

\* An apply that fails, at any step and for any reason, leaves the address
\* files as they were when it was launched (netcfg.rs:334-335).
FailKeepsFiles ==
    \A a \in Shim : pc[a] = "fail" =>
        \A f \in AddressFile : etc[f] = base[f]

\* Why both hold when applies wait for one another: a shim at work, or whose
\* outcome is on show, is the only process at work, so what it wrote stays, and
\* before its first file write an error leaves the files alone.
Alone == \A a \in Shim, b \in Actor : pc[a] # "idle" /\ a # b => pc[b] \in Rest

InForce(a) ==
    /\ pc[a] \in {"rm", "add", "resolver", "m_route", "m_dns", "ok"} \cup AddressFile =>
           addr # None /\ addr = [ip |-> job[a].ip, prefix |-> job[a].prefix]
    /\ pc[a] \in {"resolver", "m_dns", "ok"} \cup AddressFile =>
           (job[a].gateway # None => job[a].gateway \in Gateways)
    /\ pc[a] \in {"ok"} \cup AddressFile => (job[a].dns # None => job[a].dns = resolver)
    /\ pc[a] = "m_route" => job[a].gateway = None
    /\ pc[a] \in {"m_route", "m_dns"} => job[a].dns = None

Untouched(a) ==
    pc[a] \notin {"idle", "ok"} \cup AddressFile =>
        \A f \in AddressFile : etc[f] = base[f]

ModeWritten(a) ==
    pc[a] \notin {"idle", "elevate", "mode", "fail"} => etc["mode"] = kind[a]

OnShimPath(a) ==
    pc[a] \notin {"start", "wait", "b_ip", "b_subnet", "b_router", "b_dns"}

SerialInv ==
    /\ Alone
    /\ \A a \in Shim : InForce(a) /\ Untouched(a) /\ ModeWritten(a) /\ OnShimPath(a)

\* set_default_route replaces the default route (netcfg.rs:187-190): there are
\* never two, be it to the same gateway, unless a call failed: the result of
\* route/rm is ignored.
AtMostOneDefaultRoute == faults = 0 => Len(routes) <= 1

\* Why it holds when applies do not overlap and no lease comes at boot: until a
\* call fails, one process at a time, and no default route from the rm to the add.
OneAtATime ==
    /\ \A a, b \in Shim \cup {Boot} : pc[a] \notin Rest /\ pc[b] \notin Rest => a = b
    /\ pc[Service] \in {"lease", "fail"}

NoRouteYet ==
    \A a \in Shim \cup {Boot} :
        pc[a] \in {"add", "lease", "d_addr", "d_route"} => routes = <<>>

RouteInv == faults = 0 => OneAtATime /\ NoRouteYet /\ AtMostOneDefaultRoute

\* Why LiveIsVisible holds, too: what is live and not in the files yet is what a
\* shim at work still has to write, and a boot makes live what it read there.
AddrDue(a) == pc[a] \in {"rm", "add", "resolver", "d_route", "d_dns", "m_addr", "m_route",
                         "m_dns", "ip", "subnet"}

RouteDue(a) ==
    \/ pc[a] \in {"d_dns", "m_addr", "m_route"}
    \/ pc[a] \in {"m_dns", "resolver", "ip", "subnet", "router"} /\ job[a].gateway # None

DnsDue(a) ==
    \/ pc[a] \in {"m_addr", "m_route", "m_dns"}
    \/ pc[a] \in AddressFile /\ job[a].dns # None

\* What a shim knows of what is due.
DueKnown(a) ==
    /\ pc[a] \in {"d_route", "d_dns", "m_addr"} => addr # None
    /\ pc[a] = "subnet" => etc["ip"] = job[a].ip
    /\ pc[a] \in {"m_dns", "resolver", "ip", "subnet", "router"} /\ job[a].gateway # None =>
           Gateways \subseteq {job[a].gateway}

BootInv ==
    /\ pc[Boot] \in Rest \cup {"start", "wait", "b_ip", "b_subnet", "b_router", "b_dns",
                                "addr", "rm", "add", "resolver"}
    /\ pc[Boot] \in {"start", "wait"} => addr = None
    /\ pc[Boot] \in {"b_subnet", "addr"} => job[Boot].ip = etc["ip"]
    /\ pc[Boot] = "addr" => job[Boot].prefix = ReadPrefix(etc["subnet"])
    /\ pc[Boot] \in {"rm", "add"} => job[Boot].gateway = etc["router"]
    /\ pc[Boot] = "resolver" => job[Boot].dns = etc["dns"]

VisibleInv ==
    faults = 0 =>
        /\ (\A a \in Shim : ~AddrDue(a)) => AddrVisible
        /\ (\A a \in Shim : ~RouteDue(a)) => RoutesVisible
        /\ (\A a \in Shim : ~DnsDue(a)) => DnsVisible
        /\ \A a \in Shim : DueKnown(a)
        /\ BootInv

\* What a static apply put on the live stack is live again once the next boot
\* has settled, also after a crash during that boot (netcfg.rs:344-345), unless
\* a call failed: write_files goes on after an error.
SurvivesReboot ==
    Quiet /\ faults = 0 /\ pinned # None =>
        /\ addr = pinned.addr
        /\ pinned.routes \subseteq Gateways
        /\ pinned.resolver # None => resolver = pinned.resolver

\* Why: from the reboot on, no shim runs, the files say what was live before, and
\* the boot, which cannot take the automatic way, puts it back piece by piece.
Restorable ==
    /\ etc["mode"] = "static"
    /\ pinned.addr \in [ip : Ip, prefix : PrefixLengths]
    /\ etc["ip"] = pinned.addr.ip /\ ReadPrefix(etc["subnet"]) = pinned.addr.prefix
    /\ pinned.routes \subseteq {etc["router"]} \cap Gateway
    /\ pinned.resolver # None => etc["dns"] = pinned.resolver

Restored ==
    /\ pc[Boot] \in {"b_router", "rm", "add", "b_dns", "resolver", "ok"} =>
           addr = pinned.addr
    /\ pc[Boot] \in {"b_dns", "resolver", "ok"} => pinned.routes \subseteq Gateways
    /\ pc[Boot] = "ok" /\ pinned.resolver # None => resolver = pinned.resolver

PinnedInv ==
    faults = 0 /\ pinned # None =>
        /\ \A a \in Shim : pc[a] = "idle"
        /\ pc[Boot] \notin {"idle", "wait", "fail"}
        /\ Restorable /\ Restored

\* In DHCP mode the name server on the live stack is in /etc/net/dns once the
\* boot has settled: "what makes a DHCP-supplied DNS server reach relibc"
\* (netcfg.rs:346-348).
LeasedDnsReachesFiles ==
    Quiet /\ kind[Boot] = "dhcp" /\ resolver # None => etc["dns"] = resolver

\* Every process that is running ends, or the machine reboots.
Terminates == \A a \in Actor : pc[a] \notin Rest ~> pc[a] \in Rest
=============================================================================
