------------------------------ MODULE NetSystem ------------------------------
(***************************************************************************)
(* The network tab and the processes it starts: NetTab, whose workers run  *)
(* one eos-netcfg each, composed with NetCfg, of which they are the shims. *)
(*                                                                         *)
(*   - a worker parses nothing: its argv becomes the configuration of the  *)
(*     shim (netcfg.rs, parse_args), or the shim dies on it,               *)
(*   - the password goes down a pipe, and decides about the elevation,     *)
(*   - the worker waits for the shim, and its exit status is the outcome,  *)
(*     unless the wait fails: then the shim goes on without a worker.      *)
(*                                                                         *)
(* The boot and the service may still run when the window is up, and two   *)
(* applies may overlap.  There is no reboot: the window would go with it.  *)
(***************************************************************************)
EXTENDS NetTab

CONSTANTS Boot, Service, Ip, Gateway, Dns, DefaultPrefix,
          Leases, BootLeases, Images, MaxFaults,        \* see NetCfg
          TypedIp, TypedGateway, TypedDns    \* the addresses the form can hold

VARIABLES
    addr, routes, resolver, etc, pc, kind, job, open,     \* see NetCfg
    seen, base, pinned, launched, boots, faults,
    stdin,     \* per shim: the password on the pipe to it
    left,      \* history: the applies whose worker lost its shim at work
    asked      \* history: what the last confirm asked for, and what it found

Cfg == INSTANCE NetCfg WITH
    Width <- MaxPrefix, Shim <- Applies, Requests <- {}, Overlap <- TRUE,
    MaxBoots <- 0, applies <- launched

ASSUME NetSystemAssumption ==
    /\ TypedIp \in Ip /\ TypedGateway \in Gateway /\ TypedDns \in Dns
    /\ None \notin Gateway /\ None \notin Dns /\ None \notin 0 .. MaxPrefix
    /\ Boot \notin Nat /\ Service \notin Nat /\ Boot # Service
    /\ Images \subseteq Cfg!Image
    /\ Leases \subseteq Cfg!Config

net == <<addr, routes, resolver, etc, pc, kind, job, open, seen, base, pinned,
         launched, boots, faults>>
pipes == <<stdin, left>>
sysvars == <<vars, net, pipes, asked>>

-----------------------------------------------------------------------------
(* From argv to Cfg. *)

JobOf(w) ==
    IF w.mode = "dhcp" THEN Cfg!Blank
    ELSE [ip      |-> TypedIp,
          prefix  |-> w.argv.prefix,
          gateway |-> IF w.argv.gateway = Dash THEN None ELSE TypedGateway,
          dns     |-> IF w.argv.dns = Dash THEN None ELSE TypedDns]

-----------------------------------------------------------------------------
Snap == [addr |-> addr, routes |-> routes, resolver |-> resolver, etc |-> etc]

\* Does nothing run that a confirm could overlap with?
Calm == /\ Cfg!Quiet /\ posted = <<>>
        /\ \A k \in Applies : worker[k].at \in {"none", "ended"}

SysInit ==
    /\ Init /\ Cfg!Init
    /\ stdin = [k \in Applies |-> None] /\ left = {}
    /\ asked = [mode |-> None, form |-> form, password |-> None, calm |-> FALSE,
                before |-> Snap]

(* The window, and the worker when it is not waiting. *)

Confirms ==
    /\ NetApply
    /\ asked' = [mode |-> Mode, form |-> form, password |-> password, calm |-> Calm,
                 before |-> Snap]
    /\ UNCHANGED <<net, pipes>>

Posts(k) == Post(k) /\ UNCHANGED <<net, pipes, asked>>

Delivers == Deliver /\ UNCHANGED <<net, pipes, asked>>

\* A bound for TLC: the window is left alone after the last apply.
Window ==
    /\ applies < MaxApplies
    /\ \/ Confirms
       \/ (User \/ Refresh) /\ applies' = applies /\ UNCHANGED <<net, pipes, asked>>

\* run_shim, up to the wait: the shim is there and the password on its stdin.
StartShim(k) ==
    /\ worker[k].at = "shim" /\ pc[k] = "idle"
    /\ ParseArgs(worker[k].mode, worker[k].argv)
    /\ Cfg!Launch(k, worker[k].mode, JobOf(worker[k]))
    /\ stdin' = [stdin EXCEPT ![k] = worker[k].password]
    /\ UNCHANGED <<vars, left, asked>>

\* There is no eos-netcfg to spawn, or it dies on its argv.
NoShim(k) ==
    /\ worker[k].at = "shim" /\ pc[k] = "idle"
    /\ worker' = [worker EXCEPT ![k] = Outcome(@, "fail")]
    /\ UNCHANGED <<window, applies, posted, reported, net, pipes, asked>>

\* wait() returns an error: so does run_shim, and the shim goes on.
WaitFails(k) ==
    /\ worker[k].at = "shim" /\ pc[k] \notin Cfg!Rest
    /\ worker' = [worker EXCEPT ![k] = Outcome(@, "fail")]
    /\ left' = left \cup {k}
    /\ UNCHANGED <<window, applies, posted, reported, net, stdin, asked>>

\* Mutant of Authentic: whoever asks is elevated.
AuthenticAnyone(a) == TRUE

\* The line on the pipe is the password of the elevation.
Authentic(a) == Cfg!At(a, "elevate") /\ pc'[a] = "mode" => stdin[a] = Right

\* Mutant of Waits: the exit status is not looked at.
WaitsForOk(k) ==
    IF worker[k].at = "shim" /\ pc[k] \notin Cfg!Rest /\ pc'[k] \in Cfg!Rest
    THEN Outcome(worker[k], "ok")
    ELSE worker[k]

\* wait() returns when the shim exits, with its status.
Waits(k) ==
    IF worker[k].at = "shim" /\ pc[k] \notin Cfg!Rest /\ pc'[k] \in Cfg!Rest
    THEN Outcome(worker[k], pc'[k])
    ELSE worker[k]

Runs(a) ==
    /\ Cfg!Progress(a) \/ Cfg!Trouble(a)
    /\ Authentic(a)
    /\ worker' = [k \in Applies |-> Waits(k)]
    /\ UNCHANGED <<window, applies, posted, reported, pipes, asked>>

-----------------------------------------------------------------------------
SysNext ==
    \/ Window \/ Delivers
    \/ \E k \in Applies : Posts(k) \/ StartShim(k) \/ NoShim(k) \/ WaitFails(k)
    \/ \E a \in Cfg!Actor : Runs(a)

SysSpec == SysInit /\ [][SysNext]_sysvars

\* Threads, processes and the event loop are scheduled.
SysFairSpec ==
    /\ SysSpec
    /\ WF_sysvars(Delivers)
    /\ \A k \in Applies : WF_sysvars(Posts(k)) /\ WF_sysvars(StartShim(k) \/ NoShim(k))
    /\ \A a \in Cfg!Actor : WF_sysvars(Runs(a))

-----------------------------------------------------------------------------
(* Properties. *)

\* What NetTab says of a worker, that its shim succeeds or fails in one step and
\* comes to an end, is what the real shims do, with all their writes, timeouts
\* and errors and whatever else is running (sys.rs:299-326).
ImplementsWindow == FairSpec

\* No value reaches /etc/net that was not live before, also when an apply mirrors
\* or writes files while the boot pushes other files onto the live stack
\* (netcfg.rs:205-248, netcfg.rs:340-357).
FilesWereLive == Cfg!LiveBeforeFiles

\* The live stack and the files as the confirmed form wants them.
TypedOr(t, typed, before) == IF t.what = "empty" THEN before ELSE typed

AddrAsAsked == addr = [ip |-> TypedIp, prefix |-> asked.form.prefix]

TypedRoute == <<TypedGateway>>

RoutesAsAsked ==
    IF asked.form.gateway.what = "empty" THEN routes = asked.before.routes
    ELSE TypedGateway \in Cfg!Gateways /\ (faults = 0 => routes = TypedRoute)

ResolverAsAsked == resolver = TypedOr(asked.form.dns, TypedDns, asked.before.resolver)

RouterFileAsAsked ==
    etc["router"] = TypedOr(asked.form.gateway, TypedGateway, asked.before.etc["router"])

DnsFileAsAsked == etc["dns"] = TypedOr(asked.form.dns, TypedDns, asked.before.etc["dns"])

FilesAsAsked ==
    /\ etc["ip"] = TypedIp /\ etc["subnet"] = Cfg!PrefixToNetmask(asked.form.prefix)
    /\ RouterFileAsAsked /\ DnsFileAsAsked

\* The files as the live stack has it; what it does not have is left as it was.
FilesAsLive ==
    /\ etc["ip"] = addr.ip /\ etc["subnet"] = Cfg!PrefixToNetmask(addr.prefix)
    /\ Cfg!Gateways # {} => etc["router"] \in Cfg!Gateways
    /\ resolver # None => etc["dns"] = resolver

InForce ==
    IF asked.mode = "dhcp"
    THEN addr # None /\ etc["mode"] = "dhcp" /\ (faults = 0 => FilesAsLive)
    ELSE /\ AddrAsAsked /\ RoutesAsAsked /\ ResolverAsAsked
         /\ etc["mode"] = "static" /\ (faults = 0 => FilesAsAsked)

\* "Applied" on the status line means that what the person confirmed is what the
\* machine does: the address that was typed, and the gateway and name server, those
\* left empty as they were; in automatic mode, that there is an address (gui.rs:411,
\* sys.rs:301).  Every file the next boot restores from says the same, unless a call
\* failed: write_files goes on after an error.  All this unless something else was
\* reconfiguring at the time of the confirm.
OkIsInForce == asked.calm /\ status = "ok" => InForce

FilesKept == \A f \in Cfg!AddressFile : etc[f] = asked.before.etc[f]

\* "Failed" means that the address files are those of before the confirm, and that
\* with a wrong password nothing at all was touched (gui.rs:412, sys.rs:301), under
\* the same condition.  A worker that could not wait (sys.rs:323) says "failed" of a
\* shim that goes on: the files are then kept if that shim fails, and if it does not
\* what was confirmed is in force.
FailIsHarmless ==
    asked.calm /\ status = "fail" =>
        /\ asked.password # Right => Snap = asked.before
        /\ applies \notin left \/ pc[applies] = "fail" => FilesKept
        /\ pc[applies] = "ok" => applies \in left /\ InForce

\* Why both hold: after a calm confirm only the shim of that apply can run, it has
\* what was confirmed, and its outcome is in one place on its way to the window.
OnlyLast ==
    /\ applies \in Applies
    /\ \A k \in Applies : k # applies => worker[k].at \in {"none", "ended"}
    /\ \A a \in Cfg!Actor : a # applies => pc[a] \in Cfg!Rest
    /\ worker[applies].at # "none"
    /\ posted # <<>> => /\ worker[applies].at = "ended"
                        /\ posted \in {<<Report(applies, "ok")>>,
                                        <<Report(applies, "fail")>>}
    /\ worker[applies].at # "ended" \/ posted # <<>> => status = "busy"
    /\ worker[applies].at = "shim" => pc[applies] \notin {"ok", "fail"}
                                      /\ applies \notin left
    /\ pc[applies] \notin Cfg!Rest /\ applies \notin left => worker[applies].at = "shim"

Told(l) == \/ worker[applies].at = l
           \/ posted = <<Report(applies, l)>>
           \/ status = l

AskedJob ==
    [ip      |-> TypedIp,
     prefix  |-> asked.form.prefix,
     gateway |-> IF asked.form.gateway.what = "empty" THEN None ELSE TypedGateway,
     dns     |-> IF asked.form.dns.what = "empty" THEN None ELSE TypedDns]

Carries ==
    /\ asked.mode \in {"static", "dhcp"}
    /\ worker[applies].at = "shim" =>
           /\ worker[applies].mode = asked.mode
           /\ worker[applies].password = asked.password
           /\ asked.mode = "static" => JobOf(worker[applies]) = AskedJob
    /\ pc[applies] # "idle" =>
           /\ kind[applies] = asked.mode
           /\ asked.mode = "static" => job[applies] = AskedJob
           /\ stdin[applies] = asked.password

\* Nothing is touched without the right password, nor an address file before the
\* step that writes the first of them, from which there is no way to a failure.
HandsOff ==
    /\ asked.password # Right => Snap = asked.before
    /\ pc[applies] = "idle" => Snap = asked.before
    /\ pc[applies] \notin Cfg!AddressFile \cup {"ok"} => FilesKept
    /\ Told("fail") /\ applies \notin left => pc[applies] \in {"idle", "fail"}
    /\ Told("ok") => pc[applies] = "ok" /\ applies \notin left

\* What is in force when the shim has come to label l: on the live stack, and of
\* the files until a call fails.
ReachedStatic(l) ==
    /\ l \in {"elevate", "mode", "addr", "rm", "add", "resolver", "ok", "fail"}
            \cup Cfg!AddressFile
    /\ asked.form.prefix \in 0 .. MaxPrefix
    /\ l \notin {"elevate", "mode", "fail"} => etc["mode"] = "static"
    /\ l \in {"elevate", "mode", "addr"} => addr = asked.before.addr
    /\ l \in {"rm", "add", "resolver", "ok"} \cup Cfg!AddressFile => AddrAsAsked
    /\ l \in {"elevate", "mode", "addr", "rm"} => routes = asked.before.routes
    /\ l = "add" /\ faults = 0 => routes = <<>>
    /\ l \in {"rm", "add", "router"} => AskedJob.gateway # None
    /\ l \in {"resolver", "ok"} \cup Cfg!AddressFile => RoutesAsAsked
    /\ l \in {"elevate", "mode", "addr", "rm", "add", "resolver"} =>
           resolver = asked.before.resolver
    /\ l \in {"resolver", "dns"} => AskedJob.dns # None
    /\ l \in {"ok"} \cup Cfg!AddressFile => ResolverAsAsked

FiledStatic(l) ==
    /\ l \in {"subnet", "router", "dns", "ok"} => etc["ip"] = TypedIp
    /\ l \in {"router", "dns", "ok"} =>
           etc["subnet"] = Cfg!PrefixToNetmask(asked.form.prefix)
    /\ l \in {"ip", "subnet"} => etc["router"] = asked.before.etc["router"]
    /\ l \in {"dns", "ok"} => RouterFileAsAsked
    /\ l \in {"ip", "subnet", "router"} => etc["dns"] = asked.before.etc["dns"]
    /\ l = "ok" => DnsFileAsAsked

ReachedDhcp(l) ==
    /\ l \in {"elevate", "mode", "drop", "lease", "d_addr", "d_route", "d_dns", "m_addr",
              "m_route", "m_dns", "ok", "fail"} \cup Cfg!AddressFile
    /\ l \notin {"elevate", "mode", "fail"} => etc["mode"] = "dhcp"
    /\ l \in {"m_route", "m_dns", "ok"} \cup Cfg!AddressFile => addr # None

LeaseInHand(l) ==
    /\ l = "d_addr" => job[applies] \in Cfg!Config
    /\ l = "d_route" => job[applies].gateway # None
    /\ l \in {"lease", "d_addr", "d_route"} => routes = <<>>
    /\ l \in {"d_dns", "m_addr", "m_route", "m_dns"} => None \notin Cfg!Gateways
    /\ l \in {"d_route", "d_dns", "m_addr"} => addr.prefix # None

FiledDhcp(l) ==
    /\ l \in {"m_route", "m_dns", "ip", "subnet"} =>
           job[applies].ip = addr.ip /\ job[applies].prefix = addr.prefix
    /\ l \in {"m_route", "m_dns", "ip", "subnet"} => addr.prefix # None
    /\ l \in {"m_dns", "ip", "subnet", "router"} /\ Cfg!Gateways # {} =>
           job[applies].gateway \in Cfg!Gateways \ {None}
    /\ l \in Cfg!AddressFile => job[applies].dns = resolver
    /\ l = "router" => job[applies].gateway # None
    /\ l = "dns" => job[applies].dns # None
    /\ l \in {"subnet", "router", "dns", "ok"} => etc["ip"] = addr.ip
    /\ l \in {"router", "dns", "ok"} => etc["subnet"] = Cfg!PrefixToNetmask(addr.prefix)
    /\ l \in {"dns", "ok"} /\ Cfg!Gateways # {} => etc["router"] \in Cfg!Gateways
    /\ l = "ok" /\ resolver # None => etc["dns"] = resolver

Reached(l) ==
    IF asked.mode = "static"
    THEN ReachedStatic(l) /\ (faults = 0 => FiledStatic(l))
    ELSE ReachedDhcp(l) /\ (faults = 0 => LeaseInHand(l) /\ FiledDhcp(l))

InForceInv == pc[applies] # "idle" => Reached(pc[applies])

Domains ==
    /\ DOMAIN etc = Cfg!File /\ DOMAIN kind = Cfg!Actor /\ DOMAIN job = Cfg!Actor
    /\ faults \in Nat

Shapes == Domains /\ routes \in Seq(Cfg!Gateways)

CalmInv == asked.calm => OnlyLast /\ Carries /\ HandsOff /\ InForceInv
=============================================================================
