------------------------------- MODULE NetTab -------------------------------
(***************************************************************************)
(* The network tab of the window (ui/control.slint, src/gui.rs) and what   *)
(* it asks of eos-netcfg: the form, the two-step confirm, the worker       *)
(* thread of each apply with the checks of sys::apply_static and           *)
(* apply_dhcp, the argv it builds, and the parse of that argv at the other *)
(* end (src/netcfg.rs).  What the shim then does is NetCfg; here it        *)
(* succeeds or fails.                                                      *)
(***************************************************************************)
EXTENDS Integers, Sequences

CONSTANTS MaxPrefix,     \* 32
          Numbers,       \* what the prefix field may parse to
          Texts,         \* what the other fields may hold, a subset of Text
          Prefilled,     \* form contents run() may start with
          Tiles,         \* interface names the stack may list, a subset of Name
          Passwords, Right,
          MaxApplies,    \* bound for TLC
          None

\* What a text holds once it is trimmed, and whether there are spaces to trim: a
\* field of nothing but spaces is empty and padded.  "-" is something else.
Text    == [what : {"empty", "address", "other"}, padded : BOOLEAN]
Empty   == [what |-> "empty", padded |-> FALSE]
Trim(t) == [what |-> t.what, padded |-> FALSE]

\* An interface name is plausible, or it is not (a slash, a space, too long);
\* None is the dash of an unknown one.
Name == {"eth0", "odd"}

Form == [ip : Texts, prefix : Numbers \cup {None}, gateway : Texts, dns : Texts]

ASSUME NetTabAssumption ==
    /\ MaxPrefix \in 0 .. 255 /\ Numbers \subseteq Nat
    /\ Texts \subseteq Text /\ Tiles \subseteq Name
    /\ Prefilled \subseteq Form
    /\ Right \in Passwords /\ Right # None
    /\ MaxApplies \in Nat
    /\ None \notin Numbers /\ None \notin Name /\ None \notin {"static", "dhcp"}

Applies == 1 .. MaxApplies

VARIABLES
    tile,          \* net-iface: the interface on show, None for a dash
    form,          \* net-set-*: the static edit form
    wantStatic,    \* net-want-static
    confirm,       \* net-confirm
    password,      \* net-password, None when empty
    status,        \* net-status: None, "busy", "ok" or "fail"
    applies,       \* how many applies were confirmed
    worker,        \* per apply: where its thread is and what it hands over
    posted,        \* outcomes on their way to the event loop
    reported       \* history: the applies whose outcome was on the status line

window == <<tile, form, wantStatic, confirm, password, status>>
vars   == <<window, applies, worker, posted, reported>>

\* The closure that shows the outcome l of apply k.
Report(k, l) == [apply |-> k, outcome |-> l]

Mode == IF wantStatic THEN "static" ELSE "dhcp"

-----------------------------------------------------------------------------
(* Checks of the GUI: netcore's validators, apply_static and apply_dhcp. *)

\* valid_ipv4 trims before it parses.
ValidIpv4(t) == t.what = "address"

ValidPrefix(p) == p \in 0 .. MaxPrefix

ValidIface(n) == n = "eth0"

\* An unparseable prefix becomes -1.
ParsePrefix(p) == IF p = None THEN -1 ELSE p

Iface == IF tile = None THEN "eth0" ELSE tile

\* An empty field is handed over as "-", "leave unchanged".
Dash        == [what |-> "dash", padded |-> FALSE]
OrDash(t)   == IF t = Empty THEN Dash ELSE t

\* Mutant of StaticArgv: the fields go out as they were typed.
StaticArgvUntrimmed ==
    [iface |-> Iface, ip |-> form.ip, prefix |-> ParsePrefix(form.prefix),
     gateway |-> OrDash(form.gateway), dns |-> OrDash(form.dns)]

StaticArgv ==
    [iface |-> Iface, ip |-> Trim(form.ip), prefix |-> ParsePrefix(form.prefix),
     gateway |-> OrDash(Trim(form.gateway)), dns |-> OrDash(Trim(form.dns))]

\* Mutant of StaticChecks: the prefix is not looked at.
StaticChecksNoPrefix ==
    /\ ValidIpv4(form.ip)
    /\ Trim(form.gateway) = Empty \/ ValidIpv4(form.gateway)
    /\ Trim(form.dns) = Empty \/ ValidIpv4(form.dns)
    /\ ValidIface(Iface)

StaticChecks ==
    /\ ValidIpv4(form.ip)
    /\ ValidPrefix(ParsePrefix(form.prefix))
    /\ Trim(form.gateway) = Empty \/ ValidIpv4(form.gateway)
    /\ Trim(form.dns) = Empty \/ ValidIpv4(form.dns)
    /\ ValidIface(Iface)

\* What the worker hands to the shim, None when a check fails.
Argv ==
    IF wantStatic
    THEN IF StaticChecks THEN StaticArgv ELSE None
    ELSE IF ValidIface(Iface) THEN [iface |-> Iface] ELSE None

-----------------------------------------------------------------------------
(* eos-netcfg parses again, and more strictly: Ipv4Addr::from_str takes no   *)
(* space, the prefix must be a u8, and "-" is the only way to say nothing.   *)

FromStr(t) == t.what = "address" /\ ~t.padded

ParseArgs(mode, a) ==
    /\ ValidIface(a.iface)
    /\ mode = "static" =>
           /\ FromStr(a.ip)
           /\ a.prefix \in 0 .. 255 /\ a.prefix <= MaxPrefix
           /\ a.gateway = Dash \/ FromStr(a.gateway)
           /\ a.dns = Dash \/ FromStr(a.dns)

-----------------------------------------------------------------------------
NoWorker == [at |-> "none", mode |-> None, argv |-> None, password |-> None]

\* run() refreshes once, then seeds the form and the mode from the live values.
Init ==
    /\ tile \in Tiles \cup {"eth0"}
    /\ form \in Prefilled
    /\ wantStatic \in BOOLEAN
    /\ confirm = FALSE /\ password = None /\ status = None
    /\ applies = 0
    /\ worker = [k \in Applies |-> NoWorker]
    /\ posted = <<>> /\ reported = {}

-----------------------------------------------------------------------------
(* The event loop: clicks, typing, the timer. *)

Loop == UNCHANGED <<status, applies, worker, posted, reported>>

\* refresh shows the first interface the stack lists, eth0 if it lists none.
\* It leaves the form and the mode alone.
Refresh ==
    /\ tile' \in Tiles \cup {"eth0"}
    /\ UNCHANGED <<form, wantStatic, confirm, password>>
    /\ Loop

\* Mutants of SelectMode: the confirm stays armed; the password stays.
SelectModeArmed(static) ==
    /\ wantStatic' = static
    /\ UNCHANGED <<tile, form, confirm, password>>
    /\ Loop
SelectModeKeepsPassword(static) ==
    /\ wantStatic' = static
    /\ confirm' = FALSE
    /\ UNCHANGED <<tile, form, password>>
    /\ Loop

SelectMode(static) ==
    /\ wantStatic' = static
    /\ confirm' = FALSE
    /\ password' = None
    /\ UNCHANGED <<tile, form>>
    /\ Loop

\* The fields are enabled in static mode, armed or not.
Edit ==
    /\ wantStatic
    /\ \/ \E t \in Texts, f \in {"ip", "gateway", "dns"} : form' = [form EXCEPT ![f] = t]
       \/ \E p \in Numbers \cup {None} : form' = [form EXCEPT !.prefix = p]
    /\ UNCHANGED <<tile, wantStatic, confirm, password>>
    /\ Loop

Arm ==
    /\ ~confirm
    /\ confirm' = TRUE
    /\ UNCHANGED <<tile, form, wantStatic, password>>
    /\ Loop

\* The field is there only while the confirm is armed.
Type(p) ==
    /\ confirm
    /\ password' = p
    /\ UNCHANGED <<tile, form, wantStatic, confirm>>
    /\ Loop

Cancel ==
    /\ confirm
    /\ confirm' = FALSE
    /\ password' = None
    /\ UNCHANGED <<tile, form, wantStatic>>
    /\ Loop

\* on_net_apply: take what the window holds, disarm, spawn the worker.  Its
\* checks see nothing but its own copies, so their verdict is taken here.
NetApply ==
    /\ confirm
    /\ applies < MaxApplies
    /\ applies' = applies + 1
    /\ worker' = [worker EXCEPT ![applies + 1] =
           [at |-> IF Argv = None THEN "fail" ELSE "shim",
            mode |-> Mode, argv |-> Argv, password |-> password]]
    /\ confirm' = FALSE
    /\ password' = None
    /\ status' = "busy"
    /\ UNCHANGED <<tile, form, wantStatic, posted, reported>>

\* The loop runs the closure that upgrade_in_event_loop queued.
Deliver ==
    /\ posted # <<>>
    /\ status' = Head(posted).outcome
    /\ posted' = Tail(posted)
    /\ reported' = reported \cup {Head(posted).apply}
    /\ UNCHANGED <<tile, form, wantStatic, confirm, password, applies, worker>>

-----------------------------------------------------------------------------
(* The worker thread of apply k. *)

\* What is left of a worker when run_shim returns: its copies are dropped.
Outcome(w, l) == [NoWorker EXCEPT !.at = l, !.mode = w.mode]

\* run_shim: spawn, hand over the password, wait.  The shim may be missing, dies
\* on argv it cannot parse, wants the right password, and may fail later; or the
\* wait fails.
RunShim(k) ==
    /\ worker[k].at = "shim"
    /\ \/ /\ ParseArgs(worker[k].mode, worker[k].argv)
          /\ worker[k].password = Right
          /\ worker' = [worker EXCEPT ![k] = Outcome(@, "ok")]
       \/ worker' = [worker EXCEPT ![k] = Outcome(@, "fail")]
    /\ UNCHANGED <<window, applies, posted, reported>>

\* Mutant of Post: one slot for an outcome instead of a queue.
PostOver(k) ==
    /\ worker[k].at \in {"ok", "fail"}
    /\ worker' = [worker EXCEPT ![k].at = "ended"]
    /\ posted' = <<Report(k, worker[k].at)>>
    /\ UNCHANGED <<window, applies, reported>>

Post(k) ==
    /\ worker[k].at \in {"ok", "fail"}
    /\ worker' = [worker EXCEPT ![k].at = "ended"]
    /\ posted' = Append(posted, Report(k, worker[k].at))
    /\ UNCHANGED <<window, applies, reported>>

-----------------------------------------------------------------------------
User == \/ \E static \in BOOLEAN : SelectMode(static)
        \/ Edit \/ Arm \/ Cancel \/ NetApply
        \/ \E p \in Passwords \cup {None} : Type(p)

Work(k) == RunShim(k) \/ Post(k)

Next == User \/ Refresh \/ Deliver \/ \E k \in Applies : Work(k)

Spec == Init /\ [][Next]_vars

\* Threads and the queue of the event loop make progress; a shim ends, because
\* what it waits for has timeouts (NetCfg).
FairSpec == Spec /\ WF_vars(Deliver) /\ \A k \in Applies : WF_vars(Work(k))

-----------------------------------------------------------------------------
(* Properties. *)

\* Every variable keeps its type; a worker that passed the checks has a whole
\* argv in hand, with a prefix in range (sys.rs:247-276).
Command == [iface : {"eth0"}, ip : Text, prefix : 0 .. MaxPrefix,
            gateway : Text \cup {Dash}, dns : Text \cup {Dash}]
Lease   == [iface : {"eth0"}]
Worker  == [at : {"none", "shim", "ok", "fail", "ended"},
            mode : {"static", "dhcp", None},
            argv : Command \cup Lease \cup {None},
            password : Passwords \cup {None}]

TypeOK ==
    /\ tile \in Name \cup {None}
    /\ form \in Form
    /\ wantStatic \in BOOLEAN /\ confirm \in BOOLEAN
    /\ password \in Passwords \cup {None}
    /\ status \in {None, "busy", "ok", "fail"}
    /\ applies \in 0 .. MaxApplies
    /\ worker \in [Applies -> Worker]
    /\ \A k \in Applies :
           worker[k].at = "shim" =>
               worker[k].argv \in IF worker[k].mode = "static" THEN Command ELSE Lease
    /\ posted \in Seq([apply : Applies, outcome : {"ok", "fail"}])
    /\ reported \subseteq Applies

\* The GUI never starts the root shim with argv its own parser turns down: the
\* two sets of checks, written apart, agree on every form (sys.rs:247-297 and
\* netcfg.rs:93-138).
ArgvParses ==
    \A k \in Applies :
        worker[k].at = "shim" => ParseArgs(worker[k].mode, worker[k].argv)

\* No password outlives the confirm it was typed for, in the window
\* (gui.rs:393-396, control.slint:360-384).
PasswordIsForgotten == password # None => confirm

\* The outcome of each apply comes to the status line in the end, so that "in
\* progress" never stays, however several applies interleave (gui.rs:397-417).
ApplyReported == \A k \in Applies : k <= applies ~> k \in reported

\* A mode change is a two-step confirm: "nobody can arm one mode, switch, and
\* confirm something they didn't read" (control.slint:360-362).
Armed    == IF confirm THEN Mode ELSE None
Executed == IF applies = 0 THEN None ELSE worker[applies].mode

Confirmed == INSTANCE TwoStep WITH
    Target <- {"static", "dhcp"}, armed <- Armed, executed <- Executed, count <- applies

ConfirmsInTwoSteps == Confirmed!Spec
=============================================================================
