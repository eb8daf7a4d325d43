------------------------------ MODULE PowerTab ------------------------------
(***************************************************************************)
(* Reboot and shutdown: the power tab of the window (ui/control.slint,     *)
(* src/gui.rs, src/sys.rs), the eos-power shim it spawns for each request  *)
(* (src/power.rs) and the elevation handshake (src/elevate.rs).            *)
(*                                                                         *)
(* The handler runs on the event loop and waits for the shim, so a shim    *)
(* that never ends freezes the window.  The password travels over a pipe,  *)
(* which the shim reads up to its end.                                     *)
(***************************************************************************)
EXTENDS Naturals

CONSTANTS Wrong,      \* passwords the daemon rejects, besides the empty one
          Right,      \* the user's password
          MaxCalls,   \* bound for TLC
          None        \* no action, and the empty text

Password == Wrong \cup {Right, None}
Calls    == 1 .. MaxCalls
Actions  == {"reboot", "shutdown"}

ASSUME PowerAssumption ==
    /\ Right \notin Wrong /\ Right # None
    /\ MaxCalls \in Nat
    /\ None \notin Actions \cup {"ok", "fail"}

VARIABLES
    confirm,    \* the buttons that are armed: confirm-reboot, confirm-shutdown
    password,   \* power-password
    status,     \* power-status: None, "ok" or "fail"
    gui,        \* where the handler is: "idle" when none runs
    calls,      \* how many requests were made
    shim,       \* per request: the process, its argument and its stdin
    kstop,      \* sys:kstop, the last action written
    up          \* is the machine running?

window == <<confirm, password, status>>
vars   == <<window, gui, calls, shim, kstop, up>>

Handshake == {"open", "auth", "procfd", "ns"}
Stages    == {"none", "stdin", "kstop", "ok", "fail"} \cup Handshake
Exited(k) == shim[k].at \in {"ok", "fail"}

\* typed is the argument of the handler, text what its pipe holds, writer
\* whether the handler still has the pipe open.
Request == [at : Stages, action : Actions \cup {None}, typed : Password,
            text : Password, writer : BOOLEAN]
NoShim  == [at |-> "none", action |-> None, typed |-> None,
            text |-> None, writer |-> FALSE]

Init ==
    /\ confirm = {} /\ password = None /\ status = None
    /\ gui = "idle" /\ calls = 0
    /\ shim = [k \in Calls |-> NoShim]
    /\ kstop = None /\ up = TRUE

-----------------------------------------------------------------------------
(* Clicks and typing: the event loop is idle. *)

Click == up /\ gui = "idle" /\ UNCHANGED <<status, shim, kstop, up>>

\* Mutant of Arm: the other button stays visible.
ArmBoth(action) ==
    /\ Click
    /\ confirm' = confirm \cup {action}
    /\ UNCHANGED <<password, gui, calls>>

Arm(action) ==
    /\ Click
    /\ confirm = {}
    /\ confirm' = {action}
    /\ UNCHANGED <<password, gui, calls>>

\* The field is there only while something is armed.
Type(p) ==
    /\ Click
    /\ confirm # {}
    /\ password' = p
    /\ UNCHANGED <<confirm, gui, calls>>

\* Mutant of Cancel: the password stays in the field.
CancelKeepsPassword ==
    /\ Click
    /\ confirm # {}
    /\ confirm' = {}
    /\ UNCHANGED <<password, gui, calls>>

Cancel ==
    /\ Click
    /\ confirm # {}
    /\ confirm' = {}
    /\ password' = None
    /\ UNCHANGED <<gui, calls>>

\* "Potwierdź": on_reboot or on_shutdown is called with the password.
Confirm(action) ==
    /\ up /\ gui = "idle"
    /\ action \in confirm
    /\ calls < MaxCalls
    /\ calls' = calls + 1
    /\ shim' = [shim EXCEPT ![calls + 1] =
                   [NoShim EXCEPT !.action = action, !.typed = password]]
    /\ gui' = "spawn"
    /\ UNCHANGED <<window, kstop, up>>

-----------------------------------------------------------------------------
(* sys::power, on the event loop. *)

Handler == up /\ UNCHANGED <<calls, kstop, up>>

\* Mutant of Return: the confirm stays armed.
ReturnArmed(s) ==
    /\ gui' = "idle"
    /\ status' = s
    /\ password' = None
    /\ UNCHANGED confirm

\* The handler shows the outcome, then the click disarms and clears.
Return(s) ==
    /\ gui' = "idle"
    /\ status' = s
    /\ confirm' = {}
    /\ password' = None

SpawnShim ==
    /\ Handler
    /\ gui = "spawn"
    /\ \/ /\ Return("fail")                       \* no such program
          /\ UNCHANGED shim
       \/ /\ gui' = "write"
          /\ shim' = [shim EXCEPT ![calls].at = "stdin", ![calls].writer = TRUE]
          /\ UNCHANGED window

\* The result of writeln! is ignored.
WritePassword ==
    /\ Handler
    /\ gui = "write"
    /\ gui' = "close"
    /\ \E t \in {shim[calls].typed, None} : shim' = [shim EXCEPT ![calls].text = t]
    /\ UNCHANGED window

\* Mutant of CloseStdin: the write end outlives the call to wait.
CloseStdinLate ==
    /\ Handler
    /\ gui = "close"
    /\ gui' = "wait"
    /\ UNCHANGED <<shim, window>>

\* stdin is dropped at the end of its block.
CloseStdin ==
    /\ Handler
    /\ gui = "close"
    /\ gui' = "wait"
    /\ shim' = [shim EXCEPT ![calls].writer = FALSE]
    /\ UNCHANGED window

WaitShim ==
    /\ Handler
    /\ gui = "wait"
    /\ Exited(calls)
    /\ Return(shim[calls].at)
    /\ UNCHANGED shim

\* wait itself fails; the shim goes on alone.
WaitFails ==
    /\ Handler
    /\ gui = "wait"
    /\ Return("fail")
    /\ UNCHANGED shim

-----------------------------------------------------------------------------
(* eos-power. *)

Shim(k, l) ==
    /\ up
    /\ shim' = [shim EXCEPT ![k].at = l]
    /\ UNCHANGED <<window, gui, calls, up>>

\* read_to_string returns at the end of the pipe; its result is ignored.
ReadStdin(k) ==
    /\ up
    /\ shim[k].at = "stdin"
    /\ ~shim[k].writer
    /\ \E t \in {shim[k].text, None} :
           shim' = [shim EXCEPT ![k].at = "open", ![k].text = t]
    /\ UNCHANGED <<window, gui, calls, kstop, up>>

OpenSudo(k) ==
    /\ shim[k].at = "open"
    /\ \E l \in {"auth", "fail"} : Shim(k, l)
    /\ UNCHANGED kstop

\* Mutant of Authenticate: the result of the write is ignored.
AuthenticateAnyone(k) ==
    /\ shim[k].at = "auth"
    /\ Shim(k, "procfd")
    /\ UNCHANGED kstop

\* The daemon checks the password (and the sudo group).
Authenticate(k) ==
    /\ shim[k].at = "auth"
    /\ \/ shim[k].text = Right /\ Shim(k, "procfd")
       \/ Shim(k, "fail")
    /\ UNCHANGED kstop

\* dup and call_wo, then openat and setns.
ElevateProcess(k) ==
    /\ shim[k].at = "procfd"
    /\ \E l \in {"ns", "fail"} : Shim(k, l)
    /\ UNCHANGED kstop

SwitchNamespace(k) ==
    /\ shim[k].at = "ns"
    /\ \E l \in {"kstop", "fail"} : Shim(k, l)
    /\ UNCHANGED kstop

\* Mutant of WriteKstop: exits 0 whether or not the write succeeded.
WriteKstopUnchecked(k) ==
    /\ shim[k].at = "kstop"
    /\ Shim(k, "ok")
    /\ kstop' \in {kstop, shim[k].action}

WriteKstop(k) ==
    /\ shim[k].at = "kstop"
    /\ \/ Shim(k, "ok") /\ kstop' = shim[k].action
       \/ Shim(k, "fail") /\ UNCHANGED kstop

\* The kernel takes the machine down, at any time after the write.
GoDown ==
    /\ up /\ kstop # None
    /\ up' = FALSE
    /\ UNCHANGED <<window, gui, calls, shim, kstop>>

-----------------------------------------------------------------------------
User == \/ \E action \in Actions : Arm(action) \/ Confirm(action)
        \/ \E p \in Password : Type(p)
        \/ Cancel

HandlerStep == SpawnShim \/ WritePassword \/ CloseStdin \/ WaitShim

ShimStep(k) == \/ ReadStdin(k) \/ OpenSudo(k) \/ Authenticate(k)
               \/ ElevateProcess(k) \/ SwitchNamespace(k) \/ WriteKstop(k)

Next == User \/ HandlerStep \/ WaitFails \/ (\E k \in Calls : ShimStep(k)) \/ GoDown

Spec == Init /\ [][Next]_vars

\* The event loop and the shims are scheduled; nothing is assumed of the user, and
\* no error is counted on.
FairSpec == Spec /\ WF_vars(HandlerStep) /\ \A k \in Calls : WF_vars(ShimStep(k))

-----------------------------------------------------------------------------
(* Properties. *)

\* Every variable keeps its type; at most one of the two buttons is armed, and a
\* handler that runs was confirmed (control.slint:540-555).
TypeOK ==
    /\ confirm \subseteq Actions /\ \A a, b \in confirm : a = b
    /\ password \in Password
    /\ status \in {None, "ok", "fail"}
    /\ gui \in {"idle", "spawn", "write", "close", "wait"}
    /\ calls \in 0 .. MaxCalls
    /\ shim \in [Calls -> Request]
    /\ kstop \in Actions \cup {None}
    /\ up \in BOOLEAN
    /\ gui # "idle" => calls > 0 /\ confirm = {shim[calls].action}

\* The machine is told to go down only for a request that was confirmed with the
\* right password, and in the way that was asked for, whatever becomes of other
\* requests, pipes and shims (sys.rs:441-443, power.rs:46-54).
StopIsConfirmed ==
    kstop # None =>
        \E k \in Calls : shim[k].action = kstop /\ shim[k].typed = Right

\* Why: until its stdin is closed a shim waits for it, and a shim past the daemon
\* was given what was typed.
WriterInv ==
    gui \in {"write", "close"} => shim[calls].at = "stdin" /\ shim[calls].writer

PipeInv ==
    \A k \in Calls :
        /\ k > calls => shim[k] = NoShim
        /\ shim[k].text \in {shim[k].typed, None}
        /\ shim[k].at \in {"procfd", "ns", "kstop"} => shim[k].text = Right

\* The window says that the machine is going down only if it is
\* (gui.rs:304-307).
OkMeansStopping == status = "ok" => kstop # None

\* Why: a shim that runs has an action to write, and ends well only after it did.
AnswerInv ==
    /\ \A k \in Calls : /\ shim[k].at # "none" => shim[k].action # None
                        /\ shim[k].at = "ok" => kstop # None
    /\ OkMeansStopping

\* A password never outlives the question it was typed for, however the
\* question ends (control.slint:548-559).
PasswordIsForgotten == password # None => confirm # {}

\* Every confirmed request gets its answer, so the window does not freeze: the
\* handler waits for a shim that waits for the end of its stdin
\* (sys.rs:455-461, power.rs:32).
WindowAnswers == gui # "idle" ~> gui = "idle" \/ ~up

\* Reboot and shutdown are two-step confirms: what runs is what was armed, once
\* (gui.rs:300, "The two-step confirm lives in the UI").
Done == IF gui = "idle" THEN calls ELSE calls - 1

Armed    == IF confirm = {} THEN None ELSE CHOOSE action \in Actions : action \in confirm
Executed == IF Done = 0 THEN None ELSE shim[Done].action

Confirmed == INSTANCE TwoStep WITH
    Target <- Actions, armed <- Armed, executed <- Executed, count <- Done

ConfirmsInTwoSteps == Confirmed!Spec
=============================================================================
