--------------------------- MODULE NetSystemProofs ---------------------------
(***************************************************************************)
(* The network tab keeps its promises for every form a user can fill in,   *)
(* and the tab with the processes it really starts implements the tab      *)
(* whose shims succeed or fail in one step: for any number of applies that *)
(* overlap with one another and with the boot, and any number of failures. *)
(***************************************************************************)
EXTENDS NetSystem, TLAPS

-----------------------------------------------------------------------------
(* The tab by itself. *)

\* What the validators see of a text does not depend on the spaces around it.
LEMMA TrimText ==
    ASSUME NEW t \in Texts
    PROVE  Trim(t) \in Text /\ Trim(t).what = t.what /\ ~Trim(t).padded
<1>1. t \in Text
  BY NetTabAssumption
<1> QED
  BY <1>1 DEF Trim, Text

\* A trimmed text is empty, or what it holds is something.
LEMMA EmptyText ==
    ASSUME NEW t \in Text
    PROVE  (Trim(t) = Empty) <=> (t.what = "empty")
  BY DEF Trim, Empty

\* The two sets of checks agree: argv that passed the ones of the GUI passes the
\* ones of the shim, which is why the trims matter.
LEMMA ArgvAccepted ==
    ASSUME form \in Form, tile \in Name \cup {None}, Argv # None
    PROVE  /\ ParseArgs(Mode, Argv)
           /\ Argv \in IF wantStatic THEN Command ELSE Lease
<1> USE NetTabAssumption
<1>1. CASE wantStatic
  <2>1. StaticChecks /\ Argv = StaticArgv
    BY <1>1 DEF Argv
  <2>2. Iface = "eth0"
    BY <2>1 DEF StaticChecks, ValidIface
  <2>3. form.ip \in Texts /\ form.gateway \in Texts /\ form.dns \in Texts
    BY DEF Form
  <2>4. FromStr(Trim(form.ip))
    BY <2>1, <2>3, TrimText DEF StaticChecks, ValidIpv4, FromStr
  <2>5. /\ OrDash(Trim(form.gateway)) = Dash \/ FromStr(OrDash(Trim(form.gateway)))
        /\ OrDash(Trim(form.dns)) = Dash \/ FromStr(OrDash(Trim(form.dns)))
    <3>1. ASSUME NEW t \in Texts, Trim(t) = Empty \/ ValidIpv4(t)
          PROVE  OrDash(Trim(t)) = Dash \/ FromStr(OrDash(Trim(t)))
      BY <3>1, TrimText DEF ValidIpv4, FromStr, OrDash
    <3> QED
      BY <2>1, <2>3, <3>1 DEF StaticChecks
  <2>6. ParsePrefix(form.prefix) \in 0 .. MaxPrefix
    BY <2>1 DEF StaticChecks, ValidPrefix
  <2>7. ParseArgs(Mode, Argv)
    BY <1>1, <2>1, <2>2, <2>4, <2>5, <2>6 DEF ParseArgs, StaticArgv, ValidIface
  <2>8. Argv \in Command
    BY <2>1, <2>2, <2>3, <2>6, TrimText DEF StaticArgv, Command, OrDash
  <2> QED
    BY <1>1, <2>7, <2>8
<1>2. CASE ~wantStatic
  BY <1>2 DEF Argv, ValidIface, ParseArgs, Mode, Lease
<1> QED
  BY <1>1, <1>2

\* Init establishes the types.
Reports == [apply : Applies, outcome : {"ok", "fail"}]

LEMMA InitType == Init => TypeOK /\ ArgvParses
<1>1. NoWorker \in Worker
  BY DEF NoWorker, Worker
<1>2. ASSUME Init PROVE /\ worker \in [Applies -> Worker]
                        /\ \A k \in Applies : worker[k].at = "none"
  BY <1>1, <1>2 DEF Init, NoWorker
<1>3. ASSUME Init PROVE /\ tile \in Name \cup {None} /\ form \in Form
                        /\ posted \in Seq(Reports) /\ applies \in 0 .. MaxApplies
  BY <1>3, NetTabAssumption DEF Init, Name
<1> QED
  BY <1>2, <1>3 DEF Init, TypeOK, ArgvParses, Reports

\* Every step keeps the types, and argv that parses.
LEMMA StepType == TypeOK /\ ArgvParses /\ [Next]_vars => TypeOK' /\ ArgvParses'
<1> SUFFICES ASSUME TypeOK, ArgvParses, [Next]_vars PROVE TypeOK' /\ ArgvParses'
  OBVIOUS
<1> USE NetTabAssumption
\* What the handlers and the timer share: the workers are left alone.
<1>a. ASSUME Loop, tile' \in Name \cup {None}, form' \in Form, wantStatic' \in BOOLEAN,
             confirm' \in BOOLEAN, password' \in Passwords \cup {None}
      PROVE  TypeOK' /\ ArgvParses'
  BY <1>a DEF Loop, TypeOK, ArgvParses
<1>1. ASSUME NEW static \in BOOLEAN, SelectMode(static) PROVE TypeOK' /\ ArgvParses'
  BY <1>1, <1>a DEF SelectMode, TypeOK
<1>2. CASE Edit
  <2>1. CASE \E t \in Texts, f \in {"ip", "gateway", "dns"} :
                 form' = [form EXCEPT ![f] = t]
    <3>1. form' \in Form
      BY <2>1 DEF TypeOK, Form
    <3> QED
      BY <1>2, <1>a, <3>1 DEF Edit, TypeOK
  <2>2. CASE \E p \in Numbers \cup {None} : form' = [form EXCEPT !.prefix = p]
    <3>1. form' \in Form
      BY <2>2 DEF TypeOK, Form
    <3> QED
      BY <1>2, <1>a, <3>1 DEF Edit, TypeOK
  <2> QED
    BY <1>2, <2>1, <2>2 DEF Edit
<1>3. CASE Arm \/ Cancel
  BY <1>3, <1>a DEF Arm, Cancel, TypeOK
<1>4. ASSUME NEW p \in Passwords \cup {None}, Type(p) PROVE TypeOK' /\ ArgvParses'
  BY <1>4, <1>a DEF Type, TypeOK
<1>5. CASE Refresh
  BY <1>5, <1>a DEF Refresh, TypeOK, Name
<1>6. CASE NetApply
  <2> DEFINE new == [at |-> IF Argv = None THEN "fail" ELSE "shim",
                     mode |-> Mode, argv |-> Argv, password |-> password]
  <2>1. applies + 1 \in Applies /\ worker' = [worker EXCEPT ![applies + 1] = new]
    BY <1>6 DEF NetApply, TypeOK, Applies
  <2>2. Argv # None => /\ ParseArgs(Mode, Argv)
                       /\ Argv \in IF wantStatic THEN Command ELSE Lease
    BY ArgvAccepted DEF TypeOK
  <2>3. new \in Worker
    BY <2>2 DEF TypeOK, Worker, Mode
  <2>4. new.at = "shim" =>
            /\ new.argv \in IF new.mode = "static" THEN Command ELSE Lease
            /\ ParseArgs(new.mode, new.argv)
    BY <2>2 DEF Mode
  <2> HIDE DEF new
  <2>5. worker' \in [Applies -> Worker]
    BY <2>1, <2>3 DEF TypeOK
  <2>6. \A k \in Applies : worker'[k] = IF k = applies + 1 THEN new ELSE worker[k]
    BY <2>1 DEF TypeOK
  <2>7. ArgvParses'
    BY <2>4, <2>6 DEF ArgvParses
  <2>8. \A k \in Applies :
            worker'[k].at = "shim" =>
                worker'[k].argv \in IF worker'[k].mode = "static" THEN Command ELSE Lease
    BY <2>4, <2>6 DEF TypeOK
  <2>9. applies' \in 0 .. MaxApplies
    BY <1>6, <2>1 DEF NetApply, Applies
  <2> QED
    BY <1>6, <2>5, <2>7, <2>8, <2>9 DEF NetApply, TypeOK
<1>7. CASE Deliver
  <2>a. posted \in Seq(Reports) /\ posted # <<>>
    BY <1>7 DEF Deliver, TypeOK, Reports
  <2>1. Head(posted) \in Reports /\ Tail(posted) \in Seq(Reports)
    BY <2>a
  <2>2. Head(posted).apply \in Applies /\ Head(posted).outcome \in {"ok", "fail"}
    BY <2>1 DEF Reports
  <2> QED
    BY <1>7, <2>1, <2>2 DEF Deliver, TypeOK, ArgvParses, Reports
<1>8. ASSUME NEW k \in Applies, Work(k) PROVE TypeOK' /\ ArgvParses'
  <2>1. PICK w \in Worker : worker' = [worker EXCEPT ![k] = w] /\ w.at # "shim"
    <3>1. worker[k] \in Worker
      BY DEF TypeOK
    <3>2. CASE RunShim(k)
      <4>1. PICK l \in {"ok", "fail"} :
                worker' = [worker EXCEPT ![k] = Outcome(worker[k], l)]
        BY <3>2 DEF RunShim
      <4>2. Outcome(worker[k], l) \in Worker /\ Outcome(worker[k], l).at # "shim"
        BY <3>1 DEF Outcome, NoWorker, Worker
      <4> QED
        BY <4>1, <4>2
    <3>3. CASE Post(k)
      <4>1. worker' = [worker EXCEPT ![k] = [worker[k] EXCEPT !.at = "ended"]]
        BY <3>3 DEF Post
      <4>2. [worker[k] EXCEPT !.at = "ended"] \in Worker
        BY <3>1 DEF Worker
      <4>3. [worker[k] EXCEPT !.at = "ended"].at # "shim"
        BY <3>1 DEF Worker
      <4> QED
        BY <4>1, <4>2, <4>3
    <3> QED
      BY <1>8, <3>2, <3>3 DEF Work
  <2>2. posted' \in Seq(Reports)
    <3>1. CASE RunShim(k)
      BY <3>1 DEF RunShim, TypeOK, Reports
    <3>2. CASE Post(k)
      <4>1. Report(k, worker[k].at) \in Reports /\ posted \in Seq(Reports)
        BY <3>2 DEF Post, Report, Reports, TypeOK
      <4> QED
        BY <3>2, <4>1 DEF Post
    <3> QED
      BY <1>8, <3>1, <3>2 DEF Work
  <2>3. worker' \in [Applies -> Worker]
    BY <2>1 DEF TypeOK, Worker
  <2>4. \A j \in Applies : worker'[j].at = "shim" => worker'[j] = worker[j]
    BY <2>1 DEF TypeOK, Worker
  <2>5. window' = window /\ applies' = applies /\ reported' = reported
    BY <1>8 DEF Work, RunShim, Post
  <2> QED
    BY <2>2, <2>3, <2>4, <2>5 DEF TypeOK, ArgvParses, window, Reports
<1>9. CASE UNCHANGED vars
  BY <1>9 DEF vars, window, TypeOK, ArgvParses
<1> QED
  BY <1>1, <1>2, <1>3, <1>4, <1>5, <1>6, <1>7, <1>8, <1>9 DEF Next, User

\* Every variable keeps its type.
THEOREM TypeCorrect == Spec => []TypeOK
<1>1. Init => TypeOK /\ ArgvParses
  BY InitType
<1>2. TypeOK /\ ArgvParses /\ [Next]_vars => TypeOK' /\ ArgvParses'
  BY StepType
<1> QED
  BY <1>1, <1>2, PTL DEF Spec

\* The root shim is never started with argv its own parser turns down.
THEOREM ShimAccepts == Spec => []ArgvParses
<1>1. Init => TypeOK /\ ArgvParses
  BY InitType
<1>2. TypeOK /\ ArgvParses /\ [Next]_vars => TypeOK' /\ ArgvParses'
  BY StepType
<1> QED
  BY <1>1, <1>2, PTL DEF Spec

-----------------------------------------------------------------------------
\* What a worker was started for does not change; only NetApply starts one.
LEMMA ModesStay ==
    TypeOK /\ [Next]_vars =>
        \/ NetApply
        \/ /\ applies' = applies
           /\ \A k \in Applies : worker'[k].mode = worker[k].mode
<1> SUFFICES ASSUME TypeOK, [Next]_vars, ~NetApply
             PROVE  applies' = applies /\ \A k \in Applies : worker'[k].mode = worker[k].mode
  OBVIOUS
<1>1. CASE UNCHANGED worker /\ UNCHANGED applies
  BY <1>1
<1>2. CASE \E k \in Applies : Work(k)
  <2>1. PICK k \in Applies : Work(k)
    BY <1>2
  <2>2. CASE RunShim(k)
    <3>1. PICK l : worker' = [worker EXCEPT ![k] = Outcome(worker[k], l)]
      BY <2>2 DEF RunShim
    <3>2. Outcome(worker[k], l).mode = worker[k].mode
      BY DEF Outcome, NoWorker
    <3> QED
      BY <2>2, <3>1, <3>2 DEF RunShim, TypeOK
  <2>3. CASE Post(k)
    BY <2>3 DEF Post, TypeOK, Worker
  <2> QED
    BY <2>1, <2>2, <2>3 DEF Work
<1> QED
  BY <1>1, <1>2 DEF Next, User, SelectMode, Edit, Arm, Type, Cancel, Refresh, Loop, Deliver, vars

\* No password outlives the confirm it was typed for, in the window.
THEOREM PasswordForgotten == Spec => []PasswordIsForgotten
<1>1. Init => PasswordIsForgotten
  BY DEF Init, PasswordIsForgotten
<1>2. PasswordIsForgotten /\ [Next]_vars => PasswordIsForgotten'
  <2> SUFFICES ASSUME PasswordIsForgotten, [Next]_vars PROVE PasswordIsForgotten'
    OBVIOUS
  <2> USE DEF PasswordIsForgotten
  <2>1. CASE UNCHANGED <<confirm, password>>
    BY <2>1
  <2>2. CASE User
    BY <2>2 DEF User, SelectMode, Edit, Arm, Type, Cancel, NetApply
  <2>3. CASE Refresh \/ Deliver \/ \E k \in Applies : Work(k)
    BY <2>1, <2>3 DEF Refresh, Deliver, Work, RunShim, Post, window
  <2> QED
    BY <2>1, <2>2, <2>3 DEF Next, vars, window
<1> QED
  BY <1>1, <1>2, PTL DEF Spec

-----------------------------------------------------------------------------
\* Every step is one of TwoStep's, or none of them: selecting a mode disarms.
LEMMA StepConfirmed ==
    TypeOK /\ [Next]_vars => [Confirmed!Next]_<<Armed, Executed, applies>>
<1> SUFFICES ASSUME TypeOK, [Next]_vars
             PROVE  Confirmed!Next \/ UNCHANGED <<Armed, Executed, applies>>
  OBVIOUS
<1> USE NetTabAssumption
<1>1. Mode \in {"static", "dhcp"} /\ Mode # None
  BY DEF Mode
<1>2. CASE NetApply
  <2>1. applies + 1 \in Applies /\ applies' = applies + 1 /\ applies \in Nat
    BY <1>2 DEF NetApply, TypeOK, Applies
  <2>2. worker'[applies + 1].mode = Mode
    BY <1>2, <2>1 DEF NetApply, TypeOK
  <2>3. Armed = Mode /\ Armed' = None /\ Executed' = Mode
    BY <1>2, <2>1, <2>2 DEF NetApply, Armed, Executed
  <2> QED
    BY <1>1, <2>1, <2>3 DEF Confirmed!Execute, Confirmed!Next
<1>3. ASSUME applies' = applies, \A k \in Applies : worker'[k].mode = worker[k].mode
      PROVE  Confirmed!Next \/ UNCHANGED <<Armed, Executed, applies>>
  <2>1. Executed' = Executed
    BY <1>3 DEF Executed, TypeOK, Applies
  <2>2. CASE UNCHANGED <<confirm, wantStatic>>
    BY <1>3, <2>1, <2>2 DEF Armed, Mode
  <2>3. ASSUME ~confirm, confirm', wantStatic' = wantStatic PROVE Confirmed!Next
    BY <1>1, <1>3, <2>1, <2>3 DEF Armed, Mode, Confirmed!Arm, Confirmed!Next
  <2>4. ASSUME confirm, ~confirm' PROVE Confirmed!Next
    BY <1>1, <1>3, <2>1, <2>4 DEF Armed, Confirmed!Disarm, Confirmed!Next
  <2>5. CASE ~confirm /\ ~confirm'
    BY <1>3, <2>1, <2>5 DEF Armed
  <2>6. CASE User
    BY <1>2, <2>2, <2>3, <2>4, <2>5, <2>6
       DEF User, SelectMode, Edit, Arm, Type, Cancel, TypeOK
  <2>7. CASE Refresh \/ Deliver \/ \E k \in Applies : Work(k)
    BY <2>2, <2>7 DEF Refresh, Deliver, Work, RunShim, Post, window
  <2>8. CASE UNCHANGED vars
    BY <2>2, <2>8 DEF vars, window
  <2> QED
    BY <2>6, <2>7, <2>8 DEF Next
<1> QED
  BY <1>2, <1>3, ModesStay

\* A mode change is a two-step confirm: NetTab implements TwoStep.
THEOREM TwoStepConfirm == Spec => ConfirmsInTwoSteps
<1>1. Init => Confirmed!Init
  BY DEF Init, Confirmed!Init, Armed, Executed
<1>2. TypeOK /\ [Next]_vars => [Confirmed!Next]_<<Armed, Executed, applies>>
  BY StepConfirmed
<1> QED
  BY <1>1, <1>2, TypeCorrect, PTL DEF Spec, ConfirmsInTwoSteps, Confirmed!Spec

-----------------------------------------------------------------------------
(* The tab and the processes it starts. *)

\* A worker that waits for a shim has given it argv that parse and its password;
\* past the elevation the password was right; nothing is there before its confirm.
Waiting(k) ==
    /\ ParseArgs(worker[k].mode, worker[k].argv)
    /\ stdin[k] = worker[k].password

Unborn(k) == worker[k].at = "none" /\ pc[k] = "idle" /\ k \notin left

ShimInv ==
    /\ pc \in [Cfg!Actor -> Cfg!Labels] /\ DOMAIN stdin = Applies
    /\ \A k \in Applies :
           /\ pc[k] \notin Cfg!Rest /\ worker[k].at = "shim" => Waiting(k)
           /\ pc[k] \notin Cfg!Rest \cup {"elevate"} => stdin[k] = Right
           /\ k > applies => Unborn(k)

\* A step of a process moves it and no other, never back to its elevation, from
\* which it goes on or fails.
LEMMA OneProcessMoves ==
    ASSUME NEW a \in Cfg!Actor, pc \in [Cfg!Actor -> Cfg!Labels],
           Cfg!Progress(a) \/ Cfg!Trouble(a)
    PROVE  /\ pc[a] \notin Cfg!Rest
           /\ \E l \in Cfg!Labels \ {"idle", "elevate"} :
                  /\ pc' = [pc EXCEPT ![a] = l]
                  /\ pc[a] = "elevate" => l \in {"mode", "fail"}
<1> USE DEF Cfg!Labels, Cfg!Rest, Cfg!File, Cfg!AddressFile, Cfg!At, Cfg!Goto
<1>1. CASE Cfg!Elevate(a)
  BY <1>1 DEF Cfg!Elevate
<1>2. CASE Cfg!SetAddr(a) \/ Cfg!AddDefault(a) \/ Cfg!SetResolver(a) \/ Cfg!RemoveDefault(a)
  BY <1>2 DEF Cfg!SetAddr, Cfg!AddDefault, Cfg!SetResolver, Cfg!RemoveDefault, Cfg!Live,
     Cfg!AfterAddr, Cfg!AfterRoute
<1>3. CASE Cfg!MirrorAddr(a) \/ Cfg!MirrorRoute(a) \/ Cfg!MirrorDns(a)
  BY <1>3 DEF Cfg!MirrorAddr, Cfg!MirrorRoute, Cfg!MirrorDns, Cfg!Read, Cfg!NoAddress
<1>4. CASE Cfg!Truncate(a)
  BY <1>4 DEF Cfg!Truncate
<1>5. CASE Cfg!Store(a)
  BY <1>5 DEF Cfg!Store, Cfg!AfterFile, Cfg!AfterMode
<1>6. CASE Cfg!DhcpdStep(a)
  BY <1>6 DEF Cfg!DhcpdStep, Cfg!LeaseGranted, Cfg!LeaseRefused, Cfg!DhcpdAddr,
     Cfg!DhcpdRoute, Cfg!DhcpdDns, Cfg!Live, Cfg!AfterDhcpd
<1>7. CASE a = Boot /\ Cfg!BootStep
  BY <1>7 DEF Cfg!BootStep, Cfg!BootStart, Cfg!BootIp, Cfg!BootSubnet, Cfg!BootRouter,
     Cfg!BootDns, Cfg!WaitSees, Cfg!WaitExpires, Cfg!Read
<1>8. CASE Cfg!SchemeFault(a)
  BY <1>8 DEF Cfg!SchemeFault, Cfg!AfterDhcpd
<1>9. CASE Cfg!ReadFault(a)
  BY <1>9 DEF Cfg!ReadFault, Cfg!NoAddress
<1>10. CASE Cfg!FileFault(a)
  BY <1>10 DEF Cfg!FileFault, Cfg!AfterFile, Cfg!AfterMode
<1> QED
  BY <1>1, <1>2, <1>3, <1>4, <1>5, <1>6, <1>7, <1>8, <1>9, <1>10
     DEF Cfg!Progress, Cfg!ShimStep, Cfg!Trouble

LEMMA InitShim == SysInit => ShimInv
<1> SUFFICES ASSUME SysInit PROVE ShimInv
  OBVIOUS
<1>1. pc = Cfg!BootPc
  BY DEF SysInit, Cfg!Init
<1>2. pc \in [Cfg!Actor -> Cfg!Labels]
  BY <1>1 DEF Cfg!BootPc, Cfg!Labels, Cfg!Rest
<1>3. ASSUME NEW k \in Applies PROVE pc[k] = "idle" /\ worker[k].at = "none"
  <2>1. k \in Cfg!Actor /\ k # Boot /\ k # Service
    BY NetSystemAssumption, NetTabAssumption DEF Cfg!Actor, Applies
  <2>2. pc[k] = "idle"
    BY <1>1, <2>1 DEF Cfg!BootPc
  <2>3. worker[k].at = "none"
    BY DEF SysInit, Init, NoWorker
  <2> QED
    BY <2>2, <2>3
<1>4. DOMAIN stdin = Applies /\ left = {}
  BY DEF SysInit
<1> QED
  BY <1>2, <1>3, <1>4 DEF ShimInv, Unborn, Cfg!Rest

\* What a step of a process means to the workers: nothing, or that the one that
\* waits for it returns.
LEMMA RunsIsRunShim ==
    ASSUME TypeOK, ShimInv, NEW a \in Cfg!Actor, Runs(a)
    PROVE  ShimInv' /\ [\E k \in Applies : Work(k)]_vars
<1>1. PICK l \in Cfg!Labels \ {"idle", "elevate"} :
          /\ pc' = [pc EXCEPT ![a] = l]
          /\ pc[a] = "elevate" => l \in {"mode", "fail"}
          /\ pc[a] \notin Cfg!Rest
  BY OneProcessMoves DEF Runs, ShimInv
<1>2. /\ pc' \in [Cfg!Actor -> Cfg!Labels] /\ pc'[a] = l
      /\ \A b \in Cfg!Actor : b # a => pc'[b] = pc[b]
      /\ Applies \subseteq Cfg!Actor
  BY <1>1 DEF ShimInv, Cfg!Actor
<1>3. worker' = [k \in Applies |-> Waits(k)] /\ worker \in [Applies -> Worker]
  BY DEF Runs, TypeOK
<1>4. UNCHANGED <<window, applies, posted, reported, stdin, left>>
  BY DEF Runs, pipes
<1>5. \A k \in Applies : k # a => worker'[k] = worker[k]
  BY <1>2, <1>3 DEF Waits
<1>6. a \in Applies /\ pc[a] # "elevate" => stdin[a] = Right
  BY <1>1 DEF ShimInv
<1>7. ASSUME NEW k \in Applies, k > applies PROVE Unborn(k)'
  <2>1. Unborn(k) /\ pc[k] \in Cfg!Rest
    BY <1>7 DEF ShimInv, Unborn, Cfg!Rest
  <2>2. k # a
    BY <1>1, <2>1
  <2> QED
    BY <1>2, <1>4, <1>5, <2>1, <2>2 DEF Unborn
<1>8. CASE a \in Applies /\ worker[a].at = "shim" /\ l \in Cfg!Rest
  <2>1. l \in {"ok", "fail"}
    BY <1>1, <1>8 DEF Cfg!Rest
  <2>2. worker'[a] = Outcome(worker[a], l)
    BY <1>1, <1>2, <1>3, <1>8 DEF Waits
  <2>3. worker' = [worker EXCEPT ![a] = Outcome(worker[a], l)]
    BY <1>3, <1>5, <1>8, <2>2
  <2>4. l = "ok" => /\ ParseArgs(worker[a].mode, worker[a].argv)
                    /\ worker[a].password = Right
    BY <1>1, <1>6, <1>8 DEF ShimInv, Waiting
  <2>5. RunShim(a)
    BY <1>4, <1>8, <2>1, <2>3, <2>4 DEF RunShim
  <2>6. ShimInv'
    BY <1>2, <1>4, <1>5, <1>7, <1>8 DEF ShimInv, Waiting
  <2> QED
    BY <1>8, <2>5, <2>6 DEF Work
<1>9. CASE ~(a \in Applies /\ worker[a].at = "shim" /\ l \in Cfg!Rest)
  <2>1. worker' = worker
    <3>1. \A k \in Applies : worker'[k] = worker[k]
      BY <1>2, <1>3, <1>5, <1>9 DEF Waits
    <3> QED
      BY <1>3, <3>1
  <2>2. ASSUME NEW k \in Applies, pc'[k] \notin Cfg!Rest, worker'[k].at = "shim"
        PROVE  Waiting(k)'
    <3>1. Waiting(k)
      BY <1>1, <1>2, <2>1, <2>2 DEF ShimInv
    <3> QED
      BY <1>4, <2>1, <3>1 DEF Waiting
  <2>3. ASSUME NEW k \in Applies, pc'[k] \notin Cfg!Rest \cup {"elevate"}
        PROVE  stdin'[k] = Right
    <3>1. CASE k # a \/ pc[a] # "elevate"
      BY <1>2, <1>4, <1>6, <2>3, <3>1 DEF ShimInv
    <3>2. CASE k = a /\ pc[a] = "elevate"
      <4>1. l = "mode"
        BY <1>1, <1>2, <2>3, <3>2 DEF Cfg!Rest
      <4> QED
        BY <1>2, <1>4, <3>2, <4>1 DEF Runs, Authentic, Cfg!At
    <3> QED
      BY <3>1, <3>2
  <2>4. ShimInv'
    BY <1>2, <1>4, <1>7, <2>2, <2>3 DEF ShimInv
  <2> QED
    BY <1>4, <2>1, <2>4 DEF vars
<1> QED
  BY <1>8, <1>9

\* What the window and the worker do by themselves is what they do in NetTab.
ByItself ==
    \/ Window \/ Delivers
    \/ \E k \in Applies : Posts(k) \/ StartShim(k) \/ NoShim(k) \/ WaitFails(k)

LEMMA WindowIsNetTab ==
    ASSUME TypeOK, ShimInv, ByItself
    PROVE  ShimInv' /\ [Next]_vars
<1> USE DEF ShimInv, Waiting, Unborn
<1>1. CASE Confirms
  <2>1. NetApply /\ UNCHANGED <<pc, stdin, left>>
    BY <1>1 DEF Confirms, net, pipes
  <2>2. PICK w : worker' = [worker EXCEPT ![applies + 1] = w]
    BY <2>1 DEF NetApply
  <2>3. applies + 1 \in Applies /\ applies \in Nat /\ applies' = applies + 1
    BY <2>1, NetTabAssumption DEF NetApply, TypeOK, Applies
  <2>4. pc[applies + 1] \in Cfg!Rest
    BY <2>3 DEF Cfg!Rest
  <2>5. \A k \in Applies : k # applies + 1 => worker'[k] = worker[k]
    BY <2>2, <2>3 DEF TypeOK
  <2>6. \A k \in Applies : k > applies' => k > applies /\ k # applies + 1
    BY <2>3 DEF Applies
  <2> QED
    BY <2>1, <2>3, <2>4, <2>5, <2>6 DEF Next, User
<1>2. CASE (User \/ Refresh) /\ applies' = applies /\ UNCHANGED <<net, pipes, asked>>
  <2>1. UNCHANGED <<pc, stdin, left>> /\ [Next]_vars
    BY <1>2 DEF net, pipes, Next
  <2>2. worker' = worker
    <3>1. ~NetApply
      BY <1>2, NetTabAssumption DEF NetApply, TypeOK
    <3> QED
      BY <1>2, <3>1 DEF User, SelectMode, Edit, Arm, Cancel, Type, Refresh, Loop
  <2> QED
    BY <1>2, <2>1, <2>2
<1>3. CASE Delivers
  BY <1>3 DEF Delivers, Deliver, net, pipes, Next
<1>4. ASSUME NEW k \in Applies, Posts(k) PROVE ShimInv' /\ [Next]_vars
  <2>1. Post(k) /\ UNCHANGED <<pc, applies, stdin, left>>
    BY <1>4 DEF Posts, Post, net, pipes
  <2>2. \A j \in Applies : j # k => worker'[j] = worker[j]
    BY <2>1 DEF Post, TypeOK
  <2>3. worker[k].at # "none" /\ worker'[k].at # "shim"
    BY <2>1 DEF Post, TypeOK, Worker
  <2> QED
    BY <1>4, <2>1, <2>2, <2>3 DEF Next, Work
<1>5. ASSUME NEW k \in Applies, StartShim(k) PROVE ShimInv' /\ [Next]_vars
  <2>1. /\ UNCHANGED <<vars, left>> /\ Cfg!Launch(k, worker[k].mode, JobOf(worker[k]))
        /\ stdin' = [stdin EXCEPT ![k] = worker[k].password]
    BY <1>5 DEF StartShim
  <2>2. worker[k].at = "shim" /\ ParseArgs(worker[k].mode, worker[k].argv)
    BY <1>5 DEF StartShim
  <2>3. /\ pc' \in [Cfg!Actor -> Cfg!Labels] /\ pc'[k] = "elevate"
        /\ \A b \in Cfg!Actor : b # k => pc'[b] = pc[b] \/ pc'[b] = "idle"
    BY <2>1 DEF Cfg!Launch, Cfg!Labels, Cfg!Rest, Cfg!Actor
  <2>4. UNCHANGED <<worker, applies>>
    BY <2>1 DEF vars
  <2>5. \A b \in Applies : b \in Cfg!Actor
    BY DEF Cfg!Actor
  <2>6. /\ stdin'[k] = worker[k].password /\ DOMAIN stdin' = Applies
        /\ \A b \in Applies : b # k => stdin'[b] = stdin[b]
    BY <2>1
  <2>7. ASSUME NEW b \in Applies, b # k
        PROVE  /\ pc'[b] \notin Cfg!Rest /\ worker'[b].at = "shim" => Waiting(b)'
               /\ pc'[b] \notin Cfg!Rest \cup {"elevate"} => stdin'[b] = Right
               /\ b > applies' => Unborn(b)'
    BY <2>1, <2>3, <2>4, <2>5, <2>6, <2>7 DEF Cfg!Rest
  <2>8. /\ Waiting(k)' /\ ~(k > applies')
        /\ pc'[k] \in Cfg!Rest \cup {"elevate"}
    BY <2>2, <2>3, <2>4, <2>6
  <2> QED
    BY <2>1, <2>3, <2>6, <2>7, <2>8
<1>6. ASSUME NEW k \in Applies, NoShim(k) \/ WaitFails(k) PROVE ShimInv' /\ [Next]_vars
  <2>1. /\ worker' = [worker EXCEPT ![k] = Outcome(worker[k], "fail")]
        /\ UNCHANGED <<window, applies, posted, reported, pc, stdin>>
        /\ worker[k].at = "shim" /\ left' \subseteq left \cup {k}
    BY <1>6 DEF NoShim, WaitFails, net, pipes
  <2>2. RunShim(k)
    BY <2>1 DEF RunShim
  <2>3. \A j \in Applies : j # k => worker'[j] = worker[j]
    BY <2>1 DEF TypeOK
  <2>4. worker'[k].at = "fail" /\ ~(k > applies)
    BY <2>1 DEF TypeOK, Outcome, NoWorker
  <2> QED
    BY <2>1, <2>2, <2>3, <2>4 DEF Next, Work
<1> QED
  BY <1>1, <1>2, <1>3, <1>4, <1>5, <1>6 DEF Window, ByItself

LEMMA SysStep ==
    TypeOK /\ ArgvParses /\ ShimInv /\ [SysNext]_sysvars
        => (TypeOK /\ ArgvParses /\ ShimInv)' /\ [Next]_vars
<1> SUFFICES ASSUME TypeOK, ArgvParses, ShimInv, [SysNext]_sysvars
             PROVE  ShimInv' /\ [Next]_vars
  BY StepType
<1>1. CASE ByItself
  BY <1>1, WindowIsNetTab
<1>2. ASSUME NEW a \in Cfg!Actor, Runs(a) PROVE ShimInv' /\ [Next]_vars
  BY <1>2, RunsIsRunShim DEF Next
<1>3. CASE UNCHANGED sysvars
  BY <1>3 DEF sysvars, vars, net, pipes, ShimInv, Waiting, Unborn
<1> QED
  BY <1>1, <1>2, <1>3 DEF SysNext, ByItself

\* A window whose workers run real shims, with all that these do and all that may
\* happen to them, is the window of NetTab; what is proved of that one holds here.
THEOREM ShimsRefineNetTab == SysSpec => Spec
<1>1. SysInit => TypeOK /\ ArgvParses /\ ShimInv
  BY InitType, InitShim DEF SysInit
<1>2. SysInit => Init
  BY DEF SysInit
<1> QED
  BY <1>1, <1>2, SysStep, PTL DEF SysSpec, Spec

-----------------------------------------------------------------------------
(* What "applied" and "failed" mean, after a calm confirm. *)

\* A step before the first address file leaves the address files alone; from
\* there a process goes on to the next one or to its end; an elevation touches
\* nothing at all.
LEMMA FilesMove ==
    ASSUME Domains, NEW a \in Cfg!Actor, pc \in [Cfg!Actor -> Cfg!Labels],
           Cfg!Progress(a) \/ Cfg!Trouble(a)
    PROVE  /\ pc[a] \notin Cfg!AddressFile =>
                  \A f \in Cfg!AddressFile : etc'[f] = etc[f]
           /\ pc[a] \in Cfg!AddressFile => pc'[a] \in Cfg!AddressFile \cup {"ok"}
           /\ pc[a] = "elevate" => Snap' = Snap
           /\ Domains'
<1> USE DEF Domains, Cfg!Labels, Cfg!Rest, Cfg!File, Cfg!AddressFile, Cfg!At, Cfg!Goto, Snap,
     Cfg!counters, Cfg!live, Cfg!history
<1>1. CASE Cfg!Elevate(a)
  BY <1>1 DEF Cfg!Elevate
<1>2. CASE Cfg!SetAddr(a) \/ Cfg!AddDefault(a) \/ Cfg!SetResolver(a) \/ Cfg!RemoveDefault(a)
  BY <1>2 DEF Cfg!SetAddr, Cfg!AddDefault, Cfg!SetResolver, Cfg!RemoveDefault, Cfg!Live
<1>3. CASE Cfg!MirrorAddr(a) \/ Cfg!MirrorRoute(a) \/ Cfg!MirrorDns(a)
  BY <1>3 DEF Cfg!MirrorAddr, Cfg!MirrorRoute, Cfg!MirrorDns, Cfg!Read
<1>4. CASE Cfg!Truncate(a)
  BY <1>4 DEF Cfg!Truncate
<1>5. CASE Cfg!Store(a)
  BY <1>5 DEF Cfg!Store, Cfg!AfterFile
<1>6. CASE Cfg!DhcpdStep(a)
  BY <1>6 DEF Cfg!DhcpdStep, Cfg!LeaseGranted, Cfg!LeaseRefused, Cfg!DhcpdAddr,
     Cfg!DhcpdRoute, Cfg!DhcpdDns, Cfg!Live
<1>7. CASE a = Boot /\ Cfg!BootStep
  BY <1>7 DEF Cfg!BootStep, Cfg!BootStart, Cfg!BootIp, Cfg!BootSubnet, Cfg!BootRouter,
     Cfg!BootDns, Cfg!WaitSees, Cfg!WaitExpires, Cfg!Read
<1>8. CASE Cfg!SchemeFault(a)
  BY <1>8 DEF Cfg!SchemeFault, Cfg!Fault
<1>9. CASE Cfg!ReadFault(a)
  BY <1>9 DEF Cfg!ReadFault, Cfg!Fault
<1>10. CASE Cfg!FileFault(a)
  BY <1>10 DEF Cfg!FileFault, Cfg!Fault, Cfg!AfterFile
<1> QED
  BY <1>1, <1>2, <1>3, <1>4, <1>5, <1>6, <1>7, <1>8, <1>9, <1>10
     DEF Cfg!Progress, Cfg!ShimStep, Cfg!Trouble

\* Until a call fails there is progress and no trouble.
LEMMA NoFault ==
    ASSUME Domains, NEW a \in Cfg!Actor, Cfg!Progress(a) \/ Cfg!Trouble(a), faults' = 0
    PROVE  Cfg!Progress(a) /\ faults = 0
<1>1. ASSUME Cfg!Trouble(a) PROVE FALSE
  BY <1>1 DEF Cfg!Trouble, Cfg!SchemeFault, Cfg!ReadFault, Cfg!FileFault, Cfg!Fault, Domains
<1>2. Cfg!Progress(a)
  BY <1>1
<1>3. faults' = faults
  BY <1>2 DEF Cfg!Progress, Cfg!ShimStep, Cfg!Elevate, Cfg!SetAddr, Cfg!AddDefault,
     Cfg!SetResolver, Cfg!RemoveDefault, Cfg!MirrorAddr, Cfg!MirrorRoute, Cfg!MirrorDns,
     Cfg!Read, Cfg!Truncate, Cfg!Store, Cfg!DhcpdStep, Cfg!LeaseGranted,
     Cfg!LeaseRefused, Cfg!DhcpdAddr, Cfg!DhcpdRoute, Cfg!DhcpdDns, Cfg!Live,
     Cfg!BootStep, Cfg!BootStart, Cfg!BootIp, Cfg!BootSubnet, Cfg!BootRouter,
     Cfg!BootDns, Cfg!WaitSees, Cfg!WaitExpires, Cfg!counters
<1> QED
  BY <1>2, <1>3

\* The routes stay a sequence, to which a step adds one route, or which it empties.
LEMMA RouteAppended ==
    ASSUME routes \in Seq(Cfg!Gateways), NEW g, routes' = Append(routes, g)
    PROVE  /\ routes' \in Seq(Cfg!Gateways')
           /\ Cfg!Gateways' = Cfg!Gateways \cup {g}
           /\ routes = <<>> => routes' = <<g>> /\ Cfg!Gateways' = {g}
<1>1. /\ Len(routes') = Len(routes) + 1
      /\ Len(routes) \in Nat /\ DOMAIN routes = 1 .. Len(routes)
      /\ DOMAIN routes' = 1 .. Len(routes) + 1
      /\ \A i \in 1 .. Len(routes) : routes'[i] = routes[i]
      /\ routes'[Len(routes) + 1] = g
      /\ routes' \in Seq(Cfg!Gateways \cup {g})
  BY SMTT(30)
<1>2. Cfg!Gateways' = {routes'[i] : i \in DOMAIN routes'}
  BY DEF Cfg!Gateways
<1>3. Cfg!Gateways' = Cfg!Gateways \cup {g}
  BY <1>1, <1>2 DEF Cfg!Gateways
<1>4. routes = <<>> => Cfg!Gateways = {} /\ routes' = <<g>>
  BY DEF Cfg!Gateways
<1> QED
  BY <1>1, <1>3, <1>4

LEMMA RoutesMove ==
    ASSUME Shapes, NEW a \in Cfg!Actor, Cfg!Progress(a) \/ Cfg!Trouble(a)
    PROVE  routes' \in Seq(Cfg!Gateways')
<1> DEFINE Added == \E g : routes' = Append(routes, g)
<1>1. routes' = routes => Cfg!Gateways' = Cfg!Gateways
  BY DEF Cfg!Gateways
<1>2. CASE routes' = routes
  BY <1>1, <1>2 DEF Shapes
<1>3. CASE routes' = <<>>
  BY <1>3
<1>4. CASE Added
  BY <1>4, RouteAppended DEF Shapes
<1>5. CASE Cfg!AddDefault(a) \/ Cfg!DhcpdRoute(a)
  <2>1. Added
    BY <1>5 DEF Cfg!AddDefault, Cfg!DhcpdRoute, Cfg!WriteRoute
  <2> QED
    BY <1>4, <2>1
<1>6. CASE Cfg!RemoveDefault(a)
  BY <1>3, <1>6 DEF Cfg!RemoveDefault
<1>7. CASE Cfg!ShimStep(a) /\ ~Cfg!AddDefault(a) /\ ~Cfg!RemoveDefault(a)
  <2>1. UNCHANGED routes
    BY <1>7 DEF Cfg!ShimStep, Cfg!Elevate, Cfg!SetAddr, Cfg!SetResolver, Cfg!WriteAddr,
       Cfg!WriteResolver, Cfg!MirrorAddr, Cfg!MirrorRoute, Cfg!MirrorDns, Cfg!Read,
       Cfg!Truncate, Cfg!Store, Cfg!live
  <2> QED
    BY <1>2, <2>1
<1>8. CASE (Cfg!DhcpdStep(a) /\ ~Cfg!DhcpdRoute(a)) \/ Cfg!Trouble(a) \/ Cfg!BootStep
  <2>1. UNCHANGED routes
    BY <1>8 DEF Cfg!DhcpdStep, Cfg!LeaseGranted, Cfg!LeaseRefused, Cfg!DhcpdAddr,
       Cfg!DhcpdDns, Cfg!WriteAddr, Cfg!WriteResolver, Cfg!Trouble, Cfg!SchemeFault,
       Cfg!ReadFault, Cfg!FileFault, Cfg!BootStep, Cfg!BootStart, Cfg!BootIp,
       Cfg!BootSubnet, Cfg!BootRouter, Cfg!BootDns, Cfg!WaitSees, Cfg!WaitExpires,
       Cfg!Read, Cfg!live
  <2> QED
    BY <1>2, <2>1
<1> QED
  BY <1>5, <1>6, <1>7, <1>8 DEF Cfg!Progress

\* What is in force on the way of a static apply, step by step.
LEMMA StaticMove ==
    ASSUME Shapes, NEW a \in Applies, pc \in [Cfg!Actor -> Cfg!Labels],
           kind[a] = "static", job[a] = AskedJob, ReachedStatic(pc[a]), asked' = asked,
           Cfg!Progress(a) \/ Cfg!Trouble(a)
    PROVE  ReachedStatic(pc[a])' /\ kind'[a] = "static" /\ job'[a] = AskedJob'
<1>0. a \in Cfg!Actor /\ a # Boot /\ a # Service
  BY NetSystemAssumption, NetTabAssumption DEF Cfg!Actor, Applies
<1>000. Domains
  BY DEF Shapes
<1>00. routes' = routes => Cfg!Gateways' = Cfg!Gateways
  BY DEF Cfg!Gateways
<1> USE <1>0, <1>00, <1>000 DEF Domains, ReachedStatic, AddrAsAsked, RoutesAsAsked,
     ResolverAsAsked, TypedOr, AskedJob,
     Cfg!File, Cfg!AddressFile, Cfg!At, Cfg!Goto, Cfg!counters, Cfg!live, Cfg!history,
     Cfg!Live
<1>1. CASE Cfg!Elevate(a)
  BY <1>1 DEF Cfg!Elevate
<1>2. CASE Cfg!SetAddr(a)
  BY <1>2, NetSystemAssumption DEF Cfg!SetAddr, Cfg!WriteAddr, Cfg!AfterAddr, Cfg!AfterRoute
<1>3. CASE Cfg!RemoveDefault(a)
  BY <1>3 DEF Cfg!RemoveDefault
<1>4. CASE Cfg!AddDefault(a)
  <2>1. routes' = Append(routes, job[a].gateway)
    BY <1>4 DEF Cfg!AddDefault, Cfg!WriteRoute
  <2>2. /\ Cfg!Gateways' = Cfg!Gateways \cup {job[a].gateway}
        /\ routes = <<>> => routes' = <<job[a].gateway>>
    BY <2>1, RouteAppended DEF Shapes
  <2>3. job[a].gateway = TypedGateway => TypedRoute = <<job[a].gateway>>
    BY DEF TypedRoute
  <2> QED
    BY <1>4, <2>2, <2>3, NetSystemAssumption DEF Cfg!AddDefault, Cfg!WriteRoute, Cfg!AfterRoute
<1>5. CASE Cfg!SetResolver(a)
  BY <1>5, NetSystemAssumption DEF Cfg!SetResolver, Cfg!WriteResolver
<1>6. CASE Cfg!Truncate(a)
  BY <1>6 DEF Cfg!Truncate
<1>7. CASE Cfg!Store(a)
  BY <1>7 DEF Cfg!Store, Cfg!AfterFile, Cfg!AfterMode, Cfg!Written
<1>8. CASE Cfg!SchemeFault(a)
  BY <1>8 DEF Cfg!SchemeFault, Cfg!Fault
<1>9. CASE Cfg!FileFault(a)
  BY <1>9 DEF Cfg!FileFault, Cfg!Fault, Cfg!AfterFile
<1>10. ~(Cfg!MirrorAddr(a) \/ Cfg!MirrorRoute(a) \/ Cfg!MirrorDns(a) \/ Cfg!DhcpdStep(a)
           \/ Cfg!ReadFault(a))
  BY DEF Cfg!MirrorAddr, Cfg!MirrorRoute, Cfg!MirrorDns, Cfg!DhcpdStep, Cfg!LeaseGranted,
     Cfg!LeaseRefused, Cfg!DhcpdAddr, Cfg!DhcpdRoute, Cfg!DhcpdDns, Cfg!ReadFault
<1> QED
  BY <1>1, <1>2, <1>3, <1>4, <1>5, <1>6, <1>7, <1>8, <1>9, <1>10
     DEF Cfg!Progress, Cfg!ShimStep, Cfg!Trouble

\* The same for an automatic apply: from the mirror on there is an address.
LEMMA DhcpMove ==
    ASSUME Domains, NEW a \in Applies, pc \in [Cfg!Actor -> Cfg!Labels],
           kind[a] = "dhcp", ReachedDhcp(pc[a]), asked' = asked,
           Cfg!Progress(a) \/ Cfg!Trouble(a)
    PROVE  ReachedDhcp(pc[a])' /\ kind'[a] = "dhcp"
<1>0. a \in Cfg!Actor /\ a # Boot /\ a # Service
  BY NetSystemAssumption, NetTabAssumption DEF Cfg!Actor, Applies
<1> USE <1>0 DEF Domains, ReachedDhcp, Cfg!File, Cfg!AddressFile, Cfg!At, Cfg!Goto,
     Cfg!counters, Cfg!live, Cfg!history, Cfg!Live
<1>1. CASE Cfg!Elevate(a)
  BY <1>1 DEF Cfg!Elevate
<1>2. CASE Cfg!RemoveDefault(a)
  BY <1>2 DEF Cfg!RemoveDefault
<1>3. CASE Cfg!DhcpdStep(a)
  BY <1>3 DEF Cfg!DhcpdStep, Cfg!LeaseGranted, Cfg!LeaseRefused, Cfg!DhcpdAddr,
     Cfg!DhcpdRoute, Cfg!DhcpdDns, Cfg!AfterDhcpd, Cfg!WriteAddr, Cfg!WriteRoute,
     Cfg!WriteResolver
<1>4. CASE Cfg!MirrorAddr(a)
  BY <1>4 DEF Cfg!MirrorAddr, Cfg!Read, Cfg!NoAddress
<1>5. CASE Cfg!MirrorRoute(a) \/ Cfg!MirrorDns(a)
  BY <1>5 DEF Cfg!MirrorRoute, Cfg!MirrorDns, Cfg!Read
<1>6. CASE Cfg!Truncate(a)
  BY <1>6 DEF Cfg!Truncate
<1>7. CASE Cfg!Store(a)
  BY <1>7 DEF Cfg!Store, Cfg!AfterFile, Cfg!AfterMode, Cfg!Written
<1>8. CASE Cfg!SchemeFault(a)
  BY <1>8 DEF Cfg!SchemeFault, Cfg!Fault, Cfg!AfterDhcpd
<1>9. CASE Cfg!FileFault(a)
  BY <1>9 DEF Cfg!FileFault, Cfg!Fault, Cfg!AfterFile
<1>10. CASE Cfg!ReadFault(a)
  BY <1>10 DEF Cfg!ReadFault, Cfg!Fault, Cfg!NoAddress
<1>11. ~(Cfg!SetAddr(a) \/ Cfg!AddDefault(a) \/ Cfg!SetResolver(a))
  BY DEF Cfg!SetAddr, Cfg!AddDefault, Cfg!SetResolver
<1> QED
  BY <1>1, <1>2, <1>3, <1>4, <1>5, <1>6, <1>7, <1>8, <1>9, <1>10, <1>11
     DEF Cfg!Progress, Cfg!ShimStep, Cfg!Trouble

\* What the files say on that way, as long as no call fails.
LEMMA StaticFiled ==
    ASSUME Domains, NEW a \in Applies, pc \in [Cfg!Actor -> Cfg!Labels],
           kind[a] = "static", job[a] = AskedJob, asked' = asked,
           ReachedStatic(pc[a]), FiledStatic(pc[a]),
           pc[a] \notin Cfg!AddressFile \cup {"ok"} => FilesKept,
           Cfg!Progress(a)
    PROVE  FiledStatic(pc[a])'
<1>0. a \in Cfg!Actor /\ a # Boot /\ a # Service
  BY NetSystemAssumption, NetTabAssumption DEF Cfg!Actor, Applies
<1>00. /\ AskedJob.ip = TypedIp /\ AskedJob.prefix = asked.form.prefix
       /\ AskedJob.prefix # None /\ AskedJob.gateway \in {None, TypedGateway}
       /\ asked.form.gateway.what = "empty" <=> AskedJob.gateway = None
       /\ asked.form.dns.what = "empty" <=> AskedJob.dns = None
       /\ AskedJob.dns \in {None, TypedDns}
  BY NetSystemAssumption DEF AskedJob, ReachedStatic
<1>01. /\ pc[a] \in {"router"} => AskedJob.gateway # None
       /\ pc[a] \in {"dns"} => AskedJob.dns # None
  BY DEF ReachedStatic
<1> USE <1>0, <1>00 DEF Domains, FiledStatic, RouterFileAsAsked, DnsFileAsAsked, TypedOr,
     FilesKept, Cfg!File, Cfg!AddressFile, Cfg!At, Cfg!Goto, Cfg!counters, Cfg!live,
     Cfg!history, Cfg!Live
<1>1. CASE Cfg!Elevate(a)
  BY <1>1 DEF Cfg!Elevate
<1>2. CASE Cfg!SetAddr(a) \/ Cfg!AddDefault(a) \/ Cfg!SetResolver(a) \/ Cfg!RemoveDefault(a)
  BY <1>2 DEF Cfg!SetAddr, Cfg!AddDefault, Cfg!SetResolver, Cfg!RemoveDefault,
     Cfg!AfterAddr, Cfg!AfterRoute
<1>3. CASE Cfg!Truncate(a)
  BY <1>3, <1>01 DEF Cfg!Truncate
<1>4. CASE Cfg!Store(a)
  <2>1. /\ etc' = [etc EXCEPT ![pc[a]] = Cfg!Written(a)[pc[a]]]
        /\ pc'[a] = Cfg!AfterFile(a, pc[a]) /\ pc[a] \in {"mode"} \cup Cfg!AddressFile
    BY <1>4 DEF Cfg!Store
  <2>2. /\ Cfg!Written(a)["ip"] = TypedIp
        /\ Cfg!Written(a)["subnet"] = Cfg!PrefixToNetmask(asked.form.prefix)
        /\ Cfg!Written(a)["router"] = AskedJob.gateway
        /\ Cfg!Written(a)["dns"] = AskedJob.dns
    BY DEF Cfg!Written
  <2>3. Cfg!AfterFile(a, pc[a]) =
            IF pc[a] = "mode" THEN "addr"
            ELSE IF pc[a] = "ip" THEN "subnet"
            ELSE IF pc[a] = "subnet" /\ AskedJob.gateway # None THEN "router"
            ELSE IF pc[a] \in {"subnet", "router"} /\ AskedJob.dns # None THEN "dns"
            ELSE "ok"
    BY DEF Cfg!AfterFile, Cfg!AfterMode
  <2>4. CASE pc[a] \in {"mode", "ip"}
    BY <2>1, <2>2, <2>3, <2>4
  <2>5. CASE pc[a] = "subnet"
    BY <2>1, <2>2, <2>3, <2>5
  <2>6. CASE pc[a] = "router"
    BY <1>01, <2>1, <2>2, <2>3, <2>6
  <2>7. CASE pc[a] = "dns"
    BY <1>01, <2>1, <2>2, <2>3, <2>7
  <2> QED
    BY <2>1, <2>4, <2>5, <2>6, <2>7
<1>5. ~(Cfg!MirrorAddr(a) \/ Cfg!MirrorRoute(a) \/ Cfg!MirrorDns(a) \/ Cfg!DhcpdStep(a))
  BY DEF ReachedStatic, Cfg!MirrorAddr, Cfg!MirrorRoute, Cfg!MirrorDns, Cfg!DhcpdStep,
     Cfg!LeaseGranted, Cfg!LeaseRefused, Cfg!DhcpdAddr, Cfg!DhcpdRoute, Cfg!DhcpdDns
<1> QED
  BY <1>1, <1>2, <1>3, <1>4, <1>5 DEF Cfg!Progress, Cfg!ShimStep

\* The lease an automatic apply has in hand is whole, and its route the only one.
LEMMA LeaseMove ==
    ASSUME Domains, NEW a \in Applies, pc \in [Cfg!Actor -> Cfg!Labels],
           kind[a] = "dhcp", a = applies, applies' = applies,
           ReachedDhcp(pc[a]), LeaseInHand(pc[a]), routes \in Seq(Cfg!Gateways),
           Cfg!Progress(a)
    PROVE  LeaseInHand(pc[a])'
<1>0. /\ a \in Cfg!Actor /\ a # Boot /\ a # Service
      /\ Leases \subseteq Cfg!Config /\ None \notin Cfg!PrefixLengths
  BY NetSystemAssumption, NetTabAssumption DEF Cfg!Actor, Applies, Cfg!PrefixLengths
<1>00. /\ routes' = routes => Cfg!Gateways' = Cfg!Gateways
       /\ routes = <<>> => Cfg!Gateways = {}
  BY DEF Cfg!Gateways
<1>000. Cfg!DhcpdRoute(a) => Cfg!Gateways' = Cfg!Gateways \cup {job[a].gateway}
  BY RouteAppended DEF Cfg!DhcpdRoute, Cfg!WriteRoute
<1>a. \A c \in Cfg!Config : c.prefix # None
  BY <1>0 DEF Cfg!Config
<1> HIDE DEF Cfg!Gateways
<1> USE <1>0, <1>00 DEF Domains, LeaseInHand, Cfg!AddressFile, Cfg!At, Cfg!Goto, Cfg!counters,
     Cfg!live, Cfg!history, Cfg!Live
<1>1. CASE Cfg!Elevate(a)
  BY <1>1 DEF Cfg!Elevate
<1>2. CASE Cfg!RemoveDefault(a)
  BY <1>2 DEF Cfg!RemoveDefault, ReachedDhcp
<1>3. CASE Cfg!LeaseGranted(a) \/ Cfg!LeaseRefused(a)
  BY <1>3 DEF Cfg!LeaseGranted, Cfg!LeaseRefused
<1>4. CASE Cfg!DhcpdAddr(a)
  BY <1>4, <1>a DEF Cfg!DhcpdAddr, Cfg!WriteAddr, Cfg!AfterDhcpd
<1>5. CASE Cfg!DhcpdRoute(a)
  BY <1>5, <1>000 DEF Cfg!DhcpdRoute, Cfg!WriteRoute, Cfg!AfterDhcpd
<1>6. CASE Cfg!DhcpdDns(a)
  BY <1>6 DEF Cfg!DhcpdDns, Cfg!WriteResolver, Cfg!AfterDhcpd
<1>7. CASE Cfg!MirrorAddr(a) \/ Cfg!MirrorRoute(a) \/ Cfg!MirrorDns(a)
  BY <1>7 DEF Cfg!MirrorAddr, Cfg!MirrorRoute, Cfg!MirrorDns, Cfg!Read, Cfg!NoAddress
<1>8. CASE Cfg!Truncate(a) \/ Cfg!Store(a)
  BY <1>8 DEF Cfg!Truncate, Cfg!Store, Cfg!AfterFile, Cfg!AfterMode, Cfg!File
<1>9. ~(Cfg!SetAddr(a) \/ Cfg!AddDefault(a) \/ Cfg!SetResolver(a))
  BY DEF ReachedDhcp, Cfg!SetAddr, Cfg!AddDefault, Cfg!SetResolver
<1> QED
  BY <1>1, <1>2, <1>3, <1>4, <1>5, <1>6, <1>7, <1>8, <1>9
     DEF Cfg!Progress, Cfg!ShimStep, Cfg!DhcpdStep

\* The mirror carries what is live to the files, as long as no call fails.
LEMMA DhcpFiled ==
    ASSUME Domains, NEW a \in Applies, pc \in [Cfg!Actor -> Cfg!Labels],
           kind[a] = "dhcp", a = applies, applies' = applies,
           ReachedDhcp(pc[a]), LeaseInHand(pc[a]), FiledDhcp(pc[a]),
           Cfg!Progress(a)
    PROVE  FiledDhcp(pc[a])'
<1>0. a \in Cfg!Actor /\ a # Boot /\ a # Service
  BY NetSystemAssumption, NetTabAssumption DEF Cfg!Actor, Applies
<1>00. /\ routes' = routes => Cfg!Gateways' = Cfg!Gateways
       /\ routes = <<>> => Cfg!Gateways = {}
  BY DEF Cfg!Gateways
<1> USE <1>0, <1>00 DEF Domains, FiledDhcp, Cfg!File, Cfg!AddressFile, Cfg!At, Cfg!Goto,
     Cfg!counters, Cfg!live, Cfg!history, Cfg!Live
<1>1. CASE Cfg!Elevate(a)
  BY <1>1 DEF Cfg!Elevate
<1>2. CASE Cfg!RemoveDefault(a)
  BY <1>2 DEF Cfg!RemoveDefault, ReachedDhcp
<1>3. CASE Cfg!DhcpdStep(a)
  BY <1>3 DEF Cfg!DhcpdStep, Cfg!LeaseGranted, Cfg!LeaseRefused, Cfg!DhcpdAddr,
     Cfg!DhcpdRoute, Cfg!DhcpdDns, Cfg!AfterDhcpd
<1>4. CASE Cfg!MirrorAddr(a)
  <2>1. pc[a] = "m_addr" /\ UNCHANGED <<addr, routes, resolver, etc, applies>>
    BY <1>4 DEF Cfg!MirrorAddr, Cfg!Read
  <2>2. \/ pc'[a] = "fail"
        \/ /\ pc'[a] = "m_route"
           /\ job'[a] = [Cfg!Blank EXCEPT !.ip = addr.ip, !.prefix = addr.prefix]
    BY <1>4 DEF Cfg!MirrorAddr, Cfg!Read, Cfg!NoAddress
  <2>3. pc'[a] = "m_route" => job'[a].ip = addr.ip /\ job'[a].prefix = addr.prefix
    BY <2>2 DEF Cfg!Blank
  <2> QED
    BY <2>1, <2>2, <2>3 DEF LeaseInHand
<1>5. CASE Cfg!MirrorRoute(a)
  <2>1. PICK g \in IF routes = <<>> THEN {None} ELSE Cfg!Gateways :
            Cfg!Read(a, "m_dns", [job[a] EXCEPT !.gateway = g])
    BY <1>5 DEF Cfg!MirrorRoute
  <2>2. /\ pc[a] = "m_route" /\ pc'[a] = "m_dns"
        /\ UNCHANGED <<addr, routes, resolver, etc, applies>>
        /\ job' = [job EXCEPT ![a] = [job[a] EXCEPT !.gateway = g]]
    BY <1>5, <2>1 DEF Cfg!MirrorRoute, Cfg!Read
  <2>3. Cfg!Gateways # {} => g \in Cfg!Gateways \ {None}
    BY <2>1, <2>2 DEF LeaseInHand
  <2>4. job[a].ip = addr.ip /\ job[a].prefix = addr.prefix /\ addr.prefix # None
    BY <2>2
  <2> QED
    BY <2>2, <2>3, <2>4
<1>6. CASE Cfg!MirrorDns(a)
  BY <1>6 DEF Cfg!MirrorDns, Cfg!Read
<1>7. CASE Cfg!Truncate(a)
  BY <1>7 DEF Cfg!Truncate
<1>8. CASE Cfg!Store(a)
  <2>1. /\ etc' = [etc EXCEPT ![pc[a]] = Cfg!Written(a)[pc[a]]]
        /\ pc'[a] = Cfg!AfterFile(a, pc[a]) /\ pc[a] \in {"mode"} \cup Cfg!AddressFile
        /\ UNCHANGED <<addr, routes, resolver, job, applies>>
    BY <1>8 DEF Cfg!Store
  <2>2. /\ Cfg!Written(a)["ip"] = job[a].ip
        /\ job[a].prefix # None =>
               Cfg!Written(a)["subnet"] = Cfg!PrefixToNetmask(job[a].prefix)
        /\ Cfg!Written(a)["router"] = job[a].gateway
        /\ Cfg!Written(a)["dns"] = job[a].dns
    BY DEF Cfg!Written
  <2>3. Cfg!AfterFile(a, pc[a]) =
            IF pc[a] = "mode" THEN "drop"
            ELSE IF pc[a] = "ip" THEN "subnet"
            ELSE IF pc[a] = "subnet" /\ job[a].gateway # None THEN "router"
            ELSE IF pc[a] \in {"subnet", "router"} /\ job[a].dns # None THEN "dns"
            ELSE "ok"
    BY DEF Cfg!AfterFile, Cfg!AfterMode
  <2>4. CASE pc[a] \in {"mode", "ip"}
    BY <2>1, <2>2, <2>3, <2>4
  <2>5. CASE pc[a] = "subnet"
    BY <2>1, <2>2, <2>3, <2>5
  <2>6. CASE pc[a] = "router"
    BY <2>1, <2>2, <2>3, <2>6
  <2>7. CASE pc[a] = "dns"
    BY <2>1, <2>2, <2>3, <2>7
  <2> QED
    BY <2>1, <2>4, <2>5, <2>6, <2>7
<1>9. ~(Cfg!SetAddr(a) \/ Cfg!AddDefault(a) \/ Cfg!SetResolver(a))
  BY DEF ReachedDhcp, Cfg!SetAddr, Cfg!AddDefault, Cfg!SetResolver
<1> QED
  BY <1>1, <1>2, <1>3, <1>4, <1>5, <1>6, <1>7, <1>8, <1>9 DEF Cfg!Progress, Cfg!ShimStep

\* All that is known to be in force at a label is known at the next one.
LEMMA ReachedMove ==
    ASSUME Shapes, NEW a \in Applies, pc \in [Cfg!Actor -> Cfg!Labels],
           a = applies, applies' = applies, asked' = asked,
           asked.mode \in {"static", "dhcp"}, kind[a] = asked.mode,
           asked.mode = "static" => job[a] = AskedJob,
           Reached(pc[a]),
           pc[a] \notin Cfg!AddressFile \cup {"ok"} => FilesKept,
           Cfg!Progress(a) \/ Cfg!Trouble(a)
    PROVE  /\ Reached(pc[a])' /\ kind'[a] = asked.mode
           /\ asked.mode = "static" => job'[a] = AskedJob'
<1>1. a \in Cfg!Actor /\ Domains
  BY DEF Cfg!Actor, Shapes
<1>2. faults' = 0 => Cfg!Progress(a) /\ faults = 0
  BY <1>1, NoFault
<1>3. CASE asked.mode = "static"
  <2>1. ReachedStatic(pc[a]) /\ (faults = 0 => FiledStatic(pc[a]))
    BY <1>3 DEF Reached
  <2>2. ReachedStatic(pc[a])' /\ kind'[a] = "static" /\ job'[a] = AskedJob'
    BY <1>3, <2>1, StaticMove
  <2>3. ASSUME faults' = 0 PROVE FiledStatic(pc[a])'
    BY <1>1, <1>2, <1>3, <2>1, <2>3, StaticFiled
  <2> QED
    BY <1>3, <2>2, <2>3 DEF Reached
<1>4. CASE asked.mode = "dhcp"
  <2>1. /\ ReachedDhcp(pc[a])
        /\ faults = 0 => LeaseInHand(pc[a]) /\ FiledDhcp(pc[a])
    BY <1>4 DEF Reached
  <2>2. ReachedDhcp(pc[a])' /\ kind'[a] = "dhcp"
    BY <1>1, <1>4, <2>1, DhcpMove
  <2>3. ASSUME faults' = 0 PROVE LeaseInHand(pc[a])' /\ FiledDhcp(pc[a])'
    BY <1>1, <1>2, <1>4, <2>1, <2>3, LeaseMove, DhcpFiled DEF Shapes
  <2> QED
    BY <1>4, <2>2, <2>3 DEF Reached
<1> QED
  BY <1>3, <1>4

\* After a calm confirm the step of a process is one of the last apply's shim, and
\* keeps what is known of it.
LEMMA RunsKeepsCalm ==
    ASSUME TypeOK, ShimInv, Shapes, CalmInv, NEW a \in Cfg!Actor, Runs(a)
    PROVE  (Shapes /\ CalmInv)'
<1>1. PICK l \in Cfg!Labels \ {"idle", "elevate"} :
          /\ pc' = [pc EXCEPT ![a] = l]
          /\ pc[a] = "elevate" => l \in {"mode", "fail"}
          /\ pc[a] \notin Cfg!Rest
  BY OneProcessMoves DEF Runs, ShimInv
<1>2. /\ pc \in [Cfg!Actor -> Cfg!Labels] /\ pc'[a] = l
      /\ \A b \in Cfg!Actor : b # a => pc'[b] = pc[b]
      /\ Applies \subseteq Cfg!Actor
  BY <1>1 DEF ShimInv, Cfg!Actor
<1>3. /\ worker' = [k \in Applies |-> Waits(k)] /\ worker \in [Applies -> Worker]
      /\ UNCHANGED <<status, applies, posted, stdin, left, asked>>
      /\ Cfg!Progress(a) \/ Cfg!Trouble(a)
  BY DEF Runs, TypeOK, window, pipes
<1>4. Shapes'
  BY <1>2, <1>3, FilesMove, RoutesMove DEF Shapes
<1> SUFFICES ASSUME asked.calm PROVE (OnlyLast /\ Carries /\ HandsOff /\ InForceInv)'
  BY <1>3, <1>4 DEF CalmInv
<1>5. OnlyLast /\ Carries /\ HandsOff /\ InForceInv
  BY DEF CalmInv
<1>6. a = applies /\ a \in Applies /\ pc[a] # "idle"
  BY <1>1, <1>5 DEF OnlyLast, Cfg!Rest
<1>7. pc[a] # "elevate" => asked.password = Right
  BY <1>1, <1>5, <1>6 DEF Carries, ShimInv
<1>8. /\ \A k \in Applies : k # a => worker'[k] = worker[k]
      /\ worker[a].at = "shim" /\ l \in Cfg!Rest => worker'[a] = Outcome(worker[a], l)
      /\ ~(worker[a].at = "shim" /\ l \in Cfg!Rest) => worker'[a] = worker[a]
  BY <1>1, <1>2, <1>3, <1>6 DEF Waits
<1>9. l \in Cfg!Rest => l \in {"ok", "fail"}
  BY <1>1 DEF Cfg!Rest
<1>10. worker[a].at = "shim" /\ l \in Cfg!Rest => worker'[a].at = l
  BY <1>8 DEF Outcome, NoWorker
<1>11. worker[a].at = "shim" => /\ status = "busy" /\ posted = <<>> /\ a \notin left
  BY <1>5, <1>6 DEF OnlyLast
<1>12. OnlyLast'
  <2>1. \A b \in Cfg!Actor : b # applies => pc'[b] \in Cfg!Rest
    BY <1>2, <1>5, <1>6 DEF OnlyLast
  <2>2. /\ worker'[a].at # "none"
        /\ posted # <<>> => worker'[a].at = "ended"
        /\ worker'[a].at # "ended" \/ posted # <<>> => status = "busy"
    BY <1>5, <1>6, <1>8, <1>9, <1>10, <1>11 DEF OnlyLast
  <2>3. /\ worker'[a].at = "shim" => l \notin {"ok", "fail"} /\ a \notin left
        /\ l \notin Cfg!Rest /\ a \notin left => worker'[a].at = "shim"
    BY <1>1, <1>5, <1>6, <1>8, <1>9, <1>10, <1>11 DEF OnlyLast, Cfg!Rest
  <2>4. \A k \in Applies : k # a => worker'[k].at \in {"none", "ended"}
    BY <1>5, <1>6, <1>8 DEF OnlyLast
  <2> QED
    BY <1>2, <1>3, <1>5, <1>6, <2>1, <2>2, <2>3, <2>4 DEF OnlyLast
<1>13. \A r \in {"ok", "fail"} : Told(r)' => Told(r) \/ (r = l /\ a \notin left)
  BY <1>3, <1>6, <1>8, <1>10, <1>11 DEF Told
<1>14. a \notin left => ~Told("ok") /\ ~Told("fail")
  <2>1. a \notin left => worker[a].at = "shim"
    BY <1>1, <1>5, <1>6 DEF OnlyLast
  <2> QED
    BY <1>6, <1>11, <2>1 DEF Told
<1>15. HandsOff'
  <2>1. /\ pc[a] \notin Cfg!AddressFile => FilesKept /\ FilesKept'
        /\ pc[a] \in Cfg!AddressFile => l \in Cfg!AddressFile \cup {"ok"}
    BY <1>1, <1>2, <1>3, <1>5, <1>6, FilesMove DEF HandsOff, FilesKept, Shapes, Cfg!Rest
  <2>2. asked.password # Right => Snap' = asked.before
    BY <1>2, <1>3, <1>5, <1>7, FilesMove DEF HandsOff, Shapes
  <2>3. l \notin Cfg!AddressFile \cup {"ok"} => FilesKept'
    BY <2>1
  <2>4. Told("fail")' /\ a \notin left => l \in {"idle", "fail"}
    BY <1>13, <1>14
  <2>5. Told("ok")' => l = "ok" /\ a \notin left
    BY <1>5, <1>6, <1>13, <1>14 DEF HandsOff
  <2>6. pc'[applies'] = l /\ applies' = a /\ left' = left /\ l # "idle" /\ asked' = asked
    BY <1>1, <1>2, <1>3, <1>6
  <2> QED
    BY <2>2, <2>3, <2>4, <2>5, <2>6 DEF HandsOff
<1>16. /\ kind[a] = asked.mode /\ (asked.mode = "static" => job[a] = AskedJob)
       /\ Reached(pc[a]) /\ (pc[a] \notin Cfg!AddressFile \cup {"ok"} => FilesKept)
       /\ asked.mode \in {"static", "dhcp"} /\ stdin[a] = asked.password
  BY <1>5, <1>6 DEF Carries, InForceInv, HandsOff
<1>17. /\ Reached(pc[a])' /\ kind'[a] = asked.mode
       /\ asked.mode = "static" => job'[a] = AskedJob'
  BY <1>2, <1>3, <1>6, <1>16, ReachedMove
<1>18. InForceInv'
  BY <1>3, <1>6, <1>17 DEF InForceInv, Reached
<1>19. Carries'
  <2>1. worker'[a].at = "shim" => worker'[a] = worker[a]
    BY <1>8, <1>9, <1>10
  <2>2. worker'[a] = worker[a] => JobOf(worker[applies])' = JobOf(worker[applies])
    BY <1>3, <1>6 DEF JobOf
  <2>3. AskedJob' = AskedJob
    BY <1>3 DEF AskedJob
  <2> QED
    BY <1>3, <1>5, <1>6, <1>16, <1>17, <2>1, <2>2, <2>3 DEF Carries
<1> QED
  BY <1>12, <1>15, <1>18, <1>19

\* Nothing of this changes while the machine, the last confirm and what it carries
\* stay as they are.
LEMMA KnownStays ==
    ASSUME UNCHANGED <<net, asked, applies>>
    PROVE  /\ Snap' = Snap /\ (FilesKept <=> FilesKept') /\ (Shapes => Shapes')
           /\ InForceInv => InForceInv'
           /\ AskedJob' = AskedJob
<1>1. UNCHANGED <<addr, routes, resolver, etc, pc, kind, job, faults, asked, applies>>
  BY DEF net
<1>2. Snap' = Snap /\ (FilesKept <=> FilesKept') /\ AskedJob' = AskedJob
  BY <1>1 DEF Snap, FilesKept, AskedJob
<1>3. Cfg!Gateways' = Cfg!Gateways
  BY <1>1 DEF Cfg!Gateways
<1>4. Shapes => Shapes'
  BY <1>1, <1>3 DEF Shapes, Domains
<1>5. /\ AddrAsAsked <=> AddrAsAsked'
      /\ RoutesAsAsked <=> RoutesAsAsked'
      /\ ResolverAsAsked <=> ResolverAsAsked'
      /\ RouterFileAsAsked <=> RouterFileAsAsked'
      /\ DnsFileAsAsked <=> DnsFileAsAsked'
  BY <1>1, <1>3 DEF AddrAsAsked, RoutesAsAsked, ResolverAsAsked, RouterFileAsAsked,
     DnsFileAsAsked
<1>6. ASSUME NEW l
      PROVE  /\ ReachedStatic(l) => ReachedStatic(l)'
             /\ FiledStatic(l) => FiledStatic(l)'
  BY <1>1, <1>2, <1>5 DEF ReachedStatic, FiledStatic
<1>7. ASSUME NEW l
      PROVE  /\ ReachedDhcp(l) => ReachedDhcp(l)'
             /\ LeaseInHand(l) => LeaseInHand(l)'
             /\ FiledDhcp(l) => FiledDhcp(l)'
  BY <1>1, <1>3 DEF ReachedDhcp, LeaseInHand, FiledDhcp
<1>8. ASSUME NEW l PROVE Reached(l) => Reached(l)'
  BY <1>1, <1>6, <1>7 DEF Reached
<1> QED
  BY <1>1, <1>2, <1>4, <1>8 DEF InForceInv

\* A confirm that finds the system calm starts with nothing done; the worker gets
\* the form of that moment, and its checks leave only a whole configuration.
LEMMA ConfirmKeepsCalm ==
    ASSUME TypeOK, ShimInv, Shapes, Confirms
    PROVE  (Shapes /\ CalmInv)'
<1>1. NetApply /\ UNCHANGED <<net, pipes>>
  BY DEF Confirms
<1>2. Shapes'
  BY <1>1 DEF Shapes, Domains, net, Cfg!Gateways
<1> SUFFICES ASSUME asked'.calm PROVE (OnlyLast /\ Carries /\ HandsOff /\ InForceInv)'
  BY <1>2 DEF CalmInv
<1> DEFINE n == applies + 1
<1>3. /\ asked'.mode = Mode /\ asked'.form = form /\ asked'.password = password
      /\ asked'.before = Snap /\ Calm
  BY DEF Confirms
<1>4. /\ applies' = n /\ n \in Applies /\ n > applies
      /\ worker' = [worker EXCEPT ![n] =
             [at |-> IF Argv = None THEN "fail" ELSE "shim",
              mode |-> Mode, argv |-> Argv, password |-> password]]
      /\ status' = "busy" /\ posted' = posted
  BY <1>1, NetTabAssumption DEF NetApply, TypeOK, Applies
<1>5. /\ worker'[n].at = IF Argv = None THEN "fail" ELSE "shim"
      /\ worker'[n].mode = Mode /\ worker'[n].password = password
      /\ worker'[n].argv = Argv
      /\ \A k \in Applies : k # n => worker'[k] = worker[k]
  BY <1>4 DEF TypeOK
<1>6. /\ posted = <<>> /\ \A b \in Cfg!Actor : pc'[b] \in Cfg!Rest
      /\ \A k \in Applies : worker[k].at \in {"none", "ended"}
      /\ n \in Cfg!Actor /\ pc'[n] = "idle" /\ n \notin left'
  BY <1>1, <1>3, <1>4 DEF Calm, Cfg!Quiet, net, pipes, Cfg!Actor, ShimInv, Unborn
<1>7. OnlyLast'
  BY <1>4, <1>5, <1>6 DEF OnlyLast
<1>8. Snap' = Snap
  BY <1>1 DEF net, Snap
<1>9. ~Told("ok")'
  BY <1>4, <1>5, <1>6 DEF Told
<1>10. HandsOff'
  BY <1>3, <1>4, <1>6, <1>8, <1>9 DEF HandsOff, FilesKept, Snap
<1>11. ASSUME wantStatic, Argv # None PROVE JobOf(worker[applies])' = AskedJob'
  <2>1. Argv = StaticArgv /\ StaticChecks
    BY <1>11 DEF Argv
  <2>2. worker'[n].mode = "static"
    BY <1>5, <1>11 DEF Mode
  <2>3. Argv.prefix = form.prefix
    BY <2>1, NetTabAssumption DEF StaticArgv, StaticChecks, ParsePrefix, ValidPrefix
  <2>4. form.gateway \in Text /\ form.dns \in Text
    BY NetTabAssumption DEF TypeOK, Form
  <2>5. /\ Argv.gateway = OrDash(Trim(form.gateway))
        /\ Argv.dns = OrDash(Trim(form.dns))
    BY <2>1 DEF StaticArgv
  <2>6. ASSUME NEW t \in Text PROVE (OrDash(Trim(t)) = Dash) <=> (t.what = "empty")
    BY EmptyText DEF Text, OrDash, Trim, Dash
  <2> QED
    BY <1>3, <1>4, <1>5, <2>2, <2>3, <2>4, <2>5, <2>6 DEF JobOf, AskedJob
<1>12. Carries'
  BY <1>3, <1>4, <1>5, <1>6, <1>11 DEF Carries, Mode
<1>13. InForceInv'
  BY <1>4, <1>6 DEF InForceInv
<1> QED
  BY <1>7, <1>10, <1>12, <1>13

\* What else the window and the worker do: they carry the outcome to the status
\* line, and start the shim with what was confirmed.
LEMMA WindowKeepsCalm ==
    ASSUME TypeOK, ShimInv, Shapes, CalmInv, ByItself
    PROVE  (Shapes /\ CalmInv)'
<1>1. CASE Confirms
  BY <1>1, ConfirmKeepsCalm
<1> USE DEF CalmInv
<1>2. CASE (User \/ Refresh) /\ applies' = applies /\ UNCHANGED <<net, pipes, asked>>
  <2>1. UNCHANGED <<status, posted, worker>>
    <3>1. ~NetApply
      BY <1>2, NetTabAssumption DEF NetApply, TypeOK
    <3> QED
      BY <1>2, <3>1 DEF User, SelectMode, Edit, Arm, Cancel, Type, Refresh, Loop
  <2>2. UNCHANGED <<stdin, left, pc, kind, job>>
    BY <1>2 DEF pipes, net
  <2>3. Carries => Carries'
    BY <1>2, <2>1, <2>2, KnownStays DEF Carries, JobOf
  <2> QED
    BY <1>2, <2>1, <2>2, <2>3, KnownStays DEF OnlyLast, HandsOff, Told
<1>3. CASE Delivers
  <2>1. /\ Deliver /\ UNCHANGED <<applies, worker, asked>>
        /\ UNCHANGED <<net, stdin, left, pc, kind, job>>
    BY <1>3 DEF Delivers, Deliver, pipes, net
  <2>2. Shapes'
    BY <2>1, KnownStays
  <2>3. ASSUME asked.calm PROVE CalmInv'
    <3>1. PICK r \in {"ok", "fail"} : posted = <<Report(applies, r)>>
      BY <2>1, <2>3 DEF Deliver, OnlyLast
    <3>2. status' = r /\ posted' = <<>> /\ worker[applies].at = "ended"
      <4>1. Head(posted) = Report(applies, r) /\ Tail(posted) = <<>> /\ posted # <<>>
        BY <3>1
      <4> QED
        BY <2>1, <2>3, <4>1 DEF Deliver, OnlyLast, Report
    <3>3. \A l : Told(l)' => Told(l) \/ l = r
      BY <2>1, <3>2 DEF Told
    <3>4. Told(r)
      BY <3>1 DEF Told
    <3>5. \A l \in {"ok", "fail"} : Told(l)' => Told(l)
      BY <3>3, <3>4
    <3>6. OnlyLast'
      BY <2>1, <2>3, <3>2 DEF OnlyLast
    <3>7. Carries' /\ InForceInv'
      BY <2>1, <2>3, KnownStays DEF Carries, JobOf
    <3>8. HandsOff'
      BY <2>1, <2>3, <3>5, KnownStays DEF HandsOff
    <3> QED
      BY <3>6, <3>7, <3>8
  <2> QED
    BY <2>1, <2>2, <2>3
<1>4. ASSUME NEW k \in Applies, Posts(k) PROVE (Shapes /\ CalmInv)'
  <2>1. /\ Post(k) /\ UNCHANGED <<status, applies, asked>>
        /\ UNCHANGED <<net, stdin, left, pc, kind, job>>
    BY <1>4 DEF Posts, Post, window, pipes, net
  <2>2. Shapes'
    BY <2>1, KnownStays
  <2>3. ASSUME asked.calm PROVE CalmInv'
    <3>1. k = applies /\ worker[k].at \in {"ok", "fail"}
      BY <2>1, <2>3 DEF Post, OnlyLast
    <3>2. /\ posted = <<>> /\ status = "busy"
          /\ posted' = <<Report(k, worker[k].at)>>
      <4>1. posted = <<>> /\ status = "busy"
        BY <2>3, <3>1 DEF OnlyLast
      <4>2. posted' = Append(posted, Report(k, worker[k].at))
        BY <2>1 DEF Post
      <4>3. ASSUME NEW r PROVE Append(<<>>, r) = <<r>>
        OBVIOUS
      <4> QED
        BY <4>1, <4>2, <4>3
    <3>3. worker'[k].at = "ended" /\ \A j \in Applies : j # k => worker'[j] = worker[j]
      BY <2>1 DEF Post, TypeOK
    <3>4. ASSUME NEW l \in {"ok", "fail"}, Told(l)' PROVE Told(l)
      <4>1. <<Report(k, worker[k].at)>> = <<Report(k, l)>> => worker[k].at = l
        BY DEF Report
      <4> QED
        BY <2>1, <3>1, <3>2, <3>3, <3>4, <4>1 DEF Told
    <3>5. OnlyLast'
      BY <2>1, <2>3, <3>1, <3>2, <3>3 DEF OnlyLast
    <3>6. Carries' /\ InForceInv'
      BY <2>1, <2>3, <3>1, <3>3, KnownStays DEF Carries
    <3>7. HandsOff'
      BY <2>1, <2>3, <3>4, KnownStays DEF HandsOff
    <3> QED
      BY <3>5, <3>6, <3>7
  <2> QED
    BY <2>1, <2>2, <2>3
<1>5. ASSUME NEW k \in Applies, StartShim(k) PROVE (Shapes /\ CalmInv)'
  <2>1. /\ UNCHANGED <<vars, left, asked>> /\ worker[k].at = "shim" /\ pc[k] = "idle"
        /\ Cfg!Launch(k, worker[k].mode, JobOf(worker[k]))
        /\ stdin' = [stdin EXCEPT ![k] = worker[k].password]
    BY <1>5 DEF StartShim
  <2>2. UNCHANGED <<status, applies, worker, posted, addr, routes, resolver, etc, faults>>
    BY <2>1 DEF vars, window, Cfg!Launch, Cfg!live
  <2>3. /\ k \in Cfg!Actor /\ stdin'[k] = worker[k].password
        /\ pc'[k] = "elevate" /\ kind'[k] = worker[k].mode /\ job'[k] = JobOf(worker[k])
        /\ \A b \in Cfg!Actor : b # k => pc'[b] \in {"idle", pc[b]}
    BY <2>1 DEF Cfg!Launch, Cfg!Actor, ShimInv
  <2>4. Shapes'
    <3>1. Cfg!Gateways' = Cfg!Gateways
      BY <2>2 DEF Cfg!Gateways
    <3>2. Domains'
      BY <2>1, <2>2 DEF Shapes, Domains, Cfg!Launch
    <3> QED
      BY <2>2, <3>1, <3>2 DEF Shapes
  <2>5. ASSUME asked.calm PROVE CalmInv'
    <3>1. k = applies
      BY <2>1, <2>5 DEF OnlyLast
    <3>2. /\ worker[k].mode = asked.mode /\ worker[k].password = asked.password
          /\ asked.mode = "static" => JobOf(worker[k]) = AskedJob
          /\ asked.mode \in {"static", "dhcp"}
      BY <2>1, <2>5, <3>1 DEF Carries
    <3>3. OnlyLast'
      BY <2>1, <2>2, <2>3, <2>5, <3>1 DEF OnlyLast, Cfg!Rest
    <3>4. Carries'
      BY <2>1, <2>2, <2>3, <3>1, <3>2 DEF Carries, JobOf, AskedJob
    <3>5. Snap = asked.before
      BY <2>1, <2>5, <3>1 DEF HandsOff
    <3>6. ~Told("ok")' /\ ~Told("fail")' /\ pc'[applies] = "elevate" /\ applies' = applies
      BY <2>1, <2>2, <2>3, <2>5, <3>1 DEF Told, OnlyLast
    <3>7. HandsOff'
      BY <2>1, <2>2, <2>3, <3>5, <3>6 DEF HandsOff, FilesKept, Snap
    <3>8. asked.mode = "static" => asked.form.prefix \in 0 .. MaxPrefix
      <4>1. asked.mode = "static" => worker[k].argv.prefix \in 0 .. MaxPrefix
        BY <2>1, <3>2 DEF TypeOK, Command
      <4> QED
        BY <3>2, <4>1 DEF JobOf, AskedJob
    <3>9. /\ addr' = asked'.before.addr /\ routes' = asked'.before.routes
          /\ resolver' = asked'.before.resolver
      BY <2>1, <2>2, <3>5 DEF Snap
    <3>10. asked'.mode = "static" => ReachedStatic("elevate")' /\ FiledStatic("elevate")'
      BY <2>1, <3>8, <3>9 DEF ReachedStatic, FiledStatic, Cfg!AddressFile
    <3>11. ReachedDhcp("elevate")' /\ LeaseInHand("elevate")' /\ FiledDhcp("elevate")'
      BY DEF ReachedDhcp, LeaseInHand, FiledDhcp, Cfg!AddressFile
    <3>12. Reached("elevate")'
      BY <3>10, <3>11 DEF Reached
    <3>13. InForceInv'
      BY <3>6, <3>12 DEF InForceInv
    <3> QED
      BY <3>3, <3>4, <3>7, <3>13
  <2> QED
    BY <2>1, <2>4, <2>5
<1>6. ASSUME NEW k \in Applies, NoShim(k) \/ WaitFails(k) PROVE (Shapes /\ CalmInv)'
  <2>1. /\ worker' = [worker EXCEPT ![k] = Outcome(worker[k], "fail")]
        /\ UNCHANGED <<status, applies, posted, stdin, asked>>
        /\ UNCHANGED <<net, pc, kind, job>> /\ worker[k].at = "shim"
        /\ \/ pc[k] = "idle" /\ left' = left
           \/ pc[k] \notin Cfg!Rest /\ left' = left \cup {k}
    BY <1>6 DEF NoShim, WaitFails, window, pipes, net
  <2>2. Shapes'
    BY <2>1, KnownStays
  <2>3. ASSUME asked.calm PROVE CalmInv'
    <3>1. k = applies /\ posted = <<>> /\ status = "busy"
      BY <2>1, <2>3 DEF OnlyLast
    <3>2. worker'[k].at = "fail" /\ \A j \in Applies : j # k => worker'[j] = worker[j]
      BY <2>1 DEF TypeOK, Outcome, NoWorker
    <3>3. OnlyLast'
      BY <2>1, <2>3, <3>1, <3>2 DEF OnlyLast, Cfg!Rest
    <3>4. ~Told("ok")'
      BY <2>1, <3>1, <3>2 DEF Told
    <3>5. HandsOff'
      BY <2>1, <2>3, <3>1, <3>4, KnownStays DEF HandsOff
    <3>6. Carries' /\ InForceInv'
      BY <2>1, <2>3, <3>1, <3>2, KnownStays DEF Carries
    <3> QED
      BY <3>3, <3>5, <3>6
  <2> QED
    BY <2>1, <2>2, <2>3
<1> QED
  BY <1>1, <1>2, <1>3, <1>4, <1>5, <1>6 DEF Window, ByItself

LEMMA InitCalm == SysInit => Shapes /\ CalmInv
<1> SUFFICES ASSUME SysInit PROVE Shapes /\ CalmInv
  OBVIOUS
<1>1. etc \in Cfg!Image /\ faults = 0 /\ asked.calm = FALSE /\ routes = <<>>
  BY NetSystemAssumption DEF SysInit, Cfg!Init
<1>2. DOMAIN kind = Cfg!Actor /\ DOMAIN job = Cfg!Actor
  BY DEF SysInit, Cfg!Init
<1>3. DOMAIN etc = Cfg!File
  BY <1>1 DEF Cfg!Image, Cfg!File, Cfg!AddressFile
<1>4. routes \in Seq(Cfg!Gateways)
  BY <1>1
<1> QED
  BY <1>1, <1>2, <1>3, <1>4 DEF Shapes, Domains, CalmInv

LEMMA StepCalm ==
    TypeOK /\ ShimInv /\ Shapes /\ CalmInv /\ [SysNext]_sysvars => (Shapes /\ CalmInv)'
<1> SUFFICES ASSUME TypeOK, ShimInv, Shapes, CalmInv, [SysNext]_sysvars
             PROVE  (Shapes /\ CalmInv)'
  OBVIOUS
<1>1. CASE ByItself
  BY <1>1, WindowKeepsCalm
<1>2. ASSUME NEW a \in Cfg!Actor, Runs(a) PROVE (Shapes /\ CalmInv)'
  BY <1>2, RunsKeepsCalm
<1>3. CASE UNCHANGED sysvars
  <2>1. /\ UNCHANGED <<net, asked, applies, status, posted, worker>>
        /\ UNCHANGED <<stdin, left, pc, kind, job>>
    BY <1>3 DEF sysvars, vars, window, net, pipes
  <2>2. Carries => Carries'
    BY <2>1, KnownStays DEF Carries, JobOf
  <2> QED
    BY <2>1, <2>2, KnownStays DEF CalmInv, OnlyLast, HandsOff, Told
<1> QED
  BY <1>1, <1>2, <1>3 DEF SysNext, ByItself

LEMMA CalmAlways == SysSpec => [](Shapes /\ CalmInv)
<1>1. SysInit => TypeOK /\ ArgvParses /\ ShimInv /\ Shapes /\ CalmInv
  BY InitType, InitShim, InitCalm DEF SysInit
<1>2. TypeOK /\ ArgvParses /\ ShimInv /\ Shapes /\ CalmInv /\ [SysNext]_sysvars
          => (TypeOK /\ ArgvParses /\ ShimInv /\ Shapes /\ CalmInv)'
  BY SysStep, StepCalm
<1> QED
  BY <1>1, <1>2, PTL DEF SysSpec

\* At the label "ok" everything is in force.
LEMMA OkForce ==
    ASSUME CalmInv, asked.calm, pc[applies] = "ok"
    PROVE  InForce
<1>1. Reached("ok") /\ asked.mode \in {"static", "dhcp"}
  BY DEF CalmInv, InForceInv, Carries
<1>2. CASE asked.mode = "static"
  BY <1>1, <1>2 DEF Reached, ReachedStatic, FiledStatic, InForce, FilesAsAsked
<1>3. CASE asked.mode = "dhcp"
  BY <1>1, <1>3 DEF Reached, ReachedDhcp, FiledDhcp, InForce, FilesAsLive
<1> QED
  BY <1>1, <1>2, <1>3

\* "Applied" on the status line is the truth: what the person confirmed is what the
\* machine does and, until a call fails, what each of the files says, whatever came on
\* the way, unless something else was at work at the time of the confirm.
THEOREM AppliedIsTrue == SysSpec => []OkIsInForce
<1>1. Shapes /\ CalmInv => OkIsInForce
  BY OkForce DEF CalmInv, HandsOff, Told, OkIsInForce
<1> QED
  BY <1>1, CalmAlways, PTL

\* "Failed" is harmless, under the same condition: the address files are those of
\* before the confirm, and a wrong password has touched nothing.  A worker that could
\* not wait has left a shim behind: of that one the files are kept if it fails, and
\* what was confirmed is in force if it does not.
THEOREM FailedIsHarmless == SysSpec => []FailIsHarmless
<1>1. ASSUME CalmInv, asked.calm, status = "fail" PROVE FailIsHarmless
  <2>1. HandsOff /\ Told("fail")
    BY <1>1 DEF CalmInv, Told
  <2>2. applies \notin left => pc[applies] \in {"idle", "fail"}
    BY <2>1 DEF HandsOff
  <2>3. applies \notin left \/ pc[applies] = "fail" => FilesKept
    BY <2>1, <2>2 DEF HandsOff, Cfg!AddressFile
  <2>4. pc[applies] = "ok" => applies \in left /\ InForce
    BY <1>1, <2>2, OkForce
  <2> QED
    BY <2>1, <2>3, <2>4 DEF HandsOff, FailIsHarmless
<1>2. Shapes /\ CalmInv => FailIsHarmless
  BY <1>1 DEF FailIsHarmless
<1> QED
  BY <1>2, CalmAlways, PTL
=============================================================================
