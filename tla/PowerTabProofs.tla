--------------------------- MODULE PowerTabProofs ---------------------------
(***************************************************************************)
(* Proofs about PowerTab, for every number of requests and every set of    *)
(* passwords the daemon rejects.                                           *)
(***************************************************************************)
EXTENDS PowerTab, TLAPS

\* A request that was not made has the type of one.
LEMMA NoShimType == NoShim \in Request
  BY DEF NoShim, Request, Stages, Password

\* Init establishes the types.
LEMMA InitType == Init => TypeOK
  BY PowerAssumption, NoShimType DEF Init, TypeOK, Calls, Password

\* Every step keeps the types.
LEMMA StepType == TypeOK /\ [Next]_vars => TypeOK'
<1> SUFFICES ASSUME TypeOK, [Next]_vars PROVE TypeOK'
  OBVIOUS
<1> USE PowerAssumption, NoShimType
<1>1. ASSUME NEW action \in Actions, Arm(action) PROVE TypeOK'
  BY <1>1 DEF TypeOK, Arm, Click
<1>2. ASSUME NEW action \in Actions, Confirm(action) PROVE TypeOK'
  <2>1. calls + 1 \in Calls
    BY <1>2 DEF Confirm, TypeOK, Calls
  <2>2. [NoShim EXCEPT !.action = action, !.typed = password] \in Request
    BY DEF TypeOK, NoShim, Request, Stages, Password
  <2>3. shim' \in [Calls -> Request]
    BY <1>2, <2>1, <2>2 DEF Confirm, TypeOK
  <2>4. confirm = {action}
    BY <1>2 DEF Confirm, TypeOK
  <2>5. shim'[calls + 1].action = action
    BY <1>2, <2>1 DEF Confirm, TypeOK, NoShim
  <2> QED
    BY <1>2, <2>1, <2>3, <2>4, <2>5 DEF Confirm, TypeOK, window
<1>3. ASSUME NEW p \in Password, Type(p) PROVE TypeOK'
  BY <1>3 DEF TypeOK, Type, Click
<1>4. CASE Cancel
  BY <1>4 DEF TypeOK, Cancel, Click, Password
<1>5. CASE HandlerStep
  <2>1. CASE SpawnShim
    <3>1. calls \in Calls
      BY <2>1 DEF SpawnShim, TypeOK, Calls
    <3>2. CASE Return("fail") /\ UNCHANGED shim
      BY <2>1, <3>2 DEF SpawnShim, Handler, Return, TypeOK, Password
    <3>3. CASE /\ gui' = "write"
               /\ shim' = [shim EXCEPT ![calls].at = "stdin", ![calls].writer = TRUE]
               /\ UNCHANGED window
      <4>1. shim' \in [Calls -> Request]
        BY <3>1, <3>3 DEF TypeOK, Request, Stages
      <4>2. shim'[calls].action = shim[calls].action
        BY <3>1, <3>3 DEF TypeOK
      <4> QED
        BY <2>1, <3>3, <4>1, <4>2 DEF SpawnShim, Handler, TypeOK, window
    <3> QED
      BY <2>1, <3>2, <3>3 DEF SpawnShim
  <2>2. CASE WritePassword
    <3>1. calls \in Calls
      BY <2>2 DEF WritePassword, TypeOK, Calls
    <3>2. PICK t \in {shim[calls].typed, None} : shim' = [shim EXCEPT ![calls].text = t]
      BY <2>2 DEF WritePassword
    <3>3. t \in Password
      BY <3>1, <3>2 DEF TypeOK, Request, Password
    <3>4. shim' \in [Calls -> Request]
      BY <3>1, <3>2, <3>3 DEF TypeOK, Request
    <3>5. shim'[calls].action = shim[calls].action
      BY <3>1, <3>2 DEF TypeOK
    <3> QED
      BY <2>2, <3>4, <3>5 DEF WritePassword, Handler, TypeOK, window
  <2>3. CASE CloseStdin
    <3>1. calls \in Calls
      BY <2>3 DEF CloseStdin, TypeOK, Calls
    <3>2. shim' \in [Calls -> Request]
      BY <2>3, <3>1 DEF CloseStdin, TypeOK, Request
    <3>3. shim'[calls].action = shim[calls].action
      BY <2>3, <3>1 DEF CloseStdin, TypeOK
    <3> QED
      BY <2>3, <3>2, <3>3 DEF CloseStdin, Handler, TypeOK, window
  <2>4. CASE WaitShim
    BY <2>4 DEF WaitShim, Exited, Handler, Return, TypeOK, Password
  <2> QED
    BY <1>5, <2>1, <2>2, <2>3, <2>4 DEF HandlerStep
<1>6. CASE WaitFails
  BY <1>6 DEF WaitFails, Handler, Return, TypeOK, Password
<1>7. ASSUME NEW k \in Calls, ShimStep(k) PROVE TypeOK'
  <2>1. \A l \in Stages : Shim(k, l) => /\ shim' \in [Calls -> Request]
                                        /\ \A j \in Calls : shim'[j].action = shim[j].action
    BY DEF Shim, TypeOK, Request
  <2>2. \A l \in Stages : Shim(k, l) /\ kstop' \in Actions \cup {None} => TypeOK'
    <3> SUFFICES ASSUME NEW l \in Stages, Shim(k, l), kstop' \in Actions \cup {None}
                 PROVE  TypeOK'
      OBVIOUS
    <3>1. /\ shim' \in [Calls -> Request]
          /\ \A j \in Calls : shim'[j].action = shim[j].action
      BY <2>1
    <3>2. gui # "idle" => calls \in Calls
      BY DEF TypeOK, Calls
    <3> QED
      BY <3>1, <3>2 DEF Shim, TypeOK, window
  <2>3. CASE ReadStdin(k)
    <3>1. PICK t \in {shim[k].text, None} :
              shim' = [shim EXCEPT ![k].at = "open", ![k].text = t]
      BY <2>3 DEF ReadStdin
    <3>2. t \in Password
      BY <3>1 DEF TypeOK, Request, Password
    <3>3. shim' \in [Calls -> Request]
      <4>1. shim[k] \in Request /\ "open" \in Stages
        BY DEF TypeOK, Stages, Handshake
      <4>2. [shim[k] EXCEPT !.at = "open", !.text = t] \in Request
        BY <3>2, <4>1 DEF Request
      <4>3. shim' = [shim EXCEPT ![k] = [shim[k] EXCEPT !.at = "open", !.text = t]]
        BY <3>1 DEF TypeOK
      <4> QED
        BY <4>2, <4>3 DEF TypeOK
    <3>4. \A j \in Calls : shim'[j].action = shim[j].action
      BY <3>1 DEF TypeOK
    <3> QED
      BY <2>3, <3>3, <3>4 DEF ReadStdin, TypeOK, window, Calls
  <2>4. CASE OpenSudo(k)
    BY <2>2, <2>4 DEF OpenSudo, TypeOK, Stages, Handshake
  <2>5. CASE Authenticate(k)
    BY <2>2, <2>5 DEF Authenticate, TypeOK, Stages, Handshake
  <2>6. CASE ElevateProcess(k)
    BY <2>2, <2>6 DEF ElevateProcess, TypeOK, Stages, Handshake
  <2>7. CASE SwitchNamespace(k)
    BY <2>2, <2>7 DEF SwitchNamespace, TypeOK, Stages, Handshake
  <2>8. CASE WriteKstop(k)
    <3>1. shim[k].action \in Actions \cup {None}
      BY DEF TypeOK, Request
    <3> QED
      BY <2>2, <2>8, <3>1 DEF WriteKstop, TypeOK, Stages
  <2> QED
    BY <1>7, <2>3, <2>4, <2>5, <2>6, <2>7, <2>8 DEF ShimStep
<1>8. CASE GoDown
  BY <1>8 DEF GoDown, TypeOK, window
<1>9. CASE UNCHANGED vars
  BY <1>9 DEF vars, window, TypeOK
<1> QED
  BY <1>1, <1>2, <1>3, <1>4, <1>5, <1>6, <1>7, <1>8, <1>9 DEF Next, User

\* Every variable keeps its type, and whatever runs was confirmed.
THEOREM TypeCorrect == Spec => []TypeOK
<1>1. Init => TypeOK
  BY InitType
<1>2. TypeOK /\ [Next]_vars => TypeOK'
  BY StepType
<1> QED
  BY <1>1, <1>2, PTL DEF Spec

-----------------------------------------------------------------------------
\* A confirm is recorded with what was typed; nothing else sets it.
LEMMA InitPipe == Init => WriterInv /\ PipeInv /\ StopIsConfirmed
  BY DEF Init, WriterInv, PipeInv, StopIsConfirmed, NoShim

\* The write end stays open, and the shim at its stdin, until CloseStdin.
LEMMA StepWriter == TypeOK /\ WriterInv /\ [Next]_vars => WriterInv'
<1> SUFFICES ASSUME TypeOK, WriterInv, [Next]_vars PROVE WriterInv'
  OBVIOUS
<1>1. CASE User
  BY <1>1 DEF User, Arm, Type, Cancel, Confirm, Click, WriterInv
<1>2. CASE HandlerStep
  <2>1. calls' = calls
    BY <1>2 DEF HandlerStep, SpawnShim, WritePassword, CloseStdin, WaitShim, Handler
  <2>2. gui # "idle" => calls \in Calls
    BY DEF TypeOK, Calls
  <2>3. CASE SpawnShim
    BY <2>1, <2>2, <2>3 DEF SpawnShim, Return, WriterInv, TypeOK, Request
  <2>4. CASE WritePassword
    BY <2>1, <2>2, <2>4 DEF WritePassword, WriterInv, TypeOK, Request
  <2>5. CASE CloseStdin \/ WaitShim
    BY <2>5 DEF CloseStdin, WaitShim, Return, WriterInv
  <2> QED
    BY <1>2, <2>3, <2>4, <2>5 DEF HandlerStep
<1>3. CASE WaitFails \/ GoDown \/ UNCHANGED vars
  BY <1>3 DEF WaitFails, Return, GoDown, vars, window, WriterInv
<1>4. ASSUME NEW k \in Calls, ShimStep(k) PROVE WriterInv'
  <2>1. gui' = gui /\ calls' = calls
    BY <1>4 DEF ShimStep, ReadStdin, OpenSudo, Authenticate, ElevateProcess,
                SwitchNamespace, WriteKstop, Shim
  <2>2. shim[k].at # "stdin" \/ ~shim[k].writer
    BY <1>4 DEF ShimStep, ReadStdin, OpenSudo, Authenticate, ElevateProcess,
                SwitchNamespace, WriteKstop
  <2>3. \A j \in Calls : j # k => shim'[j] = shim[j]
    BY <1>4 DEF ShimStep, ReadStdin, OpenSudo, Authenticate, ElevateProcess,
                SwitchNamespace, WriteKstop, Shim, TypeOK
  <2>4. gui # "idle" => calls \in Calls
    BY DEF TypeOK, Calls
  <2> QED
    BY <2>1, <2>2, <2>3, <2>4 DEF WriterInv
<1> QED
  BY <1>1, <1>2, <1>3, <1>4 DEF Next

\* Every step keeps what a shim past the daemon knows, and what sys:kstop says.
LEMMA StepPipe ==
    TypeOK /\ WriterInv /\ PipeInv /\ StopIsConfirmed /\ [Next]_vars
        => PipeInv' /\ StopIsConfirmed'
<1> SUFFICES ASSUME TypeOK, WriterInv, PipeInv, StopIsConfirmed, [Next]_vars
             PROVE  PipeInv' /\ StopIsConfirmed'
  OBVIOUS
<1> USE PowerAssumption
<1>a. ASSUME UNCHANGED <<shim, kstop>>, calls' = calls PROVE PipeInv' /\ StopIsConfirmed'
  BY <1>a DEF PipeInv, StopIsConfirmed
<1>1. CASE \/ \E action \in Actions : Arm(action)
           \/ \E p \in Password : Type(p)
           \/ Cancel
  BY <1>1, <1>a DEF Arm, Type, Cancel, Click
<1>2. ASSUME NEW action \in Actions, Confirm(action) PROVE PipeInv' /\ StopIsConfirmed'
  <2>1. calls + 1 \in Calls /\ calls' = calls + 1 /\ calls \in Nat
    BY <1>2 DEF Confirm, TypeOK, Calls
  <2>2. /\ shim'[calls + 1].at = "none"
        /\ shim'[calls + 1].text = None
    BY <1>2, <2>1 DEF Confirm, TypeOK, NoShim
  <2>3. \A k \in Calls : k # calls + 1 => shim'[k] = shim[k]
    BY <1>2, <2>1 DEF Confirm, TypeOK
  <2>4. shim[calls + 1].action = None
    BY <2>1 DEF PipeInv, NoShim, Calls
  <2>5. PipeInv'
    BY <2>1, <2>2, <2>3 DEF PipeInv, Calls
  <2>6. StopIsConfirmed'
    BY <1>2, <2>1, <2>3, <2>4 DEF StopIsConfirmed, Confirm, PipeInv
  <2> QED
    BY <2>5, <2>6
<1>3. CASE HandlerStep
  <2>1. CASE SpawnShim
    <3>1. CASE UNCHANGED shim
      BY <2>1, <3>1, <1>a DEF SpawnShim, Handler
    <3>2. CASE shim' = [shim EXCEPT ![calls].at = "stdin", ![calls].writer = TRUE]
      <4>1. calls \in Calls
        BY <2>1 DEF SpawnShim, TypeOK, Calls
      <4>2. \A k \in Calls : /\ k # calls => shim'[k] = shim[k]
                             /\ shim'[k].action = shim[k].action
                             /\ shim'[k].typed = shim[k].typed
                             /\ shim'[k].text = shim[k].text
        BY <3>2 DEF TypeOK
      <4>3. shim'[calls].at = "stdin"
        BY <3>2, <4>1 DEF TypeOK, Request
      <4> QED
        BY <2>1, <4>1, <4>2, <4>3
           DEF SpawnShim, Handler, PipeInv, StopIsConfirmed, Calls
    <3> QED
      BY <2>1, <3>1, <3>2 DEF SpawnShim
  <2>2. CASE WritePassword
    <3>1. calls \in Calls /\ calls' = calls /\ kstop' = kstop
      BY <2>2 DEF WritePassword, Handler, TypeOK, Calls
    <3>2. PICK t \in {shim[calls].typed, None} : shim' = [shim EXCEPT ![calls].text = t]
      BY <2>2 DEF WritePassword
    <3>3. \A k \in Calls : /\ k # calls => shim'[k] = shim[k]
                           /\ shim'[k].action = shim[k].action
                           /\ shim'[k].typed = shim[k].typed
                           /\ shim'[k].at = shim[k].at
      BY <3>2 DEF TypeOK
    <3>4. shim'[calls].text = t
      BY <3>1, <3>2 DEF TypeOK, Request
    <3>5. shim[calls].at = "stdin"
      BY <2>2 DEF WriterInv, WritePassword
    <3> QED
      BY <3>1, <3>2, <3>3, <3>4, <3>5 DEF PipeInv, StopIsConfirmed, Calls
  <2>3. CASE CloseStdin
    <3>1. calls \in Calls /\ calls' = calls /\ kstop' = kstop
      BY <2>3 DEF CloseStdin, Handler, TypeOK, Calls
    <3>2. \A k \in Calls : /\ k # calls => shim'[k] = shim[k]
                           /\ shim'[k].action = shim[k].action
                           /\ shim'[k].typed = shim[k].typed
                           /\ shim'[k].text = shim[k].text
                           /\ shim'[k].at = shim[k].at
      BY <2>3 DEF CloseStdin, TypeOK
    <3> QED
      BY <3>1, <3>2 DEF PipeInv, StopIsConfirmed, Calls
  <2>4. CASE WaitShim
    BY <2>4, <1>a DEF WaitShim, Handler
  <2> QED
    BY <1>3, <2>1, <2>2, <2>3, <2>4 DEF HandlerStep
<1>4. CASE WaitFails \/ GoDown \/ UNCHANGED vars
  BY <1>4, <1>a DEF WaitFails, Handler, GoDown, vars
<1>5. ASSUME NEW k \in Calls, ShimStep(k) PROVE PipeInv' /\ StopIsConfirmed'
  \* Only ReadStdin touches the text.
  <2>1. CASE ReadStdin(k)
    <3>1. PICK t \in {shim[k].text, None} :
              shim' = [shim EXCEPT ![k].at = "open", ![k].text = t]
      BY <2>1 DEF ReadStdin
    <3>2. \A j \in Calls : /\ j # k => shim'[j] = shim[j]
                           /\ shim'[j].action = shim[j].action
                           /\ shim'[j].typed = shim[j].typed
      BY <3>1 DEF TypeOK
    <3>3. shim'[k].text = t /\ shim'[k].at = "open"
      BY <3>1 DEF TypeOK, Request
    <3>4. shim[k].at = "stdin" /\ calls' = calls /\ kstop' = kstop
      BY <2>1 DEF ReadStdin
    <3>5. k <= calls
      BY <3>4 DEF PipeInv, NoShim, TypeOK, Calls
    <3>6. shim'[k].text \in {shim'[k].typed, None}
      BY <3>1, <3>2, <3>3 DEF PipeInv
    <3>7. PipeInv'
      <4>1. \A j \in Calls : j > calls' => shim'[j] = NoShim
        BY <3>2, <3>4, <3>5 DEF PipeInv, TypeOK, Calls
      <4> QED
        BY <3>2, <3>3, <3>6, <4>1 DEF PipeInv
    <3> QED
      BY <3>2, <3>4, <3>7 DEF StopIsConfirmed
  <2>2. ASSUME NEW l \in Stages, Shim(k, l), shim[k].at # "none",
               l \in {"procfd", "ns", "kstop"} => shim[k].text = Right
        PROVE  /\ PipeInv'
               /\ \A j \in Calls : /\ shim'[j].action = shim[j].action
                                    /\ shim'[j].typed = shim[j].typed
    <3>1. \A j \in Calls : /\ j # k => shim'[j] = shim[j]
                           /\ shim'[j].action = shim[j].action
                           /\ shim'[j].typed = shim[j].typed
                           /\ shim'[j].text = shim[j].text
      BY <2>2 DEF Shim, TypeOK
    <3>2. shim'[k].at = l /\ calls' = calls
      BY <2>2 DEF Shim, TypeOK, Request
    <3>3. k <= calls
      BY <2>2 DEF PipeInv, NoShim, TypeOK, Calls
    <3> QED
      BY <2>2, <3>1, <3>2, <3>3 DEF PipeInv, Calls, TypeOK
  <2>3. ASSUME NEW l \in Stages, Shim(k, l), shim[k].at # "none", kstop' = kstop,
               l \in {"procfd", "ns", "kstop"} => shim[k].text = Right
        PROVE  PipeInv' /\ StopIsConfirmed'
    BY <2>2, <2>3 DEF StopIsConfirmed
  <2>4. CASE OpenSudo(k)
    BY <2>3, <2>4 DEF OpenSudo, Stages, Handshake
  <2>5. CASE Authenticate(k)
    BY <2>3, <2>5 DEF Authenticate, Stages, Handshake
  <2>6. CASE ElevateProcess(k)
    BY <2>3, <2>6 DEF ElevateProcess, Stages, Handshake, PipeInv
  <2>7. CASE SwitchNamespace(k)
    BY <2>3, <2>7 DEF SwitchNamespace, Stages, Handshake, PipeInv
  <2>8. CASE WriteKstop(k)
    <3>1. CASE Shim(k, "fail") /\ UNCHANGED kstop
      BY <2>3, <2>8, <3>1 DEF WriteKstop, Stages
    <3>2. CASE Shim(k, "ok") /\ kstop' = shim[k].action
      <4>1. shim[k].typed = Right
        BY <2>8 DEF WriteKstop, PipeInv
      <4>2. /\ PipeInv'
            /\ shim'[k].action = shim[k].action
            /\ shim'[k].typed = shim[k].typed
        BY <2>2, <2>8, <3>2 DEF WriteKstop, Stages
      <4> QED
        BY <3>2, <4>1, <4>2 DEF StopIsConfirmed
    <3> QED
      BY <2>8, <3>1, <3>2 DEF WriteKstop
  <2> QED
    BY <1>5, <2>1, <2>4, <2>5, <2>6, <2>7, <2>8 DEF ShimStep
<1> QED
  BY <1>1, <1>2, <1>3, <1>4, <1>5 DEF Next, User

\* The machine is told to go down only for a request that was confirmed with the
\* right password.
THEOREM OnlyConfirmedStops == Spec => []StopIsConfirmed
<1>1. Init => WriterInv /\ PipeInv /\ StopIsConfirmed
  BY InitPipe
<1>2. TypeOK /\ WriterInv /\ [Next]_vars => WriterInv'
  BY StepWriter
<1>3. TypeOK /\ WriterInv /\ PipeInv /\ StopIsConfirmed /\ [Next]_vars
          => PipeInv' /\ StopIsConfirmed'
  BY StepPipe
<1> QED
  BY <1>1, <1>2, <1>3, TypeCorrect, PTL DEF Spec

-----------------------------------------------------------------------------
\* A step of a shim leaves the other shims alone, and ends well only with the
\* write that stops the machine.
LEMMA ShimMoves ==
    ASSUME NEW k \in Calls, TypeOK, ShimStep(k)
    PROVE  /\ \A j \in Calls : j # k => shim'[j] = shim[j]
           /\ \A j \in Calls : shim'[j].action = shim[j].action
           /\ shim[k].at # "none"
           /\ \/ shim'[k].at # "ok" /\ kstop' = kstop
              \/ shim[k].at = "kstop" /\ kstop' \in {kstop, shim[k].action}
                 /\ (shim'[k].at = "ok" => kstop' = shim[k].action)
           /\ UNCHANGED <<window, gui, calls>>
<1> USE DEF TypeOK
<1>1. \A l \in Stages :
          Shim(k, l) => /\ \A j \in Calls : j # k => shim'[j] = shim[j]
                        /\ \A j \in Calls : shim'[j].action = shim[j].action
                        /\ shim'[k].at = l
                        /\ UNCHANGED <<window, gui, calls>>
  BY DEF Shim, Request
<1>2. CASE ReadStdin(k)
  BY <1>2 DEF ReadStdin, Request
<1>3. CASE OpenSudo(k) \/ Authenticate(k)
  BY <1>1, <1>3 DEF OpenSudo, Authenticate, Stages, Handshake
<1>4. CASE ElevateProcess(k) \/ SwitchNamespace(k)
  BY <1>1, <1>4 DEF ElevateProcess, SwitchNamespace, Stages, Handshake
<1>5. CASE WriteKstop(k)
  BY <1>1, <1>5 DEF WriteKstop, Stages
<1> QED
  BY <1>2, <1>3, <1>4, <1>5 DEF ShimStep

\* Once a request is made its action and what was typed for it never change;
\* only a confirm adds one.
LEMMA ActionsStay ==
    TypeOK /\ [Next]_vars =>
        \/ \E action \in Actions : Confirm(action)
        \/ /\ calls' = calls
           /\ \A k \in Calls : shim'[k].action = shim[k].action
<1> SUFFICES ASSUME TypeOK, [Next]_vars
             PROVE  \/ \E action \in Actions : Confirm(action)
                    \/ /\ calls' = calls
                       /\ \A k \in Calls : shim'[k].action = shim[k].action
  OBVIOUS
<1> USE DEF TypeOK
<1>1. CASE User
  BY <1>1 DEF User, Arm, Type, Cancel, Click
<1>2. CASE HandlerStep
  <2>1. CASE SpawnShim
    <3>1. CASE UNCHANGED shim
      BY <2>1, <3>1 DEF SpawnShim, Handler
    <3>2. CASE shim' = [shim EXCEPT ![calls].at = "stdin", ![calls].writer = TRUE]
      <4>1. \A k \in Calls : shim'[k].action = shim[k].action
        BY <3>2
      <4> QED
        BY <2>1, <4>1 DEF SpawnShim, Handler
    <3> QED
      BY <2>1, <3>1, <3>2 DEF SpawnShim
  <2>2. CASE WritePassword
    BY <2>2 DEF WritePassword, Handler
  <2>3. CASE CloseStdin
    BY <2>3 DEF CloseStdin, Handler
  <2>4. CASE WaitShim
    BY <2>4 DEF WaitShim, Handler
  <2> QED
    BY <1>2, <2>1, <2>2, <2>3, <2>4 DEF HandlerStep
<1>3. CASE WaitFails \/ GoDown \/ UNCHANGED vars
  BY <1>3 DEF WaitFails, Handler, GoDown, vars
<1>4. CASE \E k \in Calls : ShimStep(k)
  BY <1>4, ShimMoves
<1> QED
  BY <1>1, <1>2, <1>3, <1>4 DEF Next

\* Every step keeps a good answer true: the action written is one that was
\* confirmed, and sys:kstop is never taken back.
LEMMA StepAnswer == TypeOK /\ AnswerInv /\ [Next]_vars => AnswerInv'
<1> SUFFICES ASSUME TypeOK, AnswerInv, [Next]_vars PROVE AnswerInv'
  OBVIOUS
<1> USE PowerAssumption
<1>0. gui # "idle" => calls \in Calls /\ shim[calls].action \in Actions
  BY DEF TypeOK, Calls
<1>1. CASE UNCHANGED <<shim, kstop, status>>
  BY <1>1 DEF AnswerInv, OkMeansStopping
<1>2. ASSUME NEW action \in Actions, Arm(action) PROVE AnswerInv'
  BY <1>1, <1>2 DEF Arm, Click
<1>3. ASSUME NEW action \in Actions, Confirm(action) PROVE AnswerInv'
  <2>1. calls + 1 \in Calls
    BY <1>3 DEF Confirm, TypeOK, Calls
  <2>2. \A k \in Calls : shim'[k] = shim[k] \/ shim'[k].at = "none"
    BY <1>3, <2>1 DEF Confirm, TypeOK, NoShim
  <2> QED
    BY <1>3, <2>2 DEF AnswerInv, OkMeansStopping, Confirm, window
<1>4. CASE Cancel \/ \E p \in Password : Type(p)
  BY <1>1, <1>4 DEF Cancel, Type, Click
<1>5. CASE SpawnShim
  <2>1. CASE UNCHANGED shim
    BY <1>5, <2>1 DEF SpawnShim, Handler, Return, window, AnswerInv, OkMeansStopping
  <2>2. CASE shim' = [shim EXCEPT ![calls].at = "stdin", ![calls].writer = TRUE]
    <3>1. calls \in Calls /\ shim[calls].action # None
      BY <1>0, <1>5 DEF SpawnShim
    <3>2. /\ shim'[calls].at = "stdin" /\ shim'[calls].action = shim[calls].action
          /\ \A k \in Calls : k # calls => shim'[k] = shim[k]
      BY <2>2, <3>1 DEF TypeOK, Request
    <3>3. status' = status \/ status' = "fail"
      BY <1>5 DEF SpawnShim, Return, window
    <3> QED
      BY <1>5, <3>1, <3>2, <3>3 DEF SpawnShim, Handler, AnswerInv, OkMeansStopping
  <2> QED
    BY <1>5, <2>1, <2>2 DEF SpawnShim
<1>6. CASE WritePassword \/ CloseStdin
  <2>1. calls \in Calls
    BY <1>0, <1>6 DEF WritePassword, CloseStdin
  <2>2. \A k \in Calls : shim'[k].at = shim[k].at /\ shim'[k].action = shim[k].action
    <3>1. CASE WritePassword
      BY <2>1, <3>1 DEF WritePassword, TypeOK
    <3>2. CASE CloseStdin
      BY <2>1, <3>2 DEF CloseStdin, TypeOK
    <3> QED
      BY <1>6, <3>1, <3>2
  <2> QED
    BY <1>6, <2>2
       DEF WritePassword, CloseStdin, Handler, window, AnswerInv, OkMeansStopping
<1>7. CASE WaitShim
  <2>1. calls \in Calls /\ status' = shim[calls].at /\ kstop' = kstop /\ shim' = shim
    BY <1>0, <1>7 DEF WaitShim, Return, Handler
  <2> QED
    BY <2>1 DEF AnswerInv, OkMeansStopping
<1>8. CASE WaitFails
  BY <1>8 DEF WaitFails, Return, Handler, AnswerInv, OkMeansStopping
<1>9. ASSUME NEW k \in Calls, ShimStep(k) PROVE AnswerInv'
  <2>1. shim[k].action # None
    BY <1>9, ShimMoves DEF AnswerInv
  <2>2. \A j \in Calls : shim'[j].action = shim[j].action
    BY <1>9, ShimMoves
  <2>3. kstop # None => kstop' # None
    BY <1>9, <2>1, ShimMoves
  <2>4. status' = status
    BY <1>9, ShimMoves DEF window
  <2>5. \A j \in Calls : /\ shim'[j].at # "none" => shim'[j].action # None
                         /\ shim'[j].at = "ok" => kstop' # None
    BY <1>9, <2>1, <2>2, <2>3, ShimMoves DEF AnswerInv
  <2> QED
    BY <2>3, <2>4, <2>5 DEF AnswerInv, OkMeansStopping
<1>10. CASE GoDown \/ UNCHANGED vars
  BY <1>1, <1>10 DEF GoDown, vars, window
<1> QED
  BY <1>2, <1>3, <1>4, <1>5, <1>6, <1>7, <1>8, <1>9, <1>10 DEF Next, User, HandlerStep

\* The window says that the machine is going down only if it is.
THEOREM AnswerIsTrue == Spec => []OkMeansStopping
<1>1. ASSUME Init PROVE AnswerInv
  <2>1. \A k \in Calls : shim[k] = NoShim
    BY <1>1 DEF Init
  <2>2. NoShim.at = "none"
    BY DEF NoShim
  <2>3. status # "ok"
    BY <1>1, PowerAssumption DEF Init
  <2> QED
    BY <2>1, <2>2, <2>3 DEF AnswerInv, OkMeansStopping
<1>2. TypeOK /\ AnswerInv /\ [Next]_vars => AnswerInv'
  BY StepAnswer
<1>3. AnswerInv => OkMeansStopping
  BY DEF AnswerInv
<1> QED
  BY <1>1, <1>2, <1>3, TypeCorrect, PTL DEF Spec

\* A password never outlives the question it was typed for.
THEOREM PasswordForgotten == Spec => []PasswordIsForgotten
<1>1. Init => PasswordIsForgotten
  BY DEF Init, PasswordIsForgotten
<1>2. ASSUME TypeOK, PasswordIsForgotten, [Next]_vars PROVE PasswordIsForgotten'
  <2>1. CASE UNCHANGED window
    BY <1>2, <2>1 DEF PasswordIsForgotten, window
  <2>2. CASE User
    BY <1>2, <2>2 DEF PasswordIsForgotten, User, Arm, Type, Cancel, Confirm, Click, window
  <2>3. CASE HandlerStep \/ WaitFails
    <3>1. UNCHANGED window \/ \E s : Return(s)
      BY <2>3 DEF HandlerStep, SpawnShim, WritePassword, CloseStdin, WaitShim, WaitFails
    <3> QED
      BY <2>1, <3>1 DEF PasswordIsForgotten, Return
  <2>4. CASE \/ \E k \in Calls : ShimStep(k)
             \/ GoDown \/ UNCHANGED vars
    BY <1>2, <2>1, <2>4, ShimMoves DEF GoDown, vars
  <2> QED
    BY <1>2, <2>2, <2>3, <2>4 DEF Next
<1> QED
  BY <1>1, <1>2, TypeCorrect, PTL DEF Spec

-----------------------------------------------------------------------------
\* The button that is armed, as TwoStep sees it.
LEMMA ArmedIs ==
    /\ confirm = {} => Armed = None
    /\ \A action \in Actions : confirm = {action} => Armed = action
  BY DEF Armed

\* A return to the event loop executes what was armed.
LEMMA ReturnExecutes ==
    ASSUME TypeOK, gui # "idle", NEW s, Return(s), calls' = calls,
           shim'[calls].action = shim[calls].action
    PROVE  Confirmed!Execute
<1>1. calls \in Calls /\ confirm = {shim[calls].action} /\ shim[calls].action \in Actions
  BY DEF TypeOK, Calls
<1>2. Armed = shim[calls].action /\ Armed # None
  BY <1>1, ArmedIs, PowerAssumption
<1>3. Armed' = None
  BY DEF Return, Armed
<1>4. Done' = Done + 1 /\ Done' = calls /\ calls # 0
  BY <1>1 DEF Return, Done, Calls
<1>5. Executed' = Armed
  BY <1>2, <1>4 DEF Executed
<1> QED
  BY <1>2, <1>3, <1>4, <1>5 DEF Confirmed!Execute

\* A step that moves neither the buttons nor the handler's return is none of
\* TwoStep's.
LEMMA Stutters ==
    ASSUME TypeOK, confirm' = confirm, Done' = Done,
           \A k \in 1 .. Done : shim'[k].action = shim[k].action
    PROVE  UNCHANGED <<Armed, Executed, Done>>
<1>1. Done \in Nat
  BY DEF TypeOK, Done, Calls
<1>2. Armed' = Armed
  BY DEF Armed
<1>3. Executed' = Executed
  BY <1>1 DEF Executed
<1> QED
  BY <1>2, <1>3

\* Every step is one of TwoStep's, or none of them.
LEMMA StepConfirmed ==
    TypeOK /\ [Next]_vars => [Confirmed!Next]_<<Armed, Executed, Done>>
<1> SUFFICES ASSUME TypeOK, [Next]_vars
             PROVE  Confirmed!Next \/ UNCHANGED <<Armed, Executed, Done>>
  OBVIOUS
<1>1. calls \in 0 .. MaxCalls /\ Done \in Nat /\ Done <= calls
  BY DEF TypeOK, Done, Calls
<1>2. 1 .. Done \subseteq Calls
  BY <1>1, PowerAssumption DEF Calls
<1>3. CASE \E action \in Actions : Confirm(action)
  <2>1. PICK action \in Actions : Confirm(action)
    BY <1>3
  <2>2. confirm' = confirm /\ Done' = Done /\ Done = calls
    BY <1>1, <2>1 DEF Confirm, window, Done
  <2>3. \A k \in 1 .. Done : shim'[k] = shim[k]
    BY <1>1, <1>2, <2>1, <2>2 DEF Confirm, TypeOK
  <2> QED
    BY <2>2, <2>3, Stutters
<1>4. ASSUME calls' = calls, \A k \in Calls : shim'[k].action = shim[k].action
      PROVE  Confirmed!Next \/ UNCHANGED <<Armed, Executed, Done>>
  <2>1. ASSUME confirm' = confirm, gui' = "idle" <=> gui = "idle"
        PROVE  UNCHANGED <<Armed, Executed, Done>>
    BY <1>2, <1>4, <2>1, Stutters DEF Done
  <2>2. ASSUME gui # "idle", NEW s, Return(s) PROVE Confirmed!Next
    <3>1. calls \in Calls
      BY <2>2 DEF TypeOK, Calls
    <3> QED
      BY <1>4, <2>2, <3>1, ReturnExecutes DEF Confirmed!Next
  <2>3. ASSUME NEW action \in Actions, Arm(action) PROVE Confirmed!Next
    <3>1. Armed = None /\ Armed' = action
      BY <2>3 DEF Arm, Armed
    <3>2. UNCHANGED <<Executed, Done>>
      BY <2>3 DEF Arm, Click, Executed, Done
    <3> QED
      BY <3>1, <3>2 DEF Confirmed!Arm, Confirmed!Next
  <2>4. CASE Cancel
    <3>1. Armed # None /\ Armed' = None
      BY <2>4, ArmedIs, PowerAssumption DEF Cancel, Armed, TypeOK
    <3>2. UNCHANGED <<Executed, Done>>
      BY <2>4 DEF Cancel, Click, Executed, Done
    <3> QED
      BY <3>1, <3>2 DEF Confirmed!Disarm, Confirmed!Next
  <2>5. CASE \E p \in Password : Type(p)
    BY <2>1, <2>5 DEF Type
  <2>6. CASE HandlerStep \/ WaitFails
    BY <2>1, <2>2, <2>6 DEF HandlerStep, WaitFails, SpawnShim, WritePassword, CloseStdin,
       WaitShim, window
  <2>7. CASE \/ \E k \in Calls : ShimStep(k)
             \/ GoDown \/ UNCHANGED vars
    BY <2>1, <2>7, ShimMoves DEF GoDown, vars, window
  <2> QED
    BY <1>3, <2>3, <2>4, <2>5, <2>6, <2>7 DEF Next, User, Confirm
<1> QED
  BY <1>3, <1>4, ActionsStay

\* Reboot and shutdown are two-step confirms: PowerTab implements TwoStep.
THEOREM TwoStepConfirm == Spec => ConfirmsInTwoSteps
<1>1. Init => Confirmed!Init
  BY DEF Init, Confirmed!Init, Armed, Executed, Done
<1>2. TypeOK /\ [Next]_vars => [Confirmed!Next]_<<Armed, Executed, Done>>
  BY StepConfirmed
<1> QED
  BY <1>1, <1>2, TypeCorrect, PTL DEF Spec, ConfirmsInTwoSteps, Confirmed!Spec
=============================================================================
