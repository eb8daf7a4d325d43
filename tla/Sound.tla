-------------------------------- MODULE Sound --------------------------------
(***************************************************************************)
(* The sound tab of the window (ui/control.slint, src/gui.rs, src/sys.rs)  *)
(* and the master volume it shares with every other program of audiod.     *)
(*                                                                         *)
(* audiod has no mute flag: mute is "set 0 and remember", and the memory   *)
(* is the window's.  Each handler is several calls (read, write, refresh), *)
(* between which the level may be moved, and audiod may stop or start.     *)
(***************************************************************************)
EXTENDS Integers

CONSTANTS MaxVolume,            \* 100
          Sane,                 \* 50, the level to restore before any mute
          Odd,                  \* garbled answers of audiod: None or a number
          MaxMoves, MaxFaults,  \* bounds for TLC
          None

Levels == 0 .. MaxVolume

ASSUME SoundAssumption ==
    /\ MaxVolume \in Nat /\ Sane \in 1 .. MaxVolume
    /\ Odd \subseteq Int \cup {None}
    /\ None \notin Int /\ None \notin {"set", "mute", "unmute"}
    /\ MaxMoves \in Nat /\ MaxFaults \in Nat

VARIABLES
    up,         \* is audiod running?
    level,      \* its master volume
    available,  \* audio-available
    volume,     \* audio-volume: the tile, the slider, the label of the button
    premute,    \* State.audio_premute
    pc,         \* of the event loop: "idle", "read", "write" or "refresh"
    click,      \* what the handler at work was asked for, None for the timer
    target,     \* the level it is about to write
    quiet,      \* history: nobody else moved the level, and no call failed,
                \*   since the last refresh (2), the read of the handler (1)
    silenced,   \* history: what the last mute silenced, until somebody else
                \*   moves the level or a call fails
    moves, faults     \* counters of the bounds

audiod == <<up, level>>
window == <<available, volume>>
past   == <<quiet, silenced>>
bounds == <<moves, faults>>
vars   == <<audiod, window, premute, pc, click, target, past, bounds>>

-----------------------------------------------------------------------------
(* sys::audio and sys::set_volume *)

Clamp(v) == IF v < 0 THEN 0 ELSE IF v > MaxVolume THEN MaxVolume ELSE v

\* Mutant of ParseVolume: the number is taken as it comes.
ParseVolumeUnclamped(a) == a

ParseVolume(a) == IF a = None THEN None ELSE Clamp(a)

\* What audio() makes of an answer; an unknown level counts as 0.
Volume(a) == IF ParseVolume(a) = None THEN 0 ELSE ParseVolume(a)

Fault == faults < MaxFaults /\ faults' = faults + 1

\* The label of the button: "Volume 0 == muted; offer the inverse action".
Label == IF volume = 0 THEN "unmute" ELSE "mute"

-----------------------------------------------------------------------------
Init ==
    /\ up \in BOOLEAN /\ level \in Levels
    /\ available = FALSE /\ volume = 0
    /\ premute = Sane
    /\ pc = "refresh"                    \* run() refreshes before it shows
    /\ click = None /\ target = 0
    /\ quiet = 0 /\ silenced = None
    /\ moves = 0 /\ faults = 0

(* Handlers.  The slider and the button exist only while audio is available. *)

Idle == pc = "idle" /\ UNCHANGED <<audiod, window, premute, past, bounds>>

\* on_set_volume
SetVolume(v) ==
    /\ Idle
    /\ available
    /\ click' = "set" /\ target' = Clamp(v)
    /\ pc' = "write"

\* on_toggle_mute
ToggleMute ==
    /\ Idle
    /\ available
    /\ click' = Label
    /\ pc' = "read"
    /\ UNCHANGED target

\* The 3 s timer, or "refresh".
TimerRefresh ==
    /\ Idle
    /\ click' = None
    /\ pc' = "refresh"
    /\ UNCHANGED target

\* Mutant of Toggle: the memory is overwritten before the level is looked at.
ToggleForgets(v) ==
    /\ premute' = v
    /\ target' = IF v > 0 THEN 0 ELSE IF premute' > 0 THEN premute' ELSE Sane

\* Mutant of Toggle: the lowest level counts as muted.
ToggleOffByOne(v) ==
    IF v > 1
    THEN premute' = v /\ target' = 0
    ELSE /\ target' = IF premute > 0 THEN premute ELSE Sane
         /\ UNCHANGED premute

\* The branches of on_toggle_mute once the level is read as v; the fallback to 50
\* is for a premute of 0.
Toggle(v) ==
    IF v > 0
    THEN premute' = v /\ target' = 0
    ELSE /\ target' = IF premute > 0 THEN premute ELSE Sane
         /\ UNCHANGED premute

Read ==
    /\ pc = "read"
    /\ IF up
       THEN Toggle(level) /\ pc' = "write"
       ELSE pc' = "refresh" /\ UNCHANGED <<premute, target>>
    /\ quiet' = IF quiet = 2 THEN 2 ELSE 1
    /\ UNCHANGED <<audiod, window, click, silenced, bounds>>

ReadGarbled ==
    /\ pc = "read"
    /\ up
    /\ Fault
    /\ \E a \in Odd : Toggle(Volume(a))
    /\ pc' = "write"
    /\ quiet' = 0 /\ silenced' = None
    /\ UNCHANGED <<audiod, window, click, moves>>

\* set_volume; its error is dropped (let _ =).
Write ==
    /\ pc = "write"
    /\ IF up
       THEN /\ level' = target
            /\ silenced' = IF click # "set" /\ target = 0 /\ quiet > 0 THEN level ELSE None
       ELSE UNCHANGED <<level, silenced>>
    /\ pc' = "refresh"
    /\ UNCHANGED <<up, window, premute, click, target, quiet, bounds>>

WriteFails ==
    /\ pc = "write"
    /\ Fault
    /\ pc' = "refresh"
    /\ quiet' = 0 /\ silenced' = None
    /\ UNCHANGED <<audiod, window, premute, click, target, moves>>

\* Mutant of Refresh: the tile is left alone while audiod answers.
RefreshOnce ==
    /\ pc = "refresh"
    /\ available' = up
    /\ volume' = IF up THEN (IF available THEN volume ELSE level) ELSE 0
    /\ pc' = "idle"
    /\ click' = None
    /\ quiet' = 2
    /\ UNCHANGED <<audiod, premute, target, silenced, bounds>>

\* refresh, sound tab.
Refresh ==
    /\ pc = "refresh"
    /\ available' = up
    /\ volume' = IF up THEN level ELSE 0
    /\ pc' = "idle"
    /\ click' = None
    /\ quiet' = 2
    /\ UNCHANGED <<audiod, premute, target, silenced, bounds>>

RefreshGarbled ==
    /\ pc = "refresh"
    /\ up
    /\ Fault
    /\ available' = TRUE
    /\ \E a \in Odd : volume' = Volume(a)
    /\ pc' = "idle"
    /\ click' = None
    /\ quiet' = 0 /\ silenced' = None
    /\ UNCHANGED <<audiod, premute, target, moves>>

-----------------------------------------------------------------------------
(* Everybody else: another program, or init. *)

Move ==
    /\ moves < MaxMoves /\ moves' = moves + 1
    /\ quiet' = 0 /\ silenced' = None
    /\ UNCHANGED <<window, premute, pc, click, target, faults>>

OtherSets(v) == up /\ level' = v /\ UNCHANGED up /\ Move

AudiodStops == up /\ up' = FALSE /\ UNCHANGED level /\ Move

AudiodStarts == ~up /\ up' = TRUE /\ level' \in Levels /\ Move

-----------------------------------------------------------------------------
Loop == Read \/ Write \/ Refresh \/ TimerRefresh

Next ==
    \/ Loop \/ ToggleMute \/ \E v \in Levels : SetVolume(v)
    \/ ReadGarbled \/ WriteFails \/ RefreshGarbled
    \/ \E v \in Levels : OtherSets(v)
    \/ AudiodStops \/ AudiodStarts

Spec == Init /\ [][Next]_vars

\* A handler runs to its end, and the timer keeps firing.
FairSpec == Spec /\ WF_vars(Loop)

-----------------------------------------------------------------------------
(* Properties. *)

\* Every variable keeps its type: no answer of audiod takes the shown or the
\* remembered level out of range (selftest.rs:46-50), and the remembered one is
\* never 0, so that an unmute is heard (gui.rs:333-336).
TypeOK ==
    /\ up \in BOOLEAN /\ level \in Levels
    /\ available \in BOOLEAN /\ volume \in Levels
    /\ premute \in Levels \ {0}
    /\ pc \in {"idle", "read", "write", "refresh"}
    /\ click \in {None, "set", "mute", "unmute"}
    /\ target \in Levels
    /\ quiet \in 0 .. 2 /\ silenced \in Levels \cup {None}
    /\ moves \in 0 .. MaxMoves /\ faults \in 0 .. MaxFaults

\* Mute and unmute bring back the very level that was silenced, whatever was
\* shown when the button was pressed and however many refreshes came in between,
\* unless somebody else moved the level or a call failed (gui.rs:333-336).
UnmuteRestores ==
    [][Write /\ silenced # None /\ click # "set" => level' = silenced]_vars

\* Why: while a mute lasts, premute holds what it silenced, and a toggle that is
\* about to write knows the level as it is.
WhileMuted ==
    silenced # None => /\ up /\ level = 0 /\ silenced = premute
                       /\ pc = "write" /\ click # "set" => target = premute

KnowsLevel ==
    pc = "write" /\ click # "set" /\ quiet > 0 =>
        IF target = 0 THEN level = premute
                      ELSE level = 0 /\ target = premute

MuteInv == WhileMuted /\ KnowsLevel

\* What the button says is what it does, and the slider's level is the one that
\* is heard and shown: a handler that nobody disturbed since the last refresh
\* ends with the level it was asked for (gui.rs:320-361, control.slint:489-493).
ButtonKeepsWord ==
    [][Refresh /\ quiet = 2 /\ up =>
           /\ click = "mute"   => volume' = 0
           /\ click = "unmute" => volume' > 0
           /\ click = "set"    => volume' = target]_vars

\* Why: undisturbed, the button still reads what audiod has, and its handler is
\* about to write, or has written, what the label promised.
WordInv ==
    quiet = 2 =>
        /\ pc # "refresh" => available = up
        /\ pc \in {"idle", "read"} /\ up => volume = level
        /\ pc = "read" => up /\ click = Label
        /\ pc = "write" => /\ up
                           /\ click = "mute" => target = 0
                           /\ click = "unmute" => target > 0
        /\ pc = "refresh" /\ up => /\ click = "mute" => level = 0
                                   /\ click = "unmute" => level > 0
                                   /\ click = "set" => level = target

\* The tab catches up with audiod once it is left alone: a level that stays is
\* shown for good, and so is its absence (gui.rs:194-198, sys.rs:370-377).
TabCatchesUp ==
    /\ \A v \in Levels : <>[](up /\ level = v) => <>[](available /\ volume = v)
    /\ <>[](~up) => <>[](~available)
=============================================================================
