----------------------------- MODULE SoundProofs -----------------------------
(***************************************************************************)
(* An unmute restores what the mute silenced, and a button does what its   *)
(* label says, for every range of levels and any number of moves by others *)
(* and of failed calls.                                                    *)
(***************************************************************************)
EXTENDS Sound, TLAPS

\* A garbled answer counts as a level in range.
LEMMA VolumeInRange ==
    ASSUME NEW a \in Odd PROVE Volume(a) \in Levels
<1>1. CASE a = None
  <2>1. Volume(a) = 0
    BY <1>1 DEF Volume, ParseVolume
  <2> QED
    BY <2>1, SoundAssumption DEF Levels
<1>2. CASE a # None
  <2>0. a \in Int
    BY <1>2, SoundAssumption
  <2>1. Clamp(a) \in Levels
    BY <2>0, SoundAssumption DEF Clamp, Levels
  <2>2. Clamp(a) # None
    BY <2>1, SoundAssumption DEF Levels
  <2>3. Volume(a) = Clamp(a)
    BY <1>2, <2>2 DEF Volume, ParseVolume
  <2> QED
    BY <2>1, <2>3
<1> QED
  BY <1>1, <1>2

LEMMA InitType == Init => TypeOK /\ MuteInv
<1> SUFFICES ASSUME Init PROVE TypeOK /\ MuteInv
  OBVIOUS
<1>1. 0 \in Levels /\ Sane \in Levels \ {0}
  BY SoundAssumption DEF Levels
<1>2. 0 \in 0 .. MaxMoves /\ 0 \in 0 .. MaxFaults /\ 0 \in 0 .. 2
  BY SoundAssumption
<1>3. TypeOK
  BY <1>1, <1>2 DEF Init, TypeOK
<1>4. MuteInv
  BY DEF Init, MuteInv, WhileMuted, KnowsLevel
<1> QED
  BY <1>3, <1>4

\* A toggle writes a level in range and remembers one that is heard.
LEMMA ToggleInRange ==
    ASSUME TypeOK, NEW v \in Levels, Toggle(v)
    PROVE  target' \in Levels /\ premute' \in Levels \ {0}
  BY SoundAssumption DEF Toggle, TypeOK, Levels

\* What others do to audiod leaves everything of the window as it is.
LEMMA MoveType ==
    ASSUME TypeOK, Move, up' \in BOOLEAN, level' \in Levels
    PROVE  TypeOK'
<1>1. moves' \in 0 .. MaxMoves
  BY SoundAssumption DEF TypeOK, Move
<1>2. quiet' \in 0 .. 2 /\ silenced' \in Levels \cup {None}
  BY DEF Move
<1> QED
  BY <1>1, <1>2 DEF TypeOK, Move, window

LEMMA StepType == TypeOK /\ [Next]_vars => TypeOK'
<1> SUFFICES ASSUME TypeOK, [Next]_vars PROVE TypeOK'
  OBVIOUS
<1> USE SoundAssumption DEF TypeOK
<1>1. CASE Read
  <2>1. CASE up
    BY <1>1, <2>1, ToggleInRange DEF Read, audiod, window, bounds
  <2>2. CASE ~up
    BY <1>1, <2>2 DEF Read, audiod, window, bounds
  <2> QED
    BY <2>1, <2>2
<1>2. CASE ReadGarbled
  <2>1. PICK a \in Odd : Toggle(Volume(a))
    BY <1>2 DEF ReadGarbled
  <2>2. target' \in Levels /\ premute' \in Levels \ {0}
    BY <2>1, VolumeInRange, ToggleInRange
  <2> QED
    BY <1>2, <2>2 DEF ReadGarbled, Fault, audiod, window
<1>3. CASE Write
  BY <1>3 DEF Write, window, bounds
<1>4. CASE WriteFails
  BY <1>4 DEF WriteFails, Fault, audiod, window
<1>5. CASE Refresh
  BY <1>5 DEF Refresh, audiod, bounds, Levels
<1>6. CASE RefreshGarbled
  <2>1. volume' \in Levels
    BY <1>6, VolumeInRange DEF RefreshGarbled
  <2> QED
    BY <1>6, <2>1 DEF RefreshGarbled, Fault, audiod
<1>7. CASE TimerRefresh
  BY <1>7 DEF TimerRefresh, Idle, audiod, window, past, bounds
<1>8. CASE ToggleMute
  BY <1>8 DEF ToggleMute, Idle, Label, audiod, window, past, bounds
<1>9. ASSUME NEW v \in Levels, SetVolume(v) PROVE TypeOK'
  BY <1>9 DEF SetVolume, Idle, Clamp, Levels, audiod, window, past, bounds
<1>10. ASSUME NEW v \in Levels, OtherSets(v) PROVE TypeOK'
  <2>1. Move /\ up' \in BOOLEAN /\ level' \in Levels
    BY <1>10 DEF OtherSets
  <2> QED
    BY <2>1, MoveType
<1>11. CASE AudiodStops
  <2>1. Move /\ up' \in BOOLEAN /\ level' \in Levels
    BY <1>11 DEF AudiodStops
  <2> QED
    BY <2>1, MoveType
<1>12. CASE AudiodStarts
  <2>1. Move /\ up' \in BOOLEAN /\ level' \in Levels
    BY <1>12 DEF AudiodStarts
  <2> QED
    BY <2>1, MoveType
<1>13. CASE UNCHANGED vars
  BY <1>13 DEF vars, audiod, window, past, bounds
<1> QED
  BY <1>1, <1>2, <1>3, <1>4, <1>5, <1>6, <1>7, <1>8, <1>9, <1>10, <1>11, <1>12,
     <1>13 DEF Next, Loop

\* Between a mute and the unmute nothing but the window touches level and
\* memory, and a toggle leaves the memory alone when it finds silence.
LEMMA StepMute == TypeOK /\ MuteInv /\ [Next]_vars => MuteInv'
<1> SUFFICES ASSUME TypeOK, MuteInv, [Next]_vars PROVE MuteInv'
  OBVIOUS
<1> USE SoundAssumption DEF MuteInv, WhileMuted, KnowsLevel
<1>0. /\ level \in Levels /\ premute \in Levels \ {0} /\ quiet \in 0 .. 2
      /\ silenced \in Levels \cup {None} /\ target \in Levels
      /\ \A l \in Levels : l > 0 <=> l # 0
      /\ \A l \in Levels : l # None
  BY DEF TypeOK, Levels
<1>1. CASE Read
  <2>1. CASE up /\ level > 0
    <3>1. silenced = None /\ silenced' = None
      BY <1>0, <1>1, <2>1 DEF Read
    <3>2. /\ pc' = "write" /\ target' = 0 /\ premute' = level /\ level' = level
      BY <1>0, <1>1, <2>1 DEF Read, Toggle, audiod
    <3> QED
      BY <3>1, <3>2
  <2>2. CASE up /\ ~(level > 0)
    <3>1. /\ pc' = "write" /\ target' = premute /\ UNCHANGED <<premute, level, up, silenced>>
      BY <1>0, <1>1, <2>2 DEF Read, Toggle, audiod
    <3> QED
      BY <1>0, <2>2, <3>1
  <2>3. CASE ~up
    BY <1>1, <2>3 DEF Read, audiod
  <2> QED
    BY <2>1, <2>2, <2>3
<1>2. CASE ReadGarbled
  BY <1>2 DEF ReadGarbled
<1>3. CASE Write
  <2>1. CASE up /\ click # "set" /\ target = 0 /\ quiet > 0
    <3>1. level = premute
      BY <1>3, <2>1 DEF Write
    <3>2. /\ level' = 0 /\ silenced' = premute /\ pc' = "refresh"
          /\ UNCHANGED <<up, premute>>
      BY <1>3, <2>1, <3>1 DEF Write
    <3> QED
      BY <2>1, <3>2
  <2>2. CASE up /\ ~(click # "set" /\ target = 0 /\ quiet > 0)
    BY <1>3, <2>2 DEF Write
  <2>3. CASE ~up
    BY <1>3, <2>3 DEF Write
  <2> QED
    BY <2>1, <2>2, <2>3
<1>4. CASE WriteFails
  BY <1>4 DEF WriteFails
<1>5. CASE Refresh
  BY <1>5 DEF Refresh, audiod
<1>6. CASE RefreshGarbled
  BY <1>6 DEF RefreshGarbled
<1>7. CASE TimerRefresh
  BY <1>7 DEF TimerRefresh, Idle, audiod, past
<1>8. CASE ToggleMute
  BY <1>8 DEF ToggleMute, Idle, audiod, past
<1>9. ASSUME NEW v \in Levels, SetVolume(v) PROVE MuteInv'
  BY <1>9 DEF SetVolume, Idle, audiod, past
<1>10. ASSUME NEW v \in Levels, OtherSets(v) PROVE MuteInv'
  BY <1>10 DEF OtherSets, Move
<1>11. CASE AudiodStops
  BY <1>11 DEF AudiodStops, Move
<1>12. CASE AudiodStarts
  BY <1>12 DEF AudiodStarts, Move
<1>13. CASE UNCHANGED vars
  BY <1>13 DEF vars, audiod, past
<1> QED
  BY <1>1, <1>2, <1>3, <1>4, <1>5, <1>6, <1>7, <1>8, <1>9, <1>10, <1>11, <1>12,
     <1>13 DEF Next, Loop

\* No answer of audiod, garbled or not, takes a level out of range, and what
\* an unmute restores is never 0.
THEOREM TypeCorrect == Spec => []TypeOK
<1>1. Init => TypeOK
  BY InitType
<1>2. TypeOK /\ [Next]_vars => TypeOK'
  BY StepType
<1> QED
  BY <1>1, <1>2, PTL DEF Spec

\* An unmute brings back the level the mute silenced, however many refreshes,
\* handlers and failures lie before them, as long as nobody else moved it.
THEOREM MuteRoundTrip == Spec => UnmuteRestores
<1>1. Init => TypeOK /\ MuteInv
  BY InitType
<1>2. TypeOK /\ MuteInv /\ [Next]_vars => (TypeOK /\ MuteInv)'
  BY StepType, StepMute
<1>3. TypeOK /\ MuteInv /\ Write /\ silenced # None /\ click # "set"
          => level' = silenced
  BY DEF MuteInv, WhileMuted, Write
<1>4. TypeOK /\ MuteInv /\ [Next]_vars
          => [Write /\ silenced # None /\ click # "set" => level' = silenced]_vars
  BY <1>3
<1> QED
  BY <1>1, <1>2, <1>4, PTL DEF Spec, UnmuteRestores

-----------------------------------------------------------------------------
\* Whatever disturbs a handler is noticed.
LEMMA Disturbed ==
    ASSUME TypeOK, \/ ReadGarbled \/ WriteFails \/ RefreshGarbled
                   \/ \E v \in Levels : OtherSets(v)
                   \/ AudiodStops \/ AudiodStarts
    PROVE  quiet' = 0
  BY DEF ReadGarbled, WriteFails, RefreshGarbled, OtherSets, AudiodStops, AudiodStarts, Move

\* Every step keeps an undisturbed handler to its word.
LEMMA StepWord == TypeOK /\ WordInv /\ [Next]_vars => WordInv'
<1> SUFFICES ASSUME TypeOK, WordInv, [Next]_vars, quiet' = 2 PROVE WordInv'
  BY DEF WordInv
<1> USE SoundAssumption DEF WordInv
<1>1. CASE TimerRefresh
  BY <1>1 DEF TimerRefresh, Idle, audiod, window, past
<1>2. ASSUME NEW v \in Levels, SetVolume(v) PROVE WordInv'
  <2>1. available /\ up /\ UNCHANGED <<audiod, window, quiet>> /\ pc' = "write" /\ click' = "set"
    BY <1>2 DEF SetVolume, Idle, past
  <2> QED
    BY <2>1 DEF audiod, window
<1>3. CASE ToggleMute
  <2>1. available /\ UNCHANGED <<audiod, window, quiet>> /\ pc' = "read" /\ click' = Label
        /\ pc = "idle"
    BY <1>3 DEF ToggleMute, Idle, past
  <2>2. up /\ volume = level
    BY <2>1 DEF past
  <2>3. Label' = Label
    BY <2>1 DEF Label, window
  <2> QED
    BY <2>1, <2>2, <2>3 DEF audiod, window
<1>4. CASE Read
  <2>1. quiet = 2 /\ pc = "read" /\ up /\ volume = level /\ click = Label
    BY <1>4 DEF Read, TypeOK
  <2>2. Toggle(level) /\ pc' = "write" /\ UNCHANGED <<up, available, click>>
    BY <1>4, <2>1 DEF Read, audiod, window
  <2>3. click = "mute" => target' = 0
    BY <2>1, <2>2 DEF Toggle, Label, TypeOK, Levels
  <2>4. click = "unmute" => target' > 0
    BY <2>1, <2>2 DEF Toggle, Label, TypeOK, Levels
  <2> QED
    BY <2>1, <2>2, <2>3, <2>4
<1>5. CASE Write
  <2>1. quiet = 2 /\ pc = "write" /\ up /\ pc' = "refresh" /\ level' = target
        /\ UNCHANGED <<click, target>>
    BY <1>5 DEF Write
  <2> QED
    BY <2>1
<1>6. CASE Refresh
  BY <1>6 DEF Refresh, audiod
<1>7. CASE UNCHANGED vars
  BY <1>7 DEF vars, audiod, window, past, Label
<1> QED
  BY <1>1, <1>2, <1>3, <1>4, <1>5, <1>6, <1>7, Disturbed DEF Next, Loop

\* What the button says is what it does, and a slider's level is the one shown.
THEOREM WordIsKept == Spec => ButtonKeepsWord
<1>1. Init => TypeOK /\ MuteInv /\ WordInv
  BY InitType DEF Init, WordInv
<1>2. TypeOK /\ WordInv /\ [Next]_vars => TypeOK' /\ WordInv'
  BY StepType, StepWord
<1>3. ASSUME TypeOK, WordInv, Refresh, quiet = 2, up
      PROVE  /\ click = "mute"   => volume' = 0
             /\ click = "unmute" => volume' > 0
             /\ click = "set"    => volume' = target
  BY <1>3 DEF WordInv, Refresh
<1>4. TypeOK /\ WordInv /\ [Next]_vars =>
          [Refresh /\ quiet = 2 /\ up =>
               /\ click = "mute"   => volume' = 0
               /\ click = "unmute" => volume' > 0
               /\ click = "set"    => volume' = target]_vars
  BY <1>3
<1> QED
  BY <1>1, <1>2, <1>4, PTL DEF Spec, ButtonKeepsWord
=============================================================================
