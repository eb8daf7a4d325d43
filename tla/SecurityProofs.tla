--------------------------- MODULE SecurityProofs ---------------------------
(***************************************************************************)
(* Proofs about Security, for any files, roots and budget, and any number  *)
(* of clicks, changes, faults and writers of the database: the types, what *)
(* a scan that shows nothing is worth, and what its rows and notes say.    *)
(***************************************************************************)
EXTENDS Security, FiniteSetTheorems, TLAPS

\* The snapshots are snapshots.
Typed == /\ disk \in Snapshot /\ entries \in Snapshot
         /\ base = [files |-> base.files, roots |-> base.roots, digest |-> base.digest]
         /\ base.files \in Snapshot /\ base.digest \in Snapshot \cup {None}

LEMMA BaselinedTyped ==
    ASSUME disk \in Snapshot, NEW rs \in Fields
    PROVE  \E e \in Snapshot : Baselined(rs) = [files |-> e, roots |-> rs, digest |-> e]
<1>1. [f \in File |-> IF f \in Under(rs) THEN disk[f] ELSE None] \in Snapshot
  BY DEF Snapshot
<1> QED
  BY <1>1 DEF Baselined

LEMMA InitVerified == Init => Typed /\ VerifiedInv
<1> SUFFICES ASSUME Init PROVE Typed /\ VerifiedInv
  OBVIOUS
<1>1. disk \in Snapshot /\ Nothing \in Snapshot
  BY SecurityAssumption DEF Init, Snapshot, Nothing
<1>2. CASE base = [files |-> Nothing, roots |-> {}, digest |-> None]
  BY <1>1, <1>2 DEF Init, Typed, VerifiedInv
<1>3. ASSUME NEW rs \in Fields, base = Baselined(rs) PROVE Typed /\ VerifiedInv
  BY <1>1, <1>3, BaselinedTyped DEF Init, Typed, VerifiedInv
<1> QED
  BY <1>2, <1>3 DEF Init

LEMMA StepTyped == Typed /\ [Next]_vars => Typed'
<1> SUFFICES ASSUME Typed, [Next]_vars PROVE Typed'
  OBVIOUS
<1> USE DEF Typed
<1>0. Nothing \in Snapshot
  BY DEF Nothing, Snapshot
<1>1. CASE UNCHANGED <<disk, base>> /\ (entries' = entries \/ entries' = Nothing)
  BY <1>0, <1>1
<1>2. ASSUME NEW f \in File, Visit(f) PROVE Typed'
  BY <1>2 DEF Visit, Snapshot
<1>3. CASE SetBaseline
  BY <1>0, <1>3 DEF SetBaseline, Returns
<1>4. ASSUME NEW f \in File, NEW c \in Content \cup {None}, ChangeDisk(f, c) PROVE Typed'
  BY <1>4 DEF ChangeDisk, Change, local, Snapshot
<1>5. ASSUME NEW rs \in Fields, GuardSets(rs) PROVE Typed'
  <2>1. UNCHANGED <<disk, entries>> /\ base' = Baselined(rs)
    BY <1>5 DEF GuardSets, Change, local
  <2> QED
    BY <2>1, BaselinedTyped
<1>6. CASE Damage
  <2>1. UNCHANGED <<disk, entries>>
    BY <1>6 DEF Damage, Change, local
  <2>2. ASSUME NEW f \in File, NEW c \in Content, base' = [base EXCEPT !.files[f] = c]
        PROVE  Typed'
    <3>1. [base.files EXCEPT ![f] = c] \in Snapshot
      BY DEF Snapshot
    <3>2. base' = [base EXCEPT !.files = [base.files EXCEPT ![f] = c]]
      BY <2>2
    <3> QED
      BY <2>1, <3>1, <3>2
  <2>3. CASE base' = [base EXCEPT !.digest = None]
    BY <2>1, <2>3
  <2> QED
    BY <1>6, <2>2, <2>3 DEF Damage
<1>7. ASSUME NEW rs \in Fields, DamageRoots(rs) PROVE Typed'
  BY <1>7, SecurityAssumption DEF DamageRoots, Change, local
<1>8. CASE StartCount \/ CountFails \/ Greet \/ Baseline \/ SetFails \/ Scan \/ CountFiles
  BY <1>1, <1>8 DEF StartCount, CountFails, Greet, Baseline, SetFails, Scan, CountFiles,
     Walk, Returns, local
<1>9. CASE Verify \/ VerifyFails \/ AskScope \/ AskScopeFails \/ Diff \/ DiffFails
           \/ CutOff \/ Walked
  BY <1>1, <1>9 DEF Verify, VerifyFails, AskScope, AskScopeFails, Diff, Shows, DiffFails,
     CutOff, Walked, Returns, local
<1>10. ASSUME NEW rs \in Fields, Edit(rs) PROVE Typed'
  BY <1>1, <1>10 DEF Edit, local
<1>11. CASE UNCHANGED vars
  BY <1>1, <1>11 DEF vars, local
<1> QED
  BY <1>2, <1>3, <1>4, <1>5, <1>6, <1>7, <1>8, <1>9, <1>10, <1>11 DEF Next

\* Only a baseline that is set whole gets a new digest, so that what is intact is
\* what was approved; and what a scan verified is intact until it is damaged.
LEMMA StepVerified == Typed /\ VerifiedInv /\ [Next]_vars => VerifiedInv'
<1> SUFFICES ASSUME Typed, VerifiedInv, [Next]_vars PROVE VerifiedInv'
  OBVIOUS
<1> USE DEF VerifiedInv
<1>1. CASE /\ UNCHANGED <<base, approved>>
           /\ pc' \notin {"scope", "diff"} \/ UNCHANGED <<pc, state, touched>>
  BY <1>1
<1>2. CASE Verify
  <2>1. base.files = approved \/ ~Intact(base)
    BY SecurityAssumption DEF Typed, Intact
  <2> QED
    BY <1>2, <2>1 DEF Verify
<1>3. CASE VerifyFails
  BY <1>3 DEF VerifyFails
<1>4. CASE AskScope \/ AskScopeFails
  BY <1>4 DEF AskScope, AskScopeFails, history
<1>5. CASE SetBaseline
  BY <1>5 DEF SetBaseline, Returns
<1>6. ASSUME NEW rs \in Fields, GuardSets(rs) PROVE VerifiedInv'
  BY <1>6, BaselinedTyped DEF GuardSets, Typed
<1>7. CASE Damage
  BY <1>7 DEF Damage, Typed
<1>8. ASSUME NEW rs \in Fields, DamageRoots(rs) PROVE VerifiedInv'
  BY <1>8 DEF DamageRoots, Change, local, Typed
<1>9. CASE StartCount \/ CountFails \/ Greet \/ Baseline \/ SetFails \/ Scan \/ CountFiles
  BY <1>1, <1>9 DEF StartCount, CountFails, Greet, Baseline, SetFails, Scan, CountFiles,
     Walk, Returns, history
<1>10. CASE Diff \/ DiffFails \/ CutOff \/ Walked
  BY <1>1, <1>10 DEF Diff, Shows, DiffFails, CutOff, Walked, Returns, local, history
<1>11. ASSUME NEW f \in File, Visit(f) PROVE VerifiedInv'
  BY <1>1, <1>11 DEF Visit, history
<1>12. ASSUME NEW rs \in Fields, Edit(rs) PROVE VerifiedInv'
  BY <1>1, <1>12 DEF Edit, local
<1>13. ASSUME NEW f \in File, NEW c \in Content \cup {None}, ChangeDisk(f, c)
       PROVE VerifiedInv'
  BY <1>1, <1>13 DEF ChangeDisk, Change, local
<1>14. CASE UNCHANGED vars
  BY <1>1, <1>14 DEF vars, local, history
<1> QED
  BY <1>2, <1>3, <1>4, <1>5, <1>6, <1>7, <1>8, <1>9, <1>10, <1>11, <1>12, <1>13,
     <1>14 DEF Next

\* No row and no note: what was read is the baseline it was compared with.
LEMMA NoRowNoDifference ==
    ASSUME Typed, Diff, Reassures(status', findings')
    PROVE  entries = base.files
<1>1. Findings(base, entries, roots) = {} /\ OutOfScope(base, roots) = {}
  BY DEF Diff, Shows, Reassures, ScopeNote
<1>2. ASSUME NEW f \in File PROVE entries[f] = base.files[f]
  BY <1>1 DEF Findings
<1> QED
  BY <1>2 DEF Typed, Snapshot

\* A scan that shows no row and no warning read the approved baseline, file for
\* file, unless the database was damaged after it was verified.
THEOREM QuietScan == Spec => QuietIsTrue
<1>1. Init => Typed /\ VerifiedInv
  BY InitVerified
<1>2. Typed /\ VerifiedInv /\ [Next]_vars => (Typed /\ VerifiedInv)'
  BY StepTyped, StepVerified
<1>3. ASSUME Typed, VerifiedInv, Diff, Reassures(status', findings'), ~touched
      PROVE  entries = approved
  <2>1. pc = "diff" /\ state
    BY <1>3 DEF Diff, Shows, Reassures
  <2> QED
    BY <1>3, <2>1, NoRowNoDifference DEF VerifiedInv
<1>4. Typed /\ VerifiedInv /\ [Next]_vars
          => [Diff /\ Reassures(status', findings') /\ ~touched => entries = approved]_vars
  BY <1>3
<1> QED
  BY <1>1, <1>2, <1>4, PTL DEF Spec, QuietIsTrue

-----------------------------------------------------------------------------
\* A visit reads one file more, and only below the budget.
LEMMA VisitFound ==
    ASSUME NEW f \in File, Visit(f), Typed, InBudget(Found)
    PROVE  InBudget(Found')
<1>1. \A g \in File : entries'[g] = IF g = f THEN disk[f] ELSE entries[g]
  BY DEF Visit, Typed, Snapshot
<1>2. Cardinality(Found) \in Nat
  BY FS_CardinalityType DEF InBudget
<1>3. CASE disk[f] = None
  <2>1. Found' \in SUBSET Found
    BY <1>1, <1>3 DEF Found
  <2>2. IsFiniteSet(Found') /\ Cardinality(Found') <= Cardinality(Found)
    BY <2>1, FS_Subset DEF InBudget
  <2>3. Cardinality(Found') \in Nat
    BY <2>2, FS_CardinalityType
  <2> QED
    BY <1>2, <2>2, <2>3, SecurityAssumption DEF InBudget
<1>4. CASE disk[f] # None
  <2>1. Found' = Found \cup {f}
    BY <1>1, <1>4 DEF Found
  <2>2. IsFiniteSet(Found') /\ Cardinality(Found') <= Cardinality(Found) + 1
    BY <1>2, <2>1, FS_AddElement DEF InBudget
  <2>3. Cardinality(Found) < Budget
    BY <1>4 DEF Visit
  <2>4. Cardinality(Found') \in Nat
    BY <2>2, FS_CardinalityType
  <2> QED
    BY <1>2, <2>2, <2>3, <2>4, SecurityAssumption DEF InBudget
<1> QED
  BY <1>3, <1>4

\* A walk that has not begun has found nothing, which is within any budget.
LEMMA NothingFound ==
    ASSUME entries' = Nothing PROVE InBudget(Found')
<1>1. Found' = {}
  BY DEF Found, Nothing
<1> QED
  BY <1>1, FS_EmptySet, SecurityAssumption DEF InBudget

\* The rows of a diff are rows.
LEMMA FindingsTyped ==
    ASSUME NEW b, NEW e, NEW rs
    PROVE  Findings(b, e, rs) \subseteq Row
  BY DEF Findings, Judge, Row

\* What the line says of no scan is a status.
LEMMA SayTyped ==
    \A l \in {"hint", "none", "ready", "roots", "saved", "unsaved", "closed", "failed"} :
        Say(l) \in Status /\ \A b \in BOOLEAN : /\ [Say(l) EXCEPT !.cut = b] \in Status
                                             /\ [Say(l) EXCEPT !.intact = b] \in Status
  BY DEF Say, Status

\* Init establishes the types.
LEMMA InitType == Init => TypeOK /\ InBudget(Found)
<1> SUFFICES ASSUME Init PROVE TypeOK /\ InBudget(Found)
  OBVIOUS
<1> USE SecurityAssumption
<1>1. Found = {} /\ InBudget(Found)
  <2>1. Found = {}
    BY DEF Init, Found, Nothing
  <2> QED
    BY <2>1, FS_EmptySet DEF InBudget
<1>2. disk \in Snapshot /\ Nothing \in Snapshot
  BY DEF Init, Snapshot, Nothing
<1>3. base \in [files : Snapshot, roots : SUBSET Root, digest : Snapshot \cup {None}]
  <2>1. CASE base = [files |-> Nothing, roots |-> {}, digest |-> None]
    BY <1>2, <2>1
  <2>2. ASSUME NEW rs \in Fields, base = Baselined(rs)
        PROVE  base \in [files : Snapshot, roots : SUBSET Root, digest : Snapshot \cup {None}]
    <3>1. PICK e \in Snapshot : Baselined(rs) = [files |-> e, roots |-> rs, digest |-> e]
      BY <1>2, BaselinedTyped
    <3> QED
      BY <2>2, <3>1
  <2> QED
    BY <2>1, <2>2 DEF Init
<1>4. status \in Status
  BY SayTyped DEF Init
<1>5. approved \in Snapshot
  BY <1>3 DEF Init
<1>6. field \in SUBSET Root
  BY DEF Init
<1>7. StoreType
  BY <1>2, <1>3, <1>5 DEF Init, StoreType
<1>8. WindowType
  BY <1>4, <1>6 DEF Init, WindowType
<1>9. WalkType
  BY <1>1 DEF Init, WalkType, InBudget
<1>10. clicks = 0 /\ changes = 0 /\ faults = 0
  BY DEF Init
<1>11. BoundType
  BY <1>10 DEF BoundType
<1>12. /\ opened \in BOOLEAN /\ pc = IF opened THEN "start" ELSE "idle"
       /\ handler = None /\ state = FALSE /\ scope = "same" /\ touched = TRUE
       /\ settled = None
  BY DEF Init
<1>13. HandlerType
  BY <1>12 DEF HandlerType
<1> QED
  BY <1>1, <1>7, <1>8, <1>9, <1>11, <1>13 DEF TypeOK

\* What a handler drops when it returns.
LEMMA ReturnsTyped ==
    ASSUME Returns
    PROVE  WalkType' /\ InBudget(Found') /\ entries' \in Snapshot
<1>1. entries' \in Snapshot
  BY DEF Returns, Nothing, Snapshot
<1>2. InBudget(Found')
  BY NothingFound DEF Returns
<1> QED
  BY <1>1, <1>2 DEF Returns, WalkType, InBudget

\* What a handler that leaves its walk alone keeps.
LEMMA LocalTyped ==
    ASSUME WalkType, InBudget(Found), UNCHANGED <<roots, todo, missed, entries>>
    PROVE  WalkType' /\ InBudget(Found')
<1>1. Found' = Found
  BY DEF Found
<1> QED
  BY <1>1 DEF WalkType, InBudget

\* A walk begins.
LEMMA WalkBegins ==
    ASSUME NEW h \in {"baseline", "scan"}, Walk(h), WindowType, HandlerType
    PROVE  /\ WalkType' /\ InBudget(Found') /\ entries' \in Snapshot
           /\ pc' = "walk" /\ handler' = h /\ UNCHANGED <<state, scope>>
<1>1. entries' \in Snapshot
  BY DEF Walk, Nothing, Snapshot
<1>2. InBudget(Found')
  BY NothingFound DEF Walk
<1> QED
  BY <1>1, <1>2 DEF Walk, WindowType, WalkType, InBudget

\* Every step keeps the stored snapshots.
LEMMA StepStore == TypeOK /\ [Next]_vars => StoreType'
<1> SUFFICES ASSUME TypeOK, [Next]_vars PROVE StoreType'
  OBVIOUS
<1> USE DEF TypeOK, StoreType
<1>0. Nothing \in Snapshot /\ base.files \in Snapshot
  BY DEF Nothing, Snapshot
<1>1. CASE UNCHANGED <<disk, base, approved>> /\ (entries' = entries \/ entries' = Nothing)
  BY <1>0, <1>1
<1>2. ASSUME NEW f \in File, Visit(f) PROVE StoreType'
  BY <1>2 DEF Visit, Snapshot, history
<1>3. CASE SetBaseline
  <2>1. roots \in SUBSET Root
    BY DEF WalkType
  <2> QED
    BY <1>0, <1>3, <2>1 DEF SetBaseline, Returns
<1>4. ASSUME NEW f \in File, NEW c \in Content \cup {None}, ChangeDisk(f, c)
      PROVE  StoreType'
  BY <1>4 DEF ChangeDisk, Change, local, Snapshot
<1>5. ASSUME NEW rs \in Fields, GuardSets(rs) PROVE StoreType'
  <2>1. UNCHANGED <<disk, entries>> /\ base' = Baselined(rs) /\ approved' = Baselined(rs).files
    BY <1>5 DEF GuardSets, Change, local
  <2>2. PICK e \in Snapshot : Baselined(rs) = [files |-> e, roots |-> rs, digest |-> e]
    BY BaselinedTyped
  <2>3. rs \in SUBSET Root
    BY SecurityAssumption
  <2> QED
    BY <2>1, <2>2, <2>3
<1>6. CASE Damage
  <2>1. UNCHANGED <<disk, entries, approved>>
    BY <1>6 DEF Damage, Change, local
  <2>2. ASSUME NEW f \in File, NEW c \in Content, base' = [base EXCEPT !.files[f] = c]
        PROVE  StoreType'
    <3>1. [base.files EXCEPT ![f] = c] \in Snapshot
      BY <1>0 DEF Snapshot
    <3>2. base' = [base EXCEPT !.files = [base.files EXCEPT ![f] = c]]
      BY <2>2
    <3> QED
      BY <2>1, <3>1, <3>2
  <2>3. CASE base' = [base EXCEPT !.digest = None]
    BY <2>1, <2>3
  <2> QED
    BY <1>6, <2>2, <2>3 DEF Damage
<1>7. ASSUME NEW rs \in Fields, DamageRoots(rs) PROVE StoreType'
  <2>1. rs \in SUBSET Root
    BY SecurityAssumption
  <2> QED
    BY <1>7, <2>1 DEF DamageRoots, Change, local
<1>8. CASE StartCount \/ CountFails \/ Greet \/ Baseline \/ SetFails \/ Scan \/ CountFiles
  BY <1>1, <1>8 DEF StartCount, CountFails, Greet, Baseline, SetFails, Scan, CountFiles,
     Walk, Returns, local, history
<1>9. CASE Verify \/ VerifyFails \/ AskScope \/ AskScopeFails \/ Diff \/ DiffFails
           \/ CutOff \/ Walked
  BY <1>1, <1>9 DEF Verify, VerifyFails, AskScope, AskScopeFails, Diff, Shows, DiffFails,
     CutOff, Walked, Returns, local, history
<1>10. ASSUME NEW rs \in Fields, Edit(rs) PROVE StoreType'
  BY <1>1, <1>10 DEF Edit, local
<1>11. CASE UNCHANGED vars
  BY <1>1, <1>11 DEF vars, local, history
<1> QED
  BY <1>2, <1>3, <1>4, <1>5, <1>6, <1>7, <1>8, <1>9, <1>10, <1>11 DEF Next

\* Every step keeps what the window shows well formed.
LEMMA StepWindow == TypeOK /\ [Next]_vars => WindowType'
<1> SUFFICES ASSUME TypeOK, [Next]_vars PROVE WindowType'
  OBVIOUS
<1> USE SayTyped DEF TypeOK, WindowType
<1>1. CASE UNCHANGED <<opened, window>>
  BY <1>1 DEF window
<1>2. CASE StartCount \/ CountFails \/ Greet
  <2>1. Intact(base) \in BOOLEAN
    BY DEF Intact
  <2> QED
    BY <1>2, <2>1 DEF StartCount, CountFails, Greet
<1>3. CASE Baseline \/ SetFails \/ Scan \/ CountFiles \/ DiffFails
  BY <1>3 DEF Baseline, SetFails, Scan, CountFiles, DiffFails
<1>4. CASE SetBaseline
  BY <1>4 DEF SetBaseline
<1>5. CASE Diff
  <2>1. /\ findings' = Findings(base, entries, roots)
        /\ status' = [line |-> "scanned", cut |-> missed # {}, intact |-> state,
                      note |-> ScopeNote(scope, OutOfScope(base, roots))]
        /\ UNCHANGED <<opened, field>>
    BY <1>5 DEF Diff, Shows
  <2>2. ScopeNote(scope, OutOfScope(base, roots)) \in BOOLEAN /\ state \in BOOLEAN
    BY DEF ScopeNote, HandlerType
  <2>3. status' \in Status
    BY <2>1, <2>2 DEF Status
  <2> QED
    BY <2>1, <2>3, FindingsTyped
<1>6. ASSUME NEW rs \in Fields, Edit(rs) PROVE WindowType'
  <2>1. rs \in SUBSET Root
    BY SecurityAssumption
  <2> QED
    BY <1>6, <2>1 DEF Edit
<1>7. ASSUME NEW rs \in Fields, GuardSets(rs) \/ DamageRoots(rs) PROVE WindowType'
  BY <1>1, <1>7 DEF GuardSets, DamageRoots, Change
<1>8. CASE Verify \/ VerifyFails \/ AskScope \/ AskScopeFails \/ CutOff \/ Walked \/ Damage
           \/ UNCHANGED vars
  BY <1>1, <1>8 DEF Verify, VerifyFails, AskScope, AskScopeFails, CutOff, Walked, Damage,
     Change, vars
<1>9. ASSUME NEW f \in File, \/ Visit(f)
                             \/ \E c \in Content \cup {None} : ChangeDisk(f, c)
      PROVE  WindowType'
  BY <1>1, <1>9 DEF Visit, ChangeDisk, Change
<1> QED
  BY <1>2, <1>3, <1>4, <1>5, <1>6, <1>7, <1>8, <1>9 DEF Next

\* Every step keeps the walk under its roots and within the budget.
LEMMA StepWalk ==
    TypeOK /\ Typed /\ InBudget(Found) /\ [Next]_vars => WalkType' /\ InBudget(Found')
<1> SUFFICES ASSUME TypeOK, Typed, InBudget(Found), [Next]_vars
             PROVE  WalkType' /\ InBudget(Found')
  OBVIOUS
<1> USE DEF TypeOK
<1>1. CASE UNCHANGED <<roots, todo, missed, entries>>
  BY <1>1, LocalTyped
<1>2. CASE CountFails \/ SetBaseline \/ SetFails \/ Diff \/ DiffFails
  BY <1>2, ReturnsTyped DEF CountFails, SetBaseline, SetFails, Diff, Shows, DiffFails
<1>3. CASE Baseline \/ CountFiles
  BY <1>1, <1>3, WalkBegins DEF Baseline, CountFiles, local
<1>4. ASSUME NEW f \in File, Visit(f) PROVE WalkType' /\ InBudget(Found')
  <2>1. InBudget(Found')
    BY <1>4, VisitFound
  <2> QED
    BY <1>4, <2>1 DEF Visit, WalkType, InBudget
<1>5. CASE CutOff
  <2>1. Found' = Found
    BY <1>5 DEF CutOff, Found
  <2> QED
    BY <1>5, <2>1 DEF CutOff, WalkType, InBudget
<1>6. CASE StartCount \/ Greet \/ Scan \/ Verify \/ VerifyFails \/ AskScope \/ AskScopeFails
           \/ Walked \/ Damage \/ UNCHANGED vars
  BY <1>1, <1>6 DEF StartCount, Greet, Scan, Verify, VerifyFails, AskScope, AskScopeFails,
     Walked, Damage, Change, vars, local
<1>7. ASSUME NEW rs \in Fields, Edit(rs) \/ GuardSets(rs) \/ DamageRoots(rs)
      PROVE  WalkType' /\ InBudget(Found')
  BY <1>1, <1>7 DEF Edit, GuardSets, DamageRoots, Change, local
<1>8. ASSUME NEW f \in File, NEW c \in Content \cup {None}, ChangeDisk(f, c)
      PROVE  WalkType' /\ InBudget(Found')
  BY <1>1, <1>8 DEF ChangeDisk, Change, local
<1> QED
  BY <1>2, <1>3, <1>4, <1>5, <1>6, <1>7, <1>8 DEF Next

\* Every step keeps the bounds.
LEMMA StepBounds == TypeOK /\ [Next]_vars => BoundType'
<1> SUFFICES ASSUME TypeOK, [Next]_vars PROVE BoundType'
  OBVIOUS
<1>0. BoundType /\ MaxClicks \in Nat /\ MaxChanges \in Nat /\ MaxFaults \in Nat
  BY SecurityAssumption DEF TypeOK
<1>a. CASE UNCHANGED bounds
  BY <1>0, <1>a DEF BoundType, bounds
<1>b. CASE Clicks /\ UNCHANGED <<changes, faults>>
  BY <1>0, <1>b DEF BoundType, Clicks
<1>c. CASE Change
  BY <1>0, <1>c DEF BoundType, Change
<1>d. CASE faults' = faults /\ UNCHANGED <<clicks, changes>>
  BY <1>a, <1>d DEF bounds
<1>e. CASE Fault /\ UNCHANGED <<clicks, changes>>
  BY <1>0, <1>e DEF BoundType, Fault
<1>1. CASE StartCount \/ CountFails \/ Greet \/ SetBaseline \/ CountFiles
  BY <1>1, <1>a, <1>e DEF StartCount, CountFails, Greet, SetBaseline, CountFiles
<1>2. CASE Baseline \/ Scan \/ \E rs \in Fields : Edit(rs)
  BY <1>2, <1>b DEF Baseline, Scan, Edit
<1>3. CASE SetFails
  BY <1>3, <1>d, <1>e DEF SetFails
<1>4. CASE Verify \/ VerifyFails \/ AskScope \/ AskScopeFails \/ Diff \/ DiffFails
  BY <1>4, <1>a, <1>e DEF Verify, VerifyFails, AskScope, AskScopeFails, Diff, Shows, DiffFails
<1>5. CASE CutOff \/ Walked \/ \E f \in File : Visit(f)
  BY <1>5, <1>a DEF CutOff, Walked, Visit
<1>6. CASE \/ \E rs \in Fields : GuardSets(rs) \/ DamageRoots(rs)
           \/ \E f \in File, c \in Content \cup {None} : ChangeDisk(f, c)
           \/ Damage
  BY <1>6, <1>c DEF GuardSets, DamageRoots, ChangeDisk, Damage
<1>7. CASE UNCHANGED vars
  BY <1>7, <1>a DEF vars
<1> QED
  BY <1>1, <1>2, <1>3, <1>4, <1>5, <1>6, <1>7 DEF Next

\* Every step keeps the control of the handlers.
LEMMA StepHandler == TypeOK /\ [Next]_vars => HandlerType'
<1> SUFFICES ASSUME TypeOK, [Next]_vars PROVE HandlerType'
  OBVIOUS
<1>0. HandlerType /\ WindowType
  BY DEF TypeOK
<1>a. ASSUME Returns, touched' = touched, settled' \in {None, "set"} \/ settled' = settled
      PROVE  HandlerType'
  BY <1>0, <1>a DEF Returns, HandlerType
<1>b. ASSUME UNCHANGED <<handler, state, scope, touched>>,
             settled' = None \/ settled' = settled,
             pc' = pc \/ pc' \in {"idle", "greet", "count", "verify", "set", "scope", "diff"}
      PROVE  HandlerType'
  BY <1>0, <1>b DEF HandlerType
<1>1. CASE StartCount \/ Greet \/ Scan \/ Walked \/ CutOff \/ \E f \in File : Visit(f)
  BY <1>1, <1>b DEF StartCount, Greet, Scan, Walked, CutOff, Visit, local, history
<1>2. CASE CountFails \/ SetFails \/ DiffFails
  BY <1>2, <1>a DEF CountFails, SetFails, DiffFails, Fault
<1>3. CASE SetBaseline \/ Diff
  BY <1>3, <1>a DEF SetBaseline, Diff, Shows, history
<1>4. CASE Baseline
  <2>1. CASE Walk("baseline") /\ settled' = "walk" /\ touched' = touched
    BY <1>0, <2>1, WalkBegins DEF HandlerType
  <2> QED
    BY <1>4, <1>b, <2>1 DEF Baseline, local
<1>5. CASE CountFiles
  <2>1. CASE Walk("scan") /\ UNCHANGED <<settled, touched>>
    BY <1>0, <2>1, WalkBegins DEF HandlerType
  <2> QED
    BY <1>5, <1>b, <2>1 DEF CountFiles, local, history
<1>6. CASE Verify \/ VerifyFails
  <2>1. state' \in BOOLEAN /\ touched' \in BOOLEAN
    BY <1>6 DEF Verify, VerifyFails, Intact
  <2> QED
    BY <1>0, <1>6, <2>1 DEF Verify, VerifyFails, Fault, HandlerType
<1>7. CASE AskScope \/ AskScopeFails
  BY <1>0, <1>7 DEF AskScope, AskScopeFails, Fault, history, HandlerType
<1>8. CASE \E rs \in Fields : Edit(rs)
  BY <1>8, <1>b DEF Edit, local
<1>9. CASE \/ \E rs \in Fields : GuardSets(rs) \/ DamageRoots(rs)
           \/ \E f \in File, c \in Content \cup {None} : ChangeDisk(f, c)
  BY <1>9, <1>b DEF GuardSets, DamageRoots, ChangeDisk, Change, local
<1>10. CASE Damage
  BY <1>0, <1>10 DEF Damage, Change, local, HandlerType
<1>11. CASE UNCHANGED vars
  BY <1>11, <1>b DEF vars, local, history
<1> QED
  BY <1>1, <1>2, <1>3, <1>4, <1>5, <1>6, <1>7, <1>8, <1>9, <1>10, <1>11 DEF Next

\* Together: every step keeps the types.
LEMMA StepType == TypeOK /\ InBudget(Found) /\ [Next]_vars => TypeOK' /\ InBudget(Found)'
<1> SUFFICES ASSUME TypeOK, InBudget(Found), [Next]_vars
             PROVE  TypeOK' /\ InBudget(Found')
  BY DEF InBudget
<1>1. Typed
  BY DEF TypeOK, StoreType, Typed
<1> QED
  BY <1>1, StepStore, StepWindow, StepWalk, StepHandler, StepBounds DEF TypeOK

\* Every variable keeps its type, and no walk leaves its roots or its budget.
THEOREM TypeCorrect == Spec => []TypeOK
<1>1. Init => TypeOK /\ InBudget(Found)
  BY InitType
<1>2. TypeOK /\ InBudget(Found) /\ [Next]_vars => TypeOK' /\ InBudget(Found)'
  BY StepType
<1> QED
  BY <1>1, <1>2, PTL DEF Spec

-----------------------------------------------------------------------------
\* No file of the baseline is skipped in silence: what is out of scope is noted,
\* what is not and was read otherwise has a row.
THEOREM NothingSkipped == Spec => EveryFileAccounted
<1>1. ASSUME Diff, NEW f \in File, base.files[f] # None, entries[f] # base.files[f],
             ~status'.note
      PROVE  \E x \in findings' : x.file = f
  <2>1. findings' = Findings(base, entries, roots) /\ OutOfScope(base, roots) = {}
    BY <1>1 DEF Diff, Shows, ScopeNote
  <2>2. [file |-> f, kind |-> Judge(base, entries, f)] \in findings'
    BY <1>1, <2>1 DEF Findings
  <2> QED
    BY <2>2
<1>2. [Next]_vars =>
          [Diff => \A f \in File :
              base.files[f] # None =>
                  \/ entries[f] = base.files[f]
                  \/ \E x \in findings' : x.file = f
                  \/ status'.note]_vars
  BY <1>1
<1> QED
  BY <1>2, PTL DEF Spec, EveryFileAccounted

-----------------------------------------------------------------------------
\* A visit, while nothing changes, goes on reading what is on disk.
LEMMA VisitReads ==
    ASSUME Typed, WalkType, Reading, NEW f \in File, Visit(f)
    PROVE  Reading'
<1>1. \A g \in File : entries'[g] = IF g = f THEN disk[f] ELSE entries[g]
  BY DEF Visit, Typed, Snapshot
<1>2. UNCHANGED <<disk, field, roots, missed>> /\ todo' = todo \ {f}
  BY DEF Visit, window
<1>3. f \in todo /\ f \in Under(roots) /\ missed = {}
  BY DEF Visit, WalkType, Reading
<1>4. ASSUME NEW g \in File
      PROVE  entries'[g] = IF g \in Under(roots) \ (todo' \cup missed) THEN disk[g] ELSE None
  BY <1>1, <1>2, <1>3 DEF Reading
<1> QED
  BY <1>2, <1>3, <1>4 DEF Reading

\* A walk of a settled baseline is never cut short: it reads no more files than
\* the baseline has, and those were within the budget.
LEMMA NoCutOff ==
    ASSUME WalkType, Reading, SettledBase, InBudget(Found), CutOff
    PROVE  FALSE
<1> DEFINE Present == {f \in File : base.files[f] # None}
<1>1. PICK f \in todo : disk[f] # None
  BY DEF CutOff
<1>2. f \in Under(roots) /\ roots = field
  BY <1>1 DEF WalkType, Reading
<1>3. f \in File
  BY <1>2, SecurityAssumption DEF Under, WalkType
<1>4. f \in Present /\ f \notin Found
  BY <1>1, <1>2, <1>3 DEF SettledBase, Reading, Found
<1>5. Found \in SUBSET Present
  BY <1>2 DEF SettledBase, Reading, Found
<1>6. IsFiniteSet(Present) /\ Cardinality(Present) <= Budget
  BY DEF SettledBase, InBudget
<1> HIDE DEF Present
<1>7. Cardinality(Found) <= Cardinality(Present) /\ Cardinality(Found) # Cardinality(Present)
  BY <1>4, <1>5, <1>6, FS_Subset
<1>8. Cardinality(Found) = Budget /\ Budget \in Nat /\ Cardinality(Present) \in Nat
  BY <1>6, FS_CardinalityType, SecurityAssumption DEF CutOff
<1> QED
  BY <1>6, <1>7, <1>8

\* What a step does not touch stays settled.
LEMMA SettledStays ==
    ASSUME SettledInv, UNCHANGED <<disk, base, field, settled>>,
           \/ UNCHANGED <<pc, local>>
           \/ pc' \in {"idle", "count", "greet"} /\ settled # "walk"
    PROVE  SettledInv'
<1> QED
  BY DEF SettledInv, Reading, SettledBase, Intact, InBudget, local

\* Every step keeps a settled baseline settled, or unsettles it.
LEMMA StepSettled ==
    TypeOK /\ InBudget(Found) /\ SettledInv /\ [Next]_vars => SettledInv'
<1> SUFFICES ASSUME TypeOK, InBudget(Found), SettledInv, [Next]_vars, settled' # None
             PROVE  SettledInv'
  BY DEF SettledInv
<1>0. Typed /\ WalkType /\ HandlerType
  BY DEF TypeOK, StoreType, Typed
<1>1. CASE Fault \/ Change
  BY <1>1 DEF Fault, Change
<1>2. CASE StartCount \/ Greet \/ Scan
  BY <1>2, SettledStays DEF StartCount, Greet, Scan, history, window, SettledInv
<1>3. CASE Baseline
  <2>1. CASE Walk("baseline") /\ settled' = "walk"
    <3>1. entries' = Nothing /\ roots' = field /\ todo' = Under(field) /\ missed' = {}
          /\ UNCHANGED <<field, disk>> /\ pc' = "walk" /\ handler' = "baseline"
      BY <1>3, <2>1 DEF Baseline, Walk
    <3>2. Reading'
      BY <3>1 DEF Reading, Nothing
    <3> QED
      BY <2>1, <3>1, <3>2 DEF SettledInv
  <2>2. CASE UNCHANGED <<pc, local, settled>>
    BY <1>3, <2>2, SettledStays DEF Baseline
  <2> QED
    BY <1>3, <2>1, <2>2 DEF Baseline
<1>4. CASE CountFiles
  <2>1. UNCHANGED <<disk, base, field, settled>> /\ settled = "set"
    BY <1>0, <1>4 DEF CountFiles, history, SettledInv, HandlerType
  <2>2. CASE Walk("scan")
    <3>1. entries' = Nothing /\ roots' = field /\ todo' = Under(field) /\ missed' = {}
          /\ pc' = "walk" /\ handler' = "scan"
      BY <2>2 DEF Walk
    <3>2. Reading'
      BY <2>1, <3>1 DEF Reading, Nothing
    <3>3. SettledBase'
      BY <2>1 DEF SettledInv, SettledBase, Intact, InBudget
    <3> QED
      BY <2>1, <3>1, <3>2, <3>3 DEF SettledInv
  <2>3. CASE pc' = "idle"
    BY <2>1, <2>3, SettledStays
  <2> QED
    BY <1>4, <2>2, <2>3 DEF CountFiles
<1>5. ASSUME NEW f \in File, Visit(f) PROVE SettledInv'
  <2>1. UNCHANGED <<disk, base, field, settled, pc, handler, missed>> /\ pc = "walk"
    BY <1>5 DEF Visit, window, history
  <2>2. Reading'
    BY <1>0, <1>5, <2>1, VisitReads DEF SettledInv
  <2>3. settled = "set" => SettledBase'
    BY <2>1 DEF SettledInv, SettledBase, Intact, InBudget
  <2> QED
    BY <2>1, <2>2, <2>3 DEF SettledInv
<1>6. CASE CutOff
  <2>1. UNCHANGED <<disk, base, field, settled, pc, handler, roots, entries>> /\ pc = "walk"
        /\ missed' = todo /\ todo' = {} /\ todo # {}
    BY <1>6 DEF CutOff, window, history
  <2>2. Reading /\ missed = {}
    BY <2>1 DEF SettledInv, Reading
  <2>3. settled # "set"
    BY <1>0, <1>6, <2>1, <2>2, NoCutOff DEF SettledInv
  <2>4. Reading'
    BY <2>1, <2>2 DEF Reading
  <2> QED
    BY <2>1, <2>3, <2>4 DEF SettledInv
<1>7. CASE Walked \/ Verify \/ AskScope
  <2>1. UNCHANGED <<disk, base, field, settled, handler, roots, todo, entries, missed>>
        /\ pc \in {"walk", "verify", "scope"}
    BY <1>7 DEF Walked, Verify, AskScope, window, history, local
  <2>2. Reading'
    BY <2>1 DEF SettledInv, Reading
  <2>3. settled = "set" => SettledBase /\ SettledBase' /\ roots = field
    BY <2>1 DEF SettledInv, SettledBase, Intact, InBudget, Reading
  <2>4. CASE Walked
    BY <2>1, <2>2, <2>3, <2>4 DEF Walked, local, SettledInv
  <2>5. CASE Verify
    BY <2>1, <2>2, <2>3, <2>5 DEF Verify, SettledInv, SettledBase
  <2>6. CASE AskScope
    BY <2>1, <2>2, <2>3, <2>6 DEF AskScope, SettledInv, SettledBase
  <2> QED
    BY <1>7, <2>4, <2>5, <2>6
<1>8. CASE SetBaseline
  <2>1. settled = "walk" /\ missed = {} /\ todo = {} /\ Reading /\ settled' = "set"
        /\ UNCHANGED <<disk, field>>
    <3>1. pc = "set" /\ settled = "walk" /\ missed = {} /\ settled' = "set"
          /\ UNCHANGED <<disk, field>>
      BY <1>8 DEF SetBaseline
    <3>2. settled # None
      BY <3>1, SecurityAssumption
    <3> QED
      BY <3>1, <3>2 DEF SettledInv
  <2>2. base' = [files |-> entries, roots |-> roots, digest |-> entries] /\ pc' = "idle"
    BY <1>8 DEF SetBaseline, Returns
  <2>3. {f \in File : base'.files[f] # None} = Found
    BY <2>2 DEF Found
  <2>4. SettledBase'
    BY <2>1, <2>2, <2>3 DEF SettledBase, Intact, Reading, InBudget
  <2> QED
    BY <2>1, <2>2, <2>4 DEF SettledInv
<1>9. CASE SetFails
  BY <1>1, <1>9 DEF SetFails
<1>10. CASE CountFails \/ VerifyFails \/ AskScopeFails \/ DiffFails
  BY <1>1, <1>10 DEF CountFails, VerifyFails, AskScopeFails, DiffFails
<1>11. CASE Diff
  BY <1>11, SettledStays DEF Diff, Shows, Returns, history, SettledInv
<1>12. ASSUME NEW rs \in Fields, Edit(rs) PROVE SettledInv'
  BY <1>12 DEF Edit
<1>13. CASE \/ \E rs \in Fields : GuardSets(rs) \/ DamageRoots(rs)
            \/ \E f \in File, c \in Content \cup {None} : ChangeDisk(f, c)
            \/ Damage
  BY <1>1, <1>13 DEF GuardSets, DamageRoots, ChangeDisk, Damage
<1>14. CASE UNCHANGED vars
  BY <1>14, SettledStays DEF vars, window, history
<1> QED
  BY <1>2, <1>3, <1>4, <1>5, <1>6, <1>7, <1>8, <1>9, <1>10, <1>11, <1>12, <1>13,
     <1>14 DEF Next

\* As long as nothing changes since a whole baseline was taken, a scan reassures.
THEOREM ScanReassures == Spec => NoFalseAlarm
<1>1. Init => TypeOK /\ InBudget(Found) /\ SettledInv
  BY InitType DEF Init, SettledInv
<1>2. TypeOK /\ InBudget(Found) /\ SettledInv /\ [Next]_vars
          => TypeOK' /\ InBudget(Found)' /\ SettledInv'
  BY StepType, StepSettled
<1>3. ASSUME TypeOK, SettledInv, Diff, settled = "set"
      PROVE  Reassures(status', findings')
  <2>1. pc = "diff" /\ settled # None
    BY <1>3, SecurityAssumption DEF Diff, Shows
  <2>2. SettledBase /\ Reading /\ todo = {} /\ missed = {} /\ state /\ scope = "same"
    BY <1>3, <2>1 DEF SettledInv
  <2>3. \A f \in File : entries[f] = base.files[f]
    BY <2>2 DEF SettledBase, Reading
  <2>4. OutOfScope(base, roots) = {}
    BY <2>2 DEF OutOfScope, SettledBase, Reading
  <2>5. Findings(base, entries, roots) = {}
    BY <2>3 DEF Findings
  <2>6. ScopeNote(scope, OutOfScope(base, roots)) = FALSE
    BY <2>2, <2>4 DEF ScopeNote
  <2> QED
    BY <1>3, <2>2, <2>5, <2>6 DEF Diff, Shows, Reassures
<1>4. TypeOK /\ SettledInv /\ [Next]_vars
          => [Diff /\ settled = "set" => Reassures(status', findings')]_vars
  BY <1>3
<1> QED
  BY <1>1, <1>2, <1>4, PTL DEF Spec, NoFalseAlarm
=============================================================================
