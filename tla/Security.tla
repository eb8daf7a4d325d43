------------------------------ MODULE Security ------------------------------
(***************************************************************************)
(* The security tab of the window (src/gui.rs): set a baseline of the      *)
(* files under some roots, and scan them against it.                       *)
(*                                                                         *)
(* A scan reads the baseline database four times (count, verify, scope,    *)
(* diff) and the disk file by file in between.  eos-guard keeps its        *)
(* baseline in the same database (src/paths.rs), so it may be replaced, or *)
(* damaged, between any two of these reads, and the disk may change under  *)
(* the walk.  The engine (eos-fsintegrity) is another repository: its      *)
(* operators say what src/gui.rs and src/selftest.rs rely on.  Its audit   *)
(* of permissions (a row "warn") depends on one entry and is left out.     *)
(***************************************************************************)
EXTENDS Integers, FiniteSets

CONSTANTS File, Root, Content,
          Covers,                 \* the files under each root; roots may nest
          Budget,                 \* SCAN_BUDGET: files a walk may collect
          Disks,                  \* what the disk may hold at first
          Fields,                 \* what a person, or eos-guard, takes for roots
          MaxClicks, MaxChanges, MaxFaults,    \* bounds for TLC
          None

Snapshot == [File -> Content \cup {None}]
Nothing  == [f \in File |-> None]

ASSUME SecurityAssumption ==
    /\ Covers \in [Root -> SUBSET File]
    /\ Budget \in Nat
    /\ Disks \subseteq Snapshot /\ Fields \subseteq SUBSET Root
    /\ None \notin Content /\ None \notin Snapshot /\ None \notin {"walk", "set"}
    /\ MaxClicks \in Nat /\ MaxChanges \in Nat /\ MaxFaults \in Nat

VARIABLES
    disk,       \* the files
    base,       \* the database: baseline, meta.roots, baseline digest
    opened,     \* could run() open it?
    field,      \* roots: the text field, parsed
    findings,   \* the list on show
    status,     \* sec-status: the line under it
    pc,         \* of the event loop
    handler,    \* whose walk it is: "baseline" or "scan"
    roots,      \* the roots of the handler at work, a copy of the field
    todo,       \* the files it has yet to visit
    entries,    \* what it has read
    missed,     \* the files the budget cut off
    state,      \* is the baseline intact, as the scan was told?
    scope,      \* are its roots those of the scan, as the scan was told?
    approved,   \* history: the baseline somebody set last
    touched,    \* history: was it damaged since the scan verified it?
    settled,    \* history: "walk" while the baseline at work is what is on disk,
                \*   "set" when it is stored whole; None once anything changes
    clicks, changes, faults     \* counters of the bounds

window  == <<field, findings, status>>
local   == <<handler, roots, todo, entries, missed, state, scope>>
history == <<approved, touched, settled>>
bounds  == <<clicks, changes, faults>>
vars    == <<disk, base, opened, window, pc, local, history, bounds>>

-----------------------------------------------------------------------------
(* The engine. *)

Under(rs) == UNION {Covers[r] : r \in rs}

Count(b) == Cardinality({f \in File : b.files[f] # None})

\* verify_baseline; the roots are not part of the digest.
Intact(b) == b.digest = b.files

OutOfScope(b, rs) == {f \in File \ Under(rs) : b.files[f] # None}

\* scope_note keeps quiet about an unchanged scope that left nothing out.
ScopeNote(s, out) == s = "changed" \/ out # {}

Judge(b, e, f) == IF e[f] = None THEN "removed"
                  ELSE IF b.files[f] = None THEN "new" ELSE "modified"

\* diff: what was not looked for is counted, not listed.
Findings(b, e, rs) ==
    {[file |-> f, kind |-> Judge(b, e, f)] :
         f \in {g \in File \ OutOfScope(b, rs) : e[g] # b.files[g]}}

\* security_core of the self-test, the answers it expects of the engine: on a
\* fresh baseline, on a narrowed scan, after a deletion, after damage.
SecurityCore(all, sub, e, gone, other) ==
    LET fresh == [files |-> e, roots |-> all, digest |-> e]
        inner == [f \in File |-> IF f \in Under(sub) THEN e[f] ELSE None]
        after == [e EXCEPT ![gone] = None]
    IN  /\ Count(fresh) = 3
        /\ Intact(fresh)
        /\ OutOfScope(fresh, all) = {} /\ Findings(fresh, e, all) = {}
        /\ ~ \E x \in Findings(fresh, inner, sub) : x.kind = "removed"
        /\ Cardinality(OutOfScope(fresh, sub)) = 2
        /\ ScopeNote("changed", OutOfScope(fresh, sub)) /\ ~ScopeNote("same", {})
        /\ Findings(fresh, after, all) = {[file |-> gone, kind |-> "removed"]}
        /\ ~Intact([fresh EXCEPT !.files = [f \in File |-> other]])
        /\ ~Intact([fresh EXCEPT !.digest = None])

-----------------------------------------------------------------------------
(* The status line. *)

Say(l) == [line |-> l, cut |-> FALSE, intact |-> TRUE, note |-> FALSE]

\* Nothing to see: no row, no warning.
Reassures(s, fs) ==
    s.line = "scanned" /\ fs = {} /\ ~s.cut /\ s.intact /\ ~s.note

Fault == faults < MaxFaults /\ faults' = faults + 1 /\ settled' = None

\* A handler returns, and drops what it holds.
Returns ==
    /\ pc' = "idle"
    /\ handler' = None /\ roots' = {} /\ todo' = {} /\ entries' = Nothing
    /\ missed' = {} /\ state' = FALSE /\ scope' = "same"

Clicks == clicks < MaxClicks /\ clicks' = clicks + 1

-----------------------------------------------------------------------------
(* run() opens the database and says what it finds. *)

\* What a baseline of the disk over the roots rs leaves in the database.
Baselined(rs) ==
    LET e == [f \in File |-> IF f \in Under(rs) THEN disk[f] ELSE None]
    IN  [files |-> e, roots |-> rs, digest |-> e]

Init ==
    /\ disk \in Disks
    /\ base \in {[files |-> Nothing, roots |-> {}, digest |-> None]} \cup
               {Baselined(rs) : rs \in Fields}
    /\ opened \in BOOLEAN
    /\ field \in Fields /\ findings = {} /\ status = Say("hint")
    /\ pc = IF opened THEN "start" ELSE "idle"
    /\ handler = None /\ roots = {} /\ todo = {} /\ entries = Nothing
    /\ missed = {} /\ state = FALSE /\ scope = "same"
    /\ approved = base.files /\ touched = TRUE /\ settled = None
    /\ clicks = 0 /\ changes = 0 /\ faults = 0

StartCount ==
    /\ pc = "start"
    /\ IF Count(base) = 0
       THEN status' = Say("none") /\ pc' = "idle"
       ELSE pc' = "greet" /\ UNCHANGED status
    /\ UNCHANGED <<disk, base, opened, field, findings, local, history, bounds>>

\* unwrap_or(0), at the start and in a scan
CountFails ==
    /\ pc \in {"start", "count"}
    /\ Fault
    /\ status' = Say("none")
    /\ Returns
    /\ UNCHANGED <<disk, base, opened, field, findings, approved, touched, clicks, changes>>

Greet ==
    /\ pc = "greet"
    /\ status' = [Say("ready") EXCEPT !.intact = Intact(base)]
    /\ pc' = "idle"
    /\ UNCHANGED <<disk, base, opened, field, findings, local, history, bounds>>

-----------------------------------------------------------------------------
(* The walk, of either handler. *)

\* Mutant of Walk: it goes over the roots the baseline recorded.
WalkRecorded(h) ==
    /\ pc' = "walk" /\ handler' = h
    /\ roots' = field /\ todo' = Under(base.roots)
    /\ entries' = Nothing /\ missed' = {}
    /\ UNCHANGED <<state, scope>>

Walk(h) ==
    /\ pc' = "walk" /\ handler' = h
    /\ roots' = field /\ todo' = Under(field)
    /\ entries' = Nothing /\ missed' = {}
    /\ UNCHANGED <<state, scope>>

Found == {f \in File : entries[f] # None}

Visit(f) ==
    /\ pc = "walk" /\ f \in todo
    /\ disk[f] = None \/ Cardinality(Found) < Budget
    /\ entries' = [entries EXCEPT ![f] = disk[f]]
    /\ todo' = todo \ {f}
    /\ UNCHANGED <<disk, base, opened, window, pc, handler, roots, missed, state,
                   scope, history, bounds>>

CutOff ==
    /\ pc = "walk"
    /\ \E f \in todo : disk[f] # None
    /\ Cardinality(Found) = Budget
    /\ missed' = todo /\ todo' = {}
    /\ UNCHANGED <<disk, base, opened, window, pc, handler, roots, entries, state,
                   scope, history, bounds>>

Walked ==
    /\ pc = "walk" /\ todo = {}
    /\ pc' = IF handler = "baseline" THEN "set" ELSE "verify"
    /\ UNCHANGED <<disk, base, opened, window, local, history, bounds>>

-----------------------------------------------------------------------------
(* on_baseline *)

Baseline ==
    /\ pc = "idle"
    /\ Clicks
    /\ IF field = {}
       THEN status' = Say("roots") /\ UNCHANGED <<pc, local, settled>>
       ELSE Walk("baseline") /\ settled' = "walk" /\ UNCHANGED status
    /\ UNCHANGED <<disk, base, opened, field, findings, approved, touched, changes, faults>>

\* Mutant of SetBaseline: the roots it was taken over are not recorded.
SetBaselineKeepsRoots ==
    /\ pc = "set" /\ opened
    /\ base' = [base EXCEPT !.files = entries, !.digest = entries]
    /\ approved' = entries
    /\ settled' = IF settled = "walk" /\ missed = {} THEN "set" ELSE None
    /\ status' = [Say("saved") EXCEPT !.cut = missed # {}]
    /\ findings' = {}
    /\ Returns
    /\ UNCHANGED <<disk, opened, field, touched, bounds>>

SetBaseline ==
    /\ pc = "set" /\ opened
    /\ base' = [files |-> entries, roots |-> roots, digest |-> entries]
    /\ approved' = entries
    /\ settled' = IF settled = "walk" /\ missed = {} THEN "set" ELSE None
    /\ status' = [Say("saved") EXCEPT !.cut = missed # {}]
    /\ findings' = {}
    /\ Returns
    /\ UNCHANGED <<disk, opened, field, touched, bounds>>

SetFails ==
    /\ pc = "set"
    /\ IF opened THEN Fault ELSE settled' = None /\ UNCHANGED faults
    /\ status' = Say("unsaved")
    /\ findings' = {}
    /\ Returns
    /\ UNCHANGED <<disk, base, opened, field, approved, touched, clicks, changes>>

-----------------------------------------------------------------------------
(* on_scan *)

Scan ==
    /\ pc = "idle"
    /\ Clicks
    /\ IF opened THEN pc' = "count" /\ UNCHANGED status
                 ELSE status' = Say("closed") /\ UNCHANGED pc
    /\ UNCHANGED <<disk, base, opened, field, findings, local, history, changes, faults>>

CountFiles ==
    /\ pc = "count"
    /\ IF Count(base) = 0
       THEN status' = Say("none") /\ pc' = "idle" /\ UNCHANGED local
       ELSE Walk("scan") /\ UNCHANGED status
    /\ UNCHANGED <<disk, base, opened, field, findings, history, bounds>>

Verify ==
    /\ pc = "verify"
    /\ state' = Intact(base) /\ touched' = FALSE
    /\ pc' = "scope"
    /\ UNCHANGED <<disk, base, opened, window, handler, roots, todo, entries, missed,
                   scope, approved, settled, bounds>>

\* Mutant of VerifyFails: what .unwrap_or(true) did.
VerifyFailsOpen ==
    /\ pc = "verify"
    /\ Fault
    /\ state' = TRUE /\ touched' = FALSE
    /\ pc' = "scope"
    /\ UNCHANGED <<disk, base, opened, window, handler, roots, todo, entries, missed,
                   scope, approved, clicks, changes>>

\* A database error is not Intact.
VerifyFails ==
    /\ pc = "verify"
    /\ Fault
    /\ state' = FALSE /\ touched' = FALSE
    /\ pc' = "scope"
    /\ UNCHANGED <<disk, base, opened, window, handler, roots, todo, entries, missed,
                   scope, approved, clicks, changes>>

AskScope ==
    /\ pc = "scope"
    /\ scope' = IF base.roots = roots THEN "same" ELSE "changed"
    /\ pc' = "diff"
    /\ UNCHANGED <<disk, base, opened, window, handler, roots, todo, entries, missed,
                   state, history, bounds>>

\* scope() returns no error, so it answers something.
AskScopeFails ==
    /\ pc = "scope"
    /\ Fault
    /\ scope' \in {"same", "changed"}
    /\ pc' = "diff"
    /\ UNCHANGED <<disk, base, opened, window, handler, roots, todo, entries, missed,
                   state, approved, touched, clicks, changes>>

Shows(fs, note) ==
    /\ pc = "diff"
    /\ findings' = fs
    /\ status' = [line |-> "scanned", cut |-> missed # {}, intact |-> state, note |-> note]
    /\ Returns
    /\ UNCHANGED <<disk, base, opened, field, history, bounds>>

\* Mutants of Diff: it is given the roots the baseline recorded; the note does not
\* hear of the files out of scope.
DiffRecorded == Shows(Findings(base, entries, base.roots),
                      ScopeNote(scope, OutOfScope(base, base.roots)))
DiffUncounted == Shows(Findings(base, entries, roots), ScopeNote(scope, {}))

Diff == Shows(Findings(base, entries, roots), ScopeNote(scope, OutOfScope(base, roots)))

\* The rows of the scan before stay on show.
DiffFails ==
    /\ pc = "diff"
    /\ Fault
    /\ status' = Say("failed")
    /\ Returns
    /\ UNCHANGED <<disk, base, opened, field, findings, approved, touched, clicks, changes>>

\* The person edits the field; it takes effect at the next click.
Edit(rs) ==
    /\ pc = "idle"
    /\ Clicks
    /\ field' = rs
    /\ settled' = None
    /\ UNCHANGED <<disk, base, opened, findings, status, pc, local, approved, touched, changes, faults>>

-----------------------------------------------------------------------------
(* Everybody else. *)

Change ==
    /\ changes < MaxChanges /\ changes' = changes + 1
    /\ settled' = None
    /\ UNCHANGED <<opened, window, pc, local, clicks, faults>>

\* A file is created, written or removed.
ChangeDisk(f, c) ==
    disk' = [disk EXCEPT ![f] = c] /\ Change /\ UNCHANGED <<base, approved, touched>>

\* eos-guard sets the baseline, in one transaction.
GuardSets(rs) ==
    /\ base' = Baselined(rs)
    /\ approved' = Baselined(rs).files
    /\ Change
    /\ UNCHANGED <<disk, touched>>

\* A row is altered out of band, or the digest row is lost.
Damage ==
    /\ \/ \E f \in File, c \in Content : base' = [base EXCEPT !.files[f] = c]
       \/ base' = [base EXCEPT !.digest = None]
    /\ touched' = TRUE
    /\ Change
    /\ UNCHANGED <<disk, approved>>

\* meta.roots is altered; the digest does not cover it.
DamageRoots(rs) ==
    /\ base' = [base EXCEPT !.roots = rs]
    /\ Change
    /\ UNCHANGED <<disk, approved, touched>>

-----------------------------------------------------------------------------
Next ==
    \/ StartCount \/ CountFails \/ Greet
    \/ Baseline \/ SetBaseline \/ SetFails
    \/ Scan \/ CountFiles \/ Verify \/ VerifyFails \/ AskScope \/ AskScopeFails
    \/ Diff \/ DiffFails
    \/ CutOff \/ Walked \/ \E f \in File : Visit(f)
    \/ \E rs \in Fields : Edit(rs) \/ GuardSets(rs) \/ DamageRoots(rs)
    \/ \E f \in File, c \in Content \cup {None} : ChangeDisk(f, c)
    \/ Damage

Spec == Init /\ [][Next]_vars

-----------------------------------------------------------------------------
(* Properties. *)

Row    == [file : File, kind : {"new", "modified", "removed"}]
Status == [line : {"hint", "none", "ready", "roots", "saved", "unsaved", "closed",
                   "scanned", "failed"},
           cut : BOOLEAN, intact : BOOLEAN, note : BOOLEAN]

StoreType ==
    /\ disk \in Snapshot /\ entries \in Snapshot /\ approved \in Snapshot
    /\ base \in [files : Snapshot, roots : SUBSET Root, digest : Snapshot \cup {None}]

WindowType ==
    /\ opened \in BOOLEAN
    /\ field \in SUBSET Root
    /\ findings \subseteq Row /\ status \in Status

WalkType ==
    /\ roots \in SUBSET Root /\ todo \subseteq Under(roots) /\ missed \subseteq Under(roots)
    /\ Cardinality(Found) <= Budget

HandlerType ==
    /\ pc \in {"start", "greet", "idle", "walk", "set", "count", "verify", "scope", "diff"}
    /\ handler \in {None, "baseline", "scan"}
    /\ state \in BOOLEAN /\ scope \in {"same", "changed"}
    /\ touched \in BOOLEAN /\ settled \in {None, "walk", "set"}

BoundType ==
    /\ clicks \in 0 .. MaxClicks
    /\ changes \in 0 .. MaxChanges /\ faults \in 0 .. MaxFaults

\* Every variable keeps its type, and no walk leaves the roots that diff is told of,
\* or exceeds the budget (gui.rs:450, 482-488).
TypeOK == StoreType /\ WindowType /\ WalkType /\ HandlerType /\ BoundType

\* A scan that shows no row and no warning read, of every file of the baseline
\* that somebody set, the content that was set, and no file besides: whatever the
\* guard, a damaged or failing database, an edited field or the budget did in
\* between.  The one thing the four reads leave open is damage done after
\* verify_baseline answered (gui.rs:482-503).
QuietIsTrue ==
    [][Diff /\ Reassures(status', findings') /\ ~touched => entries = approved]_vars

\* Why: the digest is that of an approved baseline, or missing; and what verify
\* found intact stays so until it is damaged or replaced.
VerifiedInv ==
    /\ base.digest \in {None, approved}
    /\ pc \in {"scope", "diff"} /\ state /\ ~touched => base.files = approved

\* A field that was narrowed, or emptied, since the baseline was taken condemns no
\* file outside of what it names now: a row says removed only under the roots that
\* the field shows (README.md:53-58, gui.rs:481-488).
RemovedIsInScope ==
    [][Diff => \A x \in findings' : x.kind = "removed" => x.file \in Under(field)]_vars

\* "A file the scan never looked for is not a file that was removed" (README.md:53),
\* "and must not be reported as removed" (gui.rs:484-486): a row says removed only of a
\* file that the walk looked for and did not find, also when the budget cut it short.
RemovedWasLookedFor ==
    [][Diff => \A x \in findings' :
           x.kind = "removed" =>
               x.file \in Under(roots) \ missed /\ entries[x.file] = None]_vars

\* No file of the baseline is skipped in silence, even when the recorded roots are
\* wrong or the walk was cut short: it was read as it should be, or it has a row,
\* or the line has a note (README.md:61-70, gui.rs:504-508).
EveryFileAccounted ==
    [][Diff => \A f \in File :
           base.files[f] # None =>
               \/ entries[f] = base.files[f]
               \/ \E x \in findings' : x.file = f
               \/ status'.note]_vars

\* "A warning on every scan is a warning nobody reads" (selftest.rs:370): as long as
\* nothing changes since a whole baseline was taken, a scan reassures.
NoFalseAlarm ==
    [][Diff /\ settled = "set" => Reassures(status', findings')]_vars

\* Why: while nothing changes a walk reads what is on disk, the whole baseline it
\* took last is what is on disk under its roots, and that was within the budget.
InBudget(fs) == IsFiniteSet(fs) /\ Cardinality(fs) <= Budget

Reading ==
    /\ roots = field
    /\ missed = {} \/ todo = {}
    /\ \A f \in File :
           entries[f] = IF f \in Under(roots) \ (todo \cup missed) THEN disk[f] ELSE None

SettledBase ==
    /\ base.roots = field /\ Intact(base)
    /\ \A f \in File : base.files[f] = IF f \in Under(field) THEN disk[f] ELSE None
    /\ InBudget({f \in File : base.files[f] # None})

SettledInv ==
    settled # None =>
        /\ pc \in {"walk", "set", "verify", "scope", "diff"} => Reading
        /\ pc \in {"set", "verify", "scope", "diff"} => todo = {}
        /\ settled = "walk" => pc \in {"walk", "set"} /\ handler = "baseline"
        /\ settled = "set" =>
               /\ SettledBase
               /\ pc # "set" /\ (pc = "walk" => handler = "scan")
               /\ pc \in {"walk", "verify", "scope", "diff"} => missed = {}
               /\ pc \in {"scope", "diff"} => state
               /\ pc = "diff" => scope = "same"
=============================================================================
