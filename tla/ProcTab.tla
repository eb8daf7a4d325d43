------------------------------ MODULE ProcTab ------------------------------
(***************************************************************************)
(* The process tab of the window (src/gui.rs, ui/control.slint) against a  *)
(* process table that changes on its own (src/sys.rs reads it).            *)
(*                                                                         *)
(* The event loop runs one handler at a time; the kernel never waits for   *)
(* it.  A refresh takes two snapshots of the table, one for the counter    *)
(* of the overview and one for the rows, so it is two steps; a read of     *)
(* sys:context that fails gives an empty listing (unwrap_or_default).      *)
(***************************************************************************)
EXTENDS Naturals, FiniteSets, SequencesExt

CONSTANTS Pid,       \* process ids; the kernel lists the table in their order
          Name,      \* application names, numbered in alphabetical order
          Mem,       \* private memory of a process, in bytes
          Needles,   \* filter texts: the <<pid, name>> pairs each one matches
          NoFilter,  \* the empty text
          Starts,    \* tables the window may find
          MaxChanges, MaxKills,    \* bounds for TLC
          None

Process == [name : Name, mem : Mem]

ASSUME ProcAssumption ==
    /\ IsFiniteSet(Pid) /\ IsFiniteSet(Name)
    /\ MaxChanges \in Nat /\ MaxKills \in Nat
    /\ None \notin Pid \cup Process
    /\ Pid \subseteq Nat /\ Name \subseteq Nat /\ Mem \subseteq Nat
    /\ NoFilter \in Needles /\ NoFilter = Pid \X Name
    /\ \A n \in Needles : n \subseteq NoFilter
    /\ Starts \subseteq [Pid -> {None} \cup Process]

VARIABLES
    procs,        \* the kernel's table
    changes,      \* how many processes were spawned, or grew, so far
    phase,        \* what the event loop is at: "idle", "count" or "rows"
    count,        \* process-count
    rows,         \* procs, the list on screen
    filter,       \* State.filter
    expanded,     \* State.expanded
    selected,     \* index into rows, 0 for -1
    confirmKill,  \* confirm-kill
    moved,        \* history: has the table changed since the counter's listing?
    unread,       \* history: did the last read of the table fail?
    armedAt,      \* history: the pid on show when the kill was armed
    stale,        \* history: has the list changed since?
    kills,        \* how many kills were confirmed
    prompt,       \* history: how many of them on a list that was not stale
    killed        \* history: the pid of the last of those

window  == <<rows, filter, expanded, selected, confirmKill>>
arming  == <<armedAt, stale>>
record  == <<kills, prompt, killed>>
vars    == <<procs, changes, phase, count, window, moved, unread, arming, record>>

Alive   == {p \in Pid : procs[p] # None}

-----------------------------------------------------------------------------
(* build_rows *)

Listed(needle) == {p \in Alive : <<p, procs[p].name>> \in needle}

Instances(S, n) == {p \in S : procs[p].name = n}

\* iter().sum()
SumOf(s) ==
    LET sum[i \in 0 .. Len(s)] == IF i = 0 THEN 0 ELSE sum[i - 1] + s[i]
    IN  sum[Len(s)]

Total(S) == LET s == SetToSeq(S) IN SumOf([i \in DOMAIN s |-> procs[s[i]].mem])

\* Memory descending; equal ones by name, or in the order of the listing.
Heavier(m1, k1, m2, k2) == m1 > m2 \/ (m1 = m2 /\ k1 < k2)

\* sort_by: the elements of S in that order.
ByMemory(S, mem) ==
    CHOOSE s \in [1 .. Cardinality(S) -> S] :
        \A i, j \in DOMAIN s : i < j => Heavier(mem[s[i]], s[i], mem[s[j]], s[j])

Leaf(p, in) ==
    [pid |-> p, name |-> procs[p].name, mem |-> procs[p].mem,
     group |-> FALSE, indent |-> in, size |-> 0]

Header(n, S) ==
    [pid |-> None, name |-> n, mem |-> Total(S),
     group |-> TRUE, indent |-> FALSE, size |-> Cardinality(S)]

\* Mutant of GroupRows: an application with a single process gets a header too.
GroupRowsAlways(n, S, open) ==
    LET leaves == ByMemory(S, [p \in S |-> procs[p].mem])
    IN  <<Header(n, S)>> \o
        (IF n \in open THEN [i \in DOMAIN leaves |-> Leaf(leaves[i], TRUE)] ELSE <<>>)

\* The rows of one application: a leaf if it has one process, otherwise a header
\* and, when expanded, its leaves.
GroupRows(n, S, open) ==
    LET leaves == ByMemory(S, [p \in S |-> procs[p].mem])
    IN  IF Cardinality(S) = 1
        THEN <<Leaf(leaves[1], FALSE)>>
        ELSE <<Header(n, S)>> \o
             (IF n \in open THEN [i \in DOMAIN leaves |-> Leaf(leaves[i], TRUE)] ELSE <<>>)

BuildRows(needle, open) ==
    LET S       == Listed(needle)
        names   == {procs[p].name : p \in S}
        entries == ByMemory(names, [n \in names |-> Total(Instances(S, n))])
    IN  FlattenSeq([i \in DOMAIN entries |->
                       GroupRows(entries[i], Instances(S, entries[i]), open)])

-----------------------------------------------------------------------------
Init ==
    /\ procs \in Starts
    /\ changes = 0
    /\ phase = "count"                   \* run() refreshes before it shows
    /\ count = 0
    /\ rows = <<>> /\ filter = NoFilter /\ expanded = {}
    /\ selected = 0 /\ confirmKill = FALSE
    /\ moved = FALSE /\ unread = FALSE /\ armedAt = None /\ stale = FALSE
    /\ kills = 0 /\ prompt = 0 /\ killed = None

\* Mutant of HasSel: a header counts as a selection.
HasSelAny == selected \in DOMAIN rows

\* A leaf is selected: the guard of the kill panel.
HasSel == selected \in DOMAIN rows /\ ~rows[selected].group

-----------------------------------------------------------------------------
(* refresh *)

\* Mutant of RefreshCount: applications are counted, not processes.
RefreshCountNames ==
    /\ phase = "count"
    /\ unread' \in BOOLEAN
    /\ count' = IF unread' THEN 0 ELSE Cardinality({procs[p].name : p \in Alive})
    /\ phase' = "rows"
    /\ UNCHANGED <<procs, changes, window, moved, arming, record>>

\* sys::overview: its own listing of the table, for the counter.
RefreshCount ==
    /\ phase = "count"
    /\ unread' \in BOOLEAN
    /\ count' = IF unread' THEN 0 ELSE Cardinality(Alive)
    /\ phase' = "rows"
    /\ UNCHANGED <<procs, changes, window, moved, arming, record>>

\* sys::processes and build_rows: another listing, for the rows.
RefreshRows ==
    /\ phase = "rows"
    /\ unread' \in BOOLEAN
    /\ rows' = IF unread' THEN <<>> ELSE BuildRows(filter, expanded)
    /\ stale' = (confirmKill /\ (stale \/ rows' # rows))
    /\ moved' = FALSE
    /\ phase' = "idle"
    /\ UNCHANGED <<procs, changes, count, filter, expanded, selected, confirmKill,
                   armedAt, record>>

-----------------------------------------------------------------------------
(* Handlers of the event loop; each one starts when it is idle. *)

Handler == phase = "idle" /\ UNCHANGED <<changes, count, rows, moved, unread>>

\* Nothing is armed any more.
Forget == armedAt' = None /\ stale' = FALSE

\* The 3 s timer.
TimerRefresh ==
    /\ Handler
    /\ phase' = "count"
    /\ UNCHANGED <<procs, filter, expanded, selected, confirmKill, arming, record>>

\* Mutant of Select: the confirm is left armed.
SelectStaysArmed(i) ==
    /\ Handler
    /\ i \in DOMAIN rows /\ ~rows[i].group
    /\ selected' = i
    /\ UNCHANGED <<procs, phase, filter, expanded, confirmKill, arming, record>>

\* A click on a leaf: on_select, then the confirm is disarmed.
Select(i) ==
    /\ Handler
    /\ i \in DOMAIN rows /\ ~rows[i].group
    /\ selected' = i
    /\ confirmKill' = FALSE
    /\ Forget
    /\ UNCHANGED <<procs, phase, filter, expanded, record>>

\* A click on a header: on_toggle.
Toggle(i) ==
    /\ Handler
    /\ i \in DOMAIN rows /\ rows[i].group
    /\ LET n == rows[i].name IN
       expanded' = IF n \in expanded THEN expanded \ {n} ELSE expanded \cup {n}
    /\ selected' = 0
    /\ confirmKill' = FALSE
    /\ phase' = "count"
    /\ Forget
    /\ UNCHANGED <<procs, filter, record>>

\* on_filter_changed: the selection goes, confirm-kill stays.
FilterChanged(needle) ==
    /\ Handler
    /\ filter' = needle
    /\ selected' = 0
    /\ phase' = "count"
    /\ UNCHANGED <<procs, expanded, confirmKill, arming, record>>

\* Step 1 of the confirm.
Arm ==
    /\ Handler
    /\ HasSel /\ ~confirmKill
    /\ confirmKill' = TRUE
    /\ armedAt' = rows[selected].pid
    /\ stale' = FALSE
    /\ UNCHANGED <<procs, phase, filter, expanded, selected, record>>

\* "Anuluj"
Cancel ==
    /\ Handler
    /\ HasSel /\ confirmKill
    /\ confirmKill' = FALSE
    /\ Forget
    /\ UNCHANGED <<procs, phase, filter, expanded, selected, record>>

\* Step 2: on_kill with the pid of the selected row, as it is now.  SIGKILL hits
\* whoever has the pid, or is refused; the confirm is disarmed when the refresh
\* returns, and no handler can run before.
ConfirmKill ==
    /\ Handler
    /\ HasSel /\ confirmKill
    /\ kills < MaxKills /\ kills' = kills + 1
    /\ LET pid == rows[selected].pid IN
       /\ procs' \in {procs, [procs EXCEPT ![pid] = None]}
       /\ IF stale THEN UNCHANGED <<prompt, killed>>
                   ELSE prompt' = prompt + 1 /\ killed' = pid
    /\ selected' = 0
    /\ confirmKill' = FALSE
    /\ Forget
    /\ phase' = "count"
    /\ UNCHANGED <<filter, expanded>>

-----------------------------------------------------------------------------
(* The kernel: processes come, go and grow, also while a handler runs. *)

Kernel ==
    /\ moved' = (phase = "rows")
    /\ UNCHANGED <<phase, count, window, unread, arming, record>>

Change == changes < MaxChanges /\ changes' = changes + 1

Exit(p) ==
    /\ p \in Alive
    /\ procs' = [procs EXCEPT ![p] = None]
    /\ UNCHANGED changes
    /\ Kernel

Spawn(p, n, m) ==
    /\ p \notin Alive
    /\ procs' = [procs EXCEPT ![p] = [name |-> n, mem |-> m]]
    /\ Change
    /\ Kernel

Grow(p, m) ==
    /\ p \in Alive
    /\ procs[p].mem # m
    /\ procs' = [procs EXCEPT ![p].mem = m]
    /\ Change
    /\ Kernel

-----------------------------------------------------------------------------
Next ==
    \/ RefreshCount \/ RefreshRows \/ TimerRefresh
    \/ \E i \in DOMAIN rows : Select(i) \/ Toggle(i)
    \/ \E needle \in Needles : FilterChanged(needle)
    \/ Arm \/ Cancel \/ ConfirmKill
    \/ \E p \in Pid : \/ Exit(p)
                      \/ \E m \in Mem : Grow(p, m) \/ \E n \in Name : Spawn(p, n, m)

Spec == Init /\ [][Next]_vars

-----------------------------------------------------------------------------
(* Properties. *)

\* Each listed process has one row, with its own memory, unless it is in a collapsed
\* group; the header of a group has the number of its processes and the sum of their
\* memory; nothing else has a row.
Accounted(R) ==
    LET S          == Listed(filter)
        With(P(_)) == Cardinality({i \in DOMAIN R : P(R[i])})
    IN  /\ \A p \in Pid :
               With(LAMBDA r : r.pid = p) =
                   IF p \in S /\ (\/ Cardinality(Instances(S, procs[p].name)) = 1
                                  \/ procs[p].name \in expanded)
                   THEN 1 ELSE 0
        /\ \A n \in Name :
               LET k == Cardinality(Instances(S, n)) IN
               /\ With(LAMBDA r : r.group /\ r.name = n) = IF k > 1 THEN 1 ELSE 0
               /\ \A i \in DOMAIN R : R[i].group /\ R[i].name = n
                      => R[i].size = k /\ R[i].mem = Total(Instances(S, n))
        /\ \A i \in DOMAIN R : ~R[i].group => R[i].mem = procs[R[i].pid].mem

\* The heaviest application is on top and, inside an expanded group, the
\* heaviest process; a leaf of a group stands below its own header.
Ranked(R) ==
    \A i, j \in DOMAIN R : i < j =>
        /\ ~R[i].indent /\ ~R[j].indent => R[i].mem >= R[j].mem
        /\ R[i].indent /\ R[j].indent /\ R[i].name = R[j].name => R[i].mem >= R[j].mem
        /\ R[j].indent /\ j = i + 1 => R[i].name = R[j].name

\* Every list put on screen is accounted for and ranked, whatever table the kernel
\* comes up with; one that could not be read is empty, and keeps nothing of the last
\* one (build_rows, gui.rs:67-144; sys.rs:123, sys.rs:520).
RowsAccount ==
    [][RefreshRows => IF unread' THEN rows' = <<>>
                                 ELSE Accounted(rows') /\ Ranked(rows')]_vars

\* Every variable keeps its type: what is armed, or killed, is always a process,
\* never the header of a group, however the row under the selected index changes
\* (control.slint:232-233).
TypeOK ==
    /\ procs \in [Pid -> {None} \cup Process]
    /\ changes \in 0 .. MaxChanges
    /\ phase \in {"idle", "count", "rows"}
    /\ count \in 0 .. Cardinality(Pid)
    /\ filter \in Needles /\ expanded \subseteq Name
    /\ selected \in 0 .. Cardinality(Pid) + Cardinality(Name)
    /\ confirmKill \in BOOLEAN /\ stale \in BOOLEAN
    /\ moved \in BOOLEAN /\ unread \in BOOLEAN
    /\ armedAt \in Pid \cup {None}
    /\ prompt \in 0 .. kills /\ kills \in 0 .. MaxKills
    /\ IF prompt = 0 THEN killed = None ELSE killed \in Pid

\* Why: what a list on screen offers to select is a process, and to toggle a name.
RowsKnown ==
    \A i \in DOMAIN rows :
        /\ i \in 1 .. Cardinality(Pid) + Cardinality(Name)
        /\ IF rows[i].group THEN rows[i].name \in Name ELSE rows[i].pid \in Pid

\* The process that is killed is the one that was on show when the kill was
\* armed, also when a refresh came in between: a two-step confirm
\* (control.slint:60), of an index that is stale once the list changes
\* (gui.rs:263-264).
KilledIsArmed == [][ConfirmKill => rows[selected].pid = armedAt]_vars

\* How many processes a row stands for.
Counts(row) == IF row.group THEN row.size ELSE IF row.indent THEN 0 ELSE 1

\* The counter of the overview is the length of the unfiltered list, counted
\* through the headers of collapsed groups, as the self-test demands of the two
\* listings (selftest.rs:247-254): they disagree only if the table changed between
\* them, or one of the two could not be read.
CountAgrees ==
    [][RefreshRows /\ filter = NoFilter /\ ~moved /\ ~unread /\ ~unread' =>
           count = SumOf([i \in DOMAIN rows' |-> Counts(rows'[i])])]_vars

\* Why: until the table moves, a counter that was read is that of the processes
\* there are.
CountKnown == phase = "rows" /\ ~moved /\ ~unread => count = Cardinality(Alive)

\* As long as the list does not change under it, an armed kill keeps the promise
\* of a two-step confirm: no sequence of clicks, toggles and filter edits moves
\* it to another row, or runs it twice (gui.rs:244-297, control.slint:178-185).
\* A list that changed counts as a disarm, and a kill on it as none.
Confirm == INSTANCE TwoStep WITH
    Target   <- Pid,
    armed    <- IF confirmKill /\ HasSel /\ ~stale THEN rows[selected].pid ELSE None,
    executed <- killed,
    count    <- prompt

ConfirmsInTwoSteps == Confirm!Spec
=============================================================================
