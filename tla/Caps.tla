-------------------------------- MODULE Caps --------------------------------
(***************************************************************************)
(* The capability inspector (src/sys.rs, capabilities and processes): the  *)
(* open schemes of each process, from two dumps of the kernel that are     *)
(* read one after the other, sys:iostat and then sys:context.  Processes   *)
(* come and go in between, and a pid may be used again.  A dump that       *)
(* cannot be read counts as an empty one.                                  *)
(***************************************************************************)
EXTENDS Naturals, FiniteSets, SequencesExt

CONSTANTS Pid,        \* process ids
          Scheme,     \* names of schemes
          Leftover,   \* a path that names no scheme: empty, or digits only
          MaxFds,     \* most descriptors of a process
          MaxEvents,  \* bound for TLC: processes started, descriptors opened
          Nobody      \* no process, no dump, no scheme

Process == [born : Nat, open : SUBSET Scheme]

ASSUME CapsAssumption ==
    /\ IsFiniteSet(Pid)
    /\ MaxFds \in Nat /\ MaxEvents \in Nat
    /\ Leftover \notin Scheme
    /\ Nobody \notin Pid \cup Scheme \cup {Leftover} \cup Process \cup Seq(Scheme)

VARIABLES table,    \* the kernel's processes: when each was born, what it has open
          events,   \* how many there were, and the clock of births
          dump,     \* the iostat dump in hand, Nobody when there is none
          held,     \* history: the processes that dump tells of, with it
          shown     \* the list of schemes in the row of each process

vars == <<table, events, dump, held, shown>>

Running(t) == {p \in Pid : t[p] # Nobody}

\* No process at all: what a read that fails tells of (unwrap_or_default).
Nothing == [p \in Pid |-> Nobody]

-----------------------------------------------------------------------------
(* The iostat dump: a header for each process, then a line for each of its  *)
(* descriptors, in the order of their numbers; two may lead to one scheme.  *)
(* The kernel lists the processes in an order of its own.                   *)

Header(p) == [pid |-> p, path |-> Leftover]
Fd(path)  == [pid |-> Nobody, path |-> path]

Fds(S) == {s \in SeqOf(S \cup {Leftover}, MaxFds) : S \subseteq ToSet(s)}

Section(p, fds) == <<Header(p)>> \o [i \in DOMAIN fds |-> Fd(fds[i])]

Dump(order, fds) == FlattenSeq([i \in DOMAIN order |-> Section(order[i], fds[order[i]])])

Descriptors(t) == {f \in [Running(t) -> SeqOf(Scheme \cup {Leftover}, MaxFds)] :
                       \A p \in Running(t) : f[p] \in Fds(t[p].open)}

\* What reading iostat may return when the table is t.
Dumps(t) == UNION {{Dump(order, fds) : fds \in Descriptors(t)} :
                       order \in SetToSeqs(Running(t))}

-----------------------------------------------------------------------------
(* capabilities() *)

\* scheme_of: a tail that is empty, or of hexadecimal digits only, is a leftover of
\* the format; no scheme here has such a name.
SchemeOf(path) == IF path \in Scheme THEN path ELSE Nobody

\* Mutant of ReadLine: a header is taken for a line of the process before it.
ReadLineSticky(acc, line) ==
    IF line.pid # Nobody /\ acc.cur = Nobody THEN [acc EXCEPT !.cur = line.pid]
    ELSE IF acc.cur = Nobody \/ SchemeOf(line.path) = Nobody THEN acc
    ELSE [acc EXCEPT !.map[acc.cur] =
              IF line.path \in ToSet(@) THEN @ ELSE Append(@, line.path)]

ReadLine(acc, line) ==
    IF line.pid # Nobody THEN [acc EXCEPT !.cur = line.pid]
    ELSE IF acc.cur = Nobody \/ SchemeOf(line.path) = Nobody THEN acc
    ELSE [acc EXCEPT !.map[acc.cur] =
              IF line.path \in ToSet(@) THEN @ ELSE Append(@, line.path)]

\* A process without a line in the map has no schemes (unwrap_or_default).
Capabilities(d) ==
    LET read[i \in 0 .. Len(d)] ==
            IF i = 0 THEN [cur |-> Nobody, map |-> [p \in Pid |-> <<>>]]
                     ELSE ReadLine(read[i - 1], d[i])
    IN  read[Len(d)].map

-----------------------------------------------------------------------------
Init ==
    /\ table = Nothing
    /\ events = 0
    /\ dump = Nobody /\ held = Nobody
    /\ shown = Nothing

\* processes(), first read; the text is empty if it fails.
ReadIostat ==
    /\ dump = Nobody
    /\ held' \in {table, Nothing}
    /\ dump' \in Dumps(held')
    /\ UNCHANGED <<table, events, shown>>

\* processes(), second read: one row for each process that is there now, and none
\* if it fails.
ReadContext ==
    /\ dump # Nobody
    /\ \E listed \in {table, Nothing} :
           shown' = [p \in Pid |-> IF p \in Running(listed) THEN Capabilities(dump)[p]
                                                            ELSE Nobody]
    /\ dump' = Nobody /\ held' = Nobody
    /\ UNCHANGED <<table, events>>

Kernel == UNCHANGED <<dump, held, shown>>

Event == events < MaxEvents /\ events' = events + 1

Start(p) ==
    /\ table[p] = Nobody
    /\ \E S \in SUBSET Scheme : table' = [table EXCEPT ![p] = [born |-> events, open |-> S]]
    /\ Event
    /\ Kernel

Stop(p) ==
    /\ table[p] # Nobody
    /\ table' = [table EXCEPT ![p] = Nobody]
    /\ UNCHANGED events
    /\ Kernel

Open(p, s) ==
    /\ table[p] # Nobody
    /\ table' = [table EXCEPT ![p].open = @ \cup {s}]
    /\ Event
    /\ Kernel

Next == \/ ReadIostat \/ ReadContext
        \/ \E p \in Pid : Start(p) \/ Stop(p) \/ \E s \in Scheme : Open(p, s)

Spec == Init /\ [][Next]_vars

\* Strengthening, for the proof: the dump in hand is one of the table held.
Tables == [Pid -> Process \cup {Nobody}]

HeldIsDumped ==
    /\ table \in Tables /\ events \in Nat
    /\ dump # Nobody => held \in Tables /\ dump \in Dumps(held)

-----------------------------------------------------------------------------
\* A row lists exactly the schemes its own process had open when the list was
\* taken, each of them once, and none if it was not there yet or the list could not
\* be read; only a pid that was used again between the two dumps shows what its
\* predecessor had open.  Either every process has a row, or the listing could not
\* be read and none has (sys.rs:10-13, sys.rs:518-540, sys.rs:587-614).
OwnSchemes ==
    [][ReadContext =>
        LET rows == Running(shown') IN
        /\ rows \in {{}, Running(table)}
        /\ \A p \in rows :
               /\ IsInjective(shown'[p])
               /\ held[p] = Nobody => shown'[p] = <<>>
               /\ held[p] # Nobody /\ held[p].born = table[p].born
                      => ToSet(shown'[p]) = held[p].open]_vars
=============================================================================
