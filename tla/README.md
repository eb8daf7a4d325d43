# A verification project for eos-control

`eos-control` is the control panel of E-OS: a Slint window, and two small
programs that it starts to do what needs root (`eos-netcfg`, `eos-power`).  This
directory holds TLA+ modules that model it, TLC configurations that check them
on small instances, and TLAPS proofs for all instances.  `PROJECT.json` lists
the runs, the mutants, the lines each definition stands for, and the hazards.

    tlc -workers 2 -config NetCfg.cfg MC_NetCfg            # a run
    tlapm NetCfgProofs.tla                                 # a proof

## 1. Inventory

### The parts and their state

| Part | Source | State | Operations |
|---|---|---|---|
| `eos-netcfg` | `src/netcfg.rs` | none of its own: it changes the live stack (`netcfg:` scheme) and the files of `/etc/net` | `static`, `dhcp`, `boot` |
| network helpers | `src/netcore.rs` | none | netmask and prefix conversions, mode, validators, list parsers |
| Network tab | `src/gui.rs`, `src/sys.rs`, `ui/control.slint` | edit form, mode segment, `net-confirm`, password, status line; a worker thread per apply | select mode, edit, arm, cancel, apply, timer refresh |
| Power tab and `eos-power` | `src/gui.rs`, `src/sys.rs`, `src/power.rs`, `src/elevate.rs` | two confirms, password, status; `sys:kstop` | arm, cancel, confirm, the handshake with `/scheme/sudo` |
| Processes tab | `src/gui.rs`, `src/sys.rs` | rows, selected index, `confirm-kill`, `State.filter`, `State.expanded` | filter, toggle, select, arm, kill, timer refresh |
| Overview tab | `src/sys.rs` | tiles | refresh |
| Capability inspector | `src/sys.rs` | none | pid to open schemes |
| Storage tab, sizes | `src/sys.rs` | tiles | `storage_from`, `parse_bytes`, `fmt_bytes` |
| Sound tab | `src/sys.rs`, `src/gui.rs`, `ui/control.slint` | `State.audio_premute`, the tile; audiod's level | set volume, toggle mute, timer refresh |
| Security tab | `src/gui.rs`, `src/security/mod.rs`, `src/paths.rs` | a handle on the baseline database, the roots field, the findings | set baseline, scan, the line at start-up |
| Self-test, labels, entry point, packaging | `src/selftest.rs`, `src/labels.rs`, `src/main.rs`, ... | none | |

### How they interact

- **Calls on the event loop.**  The window runs one handler at a time, and a 3 s
  timer that refreshes every tab.  Reboot, shutdown and kill run *on* the loop
  and block it; an apply of the network tab runs on a thread of its own and
  reports through `upgrade_in_event_loop`.
- **Processes and pipes.**  An apply spawns `eos-netcfg`, a power action
  `eos-power`; the password goes down their stdin and is read to its end, and
  their exit status is all that comes back.
- **Shared state.**  Every `eos-netcfg` (of an apply, of the boot) and the boot
  service `10_dhcpd.service` share the live stack and the files, with no lock.
- **Files across a reboot.**  The live stack is lost, the files are kept and the
  boot restores from them; the GUI can read *only* the files.
- **The kernel.**  The process table changes at any time, also inside one
  refresh, which reads it in several dumps.
- **audiod.**  Its master volume belongs to every program; it may be absent.
- **The baseline database.**  eos-guard keeps its baseline in the same file, so
  that it may change between any two reads of one scan.

### What is hard, and what makes each part correct

- `eos-netcfg`: six or more writes per apply, each of which can fail or be the
  last before a crash; other processes write in between.  Correct means: nothing
  is persisted that was not live; the files show what is live; exit 0 means
  applied; a failed apply does not blank the address; one default route; a static
  address survives a reboot; the boot does not hang.
- netmask conversions: shifts by 0 and by the whole width; masks with holes.
- Network tab: two sets of checks, written apart, must agree on every form; what
  is applied is what was armed; no password is left behind; outcomes come back in
  any order, and none of them is lost.
- Power tab: a privileged write at the end of a handshake of five steps; a pipe
  that two programs could wait on for ever, on the event loop.
- Processes tab: a selected *index* into a list that a timer replaces; a confirm
  that must mean the process it was armed for; rows that turn into headers.
- The window and its shims: six writes and more, any of which may fail, end as one
  of two sentences, which must both be true.
- Capability inspector: two dumps of a table that changes in between; a row must
  show its own schemes and nobody else's.
- Sizes: order and meaning of a rounded text across a change of unit; products at
  the end of a word.
- Sound tab: a mute is a read, a memory and a write, in a window whose label may
  be three seconds old.  Correct means: unmute restores what mute silenced, the
  button does what it says, the tab follows audiod.
- Security tab: one answer out of four reads of a database that others write, a
  disk that changes under the walk, a budget that cuts it short and a field that
  is edited between scans.  Correct means: "nothing to see" is true; nothing is
  called removed that was not looked for; nothing is skipped in silence; and an
  unchanged machine raises no alarm.
- Every read of the kernel's tables may fail, and the code then goes on with an empty
  text (`unwrap_or_default`): half of what a tab shows may be there and half not.

`PROJECT.json` lists each of these hazards at its line.

## 2. The modules

| Module | Models | Checked by | Proved in |
|---|---|---|---|
| `Netmask` | `prefix_to_netmask`, `netmask_to_prefix` | `MC_ReadCore` | `NetCfgProofs`, `ReadCoreProofs` |
| `Sizes` | `parse_bytes`, `fmt_bytes`, `storage_from`, the percentage | `MC_ReadCore` | `ReadCoreProofs` |
| `ReadCore` (extends `Netmask`, `Sizes`) | what both promise of one mask or size | `MC_ReadCore` | `ReadCoreProofs` |
| `Caps` | `processes`, `capabilities`, `scheme_of` and the kernel between the dumps | `MC_ReadCore` | `ReadCoreProofs` |
| `NetCfg` (extends `Netmask`) | every `eos-netcfg` and dhcpd of one machine, across boots | `MC_NetCfg` | `NetCfgProofs` |
| `TwoStep` | what a two-step confirm promises (abstract) | refined by the three tabs | |
| `NetTab` | form, confirm, workers, argv and its parse | `MC_NetTab` | `NetSystemProofs` |
| `NetSystem` (extends `NetTab`, instantiates `NetCfg`) | the tab with the processes it starts | `MC_NetSystem` | `NetSystemProofs` |
| `PowerTab` | clicks, blocking handler, pipe, shim, handshake | `MC_PowerTab` | `PowerTabProofs` |
| `ProcTab` | list, selection, kill, kernel | `MC_ProcTab` | `ProcTabProofs` |
| `Sound` | slider, mute button, timer, audiod | `MC_Sound` | `SoundProofs` |
| `Security` | start-up line, baseline, scan, the engine as it is used | `MC_Security` | `SecurityProofs` |
| `DataTheorems` | nothing: lemmas about numbers, recursion and sequences | | itself |

A module of proofs extends the module it is about; `NetSystem` extends `NetTab`, so
the proofs about `NetTab` stand in `NetSystemProofs`, before the ones that use them.

### Netmask

A mask is a function from bit positions `1 .. Width` to Booleans, first bit
first.  `PrefixToNetmask` is the shift of all ones that the code writes
(`u32::MAX << (32 - p)`, with its cases for 0 and above 32), `NetmaskToPrefix`
counts leading ones and refuses a mask with a one behind a zero.  `Width` is a
constant, 32 in the code.  Dotted-decimal text is not spelled out.

### Sizes and Caps

`Sizes`: a printed size is a number of tenths and a unit.  The code divides floats
by powers of 1024, which is exact below 2^53, so what it prints is the quotient
rounded to a tenth (`RoundHalfEven`); a cast to `u64` saturates.  The number of
bytes in a kilobyte and the largest word are constants.

`Caps`: a dump of `sys:iostat` is a sequence of lines, each the header of a process or
the path of a descriptor.  `ReadLine` is one turn of the loop of `capabilities`,
`Capabilities` the loop, as a recursive function of the number of lines.  `ReadIostat`
and `ReadContext` are the two reads of `processes`; the kernel lists the processes in
any order (`Dumps`) and acts in between.  Each of the two reads may fail, which the code
takes for an empty dump (`unwrap_or_default`): that is the dump of the table `Nothing`.
A pid carries the time of its birth, so that a recycled one can be told from the same.

### NetCfg

Actors are the shims (one per apply), `Boot` (`eos-netcfg boot`) and `Service`
(the boot-time dhcpd).  An actor's `pc` is the statement it is about to run,
`job` the configuration it has in hand.

| Code | Actions |
|---|---|
| `elevate::to_root` | `Elevate` |
| `apply_static`: `write_mode`, `set_addr`, `set_default_route`, `set_resolver`, `write_files` | `Truncate`/`Store` (mode), `SetAddr`, `RemoveDefault`, `AddDefault`, `SetResolver`, `Truncate`/`Store` |
| `apply_dhcp`: `write_mode`, `route/rm`, dhcpd, `mirror_scheme_to_files` | `Truncate`/`Store`, `RemoveDefault`, `LeaseGranted` or `LeaseRefused`, `DhcpdAddr`, `DhcpdRoute`, `DhcpdDns`, `MirrorAddr`, `MirrorRoute`, `MirrorDns`, `Truncate`/`Store` |
| `boot`, static: `files_to_scheme` | `BootStart`, `BootIp`, `BootSubnet`, `SetAddr`, `BootRouter`, `RemoveDefault`, `AddDefault`, `BootDns`, `SetResolver` |
| `boot`, dhcp: `wait_for_address`, the mirror | `BootStart`, `WaitSees` or `WaitExpires`, the mirror |
| an error at any of these | `SchemeFault`, `ReadFault`, `FileFault` |
| the machine | `Reboot`, at any point |

`fs::write` truncates and then writes, so a file takes two steps and a crash
between them leaves it empty.  A file that is absent, empty or truncated reads
the same to this code and is `None`.  A sequence of statements is encoded in the
`After...` operators, which say where a process goes next and which fields it
skips.  Each has the mutants that leave a statement out.

`smolnetd` and `dhcpd` are not in the repository.  They are modelled from how
`netcfg.rs` uses them and what its comments say: `addr/set` replaces,
`route/add` does not de-duplicate (`routes` is a sequence, in which the same gateway may
stand twice; `Gateways` is the set of them), `route/rm 0.0.0.0/0` removes the default
routes, and dhcpd sets the address, then the route, then the name server, or
exits with an error after its timeout.  The order of dhcpd's three writes is an
assumption of the model.  Two processes that write one file at the same time are
modelled as whole stores, the last one of which wins.

History variables: `seen` is everything that was ever live (or in the first
image), `base` is the files when the last apply started, `pinned` what a finished
static apply had put on the stack when the machine went down.

### TwoStep and the three tabs

`TwoStep` is the abstract specification: a target is armed, then executed at most
once or disarmed, and what is executed is what was armed.  `NetTab`, `PowerTab`
and `ProcTab` each instantiate it with a refinement mapping: the armed target is
the mode on show while `net-confirm` is set, the armed button, the pid in the
selected row; an execution is the apply, the return of the power handler, the kill.

`NetTab`: texts are classes (empty, address or something else, with or without
spaces around it; empty with spaces is a blank field, non-empty before the trim), which
is all the checks tell apart.  `StaticArgv` and
`StaticChecks` are `sys::apply_static`; `ParseArgs` is what `eos-netcfg` makes
of the same argv.  A worker's checks see only its own copies, so their verdict
is taken in the step that spawns it.  `RunShim` ends well or badly; what happens
in between is `NetCfg`.  The history variable `reported` has the applies whose outcome
was put on the status line: that the line leaves "busy" would not do, since the first of
two outcomes does that for both.

`PowerTab`: the handler is four steps (`SpawnShim`, `WritePassword`,
`CloseStdin`, `WaitShim`) during which no click is handled; the shim is six, one
for each call that can fail.  `WaitFails` leaves a shim running alone.

`ProcTab`: `BuildRows` is the grouping, ranking and filter of `build_rows`, whose two
sorts are one operator, `ByMemory`: *the* sequence of the elements of a set in which
the heavier stands first, and of two that are as heavy the one listed first.  A
refresh is two steps because `sys::overview` and `sys::processes` list the
table one after the other, and the kernel ends, starts and grows processes at
any time.  Either listing may fail, which the code takes for an empty one: the counter
is then 0, the list has no row.  History variables: `moved`, whether the table changed
between the two listings, `unread`, whether the last listing failed, and `stale`,
whether the list changed under an armed kill.  A list that
changed counts as a disarm in the two-step confirm; that the code does not treat
it so is the run `proctab_stale`.

### NetSystem

`NetTab` lets a shim end well or badly in one step, and assumes that it ends.
`NetSystem` takes the workers of `NetTab` and puts the shims of `NetCfg` in the
place of that step: `StartShim` launches the process with the configuration that
`parse_args` makes of the argv (`JobOf`), `Runs` is any step of any process,
`Authentic` ties the elevation to the password that the worker wrote on the pipe
(`stdin`), and `Waits` turns the exit status into the outcome.  `WaitFails` is the wait
that returns an error: the worker reports a failure and the shim goes on, which the
history variable `left` remembers.  `asked` remembers the last
confirm: mode, form, password, the stack and files at that moment, and whether
anything else was reconfiguring (`calm`).  There is no reboot: the window would
not survive it, and what a reboot leaves is the subject of `NetCfg`.

### Sound

A handler is a read, a write and a refresh of the tile, each a step of its own,
because the level belongs to audiod and anyone may set it in between.  `Toggle`
is the branch of `on_toggle_mute` on the level just read; `ReadGarbled`,
`RefreshGarbled` and `WriteFails` are its calls going wrong, errors that the code
drops.  `quiet` remembers how long nobody disturbed the window, `silenced` what
the last mute silenced.

### Security

A scan is five steps on the event loop: `CountFiles`, the walk (one `Visit` per
file, or `CutOff` at the budget), `Verify`, `AskScope`, `Diff`; a baseline is
the walk and `SetBaseline`.  eos-guard (`GuardSets`), other programs
(`ChangeDisk`) and whatever alters the database out of band (`Damage`,
`DamageRoots`) act between any two of them, and each call may fail.  The engine,
`eos_fsintegrity`, is not in the repository: its operators (`Under`, `Intact`,
`OutOfScope`, `Findings`, `ScopeNote`) are what `gui.rs` and `selftest.rs` rely
on, and `SecurityCore` states, over these operators, the answers that the
self-test demands of the engine; `MC_Security` assumes it, so TLC
evaluates it.  That the digest covers the files and not the recorded roots is from
the README of the repository.  The audit of permissions (rows "warn") judges one
entry by itself and is left out, so "nothing to see" is about integrity only.

## 3. The runs

| Run | Question and answer |
|---|---|
| `readcore` | Do the netmask conversions agree with the textbook meaning of a contiguous mask, does a printed size read back and keep its order, does storage add up at the end of a word, are schemes shown under their own process while processes come and go and dumps cannot be read?  Yes. |
| `netcfg` | With applies that wait for one another, one failed call and a crash at any step: are the files well-formed, and was what they hold live, does exit 0 mean applied, does a failure leave the address files alone, does everything end?  And until a call fails: do files show what is live, is there one default route, does a static address survive?  Yes. |
| `proctab` | While processes come, go and grow, and listings fail: has the list each process exactly once, do the headers have the number and the memory of their group, are the rows ranked, does the counter agree unless the table changed between the two listings or one of them failed, is only a process ever killed, is the kill a two-step confirm while the list stands still?  Yes. |
| `nettab` | Every form, two applies that overlap: does the shim parse what the GUI accepts, is the password forgotten, does the outcome of *each* apply reach the status line, is the confirm two-step?  Yes. |
| `netsystem` | With the real process behind the worker, and the boot beside it: does "applied" mean in force, on the live stack and in all five files; does "failed" mean that the address files, and with a wrong password everything, are as before; was what the files hold live; is what `nettab` assumes of a shim true, its end included?  Yes, except that a worker whose wait fails says "failed" of a shim that goes on. |
| `powertab` | Two requests, any step failing: does the machine stop only on a confirmed request with the right password, does "ok" mean it stops, does the window always answer?  Yes. |
| `sound` | With others moving the level, audiod going down and up, garbled answers and failed writes: does unmute restore what mute silenced, does the button do what it says, does the tab catch up?  Yes. |
| `security` | With the guard, the disk and the database changing between the reads: is a scan without row or warning true, does a narrowed field condemn nothing outside of it, is no file skipped in silence, is an unchanged machine quiet?  Yes. |

Four runs show where the code does other than its comments say:

| Run | What TLC shows |
|---|---|
| `netcfg_bootrace` | `SurvivesReboot` fails: the boot service's lease arrives after `files_to_scheme` and replaces the static address. |
| `netcfg_dnsrace` | `LeasedDnsReachesFiles` fails: the boot mirrors at the first sight of an address, before dhcpd has written the name server (or gives up at 20 s of dhcpd's 30). |
| `proctab_stale` | `KilledIsArmed` fails: a timer refresh between arming and confirming puts another process under the selected index. |
| `security_cutoff` | `RemovedWasLookedFor` fails: a walk that stops at its budget never looked for the rest of the baseline, and `diff`, which is not told, lists it as removed. |

### What the properties except, and why

- `LiveIsVisible`, `AtMostOneDefaultRoute` and `SurvivesReboot` say `faults = 0`:
  the result of `route/rm` is ignored, and after an error the files and the stack
  are what the calls before it left.  `LiveIsVisible` asks that what is live is in
  the files, not the converse: `write_files` skips a router or name server that
  the configuration does not set, so an older one may stay.
- `AtMostOneDefaultRoute` also needs applies that do not overlap and no lease
  from the boot service: with either, TLC finds two default routes.
- `CountAgrees` says `~moved` and `~unread`: the two listings of a refresh disagree when
  a process starts or ends between them, or when one of them cannot be read, and so would
  the self-test.  `RowsAccount` says of a list that could not be read that it is empty.
- `OwnSchemes` excepts a pid that was used again between the two dumps: its row
  shows the schemes of its predecessor.  When the first dump cannot be read every row is
  empty, when the second cannot there is no row.
- `OkIsInForce` and `FailIsHarmless` say `calm`: two applies that overlap
  overwrite each other, and then neither sentence is about the machine.
- `OkIsInForce` asks for mode, address, netmask, gateway and name server in the files
  (`FilesAsAsked`, and in automatic mode `FilesAsLive`) while `faults = 0`: `write_files`
  goes on after an error, and the exit status is 0 all the same.  Of the live
  stack it asks everything whatever fails, but of the gateway then only that it is one of
  the default routes, since a `route/rm` that fails leaves the old one.
- `FailIsHarmless` excepts a worker whose wait failed: its shim may yet succeed, and then
  what was confirmed is in force although the window says "failed".
- `UnmuteRestores` and `ButtonKeepsWord` except a level that somebody else moved,
  and a failed call, in between.
- `QuietIsTrue` excepts damage to the database done after `verify_baseline`
  answered.  `RemovedIsInScope` is the part of "a file the scan never looked for is not a
  file that was removed" that the code keeps: of the roots.  Of the budget it does not,
  which is the run `security_cutoff`.

### Bounds, and why they are enough

- `NetCfg`: two values each of `Ip`, `Gateway` and `Dns`: enough for "the old one"
  and "the new one"; no action compares more than two.  One lease has everything,
  one no name server, one no router; one request sets everything, one leaves
  gateway and name server unchanged.  Words of 2 bits: prefixes 0, 1, 2 and the
  mask `01`, the smallest with a hole.
- `MaxApplies = 2` in `netcfg`: each mode follows the other.  `MaxBoots = 2`
  allows a crash during the boot that follows a reboot.  `MaxFaults = 1`.
- In `netcfg` nothing overlaps with an apply: most of its properties ask for that.  In
  `netsystem` an apply overlaps with a boot, for `FilesWereLive`.  More shims are left to
  the theorem about `LiveBeforeFiles`, which has no bound.
- `readcore` looks at one subject at a time, because they share nothing: every
  mask of 8 bits; every size from 0 to a word of 600 with 4 bytes to a kilobyte, so that
  all four units and both ends of each occur, and file systems that overflow the
  word (blocks of 0, 1, 3, 4 and 512 bytes, of which 512 nearly fills it); two processes
  with two schemes, two descriptors each, and three births or descriptors opened, which is
  a pid that dies and is used again.
- `proctab`: three pids, two names, two sizes: a group of two or three beside a
  process alone, of equal and of different weight.  Exits have no bound, births
  and growth one, kills two; after the first of them processes still end, but none starts
  or grows (`ChangesEnd`).
- `nettab`: each field empty, blank, an address with a space or something else, the
  prefix 32, 33 or nothing that parses (other numbers are left to the theorem); two
  applies, the second while the first is in flight.  After the first apply the form and
  the interface stay as they are (`FormStands`): the workers have copies of their own.
  `powertab`: two requests.
- `netsystem`: one apply of either mode and of every form, beside a boot in static mode
  that may be at any step, with two failed calls, so that one of the boot does not spare
  the apply.  Automatic mode is asked for with the form as it was prefilled
  (`FormOfStatic`), since nothing of the form goes into it.  Two applies that overlap take
  TLC too long; for any number of them there are the theorems `ShimsRefineNetTab`,
  `AppliedIsTrue` and `FailedIsHarmless`.  After its last apply the window is left alone.
  Neither of these bounds, nor `FormStands`, keeps a fair action from being taken.
- `sound`: levels 0 to 3, of which 2 stands for the 50 of the code; three moves by
  others, which undo and redo a mute, and two failures.
- `security`: three files under two nested roots, as in the self-test, and a
  budget of two, which three files exceed and two do not; two clicks or edits
  (baseline and scan), two changes by others, one failed call.  A start with a
  database in which a baseline of any roots was set stands for the clicks before.

Deadlock checking is off where the system stops: `NetCfg` and `NetSystem` (all
applies are spent, and everything has ended), `PowerTab` (the machine goes down),
`Security` (all clicks are spent), `MC_ReadCore` (the last size).

### Fairness

Nothing is assumed of the user, of the kernel's process table, of other programs,
or of errors.

- `NetCfg`: weak fairness of `Progress(a)` for each actor.  A started process is
  scheduled; dhcpd has a timeout of its own, and `wait_for_address` a deadline.
  Every actor's progress is a single action, so fairness does not choose between
  a lease granted and refused.
- `NetTab`: weak fairness of each worker and of the delivery of posted closures:
  threads run, and so does the event loop.
- `NetSystem`: the same of the delivery, of a worker's report and of its start of
  a process, and of each process.  That a shim ends is not assumed: it is part of
  what `ImplementsWindow` shows.
- `PowerTab`: weak fairness of the handler and of each shim.  `WaitFails` is not
  fair: the window must answer without it.
- `Sound`: weak fairness of the loop: a handler runs to its end and the 3 s timer
  keeps firing.  `TabCatchesUp` is about a level that stays; the moves of others
  and the failures are bounded, so they cease.

## 4. The proofs

| Theorem | For every | Property |
|---|---|---|
| `NetCfgProofs!RoundTrip` | width and prefix | the written mask reads as the prefix |
| `ReadCoreProofs!MasksConvert` | width, mask and prefix | `ConversionsAgree` |
| `ReadCoreProofs!PrintedSizesAreTrue` | word, kilobyte and size | `SizesReadBack` |
| `ReadCoreProofs!StorageConsistent` | word, set of block sizes and block counts | `StorageAddsUp` |
| `ReadCoreProofs!SchemesAreOwn` | table, order of a dump, descriptors, events between the dumps and reads that fail | `OwnSchemes` |
| `NetCfgProofs!TypeCorrect`, `FilesWereLive` | number of shims, requests, leases, crashes and errors | `TypeOK`, `LiveBeforeFiles` |
| `NetCfgProofs!FailureIsHarmless`, `SuccessIsInForce` | the same, under `Serial` | `FailKeepsFiles`, `OkMeansApplied` |
| `NetCfgProofs!OneDefaultRoute`, `FilesShowLive`, `RebootRestores` | the same, under `Undisturbed` | `AtMostOneDefaultRoute`, `LiveIsVisible`, `SurvivesReboot` |
| `NetSystemProofs!TypeCorrect`, `ShimAccepts`, `PasswordForgotten`, `TwoStepConfirm` | form, range of numbers and number of applies | `TypeOK`, `ArgvParses`, `PasswordIsForgotten`, `ConfirmsInTwoSteps` |
| `NetSystemProofs!ShimsRefineNetTab` | number of applies that overlap with one another and with a boot, and number of errors | the composition implements `NetTab!Spec` |
| `NetSystemProofs!AppliedIsTrue`, `FailedIsHarmless` | the same | `OkIsInForce`, `FailIsHarmless` |
| `PowerTabProofs!TypeCorrect`, `OnlyConfirmedStops`, `AnswerIsTrue`, `PasswordForgotten`, `TwoStepConfirm` | number of requests and set of wrong passwords | `TypeOK`, `StopIsConfirmed`, `OkMeansStopping`, `PasswordIsForgotten`, `ConfirmsInTwoSteps` |
| `ProcTabProofs!TypeCorrect`, `RowsComplete`, `CounterAgrees`, `TwoStepConfirm` | table, filter, number of changes and kills, and listings that fail | `TypeOK`, `RowsAccount`, `CountAgrees`, `ConfirmsInTwoSteps` |
| `SoundProofs!TypeCorrect`, `MuteRoundTrip`, `WordIsKept` | range of levels, garbled answers, number of moves and failures | `TypeOK`, `UnmuteRestores`, `ButtonKeepsWord` |
| `SecurityProofs!TypeCorrect`, `QuietScan`, `NothingSkipped`, `ScanReassures` | files, roots, budget, writers and failures | `TypeOK`, `QuietIsTrue`, `EveryFileAccounted`, `NoFalseAlarm` |

`Serial` (`~Overlap`) says that an apply starts only when nothing else is at work;
`Undisturbed` says also that the boot service gets no lease.  They are hypotheses
because the code has no lock.  With two shims that overlap, TLC finds each of the five
properties violated (`FailKeepsFiles` because its `base` is then not recorded); with a
lease at boot it finds the last three violated, and the run `netcfg_bootrace` is one
of those traces.

The assumptions are those the modules name (`ActorAssumption`, `NoneAssumption`,
`ConfigAssumption`, `NetTabAssumption`, `NetSystemAssumption`, `PowerAssumption`,
`ProcAssumption`, `CapsAssumption`, `SizesAssumption`, `BlocksAssumption`,
`SoundAssumption`,
`SecurityAssumption`, `WidthAssumption`, `PrefixAssumption`): the actors differ, `None`
is not a value, the sets of inputs are of the right kind, and the sets of pids and of
names finite (a list of infinitely many rows has no order by weight).  TLC evaluates
them on every run.  Several of the parts about `None` were found by the proofs: nothing
else says that "no action", "no click" or "no prefix" differs from every action, click
and prefix, which in the code the type `Option` does.

Each invariant below that strengthens another stands in the module of its component,
and was checked by TLC on the instances of section 3 before it was proved.

### eos-netcfg

**TypeOK of NetCfg** is inductive because it includes `JobReady`: at each program
counter, the fields that are about to be written are there.  Without it nothing
excludes an absent address at `SetAddr`.

**LiveBeforeFiles** is not inductive: a step that stores a file must know that
what is in hand was live.  `FilesInv` adds `LiveSeen` (what is live now has been
recorded as live) and `CarriedSeen` (what a process carries towards the files was
read from the live stack, or set there by this process).  The proof has one step
for each action; the interesting ones are the mirror, where the value read is live
*at that moment*, and a static apply that passes `SetAddr`, `AddDefault` and
`SetResolver` on its way to the files.

**FailKeepsFiles** and **OkMeansApplied** need `SerialInv`: a shim at work, or whose
outcome is on show, is the only process at work (`Alone`), so that what it wrote
stays (`InForce`), and up to its first file write an error leaves the files alone
(`Untouched`).

**AtMostOneDefaultRoute** needs `RouteInv`: until a call fails, `OneAtATime` (only
one process is at work, and the boot service has no lease) and `NoRouteYet` (from
the rm to the add there is no default route).  `routes` is a sequence, so it also says
that a gateway applied again does not stand twice.

**LiveIsVisible** speaks of a quiet moment, and most of the time it is not one.
`VisibleInv` says what holds in between: each piece of the live stack is in the files
unless a shim is on its way to write it (`AddrDue`, `RouteDue`, `DnsDue`), in which
case that shim has in hand what is live (`DueKnown`); and a boot has read from the
files what it is about to set (`BootInv`).

**SurvivesReboot** needs `PinnedInv`: from the reboot on no shim runs, the files say
what was live before (`Restorable`, which `LiveIsVisible` gives at the moment of the
crash), and at each label of the boot the pieces before it are back (`Restored`).
A crash during that boot starts it again from the same files.

### The tabs

**ArgvParses** rests on `ArgvAccepted`: if the checks of the GUI pass, the argv
they lead to parses.  The induction carries it together with `TypeOK`.

**ConfirmsInTwoSteps** of the network and the power tab: the mapping is the one of
section 2, and each step is a step of `TwoStep` or leaves what is armed and what was
executed alone.  For the power tab the execution is the *return* of the handler, four
steps after the click; that the same button is still armed then is part of its `TypeOK`.

**StopIsConfirmed** needs `PipeInv` (a shim past the daemon has read the right
password, and what it read is what was typed for *this* request, or nothing) and
`WriterInv` (while the handler still has the pipe, the shim waits at its stdin,
so the text cannot change behind its back).  **OkMeansStopping** needs `AnswerInv`:
a shim that runs has an action, and ends well only after it wrote the word.

**UnmuteRestores** needs `MuteInv`: while a mute lasts the level is 0 and the
remembered one is what it silenced (`WhileMuted`), and a toggle about to write
that nobody disturbed since it read knows the level as it is (`KnowsLevel`).
**ButtonKeepsWord** needs `WordInv`: undisturbed, the tile shows what audiod has
until the click, and the handler carries what the label promised from there on.

### The window and its shims

**ShimsRefineNetTab**: the variables of `NetTab` are variables of `NetSystem`, so the
mapping is the identity, and each step is to be a step of `NetTab` or a stutter.
A step of a process is a stutter unless it ends a shim that a worker waits for, in
which case it must be `RunShim` of that worker: the outcome is "ok" or "fail", and
"ok" only with argv that parse and the right password.  `ShimInv` says so: a shim at
work has a worker that waits, argv that parsed and, past the elevation, the right
password.  `OneProcessMoves` is the lemma about `NetCfg` that it rests on: a
step moves one process, and never back to its elevation.

**OkIsInForce** and **FailIsHarmless** need `CalmInv`, which follows one apply from
its confirm to the status line: its worker, then its process, then the message that is
posted, is the only thing at work (`OnlyLast`, `Told`); it carries what was confirmed
(`Carries`: the argv that the form gives are parsed back into the configuration that
was typed); nothing is touched without the right password, nor an address file
before the step from which there is no way to a failure (`HandsOff`); and at each label
of the process, what the labels before it should have put in force is (`Reached`), on the
live stack (`ReachedStatic`, `ReachedDhcp`) and, until a call fails, in the files
(`FiledStatic`, `LeaseInHand`, `FiledDhcp`).  A worker whose wait failed leaves a shim
that is still the only process at work, so the same holds of it, without a worker.
`FilesMove`, `StaticMove` and `DhcpMove` are the lemmas about one step of a process.

### The security tab

**QuietIsTrue** needs `VerifiedInv`: the digest in the database is that of an
approved baseline or missing, and what `verify_baseline` found intact equals the
approved files until it is damaged.  A quiet scan has no finding and nothing out
of scope, so what it read equals the baseline, which equals what was approved.

**EveryFileAccounted** needs no invariant, because `Diff` judges by the roots of its own
walk: with any entries, baseline and roots in hand, an absent file is under these roots or
out of their scope, in which case it has no row but
a note, and a walk that missed anything says that it was cut short.  **NoFalseAlarm**
needs `SettledInv`: while nothing changes, what was read is what is on disk (`Reading`),
the baseline is what is on disk under its roots, and it was within the budget
(`SettledBase`, `InBudget`), so that a walk of the same files is not cut short: the walk
visits no more files than the baseline has, by cardinality.

### The process tab

All four theorems rest on what `build_rows` returns for *any* table and filter, which
is a sequence made by sorting and concatenating, over a CHOOSE and three recursions.
The argument has three parts:

- *The sort.*  `ByMemorySorts`: a finite set of listed things has a sequence in that
  order, and only sequences with each element once.  It exists because each element
  has a rank, one more than the number of those before it: ranks differ, so by
  cardinality they are all the numbers up to the size of the set.
- *The sums.*  `SumIs`: a recursive function of the code's loop is any running sum
  (`RecurrenceExists` provides one, so the CHOOSE inside has a value).
- *The concatenation.*  `LayoutExists`: each row of the list is one row of one group,
  each row of each group is in the list, in the order of the groups, and the row
  before an inner row is of the same group.

With them `BuiltAccounted`, `BuiltRanked` and `BuiltCounts` say of every list what
**RowsAccount** and **CountAgrees** ask of it, and `BuiltKnown` its type.

**TypeOK** is not inductive: that what is killed is a process and no header, whatever
the selected index has come to point at, needs `RowsKnown` (each row on screen is the
header of a known name or has a known pid, and there are no more rows than pids and
names). **CountAgrees** needs `CountKnown`, which spans the two listings of a refresh:
until the table moves, a counter that was read is the number of processes there are.
**ConfirmsInTwoSteps** needs `RowsKnown` again: each action leaves what is on show
armed, disarms it or executes it, and a change of the list under an armed kill is a
disarm.

### Masks and sizes

`LeadingOnesAreFirst` says that the bits counted by `leading_ones` are exactly the first
ones of the mask: they are a set that has, with a number, all those below it, so by
`InitialSegment` an interval.  It needs the first zero, which `LeastElement` (a
non-empty set of naturals has a least element, from the well-foundedness of `<`)
provides.  With it **ConversionsAgree** is: a mask is contiguous exactly when it is its
own leading ones (`ContiguousIsPrefix`).  **SizesReadBack** follows from three facts:
rounding is within a half (`RoundNear`) and keeps order (`RoundMonotone`), and at a
change of unit the smaller unit prints at most `K`, which is where the next one starts
(`UnitType`, `Multipliers`); cutting off the fraction of a byte keeps order.

### The inspector

**OwnSchemes** needs `HeldIsDumped`: the dump in hand is one that the kernel may have
written of the table that was there then (of no table, if the read failed), whatever it
does now.  The rest is about that
dump alone.  `DumpTells`: each of its lines belongs to a process of that table, is its
header or stands below a line of the same, and leads to a scheme this one has open;
and every open scheme has a line (from `LayoutExists`, a section for each process).
`LinesAccounted` is the invariant of the loop: `cur` is the process of the last line, and
the list of each process is, without repetition, what its lines so far led to.

### Facts about data

`DataTheorems` has what the three kinds of data above share.  `Upwards` (a set of numbers
with 0, and with each number the next, has them all up to n) takes the place of an
induction theorem: the set is a term, no operator is needed.  `RecurrenceExists` follows
from it, and gives the recursive functions of the models their value.

### Only model-checked

- Liveness (`Terminates`, `WindowAnswers`, `ApplyReported`, `TabCatchesUp`, the
  fairness part of `ImplementsWindow`) and anything about ENABLED: out of the
  reach of the prover.
- `RemovedIsInScope`: its proof would be the definition of `Diff` again.
- `FilesWereLive`: `LiveBeforeFiles` of `NetCfg`, with the window.  As a step of a process
  in `NetSystem` is one of `NetCfg`, the theorem of that name is the reason it holds.

Every other property of a passing run is a theorem.

## 5. What is not modelled, and the plan

Not modelled, for good: `labels.rs` (a table), `main.rs` (chooses between window
and self-test), packaging, formatting and wording of every tab, the host variants
(for development on another system), and the inside of the integrity engine of
the Security tab, a crate whose source is not in the repository.  The self-test is
a sequential list of assertions over the other parts: `SecurityCore`, `CountAgrees`,
`AddsUp` and `TypeOK` of `Sound` take up what it asserts of them; `kill_core`
starts and kills a throwaway child, and `net_core` runs pure functions.  Of the
Overview tab only the counter is modelled; the other tiles are read and shown.
A scheme whose name is made of hexadecimal digits only, which `scheme_of` would
take for a leftover, is left out of `Caps`, as there is none.

Done: the live stack and the files (`NetCfg`), the abstract confirm (`TwoStep`),
`PowerTab`, `NetTab`, `ProcTab`, `Sound`, `Sizes`, `Caps`, `Security`, and the
composition `NetSystem`, each safety property of a passing run but one proved.  What
could follow:

1. The list of resources in the header of a group (the union of those of its processes)
   beside its sum, which would join `Caps` and `ProcTab`.
2. A kill of a pid that was used again since the list was made (a hazard without
   a property: `ProcTab` tells processes apart by their pid alone).
