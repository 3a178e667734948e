# Formal models of unige

TLA+ specifications of programs in this repository, with TLC configurations
that check them on small instances and TLAPS proofs of theorems about them for
every instance. The repository is a collection of independent programs written
between 1993 and 1998; they share no code, so each is modelled on its own.

## Inventory

The components, the largest core logic first. "Hard" is what tests of the
program would hardly reach; it is what the properties are for. `PROJECT.json`
lists every hazard at its line.

| component | state | operations and interactions | hard |
|---|---|---|---|
| **xvmount** (`syst1/dB_xvmount_97`) | three clists (`mtab`, `fstab`, `full_fstab`), two scrolling lists, four buttons, `threads_running`, `xmount_terminated`, four mutexes, forked processes and pipes | main starts a core thread, which polls `/etc/mtab` and rebuilds lists and window, and an interface thread, which runs the XView notifier; callbacks fork `mount`/`umount`; their end is a notifier callback | three threads and asynchronous processes on shared lists; a mutex locked in one callback and unlocked in another; lock order; fork or `stat` failing; a killed process; the end of the program |
| **ada quicksort** (`ada/quick_sort.adb`) | `LIST`, a stack of segments, locals of P tasks | tasks `SORT` take and give segments through `RESSOURCE`; `WATCHDOG` decides the end | unprotected `LIST`, termination detection, a bounded stack |
| **ada stack** (`ada/stackhandler.*`) | an array and `PTR` | PUSH, POP, EMPTY, FULL | limits; silent refusal |
| ada, other packages | - | complex numbers, gcd, random numbers, tests | real arithmetic; little state |
| **pluf strings** (`pluf/cstring.*`) | counted, shared buffers; a pointer per variable | constructors, assignments, edits | sharing and copy-on-write, the order of freeing and reading, static variables at the end |
| **pluf filter** (`pluf/cfilter.*`, `cproc.*`, `cfield.*`) | a tree of fields, each with the values read so far; `CurPos`; a count of errors | `DefineFields` reads the input syntax into fields, `FillFields` reads the input into them record by record, `CProcessor` prints each record | positions that jump, loops that take nothing, sizes, values of the last record, uninitialized flags, one count of errors for all three |
| pluf vectors and lists | growing arrays, lists | add, delete, sort | reallocation |
| **xtools** (`XREP`, `XC`) | the disk, the current directory, the path of the recursion, statistics, `.XRP` backups | XREP rewrites the files of a tree; XC compares two trees; both run at one prompt on one disk | stops between two file operations, a full disk, a directory searched while it changes, paths shared by a recursion |
| **asd/pcc, ecoulement** | a height map, a queue of cells | shortest path, flow of water | the limits of the queue, ties, optimality |
| asd, tree viewer, scheme, exams | trees; pure functions | editing and drawing of trees; exercises | little state |
| **syst1 tp12** | a trie of words | insertion, completion | sharing of prefixes, end of words |
| **syst1 tp10, tp11** | pipes, child processes | fork, pipe, a distributed shell | descriptors, order of closes, dead children |
| **syst1 assembler** | registers, 16-bit words, interrupt vectors | number input/output, maze, resident handler | overflow, reentrancy |
| zipit, elpds | - | archive names, charts | mostly dialogue and drawing |
| genielog, prolog, ia, atoii, electro | - | practicals | mostly declarative |
| smalltalk, telematique, ffbeta, slmra | - | generated code, documents, binaries | not modelled |

What makes each modelled component correct:

- **xvmount**: the lists are not rebuilt while a mount started from them runs; no
  freed list is read; the window is filled after it is built; inactive buttons
  coincide with a mount; a user only mounts what fstab lets users mount; what a
  process prints is read until it ends; threads signal the end only after the window's;
  a bad pointer is read only because of what others did to the tab files; a click is answered.
- **quicksort**: tasks work on disjoint segments inside `LIST`; whatever is out of
  order lies inside an outstanding segment; the result printed is sorted; it ends.
- **stack**: last in, first out, including at its limits.
- **strings**: a buffer is deleted only when no variable points to it; a call has the
  effect on its variable that it would have on a text of its own, and none on another
  that shares its buffer; nothing leaks without a cause.
- **filter**: a name stands for the fields between it and its comma; a value is the
  piece of the record it was read from; a sized field takes its size; the filter ends.
- **XREP, XC**: whatever stops them and whatever was run before, the text of a file is
  in the file or its backup, unless he was asked or the replacements were too many to count;
  a run rewrites each file once; the statistics of XC are those of the trees; XC brings the
  user back to his directory; both end.

## Plan

1. *(done)* `Clist`, `XvMountState`, `XvMount`, its abstract specification
   `MountSession`, its type and safety proofs; `BoundedStack` and `StackHandler`
   with the proof of the refinement; `QuickSort` with its proofs; pluf's strings (`CString`, a
   refinement of values by shared buffers, with its proof).
2. *(done)* `XRep`, `XComp` and their composition `DosSession` on one disk (`DosDisk`);
   the pluf filter: `PlufReaders`, `PlufProcessor`, `PlufFilter`.
3. Proofs. *(done)* the row, fork and crash properties of `XvMount`; types, `ComesHome`,
   `EscapeRestores`, `NothingLostUnwarned` and `OneRunDoesAll` of `DosSession`; `RoomLeft` of
   `QuickSort`; `FieldsAreSpans`, `ValueIsItsText` and `TakesItsSize` of `PlufFilter`.
4. After that, if the project grows: pluf's vectors and lists; PCC/ECOUL (breadth-first
   search against a reference distance); the trie of tp12; tp10 and dsh (pipes and
   processes); TIO (16-bit input) and TP6 (reentrancy); TREEVIEW. Their hazards are
   those of single functions; the stateful and concurrent programs come first.

## Modules

| module | what it is |
|---|---|
| `Clist` | vlist.c as operators: records, aliases, the moderated parse, the order of searches. A tab file is a set of numbered lines; `list_add` inserts at the head, so "first" is the highest number. |
| `XvMountState` | constants, assumptions, variables and helpers of the xvmount model |
| `XvMount` | the actions, the specification, the properties |
| `MountSession` | abstract: rebuilds and mounts take turns, and the view does not change during a mount |
| `MCXvMount` | the partitions and tab files of the runs |
| `XvMountProofs` | theorems about XvMount: types, threads, locks and lists; rows, forks and crashes |
| `BoundedStack` | abstract: a stack as a bounded sequence |
| `StackHandler`, `StackHandlerProofs` | the array of stackhandler.adb, and the proof that it implements `BoundedStack` |
| `QuickSort`, `MCQuickSort` | quick_sort.adb on top of `BoundedStack` |
| `QuickSortProofs` | theorems about QuickSort |
| `CStringText` | what the operations of cstring.cpp make of a text |
| `CStringValues` | abstract: each variable owns a text; what each call makes of the texts of its arguments |
| `CString`, `MCCString` | cstring.cpp's counted, shared buffers, and the texts of the run |
| `CStringProofs` | theorems about CString |
| `DosDisk` | the file services of DOS that the two tools call: slots of a directory, findfirst and findnext, fopen, a write that a full disk cuts |
| `XRep`, `XComp` | XREP.CPP and XC.CPP as state machines on that disk |
| `DosSession`, `MCDosSession` | the prompt: one command after the other on one disk; the disks and command lines of the run |
| `DosDiskProofs` | lemmas about the disk's operators and about folds over finite sets |
| `DosSessionProofs` | theorems about XREP and XC on one disk |
| `DosRunProofs` | theorems about one run of XREP and one run of XC over a tree |
| `PlufReaders` | what each kind of elementary field takes from the input (ReadChar, ReadString, ReadInteger, SkipElement) |
| `PlufProcessor` | what the output syntax makes of the values of one record (CProcessor) |
| `PlufFilter`, `MCPlufFilter` | CFilter: input syntax to fields, input to records, errors; the syntaxes and inputs of the run |
| `PlufFilterProofs` | theorems about the filter |

Some definitions are not part of any `Next` (in the older modules under a heading of
their own, in `DosDisk`, `XRep`, `XComp`, `PlufReaders` and `PlufFilter` just before the
definition they vary, with a comment that begins "A ..."): each is an action or an
operator with a plausible slip. Put in the place of the action it is named after, it makes TLC
refute a property, which shows that the property constrains that code.

### xvmount: state and actions

`pc` holds the place of each thread, named after what it does next. One action is
the code of a thread from one point where others can interfere to the next:

| thread | actions | code |
|---|---|---|
| main | `StartCore`, `StartUi`, `CondWait`, `SpuriousReturn`, `MainExit` | init_core, main |
| core | `ChewFull`, then `ConstructLock`, `ConstructParse`, `ConstructStat`/`ConstructStatFails`, `ConstructLockInterface`, `ClearLists`, `FillMtab`, `FillFstab` or `FillNull`; `CoreLoop`, `OrganizeSame`/`OrganizeChanged`/`OrganizeStatFails`, `OrganizeLock`; `CoreFree`/`FreeNull`; `ChewMalformed` at each parse of fstab | maintain_core, mtab_construct (twice: from the start and from mtab_organize, told apart by `caller`), mtab_organize |
| interface | `BuildInterface`; `Select`, `Command`, `ReadString`/`ReadStringNull`, `SessionLock`, `DispatchPath`/`DispatchAlias`/`DispatchNull`/`NotFound`, `Fork`/`ForkFails`; `RootCommand`; `ChildExited`, `ChildSignalled`; `FrameEvent`, `Destroy`, `DestroyFlag`, `Leave` | maintain_interface and the notifier's callbacks, one at a time |
| environment | `ChildWrites`, `ChildExits`, `ChildKilled`, `OtherUser`, `MtabVanishes`, `MtabReturns` | mount(8), umount(8), other users |

A mutex is its owner or `"free"`. `construct_flag_mutex` is recursive: core takes
it in mtab_organize and again in list_get_device, so only its outermost lock and
unlock appear. Unlocking another thread's recursive mutex (`NotFound`) frees it or
fails, a nondeterministic choice. `decmutex`, a critical section that touches only
`threads_running`, is one step, and so is list_get_alias under its lock. The clear
and the fill of each scrolling list are steps of their own: the interface thread
runs callbacks between them. `crashed` and the end of main stop every thread.

Three things are switched on by constants. `SpuriousReturns`: pthread_cond_wait, called once and
without a test of `threads_running`, may return without a signal (`SpuriousReturn`), and main exits.
`FstabTrouble`: `"unopened"` lets fopen of `/etc/fstab` fail at any of its three reads, so that a list
is NULL and is read by whoever uses it first (`FillNull`, `DispatchNull`, `FreeNull`); `"malformed"` lets a parse meet a
line with too few fields, whose missing words are read through NULL (`ChewMalformed`). `MtabMayVanish` lets `/etc/mtab` be
absent for a while. A half-written `/etc/mtab` is not modelled: its writers replace the file or append a line.
`RootCommand` picks a device and a mount point among those of the tab files; root's
panel accepts any text, which would add only mounts that fail.

### quicksort and stack

Each access of a task `SORT` to `LIST` is a step, but for the exchange (quick_sort.adb:69-77),
one step: both places are in the task's own segment, which no other task reads
(`SegmentsDisjoint`). An Ada OUT parameter that the body does not set is undefined when the
call returns, so POP on an empty stack gives any value (`POPPED`); the quicksort
tests EMPTY first. A rendezvous is one step: between
the two pushes of POSER and the two pops of PRENDRE, the only other reader of the
stack, `WATCHDOG`'s test of EMPTY, sees what it sees before or after.
`ByPriority` says whether the priorities of the tasks hold back WATCHDOG: with one
processor, and no task waiting for its PUT, it runs when no SORT task can.

### strings

`ics` is the pointer of each variable, `refs` and `str` the count and the text of each
buffer; a step is one call, since the program is sequential. A variable exists when it
points to something. `EmptyICS` is the static buffer of empty texts (a null `str`
in the code), never deleted; other buffers may hold an empty text too, and the
operations that tell the two apart (`+=` of a string, append_backslash) do so here. A
buffer without count can be allocated again, whoever still points to it: that is
what makes a missing count visible. The operations follow the code's order of UnReg,
reading and allocation; they differ in what they do when the argument is the variable
itself or shares its buffer. Static variables of other files may be constructed before `EmptyICS`
(cfilter.cpp:13-22) and `EmptyICS`'s constructor then forgets their Reg: `Init` starts from any set of
variables that point to `EmptyICS` uncounted, so its count may become negative. Nothing is deleted by it,
since UnReg never deletes `EmptyICS`; `CountsHandles` claims nothing of it.

`CStringValues` has one action per call with the text that call gives, computed from the texts its
arguments had. `call`, the name and the arguments of the last call, is history in both modules: it ties each
call of `CString` to the action of the same name, so that a call with another call's effect is refuted.
One call depends on its arguments' being the same variable: `w.Copy(a, n, w)` empties `w`
(cstring.cpp:417-421), and `CopyTo` says so. `Recoding` is the relation of StrF and of the
conversions of URLs and passwords, whose characters do not matter here. After
`DestroyEmptyICS`, the end of the program, only destructors run.

Preconditions kept from the code: positions within the text (StrDelete, StrInsert,
operator[]), and no call whose `const char *` argument points into the variable's own
buffer.

### XREP and XC

A disk is a list of slots per directory, which findfirst and findnext search in order;
fopen takes the first free slot and remove frees one, so that a backup made during a
search may come up later in the same search, as on a FAT disk. A file's text is a short
sequence of symbols; `NL`, `NUL` and `EOFCHAR` are those XREP treats apart. A wildcard is
the set of names it matches.

A step of XREP is the code between two points where Escape, Ctrl-Break or a disk error can
come: finding and opening a file, the question about the backup, writing the backup,
truncating the file, one line, the end of a file, restoring it, entering and leaving a
directory. `frames` is the stack of process_dir, with the place of the search and whether
the shared path ends in a backslash (chdir fails on such a path, but for the root).
`Interrupt` leaves what is written so far, or any prefix of it: buffers may be lost.
A step of XC is an entry of a directory, a key at a pause, or a return of scandir; `trail` is
the stack of scandir and `logged` the global `_logged`, with the value each level puts back.

Peculiarities of the code that are in the model because they decide what happens: fgetc's
EOF is written as a byte 0xFF at the end of every file; an empty file stops XREP by a
division by zero (percentage_upgrade); a line longer than the buffer is cut in two, and a
string across the cut is not found; each pair replaces its first occurrence in a line; a
comment of the container repeats the pair before it, a line without `|`, a blank one too, takes
the line after it for its replacement, an unfinished last line is lost; `local_replacement` is an int
that wraps (`AsInt`; `MaxInt` is 32767 in the program); any key but Q overwrites a backup; `*.*` flags XREP's own
backups; XC looks only for files of the source; a hidden directory is compared as a file;
a difference is counted before the pause at it, a missing file after; a source that cannot
be opened is compared and in no other count; make_names2 prints the target's directory while it is in it
(`XcBreakNaming`). The counters of XC are numbers here, ints of up to 32767 files in the code.

### The pluf filter

The input syntax is a sequence of tokens (an elementary field, a name with =, a comma, a bar,
something wrong), the output syntax a sequence of items (a character, a variable, an
operator, a text of a comparison, `\;`). `leaves` are the elementary fields in the order they are read, `named` the
named fields as intervals of them: a field's tree is read and filled from left to right only.

| actions | code |
|---|---|
| `ReadStaleField`, `ReadNamedField`, `ReadBar`, `ReadComma`, `SyntaxError`, `EndOfFormat` | DefineFields, with the recursion of ReadNamedField as the stack `open` |
| `FillField` | FillField on one elementary field, the loop of FillFields around it |
| `ParseOutput` | one item of the output syntax: Parse and Express of CProcessor, as the operator `ReadItem` |
| `PrintRecord` | the end of Process and the record printed; FillFields goes on |

Uninitialized memory is a choice: the copy constructor of CField leaves `Skipper`, so any
elementary field may turn out to be skipped; the constructor of a named field leaves `Tag`, so
`Recursive` may refuse any syntax as infinite, and `Elementary`, the kind of a named field
without parts. StrDelete beyond a value's end takes characters from memory (`UNKNOWN`).
An operator that cannot be applied is printed as it stands, and so are those after it; its
characters are not in the model, one `RAW` stands for them.
The texts of a comparison are sequences of items themselves (`Operand`), read with their errors whether or
not the case holds; equality ignores case and fails on an empty text (`Same`, isEqual). An unclosed
parenthesis there sends the reading back, or forward, to the position that equals the number of open parentheses
(`from`). Names of fields stand for all their spellings, since the code compares them without case.
All Bailing calls count in one `Errors`, whose sixth ends the program in the middle of a
record. The message "Unsatisfied parenthesis" of ReadString cannot occur: Rec is never negative
(finding 9).

## Runs

All runs except `stack` set `CHECK_DEADLOCK FALSE`: xvmount, the quicksort and the
program that uses strings end, the DOS session and the filter end, and xvmount's failures can leave every thread blocked.

| run | instance | shows |
|---|---|---|
| `xvmount_user` | ordinary user; `/dos`, a CD-ROM of type auto, `/home` (not for users); two forks, one outside change; fork may fail, a child may be killed, `/etc/mtab` may vanish, `/etc/fstab` may be unopened or malformed, main's wait may return without a signal | type correctness; `RebuildExcludesMount`, `ListsOutliveReaders`, `WindowBuiltBeforeFill`, `ButtonsFollowMount`, `OutputHeard`, `SignalMeansLeaving`, `CrashNeedsChange`, `NoRowTwice`, `ForksOnlyUserTargets`; `TurnsTaken`: XvMount implements MountSession |
| `xvmount_live` | one partition without alias, two forks, no failures, spurious returns, fair | `ClickAnswered`, `ExitEnds`, `CoreGetsLocks` |
| `xvmount_root` | root, a mounted CD-ROM behind its alias, two forks at once, a child may be killed, `/etc/fstab` may be unopened | `ReadersOnlySwapped`: how far one `pipe_io` for two processes confuses their readers |
| `xvmount_deadlock` | a CD-ROM with its alias, one fork, fair | **violated** `ClickAnswered`: deadlock by lock order |
| `xvmount_wrong_unlock` | fstab with a CD-ROM of type auto | **violated** `ButtonsMeanFree`: the wrong mutex is unlocked |
| `stack` | three cells, three values | `LastInFirstOut` |
| `quick_sort` | lists of 4 numbers out of 3 values, two tasks, N = 8, by priority, fair | `SegmentsDisjoint`, `ScansInRange`, `OrderedElsewhere`, `RoomLeft`, `PrintsSorted`, `Ends` |
| `quick_sort_any_order` | the same without the priorities | **violated** `PrintsSorted`: EMPTY is not the end |
| `cstring` | three variables, any of them constructed before EmptyICS, two buffers and EmptyICS, eight texts, counts up to 3 | type correctness, `CountsHandles`, `LeaksOnlyBySharedAssignment`; `ValueSemantics`: CString implements CStringValues, call by call |
| `xtools_session` | six disks of five directories: a copied tree with a gap in a directory, a backup name shared by two files, an old backup with a binary and a read-only file, empty files, hidden entries, a full disk; any of 21 command lines and then XREP again or XC; Escape, Ctrl-Break and disk errors everywhere | types and the disk's room; `NothingLostUnwarned`, `EscapeRestores`, `OneRunDoesAll`, `XcCountsTheTrees`, `ComesHome`, `XcFindsWhatXrepDid`, `CommandsEnd` |
| `xrep_untouched` | the same disks, one XREP command | **violated** `OnlyReplacementsChange`: a file without the strings is rewritten too |
| `pluf_filter` | 13 input syntaxes (several of them wrong), 8 inputs, 10 output syntaxes that use every operator, missing texts and unclosed parentheses, one or both syntaxes given | `FieldsAreSpans`, `ValueIsItsText`, `TakesItsSize`, `Finishes` |

Bounds, and why they are enough. Two forks let a second click meet the first's
process, its late exit and its pipe. One outside change is what a rebuild needs to
meet a click; the processes' own writes add two more. The file's time advances or
stays at each write, so a write within the second of a stat occurs. Three
partitions give a plain row, a row behind an alias (found and not found) and one an
ordinary user must not see. Lists of four numbers have segments of one, two and more
elements, equal elements, and two tasks partitioning at once. `RoomLeft` needs
N >= 2 M (the program has M = 10, N = 100); with M = 4 and N = 6 tasks do wait for
room. Three variables are two that share a buffer and a third to operate with; two
buffers let one be freed and taken again while the other is shared. Texts of at most
two characters have a blank, a letter of each case, an underscore or a slash at
either end; a call whose result is longer is not made. `MaxRefs` bounds only the
count of an assignment between sharing variables, which would go up for ever.
Variables and buffers are symmetric: no action and no property names one. The run's VIEW leaves out
the last call and the count of EmptyICS: no guard and no value of a later step depends on them, and every
step is still checked against the call that makes it.

For XREP and XC: two files and a subdirectory let the walk return from a recursion and go
on; a line buffer of four symbols is overrun by a line of six; an int of at most 2 is exceeded by a file with three replacements; a room of 26 symbols holds
every tree with its backups but one; two commands are what XC needs to look at what XREP
left, and a second XREP to overwrite the backups of the first. For the filter: three levels of
named fields, a comma too many, records that end in the middle of a syntax, records of
another shape than the syntax, more than six errors, unclosed parentheses in the input and in
the output syntax, one that leads back before its variable and one that leads forward; the inputs have
up to nine characters, so there are up to nine records. The text of `ReadInteger` and
`ReadString` is checked for all positions of those inputs.

Fairness. XREP and XC: the started program goes on and a user who is asked answers at last;
nothing is owed by Escape, Ctrl-Break or the disk. The filter: the program goes on. xvmount: weak fairness of main, of core, and of what the interface thread
does on its own (threads of a preemptive scheduler), and of the exit of each forked
process; a user who clicks, closes or moves the window, and other users, owe
nothing. No mutex is assumed to be fair: `CoreGetsLocks` holds because the forks, and
so the clicks, are bounded. `xvmount_live` excludes the failures that defeat the
properties and that the findings and hazards name: aliases (the deadlock), a killed
process (buttons stay inactive), a vanished `/etc/mtab` (core ends), an unreadable `/etc/fstab` (a crash).
A spurious return ends the program, which is allowed: a click is answered or the program has ended. `ExitEnds` is
conditional on main having reached pthread_cond_wait before the count can become
zero: without a predicate around the wait the signal can be lost. Quicksort: weak
fairness of each task.

## Findings

1. **Deadlock of click and rebuild.** mount_unmount_xview locks `mount_flag_mutex`
   and, for an alias, `construct_flag_mutex`; mtab_organize and mtab_construct lock
   them in the opposite order.
2. **Wrong mutex unlocked** at vcommon.c:167 when an alias is not in fstab.
3. **WATCHDOG stops too early**: quick_sort.adb:106 takes an empty stack for the end
   of the sort, which only the priorities on one processor justify.
4. **XREP changes files without replacing anything**: the EOF that fgetc returns is
   stored in the last line and written (XREP.CPP:607), so each text file of the tree is a byte
   longer after each run, and the backup is removed when nothing was replaced.

Further disagreements are in the models without a run of their own; the properties name them as
their exceptions:

5. **The end under the user**: vcore.c:146 has init_core wait for "threads_running <-
   threads_running_condition <- 0", but pthread_cond_wait (vcore.c:173) is called without a predicate, so a
   return without a signal, which POSIX allows, ends the program while both threads run
   (`SpuriousReturn`). `SignalMeansLeaving` is therefore about the signal, not about the end.
6. **XREP loses a text it has too often replaced in**: XREP.CPP:189 promises a backup "in case of
   replacements". `local_replacement` is a 16-bit int; past 32767 it is negative, and the test of
   XREP.CPP:672 removes the backup with the original (`wrapped`; `NothingLostUnwarned` is about the sessions without it).
7. **A number of XC is not what is printed next to it**: "file(s) not found or not opened" (XC.CPP:239,
   :685) leaves out the sources that cannot be opened (XC.CPP:296), such as a hidden directory, which XC takes for
   a file. `XcCountsTheTrees` says what the numbers are, not what their words say.
8. **Ctrl-Break leaves the user in the target** while make_names2 prints it (XC.CPP:612), before
   the directories to come back to are set and before "pop the old directory" (XC.CPP:613). `XcBreakNaming` is
   that stop, which `ComesHome` excepts.
9. **An unclosed parenthesis is never reported** ("Unsatisfied parenthesis ')'", cfilter.cpp:130) and has the filter
   read its input, or its output syntax, again and again (cfilter.cpp:123). `Finishes` excepts both.
10. **Records are printed in spite of errors** (cfilter.cpp:386), where pluf.html:155-157 says that results are
    generated only when the steps before ended without any (`ParseOutput` and `PrintRecord` have no such guard).
11. **The manual's example does not name what it says**: by pluf.html:110-119,
    `nomcomplet=prenom=%s,%c: ,nom=%s%n;` gives `nomcomplet` the whole "Bill Gates". The comma after `%c: `
    closes it (cfilter.cpp:311), so it is "Bill " only, and `nom` is a field beside it. `FieldsAreSpans` states the
    code's rule, not the manual's.
12. **Months are one off**: `~m` gives JAN for 1 by pluf.html:170, but Months[1] is FEB and 12 gives JAN (`Month`).

`TakesItsSize` states an exception too: an integer field of n zeros takes the digits that follow
(cfilter.cpp:174). `Finishes` also excepts syntaxes that take nothing.

## Proofs

All are checked by TLAPS for every value of the constants that the named assumptions
allow (`EntryAssumption`, `XvMountAssumption`, `StackAssumption`, `QuickSortAssumption`,
`CStringAssumption`, `DosAssumption`, `XrepAssumption`, `SessionAssumption`, `TreeAssumption`,
`FilterAssumption`).

- `TypeCorrect` (XvMountProofs): `Spec => []TypeOK`, one step per action.
- `SignalsComeLate`: the inductive invariant (`StartInv`, `CountInv`) counts the
  decrements of `threads_running` that remain. A core thread that is not past its
  last decrement and an interface thread that is not past its first keep the count
  above zero, so no signal is sent. `SignalMeansLeaving` is not inductive by
  itself: it says nothing of the count. It is about the signal only: what a return
  without one does is finding 5.
- `WindowFirst` (`WindowInv`): who may own `interface_done` at each stage of the start.
- `ReadersMeetLiveLists` (`ListInv`): the state of each list at each place of core, and
  that core reaches its frees only after the interface thread is leaving, or has ended
  in a failed fork.
- For an ordinary user (`~IsRoot`): `RebuildWaits`, `ButtonsTell`, `EveryOutputHeard` and
  `SessionsTakeTurns`. Their invariant (`MountInv`, `CoreInv`, `UserInv`) ties the owner of
  `mount_flag_mutex` to the places of both threads and to the processes: at most one
  process is not waited for, it is the last forked, the interface thread holds the
  mutex for it, and the readers registered are those of the processes not seen to exit. `SessionsTakeTurns` is the refinement: the initial states of XvMount are
  initial states of MountSession and every step maps to a step of it or a stutter, with
  `mount_flag_mutex` as `holder` and `rows` as `view`.
- `ArrayIsStack` (StackHandlerProofs): every PUSH and POP on the array does to the sequence
  of its elements what BoundedStack says, whatever the undefined OUT parameter holds after a
  POP that finds nothing. The mapping reads the cells above `PTR`
  from N downwards.
- `QuickSortTypeOK`, `SegmentsStayDisjoint`, `ScansStayInRange`, `OrderedElsewhereAlways`,
  `PrintsSortedNumbers` (QuickSortProofs), for every list, every number of tasks, any
  interleaving and every *even* capacity (`EvenCapacity`): the bounds of a segment are
  pushed one by one and a stack of odd capacity could take one of the two; the program
  has N = 100. The inductive invariant `SortInv` adds to the segments' disjointness and
  order where each task is in its partition (`TaskInv`: what it passed is on its side of
  `MEDIUM`, and something ahead stops each scan); without it neither the scans nor the
  two parts given back could be judged. A step of one task keeps the others' `TaskInv`
  because it changes `LIST` only inside its own segment. `PrintsSortedNumbers` also
  assumes `ByPriority`: then WATCHDOG prints only when every task waits for a segment
  and the stack is empty, so nothing is outstanding and `OrderedElsewhere` is the whole
  order; the run `quick_sort_any_order` shows that the assumption is needed.
  `SameNumbers` is kept by each exchange, through the bijection that swaps the two places.
- `NoTaskWaitsForRoom` (QuickSortProofs), for every even capacity of at least 2 M (the
  program has 100 for lists of 10). A task gives back parts of no element too, so the number of
  segments waiting is not bounded by disjointness alone. `RoomInv` gives each waiting segment,
  empty or not, an element of `LIST` of its own, outside every other waiting segment and
  every held one (`CellInv`). A task that parts its segment finds the elements for both parts:
  `PassedInv` says that each scan has left an element on its side, or the middle element
  stays between the parts; what it has not given away yet between the two pushes is `mine`.
  Before a push an element is thus free, so at most M - 1 segments wait.
- `CStringTypes`, `PointersCounted`, `LeaksHaveOneCause` and `SharingDoesNotShow`
  (CStringProofs): the inductive invariant is `TypeOK`, `CountsHandles` and "EmptyICS is
  empty". The counts of `CountsHandles` are those of the buffers; that of EmptyICS is off by the
  variables constructed before it and may be negative. Every operation is one of a few moves of a pointer (to an existing buffer, to
  a new one, away, a write in place, Flush); a lemma for each says that the counts of
  the buffers involved change with the number of variables that point to them, and that
  every other variable keeps its text. `CountsHandles` is what makes the second part
  true: a buffer another variable reads has a count of at least two, so it is neither
  deleted nor written. The refinement then follows one lemma per operation: each call of `CString`
  is the call of that name in `CStringValues`, with the text its arguments give.

- `CrashesComeFromOutside`, `NoRowIsTwice` and `UsersForkUserTargets` (XvMountProofs), for
  any finite fstab whose lines have different numbers (`XvMountAssumption`; a line's number
  is its place in the file, so two lines cannot share one). `CrashesComeFromOutside` says that a
  row can only be gone when its text is read if the window was rebuilt after the start, which takes a
  write to `/etc/mtab` (`TimeInv`: core rebuilds only for a time later than the one it knows; `FirstInv`: the first fill finds no row chosen), and that `mtab` can only be NULL if the file
  vanished; the crashes of an unreadable `/etc/fstab` are the only others. `NoRowIsTwice`
  needs that the rows shown at each place of the rebuild are those of the lists read so
  far, of mtab first, and of fstab only what mtab does not have; it is stated
  for tab files whose printed rows tell their entries apart (`TextsTellApart`): two fstab lines with
  the same text are two equal rows, whatever the program does. `UsersForkUserTargets`
  follows a session from the selected row to the fork: the row, the path it was
  parsed into and the entry found for it come from a list that the moderated parse has
  filtered, and no rebuild comes between them because the session holds `mount_flag_mutex`.
- `SessionTypes`, `NoTextIsLostUnwarned`, `EscapeGivesBack` and `BothComeHome`
  (DosSessionProofs), for every tree of directories, disk, room, wildcard, container and width of
  int. `NothingLostUnwarned` excepts the sessions in which a count wrapped (finding 6), and `ComesHome` XC's disk
  errors and Ctrl-Break while the target is named (finding 8), and every end of XREP but its own.
  - `TypeInv` (`DiskType`, `XrepType`, `XcType`, `AttrType`): no directory ever lists one
    name twice and the disk stays within its room. Each operation of `DosDisk` keeps both
    by a lemma of `DosDiskProofs`; the room is a sum over all slots of all directories, and
    a write or a removal changes one term of it.
  - `HomeInv`: a program runs only if its command was typed last; `ComesHome` is judged
    when it stops, by whichever of its returns, stops and aborts.
  - `CopyInv`: from the moment the backup is complete to the moment the file is rewritten,
    the backup holds the text the file had when it was opened, and a file in which
    nothing was replaced so far holds just what was read of the backup.
    `EscapeGivesBack` follows.
  - `LossInv`: between the writing of a backup and the end of the rewriting, every first text
    with that backup's name is in its file, or, for the file that is rewritten, in the
    backup. `NothingLostUnwarned` is not inductive by itself: a text is safe in a backup only as
    long as no other file's backup has that name, which is what the question of XREP is about.
- `OneRunRewritesTheTree` (DosRunProofs): a first run of XREP that ends by itself on a disk with
  room has rewritten every text file of the tree that the flag matches, once, if the lines of the file
  fit the line buffer (a longer one is cut in two, and what is across the cut is not replaced). It is proved for disks
  whose directories form a tree (`TreeAssumption`, which DOS guarantees): a directory reached
  on two ways would be rewritten twice. The run has four invariants:
  - `RunIn` (`Stays`): files with the extension `.XRP` come and go, every other entry keeps its slot, and
    the subdirectories are those there were.
  - `PathInv`: the calls of the recursion are a path down the tree, each in a subdirectory at the
    slot its caller's search has reached.
  - `DoneInv`: there is a set of finished directories, closed under the subdirectories that the
    searches have passed (`WalkIn`). The files of finished directories are rewritten, those of directories
    not reached are as they were, and in each directory of the path the files before the
    search's slot are the rewritten ones (`FilesIn`). The set is not a variable of the model: the
    invariant says that one exists, and when the last call returns it is the tree.
  - `FileInv` (`CopyIn`): the file being replaced holds the rewritten lines up to a position
    of the original, and the rest of the original is left to read; at the end of the
    file the position is its length.
- `XcCountsRight` and `XcReportsWhatXrepDid` (DosRunProofs): what XC prints is what the two trees say,
  for every disk whose directories form a tree, every wildcard and every set of options, wherever
  the user pauses. `TreeHolds` shows first that no operation of either program breaks the tree.
  - `XcInv`: while XC scans, there is a set `D` of places (a source directory with the target directory
    beside it, or none), the ones read so far (`Walked`, `Told`). `D` holds the start, the subdirectories
    the searches have passed, and nothing that a set closed under subdirectories could leave out (`Within`).
    The calls of scandir are a path down the tree (`TrailIn`), each at the place that its
    part of `_logged` leads to (`PlacedIn`). The files passed in `D` (`Files`) have each
    been compared, and the counters are the numbers of their verdicts (`Tallied`); between a comparison
    and the key that ends its pause the one that is still to be counted is added first (`Due`).
  - At the return of the last call `D` is closed too, so it is the least closed set, and that is
    what `Mirrored` computes by levels (`MirroredFacts`): the levels stop growing after as many as there
    are directories.
  - Two places of `D` never have the same source directory, since a directory of a tree is
    reached on one way; without that, one file would be compared twice and counted twice.
  - `XcFindsWhatXrepDid` follows from this alone and not from what XREP does: a finished XC has
    compared each file with its namesake, and if the copy holds what the tree held before, the comparisons found
    different are one for each changed file and those not found one for each new file (`FoundFiles`).
    It says nothing of a file that is gone, which XC cannot see: XREP removes an old backup when the file
    it belongs to turns out to have no replacements.
- `NamedFieldsAreSpans`, `ValuesAreTheirText` and `FieldsTakeTheirSize` (PlufFilterProofs), for
  every syntax and every input of characters from 1 to 127. The inductive invariant:
  - `SyntaxInv`: the comma that closes a name is defined by a count of names and commas, without
    the stack `open`. While a syntax is read, a field that is open has, between its name and the
    place of reading, as many more names than commas as there are open fields above it
    (`OpenInv`), so the comma read next closes the field on top and no other. `ClosedInv` says
    what is true of the closed ones, `EmptyInv` when the field closed last got no
    elementary field, which is when its kind is left uninitialized. `SpansInv` keeps
    the result after the syntax is read.
  - `RecordInv`: within a record, the value of each plain elementary field is the input from
    where it began to where the next field went on, so that adjacent pieces make the value
    of the named field that holds them (`FlattenTexts`).
  - The readers' lemmas say where each kind of field leaves `CurPos`. `RecIsPosition` is about the
    count of unclosed parentheses that FillField takes for a position (cfilter.cpp:123):
    it is never negative. `FieldsTakeTheirSize` is an action property: a step
    takes the size or counts an error or ends the program, and its exception of n zeros is the
    one the proof needs.

For root four of xvmount's properties (`RebuildExcludesMount`, `ButtonsFollowMount`, `OutputHeard`
and the refinement) do not hold: root's commands take no lock, and the exit of their
processes unlocks `mount_flag_mutex` for whoever holds it.

Sums, folds and flattenings (`MapThenSumSet`, `FoldLeft`, `FlattenSeq`) are recursive functions inside. What the proofs
need of them is proved by induction over the set on which a statement fails (its least
element cannot exist), since the library's induction theorems take an operator as parameter, which the
installed provers cannot instantiate.

Only model-checked: all liveness properties (fairness and ENABLED are beyond the prover), and
`ReadersOnlySwapped`. Every other invariant of a passing run is a theorem. Nothing is proved about
what the filter prints (`PlufProcessor`): its operators are only run.

## Not modelled

- xvmount: resize_lists, the About box, xstatus and read_vmount (the text of the
  status pane), init_env, the characters of a tab file's lines (getline and the
  split into fields), descriptors, the generated interface. pthread_cond_wait is called
  without its mutex locked, which POSIX leaves undefined: the wait is modelled as on a
  system where it just waits. A half-written `/etc/mtab`.
- quicksort: the traces printed by PUT; GET is the choice of `input`.
- strings: ExtractLine, Map, MapTerm and CStringQSort, which need vectors; add_br,
  remove_br; input (fmakeword, operator>>); remove_backslash and hash_sum, whose
  result is undefined on an empty text; comparisons and conversions to numbers, which
  change nothing (Val and Tokenizer are operators of `PlufProcessor`).
- XREP and XC: help texts, the percentage and the cursor, the position of the first
  difference (still_compare), other drives. Undefined behaviour of buffers: what lies behind the
  line buffer when a line of `sline_ssize` or more, or one that grows by its replacements, is stored in it; behind the
  buffers of get_replacements (`temp_from`, `temp_to`, `replace_from`) when a line of the container is long; and the write
  before `replace_from` when the container has no pair (XREP.CPP:382).
- filter: `--help`, `--version`, `--verbose`, the wording of messages, the splitting of the
  two syntaxes into tokens and items, numbers of more than nine digits, a comparison inside
  the operand of a comparison, characters above 127, an output syntax that ends within a `-`
  or `+` operator (CString's assertion stops the program).
- Every component of the inventory without a module; the reasons are in
  `PROJECT.json`. Programs that are drawing, dialogue or documents are left out for
  good; the others are in the plan.
