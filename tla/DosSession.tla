----------------------------- MODULE DosSession -----------------------------
(***************************************************************************)
(* A session at the DOS prompt: the user runs XREP on a directory tree and *)
(* XC to compare trees, one after the other, on the same disk.             *)
(***************************************************************************)
EXTENDS XRep, XComp

CONSTANTS Disks,        \* the disks the session can start from
          Commands      \* a sequence: the command lines the user may type first, second, ...

\* What a command line says: a container of replacements, arguments that name files.
TextPair  == [from : Seq(STRING), to : Seq(STRING)]
Container == [lines : Seq([kind : {"comment", "single", "pair"}, pair : TextPair]), closed : BOOLEAN]
Argument  == [whole : Dirs \union {NoDir}, given : BOOLEAN, dir : Dirs \union {NoDir},
              flag : SUBSET Names, wild : {"none", "?", "*", "*.*"}]
Command   == [program : {"xrep"}, container : Container, files : Argument, nosubdirs : BOOLEAN]
             \union [program : {"xc"}, source : Argument, target : Argument, options : SUBSET STRING]

ASSUME SessionAssumption == /\ \A dk \in Disks : WellFormed(dk) /\ Used(dk) <= Room
                            /\ Commands \in Seq(SUBSET Command)
ASSUME TreeAssumption == \A dk \in Disks : IsTree(dk)

VARIABLES first,        \* observation: the disk at the start
          typed         \* the commands so far

vars == <<disk, cwd, xrepVars, xcVars, first, typed>>

Init == /\ disk \in Disks /\ cwd = Root /\ XrepInit /\ XcInit
        /\ first = disk /\ typed = <<>>

Type(c) ==
    /\ phase = "idle" /\ xcPhase = "idle"
    /\ typed' = Append(typed, c)
    /\ UNCHANGED first
    /\ IF c.program = "xrep"
       THEN /\ XrepStart(c.container, c.files, c.nosubdirs) \/ XrepRefused(c.container, c.files)
            /\ UNCHANGED xcVars
       ELSE /\ \/ XcStart(c.source, c.target, c.options)
               \/ XcBreakNaming(c.source, c.target, c.options)
               \/ XcTwoFiles(c.source, c.target, c.options)
               \/ XcRefused(c.source, c.target, c.options)
            /\ UNCHANGED xrepVars

XrepRuns == XrepStep /\ UNCHANGED <<xcVars, first, typed>>
XrepStops == (PressEscape \/ Interrupt) /\ UNCHANGED <<xcVars, first, typed>>
XcRuns == XcStep /\ UNCHANGED <<xrepVars, first, typed>>
XcStops == (XcEscape \/ XcDiskError) /\ UNCHANGED <<xrepVars, first, typed>>

Next == \/ Len(typed) < Len(Commands) /\ \E c \in Commands[Len(typed) + 1] : Type(c)
        \/ XrepRuns \/ XrepStops \/ XcRuns \/ XcStops

\* A started program goes on, and the user answers a question at last.
Spec == Init /\ [][Next]_vars /\ WF_vars(XrepRuns \/ XcRuns)

-----------------------------------------------------------------------------
(* Properties of the session.                                               *)

TypeOK ==
    /\ WellFormed(disk)
    /\ cwd \in Dirs /\ curdir \in Dirs /\ home \in Dirs
    /\ phase \in {"idle", "flag", "prompt", "backup", "reopen", "lines", "tail", "restore", "subdirs"}
    /\ xcPhase \in {"idle", "scan", "paused", "pausedfile"}
    /\ phase = "idle" \/ xcPhase = "idle"
    /\ Used(disk) <= Room

AtPrompt(program) == /\ phase = "idle" /\ xcPhase = "idle"
                     /\ typed # <<>> /\ Last(typed).program = program

\* Whatever stops XREP (Escape, Ctrl-Break, a disk error, its own division by
\* zero) and however often it is run, the text each file had at first is in the
\* file or in its .XRP backup, unless the user was asked about that backup, the
\* disk was full, or a file had more replacements than its int can count.
NothingLostUnwarned == ~wrapped => LostOnlyWarned(first)

\* One run of XREP that ends by itself has rewritten every text file of the tree
\* that matches the flag and whose lines fit the line buffer, once, although
\* backups come and go in the directory while findnext goes through it.
OneRunDoesAll == Len(typed) = 1 /\ ending = "normal" /\ ~full => EveryFileOnce(first)

\* When XC ends by itself its statistics are those of the trees on the disk; a file of
\* the source that it could not open is compared, but in none of the other numbers, not even
\* in the one it calls "not found or not opened" (XC.CPP:239, :296).
XcCountsTheTrees == AtPrompt("xc") /\ xcEnding = "normal" => CountsTheTrees

\* XC leaves the user in the directory where he typed the command, unless a disk error kills
\* it or Ctrl-Break meets make_names2 in the directory of the target; so does XREP when it
\* ends by itself.  Both change directory as they go.
ComesHome == /\ AtPrompt("xc") /\ xcEnding \notin {"abort", "naming"} => cwd = home
             /\ AtPrompt("xrep") /\ ending = "normal" => cwd = curdir

\* XREP and then XC against an untouched copy of the tree, both run to their end on all of it:
\* XC reports as different exactly the files that are still there with other bytes, and as not
\* found exactly the files that are new.  It says nothing of a file that is gone: XREP removes
\* an old backup next to a file without replacements, and XC looks from the source only.
Unchanged(d, n) == Readable(disk, d, n) /\ Text(disk, d, n) = Text(first, d, n)

XcFindsWhatXrepDid ==
    LET old == UNION {{<<p[1], n>> : n \in {n \in Names : Readable(first, p[1], n)}} : p \in Mirrored}
        new == UNION {{<<p[1], n>> : n \in {n \in Names : Readable(disk, p[1], n)}} : p \in Mirrored}
    IN  AtPrompt("xc") /\ Len(typed) = 2 /\ typed[1].program = "xrep" /\ xcEnding = "normal"
        /\ job.opt = {"scandir"} /\ job.flag = Names /\ ~job.single
        /\ (\A p \in Mirrored : \A n \in Names :
                /\ Readable(disk, p[2], n) <=> Readable(first, p[1], n)
                /\ Readable(first, p[1], n) => Text(disk, p[2], n) = Text(first, p[1], n))
        => /\ count.negative = Cardinality({f \in old \intersect new : ~Unchanged(f[1], f[2])})
           /\ count.notfound = Cardinality(new \ old)

\* "XREP replaces text string in flagged files" and ".XRP files are made as backup in
\* case of replacements" (XREP.CPP:173, :189): a file without any of the strings is
\* left as it was.
OnlyReplacementsChange ==
    AtPrompt("xrep") /\ Len(typed) = 1 /\ ending = "normal" /\ ~full =>
        \A d \in Dirs, n \in Names :
            Readable(first, d, n) /\ ~Readable(disk, d, Xrp(n)) => Unchanged(d, n)

\* Every command ends, when the user answers its questions: the scan of XREP stops
\* although each file rewritten may add an entry to the directory being searched.
CommandsEnd == (phase # "idle" \/ xcPhase # "idle") ~> (phase = "idle" /\ xcPhase = "idle")

=============================================================================
