------------------------------- MODULE XComp -------------------------------
(***************************************************************************)
(* XC (xtools/XC.CPP): compares a source tree with a target tree, file by  *)
(* file, and prints how many match, differ and are missing.  A step is one *)
(* directory entry; the user can press Escape after each, or at a pause.   *)
(***************************************************************************)
EXTENDS DosDisk

VARIABLES xcPhase,    \* "idle", "scan", "paused", "pausedfile"
          job,        \* source and target, the flag, the normalised options
          trail,      \* the calls of scandir: directory, last slot found, its path, the logged it replaced
          logged,    \* the path of the directory being read, below the source
          count,      \* totalcount, dircount, _positive, _negative, _notfound (at most 32767 files in a tree)
          verdict,    \* what the last comparison found
          xcEnding,
          home        \* source_curdir and target_curdir: the current directory at the start

xcVars == <<xcPhase, job, trail, logged, count, verdict, xcEnding, home>>

NoCount == [total |-> 0, dirs |-> 0, positive |-> 0, negative |-> 0, notfound |-> 0]
NoJob   == [source |-> NoDir, flag |-> {}, target |-> NoDir, single |-> FALSE, only |-> CHOOSE n \in Names : TRUE,
            opt |-> {}]

XcInit == /\ xcPhase = "idle" /\ xcEnding = "none" /\ job = NoJob /\ trail = <<>> /\ logged = <<>>
          /\ count = NoCount /\ verdict = "none" /\ home = cwd

-----------------------------------------------------------------------------
(* Options and arguments.                                                   *)

Quiet(o) == o \intersect {"Q", "I", "E", "X"} # {}

\* The letters given, as main makes them agree: quiet silences the pauses, -x and
\* -e turn -p into a pause on differences only.
Options(o) ==
    LET quiet  == o \intersect {"Q", "I"} # {}
        errors == o \intersect {"E", "X"} # {}
    IN  {x \in {"existance", "sizeonly", "scandir", "pause", "errors"} :
            \/ x = "existance" /\ "X" \in o
            \/ x = "sizeonly" /\ "Z" \in o
            \/ x = "scandir" /\ "S" \notin o
            \/ x = "pause" /\ "P" \in o /\ ~quiet /\ ~errors
            \/ x = "errors" /\ ~quiet /\ o \intersect {"F", "P"} # {}}

\* The directory of an argument, and the files it can mean: any when it names a directory.
ArgDir(a)  == IF a.whole # NoDir THEN a.whole ELSE IF a.given THEN a.dir ELSE cwd
ArgFlag(a) == IF a.whole # NoDir THEN Names ELSE a.flag
Lost(a)    == a.whole = NoDir /\ a.given /\ a.dir = NoDir

\* A subdirectory always holds its own entry ".".
AnyEntry(a) ==
    /\ ~Lost(a)
    /\ \/ ArgFlag(a) = Names /\ ArgDir(a) # Root
       \/ Find(disk, ArgDir(a), ArgFlag(a), FileAttrs \union DirAttrs, 0) # 0
AnyFile(a)  == a.whole = NoDir /\ ~Lost(a) /\ Find(disk, ArgDir(a), a.flag, FileAttrs, 0) # 0
OneFile(a)  == AnyFile(a) /\ a.wild = "none"
TheName(a)  == CHOOSE n \in ArgFlag(a) : TRUE

\* The source may be a single file only when the target is; the code looks at it
\* only when the target matches a file and has a ? but no *.
IllegalSource(a, b) == AnyFile(b) /\ b.wild = "?" /\ OneFile(a)

\* Source or target not there, or a target with wildcards but no *.* in it (A*.* passes).
Refuses(a, b) ==
    \/ IllegalSource(a, b)
    \/ ~AnyEntry(a) \/ ~AnyEntry(b)
    \/ b.whole = NoDir /\ b.wild \in {"?", "*"}

-----------------------------------------------------------------------------
(* compare_routine and compare_subroutine.                                  *)

\* Files are paths: a directory and a name.
Compare(from, to, opt) ==
    LET s == Text(disk, from.dir, from.name)
        t == Text(disk, to.dir, to.name)
    IN  CASE ~Readable(disk, from.dir, from.name) -> "unopened"
          [] Readable(disk, from.dir, from.name) /\ ~Readable(disk, to.dir, to.name) -> "missing"
          [] OTHER -> IF \/ "existance" \in opt
                         \/ "sizeonly" \in opt /\ Len(s) = Len(t)
                         \/ s = t THEN "same" ELSE "different"

\* A missing file is also a difference with -x.
Tally(c, v, opt) ==
    [c EXCEPT !.positive = @ + IF v = "same" THEN 1 ELSE 0,
              !.negative = @ + IF v = "different" \/ (v = "missing" /\ "existance" \in opt) THEN 1 ELSE 0,
              !.notfound = @ + IF v = "missing" THEN 1 ELSE 0]

Pauses(v, opt) == \/ v \in {"unopened", "missing"} /\ "pause" \in opt
                  \/ v = "different" /\ "errors" \in opt

\* A difference is counted before the pause, a file that cannot be opened after it.
CountBefore(v, opt) == IF v = "different" \/ ~Pauses(v, opt) THEN Tally(count, v, opt) ELSE count
CountAfter(v, opt)  == IF v = "different" THEN count ELSE Tally(count, v, opt)

Resolve(dir, path) == FoldLeft(LAMBDA d, n : Child(disk, d, n), dir, path)

\* A counterpart always in the top directory.
CounterpartAtTop(n) == IF job.single THEN [dir |-> job.target, name |-> job.only]
                                     ELSE [dir |-> job.target, name |-> n]

\* The file of the target tree that stands where name n stands in the source tree.
Counterpart(n) == IF job.single THEN [dir |-> job.target, name |-> job.only]
                                ELSE [dir |-> Resolve(job.target, logged), name |-> n]

-----------------------------------------------------------------------------
(* main, scandir, the pauses.                                               *)

\* An exit that leaves the user where the scan was.
XcEndsThere(how) == /\ xcPhase' = "idle" /\ xcEnding' = how /\ cwd' = cwd
                    /\ trail' = <<>> /\ logged' = <<>> /\ verdict' = "none"

XcEnds(how) == /\ xcPhase' = "idle" /\ xcEnding' = how /\ cwd' = home
               /\ trail' = <<>> /\ logged' = <<>> /\ verdict' = "none"

XcRefused(a, b, o) ==
    /\ xcPhase = "idle" /\ ~(OneFile(a) /\ OneFile(b)) /\ Refuses(a, b)
    /\ xcEnding' = "refused" /\ count' = NoCount /\ home' = cwd
    /\ UNCHANGED <<disk, cwd, xcPhase, job, trail, logged, verdict>>

\* file_compare: two single files are compared, and the program exits without its statistics.
XcTwoFiles(a, b, o) ==
    LET v == Compare([dir |-> ArgDir(a), name |-> TheName(a)], [dir |-> ArgDir(b), name |-> TheName(b)], Options(o)) IN
    /\ xcPhase = "idle" /\ OneFile(a) /\ OneFile(b)
    /\ home' = cwd /\ job' = [NoJob EXCEPT !.opt = Options(o)] /\ verdict' = v
    /\ count' = Tally(NoCount, v, Options(o))
    /\ xcPhase' = IF Pauses(v, Options(o)) THEN "pausedfile" ELSE "idle"
    /\ xcEnding' = IF Pauses(v, Options(o)) THEN "none" ELSE "twofiles"
    /\ UNCHANGED <<disk, cwd, trail, logged>>

\* make_names2 goes into the directory of the target, prints it, and goes back.
\* Ctrl-Break at that line: source_curdir and target_curdir, both still empty, bring
\* nobody home.  (At the line of the source target_curdir is set: as XcEscape.)
XcBreakNaming(a, b, o) ==
    /\ xcPhase = "idle" /\ ~(OneFile(a) /\ OneFile(b)) /\ ~IllegalSource(a, b)
    /\ ~Quiet(o) /\ ~Lost(b)
    /\ cwd' = ArgDir(b) /\ home' = cwd /\ xcEnding' = "naming" /\ count' = NoCount
    /\ UNCHANGED <<disk, xcPhase, job, trail, logged, verdict>>

XcStart(a, b, o) ==
    /\ xcPhase = "idle" /\ ~(OneFile(a) /\ OneFile(b)) /\ ~Refuses(a, b)
    /\ home' = cwd /\ xcEnding' = "none" /\ count' = NoCount
    /\ job' = [source |-> ArgDir(a), flag |-> ArgFlag(a), target |-> ArgDir(b),
               single |-> OneFile(b), only |-> TheName(b), opt |-> Options(o)]
    /\ trail' = <<[dir |-> ArgDir(a), at |-> 0, path |-> <<>>, old |-> <<>>]>>
    /\ logged' = <<>> /\ verdict' = "none" /\ xcPhase' = "scan"
    /\ UNCHANGED <<disk, cwd>>

last    == Last(trail)
Entry   == Find(disk, last.dir, job.flag, FileAttrs \union DirAttrs, last.at)

At(i) == [trail EXCEPT ![Len(trail)].at = i]

XcSubdir ==
    /\ xcPhase = "scan" /\ Entry # 0
    /\ \E slot \in {disk[last.dir][Entry]} :
        /\ slot.attr = "dir"
        /\ IF "scandir" \in job.opt
           THEN /\ count' = [count EXCEPT !.dirs = @ + 1]
                /\ logged' = Append(last.path, slot.name) /\ cwd' = slot.opens
                /\ trail' = Append(At(Entry), [dir |-> slot.opens, at |-> 0, path |-> logged', old |-> logged])
           ELSE trail' = At(Entry) /\ UNCHANGED <<count, logged, cwd>>
    /\ UNCHANGED <<disk, xcPhase, job, verdict, xcEnding, home>>

\* Anything whose attributes are not exactly those of a directory is compared as a file.
XcFile ==
    /\ xcPhase = "scan" /\ Entry # 0
    /\ \E slot \in {disk[last.dir][Entry]} :
        /\ slot.attr # "dir"
        /\ trail' = At(Entry)
        /\ \E v \in {Compare([dir |-> last.dir, name |-> slot.name], Counterpart(slot.name), job.opt)} :
            /\ verdict' = v
            /\ count' = [CountBefore(v, job.opt) EXCEPT !.total = @ + IF Pauses(v, job.opt) THEN 0 ELSE 1]
            /\ xcPhase' = IF Pauses(v, job.opt) THEN "paused" ELSE "scan"
    /\ UNCHANGED <<disk, cwd, job, logged, xcEnding, home>>

XcKey ==
    /\ xcPhase = "paused"
    /\ count' = [CountAfter(verdict, job.opt) EXCEPT !.total = @ + 1]
    /\ xcPhase' = "scan"
    /\ UNCHANGED <<disk, cwd, job, trail, logged, verdict, xcEnding, home>>

\* A return that keeps the path of the subdirectory in _logged.
XcReturnLogged ==
    /\ xcPhase = "scan" /\ Entry = 0
    /\ IF Len(trail) = 1
       THEN XcEnds("normal")
       ELSE trail' = Front(trail) /\ UNCHANGED <<xcPhase, xcEnding, cwd, verdict, logged>>
    /\ UNCHANGED <<disk, job, count, home>>

XcReturn ==
    /\ xcPhase = "scan" /\ Entry = 0
    /\ IF Len(trail) = 1
       THEN XcEnds("normal")
       ELSE /\ trail' = Front(trail) /\ logged' = last.old
            /\ UNCHANGED <<xcPhase, xcEnding, cwd, verdict>>
    /\ UNCHANGED <<disk, job, count, home>>

XcFileKey ==
    /\ xcPhase = "pausedfile" /\ XcEnds("twofiles")
    /\ UNCHANGED <<disk, job, count, home>>

\* exit_subroutine: Escape at a pause or after an entry, or Ctrl-Break.
XcEscape ==
    /\ xcPhase # "idle" /\ XcEnds("user")
    /\ UNCHANGED <<disk, job, count, home>>

\* A disk error: the handler answers ABORT and DOS ends the program where it is.
XcDiskError ==
    /\ xcPhase # "idle" /\ xcPhase' = "idle" /\ xcEnding' = "abort"
    /\ trail' = <<>> /\ logged' = <<>> /\ verdict' = "none"
    /\ UNCHANGED <<disk, cwd, job, count, home>>

XcStep == XcSubdir \/ XcFile \/ XcKey \/ XcReturn \/ XcFileKey

-----------------------------------------------------------------------------
(* Properties.                                                              *)

\* The source directories below the start whose names the flag matches, each with
\* the target directory at the same place, if there is one.
Mirrored ==
    LET Below(P) ==
            UNION {{<<s.opens, IF p[2] = NoDir THEN NoDir ELSE Child(disk, p[2], s.name)>> :
                       s \in {s \in ToSet(disk[p[1]]) : s.attr = "dir" /\ s.name \in job.flag}} : p \in P}
        level[k \in 0..Cardinality(Dirs)] ==
            IF k = 0 THEN {<<job.source, job.target>>} ELSE level[k - 1] \union Below(level[k - 1])
    IN  IF "scandir" \in job.opt THEN level[Cardinality(Dirs)] ELSE level[0]

\* Each file to compare, with what it is compared to.
Compared ==
    UNION {{<<[dir |-> p[1], name |-> s.name],
              IF job.single THEN [dir |-> job.target, name |-> job.only] ELSE [dir |-> p[2], name |-> s.name]>> :
                s \in {s \in ToSet(disk[p[1]]) : s.attr \in FileAttrs \union {"odddir"} /\ s.name \in job.flag}} :
           p \in Mirrored}

Found(v) == Cardinality({c \in Compared : Compare(c[1], c[2], job.opt) = v})

\* The numbers XC prints are those of the two trees, a file of the source that cannot
\* be opened in the first of them only: one comparison for every file
\* of the source tree, with the file at the same relative path of the target tree
\* (scandir keeps that path in _logged over its recursion), every directory once.
CountsTheTrees ==
    /\ count.total = Cardinality(Compared)
    /\ count.dirs = Cardinality(Mirrored) - 1
    /\ count.positive = Found("same")
    /\ count.notfound = Found("missing")
    /\ count.negative = Found("different") + IF "existance" \in job.opt THEN Found("missing") ELSE 0

=============================================================================
