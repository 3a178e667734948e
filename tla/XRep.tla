-------------------------------- MODULE XRep --------------------------------
(***************************************************************************)
(* XREP (xtools/XREP.CPP): walks a directory tree and replaces strings in  *)
(* the files that match a flag, keeping the old text of each in a .XRP     *)
(* file.  One action is one step between two points where the user or DOS  *)
(* can stop the program.                                                   *)
(***************************************************************************)
EXTENDS DosDisk

CONSTANTS NL, NUL, EOFCHAR,   \* newline, the byte 0, the byte 0xFF that EOF becomes in a char
          sline_ssize,        \* the size of the line buffer
          MaxInt              \* the largest int: 32767

Xrp(n) == [n EXCEPT !.ext = "XRP"]

\* Any name may have the extension XRP.
ASSUME XrepAssumption == /\ sline_ssize \in Nat /\ MaxInt \in Nat /\ {NL, NUL, EOFCHAR} \subseteq STRING
                         /\ Cardinality({NL, NUL, EOFCHAR}) = 3
                         /\ Names \subseteq [base : STRING, ext : STRING]
                         /\ \A n \in Names : Xrp(n) \in Names

VARIABLES phase,        \* where the program is: "idle", "flag", "prompt", "backup", "reopen", "lines", "tail", "restore", "subdirs"
          setup,        \* the arguments: start directory, xrep_flag, opt_no_subdirs, the replacements
          frames,       \* the calls of process_dir: directory, last slot found, whether the name ends in a backslash
          opt_overwrite,
          file,         \* the file in replace(): directory and name
          rest,         \* what is left to read of the backup
          read_filesize,
          local_replacement,
          curdir,       \* the current directory saved at the start
          ending,       \* how the last run ended
          before,       \* observation: the text of the file when replace() opened it
          warned,       \* observation: the backups the user was asked about
          full,         \* observation: a write was cut because the disk was full
          wrapped       \* observation: local_replacement went past the largest int

xrepVars == <<phase, setup, frames, opt_overwrite, file, rest, read_filesize,
              local_replacement, curdir, ending, before, warned, full, wrapped>>

\* process_file hands replace a file of the directory it is in.
top    == Last(frames)
name   == file.name
backup == Xrp(file.name)

NoFile  == [dir |-> NoDir, name |-> CHOOSE n \in Names : TRUE]
NoSetup == [dir |-> NoDir, flag |-> {}, nosubdirs |-> FALSE, pairs |-> <<>>]

XrepInit ==
    /\ phase = "idle" /\ ending = "none" /\ setup = NoSetup
    /\ frames = <<>> /\ file = NoFile /\ rest = <<>>
    /\ opt_overwrite = FALSE /\ read_filesize = 0 /\ local_replacement = 0
    /\ curdir = cwd /\ before = <<>> /\ warned = {} /\ full = FALSE /\ wrapped = FALSE

-----------------------------------------------------------------------------
(* Arguments.                                                               *)

\* A container is a list of lines, each with the text before its first | (from) and
\* the text between that and the end of the line or a second | (to): a pair, a line
\* without | (single; a blank one too) or a comment; closed when the last line ends in
\* a newline.  A pair is kept when neither text is empty and the two differ.  After a
\* line without | the line that follows, whatever it is, gives the replacement.  A
\* comment keeps the previous pair once more.
NoPair      == [from |-> <<>>, to |-> <<>>]
NothingRead == [last |-> NoPair, waiting |-> FALSE, pairs |-> <<>>]

Keep(pairs, p) == IF p.from = <<>> \/ p.to = <<>> \/ p.from = p.to THEN pairs ELSE Append(pairs, p)

Read(r, p) == [last |-> p, waiting |-> FALSE, pairs |-> Keep(r.pairs, p)]

ReadLine(r, l) ==
    CASE r.waiting -> Read(r, [from |-> r.last.from, to |-> l.pair.from])
      [] ~r.waiting /\ l.kind = "comment" -> Read(r, r.last)
      [] ~r.waiting /\ l.kind = "pair"    -> Read(r, l.pair)
      [] ~r.waiting /\ l.kind = "single"  -> [r EXCEPT !.last.from = l.pair.from, !.waiting = TRUE]

\* The end of the container in the middle of a text loses the last line.
Replacements(c) ==
    LET read  == FoldLeft(ReadLine, NothingRead, Front(c.lines))
        line  == Last(c.lines)
        whole == c.closed \/ line.kind = IF read.waiting THEN "pair" ELSE "comment"
    IN  IF whole THEN ReadLine(read, line).pairs ELSE read.pairs

\* An argument names a directory (whole), or files in a directory given with it (dir) or in the current one.
MakeNames2(a) ==
    IF a.whole # NoDir THEN [dir |-> a.whole, flag |-> Names]
                       ELSE [dir |-> IF a.given THEN a.dir ELSE cwd, flag |-> a.flag]

NoSuchDir(a) == a.whole = NoDir /\ a.given /\ a.dir = NoDir

\* The program exits: with exit_routine, with exit, or killed by DOS or by a divide error.
Ends(how) ==
    /\ phase' = "idle" /\ ending' = how
    /\ frames' = <<>> /\ rest' = <<>> /\ read_filesize' = 0 /\ local_replacement' = 0

XrepRefused(c, a) ==
    /\ phase = "idle" /\ (c.lines = <<>> \/ NoSuchDir(a))
    /\ curdir' = cwd /\ Ends("refused")
    /\ UNCHANGED <<disk, cwd, setup, opt_overwrite, file, before, warned, full, wrapped>>

XrepStart(c, a, nosubdirs) ==
    LET n == MakeNames2(a) IN
    /\ phase = "idle" /\ c.lines # <<>> /\ ~NoSuchDir(a)
    /\ curdir' = cwd
    /\ setup' = [dir |-> n.dir, flag |-> n.flag, nosubdirs |-> nosubdirs, pairs |-> Replacements(c)]
    /\ frames' = <<[dir |-> n.dir, at |-> 0, slash |-> TRUE]>>
    /\ phase' = "flag" /\ ending' = "none" /\ opt_overwrite' = FALSE
    /\ UNCHANGED <<disk, cwd, file, rest, read_filesize, local_replacement, before, warned, full, wrapped>>

-----------------------------------------------------------------------------
(* Walking the tree: process_dir, process_flag, process_file.               *)

SetTop(f) == [frames EXCEPT ![Len(frames)] = f]

Return == IF Len(frames) = 1 THEN /\ cwd' = curdir /\ Ends("normal")
                             ELSE /\ frames' = Front(frames) /\ phase' = "subdirs"
                                  /\ UNCHANGED <<cwd, ending, rest, read_filesize, local_replacement>>

\* findfirst with attribute 0 finds neither hidden files nor directories.
NextFile == Find(disk, top.dir, setup.flag, {"plain", "readonly"}, top.at)
NextDir  == Find(disk, top.dir, Names, {"dir"}, top.at)

\* A replace that does not look for a backup.
FindFileUnasked ==
    /\ phase = "flag" /\ NextFile # 0
    /\ file' = [dir |-> top.dir, name |-> disk[top.dir][NextFile].name]
    /\ before' = disk[top.dir][NextFile].text
    /\ frames' = SetTop([top EXCEPT !.at = NextFile, !.slash = TRUE])
    /\ phase' = "backup" /\ local_replacement' = 0
    /\ UNCHANGED <<disk, cwd, setup, opt_overwrite, rest, read_filesize, curdir, ending, warned, full, wrapped>>

\* The next file is opened, and its backup looked for unless the user said Always.
FindFile ==
    /\ phase = "flag" /\ NextFile # 0
    /\ \E slot \in {disk[top.dir][NextFile]} :
        /\ file' = [dir |-> top.dir, name |-> slot.name]
        /\ before' = slot.text
        /\ frames' = SetTop([top EXCEPT !.at = NextFile, !.slash = TRUE])
        /\ phase' = IF ~opt_overwrite /\ Readable(disk, top.dir, Xrp(slot.name)) THEN "prompt" ELSE "backup"
    /\ local_replacement' = 0
    /\ UNCHANGED <<disk, cwd, setup, opt_overwrite, rest, read_filesize, curdir, ending, warned, full, wrapped>>

\* A process_dir that goes on where process_flag stopped.
EndFlagGoesOn ==
    /\ phase = "flag" /\ NextFile = 0
    /\ IF setup.nosubdirs
       THEN Return
       ELSE /\ cwd' = IF top.slash /\ top.dir # Root THEN cwd ELSE top.dir
            /\ phase' = "subdirs"
            /\ UNCHANGED <<frames, ending, rest, read_filesize, local_replacement>>
    /\ UNCHANGED <<disk, setup, opt_overwrite, file, curdir, before, warned, full, wrapped>>

\* chdir fails on a name that ends in a backslash, but for the root.
EndFlag ==
    /\ phase = "flag" /\ NextFile = 0
    /\ IF setup.nosubdirs
       THEN Return
       ELSE /\ cwd' = IF top.slash /\ top.dir # Root THEN cwd ELSE top.dir
            /\ frames' = SetTop([top EXCEPT !.at = 0]) /\ phase' = "subdirs"
            /\ UNCHANGED <<ending, rest, read_filesize, local_replacement>>
    /\ UNCHANGED <<disk, setup, opt_overwrite, file, curdir, before, warned, full, wrapped>>

\* A recursion that shares the search of its caller and starts it again.
EnterDirAgain ==
    /\ phase = "subdirs" /\ NextDir # 0
    /\ frames' = Append(frames, [dir |-> disk[top.dir][NextDir].opens, at |-> 0, slash |-> FALSE])
    /\ phase' = "flag"
    /\ UNCHANGED <<disk, cwd, setup, opt_overwrite, file, rest, read_filesize, local_replacement,
                   curdir, ending, before, warned, full, wrapped>>

EnterDir ==
    /\ phase = "subdirs" /\ NextDir # 0
    /\ frames' = Append(SetTop([top EXCEPT !.at = NextDir]),
                        [dir |-> disk[top.dir][NextDir].opens, at |-> 0, slash |-> FALSE])
    /\ phase' = "flag"
    /\ UNCHANGED <<disk, cwd, setup, opt_overwrite, file, rest, read_filesize, local_replacement,
                   curdir, ending, before, warned, full, wrapped>>

LeaveDir ==
    /\ phase = "subdirs" /\ NextDir = 0
    /\ Return
    /\ UNCHANGED <<disk, setup, opt_overwrite, file, curdir, before, warned, full, wrapped>>

-----------------------------------------------------------------------------
(* replace().                                                               *)

\* Any key but Q overwrites the backup; A stops the questions.
Answer(key) ==
    /\ phase = "prompt"
    /\ IF key = "Q" THEN Ends("quit") /\ UNCHANGED <<opt_overwrite, warned>>
       ELSE /\ phase' = "backup"
            /\ opt_overwrite' = (key = "A")
            /\ warned' = IF key = "A" THEN Dirs \X Names ELSE warned \union {<<file.dir, backup>>}
            /\ UNCHANGED <<frames, ending, rest, read_filesize, local_replacement>>
    /\ UNCHANGED <<disk, cwd, setup, file, curdir, before, full, wrapped>>

\* What fgetc gives of the file while the backup, already truncated, is written.
created == Create(disk, file.dir, backup)
source  == Text(created, file.dir, name)

BackupRefused ==
    /\ phase = "backup" /\ ~Writable(disk, file.dir, backup)
    /\ phase' = "flag"
    /\ UNCHANGED <<disk, cwd, setup, frames, opt_overwrite, file, rest, read_filesize,
                   local_replacement, curdir, ending, before, warned, full, wrapped>>

\* A byte 0 tells a binary file: the backup begun is removed.
BinaryFile ==
    /\ phase = "backup" /\ Writable(disk, file.dir, backup) /\ NUL \in ToSet(source)
    /\ disk' = Delete(created, file.dir, backup)
    /\ phase' = "flag"
    /\ UNCHANGED <<cwd, setup, frames, opt_overwrite, file, rest, read_filesize,
                   local_replacement, curdir, ending, before, warned, full, wrapped>>

\* No write is checked: a full disk cuts the backup short.
MakeBackup ==
    /\ phase = "backup" /\ Writable(disk, file.dir, backup) /\ NUL \notin ToSet(source)
    /\ disk' = Write(created, file.dir, backup, source)
    /\ full' = (full \/ ~Fits(created, source))
    /\ phase' = "reopen"
    /\ UNCHANGED <<cwd, setup, frames, opt_overwrite, file, rest, read_filesize,
                   local_replacement, curdir, ending, before, warned, wrapped>>

\* The backup is reopened to be read and the file itself truncated.
Reopen ==
    /\ phase = "reopen"
    /\ IF Writable(disk, file.dir, name)
       THEN /\ disk' = Create(disk, file.dir, name)
            /\ rest' = Text(disk', file.dir, backup) /\ read_filesize' = Len(rest')
            /\ phase' = "lines"
       ELSE phase' = "flag" /\ UNCHANGED <<disk, rest, read_filesize>>
    /\ UNCHANGED <<cwd, setup, frames, opt_overwrite, file, local_replacement, curdir, ending,
                   before, warned, full, wrapped>>

\* A line ends at a newline, when the buffer is full, or with the EOF stored as a character.
NextLine ==
    LET nl == SelectInSeq(rest, LAMBDA c : c = NL) IN
    CASE nl \in 1..(sline_ssize + 1) -> SubSeq(rest, 1, nl)
      [] nl \notin 1..(sline_ssize + 1) /\ Len(rest) > sline_ssize -> SubSeq(rest, 1, sline_ssize + 1)
      [] OTHER -> Append(rest, EOFCHAR)

\* Each pair in turn replaces its first occurrence in what the pairs before it made.
Replaced(line) ==
    FoldLeft(LAMBDA a, p : IF ReplaceFirstSubSeq(p.to, p.from, a.line) = a.line THEN a
                           ELSE [line |-> ReplaceFirstSubSeq(p.to, p.from, a.line), count |-> a.count + 1],
             [line |-> line, count |-> 0], setup.pairs)

\* A sum kept in an int, two's complement.
AsInt(x) == ((x + MaxInt + 1) % (2 * (MaxInt + 1))) - (MaxInt + 1)

RewriteLine ==
    /\ phase = "lines" /\ read_filesize # 0
    /\ \E line \in {NextLine}, new \in {Replaced(NextLine)} :
        /\ disk' = Write(disk, file.dir, name, new.line)
        /\ full' = (full \/ ~Fits(disk, new.line))
        /\ local_replacement' = AsInt(local_replacement + new.count)
        /\ wrapped' = (wrapped \/ local_replacement + new.count > MaxInt)
        /\ rest' = SubSeq(rest, Len(line) + 1, Len(rest))
        /\ phase' = IF Len(line) > Len(rest) THEN "tail" ELSE "lines"
    /\ UNCHANGED <<cwd, setup, frames, opt_overwrite, file, read_filesize, curdir, ending, before, warned>>

\* percentage_upgrade divides by the size of the backup: an empty one stops the
\* program, with the line in its buffer or on the disk.
DivideError ==
    /\ phase = "lines" /\ read_filesize = 0
    /\ disk' \in {disk, Write(disk, file.dir, name, Replaced(NextLine).line)}
    /\ Ends("divide")
    /\ UNCHANGED <<cwd, setup, opt_overwrite, file, curdir, before, warned, full, wrapped>>

\* The backup stays when the count of replacements is positive.
FinishFile ==
    /\ phase = "tail"
    /\ disk' = IF local_replacement > 0 THEN disk ELSE Delete(disk, file.dir, backup)
    /\ phase' = "flag"
    /\ UNCHANGED <<cwd, setup, frames, opt_overwrite, file, rest, read_filesize, local_replacement, curdir,
                   ending, before, warned, full, wrapped>>

\* A restoration over the lines already written.
PressEscapeKeeping ==
    /\ phase = "lines"
    /\ phase' = "restore"
    /\ UNCHANGED <<disk, cwd, setup, frames, opt_overwrite, file, rest, read_filesize,
                   local_replacement, curdir, ending, before, warned, full, wrapped>>

\* Escape is looked for before each line: the file is truncated again and the backup copied over it.
PressEscape ==
    /\ phase = "lines"
    /\ disk' = Create(disk, file.dir, name) /\ phase' = "restore"
    /\ UNCHANGED <<cwd, setup, frames, opt_overwrite, file, rest, read_filesize,
                   local_replacement, curdir, ending, before, warned, full, wrapped>>

RestoreFile ==
    LET text == Text(disk, file.dir, backup) IN
    /\ phase = "restore"
    /\ disk' = Write(disk, file.dir, name, text)
    /\ full' = (full \/ ~Fits(disk, text))
    /\ Ends("escape")
    /\ UNCHANGED <<cwd, setup, opt_overwrite, file, curdir, before, warned, wrapped>>

\* Ctrl-Break (c_break) or a disk error (handler answers ABORT).  A copy may be
\* half done; what was written may still be in the buffer when DOS ends the program.
Partial ==
    CASE phase = "backup" /\ Writable(disk, file.dir, backup) ->
           {Write(created, file.dir, backup, SubSeq(source, 1, k)) :
                k \in {k \in 0..Len(source) : NUL \notin ToSet(SubSeq(source, 1, k))}}
      [] phase \in {"lines", "tail"} ->
           {PutText(disk, file.dir, name, SubSeq(Text(disk, file.dir, name), 1, k)) :
                k \in 0..Len(Text(disk, file.dir, name))}
      [] phase = "restore" ->
           {Write(disk, file.dir, name, SubSeq(Text(disk, file.dir, backup), 1, k)) :
                k \in 0..Len(Text(disk, file.dir, backup))}
      [] OTHER -> {}

Interrupt ==
    /\ phase # "idle"
    /\ disk' \in Partial \union {disk}
    /\ Ends("interrupt")
    /\ UNCHANGED <<cwd, setup, opt_overwrite, file, curdir, before, warned, full, wrapped>>

XrepStep ==
    \/ FindFile \/ EndFlag \/ EnterDir \/ LeaveDir
    \/ \E key \in {"Y", "A", "Q", "other"} : Answer(key)
    \/ BackupRefused \/ BinaryFile \/ MakeBackup \/ Reopen
    \/ RewriteLine \/ DivideError \/ FinishFile \/ RestoreFile

-----------------------------------------------------------------------------
(* Properties.                                                              *)

\* What a file holds, the bytes 0xFF that XREP adds at its end left out.
Stripped(t) == LET n == SelectLastInSeq(t, LAMBDA c : c # EOFCHAR) IN SubSeq(t, 1, n)

Holds(d, n, t) == Readable(disk, d, n) /\ Stripped(Text(disk, d, n)) = Stripped(t)

\* Each file's first text is in the file or in its backup.
LostOnlyWarned(first) ==
    \A d \in Dirs : \A s \in ToSet(first[d]) :
        s.attr \in FileAttrs =>
            \/ Holds(d, s.name, s.text) \/ Holds(d, Xrp(s.name), s.text)
            \/ <<d, Xrp(s.name)>> \in warned \/ full

\* Escape in the middle of a file: the file is again what it was when XREP opened
\* it.  A .XRP file flagged itself is its own backup and is lost before.
EscapeRestores ==
    ending = "escape" /\ ~full /\ name.ext # "XRP" => Text(disk, file.dir, name) = before

\* The directories process_dir reaches from a start directory.
Reached ==
    LET level[k \in 0..Cardinality(Dirs)] ==
            IF k = 0 THEN {setup.dir}
            ELSE level[k - 1] \union {s.opens : s \in {s \in UNION {ToSet(disk[d]) : d \in level[k - 1]} : s.attr = "dir"}}
    IN  IF setup.nosubdirs THEN {setup.dir} ELSE level[Cardinality(Dirs)]

\* The lines of a text end at its newlines and at its end; each position gives the line it ends.
LineEnds(t)  == {j \in 1..Len(t) : t[j] = NL \/ j = Len(t)}
LineTo(t, j) == SubSeq(t, Max({0} \union {i \in LineEnds(t) : i < j}) + 1, j)
NewLine(t, j) == IF j \in LineEnds(t) THEN Replaced(LineTo(t, j)).line ELSE <<>>

\* The EOF is a character of the last line before anything is replaced in it.
Rewritten(t) ==
    LET u == Append(t, EOFCHAR) IN FlattenSeq([j \in 1..Len(u) |-> NewLine(u, j)])

\* Each line, and the last one with its EOF, fits the line buffer with its closing zero.
ShortLines(t) ==
    LET u == Append(t, EOFCHAR) IN \A j \in LineEnds(u) : Len(LineTo(u, j)) < sline_ssize

\* Every flagged text file of short lines that can be written and backed up holds its
\* rewritten text.  A line that does not fit is broken in two.
EveryFileOnce(first) ==
    \A d \in Reached : \A s \in ToSet(first[d]) :
        /\ s.attr = "plain" /\ s.name \in setup.flag
        /\ NUL \notin ToSet(s.text) /\ ShortLines(s.text)
        /\ s.name.ext # "XRP" /\ Writable(first, d, Xrp(s.name))
        => Text(disk, d, s.name) = Rewritten(s.text)

=============================================================================
