------------------------------ MODULE DosDisk ------------------------------
(***************************************************************************)
(* The DOS file services that XREP and XC call, as the two programs use    *)
(* them: a directory is a list of slots that findfirst and findnext search *)
(* in order, fopen creates a file in the first free slot, remove frees it, *)
(* a write that the disk has no room for is cut.  A wildcard is the set of *)
(* the names it matches.                                                   *)
(***************************************************************************)
EXTENDS Naturals, Sequences, FiniteSetsExt, SequencesExt

CONSTANTS Dirs,     \* the directories of the disk, which neither program makes or removes
          Root,     \* the root directory
          NoDir,    \* a directory that is not there
          Names,    \* the names of files and directories, [base, ext]
          Room      \* how many symbols all the files together can hold

ASSUME DosAssumption == /\ IsFiniteSet(Dirs) /\ Root \in Dirs /\ NoDir \notin Dirs
                        /\ Names # {} /\ Room \in Nat

VARIABLES disk,     \* the slots of each directory
          cwd       \* the current directory

FileAttrs == {"plain", "readonly", "hidden"}
\* "dir" is a directory with no other attribute, "odddir" one that is also hidden or read-only.
DirAttrs  == {"dir", "odddir"}

Slot == [name : Names, attr : FileAttrs \union DirAttrs \union {"free"},
         text : Seq(STRING), opens : Dirs \union {NoDir}]

Free == [name |-> CHOOSE n \in Names : TRUE, attr |-> "free", text |-> <<>>, opens |-> NoDir]

\* The slot of name n in directory d, 0 when there is none.
SlotOf(dk, d, n) == SelectInSeq(dk[d], LAMBDA s : s.attr # "free" /\ s.name = n)

Attr(dk, d, n) == IF d = NoDir \/ SlotOf(dk, d, n) = 0 THEN "free" ELSE dk[d][SlotOf(dk, d, n)].attr
Text(dk, d, n) == dk[d][SlotOf(dk, d, n)].text

\* fopen(name, "rb") and fopen(name, "wb+") succeed.
Readable(dk, d, n) == Attr(dk, d, n) \in FileAttrs
Writable(dk, d, n) == Attr(dk, d, n) \in {"free", "plain"}

\* The first slot after slot i with one of these names and attributes, 0 at the end.
Find(dk, d, names, attrs, i) ==
    SelectInSubSeq(dk[d], i + 1, Len(dk[d]), LAMBDA s : s.name \in names /\ s.attr \in attrs)

\* The directory that name n of directory d leads to.
Child(dk, d, n) == IF Attr(dk, d, n) \in DirAttrs THEN dk[d][SlotOf(dk, d, n)].opens ELSE NoDir

PutText(dk, d, n, t) == [dk EXCEPT ![d][SlotOf(dk, d, n)].text = t]

\* fopen(name, "wb+"): an empty file, in its old slot or in the first free one.
Create(dk, d, n) ==
    LET new  == [Free EXCEPT !.name = n, !.attr = "plain"]
        free == SelectInSeq(dk[d], LAMBDA s : s.attr = "free")
    IN  CASE SlotOf(dk, d, n) # 0 -> PutText(dk, d, n, <<>>)
          [] SlotOf(dk, d, n) = 0 /\ free # 0 -> [dk EXCEPT ![d][free] = new]
          [] OTHER -> [dk EXCEPT ![d] = Append(@, new)]

Size(slots) == FoldLeft(LAMBDA k, s : k + Len(s.text), 0, slots)
Used(dk) == MapThenSumSet(LAMBDA d : Size(dk[d]), Dirs)

\* No directory has two entries with one name, and each entry of a directory leads to one.
WellFormed(dk) ==
    /\ dk \in [Dirs -> Seq(Slot)]
    /\ \A d \in Dirs : \A i, j \in 1..Len(dk[d]) :
          /\ dk[d][i].attr \in DirAttrs => dk[d][i].opens \in Dirs
          /\ dk[d][i].attr # "free" /\ dk[d][j].attr # "free" /\ dk[d][i].name = dk[d][j].name => i = j

\* The directories of a DOS disk form a tree: each is listed once, a level below where it is listed.
IsTree(dk) ==
    /\ \E level \in [Dirs -> 0..Cardinality(Dirs)] :
          \A d \in Dirs : \A s \in ToSet(dk[d]) : s.attr \in DirAttrs => level[s.opens] = level[d] + 1
    /\ \A d, e \in Dirs : \A i \in 1..Len(dk[d]), j \in 1..Len(dk[e]) :
          dk[d][i].attr \in DirAttrs /\ dk[e][j].attr \in DirAttrs /\ dk[d][i].opens = dk[e][j].opens
             => d = e /\ i = j

Fits(dk, t) == Used(dk) + Len(t) <= Room

\* A disk that never fills.
WriteAll(dk, d, n, t) == PutText(dk, d, n, Text(dk, d, n) \o t)

\* fputc or fwrite at the end of a file.
Write(dk, d, n, t) ==
    PutText(dk, d, n, Text(dk, d, n) \o IF Fits(dk, t) THEN t ELSE SubSeq(t, 1, Room - Used(dk)))

Delete(dk, d, n) == [dk EXCEPT ![d][SlotOf(dk, d, n)] = Free]

=============================================================================
