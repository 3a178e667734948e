------------------------------- MODULE Clist -------------------------------
(***************************************************************************)
(* The clist unit of xvmount (vlist.c): mount records, chained lists of     *)
(* them, and the parser that builds a list from a tab file.                 *)
(*                                                                         *)
(* A tab file is a set of numbered lines; a clist is the set of the lines   *)
(* it was built from.  list_add inserts at the head, so a traversal visits  *)
(* a clist from its highest line number down to its lowest.                *)
(***************************************************************************)
EXTENDS Naturals, FiniteSets

CONSTANT Entry       \* the mount records that lines of the tab files parse to

\* The (device, target) pairs mount_record_init has a floppy alias for.
FloppyAlias ==
    {<<"/ramdisk/dev/fd0", "/mnt/floppy/msdos">>,
     <<"/ramdisk/dev/fd0", "/mnt/floppy/linux">>,
     <<"/ramdisk/dev/fd0", "/mnt/floppy/win95">>,
     <<"/ramdisk/dev/fd1", "/mnt/floppy2/msdos">>,
     <<"/ramdisk/dev/fd1", "/mnt/floppy2/linux">>,
     <<"/ramdisk/dev/fd1", "/mnt/floppy2/win95">>}

\* "user" says that the line's mount options contain "user".  On a floppy
\* device mounted elsewhere the code leaves the alias field uninitialized;
\* such records are excluded.
ASSUME EntryAssumption ==
    /\ Entry \subseteq [device : STRING, target : STRING, fs : STRING, user : BOOLEAN]
    /\ \A e \in Entry : e.device \in {"/ramdisk/dev/fd0", "/ramdisk/dev/fd1"}
                           => <<e.device, e.target>> \in FloppyAlias

Line == [line : Nat, rec : Entry]

\* The states of a clist pointer: NULL, a list in use, or one already freed.
ClistType == [st : {"null", "live", "freed"}, nodes : SUBSET Line]
NullClist == [st |-> "null", nodes |-> {}]
list_free(clist) == [clist EXCEPT !.st = "freed"]

-----------------------------------------------------------------------------
\* The text of a window row: the alias of the record, or "device -> target".
Name == {e.device : e \in Entry} \cup {e.target : e \in Entry} \cup {"", "[cdrom]"}
LabelType == [alias : BOOLEAN, device : Name, target : Name]

HasAlias(e) == <<e.device, e.target>> \in FloppyAlias \/ e.fs = "iso9660"

Path(e) == [alias |-> FALSE, device |-> e.device, target |-> e.target]

Label(e) ==
    IF HasAlias(e)
    THEN [alias  |-> TRUE, device |-> "",      \* one alias for each floppy target
          target |-> IF <<e.device, e.target>> \in FloppyAlias THEN e.target ELSE "[cdrom]"]
    ELSE Path(e)

-----------------------------------------------------------------------------
SamePlace(e, f) == e.device = f.device /\ e.target = f.target

\* compare_record: device, target and file system type; the options do not count.
compare_record(e, f) == SamePlace(e, f) /\ e.fs = f.fs

\* chew_tab: every line of the file but those the moderator already lists.
\* "lines" is the content of the file, which fopen must find.
chew_tab(present, lines, moderator) ==
    IF ~present THEN NullClist
    ELSE [st |-> "live",
          nodes |-> {l \in lines : \A m \in moderator.nodes : ~compare_record(l.rec, m.rec)}]

\* A traversal meets n first of these nodes.
First(n, nodes) == n \in nodes /\ \A m \in nodes : m.line <= n.line

\* list_get_alias finds the first node with this alias, if there is one.
WithAlias(clist, label) ==
    {n \in clist.nodes : HasAlias(n.rec) /\ Label(n.rec) = label}

\* list_get_device finds the first node for this device and target, if there is one.
WithDevice(clist, e) == {n \in clist.nodes : SamePlace(n.rec, e)}

=============================================================================
