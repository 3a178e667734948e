------------------------------ MODULE MCXvMount ------------------------------
(***************************************************************************)
(* Instances of XvMount for TLC: a few partitions and the tab files made    *)
(* of them.                                                                *)
(***************************************************************************)
EXTENDS XvMount

Dos     == [device |-> "/dev/hda3", target |-> "/dos", fs |-> "msdos", user |-> TRUE]
Cdrom   == [device |-> "/dev/hdc", target |-> "/cdrom", fs |-> "iso9660", user |-> TRUE]
Home    == [device |-> "/dev/hda2", target |-> "/home", fs |-> "ext2", user |-> FALSE]
\* A line that leaves the file system to mount, and what mount writes for it.
CdAuto  == [device |-> "/dev/hdc", target |-> "/cdrom", fs |-> "auto", user |-> TRUE]

Lines(recs) == {[line |-> i, rec |-> recs[i]] : i \in DOMAIN recs}

DosAndCdrom      == {Dos, Cdrom}
DosAndCdromFstab == Lines(<<Dos, Cdrom>>)
JustDos          == {Dos}
JustDosFstab     == Lines(<<Dos>>)
AllPlaces        == {Dos, Cdrom, CdAuto, Home}
AllPlacesFstab   == Lines(<<Dos, CdAuto, Home>>)
JustCdrom        == {Cdrom}
JustCdromFstab   == Lines(<<Cdrom>>)
CdromMounted     == Lines(<<Cdrom>>)
AutoCd           == {CdAuto, Cdrom}
AutoCdFstab      == Lines(<<CdAuto>>)
NoLines          == {}

=============================================================================
