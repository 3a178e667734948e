---------------------------- MODULE MountSession ----------------------------
(***************************************************************************)
(* What mount_flag_mutex promises in xvmount: the window and a mount take   *)
(* turns.  At any time the lists are being rebuilt by core, or a mount that *)
(* the user asked for is under way, or neither; the view the user clicked   *)
(* on does not change while a mount is under way.                          *)
(***************************************************************************)
VARIABLES holder,    \* "free", "core": the lists are rebuilt, "ui": a mount is under way
          view       \* the rows the user sees

Init == holder = "free"

Acquire(who) == holder = "free" /\ holder' = who /\ UNCHANGED view

\* A rebuild may change the view at any of its steps, its last included.
Rebuild == holder = "core" /\ holder' \in {"core", "free"}

MountEnds == holder = "ui" /\ holder' = "free" /\ UNCHANGED view

Next == Acquire("core") \/ Acquire("ui") \/ Rebuild \/ MountEnds

Spec == Init /\ [][Next]_<<holder, view>>

=============================================================================
