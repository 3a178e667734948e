---------------------------- MODULE XvMountState ----------------------------
(***************************************************************************)
(* xvmount: what its threads share.  The main thread starts a core thread,  *)
(* which follows /etc/mtab, and an interface thread, which runs the XView   *)
(* notifier and forks mount and umount processes.  XvMount has the actions. *)
(***************************************************************************)
EXTENDS Clist, Integers

CONSTANTS
    Fstab,          \* the lines of /etc/fstab
    Mtab0,          \* the lines of /etc/mtab when xvmount starts
    IsRoot,         \* geteuid() = 0: the root panel shows, every line is listed
    MaxForks,       \* bound: forks in one run
    MaxExternal,    \* bound: changes other users make to /etc/mtab
    ForkMayFail,    \* fork() may return -1
    ChildMayDie,    \* a mount process may be killed by a signal
    MtabMayVanish,  \* /etc/mtab may be absent for a while
    FstabTrouble,   \* how a read of /etc/fstab may fail while somebody edits it
    SpuriousReturns \* pthread_cond_wait may return without a signal

ASSUME XvMountAssumption ==
    /\ Fstab \subseteq Line /\ IsFiniteSet(Fstab)
    /\ Mtab0 \subseteq Line /\ IsFiniteSet(Mtab0)
    /\ \A l, m \in Fstab : l.line = m.line => l = m
    /\ \A l, m \in Mtab0 : l.line = m.line => l = m
    /\ \A l \in Mtab0 : l.line <= Cardinality(Mtab0)
    /\ MaxForks \in Nat /\ MaxExternal \in Nat
    /\ {IsRoot, ForkMayFail, ChildMayDie, MtabMayVanish, SpuriousReturns} \subseteq BOOLEAN
    /\ FstabTrouble \subseteq {"unopened", "malformed"}

VARIABLES
    pc,                \* where each thread is
    caller,            \* who called mtab_construct
    threads_running, xmount_terminated,
    interface_done, mount_flag_mutex, construct_flag_mutex,   \* owner or "free"
    mtab, fstab, full_fstab,                                  \* clists
    mtab_stat,         \* the modification time core has seen
    rows, selected,    \* the two scrolling lists of the window
    inactive,          \* the four buttons are PANEL_INACTIVE
    job,               \* the locals of cmd_mount/mount_unmount_xview
    child,             \* the forked processes
    pipe_io, inputs,   \* pipe of the last fork; pipes with a registered reader
    disk,              \* /etc/mtab
    external,          \* changes by other users so far
    crashed            \* a NULL or freed list was dereferenced

coreVars == <<mtab, fstab, full_fstab, mtab_stat, caller>>
lockVars == <<interface_done, mount_flag_mutex, construct_flag_mutex>>
lifeVars == <<threads_running, xmount_terminated>>
viewVars == <<rows, selected, inactive>>
forkVars == <<child, pipe_io, inputs>>
envVars  == <<disk, external>>
vars == <<pc, coreVars, lockVars, lifeVars, viewVars, job, forkVars, envVars, crashed>>

Thread == {"main", "core", "ui"}
List   == {"mount_list", "fstab_list"}
Pid    == 1..MaxForks
Row    == [line : Nat, label : LabelType]

NoLabel == [alias |-> FALSE, device |-> "", target |-> ""]
NoChild == [st |-> "none", mount |-> FALSE, target |-> ""]

MainPc == {"start_core", "start_ui", "wait", "waiting", "woken", "spurious", "exited"}
CorePc == {"unborn", "chew_full", "lock_mount", "parse", "stat", "lock_interface", "clear",
           "fill_mtab", "fill_fstab", "loop", "organize", "lock_construct", "free", "exited"}
UiPc   == {"unborn", "build", "main_loop", "read_string", "lock_mount", "dispatch",
           "not_found", "fork", "destroy", "leave", "exited"}

-----------------------------------------------------------------------------
(* What every thread uses.                                                  *)

\* exit() and a segmentation fault end all threads at once.
Running == pc["main"] # "exited" /\ ~crashed

At(t, here) == Running /\ pc[t] = here
Goto(t, next) == pc' = [pc EXCEPT ![t] = next]

\* decmutex is one critical section of threads_running_mutex; the signal is
\* lost unless init_core already waits.
decmutex(t, next) ==
    /\ threads_running' = threads_running - 1
    /\ pc' = [pc EXCEPT ![t] = next,
                        !["main"] = IF threads_running = 1 /\ @ = "waiting" THEN "woken" ELSE @]

\* What fopen may say of /etc/fstab.
FstabOpens == IF "unopened" \in FstabTrouble THEN BOOLEAN ELSE {TRUE}

\* Another process may still be forked: the bound MaxForks.
MayFork == \E p \in Pid : child[p] = NoChild

\* The rows that show some nodes; row r of a list is the one below r others.
RowsOf(nodes) == {[line |-> n.line, label |-> Label(n.rec)] : n \in nodes}
RowAt(list, r) ==
    {x \in rows[list] : Cardinality({y \in rows[list] : y.line > x.line}) = r}

=============================================================================
