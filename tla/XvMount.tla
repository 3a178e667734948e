------------------------------ MODULE XvMount ------------------------------
(***************************************************************************)
(* The threads of xvmount and the mount and umount processes it forks       *)
(* (vcore.c, vcommon.c, vmount.c, xvmount_stubs.c).                         *)
(*                                                                         *)
(* One action is the code of a thread between two points where another      *)
(* thread can see or change what it uses: a lock, a read of a tab file, a   *)
(* write of a shared variable, a notifier callback.  Environment actions    *)
(* stand for the user, the forked processes and other users of /etc/mtab.   *)
(***************************************************************************)
EXTENDS XvMountState

-----------------------------------------------------------------------------
(* Bugs this code could plausibly have.  Next has none of these: each stands *)
(* for the action it is named after, and put in its place breaks a property  *)
(* below, which shows that the property depends on that action.             *)

\* init_core does not lock interface_done before it starts core.
InitWindowOpen ==
    /\ pc = [main |-> "start_core", core |-> "unborn", ui |-> "unborn"]
    /\ caller = "maintain_core"
    /\ threads_running = 2 /\ xmount_terminated = FALSE
    /\ interface_done = "free" /\ mount_flag_mutex = "free" /\ construct_flag_mutex = "free"
    /\ mtab = NullClist /\ fstab = NullClist /\ full_fstab = NullClist
    /\ mtab_stat = 0
    /\ rows = [l \in List |-> {}] /\ selected = [l \in List |-> {}]
    /\ inactive = FALSE
    /\ job = [list |-> "mount_list", row |-> 0, label |-> NoLabel, mount |-> FALSE]
    /\ child = [p \in Pid |-> NoChild] /\ pipe_io = 0 /\ inputs = {}
    /\ disk = [present |-> TRUE, lines |-> Mtab0, mtime |-> 1, next |-> Cardinality(Mtab0) + 1]
    /\ external = 0
    /\ crashed = FALSE

\* mtab_construct does not wait for mount_flag_mutex.
ConstructLockBarges ==
    /\ At("core", "lock_mount")
    /\ mount_flag_mutex' = "core"
    /\ Goto("core", "parse")
    /\ UNCHANGED <<coreVars, interface_done, construct_flag_mutex, lifeVars, viewVars,
                   job, forkVars, envVars, crashed>>

\* fstab is moderated by the list of the previous round.
ConstructParseOldModerator ==
    /\ At("core", "parse")
    /\ mtab'  = chew_tab(disk.present, disk.lines, NullClist)
    /\ \E opened \in FstabOpens : fstab' = chew_tab(opened, Fstab, mtab)
    /\ Goto("core", "stat")
    /\ UNCHANGED <<full_fstab, mtab_stat, caller, lockVars, lifeVars, viewVars, job, forkVars,
                   envVars, crashed>>

\* mtab_construct's stat fills a record of its own: core never learns the time
\* of the mtab it has parsed, and rebuilds the window every second.
ConstructStatForgets ==
    /\ At("core", "stat")
    /\ disk.present
    /\ Goto("core", "lock_interface")
    /\ UNCHANGED <<coreVars, lockVars, lifeVars, viewVars, job, forkVars, envVars, crashed>>

\* Every line of fstab is listed, with the user option or without.
CanAddFstabAll(n) == TRUE

\* mtab_organize counts the thread out but does not end it.
OrganizeStatFailsGoesOn ==
    /\ At("core", "organize")
    /\ ~disk.present
    /\ decmutex("core", "free")
    /\ UNCHANGED <<coreVars, lockVars, xmount_terminated, viewVars, job, forkVars, envVars, crashed>>

\* maintain_interface does not hand interface_done over.
BuildInterfaceKeepsLock ==
    /\ At("ui", "build")
    /\ Goto("ui", "main_loop")
    /\ UNCHANGED <<coreVars, lockVars, lifeVars, viewVars, job, forkVars, envVars, crashed>>

\* The buttons are disabled before the lock is taken.
ReadStringDisables ==
    /\ At("ui", "read_string")
    /\ \E x \in RowAt(job.list, job.row) : job' = [job EXCEPT !.label = x.label]
    /\ inactive' = TRUE
    /\ Goto("ui", "lock_mount")
    /\ UNCHANGED <<coreVars, lockVars, lifeVars, rows, selected, forkVars, envVars, crashed>>

\* mount_unmount_xview does not wait for mount_flag_mutex.
SessionLockBarges ==
    /\ At("ui", "lock_mount")
    /\ mount_flag_mutex' = "ui"
    /\ inactive' = TRUE
    /\ Goto("ui", "dispatch")
    /\ UNCHANGED <<coreVars, interface_done, construct_flag_mutex, lifeVars, rows, selected, job,
                   forkVars, envVars, crashed>>

\* It locks the other mutex.
SessionLockWrongMutex ==
    /\ At("ui", "lock_mount")
    /\ construct_flag_mutex = "free"
    /\ construct_flag_mutex' = "ui"
    /\ inactive' = TRUE
    /\ Goto("ui", "dispatch")
    /\ UNCHANGED <<coreVars, interface_done, mount_flag_mutex, lifeVars, rows, selected, job,
                   forkVars, envVars, crashed>>

\* The reader is registered on the pipe of the fork before.
ForkOldPipe(p) ==
    /\ At("ui", "fork")
    /\ child[p] = NoChild
    /\ \A q \in Pid : q < p => child[q] # NoChild
    /\ child' = [child EXCEPT ![p] = [st |-> "running", mount |-> job.mount,
                                      target |-> job.label.target]]
    /\ pipe_io' = p
    /\ inputs' = inputs \cup ({pipe_io} \cap Pid)
    /\ Goto("ui", "main_loop")
    /\ UNCHANGED <<coreVars, lockVars, lifeVars, viewVars, job, envVars, crashed>>

\* sigchldcatcher leaves the reader registered.
ChildExitedKeepsReader(p) ==
    /\ At("ui", "main_loop")
    /\ child[p].st = "exited"
    /\ child' = [child EXCEPT ![p].st = "reaped"]
    /\ inactive' = FALSE
    /\ mount_flag_mutex' = "free"
    /\ UNCHANGED <<pc, coreVars, interface_done, construct_flag_mutex, lifeVars, rows, selected, job,
                   pipe_io, inputs, envVars, crashed>>

\* sigchldcatcher unlocks construct_flag_mutex.
ChildExitedWrongMutex(p) ==
    /\ At("ui", "main_loop")
    /\ child[p].st = "exited"
    /\ child' = [child EXCEPT ![p].st = "reaped"]
    /\ inputs' = inputs \ {pipe_io}
    /\ inactive' = FALSE
    /\ construct_flag_mutex' = "free"
    /\ UNCHANGED <<pc, coreVars, interface_done, mount_flag_mutex, lifeVars, rows, selected, job,
                   pipe_io, envVars, crashed>>

\* cmd_exit raises xmount_terminated itself, as lines commented out in it did,
\* while the window lives on.
DestroyFlagFirst ==
    /\ At("ui", "main_loop")
    /\ xmount_terminated' = TRUE
    /\ UNCHANGED <<pc, coreVars, lockVars, threads_running, viewVars, job, forkVars, envVars, crashed>>

\* maintain_interface leaves the count to destroy_func.
LeaveUncounted ==
    /\ At("ui", "leave")
    /\ Goto("ui", "exited")
    /\ UNCHANGED <<coreVars, lockVars, lifeVars, viewVars, job, forkVars, envVars, crashed>>

-----------------------------------------------------------------------------
(* The start.                                                              *)

Init ==
    /\ pc = [main |-> "start_core", core |-> "unborn", ui |-> "unborn"]
    /\ caller = "maintain_core"
    /\ threads_running = 2 /\ xmount_terminated = FALSE
    /\ interface_done = "main" /\ mount_flag_mutex = "free" /\ construct_flag_mutex = "free"
    /\ mtab = NullClist /\ fstab = NullClist /\ full_fstab = NullClist
    /\ mtab_stat = 0
    /\ rows = [l \in List |-> {}] /\ selected = [l \in List |-> {}]
    /\ inactive = FALSE
    /\ job = [list |-> "mount_list", row |-> 0, label |-> NoLabel, mount |-> FALSE]
    /\ child = [p \in Pid |-> NoChild] /\ pipe_io = 0 /\ inputs = {}
    /\ disk = [present |-> TRUE, lines |-> Mtab0, mtime |-> 1, next |-> Cardinality(Mtab0) + 1]
    /\ external = 0
    /\ crashed = FALSE

-----------------------------------------------------------------------------
(* main: init_core, then exit(0).                                           *)

StartCore == /\ At("main", "start_core")
             /\ pc' = [pc EXCEPT !["main"] = "start_ui", !["core"] = "chew_full"]
             /\ UNCHANGED <<coreVars, lockVars, lifeVars, viewVars, job, forkVars, envVars, crashed>>

StartUi == /\ At("main", "start_ui")
           /\ pc' = [pc EXCEPT !["main"] = "wait", !["ui"] = "build"]
           /\ UNCHANGED <<coreVars, lockVars, lifeVars, viewVars, job, forkVars, envVars, crashed>>

\* pthread_cond_wait with no predicate: main sleeps whatever threads_running
\* is, and leaves init_core whatever made the wait return.
CondWait == /\ At("main", "wait")
            /\ Goto("main", "waiting")
            /\ UNCHANGED <<coreVars, lockVars, lifeVars, viewVars, job, forkVars, envVars, crashed>>

SpuriousReturn == /\ At("main", "waiting")
                  /\ SpuriousReturns
                  /\ Goto("main", "spurious")
                  /\ UNCHANGED <<coreVars, lockVars, lifeVars, viewVars, job, forkVars, envVars,
                                 crashed>>

MainExit == /\ At("main", "woken") \/ At("main", "spurious")
            /\ Goto("main", "exited")
            /\ UNCHANGED <<coreVars, lockVars, lifeVars, viewVars, job, forkVars, envVars, crashed>>

-----------------------------------------------------------------------------
(* The core thread: maintain_core, mtab_construct, mtab_organize.           *)

ChewFull == /\ At("core", "chew_full")
            /\ \E opened \in FstabOpens : full_fstab' = chew_tab(opened, Fstab, NullClist)
            /\ Goto("core", "lock_mount")
            /\ UNCHANGED <<mtab, fstab, mtab_stat, caller, lockVars, lifeVars, viewVars, job,
                           forkVars, envVars, crashed>>

ConstructLock == /\ At("core", "lock_mount")
                 /\ mount_flag_mutex = "free"
                 /\ mount_flag_mutex' = "core"
                 /\ Goto("core", "parse")
                 /\ UNCHANGED <<coreVars, interface_done, construct_flag_mutex, lifeVars, viewVars,
                                job, forkVars, envVars, crashed>>

\* Both lists are freed and parsed again; fstab is moderated by the new mtab.
ConstructParse ==
    /\ At("core", "parse")
    /\ mtab'  = chew_tab(disk.present, disk.lines, NullClist)
    /\ \E opened \in FstabOpens : fstab' = chew_tab(opened, Fstab, mtab')
    /\ Goto("core", "stat")
    /\ UNCHANGED <<full_fstab, mtab_stat, caller, lockVars, lifeVars, viewVars, job, forkVars,
                   envVars, crashed>>

\* add_tabentry cuts five fields off a line of /etc/fstab that has fewer: a
\* comment, or a line that somebody is typing.
ChewMalformed ==
    /\ At("core", "chew_full") \/ At("core", "parse")
    /\ "malformed" \in FstabTrouble
    /\ crashed' = TRUE
    /\ UNCHANGED <<pc, coreVars, lockVars, lifeVars, viewVars, job, forkVars, envVars>>

\* The time of the file is read after its content.
ConstructStat ==
    /\ At("core", "stat")
    /\ disk.present
    /\ mtab_stat' = disk.mtime
    /\ Goto("core", "lock_interface")
    /\ UNCHANGED <<mtab, fstab, full_fstab, caller, lockVars, lifeVars, viewVars, job, forkVars,
                   envVars, crashed>>

\* No /etc/mtab: core gives mount_flag_mutex back and ends.  A
\* construct_flag_mutex taken by mtab_organize stays locked.
ConstructStatFails ==
    /\ At("core", "stat")
    /\ ~disk.present
    /\ mount_flag_mutex' = "free"
    /\ decmutex("core", "exited")
    /\ UNCHANGED <<coreVars, interface_done, construct_flag_mutex, xmount_terminated, viewVars,
                   job, forkVars, envVars, crashed>>

ConstructLockInterface ==
    /\ At("core", "lock_interface")
    /\ interface_done = "free"
    /\ interface_done' = "core"
    /\ Goto("core", "clear")
    /\ UNCHANGED <<coreVars, mount_flag_mutex, construct_flag_mutex, lifeVars, viewVars, job,
                   forkVars, envVars, crashed>>

\* fill_xview_list: clear both scrolling lists, then insert a row for every
\* node, the mounted partitions first.
ClearLists ==
    /\ At("core", "clear")
    /\ rows' = [l \in List |-> {}] /\ selected' = [l \in List |-> {}]
    /\ Goto("core", "fill_mtab")
    /\ UNCHANGED <<coreVars, lockVars, lifeVars, inactive, job, forkVars, envVars, crashed>>

\* An ordinary user sees of mtab what a line of full_fstab lets users mount.
CanAddMtab(n) ==
    \/ IsRoot
    \/ LET lines == WithDevice(full_fstab, n.rec)
       IN  \E f \in lines : First(f, lines) /\ f.rec.user
CanAddFstab(n) == IsRoot \/ n.rec.user

\* mtab is searched for rows, and full_fstab for each row of an ordinary user;
\* list_get_device takes construct_flag_mutex, which core may hold already.
FillsFromNull == \/ mtab.st # "live"
                 \/ ~IsRoot /\ mtab.nodes # {} /\ full_fstab.st # "live"
FillMtab ==
    /\ At("core", "fill_mtab")
    /\ ~FillsFromNull
    /\ IsRoot \/ construct_flag_mutex \in {"free", "core"}
    /\ rows' = [rows EXCEPT !["mount_list"] = RowsOf({n \in mtab.nodes : CanAddMtab(n)})]
    /\ Goto("core", "fill_fstab")
    /\ UNCHANGED <<coreVars, lockVars, lifeVars, selected, inactive, job, forkVars, envVars, crashed>>

\* chew_tab returned 0 for one of the files: alist->ptr is read from NULL.
FillNull ==
    /\ \/ At("core", "fill_mtab") /\ FillsFromNull
       \/ At("core", "fill_fstab") /\ fstab.st # "live"
    /\ crashed' = TRUE
    /\ UNCHANGED <<pc, coreVars, lockVars, lifeVars, viewVars, job, forkVars, envVars>>

\* The end of fill_xview_list and of mtab_construct, and mtab_organize's unlock.
FillFstab ==
    /\ At("core", "fill_fstab")
    /\ fstab.st = "live"
    /\ rows' = [rows EXCEPT !["fstab_list"] = RowsOf({n \in fstab.nodes : CanAddFstab(n)})]
    /\ interface_done' = "free"
    /\ mount_flag_mutex' = "free"
    /\ construct_flag_mutex' = IF caller = "mtab_organize" THEN "free" ELSE construct_flag_mutex
    /\ Goto("core", "loop")
    /\ UNCHANGED <<coreVars, lifeVars, selected, inactive, job, forkVars, envVars, crashed>>

\* The loop of maintain_core reads both variables without their mutexes.
CoreLoop ==
    /\ At("core", "loop")
    /\ Goto("core", IF ~xmount_terminated /\ threads_running = 2 THEN "organize" ELSE "free")
    /\ UNCHANGED <<coreVars, lockVars, lifeVars, viewVars, job, forkVars, envVars, crashed>>

OrganizeSame ==
    /\ At("core", "organize")
    /\ disk.present /\ disk.mtime = mtab_stat
    /\ Goto("core", "loop")
    /\ UNCHANGED <<coreVars, lockVars, lifeVars, viewVars, job, forkVars, envVars, crashed>>

OrganizeChanged ==
    /\ At("core", "organize")
    /\ disk.present /\ disk.mtime # mtab_stat
    /\ caller' = "mtab_organize"
    /\ Goto("core", "lock_construct")
    /\ UNCHANGED <<mtab, fstab, full_fstab, mtab_stat, lockVars, lifeVars, viewVars, job, forkVars,
                   envVars, crashed>>

OrganizeStatFails ==
    /\ At("core", "organize")
    /\ ~disk.present
    /\ decmutex("core", "exited")
    /\ UNCHANGED <<coreVars, lockVars, xmount_terminated, viewVars, job, forkVars, envVars, crashed>>

OrganizeLock ==
    /\ At("core", "lock_construct")
    /\ construct_flag_mutex = "free"
    /\ construct_flag_mutex' = "core"
    /\ Goto("core", "lock_mount")
    /\ UNCHANGED <<coreVars, interface_done, mount_flag_mutex, lifeVars, viewVars, job, forkVars,
                   envVars, crashed>>

\* The three lists are freed without a lock, then the thread ends.
CoreFree ==
    /\ At("core", "free")
    /\ full_fstab.st # "null"
    /\ mtab' = list_free(mtab) /\ fstab' = list_free(fstab) /\ full_fstab' = list_free(full_fstab)
    /\ decmutex("core", "exited")
    /\ UNCHANGED <<mtab_stat, caller, lockVars, xmount_terminated, viewVars, job, forkVars, envVars,
                   crashed>>

\* fstab and mtab filled the window, but full_fstab could not be parsed.
FreeNull ==
    /\ At("core", "free")
    /\ full_fstab.st = "null"
    /\ crashed' = TRUE
    /\ UNCHANGED <<pc, coreVars, lockVars, lifeVars, viewVars, job, forkVars, envVars>>

CoreNext ==
    \/ ChewMalformed \/ FreeNull
    \/ ChewFull \/ ConstructLock \/ ConstructParse \/ ConstructStat \/ ConstructStatFails
    \/ ConstructLockInterface \/ ClearLists \/ FillMtab \/ FillNull \/ FillFstab
    \/ CoreLoop \/ OrganizeSame \/ OrganizeChanged \/ OrganizeStatFails \/ OrganizeLock \/ CoreFree

-----------------------------------------------------------------------------
(* The interface thread: maintain_interface and the notifier's callbacks.   *)

\* The window exists; interface_done, which init_core locked, is handed over.
BuildInterface ==
    /\ At("ui", "build")
    /\ interface_done' = "free"
    /\ Goto("ui", "main_loop")
    /\ UNCHANGED <<coreVars, mount_flag_mutex, construct_flag_mutex, lifeVars, viewVars, job,
                   forkVars, envVars, crashed>>

\* The user picks a row (PANEL_CHOOSE_ONE: one in each list).
Select(list, row) ==
    /\ At("ui", "main_loop")
    /\ row < Cardinality(rows[list])
    /\ selected' = [selected EXCEPT ![list] = {row}]
    /\ UNCHANGED <<pc, coreVars, lockVars, lifeVars, rows, inactive, job, forkVars, envVars, crashed>>

\* cmd_mount and cmd_unmount have found the selected row...
Command(list, row) ==
    /\ At("ui", "main_loop")
    /\ ~inactive
    /\ row \in selected[list]
    /\ MayFork
    /\ job' = [list |-> list, row |-> row, label |-> NoLabel, mount |-> list = "fstab_list"]
    /\ Goto("ui", "read_string")
    /\ UNCHANGED <<coreVars, lockVars, lifeVars, viewVars, forkVars, envVars, crashed>>

\* ...and now read its text.
ReadString ==
    /\ At("ui", "read_string")
    /\ \E x \in RowAt(job.list, job.row) : job' = [job EXCEPT !.label = x.label]
    /\ Goto("ui", "lock_mount")
    /\ UNCHANGED <<coreVars, lockVars, lifeVars, viewVars, forkVars, envVars, crashed>>

\* The row is gone: XView returns NULL and strdup reads it.
ReadStringNull ==
    /\ At("ui", "read_string")
    /\ RowAt(job.list, job.row) = {}
    /\ crashed' = TRUE
    /\ UNCHANGED <<pc, coreVars, lockVars, lifeVars, viewVars, job, forkVars, envVars>>

\* mount_unmount_xview
SessionLock ==
    /\ At("ui", "lock_mount")
    /\ mount_flag_mutex = "free"
    /\ mount_flag_mutex' = "ui"
    /\ inactive' = TRUE
    /\ Goto("ui", "dispatch")
    /\ UNCHANGED <<coreVars, interface_done, construct_flag_mutex, lifeVars, rows, selected, job,
                   forkVars, envVars, crashed>>

DispatchPath ==
    /\ At("ui", "dispatch")
    /\ ~job.label.alias
    /\ Goto("ui", "fork")
    /\ UNCHANGED <<coreVars, lockVars, lifeVars, viewVars, job, forkVars, envVars, crashed>>

\* list_get_alias locks construct_flag_mutex, searches full_fstab and unlocks.
DispatchAlias ==
    /\ At("ui", "dispatch")
    /\ job.label.alias
    /\ construct_flag_mutex = "free"
    /\ full_fstab.st # "null"
    /\ LET found == WithAlias(full_fstab, job.label)
       IN  \/ \E f \in found : /\ First(f, found)
                              /\ job' = [job EXCEPT !.label = Path(f.rec)]
                              /\ Goto("ui", "fork")
           \/ found = {} /\ Goto("ui", "not_found") /\ UNCHANGED job
    /\ UNCHANGED <<coreVars, lockVars, lifeVars, viewVars, forkVars, envVars, crashed>>

\* There was no full_fstab to search.
DispatchNull ==
    /\ At("ui", "dispatch")
    /\ job.label.alias
    /\ construct_flag_mutex = "free"
    /\ full_fstab.st = "null"
    /\ crashed' = TRUE
    /\ UNCHANGED <<pc, coreVars, lockVars, lifeVars, viewVars, job, forkVars, envVars>>

\* The code unlocks construct_flag_mutex, not mount_flag_mutex.  Unlocking a
\* recursive mutex of another thread frees it or fails with EPERM.
NotFound ==
    /\ At("ui", "not_found")
    /\ inactive' = FALSE
    /\ construct_flag_mutex' \in {construct_flag_mutex, "free"}
    /\ Goto("ui", "main_loop")
    /\ UNCHANGED <<coreVars, interface_done, mount_flag_mutex, lifeVars, rows, selected, job,
                   forkVars, envVars, crashed>>

\* mount_fork_exec in the parent: the read end of a new pipe is registered,
\* and sigchldcatcher for the new process.
Fork(p) ==
    /\ At("ui", "fork")
    /\ child[p] = NoChild
    /\ \A q \in Pid : q < p => child[q] # NoChild
    /\ child' = [child EXCEPT ![p] = [st |-> "running", mount |-> job.mount,
                                      target |-> job.label.target]]
    /\ pipe_io' = p
    /\ inputs' = inputs \cup {p}
    /\ Goto("ui", "main_loop")
    /\ UNCHANGED <<coreVars, lockVars, lifeVars, viewVars, job, envVars, crashed>>

\* fork() = -1: the thread ends with whatever it holds.
ForkFails ==
    /\ At("ui", "fork")
    /\ ForkMayFail
    /\ xmount_terminated' = TRUE
    /\ Goto("ui", "exited")
    /\ UNCHANGED <<coreVars, lockVars, threads_running, viewVars, job, forkVars, envVars, crashed>>

\* root_cmd_mount and root_cmd_unmount: no lock is taken, no button disabled.
RootCommand(e, mount) ==
    /\ At("ui", "main_loop")
    /\ IsRoot /\ ~inactive
    /\ MayFork
    /\ job' = [list |-> job.list, row |-> job.row, label |-> Path(e), mount |-> mount]
    /\ Goto("ui", "fork")
    /\ UNCHANGED <<coreVars, lockVars, lifeVars, viewVars, forkVars, envVars, crashed>>

\* sigchldcatcher for a process that exited: it closes the reader of the last
\* pipe, enables the buttons and unlocks mount_flag_mutex, whoever locked it.
ChildExited(p) ==
    /\ At("ui", "main_loop")
    /\ child[p].st = "exited"
    /\ child' = [child EXCEPT ![p].st = "reaped"]
    /\ inputs' = inputs \ {pipe_io}
    /\ inactive' = FALSE
    /\ mount_flag_mutex' = "free"
    /\ UNCHANGED <<pc, coreVars, interface_done, construct_flag_mutex, lifeVars, rows, selected, job,
                   pipe_io, envVars, crashed>>

\* A process killed by a signal fails WIFEXITED: NOTIFY_IGNORED, the reader and
\* the lock stay.
ChildSignalled(p) ==
    /\ At("ui", "main_loop")
    /\ child[p].st = "killed"
    /\ child' = [child EXCEPT ![p].st = "ignored"]
    /\ UNCHANGED <<pc, coreVars, lockVars, lifeVars, viewVars, job, pipe_io, inputs, envVars, crashed>>

\* An event of the frame when the core thread is gone.
FrameEvent ==
    /\ At("ui", "main_loop")
    /\ threads_running # 2
    /\ decmutex("ui", "exited")
    /\ UNCHANGED <<coreVars, lockVars, xmount_terminated, viewVars, job, forkVars, envVars, crashed>>

\* cmd_exit or the window manager: destroy_func counts the thread out...
Destroy ==
    /\ At("ui", "main_loop")
    /\ decmutex("ui", "destroy")
    /\ UNCHANGED <<coreVars, lockVars, xmount_terminated, viewVars, job, forkVars, envVars, crashed>>

DestroyFlag ==
    /\ At("ui", "destroy")
    /\ xmount_terminated' = TRUE
    /\ Goto("ui", "leave")
    /\ UNCHANGED <<coreVars, lockVars, threads_running, viewVars, job, forkVars, envVars, crashed>>

\* ...and maintain_interface counts it out again when xv_main_loop returns.
Leave ==
    /\ At("ui", "leave")
    /\ decmutex("ui", "exited")
    /\ UNCHANGED <<coreVars, lockVars, xmount_terminated, viewVars, job, forkVars, envVars, crashed>>

-----------------------------------------------------------------------------
(* The environment: forked processes and other writers of /etc/mtab.        *)

Mounted(e) == \E l \in disk.lines : SamePlace(l.rec, e)

\* A write of /etc/mtab keeps the file's time when it falls in the same second.
WriteMtab(lines, next) ==
    \E mtime \in {disk.mtime, disk.mtime + 1} :
        disk' = [present |-> TRUE, lines |-> lines, mtime |-> mtime, next |-> next]

\* mount writes the file system it found, never "auto".
AddLine(e) == /\ disk.present /\ ~Mounted(e) /\ e.fs # "auto"
              /\ WriteMtab(disk.lines \cup {[line |-> disk.next, rec |-> e]}, disk.next + 1)

RemoveLine(e) == /\ disk.present /\ Mounted(e)
                 /\ WriteMtab({l \in disk.lines : ~SamePlace(l.rec, e)}, disk.next)

\* mount or umount succeeds on the target it was given.
ChildWrites(p, e) ==
    /\ Running
    /\ child[p].st = "running" /\ e.target = child[p].target
    /\ IF child[p].mount THEN AddLine(e) ELSE RemoveLine(e)
    /\ child' = [child EXCEPT ![p].st = "wrote"]
    /\ UNCHANGED <<pc, coreVars, lockVars, lifeVars, viewVars, job, pipe_io, inputs, external, crashed>>

\* It exits, having changed the table or failed.
ChildExits(p) ==
    /\ Running
    /\ child[p].st \in {"running", "wrote"}
    /\ child' = [child EXCEPT ![p].st = "exited"]
    /\ UNCHANGED <<pc, coreVars, lockVars, lifeVars, viewVars, job, pipe_io, inputs, envVars, crashed>>

ChildKilled(p) ==
    /\ Running
    /\ ChildMayDie
    /\ child[p].st \in {"running", "wrote"}
    /\ child' = [child EXCEPT ![p].st = "killed"]
    /\ UNCHANGED <<pc, coreVars, lockVars, lifeVars, viewVars, job, pipe_io, inputs, envVars, crashed>>

\* Another user mounts or unmounts.
OtherUser(e) ==
    /\ Running
    /\ external < MaxExternal
    /\ external' = external + 1
    /\ AddLine(e) \/ RemoveLine(e)
    /\ UNCHANGED <<pc, coreVars, lockVars, lifeVars, viewVars, job, forkVars, crashed>>

\* /etc/mtab is removed, and written again.
MtabVanishes ==
    /\ Running
    /\ MtabMayVanish /\ external < MaxExternal
    /\ external' = external + 1
    /\ disk.present /\ disk' = [disk EXCEPT !.present = FALSE]
    /\ UNCHANGED <<pc, coreVars, lockVars, lifeVars, viewVars, job, forkVars, crashed>>

MtabReturns ==
    /\ Running
    /\ ~disk.present
    /\ WriteMtab(disk.lines, disk.next)
    /\ UNCHANGED <<pc, coreVars, lockVars, lifeVars, viewVars, job, forkVars, external, crashed>>

-----------------------------------------------------------------------------
MainNext == StartCore \/ StartUi \/ CondWait \/ MainExit

\* What the interface thread does on its own, and what the user starts.
UiStep == \/ BuildInterface \/ ReadString \/ ReadStringNull
          \/ SessionLock \/ DispatchPath \/ DispatchAlias \/ DispatchNull \/ NotFound
          \/ \E p \in Pid : Fork(p) \/ ChildExited(p) \/ ChildSignalled(p)
          \/ ForkFails \/ DestroyFlag \/ Leave

UserNext == \/ \E list \in List, row \in 0..Cardinality(Entry) : Select(list, row) \/ Command(list, row)
            \/ \E e \in Entry, mount \in BOOLEAN : RootCommand(e, mount)
            \/ FrameEvent \/ Destroy

EnvNext == \/ \E p \in Pid : ChildExits(p) \/ ChildKilled(p)
           \/ \E p \in Pid, e \in Entry : ChildWrites(p, e)
           \/ \E e \in Entry : OtherUser(e)
           \/ MtabVanishes \/ MtabReturns
           \/ SpuriousReturn

Next == MainNext \/ CoreNext \/ UiStep \/ UserNext \/ EnvNext

Spec == Init /\ [][Next]_vars

\* Threads and processes run on; the user and other users owe nothing.
Fairness ==
    /\ WF_vars(MainNext) /\ WF_vars(CoreNext) /\ WF_vars(UiStep)
    /\ \A p \in Pid : WF_vars(ChildExits(p))

FairSpec == Spec /\ Fairness

-----------------------------------------------------------------------------
DiskType == [present : BOOLEAN, lines : SUBSET Line, mtime : Nat, next : Nat]
ChildType == [st : {"none", "running", "wrote", "exited", "killed", "reaped", "ignored"},
              mount : BOOLEAN, target : Name]

TypeOK ==
    /\ pc \in [main : MainPc, core : CorePc, ui : UiPc]
    /\ caller \in {"maintain_core", "mtab_organize"}
    /\ threads_running \in Int /\ xmount_terminated \in BOOLEAN
    /\ interface_done \in {"free", "main", "core"}
    /\ mount_flag_mutex \in {"free", "core", "ui"}
    /\ construct_flag_mutex \in {"free", "core"}
    /\ mtab \in ClistType /\ fstab \in ClistType /\ full_fstab \in ClistType
    /\ mtab_stat \in Nat
    /\ rows \in [List -> SUBSET Row] /\ selected \in [List -> SUBSET Nat]
    /\ inactive \in BOOLEAN
    /\ job \in [list : List, row : Nat, label : LabelType, mount : BOOLEAN]
    /\ child \in [Pid -> ChildType] /\ pipe_io \in 0..MaxForks /\ inputs \subseteq Pid
    /\ disk \in DiskType
    /\ external \in Nat
    /\ crashed \in BOOLEAN

-----------------------------------------------------------------------------
(* Safety.                                                                  *)

\* Core is inside mtab_construct, past its lock of mount_flag_mutex.
Rebuilding == pc["core"] \in {"parse", "stat", "lock_interface", "clear", "fill_mtab", "fill_fstab"}

\* The interface thread is mounting, or a forked process is not yet waited for.
InSession == \/ pc["ui"] \in {"dispatch", "fork", "not_found"}
             \/ \E p \in Pid : child[p].st \in {"running", "wrote", "exited", "killed"}

\* Processes that sigchldcatcher has not seen exit; one killed by a signal it never does.
Unfinished == {p \in Pid : child[p].st \in {"running", "wrote", "exited", "killed", "ignored"}}

\* The lists are never rebuilt between the click that mounts a partition and
\* the end of the forked process (mount_flag_mutex: vcommon.c:152, :195,
\* vcore.c:55), as long as no root command bypasses the mutex.
RebuildExcludesMount == ~(Rebuilding /\ InSession)

\* No list is read after maintain_core freed it or before it was parsed: the
\* interface thread looks up aliases, and core refills the window, in live
\* lists only (vcommon.c:162, :107, vcore.c:115-117, freed without a lock), but
\* for the NULL list of a tab file that could not be opened.
Parseable(clist) == clist.st = "live" \/ ("unopened" \in FstabTrouble /\ clist.st = "null")
ListsOutliveReaders ==
    /\ pc["ui"] = "dispatch" => Parseable(full_fstab)
    /\ pc["core"] \in {"clear", "fill_mtab", "fill_fstab"}
          => Parseable(full_fstab) /\ Parseable(fstab) /\ mtab.st # "freed"

\* interface_done hands the window over: core fills the scrolling lists only
\* after the interface thread built them (vcore.c:69, :135, :165).
WindowBuiltBeforeFill ==
    pc["core"] \in {"clear", "fill_mtab", "fill_fstab"} => pc["ui"] \notin {"unborn", "build"}

\* The buttons are inactive for as long as a mount is under way, and inactive
\* buttons mean that the interface thread holds mount_flag_mutex
\* (xv_enable_disable, vcommon.c:153, :166, :194).
ButtonsFollowMount == /\ InSession => inactive
                      /\ inactive => mount_flag_mutex = "ui"

\* For an ordinary user, the readers registered are exactly those of the
\* processes that sigchldcatcher has not seen exit: none is lost while its
\* process lives, and the reader of a process that exited is removed, not one
\* left over (pipe_io is one global, vmount.c:78, :97, vcommon.c:193).
OutputHeard == inputs = Unfinished

\* For root too, the single pipe_io only swaps readers: for each process whose
\* reader was removed too early there is one that was left registered when its
\* process exited, and that of the last fork never is (vmount.c:78, vcommon.c:193).
ReadersOnlySwapped ==
    /\ Cardinality(Unfinished \ inputs) <= Cardinality(inputs \ Unfinished)
    /\ pipe_io \notin inputs \ Unfinished

\* decmutex signals init_core only when the interface thread is on its way out:
\* two decrements cannot both come from the core thread (vcore.c:32-37).  A wait
\* that returns without the signal ends the program at any time.
SignalMeansLeaving ==
    pc["main"] = "woken" => pc["ui"] \in {"destroy", "leave", "exited"}

\* No text is a row of both scrolling lists: fstab is moderated by the mtab that
\* is shown (vcore.c:58-59, vlist.c:243-256).  This needs texts that tell the
\* records apart: all CD-ROMs are "[cdrom]" (vlist.c:134), and a line of type
\* auto is not the record that mount writes for it (compare_record).
TextsTellApart == \A e, f \in Entry : Label(e) = Label(f) => compare_record(e, f)
NoRowTwice ==
    TextsTellApart =>
        \A x \in rows["mount_list"], y \in rows["fstab_list"] : x.label # y.label

\* xvmount dies of a bad pointer only after a change from outside.  If a click
\* finds its row gone (vcommon.c:126-127 against xvmount_stubs.c:132-133), the
\* window was rebuilt, and for a reason: /etc/mtab was written since the start.
\* If core fills the window from a NULL mtab, /etc/mtab was removed and came
\* back (vcore.c:58-60).  Any other crash is that of an fstab that could not be
\* read (vlist.c:236-240, :268-271).
FstabUnread == \/ "unopened" \in FstabTrouble /\ "null" \in {fstab.st, full_fstab.st}
               \/ "malformed" \in FstabTrouble /\ pc["core"] \in {"chew_full", "parse"}
CrashNeedsChange ==
    crashed => \/ pc["ui"] = "read_string" /\ caller = "mtab_organize" /\ disk.mtime > 1
               \/ pc["core"] = "fill_mtab" /\ mtab.st = "null" /\ external > 0
               \/ FstabUnread

\* An ordinary user's mount always names the mount point of an fstab line with
\* the user option, from the filling of the rows to the fork
\* (vcommon.c:103-109, :154-164, vmount.c:118), as long as every line that has
\* an alias has that option: all CD-ROMs share one alias (vlist.c:134), and
\* list_get_alias may find another line than the one whose row was chosen.
ForksOnlyUserTargets ==
    ~IsRoot /\ (\A l \in Fstab : HasAlias(l.rec) => l.rec.user) =>
        \A p \in Pid : child[p] # NoChild =>
            \E l \in Fstab : l.rec.user /\ l.rec.target = child[p].target

\* mount_flag_mutex makes rebuilds and mounts take turns: what MountSession
\* promises, for an ordinary user (vcore.c:55, vcommon.c:152, :195).
Session == INSTANCE MountSession WITH holder <- mount_flag_mutex, view <- rows
TurnsTaken == Session!Spec

-----------------------------------------------------------------------------
(* Liveness, under Fairness.                                                *)

Over == ~Running \/ pc["ui"] = "exited"

\* Every click on a button is answered: the mount ends, the buttons are active
\* again and mount_flag_mutex is free for the next one (vcommon.c:144-199).
ClickAnswered ==
    pc["ui"] \in {"lock_mount", "dispatch"} ~> (~inactive /\ mount_flag_mutex # "ui") \/ Over

\* Closing the window ends the program, provided init_core waited before the
\* count of threads could reach zero (vcommon.c:232-241, vcore.c:136-138, :173).
ExitEnds ==
    (/\ pc["ui"] = "destroy"
     /\ pc["main"] = "woken" \/ (pc["main"] = "waiting" /\ threads_running = 1)) ~> ~Running

\* Core never waits forever for a lock while the program runs.
CoreGetsLocks == (pc["core"] \in {"lock_construct", "lock_mount", "lock_interface", "fill_mtab"})
                    ~> pc["core"] \in {"loop", "free", "exited"} \/ Over

-----------------------------------------------------------------------------
(* What a comment of the code says and the code does not do.                *)

\* The buttons are "disabled and enabled" (vcommon.c:134) around a mount:
\* active buttons mean that the next click can take mount_flag_mutex.
ButtonsMeanFree == pc["ui"] = "main_loop" /\ ~inactive => mount_flag_mutex # "ui"

=============================================================================
