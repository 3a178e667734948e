---------------------------- MODULE XvMountProofs ----------------------------
(***************************************************************************)
(* Types and safety of XvMount, for every fstab, every mtab and every bound. *)
(* In the proof of types, steps that only move a control state or a lock are *)
(* proved from their definition; those that build a record or a list have a *)
(* lemma.  Each other part of the inductive invariant is about one mechanism *)
(* of the code, and is preserved by every step given the parts before it.   *)
(***************************************************************************)
EXTENDS XvMount, TLAPS, FiniteSetTheorems

-----------------------------------------------------------------------------
(* What the operators of Clist and XvMountState return.                     *)

\* The text read before any row is chosen is a label.
LEMMA NoLabelType == NoLabel \in LabelType
<1>1. "" \in Name
  BY DEF Name
<1> QED BY <1>1 DEF NoLabel, LabelType

\* A process slot that was never used is a child record.
LEMMA NoChildType == NoChild \in ChildType
<1>1. "" \in Name
  BY DEF Name
<1> QED BY <1>1 DEF NoChild, ChildType

\* "device -> target" is a label.
LEMMA PathType == ASSUME NEW e \in Entry PROVE Path(e) \in LabelType
<1>1. e.device \in Name /\ e.target \in Name
  BY DEF Name
<1> QED BY <1>1 DEF Path, LabelType

\* So is what fill_xview_single_list writes for a record, alias or not.
LEMMA LabelOfRecord == ASSUME NEW e \in Entry PROVE Label(e) \in LabelType
<1>1. e.target \in Name /\ "" \in Name /\ "[cdrom]" \in Name
  BY DEF Name
<1>2. CASE HasAlias(e)
  BY <1>1, <1>2 DEF Label, LabelType
<1>3. CASE ~HasAlias(e)
  BY <1>3, PathType DEF Label
<1> QED BY <1>2, <1>3

\* The rows of some nodes are rows.
LEMMA RowsOfType ==
  ASSUME NEW nodes, nodes \subseteq Line
  PROVE  RowsOf(nodes) \subseteq Row
BY LabelOfRecord DEF RowsOf, Row, Line

\* chew_tab returns a clist whatever it is moderated by.
LEMMA ChewTabType ==
  ASSUME NEW present, NEW lines, NEW moderator, lines \subseteq Line
  PROVE  chew_tab(present, lines, moderator) \in ClistType
<1>1. [st |-> "null", nodes |-> {}] \in ClistType
  BY DEF ClistType
<1> QED BY <1>1 DEF chew_tab, ClistType, NullClist

\* The two writes of /etc/mtab leave a file.
LEMMA AddLineType ==
  ASSUME NEW e \in Entry, TypeOK, AddLine(e)
  PROVE  disk' \in DiskType
<1>1. [line |-> disk.next, rec |-> e] \in Line
  BY DEF TypeOK, DiskType, Line
<1> QED BY <1>1 DEF AddLine, WriteMtab, TypeOK, DiskType

LEMMA RemoveLineType ==
  ASSUME NEW e \in Entry, TypeOK, RemoveLine(e)
  PROVE  disk' \in DiskType
BY DEF RemoveLine, WriteMtab, TypeOK, DiskType

-----------------------------------------------------------------------------
(* The initial state.                                                       *)

LEMMA InitTypeOK == Init => TypeOK
<1> SUFFICES ASSUME Init PROVE TypeOK
  OBVIOUS
<1>1. pc \in [main : MainPc, core : CorePc, ui : UiPc]
  BY DEF Init, MainPc, CorePc, UiPc
<1>2. /\ mtab \in ClistType /\ fstab \in ClistType /\ full_fstab \in ClistType
  BY DEF Init, NullClist, ClistType
<1>3. rows \in [List -> SUBSET Row] /\ selected \in [List -> SUBSET Nat]
  BY DEF Init
<1>4. job \in [list : List, row : Nat, label : LabelType, mount : BOOLEAN]
  BY NoLabelType DEF Init, List
<1>5. child \in [Pid -> ChildType]
  BY NoChildType DEF Init
<1>6. disk \in DiskType
  BY XvMountAssumption, FS_CardinalityType DEF Init, DiskType
<1>7. pipe_io \in 0..MaxForks /\ inputs \subseteq Pid
  BY XvMountAssumption DEF Init
<1>8. inactive \in BOOLEAN /\ crashed \in BOOLEAN /\ xmount_terminated \in BOOLEAN
  BY DEF Init
<1>9. threads_running \in Int /\ mtab_stat \in Nat /\ external \in Nat
  BY DEF Init
<1>10. /\ caller \in {"maintain_core", "mtab_organize"}
       /\ interface_done \in {"free", "main", "core"}
       /\ mount_flag_mutex \in {"free", "core", "ui"}
       /\ construct_flag_mutex \in {"free", "core"}
  BY DEF Init
<1> QED BY <1>1, <1>2, <1>3, <1>4, <1>5, <1>6, <1>7, <1>8, <1>9, <1>10 DEF TypeOK

-----------------------------------------------------------------------------
(* The steps that build something.                                          *)

LEMMA ChewFullType == TypeOK /\ ChewFull => TypeOK'
<1> SUFFICES ASSUME TypeOK, ChewFull PROVE TypeOK'
  OBVIOUS
<1>1. full_fstab' \in ClistType
  <2>1. PICK opened \in FstabOpens : full_fstab' = chew_tab(opened, Fstab, NullClist)
    BY DEF ChewFull
  <2> QED BY <2>1, ChewTabType, XvMountAssumption
<1>2. pc' \in [main : MainPc, core : CorePc, ui : UiPc]
  BY DEF ChewFull, TypeOK, At, Goto, CorePc
<1> QED BY <1>1, <1>2 DEF TypeOK, ChewFull, lockVars, lifeVars, viewVars, forkVars, envVars

LEMMA ConstructParseType == TypeOK /\ ConstructParse => TypeOK'
<1> SUFFICES ASSUME TypeOK, ConstructParse PROVE TypeOK'
  OBVIOUS
<1>1. disk.lines \subseteq Line /\ Fstab \subseteq Line
  BY XvMountAssumption DEF TypeOK, DiskType
<1>2. mtab' \in ClistType /\ fstab' \in ClistType
  <2>1. PICK opened \in FstabOpens : fstab' = chew_tab(opened, Fstab, mtab')
    BY DEF ConstructParse
  <2>2. mtab' = chew_tab(disk.present, disk.lines, NullClist)
    BY DEF ConstructParse
  <2> QED BY <1>1, <2>1, <2>2, ChewTabType
<1>3. pc' \in [main : MainPc, core : CorePc, ui : UiPc]
  BY DEF ConstructParse, TypeOK, At, Goto, CorePc
<1> QED BY <1>2, <1>3 DEF TypeOK, ConstructParse, lockVars, lifeVars, viewVars, forkVars, envVars

LEMMA FillMtabType == TypeOK /\ FillMtab => TypeOK'
<1> SUFFICES ASSUME TypeOK, FillMtab PROVE TypeOK'
  OBVIOUS
<1>1. {n \in mtab.nodes : CanAddMtab(n)} \subseteq Line
  BY DEF TypeOK, ClistType
<1>2. rows' \in [List -> SUBSET Row]
  BY <1>1, RowsOfType DEF FillMtab, TypeOK, List
<1>3. pc' \in [main : MainPc, core : CorePc, ui : UiPc]
  BY DEF FillMtab, TypeOK, At, Goto, CorePc
<1> QED BY <1>2, <1>3 DEF TypeOK, FillMtab, coreVars, lockVars, lifeVars, forkVars, envVars

LEMMA FillFstabType == TypeOK /\ FillFstab => TypeOK'
<1> SUFFICES ASSUME TypeOK, FillFstab PROVE TypeOK'
  OBVIOUS
<1>1. {n \in fstab.nodes : CanAddFstab(n)} \subseteq Line
  BY DEF TypeOK, ClistType
<1>2. rows' \in [List -> SUBSET Row]
  BY <1>1, RowsOfType DEF FillFstab, TypeOK, List
<1>3. pc' \in [main : MainPc, core : CorePc, ui : UiPc]
  BY DEF FillFstab, TypeOK, At, Goto, CorePc
<1>4. construct_flag_mutex' \in {"free", "core"}
  BY DEF FillFstab, TypeOK
<1> QED BY <1>2, <1>3, <1>4 DEF TypeOK, FillFstab, coreVars, lifeVars, forkVars, envVars

LEMMA CommandType ==
  ASSUME NEW list \in List, NEW row \in 0..Cardinality(Entry), TypeOK, Command(list, row)
  PROVE  TypeOK'
<1>1. row \in Nat
  BY DEF TypeOK, Command
<1>2. job' \in [list : List, row : Nat, label : LabelType, mount : BOOLEAN]
  BY <1>1, NoLabelType DEF Command, List
<1>3. pc' \in [main : MainPc, core : CorePc, ui : UiPc]
  BY DEF Command, TypeOK, At, Goto, UiPc
<1> QED BY <1>2, <1>3 DEF TypeOK, Command, coreVars, lockVars, lifeVars, viewVars, forkVars, envVars

LEMMA ReadStringType == TypeOK /\ ReadString => TypeOK'
<1> SUFFICES ASSUME TypeOK, ReadString PROVE TypeOK'
  OBVIOUS
<1>1. job' \in [list : List, row : Nat, label : LabelType, mount : BOOLEAN]
  BY DEF ReadString, TypeOK, RowAt, Row
<1>2. pc' \in [main : MainPc, core : CorePc, ui : UiPc]
  BY DEF ReadString, TypeOK, At, Goto, UiPc
<1> QED BY <1>1, <1>2 DEF TypeOK, ReadString, coreVars, lockVars, lifeVars, viewVars, forkVars, envVars

LEMMA DispatchAliasType == TypeOK /\ DispatchAlias => TypeOK'
<1> SUFFICES ASSUME TypeOK, DispatchAlias PROVE TypeOK'
  OBVIOUS
<1> DEFINE found == WithAlias(full_fstab, job.label)
<1>1. job' \in [list : List, row : Nat, label : LabelType, mount : BOOLEAN]
  <2>1. CASE \E f \in found : job' = [job EXCEPT !.label = Path(f.rec)]
    <3>1. PICK f \in found : job' = [job EXCEPT !.label = Path(f.rec)]
      BY <2>1
    <3>2. f.rec \in Entry
      BY DEF TypeOK, WithAlias, ClistType, Line
    <3> QED BY <3>1, <3>2, PathType DEF TypeOK
  <2>2. CASE job' = job
    BY <2>2 DEF TypeOK
  <2> QED BY <2>1, <2>2 DEF DispatchAlias
<1>2. pc' \in [main : MainPc, core : CorePc, ui : UiPc]
  BY DEF DispatchAlias, TypeOK, At, Goto, UiPc
<1> QED BY <1>1, <1>2 DEF TypeOK, DispatchAlias, coreVars, lockVars, lifeVars, viewVars, forkVars,
                          envVars

LEMMA NotFoundType == TypeOK /\ NotFound => TypeOK'
<1> SUFFICES ASSUME TypeOK, NotFound PROVE TypeOK'
  OBVIOUS
<1>1. inactive' \in BOOLEAN
  BY DEF NotFound
<1>2. construct_flag_mutex' \in {"free", "core"}
  BY DEF NotFound, TypeOK
<1>3. pc' \in [main : MainPc, core : CorePc, ui : UiPc]
  BY DEF NotFound, TypeOK, At, Goto, UiPc
<1> QED BY <1>1, <1>2, <1>3 DEF TypeOK, NotFound, coreVars, lifeVars, forkVars, envVars

LEMMA ForkType == ASSUME NEW p \in Pid, TypeOK, Fork(p) PROVE TypeOK'
<1>1. job.label.target \in Name /\ job.mount \in BOOLEAN
  BY DEF TypeOK, LabelType
<1>2. child' \in [Pid -> ChildType]
  BY <1>1 DEF Fork, TypeOK, ChildType
<1>3. pc' \in [main : MainPc, core : CorePc, ui : UiPc]
  BY DEF Fork, TypeOK, At, Goto, UiPc
<1>4. p \in 0..MaxForks
  BY XvMountAssumption DEF Pid
<1>5. inputs' \subseteq Pid
  BY DEF Fork, TypeOK
<1> QED BY <1>2, <1>3, <1>4, <1>5 DEF TypeOK, Fork, coreVars, lockVars, lifeVars, viewVars, envVars

LEMMA RootCommandType ==
  ASSUME NEW e \in Entry, NEW mount \in BOOLEAN, TypeOK, RootCommand(e, mount)
  PROVE  TypeOK'
<1>1. job' \in [list : List, row : Nat, label : LabelType, mount : BOOLEAN]
  BY PathType DEF RootCommand, TypeOK
<1>2. pc' \in [main : MainPc, core : CorePc, ui : UiPc]
  BY DEF RootCommand, TypeOK, At, Goto, UiPc
<1> QED BY <1>1, <1>2 DEF TypeOK, RootCommand, coreVars, lockVars, lifeVars, viewVars, forkVars,
                          envVars

LEMMA ChildExitedType == ASSUME NEW p \in Pid, TypeOK, ChildExited(p) PROVE TypeOK'
<1>1. child' \in [Pid -> ChildType]
  BY DEF ChildExited, TypeOK, ChildType
<1>2. inputs' \subseteq Pid /\ inactive' \in BOOLEAN /\ mount_flag_mutex' = "free"
  BY DEF ChildExited, TypeOK
<1> QED BY <1>1, <1>2 DEF TypeOK, ChildExited, coreVars, lifeVars, envVars

LEMMA ChildWritesType ==
  ASSUME NEW p \in Pid, NEW e \in Entry, TypeOK, ChildWrites(p, e)
  PROVE  TypeOK'
<1>1. disk' \in DiskType
  BY AddLineType, RemoveLineType DEF ChildWrites
<1>2. child' \in [Pid -> ChildType]
  BY DEF ChildWrites, TypeOK, ChildType
<1> QED BY <1>1, <1>2 DEF TypeOK, ChildWrites, coreVars, lockVars, lifeVars, viewVars

LEMMA OtherUserType == ASSUME NEW e \in Entry, TypeOK, OtherUser(e) PROVE TypeOK'
<1>1. disk' \in DiskType
  BY AddLineType, RemoveLineType DEF OtherUser
<1>2. external' \in Nat
  BY DEF OtherUser, TypeOK
<1> QED BY <1>1, <1>2 DEF TypeOK, OtherUser, coreVars, lockVars, lifeVars, viewVars, forkVars

LEMMA MtabVanishesType == TypeOK /\ MtabVanishes => TypeOK'
<1> SUFFICES ASSUME TypeOK, MtabVanishes PROVE TypeOK'
  OBVIOUS
<1>1. disk' \in DiskType
  BY DEF MtabVanishes, TypeOK, DiskType
<1>2. external' \in Nat
  BY DEF MtabVanishes, TypeOK
<1> QED BY <1>1, <1>2 DEF TypeOK, MtabVanishes, coreVars, lockVars, lifeVars, viewVars, forkVars

-----------------------------------------------------------------------------
(* All steps, by thread.                                                    *)

LEMMA MainTypeOK == TypeOK /\ MainNext => TypeOK'
<1> SUFFICES ASSUME TypeOK, MainNext PROVE TypeOK'
  OBVIOUS
<1> USE DEF TypeOK, At, Goto, MainPc, CorePc, UiPc, coreVars, lockVars, lifeVars, viewVars,
            forkVars, envVars
<1>1. CASE StartCore BY <1>1 DEF StartCore
<1>2. CASE StartUi   BY <1>2 DEF StartUi
<1>3. CASE CondWait  BY <1>3 DEF CondWait
<1>4. CASE MainExit  BY <1>4 DEF MainExit
<1> QED BY <1>1, <1>2, <1>3, <1>4 DEF MainNext

LEMMA CoreTypeOK == TypeOK /\ CoreNext => TypeOK'
<1> SUFFICES ASSUME TypeOK, CoreNext PROVE TypeOK'
  OBVIOUS
<1>1. CASE ChewFull BY <1>1, ChewFullType
<1>2. CASE ConstructParse BY <1>2, ConstructParseType
<1>3. CASE FillMtab BY <1>3, FillMtabType
<1>4. CASE FillFstab BY <1>4, FillFstabType
<1> USE DEF TypeOK, At, Goto, decmutex, MainPc, CorePc, UiPc, coreVars, lockVars, lifeVars,
            viewVars, forkVars, envVars
<1>5. CASE ConstructLock BY <1>5 DEF ConstructLock
<1>6. CASE ConstructStat BY <1>6 DEF ConstructStat, DiskType
<1>7. CASE ConstructStatFails BY <1>7 DEF ConstructStatFails
<1>8. CASE ConstructLockInterface BY <1>8 DEF ConstructLockInterface
<1>9. CASE ClearLists BY <1>9 DEF ClearLists
<1>10. CASE FillNull BY <1>10 DEF FillNull
<1>11. CASE CoreLoop BY <1>11 DEF CoreLoop
<1>12. CASE OrganizeSame BY <1>12 DEF OrganizeSame
<1>13. CASE OrganizeChanged BY <1>13 DEF OrganizeChanged
<1>14. CASE OrganizeStatFails BY <1>14 DEF OrganizeStatFails
<1>15. CASE OrganizeLock BY <1>15 DEF OrganizeLock
<1>16. CASE CoreFree BY <1>16 DEF CoreFree, list_free, ClistType
<1>17. CASE ChewMalformed BY <1>17 DEF ChewMalformed
<1>18. CASE FreeNull BY <1>18 DEF FreeNull
<1> QED BY <1>1, <1>2, <1>3, <1>4, <1>5, <1>6, <1>7, <1>8, <1>9, <1>10, <1>11, <1>12, <1>13,
           <1>14, <1>15, <1>16, <1>17, <1>18 DEF CoreNext

LEMMA UiTypeOK == TypeOK /\ UiStep => TypeOK'
<1> SUFFICES ASSUME TypeOK, UiStep PROVE TypeOK'
  OBVIOUS
<1>1. CASE ReadString BY <1>1, ReadStringType
<1>2. CASE DispatchAlias BY <1>2, DispatchAliasType
<1>3. CASE NotFound BY <1>3, NotFoundType
<1>4. CASE \E p \in Pid : Fork(p) BY <1>4, ForkType
<1>5. CASE \E p \in Pid : ChildExited(p) BY <1>5, ChildExitedType
<1>6. CASE \E p \in Pid : ChildSignalled(p)
  BY <1>6 DEF ChildSignalled, TypeOK, At, ChildType, coreVars, lockVars, lifeVars, viewVars, envVars
<1> USE DEF TypeOK, At, Goto, decmutex, MainPc, CorePc, UiPc, coreVars, lockVars, lifeVars,
            viewVars, forkVars, envVars
<1>7. CASE BuildInterface BY <1>7 DEF BuildInterface
<1>8. CASE ReadStringNull BY <1>8 DEF ReadStringNull
<1>9. CASE SessionLock BY <1>9 DEF SessionLock
<1>10. CASE DispatchPath BY <1>10 DEF DispatchPath
<1>11. CASE ForkFails BY <1>11 DEF ForkFails
<1>12. CASE DestroyFlag BY <1>12 DEF DestroyFlag
<1>13. CASE Leave BY <1>13 DEF Leave
<1>14. CASE DispatchNull BY <1>14 DEF DispatchNull
<1> QED BY <1>1, <1>2, <1>3, <1>4, <1>5, <1>6, <1>7, <1>8, <1>9, <1>10, <1>11, <1>12,
           <1>13, <1>14 DEF UiStep

LEMMA UserTypeOK == TypeOK /\ UserNext => TypeOK'
<1> SUFFICES ASSUME TypeOK, UserNext PROVE TypeOK'
  OBVIOUS
<1>1. ASSUME NEW list \in List, NEW row \in 0..Cardinality(Entry), Select(list, row)
      PROVE  TypeOK'
  BY <1>1 DEF Select, TypeOK, At, coreVars, lockVars, lifeVars, forkVars, envVars
<1>2. CASE FrameEvent
  BY <1>2 DEF FrameEvent, TypeOK, At, decmutex, MainPc, CorePc, UiPc, coreVars, lockVars, viewVars,
              forkVars, envVars
<1>3. CASE Destroy
  BY <1>3 DEF Destroy, TypeOK, At, decmutex, MainPc, CorePc, UiPc, coreVars, lockVars, viewVars,
              forkVars, envVars
<1> QED BY <1>1, <1>2, <1>3, CommandType, RootCommandType DEF UserNext

LEMMA EnvTypeOK == TypeOK /\ EnvNext => TypeOK'
<1> SUFFICES ASSUME TypeOK, EnvNext PROVE TypeOK'
  OBVIOUS
<1>1. ASSUME NEW p \in Pid, ChildExits(p) PROVE TypeOK'
  BY <1>1 DEF ChildExits, TypeOK, ChildType, coreVars, lockVars, lifeVars, viewVars, envVars
<1>2. ASSUME NEW p \in Pid, ChildKilled(p) PROVE TypeOK'
  BY <1>2 DEF ChildKilled, TypeOK, ChildType, coreVars, lockVars, lifeVars, viewVars, envVars
<1>3. CASE MtabReturns
  BY <1>3 DEF MtabReturns, WriteMtab, DiskType, TypeOK, coreVars, lockVars, lifeVars, viewVars,
              forkVars
<1>4. CASE SpuriousReturn
  BY <1>4 DEF SpuriousReturn, TypeOK, At, Goto, MainPc, coreVars, lockVars, lifeVars, viewVars,
              forkVars, envVars
<1> QED BY <1>1, <1>2, <1>3, <1>4, ChildWritesType, OtherUserType, MtabVanishesType DEF EnvNext

LEMMA NextTypeOK == TypeOK /\ [Next]_vars => TypeOK'
<1> SUFFICES ASSUME TypeOK, [Next]_vars PROVE TypeOK'
  OBVIOUS
<1>1. CASE UNCHANGED vars
  BY <1>1 DEF vars, TypeOK, coreVars, lockVars, lifeVars, viewVars, forkVars, envVars
<1> QED BY <1>1, MainTypeOK, CoreTypeOK, UiTypeOK, UserTypeOK, EnvTypeOK DEF Next

\* Every variable of the threads, the window, the locks and the processes
\* keeps its type, whatever the tab files hold (TypeOK).
THEOREM TypeCorrect == Spec => []TypeOK
<1>1. Init => TypeOK
  BY InitTypeOK
<1>2. TypeOK /\ [Next]_vars => TypeOK'
  BY NextTypeOK
<1> QED BY <1>1, <1>2, PTL DEF Spec

-----------------------------------------------------------------------------
(* The mechanisms of the threads.                                           *)

Leaving == {"destroy", "leave", "exited"}

\* init_core starts each thread once.
StartInv ==
    /\ pc["main"] = "start_core" => pc["core"] = "unborn"
    /\ pc["main"] \in {"start_core", "start_ui"} => pc["ui"] = "unborn"

\* While the interface thread lives, threads_running tells whether core does,
\* and nobody has asked the program to end.
CountInv ==
    /\ pc["ui"] \notin Leaving =>
          /\ threads_running = IF pc["core"] = "exited" THEN 1 ELSE 2
          /\ ~xmount_terminated
          /\ pc["main"] # "woken"
          /\ pc["core"] # "free"

\* interface_done is init_core's until the window is built, then core's while
\* it fills the lists.
WindowInv ==
    /\ pc["ui"] \in {"unborn", "build"} => interface_done = "main"
    /\ pc["core"] \in {"clear", "fill_mtab", "fill_fstab"} => interface_done = "core"

\* full_fstab is built before any row is shown, and lives until core leaves
\* its loop; it is NULL if the file could not be opened.
ListInv ==
    /\ pc["core"] \in {"unborn", "chew_full"} =>
          /\ \A l \in List : rows[l] = {} /\ selected[l] = {}
          /\ pc["ui"] \notin {"read_string", "lock_mount", "dispatch"}
    /\ pc["core"] \notin {"unborn", "chew_full", "exited"} => Parseable(full_fstab)
    /\ pc["core"] = "exited" /\ pc["ui"] \notin Leaving => Parseable(full_fstab)
    /\ pc["core"] \in {"stat", "lock_interface", "clear", "fill_mtab", "fill_fstab"} =>
          Parseable(fstab) /\ mtab.st # "freed"

Live(p) == child[p].st \in {"running", "wrote", "exited", "killed"}

\* For an ordinary user: mount_flag_mutex is core's exactly while it rebuilds,
\* the buttons are inactive for the whole of a mount, and there is one forked
\* process at most, that of pipe_io.
MountInv ==
    /\ Rebuilding <=> mount_flag_mutex = "core"
    /\ InSession => inactive
    /\ inactive => mount_flag_mutex = "ui"
    /\ pc["ui"] \in {"read_string", "lock_mount"} => ~inactive
    /\ pc["ui"] \in {"dispatch", "not_found", "fork"} => \A p \in Pid : ~Live(p)
    /\ \A p \in Pid : Live(p) => pipe_io = p

-----------------------------------------------------------------------------
(* The steps preserve each part.                                            *)

LEMMA StartStep ==
  ASSUME TypeOK, StartInv, [Next]_vars
  PROVE  StartInv'
<1> USE DEF TypeOK, StartInv, At, Goto, decmutex, MainPc, CorePc, UiPc, coreVars, lockVars, lifeVars,
            viewVars, forkVars, envVars
<1>1. CASE StartCore BY <1>1 DEF StartCore
<1>2. CASE StartUi BY <1>2 DEF StartUi
<1>3. CASE CondWait BY <1>3 DEF CondWait
<1>4. CASE MainExit BY <1>4 DEF MainExit
<1>5. CASE ChewFull BY <1>5 DEF ChewFull
<1>6. CASE ConstructLock BY <1>6 DEF ConstructLock
<1>7. CASE ConstructParse BY <1>7 DEF ConstructParse
<1>8. CASE ConstructStat BY <1>8 DEF ConstructStat
<1>9. CASE ConstructStatFails BY <1>9 DEF ConstructStatFails
<1>10. CASE ConstructLockInterface BY <1>10 DEF ConstructLockInterface
<1>11. CASE ClearLists BY <1>11 DEF ClearLists
<1>12. CASE FillMtab BY <1>12 DEF FillMtab
<1>13. CASE FillNull BY <1>13 DEF FillNull
<1>14. CASE FillFstab BY <1>14 DEF FillFstab
<1>15. CASE CoreLoop BY <1>15 DEF CoreLoop
<1>16. CASE OrganizeSame BY <1>16 DEF OrganizeSame
<1>17. CASE OrganizeChanged BY <1>17 DEF OrganizeChanged
<1>18. CASE OrganizeStatFails BY <1>18 DEF OrganizeStatFails
<1>19. CASE OrganizeLock BY <1>19 DEF OrganizeLock
<1>20. CASE CoreFree BY <1>20 DEF CoreFree
<1>21. CASE BuildInterface BY <1>21 DEF BuildInterface
<1>22. CASE ReadString BY <1>22 DEF ReadString
<1>23. CASE ReadStringNull BY <1>23 DEF ReadStringNull
<1>24. CASE SessionLock BY <1>24 DEF SessionLock
<1>25. CASE DispatchPath BY <1>25 DEF DispatchPath
<1>26. CASE DispatchAlias BY <1>26 DEF DispatchAlias
<1>27. CASE NotFound BY <1>27 DEF NotFound
<1>28. CASE ForkFails BY <1>28 DEF ForkFails
<1>29. CASE DestroyFlag BY <1>29 DEF DestroyFlag
<1>30. CASE Leave BY <1>30 DEF Leave
<1>31. ASSUME NEW p \in Pid, Fork(p) PROVE StartInv'
  BY <1>31 DEF Fork
<1>32. ASSUME NEW p \in Pid, ChildExited(p) PROVE StartInv'
  BY <1>32 DEF ChildExited
<1>33. ASSUME NEW p \in Pid, ChildSignalled(p) PROVE StartInv'
  BY <1>33 DEF ChildSignalled
<1>34. ASSUME NEW list \in List, NEW row \in 0..Cardinality(Entry), Select(list, row) PROVE StartInv'
  BY <1>34 DEF Select
<1>35. ASSUME NEW list \in List, NEW row \in 0..Cardinality(Entry), Command(list, row) PROVE StartInv'
  BY <1>35 DEF Command
<1>36. ASSUME NEW e \in Entry, NEW mount \in BOOLEAN, RootCommand(e, mount) PROVE StartInv'
  BY <1>36 DEF RootCommand
<1>37. CASE FrameEvent BY <1>37 DEF FrameEvent
<1>38. CASE Destroy BY <1>38 DEF Destroy
<1>39. ASSUME NEW p \in Pid, ChildExits(p) PROVE StartInv'
  BY <1>39 DEF ChildExits
<1>40. ASSUME NEW p \in Pid, ChildKilled(p) PROVE StartInv'
  BY <1>40 DEF ChildKilled
<1>41. ASSUME NEW p \in Pid, NEW e \in Entry, ChildWrites(p, e) PROVE StartInv'
  BY <1>41 DEF ChildWrites
<1>42. ASSUME NEW e \in Entry, OtherUser(e) PROVE StartInv'
  BY <1>42 DEF OtherUser
<1>43. CASE MtabVanishes BY <1>43 DEF MtabVanishes
<1>44. CASE MtabReturns BY <1>44 DEF MtabReturns
<1>45. CASE UNCHANGED vars BY <1>45 DEF vars
<1>46. CASE ChewMalformed BY <1>46 DEF ChewMalformed
<1>47. CASE FreeNull BY <1>47 DEF FreeNull
<1>48. CASE DispatchNull BY <1>48 DEF DispatchNull
<1>49. CASE SpuriousReturn BY <1>49 DEF SpuriousReturn
<1> QED BY <1>1, <1>2, <1>3, <1>4, <1>5, <1>6, <1>7, <1>8, <1>9, <1>10, <1>11, <1>12, <1>13,
           <1>14, <1>15, <1>16, <1>17, <1>18, <1>19, <1>20, <1>21, <1>22, <1>23, <1>24, <1>25,
           <1>26, <1>27, <1>28, <1>29, <1>30, <1>31, <1>32, <1>33, <1>34, <1>35, <1>36, <1>37,
           <1>38, <1>39, <1>40, <1>41, <1>42, <1>43, <1>44, <1>45,
           <1>46, <1>47, <1>48, <1>49
        DEF Next, MainNext, CoreNext, UiStep, UserNext, EnvNext

LEMMA CountStep ==
  ASSUME TypeOK, StartInv, CountInv, [Next]_vars
  PROVE  CountInv'
<1> USE DEF TypeOK, StartInv, CountInv, Leaving, At, Goto, decmutex, MainPc, CorePc, UiPc, coreVars, lockVars, lifeVars,
            viewVars, forkVars, envVars
<1>1. CASE StartCore BY <1>1 DEF StartCore
<1>2. CASE StartUi BY <1>2 DEF StartUi
<1>3. CASE CondWait BY <1>3 DEF CondWait
<1>4. CASE MainExit BY <1>4 DEF MainExit
<1>5. CASE ChewFull BY <1>5 DEF ChewFull
<1>6. CASE ConstructLock BY <1>6 DEF ConstructLock
<1>7. CASE ConstructParse BY <1>7 DEF ConstructParse
<1>8. CASE ConstructStat BY <1>8 DEF ConstructStat
<1>9. CASE ConstructStatFails BY <1>9 DEF ConstructStatFails
<1>10. CASE ConstructLockInterface BY <1>10 DEF ConstructLockInterface
<1>11. CASE ClearLists BY <1>11 DEF ClearLists
<1>12. CASE FillMtab BY <1>12 DEF FillMtab
<1>13. CASE FillNull BY <1>13 DEF FillNull
<1>14. CASE FillFstab BY <1>14 DEF FillFstab
<1>15. CASE CoreLoop BY <1>15 DEF CoreLoop
<1>16. CASE OrganizeSame BY <1>16 DEF OrganizeSame
<1>17. CASE OrganizeChanged BY <1>17 DEF OrganizeChanged
<1>18. CASE OrganizeStatFails BY <1>18 DEF OrganizeStatFails
<1>19. CASE OrganizeLock BY <1>19 DEF OrganizeLock
<1>20. CASE CoreFree BY <1>20 DEF CoreFree
<1>21. CASE BuildInterface BY <1>21 DEF BuildInterface
<1>22. CASE ReadString BY <1>22 DEF ReadString
<1>23. CASE ReadStringNull BY <1>23 DEF ReadStringNull
<1>24. CASE SessionLock BY <1>24 DEF SessionLock
<1>25. CASE DispatchPath BY <1>25 DEF DispatchPath
<1>26. CASE DispatchAlias BY <1>26 DEF DispatchAlias
<1>27. CASE NotFound BY <1>27 DEF NotFound
<1>28. CASE ForkFails BY <1>28 DEF ForkFails
<1>29. CASE DestroyFlag BY <1>29 DEF DestroyFlag
<1>30. CASE Leave BY <1>30 DEF Leave
<1>31. ASSUME NEW p \in Pid, Fork(p) PROVE CountInv'
  BY <1>31 DEF Fork
<1>32. ASSUME NEW p \in Pid, ChildExited(p) PROVE CountInv'
  BY <1>32 DEF ChildExited
<1>33. ASSUME NEW p \in Pid, ChildSignalled(p) PROVE CountInv'
  BY <1>33 DEF ChildSignalled
<1>34. ASSUME NEW list \in List, NEW row \in 0..Cardinality(Entry), Select(list, row) PROVE CountInv'
  BY <1>34 DEF Select
<1>35. ASSUME NEW list \in List, NEW row \in 0..Cardinality(Entry), Command(list, row) PROVE CountInv'
  BY <1>35 DEF Command
<1>36. ASSUME NEW e \in Entry, NEW mount \in BOOLEAN, RootCommand(e, mount) PROVE CountInv'
  BY <1>36 DEF RootCommand
<1>37. CASE FrameEvent BY <1>37 DEF FrameEvent
<1>38. CASE Destroy BY <1>38 DEF Destroy
<1>39. ASSUME NEW p \in Pid, ChildExits(p) PROVE CountInv'
  BY <1>39 DEF ChildExits
<1>40. ASSUME NEW p \in Pid, ChildKilled(p) PROVE CountInv'
  BY <1>40 DEF ChildKilled
<1>41. ASSUME NEW p \in Pid, NEW e \in Entry, ChildWrites(p, e) PROVE CountInv'
  BY <1>41 DEF ChildWrites
<1>42. ASSUME NEW e \in Entry, OtherUser(e) PROVE CountInv'
  BY <1>42 DEF OtherUser
<1>43. CASE MtabVanishes BY <1>43 DEF MtabVanishes
<1>44. CASE MtabReturns BY <1>44 DEF MtabReturns
<1>45. CASE UNCHANGED vars BY <1>45 DEF vars
<1>46. CASE ChewMalformed BY <1>46 DEF ChewMalformed
<1>47. CASE FreeNull BY <1>47 DEF FreeNull
<1>48. CASE DispatchNull BY <1>48 DEF DispatchNull
<1>49. CASE SpuriousReturn BY <1>49 DEF SpuriousReturn
<1> QED BY <1>1, <1>2, <1>3, <1>4, <1>5, <1>6, <1>7, <1>8, <1>9, <1>10, <1>11, <1>12, <1>13,
           <1>14, <1>15, <1>16, <1>17, <1>18, <1>19, <1>20, <1>21, <1>22, <1>23, <1>24, <1>25,
           <1>26, <1>27, <1>28, <1>29, <1>30, <1>31, <1>32, <1>33, <1>34, <1>35, <1>36, <1>37,
           <1>38, <1>39, <1>40, <1>41, <1>42, <1>43, <1>44, <1>45,
           <1>46, <1>47, <1>48, <1>49
        DEF Next, MainNext, CoreNext, UiStep, UserNext, EnvNext

LEMMA WindowStep ==
  ASSUME TypeOK, StartInv, WindowInv, [Next]_vars
  PROVE  WindowInv'
<1> USE DEF TypeOK, StartInv, WindowInv, At, Goto, decmutex, MainPc, CorePc, UiPc, coreVars, lockVars, lifeVars,
            viewVars, forkVars, envVars
<1>1. CASE StartCore BY <1>1 DEF StartCore
<1>2. CASE StartUi BY <1>2 DEF StartUi
<1>3. CASE CondWait BY <1>3 DEF CondWait
<1>4. CASE MainExit BY <1>4 DEF MainExit
<1>5. CASE ChewFull BY <1>5 DEF ChewFull
<1>6. CASE ConstructLock BY <1>6 DEF ConstructLock
<1>7. CASE ConstructParse BY <1>7 DEF ConstructParse
<1>8. CASE ConstructStat BY <1>8 DEF ConstructStat
<1>9. CASE ConstructStatFails BY <1>9 DEF ConstructStatFails
<1>10. CASE ConstructLockInterface BY <1>10 DEF ConstructLockInterface
<1>11. CASE ClearLists BY <1>11 DEF ClearLists
<1>12. CASE FillMtab BY <1>12 DEF FillMtab
<1>13. CASE FillNull BY <1>13 DEF FillNull
<1>14. CASE FillFstab BY <1>14 DEF FillFstab
<1>15. CASE CoreLoop BY <1>15 DEF CoreLoop
<1>16. CASE OrganizeSame BY <1>16 DEF OrganizeSame
<1>17. CASE OrganizeChanged BY <1>17 DEF OrganizeChanged
<1>18. CASE OrganizeStatFails BY <1>18 DEF OrganizeStatFails
<1>19. CASE OrganizeLock BY <1>19 DEF OrganizeLock
<1>20. CASE CoreFree BY <1>20 DEF CoreFree
<1>21. CASE BuildInterface BY <1>21 DEF BuildInterface
<1>22. CASE ReadString BY <1>22 DEF ReadString
<1>23. CASE ReadStringNull BY <1>23 DEF ReadStringNull
<1>24. CASE SessionLock BY <1>24 DEF SessionLock
<1>25. CASE DispatchPath BY <1>25 DEF DispatchPath
<1>26. CASE DispatchAlias BY <1>26 DEF DispatchAlias
<1>27. CASE NotFound BY <1>27 DEF NotFound
<1>28. CASE ForkFails BY <1>28 DEF ForkFails
<1>29. CASE DestroyFlag BY <1>29 DEF DestroyFlag
<1>30. CASE Leave BY <1>30 DEF Leave
<1>31. ASSUME NEW p \in Pid, Fork(p) PROVE WindowInv'
  BY <1>31 DEF Fork
<1>32. ASSUME NEW p \in Pid, ChildExited(p) PROVE WindowInv'
  BY <1>32 DEF ChildExited
<1>33. ASSUME NEW p \in Pid, ChildSignalled(p) PROVE WindowInv'
  BY <1>33 DEF ChildSignalled
<1>34. ASSUME NEW list \in List, NEW row \in 0..Cardinality(Entry), Select(list, row) PROVE WindowInv'
  BY <1>34 DEF Select
<1>35. ASSUME NEW list \in List, NEW row \in 0..Cardinality(Entry), Command(list, row) PROVE WindowInv'
  BY <1>35 DEF Command
<1>36. ASSUME NEW e \in Entry, NEW mount \in BOOLEAN, RootCommand(e, mount) PROVE WindowInv'
  BY <1>36 DEF RootCommand
<1>37. CASE FrameEvent BY <1>37 DEF FrameEvent
<1>38. CASE Destroy BY <1>38 DEF Destroy
<1>39. ASSUME NEW p \in Pid, ChildExits(p) PROVE WindowInv'
  BY <1>39 DEF ChildExits
<1>40. ASSUME NEW p \in Pid, ChildKilled(p) PROVE WindowInv'
  BY <1>40 DEF ChildKilled
<1>41. ASSUME NEW p \in Pid, NEW e \in Entry, ChildWrites(p, e) PROVE WindowInv'
  BY <1>41 DEF ChildWrites
<1>42. ASSUME NEW e \in Entry, OtherUser(e) PROVE WindowInv'
  BY <1>42 DEF OtherUser
<1>43. CASE MtabVanishes BY <1>43 DEF MtabVanishes
<1>44. CASE MtabReturns BY <1>44 DEF MtabReturns
<1>45. CASE UNCHANGED vars BY <1>45 DEF vars
<1>46. CASE ChewMalformed BY <1>46 DEF ChewMalformed
<1>47. CASE FreeNull BY <1>47 DEF FreeNull
<1>48. CASE DispatchNull BY <1>48 DEF DispatchNull
<1>49. CASE SpuriousReturn BY <1>49 DEF SpuriousReturn
<1> QED BY <1>1, <1>2, <1>3, <1>4, <1>5, <1>6, <1>7, <1>8, <1>9, <1>10, <1>11, <1>12, <1>13,
           <1>14, <1>15, <1>16, <1>17, <1>18, <1>19, <1>20, <1>21, <1>22, <1>23, <1>24, <1>25,
           <1>26, <1>27, <1>28, <1>29, <1>30, <1>31, <1>32, <1>33, <1>34, <1>35, <1>36, <1>37,
           <1>38, <1>39, <1>40, <1>41, <1>42, <1>43, <1>44, <1>45,
           <1>46, <1>47, <1>48, <1>49
        DEF Next, MainNext, CoreNext, UiStep, UserNext, EnvNext

\* What chew_tab makes of /etc/fstab can be read, or is NULL where it may be.
LEMMA ChewFstab ==
  ASSUME NEW opened \in FstabOpens, NEW moderator
  PROVE  Parseable(chew_tab(opened, Fstab, moderator))
BY DEF FstabOpens, Parseable, chew_tab, NullClist

LEMMA ListStep ==
  ASSUME TypeOK, StartInv, CountInv, ListInv, [Next]_vars
  PROVE  ListInv'
<1> USE DEF TypeOK, StartInv, CountInv, ListInv, Parseable, Leaving, At, Goto, decmutex, MainPc, CorePc, UiPc, coreVars, lockVars, lifeVars,
            viewVars, forkVars, envVars
<1>1. CASE StartCore BY <1>1 DEF StartCore
<1>2. CASE StartUi BY <1>2 DEF StartUi
<1>3. CASE CondWait BY <1>3 DEF CondWait
<1>4. CASE MainExit BY <1>4 DEF MainExit
<1>5. CASE ChewFull
  <2>1. Parseable(full_fstab)'
    BY <1>5, ChewFstab DEF ChewFull
  <2> QED BY <1>5, <2>1 DEF ChewFull
<1>6. CASE ConstructLock BY <1>6 DEF ConstructLock
<1>7. CASE ConstructParse
  <2>1. Parseable(fstab)'
    BY <1>7, ChewFstab DEF ConstructParse
  <2>2. mtab'.st # "freed"
    BY <1>7 DEF ConstructParse, chew_tab, NullClist
  <2> QED BY <1>7, <2>1, <2>2 DEF ConstructParse
<1>8. CASE ConstructStat BY <1>8 DEF ConstructStat
<1>9. CASE ConstructStatFails BY <1>9 DEF ConstructStatFails
<1>10. CASE ConstructLockInterface BY <1>10 DEF ConstructLockInterface
<1>11. CASE ClearLists BY <1>11 DEF ClearLists
<1>12. CASE FillMtab BY <1>12 DEF FillMtab
<1>13. CASE FillNull BY <1>13 DEF FillNull
<1>14. CASE FillFstab BY <1>14 DEF FillFstab
<1>15. CASE CoreLoop BY <1>15 DEF CoreLoop
<1>16. CASE OrganizeSame BY <1>16 DEF OrganizeSame
<1>17. CASE OrganizeChanged BY <1>17 DEF OrganizeChanged
<1>18. CASE OrganizeStatFails BY <1>18 DEF OrganizeStatFails
<1>19. CASE OrganizeLock BY <1>19 DEF OrganizeLock
<1>20. CASE CoreFree BY <1>20 DEF CoreFree, list_free
<1>21. CASE BuildInterface BY <1>21 DEF BuildInterface
<1>22. CASE ReadString BY <1>22 DEF ReadString
<1>23. CASE ReadStringNull BY <1>23 DEF ReadStringNull
<1>24. CASE SessionLock BY <1>24 DEF SessionLock
<1>25. CASE DispatchPath BY <1>25 DEF DispatchPath
<1>26. CASE DispatchAlias BY <1>26 DEF DispatchAlias
<1>27. CASE NotFound BY <1>27 DEF NotFound
<1>28. CASE ForkFails BY <1>28 DEF ForkFails
<1>29. CASE DestroyFlag BY <1>29 DEF DestroyFlag
<1>30. CASE Leave BY <1>30 DEF Leave
<1>31. ASSUME NEW p \in Pid, Fork(p) PROVE ListInv'
  BY <1>31 DEF Fork
<1>32. ASSUME NEW p \in Pid, ChildExited(p) PROVE ListInv'
  BY <1>32 DEF ChildExited
<1>33. ASSUME NEW p \in Pid, ChildSignalled(p) PROVE ListInv'
  BY <1>33 DEF ChildSignalled
<1>34. ASSUME NEW list \in List, NEW row \in 0..Cardinality(Entry), Select(list, row) PROVE ListInv'
  <2>1. rows[list] # {}
    <3> SUFFICES ASSUME rows[list] = {} PROVE FALSE
      OBVIOUS
    <3>1. Cardinality(rows[list]) = 0
      BY FS_EmptySet
    <3>2. row \in Nat /\ row < Cardinality(rows[list])
      BY <1>34 DEF Select
    <3> QED BY <3>1, <3>2
  <2> QED BY <1>34, <2>1 DEF Select
<1>35. ASSUME NEW list \in List, NEW row \in 0..Cardinality(Entry), Command(list, row) PROVE ListInv'
  BY <1>35 DEF Command
<1>36. ASSUME NEW e \in Entry, NEW mount \in BOOLEAN, RootCommand(e, mount) PROVE ListInv'
  BY <1>36 DEF RootCommand
<1>37. CASE FrameEvent BY <1>37 DEF FrameEvent
<1>38. CASE Destroy BY <1>38 DEF Destroy
<1>39. ASSUME NEW p \in Pid, ChildExits(p) PROVE ListInv'
  BY <1>39 DEF ChildExits
<1>40. ASSUME NEW p \in Pid, ChildKilled(p) PROVE ListInv'
  BY <1>40 DEF ChildKilled
<1>41. ASSUME NEW p \in Pid, NEW e \in Entry, ChildWrites(p, e) PROVE ListInv'
  BY <1>41 DEF ChildWrites
<1>42. ASSUME NEW e \in Entry, OtherUser(e) PROVE ListInv'
  BY <1>42 DEF OtherUser
<1>43. CASE MtabVanishes BY <1>43 DEF MtabVanishes
<1>44. CASE MtabReturns BY <1>44 DEF MtabReturns
<1>45. CASE UNCHANGED vars BY <1>45 DEF vars
<1>46. CASE ChewMalformed BY <1>46 DEF ChewMalformed
<1>47. CASE FreeNull BY <1>47 DEF FreeNull
<1>48. CASE DispatchNull BY <1>48 DEF DispatchNull
<1>49. CASE SpuriousReturn BY <1>49 DEF SpuriousReturn
<1> QED BY <1>1, <1>2, <1>3, <1>4, <1>5, <1>6, <1>7, <1>8, <1>9, <1>10, <1>11, <1>12, <1>13,
           <1>14, <1>15, <1>16, <1>17, <1>18, <1>19, <1>20, <1>21, <1>22, <1>23, <1>24, <1>25,
           <1>26, <1>27, <1>28, <1>29, <1>30, <1>31, <1>32, <1>33, <1>34, <1>35, <1>36, <1>37,
           <1>38, <1>39, <1>40, <1>41, <1>42, <1>43, <1>44, <1>45,
           <1>46, <1>47, <1>48, <1>49
        DEF Next, MainNext, CoreNext, UiStep, UserNext, EnvNext

LEMMA MountStep ==
  ASSUME ~IsRoot, TypeOK, StartInv, MountInv, [Next]_vars
  PROVE  MountInv'
<1> USE DEF TypeOK, StartInv, MountInv, Rebuilding, InSession, Live, NoChild, At, Goto, decmutex, MainPc, CorePc, UiPc, coreVars, lockVars, lifeVars,
            viewVars, forkVars, envVars
<1>1. CASE StartCore BY <1>1 DEF StartCore
<1>2. CASE StartUi BY <1>2 DEF StartUi
<1>3. CASE CondWait BY <1>3 DEF CondWait
<1>4. CASE MainExit BY <1>4 DEF MainExit
<1>5. CASE ChewFull BY <1>5 DEF ChewFull
<1>6. CASE ConstructLock BY <1>6 DEF ConstructLock
<1>7. CASE ConstructParse BY <1>7 DEF ConstructParse
<1>8. CASE ConstructStat BY <1>8 DEF ConstructStat
<1>9. CASE ConstructStatFails BY <1>9 DEF ConstructStatFails
<1>10. CASE ConstructLockInterface BY <1>10 DEF ConstructLockInterface
<1>11. CASE ClearLists BY <1>11 DEF ClearLists
<1>12. CASE FillMtab BY <1>12 DEF FillMtab
<1>13. CASE FillNull BY <1>13 DEF FillNull
<1>14. CASE FillFstab BY <1>14 DEF FillFstab
<1>15. CASE CoreLoop BY <1>15 DEF CoreLoop
<1>16. CASE OrganizeSame BY <1>16 DEF OrganizeSame
<1>17. CASE OrganizeChanged BY <1>17 DEF OrganizeChanged
<1>18. CASE OrganizeStatFails BY <1>18 DEF OrganizeStatFails
<1>19. CASE OrganizeLock BY <1>19 DEF OrganizeLock
<1>20. CASE CoreFree BY <1>20 DEF CoreFree
<1>21. CASE BuildInterface BY <1>21 DEF BuildInterface
<1>22. CASE ReadString BY <1>22 DEF ReadString
<1>23. CASE ReadStringNull BY <1>23 DEF ReadStringNull
<1>24. CASE SessionLock BY <1>24 DEF SessionLock
<1>25. CASE DispatchPath BY <1>25 DEF DispatchPath
<1>26. CASE DispatchAlias BY <1>26 DEF DispatchAlias
<1>27. CASE NotFound BY <1>27 DEF NotFound
<1>28. CASE ForkFails BY <1>28 DEF ForkFails
<1>29. CASE DestroyFlag BY <1>29 DEF DestroyFlag
<1>30. CASE Leave BY <1>30 DEF Leave
<1>31. ASSUME NEW p \in Pid, Fork(p) PROVE MountInv'
  BY <1>31 DEF Fork
<1>32. ASSUME NEW p \in Pid, ChildExited(p) PROVE MountInv'
  BY <1>32 DEF ChildExited
<1>33. ASSUME NEW p \in Pid, ChildSignalled(p) PROVE MountInv'
  BY <1>33 DEF ChildSignalled
<1>34. ASSUME NEW list \in List, NEW row \in 0..Cardinality(Entry), Select(list, row) PROVE MountInv'
  BY <1>34 DEF Select
<1>35. ASSUME NEW list \in List, NEW row \in 0..Cardinality(Entry), Command(list, row) PROVE MountInv'
  BY <1>35 DEF Command
<1>36. ASSUME NEW e \in Entry, NEW mount \in BOOLEAN, RootCommand(e, mount) PROVE MountInv'
  BY <1>36 DEF RootCommand
<1>37. CASE FrameEvent BY <1>37 DEF FrameEvent
<1>38. CASE Destroy BY <1>38 DEF Destroy
<1>39. ASSUME NEW p \in Pid, ChildExits(p) PROVE MountInv'
  BY <1>39 DEF ChildExits
<1>40. ASSUME NEW p \in Pid, ChildKilled(p) PROVE MountInv'
  BY <1>40 DEF ChildKilled
<1>41. ASSUME NEW p \in Pid, NEW e \in Entry, ChildWrites(p, e) PROVE MountInv'
  BY <1>41 DEF ChildWrites
<1>42. ASSUME NEW e \in Entry, OtherUser(e) PROVE MountInv'
  BY <1>42 DEF OtherUser
<1>43. CASE MtabVanishes BY <1>43 DEF MtabVanishes
<1>44. CASE MtabReturns BY <1>44 DEF MtabReturns
<1>45. CASE UNCHANGED vars BY <1>45 DEF vars
<1>46. CASE ChewMalformed BY <1>46 DEF ChewMalformed
<1>47. CASE FreeNull BY <1>47 DEF FreeNull
<1>48. CASE DispatchNull BY <1>48 DEF DispatchNull
<1>49. CASE SpuriousReturn BY <1>49 DEF SpuriousReturn
<1> QED BY <1>1, <1>2, <1>3, <1>4, <1>5, <1>6, <1>7, <1>8, <1>9, <1>10, <1>11, <1>12, <1>13,
           <1>14, <1>15, <1>16, <1>17, <1>18, <1>19, <1>20, <1>21, <1>22, <1>23, <1>24, <1>25,
           <1>26, <1>27, <1>28, <1>29, <1>30, <1>31, <1>32, <1>33, <1>34, <1>35, <1>36, <1>37,
           <1>38, <1>39, <1>40, <1>41, <1>42, <1>43, <1>44, <1>45,
           <1>46, <1>47, <1>48, <1>49
        DEF Next, MainNext, CoreNext, UiStep, UserNext, EnvNext

\* What forks, readers and the end of a process can be changed by.
LEMMA ForkVarsKept ==
  ASSUME [Next]_vars
  PROVE  \/ UNCHANGED <<child, inputs, pipe_io>>
         \/ \E p \in Pid : \/ Fork(p) \/ ChildExited(p) \/ ChildSignalled(p)
                           \/ ChildExits(p) \/ ChildKilled(p)
                           \/ \E e \in Entry : ChildWrites(p, e)
<1>1. CASE MainNext \/ CoreNext \/ UserNext
  BY <1>1 DEF MainNext, StartCore, StartUi, CondWait, MainExit,
     CoreNext, ChewFull, ChewMalformed, ConstructLock, ConstructParse, ConstructStat,
     ConstructStatFails, ConstructLockInterface, ClearLists, FillMtab, FillNull, FillFstab, CoreLoop,
     OrganizeSame, OrganizeChanged, OrganizeStatFails, OrganizeLock, CoreFree, FreeNull,
     UserNext, Select, Command, RootCommand, FrameEvent, Destroy, forkVars
<1>2. CASE UiStep
  BY <1>2 DEF UiStep, BuildInterface, ReadString, ReadStringNull, SessionLock, DispatchPath,
     DispatchAlias, DispatchNull, NotFound, ForkFails, DestroyFlag, Leave, forkVars
<1>3. CASE EnvNext
  BY <1>3 DEF EnvNext, OtherUser, MtabVanishes, MtabReturns, SpuriousReturn, forkVars
<1>4. CASE UNCHANGED vars
  BY <1>4 DEF vars, forkVars
<1> QED BY <1>1, <1>2, <1>3, <1>4 DEF Next

\* One forked process at most, and the last pipe is its own: the reader that
\* sigchldcatcher removes is that of the process that ended.
LEMMA OutputStep ==
  ASSUME ~IsRoot, TypeOK, MountInv, OutputHeard, [Next]_vars
  PROVE  OutputHeard'
<1>1. ASSUME NEW p \in Pid, Fork(p) PROVE OutputHeard'
  BY <1>1 DEF Fork, OutputHeard, Unfinished, TypeOK
<1>2. ASSUME NEW p \in Pid, ChildExited(p) PROVE OutputHeard'
  <2>1. pipe_io = p
    BY <1>2 DEF ChildExited, MountInv, Live
  <2> QED BY <1>2, <2>1 DEF ChildExited, OutputHeard, Unfinished, TypeOK, ChildType
<1>3. ASSUME NEW p \in Pid, ChildSignalled(p) \/ ChildExits(p) \/ ChildKilled(p)
      PROVE  OutputHeard'
  BY <1>3 DEF ChildSignalled, ChildExits, ChildKilled, OutputHeard, Unfinished, TypeOK, ChildType
<1>4. ASSUME NEW p \in Pid, NEW e \in Entry, ChildWrites(p, e) PROVE OutputHeard'
  BY <1>4 DEF ChildWrites, OutputHeard, Unfinished, TypeOK, ChildType
<1>5. CASE UNCHANGED <<child, inputs>>
  BY <1>5 DEF OutputHeard, Unfinished
<1> QED BY <1>1, <1>2, <1>3, <1>4, <1>5, ForkVarsKept

-----------------------------------------------------------------------------
(* The theorems.                                                            *)

\* What holds for root and ordinary users alike.
CoreInv == TypeOK /\ StartInv /\ CountInv /\ WindowInv /\ ListInv

LEMMA CoreInvariant == Spec => []CoreInv
<1>1. Init => CoreInv
  <2> SUFFICES ASSUME Init PROVE CoreInv
    OBVIOUS
  <2>1. StartInv /\ CountInv /\ WindowInv /\ ListInv
    BY DEF Init, StartInv, CountInv, WindowInv, ListInv, Leaving
  <2> QED BY <2>1, InitTypeOK DEF CoreInv
<1>2. CoreInv /\ [Next]_vars => CoreInv'
  BY NextTypeOK, StartStep, CountStep, WindowStep, ListStep DEF CoreInv
<1> QED BY <1>1, <1>2, PTL DEF Spec

\* What holds for an ordinary user, who cannot bypass mount_flag_mutex.
UserInv == CoreInv /\ MountInv /\ OutputHeard

LEMMA UserInvariant == ASSUME ~IsRoot PROVE Spec => []UserInv
<1>1. Init => UserInv
  <2> SUFFICES ASSUME Init PROVE UserInv
    OBVIOUS
  <2>1. StartInv /\ CountInv /\ WindowInv /\ ListInv
    BY DEF Init, StartInv, CountInv, WindowInv, ListInv, Leaving
  <2>2. \A p \in Pid : child[p].st = "none"
    BY DEF Init, NoChild
  <2>3. MountInv /\ OutputHeard
    BY <2>2 DEF Init, MountInv, OutputHeard, Unfinished, Rebuilding, InSession, Live
  <2> QED BY <2>1, <2>3, InitTypeOK DEF UserInv, CoreInv
<1>2. UserInv /\ [Next]_vars => UserInv'
  BY NextTypeOK, StartStep, CountStep, WindowStep, ListStep, MountStep, OutputStep
     DEF UserInv, CoreInv
<1> QED BY <1>1, <1>2, PTL DEF Spec

\* decmutex signals init_core only once the interface thread is on its way out
\* (vcore.c:32-37): the count of threads cannot be brought down by core alone,
\* whatever fails.  A wait that returns without a signal is not excluded.
THEOREM SignalsComeLate == Spec => []SignalMeansLeaving
<1>1. CoreInv => SignalMeansLeaving
  BY DEF CoreInv, CountInv, SignalMeansLeaving, Leaving
<1> QED BY <1>1, CoreInvariant, PTL

\* Core frees its lists without a lock (vcore.c:115-117), and no thread reads
\* one afterwards, or before it was parsed.
THEOREM ReadersMeetLiveLists == Spec => []ListsOutliveReaders
<1>1. CoreInv => ListsOutliveReaders
  BY DEF CoreInv, ListInv, ListsOutliveReaders, Leaving, TypeOK, CorePc
<1> QED BY <1>1, CoreInvariant, PTL

\* interface_done orders the start: the lists are filled after they exist
\* (vcore.c:69, :135, :165).
THEOREM WindowFirst == Spec => []WindowBuiltBeforeFill
<1>1. CoreInv => WindowBuiltBeforeFill
  BY DEF CoreInv, WindowInv, WindowBuiltBeforeFill
<1> QED BY <1>1, CoreInvariant, PTL

\* For an ordinary user, the lists are never rebuilt between the lock of
\* mount_unmount_xview and the end of the forked process (vcommon.c:152, :195).
THEOREM RebuildWaits == ASSUME ~IsRoot PROVE Spec => []RebuildExcludesMount
<1>1. UserInv => RebuildExcludesMount
  BY DEF UserInv, MountInv, RebuildExcludesMount
<1> QED BY <1>1, UserInvariant, PTL

\* For an ordinary user, the buttons are inactive during a mount, and
\* inactive buttons mean that the interface thread has the mutex.
THEOREM ButtonsTell == ASSUME ~IsRoot PROVE Spec => []ButtonsFollowMount
<1>1. UserInv => ButtonsFollowMount
  BY DEF UserInv, MountInv, ButtonsFollowMount
<1> QED BY <1>1, UserInvariant, PTL

\* For an ordinary user, one global pipe_io is enough: the readers registered
\* are those of the processes not yet seen to exit, no more and no less.
THEOREM EveryOutputHeard == ASSUME ~IsRoot PROVE Spec => []OutputHeard
<1>1. UserInv => OutputHeard
  BY DEF UserInv
<1> QED BY <1>1, UserInvariant, PTL

-----------------------------------------------------------------------------
(* XvMount implements MountSession.                                         *)

\* Every step of the threads takes, uses or gives back the turn, or has
\* nothing to do with it.
LEMMA SessionStep ==
  ASSUME ~IsRoot, UserInv, [Next]_vars
  PROVE  [Session!Next]_<<mount_flag_mutex, rows>>
<1> USE DEF Session!Next, Session!Acquire, Session!Rebuild, Session!MountEnds
<1>1. CASE ConstructLock
  BY <1>1 DEF ConstructLock, viewVars
<1>2. CASE SessionLock
  BY <1>2 DEF SessionLock
<1>3. CASE ConstructStatFails \/ ClearLists \/ FillMtab \/ FillFstab
  <2>1. mount_flag_mutex = "core"
    BY <1>3 DEF UserInv, MountInv, Rebuilding, ConstructStatFails, ClearLists, FillMtab, FillFstab, At
  <2>2. mount_flag_mutex' \in {"core", "free"}
    BY <1>3, <2>1 DEF ConstructStatFails, ClearLists, FillMtab, FillFstab, lockVars
  <2> QED BY <2>1, <2>2
<1>4. ASSUME NEW p \in Pid, ChildExited(p)
      PROVE  [Session!Next]_<<mount_flag_mutex, rows>>
  <2>1. mount_flag_mutex = "ui"
    BY <1>4 DEF UserInv, MountInv, InSession, ChildExited
  <2> QED BY <1>4, <2>1 DEF ChildExited
<1>5. CASE UNCHANGED <<mount_flag_mutex, rows>>
  BY <1>5
<1>6. CASE MainNext
  BY <1>5, <1>6 DEF MainNext, StartCore, StartUi, CondWait, MainExit, lockVars, viewVars
<1>7. CASE CoreNext
  BY <1>1, <1>3, <1>5, <1>7 DEF CoreNext, ChewFull, ConstructParse, ConstructStat,
     ConstructLockInterface, FillNull, CoreLoop, OrganizeSame, OrganizeChanged, OrganizeStatFails,
     OrganizeLock, CoreFree, ChewMalformed, FreeNull, lockVars, viewVars
<1>8. CASE UiStep
  <2>1. CASE \E p \in Pid : Fork(p) \/ ChildSignalled(p)
    BY <2>1, <1>5 DEF Fork, ChildSignalled, lockVars, viewVars
  <2> QED BY <1>2, <1>4, <1>5, <1>8, <2>1 DEF UiStep, BuildInterface, ReadString, ReadStringNull,
             DispatchPath, DispatchAlias, DispatchNull, NotFound, ForkFails, DestroyFlag, Leave, lockVars, viewVars
<1>9. CASE UserNext
  BY <1>5, <1>9 DEF UserNext, Select, Command, RootCommand, FrameEvent, Destroy, lockVars, viewVars
<1>10. CASE EnvNext
  BY <1>5, <1>10 DEF EnvNext, ChildExits, ChildKilled, ChildWrites, OtherUser, MtabVanishes,
     MtabReturns, SpuriousReturn, lockVars, viewVars
<1>11. CASE UNCHANGED vars
  BY <1>5, <1>11 DEF vars, lockVars, viewVars
<1> QED BY <1>6, <1>7, <1>8, <1>9, <1>10, <1>11 DEF Next

\* For an ordinary user, rebuilds and mounts take turns on the window, as
\* MountSession promises (mount_flag_mutex).
THEOREM SessionsTakeTurns == ASSUME ~IsRoot PROVE Spec => TurnsTaken
<1>1. Init => Session!Init
  BY DEF Init, Session!Init
<1>2. UserInv /\ [Next]_vars => [Session!Next]_<<mount_flag_mutex, rows>>
  BY SessionStep
<1> QED BY <1>1, <1>2, UserInvariant, PTL DEF Spec, TurnsTaken, Session!Spec

-----------------------------------------------------------------------------
(* The rows of xvmount's window: where they come from, when a selected row  *)
(* still exists, and what an ordinary user can have mounted through them.   *)

-----------------------------------------------------------------------------
(* Lines, nodes and rows are numbered.                                      *)

\* Finitely many members, each with a number of its own.
Numbered(S) == IsFiniteSet(S) /\ \A x, y \in S : x.line = y.line => x = y

\* A part of a numbered set is numbered.
LEMMA NumberedSubset ==
  ASSUME NEW S, NEW T \in SUBSET S, Numbered(S)
  PROVE  Numbered(T)
BY FS_Subset DEF Numbered

\* list_add makes one node of a line, fill_xview_single_list one row of a node.
LEMMA RowsOfNumbered ==
  ASSUME NEW nodes, Numbered(nodes)
  PROVE  Numbered(RowsOf(nodes))
<1> DEFINE row == [n \in nodes |-> [line |-> n.line, label |-> Label(n.rec)]]
<1>1. row \in Surjection(nodes, RowsOf(nodes))
  BY DEF Surjection, RowsOf
<1>2. IsFiniteSet(RowsOf(nodes))
  <2> HIDE DEF row
  <2> QED BY <1>1, FS_Surjection DEF Numbered
<1>3. \A x, y \in RowsOf(nodes) : x.line = y.line => x = y
  BY DEF RowsOf, Numbered
<1> QED BY <1>2, <1>3 DEF Numbered

\* The parse keeps lines of the file.
LEMMA ChewTabNodes ==
  ASSUME NEW present, NEW lines, NEW moderator
  PROVE  chew_tab(present, lines, moderator).nodes \subseteq lines
BY DEF chew_tab, NullClist

\* The row that a place names exists for as long as the list is that long: the
\* number of rows below is different for every row, and less than their number,
\* so it takes each value.
LEMMA RowExists ==
  ASSUME TypeOK, NEW list \in List, NEW r \in Nat, Numbered(rows[list]), r < Cardinality(rows[list])
  PROVE  RowAt(list, r) # {}
<1> DEFINE R == rows[list]
           N == Cardinality(R)
           below(x) == {y \in R : y.line > x.line}
           place == [x \in R |-> Cardinality(below(x))]
<1>1. R \subseteq Row /\ IsFiniteSet(R) /\ N \in Nat
  BY FS_CardinalityType DEF TypeOK, Numbered
<1>2. \A x \in R : x.line \in Nat
  BY <1>1 DEF Row
<1>3. ASSUME NEW x \in R PROVE IsFiniteSet(below(x)) /\ Cardinality(below(x)) \in Nat
  BY <1>1, FS_Subset, FS_CardinalityType
<1>4. ASSUME NEW x \in R, NEW y \in R, x.line > y.line
      PROVE  Cardinality(below(x)) < Cardinality(below(y))
  <2>1. below(x) \cup {x} \in SUBSET below(y) /\ x \notin below(x)
    BY <1>2, <1>4
  <2>2. Cardinality(below(x) \cup {x}) = Cardinality(below(x)) + 1
    BY <1>3, <2>1, FS_AddElement
  <2>3. Cardinality(below(x) \cup {x}) <= Cardinality(below(y))
    BY <1>3, <2>1, FS_Subset
  <2>4. Cardinality(below(x)) \in Nat /\ Cardinality(below(y)) \in Nat
    BY <1>3
  <2> HIDE DEF below
  <2> QED BY <2>2, <2>3, <2>4
<1>5. ASSUME NEW x \in R PROVE Cardinality(below(x)) < N
  <2>1. below(x) \cup {x} \in SUBSET R /\ x \notin below(x)
    BY <1>2
  <2>2. Cardinality(below(x) \cup {x}) = Cardinality(below(x)) + 1
    BY <1>3, <2>1, FS_AddElement
  <2>3. Cardinality(below(x) \cup {x}) <= N
    BY <1>1, <2>1, FS_Subset
  <2> QED BY <1>1, <1>3, <2>2, <2>3
<1>6. place \in [R -> 0..(N - 1)]
  <2> SUFFICES ASSUME NEW x \in R PROVE Cardinality(below(x)) \in 0..(N - 1)
    OBVIOUS
  <2>1. Cardinality(below(x)) \in Nat /\ Cardinality(below(x)) < N
    BY <1>3, <1>5
  <2> HIDE DEF below, N
  <2> QED BY <1>1, <2>1
<1>7. \A x, y \in R : place[x] = place[y] => x = y
  <2> SUFFICES ASSUME NEW x \in R, NEW y \in R, x # y PROVE place[x] # place[y]
    OBVIOUS
  <2>1. x.line # y.line
    BY DEF Numbered
  <2>2. x.line > y.line \/ y.line > x.line
    BY <1>2, <2>1
  <2>3. Cardinality(below(x)) \in Nat /\ Cardinality(below(y)) \in Nat
    BY <1>3
  <2>4. Cardinality(below(x)) < Cardinality(below(y)) \/ Cardinality(below(y)) < Cardinality(below(x))
    BY <1>4, <2>2
  <2>5. Cardinality(below(x)) # Cardinality(below(y))
    <3> HIDE DEF below
    <3> QED BY <2>3, <2>4
  <2> QED BY <2>5
<1>8. place \in Injection(R, 0..(N - 1))
  BY <1>6, <1>7 DEF Injection, IsInjective
<1>9. IsFiniteSet(0..(N - 1)) /\ Cardinality(0..(N - 1)) = N
  <2> HIDE DEF N
  <2>1. 0 \in Int /\ N - 1 \in Int
    BY <1>1
  <2>2. IsFiniteSet(0..(N - 1)) /\ Cardinality(0..(N - 1)) = IF 0 > N - 1 THEN 0 ELSE N - 1 - 0 + 1
    BY <2>1, FS_Interval
  <2>3. (IF 0 > N - 1 THEN 0 ELSE N - 1 - 0 + 1) = N
    BY <1>1
  <2> QED BY <2>2, <2>3
<1>10. place \in Surjection(R, 0..(N - 1))
  <2>1. Cardinality(R) = Cardinality(0..(N - 1))
    BY <1>9
  <2> HIDE DEF place, N
  <2> QED BY <1>8, <1>9, <2>1, FS_Injection
<1>11. r \in 0..(N - 1)
  BY <1>1
<1>12. PICK x \in R : place[x] = r
  BY <1>10, <1>11 DEF Surjection
<1> QED BY <1>12 DEF RowAt

-----------------------------------------------------------------------------
(* The inductive invariant of the tables, the lists and the rows.           *)

Parsed == {"stat", "lock_interface", "clear", "fill_mtab", "fill_fstab"}

\* /etc/mtab: numbered lines, below the next number; if it is absent, somebody
\* removed it.
DiskInv ==
    /\ Numbered(disk.lines)
    /\ \A l \in disk.lines : l.line < disk.next
    /\ disk.present \/ external > 0

\* The lists are what was parsed: fstab's are lines of the file, and a list of
\* an absent mtab is NULL until the next parse.
NodesInv ==
    /\ Numbered(mtab.nodes)
    /\ fstab.nodes \subseteq Fstab
    /\ full_fstab.nodes \subseteq Fstab
    /\ pc["core"] \in Parsed /\ mtab.st = "null" => external > 0
    /\ pc["core"] \in Parsed =>
          \A f \in fstab.nodes, m \in mtab.nodes : ~compare_record(f.rec, m.rec)

\* The rows: while they are filled the rest is empty, and nothing is selected
\* that is not shown.
RowInv ==
    /\ \A l \in List : Numbered(rows[l])
    /\ \A l \in List, r \in Nat : r \in selected[l] => r < Cardinality(rows[l])
    /\ pc["core"] = "fill_mtab" => rows["mount_list"] = {} /\ rows["fstab_list"] = {}
    /\ pc["core"] = "fill_fstab" =>
          /\ rows["fstab_list"] = {}
          /\ \A x \in rows["mount_list"] : \E m \in mtab.nodes : x.label = Label(m.rec)

-----------------------------------------------------------------------------
(* What the steps of the other threads leave alone.                         *)

\* Only core parses, frees, clears and fills; its place is its own, but for
\* its start.
LEMMA OthersLeaveLists ==
  ASSUME TypeOK, StartInv, MainNext \/ UiStep \/ UserNext \/ EnvNext
  PROVE  /\ UNCHANGED <<mtab, fstab, full_fstab, rows>>
         /\ pc'["core"] = pc["core"] \/ (pc["core"] = "unborn" /\ pc'["core"] = "chew_full")
<1> USE DEF TypeOK, At, Goto, decmutex, coreVars, lockVars, lifeVars, viewVars, forkVars, envVars
<1>1. CASE MainNext
  <2>1. CASE StartCore BY <2>1 DEF StartCore, StartInv
  <2>2. CASE StartUi BY <2>2 DEF StartUi
  <2>3. CASE CondWait BY <2>3 DEF CondWait
  <2>4. CASE MainExit BY <2>4 DEF MainExit
  <2> QED BY <1>1, <2>1, <2>2, <2>3, <2>4 DEF MainNext
<1>2. CASE UiStep
  <2>1. CASE BuildInterface BY <2>1 DEF BuildInterface
  <2>2. CASE ReadString \/ ReadStringNull BY <2>2 DEF ReadString, ReadStringNull
  <2>3. CASE SessionLock BY <2>3 DEF SessionLock
  <2>4. CASE DispatchPath \/ DispatchAlias \/ DispatchNull
    BY <2>4 DEF DispatchPath, DispatchAlias, DispatchNull
  <2>5. CASE NotFound BY <2>5 DEF NotFound
  <2>6. ASSUME NEW p \in Pid, Fork(p) \/ ChildExited(p) \/ ChildSignalled(p)
        PROVE  /\ UNCHANGED <<mtab, fstab, full_fstab, rows>>
               /\ pc'["core"] = pc["core"]
    BY <2>6 DEF Fork, ChildExited, ChildSignalled
  <2>7. CASE ForkFails BY <2>7 DEF ForkFails
  <2>8. CASE DestroyFlag BY <2>8 DEF DestroyFlag
  <2>9. CASE Leave BY <2>9 DEF Leave
  <2> QED BY <1>2, <2>1, <2>2, <2>3, <2>4, <2>5, <2>6, <2>7, <2>8, <2>9 DEF UiStep
<1>3. CASE UserNext
  <2>1. ASSUME NEW list \in List, NEW row \in 0..Cardinality(Entry), Select(list, row) \/ Command(list, row)
        PROVE  /\ UNCHANGED <<mtab, fstab, full_fstab, rows>>
               /\ pc'["core"] = pc["core"]
    BY <2>1 DEF Select, Command
  <2>2. ASSUME NEW e \in Entry, NEW mount \in BOOLEAN, RootCommand(e, mount)
        PROVE  /\ UNCHANGED <<mtab, fstab, full_fstab, rows>>
               /\ pc'["core"] = pc["core"]
    BY <2>2 DEF RootCommand
  <2>3. CASE FrameEvent BY <2>3 DEF FrameEvent
  <2>4. CASE Destroy BY <2>4 DEF Destroy
  <2> QED BY <1>3, <2>1, <2>2, <2>3, <2>4 DEF UserNext
<1>4. CASE EnvNext
  <2>1. ASSUME NEW p \in Pid, ChildExits(p) \/ ChildKilled(p)
        PROVE  UNCHANGED <<mtab, fstab, full_fstab, rows, pc>>
    BY <2>1 DEF ChildExits, ChildKilled
  <2>2. ASSUME NEW p \in Pid, NEW e \in Entry, ChildWrites(p, e)
        PROVE  UNCHANGED <<mtab, fstab, full_fstab, rows, pc>>
    BY <2>2 DEF ChildWrites
  <2>3. ASSUME NEW e \in Entry, OtherUser(e)
        PROVE  UNCHANGED <<mtab, fstab, full_fstab, rows, pc>>
    BY <2>3 DEF OtherUser
  <2>4. CASE MtabVanishes \/ MtabReturns
    BY <2>4 DEF MtabVanishes, MtabReturns
  <2>5. CASE SpuriousReturn
    BY <2>5 DEF SpuriousReturn
  <2> QED BY <1>4, <2>1, <2>2, <2>3, <2>4, <2>5 DEF EnvNext
<1> QED BY <1>1, <1>2, <1>3, <1>4

\* Only the environment writes /etc/mtab.
LEMMA ThreadsLeaveDisk == MainNext \/ CoreNext \/ UiStep \/ UserNext => UNCHANGED <<disk, external>>
<1> USE DEF envVars
<1>1. MainNext => UNCHANGED <<disk, external>>
  BY DEF MainNext, StartCore, StartUi, CondWait, MainExit
<1>2. CoreNext => UNCHANGED <<disk, external>>
  BY DEF CoreNext, ChewFull, ChewMalformed, ConstructLock, ConstructParse, ConstructStat,
     ConstructStatFails, ConstructLockInterface, ClearLists, FillMtab, FillNull, FillFstab, CoreLoop,
     OrganizeSame, OrganizeChanged, OrganizeStatFails, OrganizeLock, CoreFree, FreeNull
<1>3. UiStep => UNCHANGED <<disk, external>>
  BY DEF UiStep, BuildInterface, ReadString, ReadStringNull, SessionLock, DispatchPath,
     DispatchAlias, DispatchNull, NotFound, Fork, ChildExited, ChildSignalled, ForkFails,
     DestroyFlag, Leave
<1>4. UserNext => UNCHANGED <<disk, external>>
  BY DEF UserNext, Select, Command, RootCommand, FrameEvent, Destroy
<1> QED BY <1>1, <1>2, <1>3, <1>4

\* The time of /etc/mtab and the number of changes from outside only grow.
LEMMA ChangesGrow ==
  ASSUME TypeOK, [Next]_vars
  PROVE  /\ disk.mtime \in Nat /\ disk'.mtime \in Nat /\ disk'.mtime >= disk.mtime
         /\ external \in Nat /\ external' \in Nat /\ external' >= external
         /\ disk.present /\ ~disk'.present => external' > 0
<1>1. CASE UNCHANGED <<disk, external>>
  BY <1>1 DEF TypeOK, DiskType
<1>2. ASSUME NEW e \in Entry, AddLine(e) \/ RemoveLine(e)
      PROVE  disk'.mtime \in Nat /\ disk'.mtime >= disk.mtime /\ disk'.present
  BY <1>2 DEF AddLine, RemoveLine, WriteMtab, TypeOK, DiskType
<1>3. ASSUME NEW p \in Pid, NEW e \in Entry, ChildWrites(p, e)
      PROVE  /\ disk'.mtime \in Nat /\ disk'.mtime >= disk.mtime
             /\ external' = external /\ disk'.present
  BY <1>2, <1>3 DEF ChildWrites
<1>4. ASSUME NEW e \in Entry, OtherUser(e)
      PROVE  /\ disk'.mtime \in Nat /\ disk'.mtime >= disk.mtime
             /\ external' = external + 1 /\ disk'.present
  BY <1>2, <1>4 DEF OtherUser
<1>5. CASE MtabVanishes
  BY <1>5 DEF MtabVanishes, TypeOK, DiskType
<1>6. CASE MtabReturns
  BY <1>6 DEF MtabReturns, WriteMtab, TypeOK, DiskType
<1>7. CASE EnvNext
  BY <1>1, <1>3, <1>4, <1>5, <1>6, <1>7
     DEF EnvNext, ChildExits, ChildKilled, SpuriousReturn, envVars, TypeOK, DiskType
<1>8. CASE UNCHANGED vars
  BY <1>1, <1>8 DEF vars, envVars
<1> QED BY <1>1, <1>7, <1>8, ThreadsLeaveDisk DEF Next

\* Steps of core that move it and leave every list.
LEMMA CoreMoves ==
  ASSUME TypeOK,
         \/ ConstructLock \/ ConstructStat \/ ConstructStatFails \/ ConstructLockInterface
         \/ FillNull \/ CoreLoop \/ OrganizeSame \/ OrganizeChanged \/ OrganizeStatFails
         \/ OrganizeLock \/ ChewMalformed \/ FreeNull
  PROVE  /\ UNCHANGED <<mtab, fstab, full_fstab, rows, selected>>
         /\ pc'["core"] \in {"fill_mtab", "fill_fstab"} => pc'["core"] = pc["core"]
         /\ pc'["core"] \in Parsed => pc["core"] \in Parsed
<1> USE DEF TypeOK, At, Goto, decmutex, Parsed, coreVars, lockVars, lifeVars, viewVars, forkVars, envVars
<1>1. CASE ConstructLock BY <1>1 DEF ConstructLock
<1>2. CASE ConstructStat BY <1>2 DEF ConstructStat
<1>3. CASE ConstructStatFails BY <1>3 DEF ConstructStatFails
<1>4. CASE ConstructLockInterface BY <1>4 DEF ConstructLockInterface
<1>5. CASE FillNull BY <1>5 DEF FillNull
<1>6. CASE CoreLoop BY <1>6 DEF CoreLoop
<1>7. CASE OrganizeSame BY <1>7 DEF OrganizeSame
<1>8. CASE OrganizeChanged BY <1>8 DEF OrganizeChanged
<1>9. CASE OrganizeStatFails BY <1>9 DEF OrganizeStatFails
<1>10. CASE OrganizeLock BY <1>10 DEF OrganizeLock
<1>11. CASE ChewMalformed \/ FreeNull BY <1>11 DEF ChewMalformed, FreeNull
<1> QED BY <1>1, <1>2, <1>3, <1>4, <1>5, <1>6, <1>7, <1>8, <1>9, <1>10, <1>11

-----------------------------------------------------------------------------
(* The steps preserve each part.                                            *)

\* A new line of /etc/mtab has a new number.
LEMMA AddLineDisk ==
  ASSUME NEW e \in Entry, TypeOK, DiskInv, AddLine(e)
  PROVE  DiskInv'
<1> DEFINE new == [line |-> disk.next, rec |-> e]
<1>1. /\ disk'.lines = disk.lines \cup {new}
      /\ disk'.next = disk.next + 1
      /\ disk'.present
  BY DEF AddLine, WriteMtab
<1>2. disk.next \in Nat /\ \A l \in disk.lines : l.line \in Nat /\ l.line < disk.next
  BY DEF TypeOK, DiskType, DiskInv, Line
<1>3. \A l \in disk'.lines : l.line < disk'.next
  BY <1>1, <1>2
<1>4. IsFiniteSet(disk'.lines)
  <2>1. IsFiniteSet(disk.lines)
    BY DEF DiskInv, Numbered
  <2> HIDE DEF new
  <2>2. IsFiniteSet(disk.lines \cup {new})
    BY <2>1, FS_AddElement
  <2> QED BY <1>1, <2>2
<1>5. \A x, y \in disk'.lines : x.line = y.line => x = y
  <2>1. \A x \in disk.lines : x.line # new.line
    BY <1>2
  <2> QED BY <1>1, <2>1 DEF DiskInv, Numbered
<1> QED BY <1>1, <1>3, <1>4, <1>5 DEF DiskInv, Numbered

\* The lines that stay keep their numbers.
LEMMA RemoveLineDisk ==
  ASSUME NEW e \in Entry, TypeOK, DiskInv, RemoveLine(e)
  PROVE  DiskInv'
<1>1. /\ disk'.lines \subseteq disk.lines
      /\ disk'.next = disk.next
      /\ disk'.present
  BY DEF RemoveLine, WriteMtab
<1>2. Numbered(disk'.lines)
  BY <1>1, NumberedSubset DEF DiskInv
<1> QED BY <1>1, <1>2 DEF DiskInv

LEMMA DiskStep ==
  ASSUME TypeOK, DiskInv, [Next]_vars
  PROVE  DiskInv'
<1>1. CASE UNCHANGED <<disk, external>>
  BY <1>1 DEF DiskInv
<1>2. ASSUME NEW p \in Pid, NEW e \in Entry, ChildWrites(p, e) PROVE DiskInv'
  BY <1>2, AddLineDisk, RemoveLineDisk DEF ChildWrites
<1>3. ASSUME NEW e \in Entry, OtherUser(e) PROVE DiskInv'
  BY <1>3, AddLineDisk, RemoveLineDisk DEF OtherUser
<1>4. CASE MtabVanishes
  BY <1>4 DEF MtabVanishes, DiskInv, TypeOK, DiskType
<1>5. CASE MtabReturns
  BY <1>5 DEF MtabReturns, WriteMtab, DiskInv
<1>6. CASE MainNext \/ CoreNext \/ UiStep \/ UserNext
  BY <1>1, <1>6, ThreadsLeaveDisk
<1>7. CASE EnvNext
  BY <1>1, <1>2, <1>3, <1>4, <1>5, <1>7 DEF EnvNext, ChildExits, ChildKilled, SpuriousReturn, envVars
<1>8. CASE UNCHANGED vars
  BY <1>1, <1>8 DEF vars, envVars
<1> QED BY <1>6, <1>7, <1>8 DEF Next

LEMMA NodesStep ==
  ASSUME TypeOK, StartInv, DiskInv, NodesInv, [Next]_vars
  PROVE  NodesInv'
<1>0. external > 0 => external' > 0
  BY ChangesGrow
<1>1. CASE /\ UNCHANGED <<mtab, fstab, full_fstab>>
           /\ pc'["core"] \in Parsed => pc["core"] \in Parsed
  BY <1>0, <1>1 DEF NodesInv
<1>2. CASE ChewFull
  <2>1. full_fstab'.nodes \subseteq Fstab
    <3>1. PICK opened \in FstabOpens : full_fstab' = chew_tab(opened, Fstab, NullClist)
      BY <1>2 DEF ChewFull
    <3> QED BY <3>1, ChewTabNodes
  <2>2. pc'["core"] \notin Parsed
    BY <1>2 DEF ChewFull, Goto, Parsed, TypeOK
  <2> QED BY <1>2, <2>1, <2>2 DEF ChewFull, NodesInv
<1>3. CASE ConstructParse
  <2>0. PICK opened \in FstabOpens : fstab' = chew_tab(opened, Fstab, mtab')
    BY <1>3 DEF ConstructParse
  <2>1. mtab'.nodes \subseteq disk.lines /\ fstab'.nodes \subseteq Fstab
    BY <1>3, <2>0, ChewTabNodes DEF ConstructParse
  <2>2. Numbered(mtab'.nodes)
    BY <2>1, NumberedSubset DEF DiskInv
  <2>3. mtab'.st = "null" => external' > 0
    BY <1>0, <1>3 DEF ConstructParse, chew_tab, NullClist, DiskInv
  <2>4. \A f \in fstab'.nodes, m \in mtab'.nodes : ~compare_record(f.rec, m.rec)
    BY <2>0 DEF chew_tab, NullClist
  <2> QED BY <1>3, <2>1, <2>2, <2>3, <2>4 DEF ConstructParse, NodesInv
<1>4. CASE ClearLists \/ FillMtab \/ FillFstab
  <2>1. UNCHANGED <<mtab, fstab, full_fstab>> /\ pc["core"] \in Parsed
    BY <1>4 DEF ClearLists, FillMtab, FillFstab, At, Parsed, coreVars
  <2> QED BY <1>1, <2>1
<1>5. CASE CoreFree
  <2>1. /\ mtab'.nodes = mtab.nodes /\ fstab'.nodes = fstab.nodes
        /\ full_fstab'.nodes = full_fstab.nodes
    BY <1>5 DEF CoreFree, list_free, TypeOK, ClistType
  <2>2. pc'["core"] \notin Parsed
    BY <1>5 DEF CoreFree, decmutex, Parsed, TypeOK
  <2> QED BY <2>1, <2>2 DEF NodesInv
<1>6. CASE CoreNext
  BY <1>1, <1>2, <1>3, <1>4, <1>5, <1>6, CoreMoves DEF CoreNext
<1>7. CASE MainNext \/ UiStep \/ UserNext \/ EnvNext
  <2>1. "chew_full" \notin Parsed
    BY DEF Parsed
  <2> QED BY <1>1, <1>7, <2>1, OthersLeaveLists
<1>8. CASE UNCHANGED vars
  BY <1>1, <1>8 DEF vars, coreVars
<1> QED BY <1>6, <1>7, <1>8 DEF Next

\* Only the user's choice of a row changes the selection, besides core.
LEMMA OthersLeaveSelection ==
  ASSUME MainNext \/ UiStep \/ UserNext \/ EnvNext,
         \A list \in List, row \in 0..Cardinality(Entry) : ~Select(list, row)
  PROVE  UNCHANGED selected
<1> USE DEF viewVars
<1>1. MainNext => UNCHANGED selected
  BY DEF MainNext, StartCore, StartUi, CondWait, MainExit
<1>2. UiStep => UNCHANGED selected
  BY DEF UiStep, BuildInterface, ReadString, ReadStringNull, SessionLock, DispatchPath,
     DispatchAlias, DispatchNull, NotFound, Fork, ChildExited, ChildSignalled, ForkFails,
     DestroyFlag, Leave
<1>3. UserNext => UNCHANGED selected
  BY DEF UserNext, Command, RootCommand, FrameEvent, Destroy
<1>4. EnvNext => UNCHANGED selected
  BY DEF EnvNext, ChildExits, ChildKilled, ChildWrites, OtherUser, MtabVanishes, MtabReturns,
     SpuriousReturn
<1> QED BY <1>1, <1>2, <1>3, <1>4

\* A list nobody filled is numbered, and nothing in it is selected.
LEMMA EmptyList ==
  /\ Numbered({})
  /\ \A r \in Nat : ~(r < Cardinality({}))
BY FS_EmptySet DEF Numbered

LEMMA RowStep ==
  ASSUME TypeOK, StartInv, NodesInv, RowInv, [Next]_vars
  PROVE  RowInv'
<1> USE DEF List
<1>1. CASE /\ UNCHANGED <<rows, mtab, selected>>
           /\ pc'["core"] \in {"fill_mtab", "fill_fstab"} => pc'["core"] = pc["core"]
  BY <1>1 DEF RowInv
<1>2. CASE ClearLists
  <2>1. /\ \A l \in List : rows'[l] = {} /\ selected'[l] = {}
        /\ pc'["core"] = "fill_mtab"
    BY <1>2 DEF ClearLists, Goto, TypeOK
  <2> QED BY <2>1, EmptyList DEF RowInv
<1>3. CASE FillMtab
  <2> DEFINE shown == {n \in mtab.nodes : CanAddMtab(n)}
  <2>1. /\ rows' = [rows EXCEPT !["mount_list"] = RowsOf(shown)]
        /\ pc["core"] = "fill_mtab" /\ pc'["core"] = "fill_fstab"
        /\ UNCHANGED <<selected, mtab>>
    BY <1>3 DEF FillMtab, At, Goto, TypeOK, coreVars
  <2>2. rows'["mount_list"] = RowsOf(shown) /\ rows'["fstab_list"] = {}
    BY <2>1 DEF RowInv, TypeOK
  <2>3. \A l \in List, r \in Nat : r \notin selected'[l]
    BY <2>1, EmptyList DEF RowInv
  <2>4. Numbered(RowsOf(shown))
    BY NumberedSubset, RowsOfNumbered DEF NodesInv
  <2>5. \A x \in RowsOf(shown) : \E m \in mtab.nodes : x.label = Label(m.rec)
    BY DEF RowsOf
  <2> HIDE DEF shown
  <2> QED BY <2>1, <2>2, <2>3, <2>4, <2>5, EmptyList DEF RowInv
<1>4. CASE FillFstab
  <2> DEFINE shown == {n \in fstab.nodes : CanAddFstab(n)}
  <2>1. /\ rows' = [rows EXCEPT !["fstab_list"] = RowsOf(shown)]
        /\ pc["core"] = "fill_fstab" /\ pc'["core"] = "loop"
        /\ UNCHANGED selected
    BY <1>4 DEF FillFstab, At, Goto, TypeOK
  <2>2. /\ rows'["mount_list"] = rows["mount_list"]
        /\ rows'["fstab_list"] = RowsOf(shown)
        /\ rows["fstab_list"] = {}
    BY <2>1 DEF RowInv, TypeOK
  <2>3. \A r \in Nat : r \notin selected'["fstab_list"]
    BY <2>1, <2>2, EmptyList DEF RowInv
  <2>4. Numbered(RowsOf(shown))
    <3>1. Numbered(Fstab)
      BY XvMountAssumption DEF Numbered
    <3> QED BY <3>1, NumberedSubset, RowsOfNumbered DEF NodesInv
  <2> HIDE DEF shown
  <2> QED BY <2>1, <2>2, <2>3, <2>4 DEF RowInv
<1>5. ASSUME NEW list \in List, NEW row \in 0..Cardinality(Entry), Select(list, row) PROVE RowInv'
  BY <1>5 DEF Select, RowInv, TypeOK, coreVars
<1>6. CASE ChewFull \/ ConstructParse \/ CoreFree
  <2>1. /\ UNCHANGED <<rows, selected>>
        /\ pc'["core"] \notin {"fill_mtab", "fill_fstab"}
    BY <1>6 DEF ChewFull, ConstructParse, CoreFree, Goto, decmutex, TypeOK, viewVars
  <2> QED BY <2>1 DEF RowInv
<1>7. CASE CoreNext
  BY <1>1, <1>2, <1>3, <1>4, <1>6, <1>7, CoreMoves DEF CoreNext
<1>8. CASE MainNext \/ UiStep \/ UserNext \/ EnvNext
  BY <1>1, <1>5, <1>8, OthersLeaveLists, OthersLeaveSelection
<1>9. CASE UNCHANGED vars
  BY <1>1, <1>9 DEF vars, coreVars, viewVars
<1> QED BY <1>7, <1>8, <1>9 DEF Next

-----------------------------------------------------------------------------
(* No bad pointer without a change from outside.                            *)

\* Core's time of /etc/mtab is a time that the file had, so a rebuild by
\* mtab_organize means that the file was written since the start.
Timed == {"lock_interface", "clear", "fill_mtab", "fill_fstab", "loop", "organize"}
TimeInv ==
    /\ disk.mtime >= 1
    /\ pc["core"] \in Timed => 1 <= mtab_stat /\ mtab_stat <= disk.mtime
    /\ caller = "mtab_organize" => disk.mtime > 1

\* Before the window is filled for the first time there is nothing to click, so
\* the first ClearLists takes no selection away.
FirstRound == caller = "maintain_core" /\
              pc["core"] \in {"unborn", "chew_full", "lock_mount", "parse", "stat", "lock_interface",
                              "clear"}
FirstInv ==
    /\ FirstRound => /\ \A l \in List : rows[l] = {} /\ selected[l] = {}
                     /\ pc["ui"] # "read_string"
    /\ pc["ui"] = "read_string" /\ job.row \notin selected[job.list] => caller = "mtab_organize"
    /\ pc["core"] = "lock_construct" => caller = "mtab_organize"

\* Who called mtab_construct, and what time core knows.
LEMMA CoreOwnsTime ==
  ASSUME MainNext \/ UiStep \/ UserNext \/ EnvNext
  PROVE  UNCHANGED <<caller, mtab_stat>>
<1> USE DEF coreVars
<1>1. CASE MainNext
  BY <1>1 DEF MainNext, StartCore, StartUi, CondWait, MainExit
<1>2. CASE UiStep
  BY <1>2 DEF UiStep, BuildInterface, ReadString, ReadStringNull, SessionLock, DispatchPath,
     DispatchAlias, DispatchNull, NotFound, Fork, ChildExited, ChildSignalled, ForkFails,
     DestroyFlag, Leave
<1>3. CASE UserNext
  BY <1>3 DEF UserNext, Select, Command, RootCommand, FrameEvent, Destroy
<1>4. CASE EnvNext
  BY <1>4 DEF EnvNext, ChildExits, ChildKilled, ChildWrites, OtherUser, MtabVanishes, MtabReturns,
     SpuriousReturn
<1> QED BY <1>1, <1>2, <1>3, <1>4

LEMMA TimeStep ==
  ASSUME TypeOK, StartInv, TimeInv, [Next]_vars
  PROVE  TimeInv'
<1>1. /\ disk.mtime \in Nat /\ disk'.mtime \in Nat /\ disk'.mtime >= disk.mtime
      /\ mtab_stat \in Nat
  BY ChangesGrow DEF TypeOK
<1>2. CASE /\ UNCHANGED <<caller, mtab_stat>>
           /\ pc'["core"] \in Timed => pc["core"] \in Timed
  BY <1>1, <1>2 DEF TimeInv
<1>3. CASE ConstructStat
  <2>1. mtab_stat' = disk.mtime /\ UNCHANGED <<caller, disk>>
    BY <1>3 DEF ConstructStat, envVars
  <2> QED BY <1>1, <2>1 DEF TimeInv
<1>4. CASE OrganizeChanged
  <2>1. /\ pc["core"] = "organize" /\ pc'["core"] = "lock_construct"
        /\ disk.mtime # mtab_stat /\ UNCHANGED disk
    BY <1>4 DEF OrganizeChanged, At, Goto, TypeOK, envVars
  <2>2. 1 <= mtab_stat /\ mtab_stat <= disk.mtime
    BY <2>1 DEF TimeInv, Timed
  <2>3. disk.mtime > 1
    BY <1>1, <2>1, <2>2
  <2>4. pc'["core"] \notin Timed
    BY <2>1 DEF Timed
  <2> QED BY <1>1, <2>1, <2>3, <2>4 DEF TimeInv
<1>5. CASE CoreNext
  <2> USE DEF At, Goto, decmutex, TypeOK, Timed, coreVars
  <2>1. CASE ChewFull \/ ChewMalformed BY <1>2, <2>1 DEF ChewFull, ChewMalformed
  <2>2. CASE ConstructLock \/ ConstructParse BY <1>2, <2>2 DEF ConstructLock, ConstructParse
  <2>3. CASE ConstructStatFails BY <1>2, <2>3 DEF ConstructStatFails
  <2>4. CASE ConstructLockInterface BY <1>2, <2>4 DEF ConstructLockInterface
  <2>5. CASE ClearLists \/ FillMtab BY <1>2, <2>5 DEF ClearLists, FillMtab
  <2>6. CASE FillNull \/ FillFstab BY <1>2, <2>6 DEF FillNull, FillFstab
  <2>7. CASE CoreLoop \/ OrganizeSame BY <1>2, <2>7 DEF CoreLoop, OrganizeSame
  <2>8. CASE OrganizeStatFails \/ OrganizeLock BY <1>2, <2>8 DEF OrganizeStatFails, OrganizeLock
  <2>9. CASE CoreFree \/ FreeNull BY <1>2, <2>9 DEF CoreFree, FreeNull
  <2> QED BY <1>3, <1>4, <1>5, <2>1, <2>2, <2>3, <2>4, <2>5, <2>6, <2>7, <2>8, <2>9 DEF CoreNext
<1>6. CASE MainNext \/ UiStep \/ UserNext \/ EnvNext
  <2>1. "chew_full" \notin Timed
    BY DEF Timed
  <2> QED BY <1>2, <1>6, <2>1, CoreOwnsTime, OthersLeaveLists
<1>7. CASE UNCHANGED vars
  BY <1>2, <1>7 DEF vars, coreVars
<1> QED BY <1>5, <1>6, <1>7 DEF Next

\* A click on a row begins in main_loop, and its row stays selected but for core.
LEMMA ClickKept ==
  ASSUME TypeOK, MainNext \/ UiStep \/ UserNext \/ EnvNext
  PROVE  \/ pc'["ui"] # "read_string"
         \/ UNCHANGED <<job, selected>> /\ pc["ui"] = "read_string"
         \/ /\ UNCHANGED <<selected, rows>>
            /\ job'.list \in List /\ job'.row \in selected[job'.list]
<1> USE DEF At, Goto, decmutex, TypeOK, viewVars
<1>1. CASE MainNext
  <2>1. CASE StartCore \/ CondWait \/ MainExit BY <2>1 DEF StartCore, CondWait, MainExit
  <2>2. CASE StartUi BY <2>2 DEF StartUi
  <2> QED BY <1>1, <2>1, <2>2 DEF MainNext
<1>2. CASE UiStep
  <2>1. CASE ReadStringNull BY <2>1 DEF ReadStringNull
  <2>2. CASE BuildInterface \/ ReadString \/ SessionLock
    BY <2>2 DEF BuildInterface, ReadString, SessionLock
  <2>3. CASE DispatchPath \/ DispatchAlias \/ DispatchNull
    BY <2>3 DEF DispatchPath, DispatchAlias, DispatchNull
  <2>4. CASE NotFound \/ ForkFails \/ DestroyFlag \/ Leave
    BY <2>4 DEF NotFound, ForkFails, DestroyFlag, Leave
  <2>5. ASSUME NEW p \in Pid, Fork(p) \/ ChildExited(p) \/ ChildSignalled(p)
        PROVE  pc'["ui"] # "read_string"
    BY <2>5 DEF Fork, ChildExited, ChildSignalled
  <2> QED BY <1>2, <2>1, <2>2, <2>3, <2>4, <2>5 DEF UiStep
<1>3. CASE UserNext
  <2>1. ASSUME NEW list \in List, NEW row \in 0..Cardinality(Entry), Command(list, row)
        PROVE  /\ UNCHANGED <<selected, rows>>
               /\ job'.list \in List /\ job'.row \in selected[job'.list]
    BY <2>1 DEF Command
  <2>2. ASSUME NEW list \in List, NEW row \in 0..Cardinality(Entry), Select(list, row)
        PROVE  pc'["ui"] # "read_string"
    BY <2>2 DEF Select
  <2>3. ASSUME NEW e \in Entry, NEW mount \in BOOLEAN, RootCommand(e, mount)
        PROVE  pc'["ui"] # "read_string"
    BY <2>3 DEF RootCommand
  <2>4. CASE FrameEvent \/ Destroy BY <2>4 DEF FrameEvent, Destroy
  <2> QED BY <1>3, <2>1, <2>2, <2>3, <2>4 DEF UserNext
<1>4. CASE EnvNext
  <2>1. UNCHANGED <<job, selected>> /\ pc'["ui"] = pc["ui"]
    BY <1>4 DEF EnvNext, ChildExits, ChildKilled, ChildWrites, OtherUser, MtabVanishes, MtabReturns,
       SpuriousReturn
  <2> QED BY <2>1
<1> QED BY <1>1, <1>2, <1>3, <1>4

LEMMA FirstStep ==
  ASSUME TypeOK, StartInv, FirstInv, [Next]_vars
  PROVE  FirstInv'
<1>1. CASE MainNext \/ UiStep \/ UserNext \/ EnvNext
  <2>1. UNCHANGED <<rows, caller>> /\ (FirstRound' => FirstRound)
    BY <1>1, OthersLeaveLists, CoreOwnsTime DEF FirstRound
  <2>2. ASSUME FirstRound' PROVE \A l \in List : rows'[l] = {} /\ selected'[l] = {}
    <3>1. \A l \in List : rows[l] = {} /\ selected[l] = {}
      BY <2>1, <2>2 DEF FirstInv
    <3>2. \A list \in List, row \in 0..Cardinality(Entry) : ~Select(list, row)
      <4> SUFFICES ASSUME NEW list \in List, NEW row \in 0..Cardinality(Entry), Select(list, row)
                   PROVE  FALSE
        OBVIOUS
      <4>1. row \in Nat /\ row < Cardinality(rows[list])
        BY DEF Select
      <4> QED BY <3>1, <4>1, EmptyList
    <3> QED BY <1>1, <2>1, <3>1, <3>2, OthersLeaveSelection
  <2>3. ASSUME FirstRound', pc'["ui"] = "read_string" PROVE FALSE
    BY <1>1, <2>1, <2>3, ClickKept DEF FirstInv
  <2>4. ASSUME pc'["ui"] = "read_string", job'.row \notin selected'[job'.list]
        PROVE  caller' = "mtab_organize"
    BY <1>1, <2>1, <2>4, ClickKept DEF FirstInv
  <2>5. pc'["core"] = "lock_construct" => caller' = "mtab_organize"
    BY <1>1, <2>1, OthersLeaveLists DEF FirstInv
  <2> QED BY <2>2, <2>3, <2>4, <2>5 DEF FirstInv
<1>2. CASE /\ UNCHANGED <<rows, selected, job>> /\ pc'["ui"] = pc["ui"]
           /\ \/ caller' = "mtab_organize"
              \/ /\ caller' = caller /\ (FirstRound' => FirstRound)
                 /\ pc'["core"] = "lock_construct" => pc["core"] = "lock_construct"
  BY <1>2 DEF FirstInv, FirstRound
<1>3. CASE ClearLists
  <2>1. /\ pc["core"] = "clear" /\ pc'["core"] = "fill_mtab" /\ pc'["ui"] = pc["ui"]
        /\ UNCHANGED <<caller, job>>
    BY <1>3 DEF ClearLists, At, Goto, TypeOK, coreVars
  <2>2. pc["ui"] = "read_string" => caller = "mtab_organize"
    BY <2>1 DEF FirstInv, FirstRound, TypeOK
  <2> QED BY <2>1, <2>2 DEF FirstInv, FirstRound
<1>4. CASE FillMtab \/ FillFstab
  <2>1. /\ pc'["core"] \in {"fill_fstab", "loop"} /\ pc'["ui"] = pc["ui"]
        /\ UNCHANGED <<caller, job, selected>>
    BY <1>4 DEF FillMtab, FillFstab, At, Goto, TypeOK, coreVars
  <2> QED BY <2>1 DEF FirstInv, FirstRound
<1>5. CASE CoreNext
  <2> USE DEF At, Goto, decmutex, TypeOK, FirstRound, coreVars, viewVars
  <2>1. CASE ChewFull \/ ChewMalformed BY <1>2, <2>1 DEF ChewFull, ChewMalformed
  <2>2. CASE ConstructLock \/ ConstructParse BY <1>2, <2>2 DEF ConstructLock, ConstructParse
  <2>3. CASE ConstructStat \/ ConstructStatFails BY <1>2, <2>3 DEF ConstructStat, ConstructStatFails
  <2>4. CASE ConstructLockInterface BY <1>2, <2>4 DEF ConstructLockInterface
  <2>5. CASE FillNull BY <1>2, <2>5 DEF FillNull
  <2>6. CASE CoreLoop \/ OrganizeSame BY <1>2, <2>6 DEF CoreLoop, OrganizeSame
  <2>7. CASE OrganizeChanged BY <1>2, <2>7 DEF OrganizeChanged
  <2>8. CASE OrganizeStatFails BY <1>2, <2>8 DEF OrganizeStatFails
  <2>9. CASE OrganizeLock
    <3>1. caller = "mtab_organize"
      BY <2>9 DEF OrganizeLock, FirstInv
    <3> QED BY <1>2, <2>9, <3>1 DEF OrganizeLock
  <2>10. CASE CoreFree
    <3>1. pc'["ui"] = pc["ui"] /\ pc'["core"] = "exited"
      BY <2>10 DEF CoreFree
    <3>2. UNCHANGED <<rows, selected, job, caller>>
      BY <2>10 DEF CoreFree
    <3> QED BY <1>2, <3>1, <3>2
  <2>11. CASE FreeNull BY <1>2, <2>11 DEF FreeNull
  <2> QED BY <1>3, <1>4, <1>5, <2>1, <2>2, <2>3, <2>4, <2>5, <2>6, <2>7, <2>8, <2>9, <2>10, <2>11
          DEF CoreNext
<1>6. CASE UNCHANGED vars
  BY <1>2, <1>6 DEF vars, coreVars, viewVars, FirstRound
<1> QED BY <1>1, <1>5, <1>6 DEF Next

\* The five reads of a bad pointer, and what each needs.
LEMMA CrashStep ==
  ASSUME TypeOK, StartInv, ListInv, NodesInv, RowInv, TimeInv, FirstInv, CrashNeedsChange, [Next]_vars
  PROVE  CrashNeedsChange'
<1>1. CASE UNCHANGED vars
  BY <1>1 DEF vars, coreVars, viewVars, envVars, CrashNeedsChange, FstabUnread
<1>2. CASE Next /\ crashed'
  <2>1. ~crashed
    BY <1>2 DEF Next, MainNext, CoreNext, UiStep, UserNext, EnvNext, At, Running,
       StartCore, StartUi, CondWait, MainExit,
       ChewFull, ChewMalformed, ConstructLock, ConstructParse, ConstructStat, ConstructStatFails,
       ConstructLockInterface, ClearLists, FillMtab, FillNull, FillFstab, CoreLoop, OrganizeSame,
       OrganizeChanged, OrganizeStatFails, OrganizeLock, CoreFree, FreeNull,
       BuildInterface, ReadString, ReadStringNull, SessionLock, DispatchPath, DispatchAlias,
       DispatchNull, NotFound, Fork, ChildExited, ChildSignalled, ForkFails, DestroyFlag, Leave,
       Select, Command, RootCommand, FrameEvent, Destroy,
       ChildExits, ChildKilled, ChildWrites, OtherUser, MtabVanishes, MtabReturns, SpuriousReturn
  <2>2. ChewMalformed \/ FillNull \/ FreeNull \/ ReadStringNull \/ DispatchNull
    BY <1>2, <2>1 DEF Next, MainNext, CoreNext, UiStep, UserNext, EnvNext,
       StartCore, StartUi, CondWait, MainExit,
       ChewFull, ConstructLock, ConstructParse, ConstructStat, ConstructStatFails,
       ConstructLockInterface, ClearLists, FillMtab, FillFstab, CoreLoop, OrganizeSame,
       OrganizeChanged, OrganizeStatFails, OrganizeLock, CoreFree,
       BuildInterface, ReadString, SessionLock, DispatchPath, DispatchAlias,
       NotFound, Fork, ChildExited, ChildSignalled, ForkFails, DestroyFlag, Leave,
       Select, Command, RootCommand, FrameEvent, Destroy,
       ChildExits, ChildKilled, ChildWrites, OtherUser, MtabVanishes, MtabReturns, SpuriousReturn
  <2>3. UNCHANGED <<pc, mtab, fstab, full_fstab, caller, job, selected, disk, external>>
    BY <2>2 DEF ChewMalformed, FillNull, FreeNull, ReadStringNull, DispatchNull, coreVars, viewVars,
       envVars
  <2>4. CASE FillNull
    <3>1. pc["core"] \in {"fill_mtab", "fill_fstab"} /\ Parseable(full_fstab) /\ Parseable(fstab)
      BY <2>4 DEF FillNull, At, ListInv
    <3>2. CASE pc["core"] = "fill_mtab" /\ mtab.st # "live"
      <4>1. mtab.st = "null"
        BY <3>2 DEF ListInv, TypeOK, ClistType
      <4>2. external > 0
        BY <3>2, <4>1 DEF NodesInv, Parsed
      <4> QED BY <2>3, <3>2, <4>1, <4>2 DEF CrashNeedsChange
    <3>3. CASE full_fstab.st # "live" \/ fstab.st # "live"
      BY <2>3, <3>1, <3>3 DEF Parseable, CrashNeedsChange, FstabUnread
    <3> QED BY <2>4, <3>2, <3>3 DEF FillNull, FillsFromNull, At
  <2>5. CASE ReadStringNull
    <3>1. pc["ui"] = "read_string" /\ RowAt(job.list, job.row) = {}
      BY <2>5 DEF ReadStringNull, At
    <3>2. job.list \in List /\ job.row \in Nat
      BY DEF TypeOK
    <3>3. job.row \notin selected[job.list]
      BY <3>1, <3>2, RowExists DEF RowInv
    <3>4. caller = "mtab_organize" /\ disk.mtime > 1
      BY <3>1, <3>3 DEF FirstInv, TimeInv
    <3> QED BY <2>3, <3>1, <3>4 DEF CrashNeedsChange
  <2>6. CASE ChewMalformed
    BY <2>3, <2>6 DEF ChewMalformed, At, CrashNeedsChange, FstabUnread
  <2>7. CASE FreeNull
    <3>1. full_fstab.st = "null" /\ Parseable(full_fstab)
      BY <2>7 DEF FreeNull, At, ListInv
    <3> QED BY <2>3, <3>1 DEF Parseable, CrashNeedsChange, FstabUnread
  <2>8. CASE DispatchNull
    <3>1. full_fstab.st = "null" /\ pc["ui"] = "dispatch"
      BY <2>8 DEF DispatchNull, At
    <3>2. Parseable(full_fstab)
      BY <3>1 DEF ListInv, Leaving, TypeOK, CorePc
    <3> QED BY <2>3, <3>1, <3>2 DEF Parseable, CrashNeedsChange, FstabUnread
  <2> QED BY <2>2, <2>4, <2>5, <2>6, <2>7, <2>8
<1> QED BY <1>1, <1>2 DEF CrashNeedsChange

-----------------------------------------------------------------------------
(* No text twice.                                                           *)

LEMMA TwiceStep ==
  ASSUME TypeOK, StartInv, NodesInv, RowInv, NoRowTwice, [Next]_vars
  PROVE  NoRowTwice'
<1> SUFFICES ASSUME TextsTellApart
    PROVE  \A x \in rows'["mount_list"], y \in rows'["fstab_list"] : x.label # y.label
  BY DEF NoRowTwice, TextsTellApart
<1> USE DEF List
<1>1. CASE UNCHANGED rows
  BY <1>1 DEF NoRowTwice
<1>2. CASE ClearLists
  BY <1>2 DEF ClearLists
<1>3. CASE FillMtab
  <2>1. rows'["fstab_list"] = {}
    BY <1>3 DEF FillMtab, At, RowInv, TypeOK
  <2> QED BY <2>1
<1>4. CASE FillFstab
  <2>1. /\ rows'["mount_list"] = rows["mount_list"]
        /\ rows'["fstab_list"] = RowsOf({n \in fstab.nodes : CanAddFstab(n)})
        /\ pc["core"] = "fill_fstab"
    BY <1>4 DEF FillFstab, At, TypeOK
  <2> SUFFICES ASSUME NEW x \in rows["mount_list"],
                      NEW f \in fstab.nodes, x.label = Label(f.rec)
               PROVE  FALSE
    BY <2>1 DEF RowsOf
  <2>2. PICK m \in mtab.nodes : x.label = Label(m.rec)
    BY <2>1 DEF RowInv
  <2>3. f.rec \in Entry /\ m.rec \in Entry
    BY XvMountAssumption DEF TypeOK, ClistType, Line
  <2>4. compare_record(f.rec, m.rec)
    BY <2>2, <2>3 DEF TextsTellApart
  <2>5. ~compare_record(f.rec, m.rec)
    BY <2>1 DEF NodesInv, Parsed
  <2> QED BY <2>4, <2>5
<1>5. CASE CoreNext
  BY <1>1, <1>2, <1>3, <1>4, <1>5, CoreMoves DEF CoreNext, ChewFull, ConstructParse, CoreFree, viewVars
<1>6. CASE MainNext \/ UiStep \/ UserNext \/ EnvNext
  BY <1>1, <1>6, OthersLeaveLists
<1>7. CASE UNCHANGED vars
  BY <1>1, <1>7 DEF vars, viewVars
<1> QED BY <1>5, <1>6, <1>7 DEF Next

-----------------------------------------------------------------------------
(* What holds of the rows, for root and ordinary users alike.               *)

ViewParts == DiskInv /\ NodesInv /\ RowInv /\ TimeInv /\ FirstInv /\ CrashNeedsChange /\ NoRowTwice
ViewInv == CoreInv /\ ViewParts

LEMMA ViewInvariant == Spec => []ViewInv
<1>1. Init => ViewParts
  <2> SUFFICES ASSUME Init PROVE ViewParts
    OBVIOUS
  <2>1. DiskInv
    <3>1. Cardinality(Mtab0) \in Nat /\ \A l \in Mtab0 : l.line \in Nat
      BY XvMountAssumption, FS_CardinalityType DEF Line
    <3>2. \A l \in Mtab0 : l.line < Cardinality(Mtab0) + 1
      BY <3>1, XvMountAssumption
    <3> QED BY <3>2, XvMountAssumption DEF Init, DiskInv, Numbered
  <2>2. NodesInv
    BY EmptyList DEF Init, NodesInv, NullClist, Parsed
  <2>3. RowInv
    BY EmptyList DEF Init, RowInv
  <2>4. NoRowTwice
    BY DEF Init, NoRowTwice, List
  <2>5. TimeInv /\ FirstInv /\ CrashNeedsChange
    BY DEF Init, TimeInv, Timed, FirstInv, CrashNeedsChange
  <2> QED BY <2>1, <2>2, <2>3, <2>4, <2>5 DEF ViewParts
<1>2. ViewInv /\ [Next]_vars => ViewParts'
  BY DiskStep, NodesStep, RowStep, TimeStep, FirstStep, CrashStep, TwiceStep
     DEF ViewInv, ViewParts, CoreInv
<1> QED BY <1>1, <1>2, CoreInvariant, PTL DEF Spec, ViewInv

\* A bad pointer is read only after a change from outside: the row read after a
\* click is there as long as /etc/mtab was not written since the start, mtab is
\* NULL only if the file was removed, and fstab only if it could not be read.
THEOREM CrashesComeFromOutside == Spec => []CrashNeedsChange
<1>1. ViewInv => CrashNeedsChange
  BY DEF ViewInv, ViewParts
<1> QED BY <1>1, ViewInvariant, PTL

\* fstab is moderated by the mtab of the same round, and both lists are cleared
\* before one is filled: no text is in both lists, in any state.
THEOREM NoRowIsTwice == Spec => []NoRowTwice
<1>1. ViewInv => NoRowTwice
  BY DEF ViewInv, ViewParts
<1> QED BY <1>1, ViewInvariant, PTL

-----------------------------------------------------------------------------
(* From the row to the fork: what an ordinary user mounts.                  *)

\* Every line with an alias has the user option (the alias of a CD-ROM says
\* nothing of the line it came from).
AliasesForUsers == \A l \in Fstab : HasAlias(l.rec) => l.rec.user

UserTarget(target) == \E l \in Fstab : l.rec.user /\ l.rec.target = target

\* A row, and the text read from it, is an alias or names a target for users;
\* an alias is looked up before the fork.
TargetInv ==
    /\ \A l \in List : \A x \in rows[l] : x.label.alias \/ UserTarget(x.label.target)
    /\ pc["ui"] \in {"lock_mount", "dispatch"} => job.label.alias \/ UserTarget(job.label.target)
    /\ pc["ui"] = "fork" => UserTarget(job.label.target)
    /\ \A p \in Pid : child[p] = NoChild \/ UserTarget(child[p].target)

\* The text of a record with a target for users.
LEMMA LabelOfUserRecord ==
  ASSUME NEW e \in Entry, UserTarget(e.target)
  PROVE  Label(e).alias \/ UserTarget(Label(e).target)
BY DEF Label, Path

LEMMA TargetStep ==
  ASSUME ~IsRoot, AliasesForUsers, TypeOK, StartInv, NodesInv, TargetInv, [Next]_vars
  PROVE  TargetInv'
<1> USE DEF List
<1>1. CASE /\ UNCHANGED <<rows, job, child>>
           /\ pc'["ui"] \in {"lock_mount", "dispatch", "fork"} => pc'["ui"] = pc["ui"]
  BY <1>1 DEF TargetInv
<1>2. CASE FillMtab
  <2>1. ASSUME NEW n \in mtab.nodes, CanAddMtab(n) PROVE UserTarget(n.rec.target)
    <3>1. PICK f \in WithDevice(full_fstab, n.rec) : f.rec.user
      BY <2>1 DEF CanAddMtab
    <3>2. f \in Fstab /\ f.rec.target = n.rec.target
      BY <3>1 DEF WithDevice, SamePlace, NodesInv
    <3> QED BY <3>1, <3>2 DEF UserTarget
  <2>2. \A n \in mtab.nodes : n.rec \in Entry
    BY DEF TypeOK, ClistType, Line
  <2>3. \A x \in rows'["mount_list"] : x.label.alias \/ UserTarget(x.label.target)
    BY <1>2, <2>1, <2>2, LabelOfUserRecord DEF FillMtab, RowsOf, TypeOK
  <2>4. /\ rows'["fstab_list"] = rows["fstab_list"]
        /\ UNCHANGED <<job, child>> /\ pc'["ui"] = pc["ui"]
    BY <1>2 DEF FillMtab, Goto, TypeOK, forkVars
  <2> QED BY <2>3, <2>4 DEF TargetInv
<1>3. CASE FillFstab
  <2>1. ASSUME NEW n \in fstab.nodes, CanAddFstab(n) PROVE UserTarget(n.rec.target)
    BY <2>1 DEF CanAddFstab, NodesInv, UserTarget
  <2>2. \A n \in fstab.nodes : n.rec \in Entry
    BY DEF TypeOK, ClistType, Line
  <2>3. \A x \in rows'["fstab_list"] : x.label.alias \/ UserTarget(x.label.target)
    BY <1>3, <2>1, <2>2, LabelOfUserRecord DEF FillFstab, RowsOf, TypeOK
  <2>4. /\ rows'["mount_list"] = rows["mount_list"]
        /\ UNCHANGED <<job, child>> /\ pc'["ui"] = pc["ui"]
    BY <1>3 DEF FillFstab, Goto, TypeOK, forkVars
  <2> QED BY <2>3, <2>4 DEF TargetInv
<1>4. CASE ClearLists
  BY <1>4 DEF ClearLists, TargetInv, Goto, TypeOK, forkVars
<1>5. CASE ReadString
  <2>1. PICK x \in rows[job.list] : job' = [job EXCEPT !.label = x.label]
    BY <1>5 DEF ReadString, RowAt
  <2>2. x.label.alias \/ UserTarget(x.label.target)
    BY DEF TargetInv, TypeOK
  <2>3. job'.label = x.label /\ pc'["ui"] = "lock_mount" /\ UNCHANGED <<rows, child>>
    BY <1>5, <2>1 DEF ReadString, Goto, TypeOK, viewVars, forkVars
  <2> QED BY <2>2, <2>3 DEF TargetInv
<1>6. CASE SessionLock
  BY <1>6 DEF SessionLock, At, Goto, TypeOK, forkVars, TargetInv
<1>7. CASE DispatchPath
  BY <1>7 DEF DispatchPath, At, Goto, TypeOK, viewVars, forkVars, TargetInv
<1>8. CASE DispatchAlias
  <2>1. CASE pc'["ui"] = "not_found" /\ UNCHANGED job
    BY <1>8, <2>1 DEF DispatchAlias, viewVars, forkVars, TargetInv
  <2>2. ASSUME NEW f \in WithAlias(full_fstab, job.label),
               job' = [job EXCEPT !.label = Path(f.rec)], pc'["ui"] = "fork"
        PROVE  TargetInv'
    <3>1. f \in Fstab /\ HasAlias(f.rec)
      BY DEF WithAlias, NodesInv
    <3>2. UserTarget(job'.label.target)
      BY <2>2, <3>1 DEF AliasesForUsers, UserTarget, Path, TypeOK
    <3> QED BY <1>8, <2>2, <3>2 DEF DispatchAlias, viewVars, forkVars, TargetInv
  <2> QED BY <1>8, <2>1, <2>2 DEF DispatchAlias, Goto, TypeOK
<1>9. ASSUME NEW p \in Pid, Fork(p) PROVE TargetInv'
  <2>1. /\ child' = [child EXCEPT ![p] = [st |-> "running", mount |-> job.mount,
                                          target |-> job.label.target]]
        /\ UserTarget(job.label.target)
        /\ pc'["ui"] = "main_loop" /\ UNCHANGED rows
    BY <1>9 DEF Fork, At, Goto, TypeOK, viewVars, TargetInv
  <2>2. \A q \in Pid : child'[q] = NoChild \/ UserTarget(child'[q].target)
    BY <2>1 DEF TargetInv, TypeOK
  <2> QED BY <2>1, <2>2 DEF TargetInv
<1>10. ASSUME NEW p \in Pid, NEW st, child' = [child EXCEPT ![p].st = st], child[p] # NoChild,
              UNCHANGED <<pc, rows, job>>
       PROVE  TargetInv'
  <2>1. \A q \in Pid : child'[q] = child[q] \/ (q = p /\ child'[q].target = child[q].target)
    BY <1>10 DEF TypeOK, ChildType
  <2> QED BY <1>10, <2>1 DEF TargetInv
<1>11. ASSUME NEW p \in Pid, ChildExited(p) \/ ChildSignalled(p) \/ ChildExits(p) \/ ChildKilled(p)
       PROVE  TargetInv'
  <2>1. child[p] # NoChild
    <3>1. child[p].st # "none"
      BY <1>11 DEF ChildExited, ChildSignalled, ChildExits, ChildKilled
    <3>2. NoChild.st = "none"
      BY DEF NoChild
    <3> QED BY <3>1, <3>2
  <2>2. UNCHANGED <<pc, rows, job>>
    BY <1>11 DEF ChildExited, ChildSignalled, ChildExits, ChildKilled, viewVars
  <2>3. \E st : child' = [child EXCEPT ![p].st = st]
    BY <1>11 DEF ChildExited, ChildSignalled, ChildExits, ChildKilled
  <2> QED BY <1>10, <2>1, <2>2, <2>3
<1>12. ASSUME NEW p \in Pid, NEW e \in Entry, ChildWrites(p, e) PROVE TargetInv'
  <2>1. child[p] # NoChild
    <3>1. child[p].st # "none"
      BY <1>12 DEF ChildWrites
    <3>2. NoChild.st = "none"
      BY DEF NoChild
    <3> QED BY <3>1, <3>2
  <2>2. UNCHANGED <<pc, rows, job>>
    BY <1>12 DEF ChildWrites, viewVars
  <2>3. child' = [child EXCEPT ![p].st = "wrote"]
    BY <1>12 DEF ChildWrites
  <2> QED BY <1>10, <2>1, <2>2, <2>3
<1>13. ASSUME NEW list \in List, NEW row \in 0..Cardinality(Entry), Command(list, row) PROVE TargetInv'
  BY <1>13 DEF Command, Goto, TypeOK, viewVars, forkVars, TargetInv
<1>14. CASE MainNext \/ SpuriousReturn
  <2>1. UNCHANGED <<rows, job, child>>
    BY <1>14 DEF MainNext, StartCore, StartUi, CondWait, MainExit, SpuriousReturn, viewVars, forkVars
  <2>2. pc'["ui"] \in {"lock_mount", "dispatch", "fork"} => pc'["ui"] = pc["ui"]
    BY <1>14 DEF MainNext, StartCore, StartUi, CondWait, MainExit, SpuriousReturn, Goto, TypeOK
  <2> QED BY <1>1, <2>1, <2>2
<1>15. CASE CoreNext
  <2>1. CASE UNCHANGED <<rows, job, child>> /\ pc'["ui"] = pc["ui"]
    BY <1>1, <2>1
  <2> USE DEF Goto, decmutex, TypeOK, viewVars, forkVars
  <2>2. CASE ChewFull \/ ConstructLock \/ ConstructParse \/ ConstructStat
    BY <2>1, <2>2 DEF ChewFull, ConstructLock, ConstructParse, ConstructStat
  <2>3. CASE ConstructStatFails \/ ConstructLockInterface \/ FillNull
    BY <2>1, <2>3 DEF ConstructStatFails, ConstructLockInterface, FillNull
  <2>4. CASE CoreLoop \/ OrganizeSame \/ OrganizeChanged
    BY <2>1, <2>4 DEF CoreLoop, OrganizeSame, OrganizeChanged
  <2>5. CASE OrganizeStatFails \/ OrganizeLock \/ CoreFree
    BY <2>1, <2>5 DEF OrganizeStatFails, OrganizeLock, CoreFree
  <2>6. CASE ChewMalformed \/ FreeNull
    BY <2>1, <2>6 DEF ChewMalformed, FreeNull
  <2> QED BY <1>2, <1>3, <1>4, <1>15, <2>2, <2>3, <2>4, <2>5, <2>6 DEF CoreNext
<1>16. CASE \/ BuildInterface \/ ReadStringNull \/ DispatchNull \/ NotFound \/ ForkFails
            \/ DestroyFlag \/ Leave
  <2>1. UNCHANGED <<rows, job, child>>
    BY <1>16 DEF BuildInterface, ReadStringNull, DispatchNull, NotFound, ForkFails, DestroyFlag, Leave, viewVars, forkVars
  <2>2. pc'["ui"] \in {"lock_mount", "dispatch", "fork"} => pc'["ui"] = pc["ui"]
    BY <1>16 DEF BuildInterface, ReadStringNull, DispatchNull, NotFound, ForkFails, DestroyFlag, Leave, Goto, decmutex, TypeOK
  <2> QED BY <1>1, <2>1, <2>2
<1>17. CASE UiStep
  BY <1>5, <1>6, <1>7, <1>8, <1>9, <1>11, <1>16, <1>17 DEF UiStep
<1>18. CASE UserNext
  <2>1. ASSUME NEW list \in List, NEW row \in 0..Cardinality(Entry), Select(list, row) PROVE TargetInv'
    BY <1>1, <2>1 DEF Select, forkVars
  <2>2. CASE FrameEvent \/ Destroy
    <3>1. UNCHANGED <<rows, job, child>>
      BY <2>2 DEF FrameEvent, Destroy, viewVars, forkVars
    <3>2. pc'["ui"] \in {"lock_mount", "dispatch", "fork"} => pc'["ui"] = pc["ui"]
      BY <2>2 DEF FrameEvent, Destroy, decmutex, TypeOK
    <3> QED BY <1>1, <3>1, <3>2
  <2> QED BY <1>13, <1>18, <2>1, <2>2 DEF UserNext, RootCommand
<1>19. CASE EnvNext
  BY <1>1, <1>11, <1>12, <1>14, <1>19 DEF EnvNext, OtherUser, MtabVanishes, MtabReturns, viewVars, forkVars
<1>20. CASE UNCHANGED vars
  BY <1>1, <1>20 DEF vars, viewVars, forkVars
<1> QED BY <1>14, <1>15, <1>17, <1>18, <1>19, <1>20 DEF Next

\* An ordinary user's mount names the mount point of an fstab line with the
\* user option, from the filling of the rows to the fork: what the window hides
\* cannot be mounted through it.
THEOREM UsersForkUserTargets == Spec => []ForksOnlyUserTargets
<1>1. ASSUME ~IsRoot, AliasesForUsers PROVE Spec => []TargetInv
  <2>1. Init => TargetInv
    BY DEF Init, TargetInv, List
  <2>2. ViewInv /\ TargetInv /\ [Next]_vars => TargetInv'
    BY <1>1, TargetStep DEF ViewInv, ViewParts, CoreInv
  <2> QED BY <2>1, <2>2, ViewInvariant, PTL DEF Spec
<1>2. ASSUME ~IsRoot, AliasesForUsers PROVE Spec => []ForksOnlyUserTargets
  <2>1. TargetInv => ForksOnlyUserTargets
    BY DEF TargetInv, ForksOnlyUserTargets, UserTarget
  <2> QED BY <1>1, <1>2, <2>1, PTL
<1>3. ASSUME ~(~IsRoot /\ AliasesForUsers) PROVE Spec => []ForksOnlyUserTargets
  <2>1. ForksOnlyUserTargets
    BY <1>3 DEF ForksOnlyUserTargets, AliasesForUsers
  <2> QED BY <2>1, PTL
<1> QED BY <1>2, <1>3

=============================================================================
