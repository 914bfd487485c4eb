---------------------------- MODULE McBootProofs ----------------------------
(***************************************************************************)
(* Proofs about McBoot, for any set of scripts, faults and interrupts:     *)
(* after any history of runs, stops and reboots, each failing or           *)
(* interrupted anywhere, no cleanup removes files below a mount, a stop    *)
(* whose own commands worked leaves nothing behind, and a boot whose own   *)
(* commands worked has booted.  The histories after which mounts are left  *)
(* that no script looks for are told apart by the variable left, in the    *)
(* properties themselves.                                                  *)
(*                                                                         *)
(* None is inductive.  All rest on LayersInv (the module every cleanup     *)
(* looks for is loaded as long as there is a mount in mcos_dir, and only   *)
(* the top layer has any), the second on StopInv (what each command of a   *)
(* stop leaves for the next) and the third on its counterpart for a boot.  *)
(* There is a lemma for each part of IInv, with a case for each script and *)
(* each command or group of commands.                                      *)
(***************************************************************************)
EXTENDS McBoot, SequenceTheorems, TLAPS

\* The first state of the host, before any script.
LEMMA InitIInv == Init => IInv
<1> SUFFICES ASSUME Init PROVE IInv
  OBVIOUS
<1>1. CtlType
  BY DEF Init, CtlType, StopOpt, Place
<1>2. HostType
  <2>1. layers \in Seq(SUBSET MountPoint)
    BY EmptySeq DEF Init
  <2>2. klogd \in BOOLEAN /\ chunk \in BOOLEAN
    BY Zenon DEF Init
  <2>. QED
    BY <2>1, <2>2 DEF Init, HostType
<1>3. LayersInv /\ StopInv /\ StopIsClean
  BY DEF Init, LayersInv, Bare, Top, StopInv, StopIsClean, Window, BootPlace, OverlaidPlace, ReleasePlace
<1>. QED
  BY <1>1, <1>2, <1>3 DEF IInv, TypeOK

\* No step leaves mounts without the module, or reaches the removal of mcos_dir with any.
LEMMA LayersStep == ASSUME IInv, [Next]_vars PROVE LayersInv'
<1> USE DEF IInv, LayersInv, Bare, Top, TypeOK, CtlType, HostType, Window, BootPlace, OverlaidPlace,
      ReleasePlace
<1>1. CASE run_mck
  BY <1>1 DEF run_mck, RunOpt, host, ihk
<1>2. CASE stop_mck
  BY <1>2 DEF stop_mck, StopOpt, host, ihk
<1>3. CASE reboot_mck
  BY <1>3 DEF reboot_mck, RebootOpt, host, ihk
<1>4. CASE Interrupt
  BY <1>4 DEF Interrupt, Exit, Leave, Top, host, ihk
<1>5. CASE Overlay
  <2>1. CASE overlay
    BY <2>1 DEF overlay, At, Goto, AfterOverlay, host, ihk
  <2>2. CASE umount_sys
    BY <2>2 DEF umount_sys, Umount, Command, At, Goto, Top, host, ihk
  <2>3. CASE umount_proc
    BY <2>3 DEF umount_proc, Umount, Command, At, Goto, Top, host, ihk
  <2>4. CASE umount_linux
    BY <2>4 DEF umount_linux, Umount, Command, At, Goto, Top, host, ihk
  <2>5. CASE umount_dir
    BY <2>5 DEF umount_dir, Command, Leave, At, Goto, Top, host, ihk
  <2>6. CASE rm
    BY <2>6 DEF rm, At, Goto, host, ihk
  <2>7. CASE rmmod_overlay
    BY <2>7 DEF rmmod_overlay, Command, At, Goto, Exit, AfterOverlay, host, ihk
  <2>. QED
    BY <1>5, <2>1, <2>2, <2>3, <2>4, <2>5, <2>6, <2>7 DEF Overlay
<1>6. CASE Reserve
  BY <1>6 DEF Reserve, mcklogd, At, Goto, insmod_ihk, Command, set_swappiness, insmod_ihk_smp,
      reserve_mem, reserve_cpu, chunk_check, Exit, host, ihk
<1>7. CASE Boot
  <2>1. CASE insmod_mcctrl
    BY <2>1 DEF insmod_mcctrl, Command, At, Goto, host, ihk
  <2>2. CASE destroy0
    BY <2>2 DEF destroy0, Command, At, Goto, host, ihk
  <2>3. CASE create
    BY <2>3 DEF create, Command, MaxOs, Lowest, At, Goto, host, ihk
  <2>4. CASE assign_cpu
    BY <2>4 DEF assign_cpu, Give, Command, At, Goto, host, ihk
  <2>5. CASE ikc_map
    BY <2>5 DEF ikc_map, Command, At, Goto, Exit, host, ihk
  <2>6. CASE assign_mem
    BY <2>6 DEF assign_mem, Give, Command, At, Goto, host, ihk
  <2>7. CASE load
    BY <2>7 DEF load, Give, Command, At, Goto, host, ihk
  <2>8. CASE boot
    BY <2>8 DEF boot, Give, Command, At, Goto, host, ihk
  <2>9. CASE chown
    BY <2>9 DEF chown, Command, At, Goto, Exit, host, ihk
  <2>10. CASE mount_dir
    BY <2>10 DEF mount_dir, Mount, Command, Leave, Top, At, Goto, Exit, host, ihk
  <2>11. CASE mount_linux
    BY <2>11 DEF mount_linux, Mount, With, Top, Command, Leave, At, Goto, Exit, host, ihk
  <2>12. CASE insmod_overlay
    BY <2>12 DEF insmod_overlay, Command, Leave, Top, At, Goto, Exit, host, ihk
  <2>13. CASE wait_proc
    BY <2>13 DEF wait_proc, Await, At, Goto, host, ihk
  <2>14. CASE mount_proc
    BY <2>14 DEF mount_proc, Mount, With, Top, Command, Leave, At, Goto, Exit, host, ihk
  <2>15. CASE wait_sys
    BY <2>15 DEF wait_sys, Await, At, Goto, host, ihk
  <2>16. CASE mount_sys
    BY <2>16 DEF mount_sys, Mount, With, Top, Command, Leave, At, Goto, Exit, host, ihk
  <2>17. CASE hide
    BY <2>17 DEF hide, At, Exit, host, ihk
  <2>. QED
    BY <1>7, <2>1, <2>2, <2>3, <2>4, <2>5, <2>6, <2>7, <2>8, <2>9, <2>10, <2>11, <2>12, <2>13,
      <2>14, <2>15, <2>16, <2>17 DEF Boot
<1>8. CASE Stop
  BY <1>8 DEF Stop, destroy, Command, At, Goto, Exit, AfterShutdown, rmmod_mcctrl, Rmmod, rmmod_smp,
      rmmod_ihk, tidy, host, ihk
<1>9. CASE UNCHANGED vars
  BY <1>9 DEF vars, ctl, host, ihk
<1>. QED
  BY <1>1, <1>2, <1>3, <1>4, <1>5, <1>6, <1>7, <1>8, <1>9 DEF Next, Step

\* Every command of a stop leaves what the next one needs, and no stop boots.
LEMMA StopStep == ASSUME IInv, [Next]_vars PROVE StopInv'
<1> USE DEF IInv, StopInv, TypeOK, CtlType, HostType, Window, BootPlace, OverlaidPlace,
      ReleasePlace
<1>1. CASE run_mck
  BY <1>1 DEF run_mck, RunOpt, host, ihk
<1>2. CASE stop_mck
  BY <1>2 DEF stop_mck, StopOpt, host, ihk
<1>3. CASE reboot_mck
  BY <1>3 DEF reboot_mck, RebootOpt, host, ihk
<1>4. CASE Interrupt
  BY <1>4 DEF Interrupt, Exit, Leave, Top, host, ihk
<1>5. CASE Overlay
  BY <1>5 DEF Overlay, overlay, At, Goto, AfterOverlay, umount_sys, Umount, Top, umount_proc,
      umount_linux, umount_dir, Leave, rm, rmmod_overlay, Command, Exit, host, ihk
<1>6. CASE Reserve
  BY <1>6 DEF Reserve, mcklogd, At, Goto, insmod_ihk, Command, set_swappiness, insmod_ihk_smp,
      reserve_mem, reserve_cpu, chunk_check, Exit, host, ihk
<1>7. CASE Boot
  BY <1>7 DEF Boot, insmod_mcctrl, Command, At, Goto, destroy0, create, assign_cpu, Give, ikc_map,
      Exit, assign_mem, load, boot, chown, mount_dir, Mount, mount_linux, With, Top, Leave,
      insmod_overlay, wait_proc, Await, mount_proc, wait_sys, mount_sys, hide, host, ihk
<1>8. CASE Stop
  <2>1. CASE destroy
    BY <2>1 DEF destroy, Command, At, Goto, Exit, AfterShutdown, host, ihk
  <2>2. CASE rmmod_mcctrl
    BY <2>2 DEF rmmod_mcctrl, Rmmod, Command, At, Goto, host, ihk
  <2>3. CASE rmmod_smp
    BY <2>3 DEF rmmod_smp, Rmmod, Command, At, Goto, host, ihk
  <2>4. CASE rmmod_ihk
    BY <2>4 DEF rmmod_ihk, Rmmod, Command, At, Goto, host, ihk
  <2>5. CASE tidy
    BY <2>5 DEF tidy, At, Exit, host, ihk
  <2>. QED
    BY <1>8, <2>1, <2>2, <2>3, <2>4, <2>5 DEF Stop
<1>9. CASE UNCHANGED vars
  BY <1>9 DEF vars, ctl, host, ihk
<1>. QED
  BY <1>1, <1>2, <1>3, <1>4, <1>5, <1>6, <1>7, <1>8, <1>9 DEF Next, Step

\* The last command of a stop completes the cleanup.
LEMMA CleanStep == ASSUME IInv, [Next]_vars PROVE StopIsClean'
<1> USE DEF IInv, LayersInv, Bare, Top, StopInv, StopIsClean, TypeOK, CtlType, HostType, Window, BootPlace,
      OverlaidPlace, ReleasePlace
<1>1. CASE run_mck
  BY <1>1 DEF run_mck, RunOpt, host, ihk
<1>2. CASE stop_mck
  BY <1>2 DEF stop_mck, StopOpt, host, ihk
<1>3. CASE reboot_mck
  BY <1>3 DEF reboot_mck, RebootOpt, host, ihk
<1>4. CASE Interrupt
  BY <1>4 DEF Interrupt, Exit, Leave, Top, host, ihk
<1>5. CASE Overlay
  <2>1. CASE overlay
    BY <2>1 DEF overlay, At, Goto, AfterOverlay, host, ihk
  <2>2. CASE umount_sys
    BY <2>2 DEF umount_sys, Umount, Command, At, Goto, Top, host, ihk
  <2>3. CASE umount_proc
    BY <2>3 DEF umount_proc, Umount, Command, At, Goto, Top, host, ihk
  <2>4. CASE umount_linux
    BY <2>4 DEF umount_linux, Umount, Command, At, Goto, Top, host, ihk
  <2>5. CASE umount_dir
    BY <2>5 DEF umount_dir, Command, Leave, At, Goto, Top, host, ihk
  <2>6. CASE rm
    BY <2>6 DEF rm, At, Goto, host, ihk
  <2>7. CASE rmmod_overlay
    BY <2>7 DEF rmmod_overlay, Command, At, Goto, Exit, AfterOverlay, host, ihk
  <2>. QED
    BY <1>5, <2>1, <2>2, <2>3, <2>4, <2>5, <2>6, <2>7 DEF Overlay
<1>6. CASE Reserve
  BY <1>6 DEF Reserve, mcklogd, At, Goto, insmod_ihk, Command, set_swappiness, insmod_ihk_smp,
      reserve_mem, reserve_cpu, chunk_check, Exit, host, ihk
<1>7. CASE Boot
  BY <1>7 DEF Boot, insmod_mcctrl, Command, At, Goto, destroy0, create, assign_cpu, Give, ikc_map,
      Exit, assign_mem, load, boot, chown, mount_dir, Mount, mount_linux, With, Top, Leave,
      insmod_overlay, wait_proc, Await, mount_proc, wait_sys, mount_sys, hide, host, ihk
<1>8. CASE Stop
  <2>1. CASE destroy
    BY <2>1 DEF destroy, Command, At, Goto, Exit, AfterShutdown, host, ihk
  <2>2. CASE rmmod_mcctrl
    BY <2>2 DEF rmmod_mcctrl, Rmmod, Command, At, Goto, host, ihk
  <2>3. CASE rmmod_smp
    BY <2>3 DEF rmmod_smp, Rmmod, Command, At, Goto, host, ihk
  <2>4. CASE rmmod_ihk
    BY <2>4 DEF rmmod_ihk, Rmmod, Command, At, Goto, host, ihk
  <2>5. CASE tidy
    BY <2>5 DEF tidy, At, Exit, host, ihk
  <2>. QED
    BY <1>8, <2>1, <2>2, <2>3, <2>4, <2>5 DEF Stop
<1>9. CASE UNCHANGED vars
  BY <1>9 DEF vars, ctl, host, ihk
<1>. QED
  BY <1>1, <1>2, <1>3, <1>4, <1>5, <1>6, <1>7, <1>8, <1>9 DEF Next, Step

\* A Boolean, which the SMT backend does not follow through Command.
LEMMA FaultStep == ASSUME TypeOK, [Next]_vars PROVE fault' \in BOOLEAN
<1> USE DEF TypeOK, CtlType
<1>1. CASE Overlay
  BY <1>1, Zenon DEF Overlay, overlay, umount_sys, Umount, umount_proc, umount_linux,
      umount_dir, Leave, rm, rmmod_overlay, Command
<1>2. CASE Reserve
  BY <1>2, Zenon DEF Reserve, mcklogd, insmod_ihk, Command, set_swappiness, insmod_ihk_smp,
      reserve_mem, reserve_cpu, chunk_check
<1>3. CASE Boot
  BY <1>3, Zenon DEF Boot, insmod_mcctrl, Command, destroy0, create, assign_cpu, Give, ikc_map,
      assign_mem, load, boot, chown, mount_dir, Mount, mount_linux, insmod_overlay, wait_proc,
      Await, mount_proc, wait_sys, mount_sys, hide
<1>4. CASE Stop
  BY <1>4, Zenon DEF Stop, destroy, Command, rmmod_mcctrl, Rmmod, rmmod_smp, rmmod_ihk, tidy
<1>5. CASE run_mck \/ stop_mck \/ reboot_mck \/ Interrupt
  BY <1>5, Zenon DEF run_mck, stop_mck, reboot_mck, Interrupt
<1>6. CASE UNCHANGED vars
  BY <1>6, Zenon DEF vars, ctl
<1>. QED
  BY <1>1, <1>2, <1>3, <1>4, <1>5, <1>6 DEF Next, Step

\* Control moves between known places, and a script that ends is at none.
LEMMA CtlStep == ASSUME IInv, [Next]_vars PROVE CtlType'
<1>0. fault' \in BOOLEAN
  BY FaultStep DEF IInv
<1> USE DEF IInv, TypeOK, CtlType, Place, Opt
<1>1. CASE run_mck
  BY <1>0, <1>1 DEF run_mck, RunOpt, host, ihk
<1>2. CASE stop_mck
  BY <1>0, <1>2 DEF stop_mck, StopOpt, host, ihk
<1>3. CASE reboot_mck
  BY <1>0, <1>3 DEF reboot_mck, RebootOpt, host, ihk
<1>4. CASE Interrupt
  BY <1>0, <1>4 DEF Interrupt, Exit, Leave, Top, host, ihk
<1>5. CASE Overlay
  BY <1>0, <1>5 DEF Overlay, overlay, At, Goto, AfterOverlay, umount_sys, Umount, Top, umount_proc,
      umount_linux, umount_dir, Leave, rm, rmmod_overlay, Command, Exit, host, ihk
<1>6. CASE Reserve
  BY <1>0, <1>6 DEF Reserve, mcklogd, At, Goto, insmod_ihk, Command, set_swappiness, insmod_ihk_smp,
      reserve_mem, reserve_cpu, chunk_check, Exit, host, ihk
<1>7. CASE Boot
  BY <1>0, <1>7 DEF Boot, insmod_mcctrl, Command, At, Goto, destroy0, create, assign_cpu, Give,
      ikc_map, Exit, assign_mem, load, boot, chown, mount_dir, Mount, mount_linux, With, Top, Leave,
      insmod_overlay, wait_proc, Await, mount_proc, wait_sys, mount_sys, hide, host, ihk
<1>8. CASE Stop
  BY <1>0, <1>8 DEF Stop, destroy, Command, At, Goto, Exit, AfterShutdown, rmmod_mcctrl, Rmmod,
      rmmod_smp, rmmod_ihk, tidy, host, ihk
<1>9. CASE UNCHANGED vars
  BY <1>0, <1>9 DEF vars, ctl, host, ihk
<1>. QED
  BY <1>1, <1>2, <1>3, <1>4, <1>5, <1>6, <1>7, <1>8, <1>9 DEF Next, Step

\* What the mounts and unmounts make of the stack on mcos_dir.
LEMMA StackTypes ==
  ASSUME layers \in Seq(SUBSET MountPoint)
  PROVE  /\ Append(layers, {}) \in Seq(SUBSET MountPoint)
         /\ layers # <<>> =>
              /\ SubSeq(layers, 1, Top - 1) \in Seq(SUBSET MountPoint)
              /\ \A m \in MountPoint : /\ With(m) \in Seq(SUBSET MountPoint)
                                      /\ [layers EXCEPT ![Top] = @ \ {m}] \in Seq(SUBSET MountPoint)
<1>1. Append(layers, {}) \in Seq(SUBSET MountPoint)
  OBVIOUS
<1>2. ASSUME layers # <<>>
      PROVE  SubSeq(layers, 1, Top - 1) \in Seq(SUBSET MountPoint)
  BY <1>2 DEF Top
<1>3. ASSUME layers # <<>>, NEW m \in MountPoint
      PROVE  /\ With(m) \in Seq(SUBSET MountPoint)
             /\ [layers EXCEPT ![Top] = @ \ {m}] \in Seq(SUBSET MountPoint)
  <2>1. Top \in 1..Len(layers)
    BY <1>3 DEF Top
  <2>2. layers[Top] \subseteq MountPoint
    BY <2>1
  <2>. QED
    BY <1>3, <2>1, <2>2, ExceptSeq DEF With
<1>. QED
  BY <1>1, <1>2, <1>3

\* The host stays well-formed; mounts in mcos_dir need a layer to go in.
LEMMA HostStep == ASSUME IInv, [Next]_vars PROVE HostType'
<1> USE DEF IInv, TypeOK, HostType, MaxOs, LayersInv, Window, OverlaidPlace
<1>1. CASE run_mck
  BY <1>1 DEF run_mck, RunOpt, host, ihk
<1>2. CASE stop_mck
  BY <1>2 DEF stop_mck, StopOpt, host, ihk
<1>3. CASE reboot_mck
  BY <1>3 DEF reboot_mck, RebootOpt, host, ihk
<1>4. CASE Interrupt
  BY <1>4 DEF Interrupt, Exit, Leave, Top, host, ihk
<1>5. CASE Overlay
  <2>1. CASE overlay
    BY <2>1 DEF overlay, At, Goto, AfterOverlay, host, ihk
  <2>2. CASE umount_sys
    BY <2>2, StackTypes DEF umount_sys, Umount, Command, At, Goto, MountPoint, host, ihk
  <2>3. CASE umount_proc
    BY <2>3, StackTypes DEF umount_proc, Umount, Command, At, Goto, MountPoint, host, ihk
  <2>4. CASE umount_linux
    BY <2>4, StackTypes DEF umount_linux, Umount, Command, At, Goto, MountPoint, host, ihk
  <2>5. CASE umount_dir
    BY <2>5, StackTypes DEF umount_dir, Command, Leave, At, Goto, host, ihk
  <2>6. CASE rm
    BY <2>6 DEF rm, At, Goto, host, ihk
  <2>7. CASE rmmod_overlay
    BY <2>7 DEF rmmod_overlay, Command, At, Goto, Exit, AfterOverlay, host, ihk
  <2>. QED
    BY <1>5, <2>1, <2>2, <2>3, <2>4, <2>5, <2>6, <2>7 DEF Overlay
<1>6. CASE Reserve
  BY <1>6 DEF Reserve, mcklogd, At, Goto, insmod_ihk, Command, set_swappiness, insmod_ihk_smp,
      reserve_mem, reserve_cpu, chunk_check, Exit, host, ihk
<1>7. CASE Boot
  <2>1. CASE insmod_mcctrl
    BY <2>1 DEF insmod_mcctrl, Command, At, Goto, host, ihk
  <2>2. CASE destroy0
    BY <2>2 DEF destroy0, Command, At, Goto, host, ihk
  <2>3. CASE create
    BY <2>3 DEF create, Command, At, Goto, host, ihk
  <2>4. CASE assign_cpu
    BY <2>4 DEF assign_cpu, Give, Command, At, Goto, host, ihk
  <2>5. CASE ikc_map
    BY <2>5 DEF ikc_map, Command, At, Goto, Exit, host, ihk
  <2>6. CASE assign_mem
    BY <2>6 DEF assign_mem, Give, Command, At, Goto, host, ihk
  <2>7. CASE load
    BY <2>7 DEF load, Give, Command, At, Goto, host, ihk
  <2>8. CASE boot
    BY <2>8 DEF boot, Give, Command, At, Goto, host, ihk
  <2>9. CASE chown
    BY <2>9 DEF chown, Command, At, Goto, Exit, host, ihk
  <2>10. CASE mount_dir
    BY <2>10, StackTypes DEF mount_dir, Mount, Command, Leave, At, Goto, Exit, host, ihk
  <2>11. CASE mount_linux
    BY <2>11, StackTypes DEF mount_linux, Mount, Command, Leave, At, Goto, Exit, MountPoint, host, ihk
  <2>12. CASE insmod_overlay
    BY <2>12 DEF insmod_overlay, Command, Leave, Top, At, Goto, Exit, host, ihk
  <2>13. CASE wait_proc
    BY <2>13 DEF wait_proc, Await, At, Goto, host, ihk
  <2>14. CASE mount_proc
    BY <2>14, StackTypes DEF mount_proc, Mount, Command, Leave, At, Goto, Exit, MountPoint, host, ihk
  <2>15. CASE wait_sys
    BY <2>15 DEF wait_sys, Await, At, Goto, host, ihk
  <2>16. CASE mount_sys
    BY <2>16, StackTypes DEF mount_sys, Mount, Command, Leave, At, Goto, Exit, MountPoint, host, ihk
  <2>17. CASE hide
    BY <2>17 DEF hide, At, Exit, host, ihk
  <2>. QED
    BY <1>7, <2>1, <2>2, <2>3, <2>4, <2>5, <2>6, <2>7, <2>8, <2>9, <2>10, <2>11, <2>12, <2>13,
      <2>14, <2>15, <2>16, <2>17 DEF Boot
<1>8. CASE Stop
  BY <1>8 DEF Stop, destroy, Command, At, Goto, Exit, AfterShutdown, rmmod_mcctrl, Rmmod, rmmod_smp,
      rmmod_ihk, tidy, host, ihk
<1>9. CASE UNCHANGED vars
  BY <1>9 DEF vars, ctl, host, ihk
<1>. QED
  BY <1>1, <1>2, <1>3, <1>4, <1>5, <1>6, <1>7, <1>8, <1>9 DEF Next, Step

\* IInv holds always, whatever fails or is interrupted.
THEOREM Invariance == Spec => []IInv
<1>1. IInv /\ [Next]_vars => IInv'
  BY LayersStep, StopStep, CleanStep, CtlStep, HostStep DEF IInv, TypeOK
<1>. QED
  BY <1>1, InitIInv, PTL DEF Spec

\* Types, whatever the scripts of util/ do to the host.
THEOREM TypeCorrect == Spec => []TypeOK
  BY Invariance, PTL DEF IInv

\* rm -rf "$mcos_dir" in reserve() and shutdown() never runs below a mount.
THEOREM RemovalIsSafe == Spec => []RmIsSafe
<1>1. IInv => RmIsSafe
  BY DEF IInv, TypeOK, HostType, LayersInv, Bare, Top, RmIsSafe
<1>. QED
  BY <1>1, Invariance, PTL

\* A stop_mck.sh whose own commands worked leaves a clean host, however far the
\* boots before it had come and whatever failed in them.
THEOREM StopCleansUp == Spec => []StopIsClean
  BY Invariance, PTL DEF IInv

-----------------------------------------------------------------------------
(* A run that ends well has booted *)

ReservePlace == {"klogd", "ihk", "swappiness", "ihk_smp", "reserve_mem", "reserve_cpu", "chunk_check"}
MountPlace == {"mount_dir"} \union Window \union OverlaidPlace
RunningPlace == {"chown"} \union MountPlace
AssignPlace == {"assign_cpu", "ikc_map", "assign_mem", "load", "boot"} \union RunningPlace
CreatePlace == {"destroy0", "create"} \union AssignPlace

\* Which modules and reservations need which, between scripts as well.
NeedInv ==
  /\ resv # {} => "ihk_smp" \in mods
  /\ "ihk_smp" \in mods \/ "mcctrl" \in mods => "ihk" \in mods

\* Which script can be where, only run_mck.sh -v mounts, and what is mounted on mcos_dir at each command.
MountInv ==
  /\ pc \in ReservePlace => script = "run"
  /\ pc \in CreatePlace \union {"mcctrl"} => script \in {"run", "reboot"}
  /\ pc = "destroy" => script \in {"stop", "reboot"}
  /\ pc \in ReleasePlace => script = "stop"
  /\ script \in {"reboot", "stop"} => ~opt.overlay
  /\ pc \in MountPlace => opt.overlay
  /\ pc = "mount_linux" => layers[Top] = {}
  /\ pc \in {"insmod_overlay", "wait_proc", "mount_proc"} => layers[Top] = {"linux_proc"}
  /\ pc \in {"wait_sys", "mount_sys"} => layers[Top] = {"linux_proc", "mcos0_proc"}
  /\ pc = "hide" => layers[Top] = MountPoint
  /\ pc \in OverlaidPlace => "mcoverlay" \in mods

\* What a boot whose commands have worked has ready for the next one.
Booting == ~fault /\ ~opt.dry /\ (script = "run" \/ (script = "reboot" /\ resv = {"mem", "cpu"}))
BootInv ==
  Booting =>
    /\ pc \in {"swappiness", "ihk_smp"} => "ihk" \in mods
    /\ pc \in {"reserve_mem", "reserve_cpu", "chunk_check"} => "ihk_smp" \in mods
    /\ pc \in {"reserve_cpu", "chunk_check"} => "mem" \in resv
    /\ pc = "chunk_check" => "cpu" \in resv
    /\ pc \in {"mcctrl"} \union CreatePlace => "ihk_smp" \in mods /\ resv = {"mem", "cpu"}
    /\ pc \in CreatePlace => "mcctrl" \in mods
    /\ pc = "create" => osdev \subseteq {1}
    /\ pc \in AssignPlace => 0 \in osdev
    /\ pc \in {"create", "assign_cpu"} => os = {}
    /\ pc \in {"ikc_map", "assign_mem"} => os = {"cpu"}
    /\ pc = "load" => os = {"cpu", "mem"}
    /\ pc = "boot" => os = {"cpu", "mem", "image"}
    /\ pc \in RunningPlace => os = {"cpu", "mem", "image", "up"}

RInv == NeedInv /\ MountInv /\ BootInv /\ BootIsReal

\* No module goes, and no reservation stays, without what it needs.
LEMMA NeedStep == ASSUME IInv, RInv, [Next]_vars PROVE NeedInv'
<1> USE DEF IInv, RInv, NeedInv, TypeOK, CtlType, HostType
<1>1. CASE run_mck
  BY <1>1 DEF run_mck, RunOpt, host, ihk
<1>2. CASE stop_mck
  BY <1>2 DEF stop_mck, StopOpt, host, ihk
<1>3. CASE reboot_mck
  BY <1>3 DEF reboot_mck, RebootOpt, host, ihk
<1>4. CASE Interrupt
  BY <1>4 DEF Interrupt, Exit, Leave, Top, host, ihk
<1>5. CASE Overlay
  BY <1>5 DEF Overlay, overlay, At, Goto, AfterOverlay, umount_sys, Umount, Top, umount_proc,
      umount_linux, umount_dir, Leave, rm, rmmod_overlay, Command, Exit, host, ihk
<1>6. CASE Reserve
  BY <1>6 DEF Reserve, mcklogd, At, Goto, insmod_ihk, Command, set_swappiness, insmod_ihk_smp,
      reserve_mem, reserve_cpu, chunk_check, Exit, host, ihk
<1>7. CASE Boot
  BY <1>7 DEF Boot, insmod_mcctrl, Command, At, Goto, destroy0, create, MaxOs, Lowest, assign_cpu,
      Give, ikc_map, Exit, assign_mem, load, boot, chown, mount_dir, Mount, mount_linux, With, Top, Leave,
      insmod_overlay, wait_proc, Await, mount_proc, wait_sys, mount_sys, hide, host, ihk
<1>8. CASE Stop
  BY <1>8 DEF Stop, destroy, Command, At, Goto, Exit, AfterShutdown, Lowest, rmmod_mcctrl, Rmmod,
      rmmod_smp, rmmod_ihk, tidy, host, ihk
<1>9. CASE UNCHANGED vars
  BY <1>9 DEF vars, ctl, host, ihk
<1>. QED
  BY <1>1, <1>2, <1>3, <1>4, <1>5, <1>6, <1>7, <1>8, <1>9 DEF Next, Step

\* The mounts follow each other on one layer, and only in run_mck.sh -v.
LEMMA MountStep == ASSUME IInv, RInv, [Next]_vars PROVE MountInv'
<1> USE DEF IInv, RInv, MountInv, LayersInv, Bare, Top, BootPlace, TypeOK, CtlType, HostType, MountPoint,
    ReservePlace, MountPlace, RunningPlace, AssignPlace, CreatePlace, Window, OverlaidPlace,
    ReleasePlace
<1>1. CASE run_mck
  BY <1>1 DEF run_mck, RunOpt, host, ihk
<1>2. CASE stop_mck
  BY <1>2 DEF stop_mck, StopOpt, host, ihk
<1>3. CASE reboot_mck
  BY <1>3 DEF reboot_mck, RebootOpt, host, ihk
<1>4. CASE Interrupt
  BY <1>4 DEF Interrupt, Exit, Leave, Top, host, ihk
<1>5. CASE Overlay
  <2>1. CASE overlay
    BY <2>1 DEF overlay, At, Goto, AfterOverlay, host, ihk
  <2>2. CASE umount_sys
    BY <2>2 DEF umount_sys, Umount, Command, At, Goto, Top, host, ihk
  <2>3. CASE umount_proc
    BY <2>3 DEF umount_proc, Umount, Command, At, Goto, Top, host, ihk
  <2>4. CASE umount_linux
    BY <2>4 DEF umount_linux, Umount, Command, At, Goto, Top, host, ihk
  <2>5. CASE umount_dir
    BY <2>5 DEF umount_dir, Command, Leave, At, Goto, Top, host, ihk
  <2>6. CASE rm
    BY <2>6 DEF rm, At, Goto, host, ihk
  <2>7. CASE rmmod_overlay
    BY <2>7 DEF rmmod_overlay, Command, At, Goto, Exit, AfterOverlay, host, ihk
  <2>. QED
    BY <1>5, <2>1, <2>2, <2>3, <2>4, <2>5, <2>6, <2>7 DEF Overlay
<1>6. CASE Reserve
  BY <1>6 DEF Reserve, mcklogd, At, Goto, insmod_ihk, Command, set_swappiness, insmod_ihk_smp,
      reserve_mem, reserve_cpu, chunk_check, Exit, host, ihk
<1>7. CASE Boot
  <2>1. CASE insmod_mcctrl
    BY <2>1 DEF insmod_mcctrl, Command, At, Goto, host, ihk
  <2>2. CASE destroy0
    BY <2>2 DEF destroy0, Command, At, Goto, host, ihk
  <2>3. CASE create
    BY <2>3 DEF create, Command, At, Goto, MaxOs, Lowest, host, ihk
  <2>4. CASE assign_cpu
    BY <2>4 DEF assign_cpu, Give, Command, At, Goto, host, ihk
  <2>5. CASE ikc_map
    BY <2>5 DEF ikc_map, Command, At, Goto, Exit, host, ihk
  <2>6. CASE assign_mem
    BY <2>6 DEF assign_mem, Give, Command, At, Goto, host, ihk
  <2>7. CASE load
    BY <2>7 DEF load, Give, Command, At, Goto, host, ihk
  <2>8. CASE boot
    BY <2>8 DEF boot, Give, Command, At, Goto, host, ihk
  <2>9. CASE chown
    BY <2>9 DEF chown, Command, At, Goto, Exit, host, ihk
  <2>10. CASE mount_dir
    BY <2>10 DEF mount_dir, Mount, Command, Leave, Top, At, Goto, Exit, host, ihk
  <2>11. CASE mount_linux
    BY <2>11 DEF mount_linux, Mount, With, Top, Command, Leave, At, Goto, Exit, host, ihk
  <2>12. CASE insmod_overlay
    BY <2>12 DEF insmod_overlay, Command, Leave, Top, At, Goto, Exit, host, ihk
  <2>13. CASE wait_proc
    BY <2>13 DEF wait_proc, Await, At, Goto, host, ihk
  <2>14. CASE mount_proc
    BY <2>14 DEF mount_proc, Mount, With, Top, Command, Leave, At, Goto, Exit, host, ihk
  <2>15. CASE wait_sys
    BY <2>15 DEF wait_sys, Await, At, Goto, host, ihk
  <2>16. CASE mount_sys
    BY <2>16 DEF mount_sys, Mount, With, Top, Command, Leave, At, Goto, Exit, host, ihk
  <2>17. CASE hide
    BY <2>17 DEF hide, At, Exit, host, ihk
  <2>. QED
    BY <1>7, <2>1, <2>2, <2>3, <2>4, <2>5, <2>6, <2>7, <2>8, <2>9, <2>10, <2>11, <2>12, <2>13,
        <2>14, <2>15, <2>16, <2>17 DEF Boot
<1>8. CASE Stop
  BY <1>8 DEF Stop, destroy, Command, At, Goto, Exit, AfterShutdown, Lowest, rmmod_mcctrl, Rmmod,
      rmmod_smp, rmmod_ihk, tidy, host, ihk
<1>9. CASE UNCHANGED vars
  BY <1>9 DEF vars, ctl, host, ihk
<1>. QED
  BY <1>1, <1>2, <1>3, <1>4, <1>5, <1>6, <1>7, <1>8, <1>9 DEF Next, Step

\* Every command of a boot that works leaves what the next one needs.
LEMMA BootStep == ASSUME IInv, RInv, [Next]_vars PROVE BootInv'
<1> USE DEF IInv, RInv, NeedInv, MountInv, StopInv, Booting, BootInv, BootPlace, TypeOK, CtlType,
    HostType, MaxOs, ReservePlace, MountPlace, RunningPlace, AssignPlace, CreatePlace, Window,
    OverlaidPlace, ReleasePlace
<1>1. CASE run_mck
  BY <1>1 DEF run_mck, RunOpt, host, ihk
<1>2. CASE stop_mck
  BY <1>2 DEF stop_mck, StopOpt, host, ihk
<1>3. CASE reboot_mck
  BY <1>3 DEF reboot_mck, RebootOpt, host, ihk
<1>4. CASE Interrupt
  BY <1>4 DEF Interrupt, Exit, Leave, Top, host, ihk
<1>5. CASE Overlay
  <2>1. CASE overlay
    BY <2>1 DEF overlay, At, Goto, AfterOverlay, host, ihk
  <2>2. CASE umount_sys
    BY <2>2 DEF umount_sys, Umount, Command, At, Goto, Top, host, ihk
  <2>3. CASE umount_proc
    BY <2>3 DEF umount_proc, Umount, Command, At, Goto, Top, host, ihk
  <2>4. CASE umount_linux
    BY <2>4 DEF umount_linux, Umount, Command, At, Goto, Top, host, ihk
  <2>5. CASE umount_dir
    BY <2>5 DEF umount_dir, Command, Leave, At, Goto, Top, host, ihk
  <2>6. CASE rm
    BY <2>6 DEF rm, At, Goto, host, ihk
  <2>7. CASE rmmod_overlay
    BY <2>7 DEF rmmod_overlay, Command, At, Goto, Exit, AfterOverlay, host, ihk
  <2>. QED
    BY <1>5, <2>1, <2>2, <2>3, <2>4, <2>5, <2>6, <2>7 DEF Overlay
<1>6. CASE Reserve
  <2>1. CASE mcklogd
    BY <2>1 DEF mcklogd, At, Goto, host, ihk
  <2>2. CASE insmod_ihk
    BY <2>2 DEF insmod_ihk, Command, At, Goto, host, ihk
  <2>3. CASE set_swappiness
    BY <2>3 DEF set_swappiness, At, Goto, host, ihk
  <2>4. CASE insmod_ihk_smp
    BY <2>4 DEF insmod_ihk_smp, Command, At, Goto, host, ihk
  <2>5. CASE reserve_mem
    BY <2>5 DEF reserve_mem, Command, At, Goto, host, ihk
  <2>6. CASE reserve_cpu
    BY <2>6 DEF reserve_cpu, Command, At, Goto, host, ihk
  <2>7. CASE chunk_check
    <3>1. pc = "chunk_check" /\ pc' \in {"mcctrl", "none"} /\ UNCHANGED <<fault, opt, mods, resv>>
      BY <2>7 DEF chunk_check, At, Goto, Exit, host, ihk
    <3>2. pc' = "mcctrl" => UNCHANGED script
      BY <2>7 DEF chunk_check, At, Goto, Exit
    <3>3. Booting => "ihk_smp" \in mods /\ "mem" \in resv /\ "cpu" \in resv
      <4>1. BootInv
        BY DEF BootInv
      <4>. QED
        BY ONLY <3>1, <4>1 DEF BootInv, Booting
    <3>4. Booting => resv = {"mem", "cpu"}
      <4>1. resv \subseteq {"mem", "cpu"}
        OBVIOUS
      <4>. QED
        BY ONLY <3>3, <4>1
    <3>5. Booting' /\ pc' = "mcctrl" => "ihk_smp" \in mods' /\ resv' = {"mem", "cpu"}
      BY <3>1, <3>2, <3>3, <3>4
    <3>. QED
      BY <3>1, <3>5
  <2>. QED
    BY <1>6, <2>1, <2>2, <2>3, <2>4, <2>5, <2>6, <2>7 DEF Reserve
<1>7. CASE Boot
  <2>1. CASE insmod_mcctrl
    BY <2>1 DEF insmod_mcctrl, Command, At, Goto, host, ihk
  <2>2. CASE destroy0
    <3>1. Booting' => Booting /\ pc = "destroy0"
      BY <2>2 DEF destroy0, Command, At, Goto
    <3>2. Booting' => osdev' = osdev \ {0} /\ os' = {}
      BY <2>2 DEF destroy0, Command, At, Goto
    <3>3. osdev \ {0} \subseteq {1}
      OBVIOUS
    <3>4. pc' = "create" /\ UNCHANGED <<mods, resv>>
      BY <2>2 DEF destroy0, Goto
    <3>. QED
      BY <3>1, <3>2, <3>3, <3>4
  <2>3. CASE create
    BY <2>3 DEF create, Command, At, Goto, MaxOs, Lowest, host, ihk
  <2>4. CASE assign_cpu
    <3>1. Booting' => Booting /\ os' = {"cpu"}
      <4> SUFFICES ASSUME Booting' PROVE Booting /\ os' = {"cpu"}
        OBVIOUS
      <4>1. Booting
        BY <2>4 DEF assign_cpu, Give, Command, Goto
      <4>2. os = {} /\ 0 \in osdev /\ "cpu" \in resv
        BY <2>4, <4>1 DEF assign_cpu, At
      <4>3. os' = os \union {"cpu"}
        BY <2>4, <4>2 DEF assign_cpu, Give, Command
      <4>. QED
        BY <4>1, <4>2, <4>3
    <3>2. pc = "assign_cpu" /\ UNCHANGED <<mods, resv, osdev>>
      BY <2>4 DEF assign_cpu, Give, At
    <3>3. pc' \in {"ikc_map", "assign_mem"}
      <4>1. pc' = IF opt.ikc THEN "ikc_map" ELSE "assign_mem"
        BY <2>4 DEF assign_cpu, Give, Goto
      <4>. QED
        BY <4>1
    <3>. QED
      BY <3>1, <3>2, <3>3
  <2>5. CASE ikc_map
    BY <2>5 DEF ikc_map, Command, At, Goto, Exit, host, ihk
  <2>6. CASE assign_mem
    BY <2>6 DEF assign_mem, Give, Command, At, Goto, host, ihk
  <2>7. CASE load
    BY <2>7 DEF load, Give, Command, At, Goto, host, ihk
  <2>8. CASE boot
    BY <2>8 DEF boot, Give, Command, At, Goto, host, ihk
  <2>9. CASE chown
    BY <2>9 DEF chown, Command, At, Goto, Exit, host, ihk
  <2>10. CASE mount_dir
    BY <2>10 DEF mount_dir, Mount, Command, Leave, Top, At, Goto, Exit, host, ihk
  <2>11. CASE mount_linux
    BY <2>11 DEF mount_linux, Mount, With, Top, Command, Leave, At, Goto, Exit, host, ihk
  <2>12. CASE insmod_overlay
    BY <2>12 DEF insmod_overlay, Command, Leave, Top, At, Goto, Exit, host, ihk
  <2>13. CASE wait_proc
    BY <2>13 DEF wait_proc, Await, At, Goto, host, ihk
  <2>14. CASE mount_proc
    BY <2>14 DEF mount_proc, Mount, With, Top, Command, Leave, At, Goto, Exit, host, ihk
  <2>15. CASE wait_sys
    BY <2>15 DEF wait_sys, Await, At, Goto, host, ihk
  <2>16. CASE mount_sys
    BY <2>16 DEF mount_sys, Mount, With, Top, Command, Leave, At, Goto, Exit, host, ihk
  <2>17. CASE hide
    BY <2>17 DEF hide, At, Exit, host, ihk
  <2>. QED
    BY <1>7, <2>1, <2>2, <2>3, <2>4, <2>5, <2>6, <2>7, <2>8, <2>9, <2>10, <2>11, <2>12, <2>13,
        <2>14, <2>15, <2>16, <2>17 DEF Boot
<1>8. CASE Stop
  <2>1. CASE destroy
    BY <2>1 DEF destroy, Command, At, Goto, Exit, AfterShutdown, Lowest, host, ihk
  <2>2. CASE rmmod_mcctrl
    BY <2>2 DEF rmmod_mcctrl, Rmmod, Command, At, Goto, host, ihk
  <2>3. CASE rmmod_smp
    BY <2>3 DEF rmmod_smp, Rmmod, Command, At, Goto, host, ihk
  <2>4. CASE rmmod_ihk
    BY <2>4 DEF rmmod_ihk, Rmmod, Command, At, Goto, host, ihk
  <2>5. CASE tidy
    BY <2>5 DEF tidy, At, Exit, host, ihk
  <2>. QED
    BY <1>8, <2>1, <2>2, <2>3, <2>4, <2>5 DEF Stop
<1>9. CASE UNCHANGED vars
  BY <1>9 DEF vars, ctl, host, ihk
<1>. QED
  BY <1>1, <1>2, <1>3, <1>4, <1>5, <1>6, <1>7, <1>8, <1>9 DEF Next, Step

\* The last command of a boot finds the instance running and the mounts complete.
LEMMA RealStep == ASSUME IInv, RInv, [Next]_vars PROVE BootIsReal'
<1> USE DEF IInv, RInv, NeedInv, MountInv, LayersInv, Bare, Top, BootInv, Booting, BootIsReal, BootPlace,
    TypeOK, CtlType, HostType, ReservePlace, MountPlace, RunningPlace, AssignPlace, CreatePlace,
    Window, OverlaidPlace, ReleasePlace
<1>1. CASE run_mck
  BY <1>1 DEF run_mck, RunOpt, host, ihk
<1>2. CASE stop_mck
  BY <1>2 DEF stop_mck, StopOpt, host, ihk
<1>3. CASE reboot_mck
  BY <1>3 DEF reboot_mck, RebootOpt, host, ihk
<1>4. CASE Interrupt
  BY <1>4 DEF Interrupt, Exit, Leave, Top, host, ihk
<1>5. CASE Overlay
  <2>1. CASE overlay
    BY <2>1 DEF overlay, At, Goto, AfterOverlay, host, ihk
  <2>2. CASE umount_sys
    BY <2>2 DEF umount_sys, Umount, Command, At, Goto, Top, host, ihk
  <2>3. CASE umount_proc
    BY <2>3 DEF umount_proc, Umount, Command, At, Goto, Top, host, ihk
  <2>4. CASE umount_linux
    BY <2>4 DEF umount_linux, Umount, Command, At, Goto, Top, host, ihk
  <2>5. CASE umount_dir
    BY <2>5 DEF umount_dir, Command, Leave, At, Goto, Top, host, ihk
  <2>6. CASE rm
    BY <2>6 DEF rm, At, Goto, host, ihk
  <2>7. CASE rmmod_overlay
    BY <2>7 DEF rmmod_overlay, Command, At, Goto, Exit, AfterOverlay, host, ihk
  <2>. QED
    BY <1>5, <2>1, <2>2, <2>3, <2>4, <2>5, <2>6, <2>7 DEF Overlay
<1>6. CASE Reserve
  BY <1>6 DEF Reserve, mcklogd, At, Goto, insmod_ihk, Command, set_swappiness, insmod_ihk_smp,
      reserve_mem, reserve_cpu, chunk_check, Exit, host, ihk
<1>7. CASE Boot
  <2>1. CASE insmod_mcctrl
    BY <2>1 DEF insmod_mcctrl, Command, At, Goto, host, ihk
  <2>2. CASE destroy0
    BY <2>2 DEF destroy0, Command, At, Goto, host, ihk
  <2>3. CASE create
    BY <2>3 DEF create, Command, At, Goto, MaxOs, Lowest, host, ihk
  <2>4. CASE assign_cpu
    BY <2>4 DEF assign_cpu, Give, Command, At, Goto, host, ihk
  <2>5. CASE ikc_map
    BY <2>5 DEF ikc_map, Command, At, Goto, Exit, host, ihk
  <2>6. CASE assign_mem
    BY <2>6 DEF assign_mem, Give, Command, At, Goto, host, ihk
  <2>7. CASE load
    BY <2>7 DEF load, Give, Command, At, Goto, host, ihk
  <2>8. CASE boot
    BY <2>8 DEF boot, Give, Command, At, Goto, host, ihk
  <2>9. CASE chown
    BY <2>9 DEF chown, Command, At, Goto, Exit, host, ihk
  <2>10. CASE mount_dir
    BY <2>10 DEF mount_dir, Mount, Command, Leave, Top, At, Goto, Exit, host, ihk
  <2>11. CASE mount_linux
    BY <2>11 DEF mount_linux, Mount, With, Top, Command, Leave, At, Goto, Exit, host, ihk
  <2>12. CASE insmod_overlay
    BY <2>12 DEF insmod_overlay, Command, Leave, Top, At, Goto, Exit, host, ihk
  <2>13. CASE wait_proc
    BY <2>13 DEF wait_proc, Await, At, Goto, host, ihk
  <2>14. CASE mount_proc
    BY <2>14 DEF mount_proc, Mount, With, Top, Command, Leave, At, Goto, Exit, host, ihk
  <2>15. CASE wait_sys
    BY <2>15 DEF wait_sys, Await, At, Goto, host, ihk
  <2>16. CASE mount_sys
    BY <2>16 DEF mount_sys, Mount, With, Top, Command, Leave, At, Goto, Exit, host, ihk
  <2>17. CASE hide
    <3>1. /\ pc = "hide" /\ layers # <<>> /\ layers[Top] = MountPoint /\ "mcoverlay" \in mods
          /\ script = "run" /\ opt.overlay
      BY <2>17 DEF hide, At
    <3>2. left = {} => layers = <<MountPoint>>
      <4> SUFFICES ASSUME left = {} PROVE layers = <<MountPoint>>
        OBVIOUS
      <4>0. layers \in Seq(SUBSET MountPoint) /\ layers # <<>>
        BY <3>1
      <4>1. Len(layers) = 1
        <5>1. Len(layers) \in Nat /\ Len(layers) <= 1
          OBVIOUS
        <5>2. Len(layers) # 0
          BY ONLY <4>0, EmptySeq, Zenon
        <5>3. \A n \in Nat : n <= 1 /\ n # 0 => n = 1
          OBVIOUS
        <5>. QED
          BY ONLY <5>1, <5>2, <5>3, Zenon
      <4>2. layers[1] = MountPoint
        BY <3>1, <4>1
      <4>. QED
        BY <4>1, <4>2
    <3>3. "mounts" \notin left => Bare(Top - 1)
      BY <3>1
    <3>4. ~fault /\ ~opt.dry => 0 \in osdev /\ "up" \in os /\ "mcctrl" \in mods
      BY <3>1
    <3>5. UNCHANGED <<fault, host, left, opt>>
      BY <2>17 DEF hide, Exit
    <3>. QED
      BY <3>1, <3>2, <3>3, <3>4, <3>5 DEF host, ihk
  <2>. QED
    BY <1>7, <2>1, <2>2, <2>3, <2>4, <2>5, <2>6, <2>7, <2>8, <2>9, <2>10, <2>11, <2>12, <2>13,
        <2>14, <2>15, <2>16, <2>17 DEF Boot
<1>8. CASE Stop
  BY <1>8 DEF Stop, destroy, Command, At, Goto, Exit, AfterShutdown, Lowest, rmmod_mcctrl, Rmmod,
      rmmod_smp, rmmod_ihk, tidy, host, ihk
<1>9. CASE UNCHANGED vars
  BY <1>9 DEF vars, ctl, host, ihk
<1>. QED
  BY <1>1, <1>2, <1>3, <1>4, <1>5, <1>6, <1>7, <1>8, <1>9 DEF Next, Step

\* A run_mck.sh or reboot_mck.sh that ends well, with no command of its own that failed, has booted
\* instance 0 and mounted exactly what it was asked to, whatever earlier scripts left.
THEOREM BootSucceeds == Spec => []BootIsReal
<1>1. Init => RInv
  BY DEF Init, StopOpt, RInv, NeedInv, MountInv, Booting, BootInv, BootIsReal, ReservePlace, MountPlace,
      RunningPlace, AssignPlace, CreatePlace, Window, OverlaidPlace, ReleasePlace
<1>2. IInv /\ RInv /\ [Next]_vars => RInv'
  BY NeedStep, MountStep, BootStep, RealStep DEF RInv
<1>3. Spec => []IInv
  BY Invariance
<1>4. RInv => BootIsReal
  BY DEF RInv
<1>. QED
  BY <1>1, <1>2, <1>3, <1>4, PTL DEF Spec
=============================================================================
