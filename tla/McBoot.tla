------------------------------- MODULE McBoot -------------------------------
(***************************************************************************)
(* Booting and stopping McKernel: the functions reserve(), boot(),         *)
(* shutdown() and release() of util/config as the scripts run_mck.sh,      *)
(* stop_mck.sh and reboot_mck.sh call them, one action per command.        *)
(*                                                                         *)
(* The host is what the commands change: loaded modules, reserved          *)
(* resources, LWK instances, mounts.  A command fails when the host is not *)
(* ready for it, or because it is one of Faults; most failures are only    *)
(* printed.  A script may also be interrupted before any command of        *)
(* Interrupts, and another one started on what it left behind.             *)
(* Sizes and CPU lists are left out.                                       *)
(***************************************************************************)
EXTENDS Naturals, Sequences

CONSTANTS
  Scripts,     \* the scripts that are run
  Dry,         \* whether they are given -n
  Faults,      \* commands that may fail
  Interrupts,  \* places where a script may be interrupted
  MaxLayers    \* bound: file systems stacked on /tmp/mcos

ASSUME BootAssumption ==
  Scripts \subseteq {"run", "stop", "reboot"} /\ Dry \subseteq BOOLEAN /\ MaxLayers \in Nat

VARIABLES
  script,      \* the running script, or "idle"
  opt,         \* its options
  pc,          \* its next command
  fault,       \* a command of this script, or of the one that just ended, has failed
  exit,        \* how the last script ended: [of, status]
  mods,        \* loaded modules
  resv,        \* what IHK has reserved
  osdev,       \* LWK instances: the n of /dev/mcos<n>
  os,          \* what instance 0 has been given
  layers,      \* the file systems mounted on /tmp/mcos, each with what is mounted in it
  swappiness, klogd,
  chunk,       \* smp_resource.info holds chunks, of an earlier reservation
  left         \* history: what scripts have left on mcos_dir that no later one looks for

ctl == <<script, opt, pc, fault, exit>>
ihk == <<mods, resv, osdev, os>>
host == <<ihk, layers, swappiness, klogd, chunk>>
vars == <<ctl, host, left>>

MountPoint == {"linux_proc", "mcos0_proc", "mcos0_sys"}   \* in mcos_dir
MaxOs == 2   \* bound: /dev/mcos0 and /dev/mcos1
Lowest(n, S) == \A k \in S : n <= k

Opt == [overlay : BOOLEAN, log : BOOLEAN, ikc : BOOLEAN, keep : BOOLEAN, mem : BOOLEAN, dry : BOOLEAN]
\* run_mck.sh -v -k -r, stop_mck.sh -m, reboot_mck.sh -m, and -n in all of them
RunOpt == {o \in Opt : ~o.keep /\ o.mem /\ o.dry \in Dry}
StopOpt == {o \in Opt : ~o.overlay /\ ~o.log /\ ~o.ikc /\ o.mem /\ o.dry \in Dry}
RebootOpt == {o \in Opt : ~o.overlay /\ ~o.log /\ ~o.ikc /\ ~o.keep /\ o.dry \in Dry}

Init ==
  /\ script = "idle" /\ opt \in StopOpt /\ pc = "none" /\ fault = FALSE
  /\ exit = [of |-> "none", status |-> "none"]
  /\ mods = {} /\ resv = {} /\ osdev = {} /\ os = {}
  /\ layers = <<>> /\ swappiness = "60" /\ klogd = FALSE
  /\ chunk \in BOOLEAN /\ left = {}

-----------------------------------------------------------------------------
(* Control *)

At(p) == script # "idle" /\ pc = p
Goto(p) == pc' = p /\ UNCHANGED <<script, opt, exit>>
Exit(st) == script' = "idle" /\ pc' = "none" /\ exit' = [of |-> script, status |-> st] /\ UNCHANGED opt

\* A command: it works if the host is ready for it, and may fail if it is faulty.
Command(c, ready, Ok, Failed) ==
  \/ ready /\ Ok /\ UNCHANGED fault
  \/ ~ready /\ Failed /\ UNCHANGED fault
  \/ c \in Faults /\ Failed /\ fault' = TRUE

run_mck ==
  /\ script = "idle" /\ "run" \in Scripts
  /\ script' = "run" /\ opt' \in RunOpt /\ pc' = "overlay" /\ fault' = FALSE
  /\ opt'.overlay => Len(layers) < MaxLayers
  /\ UNCHANGED <<exit, host, left>>

stop_mck ==
  /\ script = "idle" /\ "stop" \in Scripts
  /\ script' = "stop" /\ opt' \in StopOpt /\ pc' = "overlay" /\ fault' = FALSE
  /\ UNCHANGED <<exit, host, left>>

\* Without -m the size is taken from mcos.info, where an earlier boot() has written it with its
\* unit: the arithmetic expansion of "<n>M" is an error that ends the script.
reboot_mck ==
  /\ script = "idle" /\ "reboot" \in Scripts
  /\ \E o \in RebootOpt :
       IF o.mem THEN script' = "reboot" /\ opt' = o /\ pc' = "overlay" /\ fault' = FALSE /\ UNCHANGED exit
       ELSE /\ exit' = [of |-> "reboot", status |-> "err"] /\ fault' = FALSE /\ opt' = o
            /\ UNCHANGED <<script, pc>>
  /\ UNCHANGED <<host, left>>

\* Between the first mount and the loading of mcoverlay a boot that is cut short leaves
\* mounts that no script asks for, since all of them look for the module first.
Window == {"mount_linux", "insmod_overlay"}
Top == Len(layers)
Leave == left' = left \union {IF layers[Top] = {} THEN "tmpfs" ELSE "mounts"}

Interrupt ==
  /\ script # "idle" /\ pc \in Interrupts
  /\ Exit("intr") /\ (IF pc \in Window THEN Leave ELSE UNCHANGED left) /\ UNCHANGED <<fault, host>>

-----------------------------------------------------------------------------
(* "Remove mcoverlay if loaded", the same text in reserve() and shutdown() *)

AfterOverlay == IF script = "run" THEN "klogd" ELSE "destroy"

\* Mutant: the module is not recognised in /proc/modules.
overlay_missed == At("overlay") /\ Goto(AfterOverlay) /\ UNCHANGED <<fault, host, left>>

overlay ==
  /\ At("overlay")
  /\ Goto(IF "mcoverlay" \in mods THEN "umount_sys" ELSE AfterOverlay)
  /\ UNCHANGED <<fault, host, left>>

\* umount -l takes what is on top, and is not asked for when nothing is mounted there.
\* Whether it worked is not looked at.
Umount(p, m, next) ==
  /\ At(p)
  /\ Command(p, layers # <<>> /\ m \in layers[Top], layers' = [layers EXCEPT ![Top] = @ \ {m}], UNCHANGED layers)
  /\ Goto(next)
  /\ UNCHANGED <<ihk, swappiness, klogd, chunk, left>>

umount_sys == Umount("umount_sys", "mcos0_sys", "umount_proc")
umount_proc == Umount("umount_proc", "mcos0_proc", "umount_linux")
\* Mutant: the tmpfs on mcos_dir is forgotten.
umount_linux_last == Umount("umount_linux", "linux_proc", "rm")
umount_linux == Umount("umount_linux", "linux_proc", "umount_dir")

\* The lazy unmount of mcos_dir takes along what is still mounted in it.
umount_dir ==
  /\ At("umount_dir")
  /\ Command("umount_dir", layers # <<>>, layers' = SubSeq(layers, 1, Top - 1) /\ UNCHANGED left,
             UNCHANGED layers /\ IF layers = <<>> THEN UNCHANGED left ELSE Leave)
  /\ Goto("rm")
  /\ UNCHANGED <<ihk, swappiness, klogd, chunk>>

\* rm -rf "$mcos_dir"
rm == At("rm") /\ Goto("rmmod_overlay") /\ UNCHANGED <<fault, host, left>>

\* The module cannot go while one of its file systems is mounted.
rmmod_overlay ==
  /\ At("rmmod_overlay")
  /\ Command("rmmod_overlay", \A i \in 1..Top : layers[i] \subseteq {"linux_proc"},
             mods' = mods \ {"mcoverlay"} /\ Goto(AfterOverlay), UNCHANGED mods /\ Exit("err"))
  /\ UNCHANGED <<resv, osdev, os, layers, swappiness, klogd, chunk, left>>

-----------------------------------------------------------------------------
(* reserve() *)

mcklogd ==
  /\ At("klogd") /\ klogd' = (klogd \/ opt.log) /\ Goto("ihk")
  /\ UNCHANGED <<fault, ihk, layers, swappiness, chunk, left>>

insmod_ihk ==
  /\ At("ihk")
  /\ Command("insmod_ihk", "ihk" \notin mods, mods' = mods \union {"ihk"}, UNCHANGED mods) /\ Goto("swappiness")
  /\ UNCHANGED <<resv, osdev, os, layers, swappiness, klogd, chunk, left>>

set_swappiness ==
  /\ At("swappiness") /\ swappiness' = "100" /\ Goto("ihk_smp")
  /\ UNCHANGED <<fault, ihk, layers, klogd, chunk, left>>

insmod_ihk_smp ==
  /\ At("ihk_smp")
  /\ Command("insmod_ihk_smp", "ihk" \in mods /\ "ihk_smp" \notin mods, mods' = mods \union {"ihk_smp"}, UNCHANGED mods)
  /\ Goto("reserve_mem")
  /\ UNCHANGED <<resv, osdev, os, layers, swappiness, klogd, chunk, left>>

reserve_mem ==
  /\ At("reserve_mem")
  /\ Command("reserve_mem", "ihk_smp" \in mods, resv' = resv \union {"mem"}, UNCHANGED resv) /\ Goto("reserve_cpu")
  /\ UNCHANGED <<mods, osdev, os, layers, swappiness, klogd, chunk, left>>

reserve_cpu ==
  /\ At("reserve_cpu")
  /\ Command("reserve_cpu", "ihk_smp" \in mods, resv' = resv \union {"cpu"}, UNCHANGED resv) /\ Goto("chunk_check")
  /\ UNCHANGED <<mods, osdev, os, layers, swappiness, klogd, chunk, left>>

\* The largest chunk of smp_resource.info is the memory to assign; without any the
\* script gives up, unless it is a dry run.  reserve() does not write the file: $E is
\* sudo, which takes the quoted pipeline for the name of a command and finds none.
chunk_check ==
  /\ At("chunk_check")
  /\ IF chunk \/ opt.dry THEN Goto("mcctrl") ELSE Exit("err")
  /\ UNCHANGED <<fault, host, left>>

-----------------------------------------------------------------------------
(* boot() *)

\* Mutant: any module of the family is taken for mcctrl.
insmod_mcctrl_grep ==
  /\ At("mcctrl")
  /\ Command("insmod_mcctrl", mods = {"ihk"}, mods' = mods \union {"mcctrl"}, UNCHANGED mods)
  /\ Goto("destroy0")
  /\ UNCHANGED <<resv, osdev, os, layers, swappiness, klogd, chunk, left>>

insmod_mcctrl ==
  /\ At("mcctrl")
  /\ Command("insmod_mcctrl", "ihk" \in mods /\ "mcctrl" \notin mods, mods' = mods \union {"mcctrl"}, UNCHANGED mods)
  /\ Goto("destroy0")
  /\ UNCHANGED <<resv, osdev, os, layers, swappiness, klogd, chunk, left>>

\* Destroying an instance needs its device; its resources go back to IHK.
destroy0 ==
  /\ At("destroy0")
  /\ Command("destroy0", 0 \in osdev, osdev' = osdev \ {0} /\ os' = {}, UNCHANGED <<osdev, os>>) /\ Goto("create")
  /\ UNCHANGED <<mods, resv, layers, swappiness, klogd, chunk, left>>

\* The new instance gets the lowest free number, 0 unless the old one is still there.
create ==
  LET free == (0..(MaxOs - 1)) \ osdev IN
  /\ At("create")
  /\ Command("create", "ihk_smp" \in mods /\ free # {},
             \E n \in free : Lowest(n, free) /\ osdev' = osdev \union {n}, UNCHANGED osdev)
  /\ Goto("assign_cpu")
  /\ UNCHANGED <<mods, resv, os, layers, swappiness, klogd, chunk, left>>

\* ihkosctl 0: something is given to instance 0, which must not be running yet.
Give(c, ready, what, next) ==
  /\ Command(c, 0 \in osdev /\ "up" \notin os /\ ready, os' = os \union {what}, UNCHANGED os) /\ Goto(next)
  /\ UNCHANGED <<mods, resv, osdev, layers, swappiness, klogd, chunk, left>>

assign_cpu == At("assign_cpu") /\ Give("assign_cpu", "cpu" \in resv, "cpu", IF opt.ikc THEN "ikc_map" ELSE "assign_mem")

ikc_map ==
  /\ At("ikc_map")
  /\ Command("ikc_map", 0 \in osdev /\ "cpu" \in os, Goto("assign_mem"), Exit("err"))
  /\ UNCHANGED <<host, left>>

\* In a dry run of run_mck.sh the size is "(memory-size)", no number.
assign_mem ==
  At("assign_mem") /\ Give("assign_mem", "mem" \in resv /\ ~(script = "run" /\ opt.dry), "mem", "load")
load == At("load") /\ Give("load", "mem" \in os, "image", "boot")
boot == At("boot") /\ Give("boot", {"cpu", "mem", "image"} \subseteq os, "up", "chown")

chown ==
  /\ At("chown")
  /\ Command("chown", osdev # {}, IF opt.overlay THEN Goto("mount_dir") ELSE Exit("ok"), Exit("err"))
  /\ UNCHANGED <<host, left>>

Mount(p, ready, mounted, next) ==
  /\ At(p)
  /\ Command(p, ready, layers' = mounted /\ Goto(next) /\ UNCHANGED left,
             UNCHANGED layers /\ Exit("err") /\ IF p \in Window THEN Leave ELSE UNCHANGED left)
  /\ UNCHANGED <<ihk, swappiness, klogd, chunk>>

With(m) == [layers EXCEPT ![Top] = @ \union {m}]

mount_dir == Mount("mount_dir", TRUE, Append(layers, {}), "mount_linux")
mount_linux == Mount("mount_linux", TRUE, With("linux_proc"), "insmod_overlay")

insmod_overlay ==
  /\ At("insmod_overlay")
  /\ Command("insmod_overlay", "mcoverlay" \notin mods,
             mods' = mods \union {"mcoverlay"} /\ Goto("wait_proc") /\ UNCHANGED left,
             UNCHANGED mods /\ Exit("err") /\ Leave)
  /\ UNCHANGED <<resv, osdev, os, layers, swappiness, klogd, chunk>>

\* while [ ! -e ... ]: files that mcctrl makes for a running instance.
Await(p, next) ==
  /\ At(p) /\ "up" \in os /\ "mcctrl" \in mods /\ Goto(next)
  /\ UNCHANGED <<fault, host, left>>

wait_proc == Await("wait_proc", "mount_proc")
mount_proc == Mount("mount_proc", "mcoverlay" \in mods, With("mcos0_proc"), "wait_sys")
\* Mutant: the files of the next instance are waited for.
wait_sys_of_mcos1 == At("wait_sys") /\ 1 \in osdev /\ Goto("mount_sys") /\ UNCHANGED <<fault, host, left>>
wait_sys == Await("wait_sys", "mount_sys")
mount_sys == Mount("mount_sys", "mcoverlay" \in mods, With("mcos0_sys"), "hide")

\* Hides the CPUs and nodes outside the LWK's partition; nothing is checked.
hide == At("hide") /\ Exit("ok") /\ UNCHANGED <<fault, host, left>>

-----------------------------------------------------------------------------
(* shutdown() and release() *)

AfterShutdown == IF script = "reboot" THEN "mcctrl" ELSE "rmmod_mcctrl"

destroy ==
  /\ At("destroy")
  /\ \/ osdev = {} /\ Goto(AfterShutdown) /\ UNCHANGED <<osdev, os, fault>>
     \/ \E n \in osdev : Lowest(n, osdev) /\
          Command("destroy", TRUE,
                  osdev' = osdev \ {n} /\ os' = (IF n = 0 THEN {} ELSE os) /\ Goto("destroy"),
                  UNCHANGED <<osdev, os>> /\ Exit("err"))
  /\ UNCHANGED <<mods, resv, layers, swappiness, klogd, chunk, left>>

\* rmmod works on a loaded module that no other uses.
Rmmod(p, m, wanted, users, next) ==
  /\ At(p)
  /\ IF wanted
     THEN Command(p, m \in mods /\ users, mods' = mods \ {m}, UNCHANGED mods)
     ELSE UNCHANGED <<mods, fault>>
  /\ Goto(next)
  /\ UNCHANGED <<osdev, os, layers, swappiness, klogd, chunk, left>>

rmmod_mcctrl == Rmmod("rmmod_mcctrl", "mcctrl", ~opt.keep, "up" \notin os, "rmmod_smp") /\ UNCHANGED resv
rmmod_smp ==
  /\ Rmmod("rmmod_smp", "ihk_smp", TRUE, osdev = {}, "rmmod_ihk")
  /\ resv' = IF "ihk_smp" \in mods' THEN resv ELSE {}
rmmod_ihk == Rmmod("rmmod_ihk", "ihk", ~opt.keep, mods \intersect {"ihk_smp", "mcctrl"} = {}, "tidy") /\ UNCHANGED resv

\* Mutant: the script has nothing left to do and does not end.
tidy_stays ==
  /\ At("tidy") /\ klogd' = FALSE /\ swappiness' = "60" /\ Goto("none")
  /\ UNCHANGED <<fault, ihk, layers, chunk, left>>

tidy ==
  /\ At("tidy") /\ klogd' = FALSE /\ swappiness' = "60" /\ Exit("ok")
  /\ UNCHANGED <<fault, ihk, layers, chunk, left>>

-----------------------------------------------------------------------------
Overlay == overlay \/ umount_sys \/ umount_proc \/ umount_linux \/ umount_dir \/ rm \/ rmmod_overlay
Reserve == mcklogd \/ insmod_ihk \/ set_swappiness \/ insmod_ihk_smp \/ reserve_mem \/ reserve_cpu
           \/ chunk_check
Boot == insmod_mcctrl \/ destroy0 \/ create \/ assign_cpu \/ ikc_map \/ assign_mem \/ load \/ boot \/ chown
        \/ mount_dir \/ mount_linux \/ insmod_overlay \/ wait_proc \/ mount_proc \/ wait_sys \/ mount_sys \/ hide
Stop == destroy \/ rmmod_mcctrl \/ rmmod_smp \/ rmmod_ihk \/ tidy
Step == Overlay \/ Reserve \/ Boot \/ Stop

Next == run_mck \/ stop_mck \/ reboot_mck \/ Interrupt \/ Step
Spec == Init /\ [][Next]_vars
\* A script that is running goes on to its next command.
FairSpec == Spec /\ WF_vars(Step)

-----------------------------------------------------------------------------
(* Correctness *)

Place == {"none", "overlay", "umount_sys", "umount_proc", "umount_linux", "umount_dir", "rm", "rmmod_overlay",
          "klogd", "ihk", "swappiness", "ihk_smp", "reserve_mem", "reserve_cpu", "chunk_check",
          "mcctrl", "destroy0", "create", "assign_cpu", "ikc_map", "assign_mem", "load", "boot", "chown",
          "mount_dir", "mount_linux", "insmod_overlay", "wait_proc", "mount_proc", "wait_sys", "mount_sys", "hide",
          "destroy", "rmmod_mcctrl", "rmmod_smp", "rmmod_ihk", "tidy"}

CtlType ==
  /\ script \in {"idle", "run", "stop", "reboot"} /\ opt \in Opt /\ pc \in Place
  /\ (script = "idle") = (pc = "none")
  /\ fault \in BOOLEAN
  /\ exit \in [of : {"none", "run", "stop", "reboot"}, status : {"none", "ok", "err", "intr"}]

HostType ==
  /\ mods \subseteq {"ihk", "ihk_smp", "mcctrl", "mcoverlay"} /\ resv \subseteq {"mem", "cpu"}
  /\ osdev \subseteq 0..(MaxOs - 1) /\ os \subseteq {"cpu", "mem", "image", "up"}
  /\ layers \in Seq(SUBSET MountPoint)
  /\ swappiness \in {"60", "100"} /\ klogd \in BOOLEAN /\ chunk \in BOOLEAN
  /\ left \subseteq {"tmpfs", "mounts"}

\* Types; a script is at a command exactly while it runs.
TypeOK == CtlType /\ HostType

\* `rm -rf "$mcos_dir"' never runs, as root, with /proc or /sys mounted below it, whatever was
\* interrupted or failed before, unless a boot was cut short between the bind mount of /proc
\* and the loading of mcoverlay, or a cleanup could take down neither mcos_dir nor a mount in it.
RmIsSafe == pc = "rm" /\ "mounts" \notin left => layers = <<>> \/ layers[Top] = {}

\* The same without the exceptions: a cleanup unmounts before it removes.
RmMeetsNoMount == pc = "rm" => layers = <<>> \/ layers[Top] = {}

Bare(n) == \A i \in 1..n : layers[i] = {}

\* After stop_mck.sh nothing of McKernel is left, however far the boot had come: a stop whose
\* own commands worked leaves no instance, module (with -m: ihk and mcctrl) or mcklogd, the
\* swappiness put back, and no mount, or none but empty tmpfs of umounts that had failed
\* before, except for what RmIsSafe excepts.
StopIsClean ==
  script = "idle" /\ exit = [of |-> "stop", status |-> "ok"] /\ ~fault =>
    /\ osdev = {} /\ os = {}
    /\ left = {} => layers = <<>>
    /\ "mounts" \notin left => Bare(Top)
    /\ mods \subseteq (IF opt.keep THEN {"ihk", "mcctrl"} ELSE {})
    /\ ~klogd /\ swappiness = "60"

\* A run_mck.sh that ends well, whatever it found and with no command that failed,
\* leaves instance 0 running and, with -v, /proc and /sys overlaid; so does a
\* reboot_mck.sh, without the overlays, if memory and CPUs are still reserved.  What is
\* under the overlays, or is there without -v, is no mount of an earlier boot.
BootIsReal ==
  /\ script = "idle" /\ exit.status = "ok" /\ ~fault /\ ~opt.dry
  /\ exit.of = "run" \/ (exit.of = "reboot" /\ resv = {"mem", "cpu"})
  => /\ 0 \in osdev /\ "up" \in os /\ "mcctrl" \in mods
     /\ IF opt.overlay
        THEN /\ "mcoverlay" \in mods /\ layers # <<>> /\ layers[Top] = MountPoint
             /\ left = {} => layers = <<MountPoint>>
             /\ "mounts" \notin left => Bare(Top - 1)
        ELSE /\ "mcoverlay" \notin mods
             /\ left = {} => layers = <<>>
             /\ "mounts" \notin left => Bare(Top)

\* A script ends; only a loop that waits for the LWK can hold it, after a command
\* before it has failed.
ScriptsEnd == (script # "idle") ~> (script = "idle" \/ (fault /\ pc \in {"wait_proc", "wait_sys"}))

-----------------------------------------------------------------------------
(* The inductive invariant behind RmIsSafe and StopIsClean *)

\* Where a boot is, or a stop, once mcoverlay is known to be unloaded.
BootPlace == {"klogd", "ihk", "swappiness", "ihk_smp", "reserve_mem", "reserve_cpu", "chunk_check", "mcctrl", "destroy0",
              "create", "assign_cpu", "ikc_map", "assign_mem", "load", "boot", "chown", "mount_dir"} \union Window
OverlaidPlace == {"wait_proc", "mount_proc", "wait_sys", "mount_sys", "hide"}
ReleasePlace == {"rmmod_mcctrl", "rmmod_smp", "rmmod_ihk", "tidy"}

\* What is mounted, unless something was left: the module that every cleanup looks for is
\* there as long as there is more than a bare tmpfs, and only the top one has mounts in it.
\* With nothing left there is one layer at most.
LayersInv ==
  /\ pc \in Window \union OverlaidPlace => layers # <<>>
  /\ pc \in BootPlace \union ReleasePlace \union {"destroy"} => "mcoverlay" \notin mods
  /\ "mounts" \notin left =>
       /\ Bare(Top - 1)
       /\ layers # <<>> /\ layers[Top] # {} => "mcoverlay" \in mods \/ pc \in Window
       /\ pc \in {"rm", "rmmod_overlay"} => Bare(Top)
  /\ left = {} =>
       /\ Len(layers) <= 1
       /\ layers # <<>> => "mcoverlay" \in mods \/ pc \in Window
       /\ pc \in {"rm", "rmmod_overlay"} => layers = <<>>

\* How far a stop has come, and that a stop never boots.
StopInv ==
  /\ pc \in BootPlace \union OverlaidPlace => script # "stop"
  /\ os # {} => 0 \in osdev
  /\ pc \in ReleasePlace => osdev = {}
  /\ ~fault =>
       /\ pc \in {"rmmod_smp", "rmmod_ihk", "tidy"} => opt.keep \/ "mcctrl" \notin mods
       /\ pc \in {"rmmod_ihk", "tidy"} => "ihk_smp" \notin mods
       /\ pc = "tidy" => opt.keep \/ "ihk" \notin mods

IInv == TypeOK /\ LayersInv /\ StopInv /\ StopIsClean
=============================================================================
