------------------------------ MODULE TestDrv ------------------------------
(***************************************************************************)
(* The test driver test_mck.ko (test_drv/test_mck_drv.c and its device     *)
(* files), the scripts that load and unload it (util/insmod_test_drv.sh,   *)
(* util/rmmod_test_drv.sh) and the test processes that open its devices.   *)
(*                                                                         *)
(* The kernel registries the driver fills are sets: which device indices   *)
(* have a class, a registered cdev, a device, a buffer.  Module init is    *)
(* cut where another process can look in between: one action per call of   *)
(* the loop of test_mck_setup().  Every registration call may fail.        *)
(* Test processes open a device only through the files that                *)
(* insmod_test_drv.sh makes, so never before module init has returned.     *)
(***************************************************************************)
EXTENDS Naturals, FiniteSets

CONSTANTS
  NDev,     \* test_mck_nr_devs: entries of test_suite.list
  BufDev,   \* devices whose init() allocates a buffer (mmap_dev2, writecombine)
  User,     \* test processes
  NoDev,    \* "this process has no file (or no mapping)"
  Faults    \* the registration calls that may fail

ASSUME NDevAssumption == NDev \in Nat \ {0}
ASSUME BufDevAssumption == BufDev \subseteq 0..(NDev - 1)
ASSUME NoDevAssumption == NoDev \notin 0..(NDev - 1)

Dev == 0..(NDev - 1)
Before(n) == {d \in Dev : d < n}   \* the devices a loop has passed when i = n

VARIABLES
  mod,       \* the kernel's module state
  pc,        \* next call of test_mck_setup() / test_mck_cleanup()
  i,         \* the loop index
  res,       \* the local variable res of test_mck_setup(), as zero or not
  region,    \* the range of device numbers, "taken" once allocated
  cls,       \* devices with a class
  stale,     \* devices whose dev->class points to a class that is gone
  cdevs,     \* devices whose cdev is live
  nodes,     \* devices made by device_create()
  bufs,      \* devices whose private_data is a buffer
  proc,      \* entries of /proc/test_mck
  majmin,    \* devices listed in test_mck_majmin
  script,    \* what the loading and unloading scripts are doing
  devfile,   \* files under /dev/test_mck
  file,      \* the device each test process has open
  vma,       \* the device each test process has mapped
  backed     \* the test processes whose mapping reaches the device's pages

reg == <<region, cls, stale, cdevs, nodes, bufs, proc, majmin>>
users == <<file, vma, backed>>
vars == <<mod, pc, i, res, reg, script, devfile, users>>

ProcEnts == {"dir", "devno", "tp_names"}

Init ==
  /\ mod = "unloaded" /\ pc = "idle" /\ i = 0 /\ res = "ok"
  /\ region = "free"
  /\ cls = {} /\ stale = {} /\ cdevs = {} /\ nodes = {} /\ bufs = {} /\ proc = {} /\ majmin = {}
  /\ script = "idle" /\ devfile = {}
  /\ file = [u \in User |-> NoDev] /\ vma = [u \in User |-> NoDev]
  /\ backed = {}

-----------------------------------------------------------------------------
(* test_mck_setup() *)

\* goto fail: test_mck_cleanup() runs before res is returned.
Fail == pc' = "c_procfs" /\ UNCHANGED i

\* alloc_chrdev_region()
SetupDevno ==
  /\ pc = "devno"
  /\ \/ /\ region' = "taken" /\ res' = "ok" /\ pc' = "class" /\ i' = 0
     \/ /\ "region" \in Faults
        /\ res' = "err" /\ Fail /\ UNCHANGED region
  /\ UNCHANGED <<mod, cls, cdevs, nodes, bufs, proc, majmin, stale, script, devfile, users>>

\* class_create(); dev->class is set either way, and on failure res keeps the zero of the call before it.
SetupClass ==
  /\ pc = "class" /\ stale' = stale \ {i}
  /\ \/ cls' = cls \union {i} /\ pc' = "cdev" /\ UNCHANGED i
     \/ "class" \in Faults /\ Fail /\ UNCHANGED cls
  /\ UNCHANGED <<mod, res, region, cdevs, nodes, bufs, proc, majmin, script, devfile, users>>

\* cdev_init() and cdev_add()
SetupCdev ==
  /\ pc = "cdev"
  /\ \/ cdevs' = cdevs \union {i} /\ res' = "ok" /\ pc' = "node" /\ UNCHANGED i
     \/ "cdev" \in Faults /\ res' = "err" /\ Fail /\ UNCHANGED cdevs
  /\ UNCHANGED <<mod, region, cls, nodes, bufs, proc, majmin, stale, script, devfile, users>>

\* device_create(), whose result nobody looks at, and the entry of devno
SetupNode ==
  /\ pc = "node"
  /\ \/ nodes' = nodes \union {i}
     \/ "node" \in Faults /\ UNCHANGED nodes
  /\ majmin' = majmin \union {i}
  /\ pc' = "init"
  /\ UNCHANGED <<mod, i, res, region, cls, cdevs, bufs, proc, stale, script, devfile, users>>

\* Mutant: the result of dev->init(dev) is not looked at.
SetupInitUnchecked ==
  /\ pc = "init"
  /\ \/ bufs' = IF i \in BufDev THEN bufs \union {i} ELSE bufs
     \/ "init" \in Faults /\ UNCHANGED bufs
  /\ i' = i + 1
  /\ pc' = IF i + 1 < NDev THEN "class" ELSE "procfs"
  /\ UNCHANGED <<mod, res, region, cls, cdevs, nodes, proc, majmin, stale, script, devfile, users>>

\* dev->init(dev): the devices of BufDev allocate and fill their buffer.
SetupInit ==
  /\ pc = "init"
  /\ \/ /\ bufs' = IF i \in BufDev THEN bufs \union {i} ELSE bufs
        /\ res' = "ok"
        /\ i' = i + 1
        /\ pc' = IF i + 1 < NDev THEN "class" ELSE "procfs"
     \/ /\ "init" \in Faults /\ i \in BufDev
        /\ res' = "err" /\ Fail /\ UNCHANGED bufs
  /\ UNCHANGED <<mod, region, cls, cdevs, nodes, proc, majmin, stale, script, devfile, users>>

\* test_mck_init_procfs(): the directory, then its two files in order.
SetupProcfs ==
  /\ pc = "procfs"
  /\ \/ /\ proc' = ProcEnts /\ res' = "ok"
        /\ mod' = "live" /\ pc' = "idle" /\ UNCHANGED i
     \/ /\ "procfs" \in Faults
        /\ proc' \in {{}, {"dir"}, {"dir", "devno"}}
        /\ res' = "err" /\ Fail /\ UNCHANGED mod
  /\ UNCHANGED <<region, cls, cdevs, nodes, bufs, majmin, stale, script, devfile, users>>

-----------------------------------------------------------------------------
(* test_mck_cleanup(), from module exit or from a failed setup *)

\* test_mck_cleanup_procfs()
CleanupProcfs ==
  /\ pc = "c_procfs"
  /\ proc' = {} /\ i' = 0 /\ pc' = "c_fin"
  /\ UNCHANGED <<mod, res, region, cls, cdevs, nodes, bufs, majmin, stale, script, devfile, users>>

\* dev->fin(dev)
CleanupFin ==
  /\ pc = "c_fin"
  /\ bufs' = bufs \ {i} /\ pc' = "c_del"
  /\ UNCHANGED <<mod, i, res, region, cls, cdevs, nodes, proc, majmin, stale, script, devfile, users>>

\* Mutant: the loop runs once too often.
CleanupDelPastEnd ==
  /\ pc = "c_del"
  /\ cdevs' = cdevs \ {i} /\ nodes' = nodes \ {i} /\ cls' = cls \ {i} /\ stale' = stale \union (cls \intersect {i})
  /\ i' = i + 1
  /\ pc' = IF i + 1 <= NDev THEN "c_fin" ELSE "c_devno"
  /\ UNCHANGED <<mod, res, region, bufs, proc, majmin, script, devfile, users>>

\* Mutant: no class_destroy().
CleanupDelKeepsClass ==
  /\ pc = "c_del"
  /\ cdevs' = cdevs \ {i} /\ nodes' = nodes \ {i}
  /\ i' = i + 1
  /\ pc' = IF i + 1 < NDev THEN "c_fin" ELSE "c_devno"
  /\ UNCHANGED <<mod, res, region, cls, stale, bufs, proc, majmin, script, devfile, users>>

\* cdev_del(), device_destroy(), class_destroy(); dev->class still points to what was the class
CleanupDel ==
  /\ pc = "c_del"
  /\ cdevs' = cdevs \ {i} /\ nodes' = nodes \ {i} /\ cls' = cls \ {i} /\ stale' = stale \union (cls \intersect {i})
  /\ i' = i + 1
  /\ pc' = IF i + 1 < NDev THEN "c_fin" ELSE "c_devno"
  /\ UNCHANGED <<mod, res, region, bufs, proc, majmin, script, devfile, users>>

\* Mutant: only module exit gives the device numbers back.
CleanupDevnoAtExit ==
  /\ pc = "c_devno"
  /\ region' = (IF mod = "going" THEN "free" ELSE region) /\ pc' = "idle"
  /\ mod' = IF mod = "coming" /\ res = "ok" THEN "live" ELSE "unloaded"
  /\ majmin' = IF mod' = "live" THEN majmin ELSE {}
  /\ stale' = IF mod' = "live" THEN stale ELSE {}
  /\ UNCHANGED <<i, res, cls, cdevs, nodes, bufs, proc, script, devfile, users>>

\* unregister_chrdev_region(); then setup returns res, or exit returns and
\* the module is freed.  A setup that returns 0 leaves a live module.
CleanupDevno ==
  /\ pc = "c_devno"
  /\ region' = "free" /\ pc' = "idle"
  /\ mod' = IF mod = "coming" /\ res = "ok" THEN "live" ELSE "unloaded"
  /\ majmin' = IF mod' = "live" THEN majmin ELSE {}
  /\ stale' = IF mod' = "live" THEN stale ELSE {}
  /\ UNCHANGED <<i, res, cls, cdevs, nodes, bufs, proc, script, devfile, users>>

-----------------------------------------------------------------------------
(* util/insmod_test_drv.sh and util/rmmod_test_drv.sh *)

\* Mutant: the mappings do not count.
InUseFilesOnly == \E u \in User : file[u] # NoDev

\* fops.owner = THIS_MODULE: an open file, or a mapping of one, holds the module.
InUse == \E u \in User : file[u] # NoDev \/ vma[u] # NoDev

\* insmod: fails with the module already in, and the script goes on anyway.
ScriptInsmod ==
  /\ script = "idle" /\ script' = "mknod"
  /\ IF mod = "unloaded"
     THEN mod' = "coming" /\ pc' = "devno" /\ i' = 0 /\ res' = "ok"
     ELSE UNCHANGED <<mod, pc, i, res>>
  /\ UNCHANGED <<reg, devfile, users>>

\* One device file per entry read from /proc/test_mck/devno.
ScriptMknod ==
  /\ script = "mknod" /\ pc = "idle" /\ script' = "idle"
  /\ devfile' = IF "devno" \in proc THEN devfile \union majmin ELSE devfile
  /\ UNCHANGED <<mod, pc, i, res, reg, users>>

\* Mutant: the device files stay.
ScriptRmKeepsFiles ==
  /\ script = "idle" /\ script' = "rmmod"
  /\ UNCHANGED <<mod, pc, i, res, reg, devfile, users>>

\* rm -rf /dev/test_mck
ScriptRm ==
  /\ script = "idle" /\ script' = "rmmod" /\ devfile' = {}
  /\ UNCHANGED <<mod, pc, i, res, reg, users>>

\* rmmod: refused while the module is in use or not there.
ScriptRmmod ==
  /\ script = "rmmod"
  /\ IF mod = "live" /\ ~InUse
     THEN mod' = "going" /\ pc' = "c_procfs" /\ i' = 0 /\ script' = "rmwait"
     ELSE script' = "idle" /\ UNCHANGED <<mod, pc, i>>
  /\ UNCHANGED <<res, reg, devfile, users>>

ScriptRmDone ==
  /\ script = "rmwait" /\ pc = "idle" /\ script' = "idle"
  /\ UNCHANGED <<mod, pc, i, res, reg, devfile, users>>

-----------------------------------------------------------------------------
(* Test processes: mmap_dev, writecombine and ptrace#21 open, map, close. *)

UserOpen(u) ==
  /\ file[u] = NoDev
  /\ \E d \in devfile \intersect cdevs :
       mod = "live" /\ file' = [file EXCEPT ![u] = d]
  /\ UNCHANGED <<mod, pc, i, res, reg, script, devfile, vma, backed>>

\* The mmap handlers all return 0: those of BufDev serve the pages of the buffer
\* on a fault, mmap_dev maps its range at once and drops remap_pfn_range()'s result.
UserMmap(u) ==
  /\ file[u] # NoDev /\ vma[u] = NoDev
  /\ vma' = [vma EXCEPT ![u] = file[u]]
  /\ \/ backed' = backed \union {u}
     \/ "remap" \in Faults /\ file[u] \notin BufDev /\ UNCHANGED backed
  /\ UNCHANGED <<mod, pc, i, res, reg, script, devfile, file>>

\* munmap() and close() in either order, or exit()
UserMunmap(u) ==
  /\ vma[u] # NoDev
  /\ vma' = [vma EXCEPT ![u] = NoDev]
  /\ backed' = backed \ {u}
  /\ UNCHANGED <<mod, pc, i, res, reg, script, devfile, file>>

UserClose(u) ==
  /\ file[u] # NoDev
  /\ file' = [file EXCEPT ![u] = NoDev]
  /\ UNCHANGED <<mod, pc, i, res, reg, script, devfile, vma, backed>>

-----------------------------------------------------------------------------
Setup == SetupDevno \/ SetupClass \/ SetupCdev \/ SetupNode \/ SetupInit \/ SetupProcfs
Cleanup == CleanupProcfs \/ CleanupFin \/ CleanupDel \/ CleanupDevno
Script == ScriptInsmod \/ ScriptMknod \/ ScriptRm \/ ScriptRmmod \/ ScriptRmDone
Users == \E u \in User : UserOpen(u) \/ UserMmap(u) \/ UserMunmap(u) \/ UserClose(u)

Next == Setup \/ Cleanup \/ Script \/ Users

Spec == Init /\ [][Next]_vars
-----------------------------------------------------------------------------
(* Correctness *)

\* Every variable keeps its type; the loop index never passes the device table
\* test_mck_devlist[] that setup and cleanup both walk.
TypeOK ==
  /\ mod \in {"unloaded", "coming", "live", "going"}
  /\ pc \in {"idle", "devno", "class", "cdev", "node", "init", "procfs",
             "c_procfs", "c_fin", "c_del", "c_devno"}
  /\ i \in 0..NDev
  /\ pc \in {"class", "cdev", "node", "init", "c_fin", "c_del"} => i \in Dev
  /\ res \in {"ok", "err"} /\ region \in {"free", "taken"}
  /\ cls \subseteq Dev /\ stale \subseteq Dev /\ cdevs \subseteq Dev /\ nodes \subseteq Dev
  /\ bufs \subseteq BufDev /\ majmin \subseteq Dev /\ proc \subseteq ProcEnts
  /\ script \in {"idle", "mknod", "rmmod", "rmwait"} /\ devfile \subseteq Dev
  /\ file \in [User -> Dev \union {NoDev}] /\ vma \in [User -> Dev \union {NoDev}]
  /\ backed \subseteq User

\* Whichever registration call failed and whenever rmmod came, an unloaded driver
\* has given everything back: test_mck_cleanup() misses nothing setup did.
NothingLeaks ==
  mod = "unloaded" =>
    region = "free" /\ cls = {} /\ cdevs = {} /\ nodes = {} /\ bufs = {} /\ proc = {}

\* insmod that succeeded means a complete driver: test_mck_setup() returns 0 only
\* with every device registered and initialised and /proc/test_mck filled.
LiveIsComplete ==
  mod = "live" =>
    region = "taken" /\ cls = Dev /\ cdevs = Dev /\ bufs = BufDev /\ majmin = Dev /\ proc = ProcEnts

\* A driver that insmod has loaded has all of its devices or, after a class_create() that failed with res
\* still 0, nothing at all: no registration call that fails leaves part of a driver in the kernel.
LiveIsWhole ==
  \/ LiveIsComplete
  \/ region = "free" /\ cls = {} /\ cdevs = {} /\ nodes = {} /\ bufs = {} /\ proc = {}

\* test_mck_cleanup() undoes a setup once: device_destroy() and class_destroy() are never handed a dev->class
\* that an earlier pass of the loop has destroyed, except at the exit of a driver that class_create() has left
\* with nothing, its device numbers included.
CleanedOnce == pc = "c_del" /\ region = "taken" => i \notin stale

\* An open file or a mapping of a device is never left behind by unloading: the
\* fault handlers and ioctl always find the cdev and the buffer of their device.
UsersAreServed ==
  \A u \in User : \A d \in {file[u], vma[u]} \ {NoDev} :
    mod = "live" /\ d \in cdevs /\ (d \in BufDev => d \in bufs)

\* A file under /dev/test_mck always names a registered device: the scripts make
\* the files after setup and remove them before cleanup.
DevFilesWork == devfile \subseteq cdevs
=============================================================================
