---------------------------- MODULE TestDrvProofs ----------------------------
(***************************************************************************)
(* Proofs about TestDrv for any number of devices, any set of devices with *)
(* buffers, any set of test processes and any set of failing calls.        *)
(***************************************************************************)
EXTENDS TestDrv, TLAPS

Empty == cls = {} /\ cdevs = {} /\ nodes = {} /\ bufs = {} /\ proc = {}
Complete ==
  region = "taken" /\ cls = Dev /\ cdevs = Dev /\ bufs = BufDev /\ majmin = Dev /\ proc = ProcEnts

SetupPc == {"devno", "class", "cdev", "node", "init", "procfs"}
CleanupPc == {"c_procfs", "c_fin", "c_del", "c_devno"}

\* Which routine runs in which module state, and for which script.
PhaseInv ==
  /\ pc = "idle" => mod \in {"unloaded", "live"}
  /\ pc \in SetupPc => mod = "coming" /\ script = "mknod"
  /\ pc \in CleanupPc =>
       \/ mod = "coming" /\ script = "mknod" /\ (res = "ok" => "class" \in Faults)
       \/ mod = "going" /\ script = "rmwait"

\* What the loop of test_mck_setup() has registered when it reaches each call.
SetupInv ==
  /\ pc \in {"class", "cdev", "node", "init"} =>
       /\ region = "taken" /\ proc = {}
       /\ cls = Before(IF pc = "class" THEN i ELSE i + 1)
       /\ cdevs = Before(IF pc \in {"class", "cdev"} THEN i ELSE i + 1)
       /\ majmin = Before(IF pc = "init" THEN i + 1 ELSE i)
       /\ bufs = BufDev \intersect Before(i)
  /\ pc = "procfs" =>
       region = "taken" /\ cls = Dev /\ cdevs = Dev /\ bufs = BufDev /\ majmin = Dev /\ proc = {}
  /\ pc = "devno" => Empty /\ majmin = {}

\* What the loop of test_mck_cleanup() has taken back.
CleanupInv ==
  /\ pc \in {"c_fin", "c_del"} =>
       /\ proc = {}
       /\ \A d \in Before(i) : d \notin cls /\ d \notin cdevs /\ d \notin nodes /\ d \notin bufs
  /\ pc = "c_del" => i \notin bufs
  /\ pc = "c_devno" => Empty

\* What is there when neither routine runs.
RestInv ==
  /\ mod = "unloaded" => region = "free" /\ Empty /\ majmin = {}
  /\ mod = "live" => pc = "idle" /\ (Complete \/ (region = "free" /\ Empty /\ "class" \in Faults))

\* Device files, open files and mappings exist only with a complete driver.
UseInv ==
  /\ script \in {"rmmod", "rmwait"} => devfile = {}
  /\ devfile # {} => mod = "live" /\ Complete
  /\ InUse => mod = "live" /\ Complete

\* Which dev->class pointers are stale, as long as the device numbers are held: those the loop has passed.
StaleInv ==
  /\ region = "taken" => IF pc \in {"c_fin", "c_del", "c_devno"} THEN stale \subseteq Before(i) ELSE stale = {}
  /\ mod = "unloaded" \/ pc = "devno" => stale = {}

IInv == TypeOK /\ PhaseInv /\ SetupInv /\ CleanupInv /\ RestInv /\ UseInv

-----------------------------------------------------------------------------
\* The set of devices a loop has passed, at its start, after a turn, at its end.
LEMMA BeforeFacts ==
  /\ Before(0) = {}
  /\ Before(NDev) = Dev
  /\ \A n \in Dev : Before(n + 1) = Before(n) \union {n}
  /\ \A n \in Dev : n + 1 \in 0..NDev /\ (n + 1 < NDev => n + 1 \in Dev) /\ (~(n + 1 < NDev) => n + 1 = NDev)
BY NDevAssumption DEF Before, Dev

\* The invariant holds initially: nothing is loaded and nothing is registered.
LEMMA IInvInit == Init => IInv
<1> SUFFICES ASSUME Init PROVE IInv
  OBVIOUS
<1>1. TypeOK
  BY NDevAssumption DEF Init, TypeOK, ProcEnts
<1>2. ~InUse
  BY DEF Init, InUse
<1>3. PhaseInv /\ SetupInv /\ CleanupInv /\ RestInv
  BY DEF Init, PhaseInv, SetupInv, CleanupInv, RestInv, Empty, SetupPc, CleanupPc
<1>4. UseInv
  BY <1>2 DEF Init, UseInv
<1> QED
  BY <1>1, <1>3, <1>4 DEF IInv

\* Every step of the driver, the scripts and the test processes keeps the invariant.
LEMMA IInvStep == IInv /\ [Next]_vars => IInv'
<1> SUFFICES ASSUME IInv, [Next]_vars PROVE IInv'
  OBVIOUS
<1> USE BeforeFacts, NDevAssumption, BufDevAssumption, NoDevAssumption
<1>1. CASE SetupDevno
  <2>1. TypeOK'
    BY <1>1 DEF IInv, SetupDevno, Fail, TypeOK, PhaseInv, SetupInv, CleanupInv, RestInv, UseInv, SetupPc, CleanupPc, Empty, Complete, InUse, ProcEnts, Dev, reg, users
  <2>2. PhaseInv'
    BY <1>1 DEF IInv, SetupDevno, Fail, TypeOK, PhaseInv, SetupInv, CleanupInv, RestInv, UseInv, SetupPc, CleanupPc, Empty, Complete, InUse, ProcEnts, Dev, reg, users
  <2>3. SetupInv'
    BY <1>1 DEF IInv, SetupDevno, Fail, TypeOK, PhaseInv, SetupInv, CleanupInv, RestInv, UseInv, SetupPc, CleanupPc, Empty, Complete, InUse, ProcEnts, Dev, reg, users
  <2>4. CleanupInv'
    BY <1>1 DEF IInv, SetupDevno, Fail, TypeOK, PhaseInv, SetupInv, CleanupInv, RestInv, UseInv, SetupPc, CleanupPc, Empty, Complete, InUse, ProcEnts, Dev, reg, users
  <2>5. RestInv'
    BY <1>1 DEF IInv, SetupDevno, Fail, TypeOK, PhaseInv, SetupInv, CleanupInv, RestInv, UseInv, SetupPc, CleanupPc, Empty, Complete, InUse, ProcEnts, Dev, reg, users
  <2>6. UseInv'
    BY <1>1 DEF IInv, SetupDevno, Fail, TypeOK, PhaseInv, SetupInv, CleanupInv, RestInv, UseInv, SetupPc, CleanupPc, Empty, Complete, InUse, ProcEnts, Dev, reg, users
  <2> QED
    BY <2>1, <2>2, <2>3, <2>4, <2>5, <2>6 DEF IInv
<1>2. CASE SetupClass
  BY <1>2 DEF IInv, TypeOK, PhaseInv, SetupInv, CleanupInv, RestInv, UseInv, Empty, Complete, SetupPc, CleanupPc, SetupClass, Fail, reg, users, InUse, ProcEnts, Dev
<1>3. CASE SetupCdev
  BY <1>3 DEF IInv, TypeOK, PhaseInv, SetupInv, CleanupInv, RestInv, UseInv, Empty, Complete, SetupPc, CleanupPc, SetupCdev, Fail, reg, users, InUse, ProcEnts, Dev
<1>4. CASE SetupNode
  BY <1>4 DEF IInv, TypeOK, PhaseInv, SetupInv, CleanupInv, RestInv, UseInv, Empty, Complete, SetupPc, CleanupPc, SetupNode, reg, users, InUse, ProcEnts, Dev
<1>5. CASE SetupInit
  <2>1. TypeOK'
    BY <1>5 DEF IInv, SetupInit, Fail, TypeOK, PhaseInv, SetupInv, CleanupInv, RestInv, UseInv, SetupPc, CleanupPc, Empty, Complete, InUse, ProcEnts, Dev, reg, users
  <2>2. PhaseInv'
    BY <1>5 DEF IInv, SetupInit, Fail, TypeOK, PhaseInv, SetupInv, CleanupInv, RestInv, UseInv, SetupPc, CleanupPc, Empty, Complete, InUse, ProcEnts, Dev, reg, users
  <2>3. SetupInv'
    <3>1. CASE i + 1 < NDev
      BY <1>5, <3>1 DEF IInv, SetupInit, Fail, TypeOK, SetupInv
    <3>2. CASE ~(i + 1 < NDev)
      <4>1. CASE pc' = "procfs"
        <5> i \in Dev
          BY <1>5 DEF IInv, SetupInit, TypeOK
        <5>1. i + 1 = NDev /\ Before(i) \union {i} = Dev
          <6>1. i + 1 = NDev
            BY <3>2
          <6>2. Before(NDev) = Before(i) \union {i}
            BY <6>1
          <6> QED
            BY <6>1, <6>2
        <5>2. bufs' = BufDev
          <6>1. bufs = BufDev \intersect Before(i) /\ pc' # "c_procfs"
            BY <1>5, <4>1 DEF IInv, SetupInit, SetupInv
          <6>2. bufs' = IF i \in BufDev THEN bufs \union {i} ELSE bufs
            BY <1>5, <6>1 DEF SetupInit, Fail
          <6>3. BufDev \subseteq Before(i) \union {i}
            BY <5>1 DEF Dev
          <6>4. CASE i \in BufDev
            BY <6>1, <6>2, <6>3, <6>4, Zenon
          <6>5. CASE i \notin BufDev
            BY <6>1, <6>2, <6>3, <6>5, Zenon
          <6> QED
            BY <6>4, <6>5
        <5> QED
          BY <1>5, <4>1, <5>1, <5>2 DEF IInv, SetupInit, Fail, SetupInv
      <4>2. CASE pc' # "procfs"
        BY <1>5, <3>2, <4>2 DEF IInv, SetupInit, Fail, SetupInv
      <4> QED
        BY <4>1, <4>2
    <3> QED
      BY <3>1, <3>2
  <2>4. CleanupInv'
    BY <1>5 DEF IInv, SetupInit, Fail, TypeOK, PhaseInv, SetupInv, CleanupInv, RestInv, UseInv, SetupPc, CleanupPc, Empty, Complete, InUse, ProcEnts, Dev, reg, users
  <2>5. RestInv'
    BY <1>5 DEF IInv, SetupInit, Fail, TypeOK, PhaseInv, SetupInv, CleanupInv, RestInv, UseInv, SetupPc, CleanupPc, Empty, Complete, InUse, ProcEnts, Dev, reg, users
  <2>6. UseInv'
    BY <1>5 DEF IInv, SetupInit, Fail, TypeOK, PhaseInv, SetupInv, CleanupInv, RestInv, UseInv, SetupPc, CleanupPc, Empty, Complete, InUse, ProcEnts, Dev, reg, users
  <2> QED
    BY <2>1, <2>2, <2>3, <2>4, <2>5, <2>6 DEF IInv
<1>6. CASE SetupProcfs
  BY <1>6 DEF IInv, TypeOK, PhaseInv, SetupInv, CleanupInv, RestInv, UseInv, Empty, Complete, SetupPc, CleanupPc, SetupProcfs, Fail, reg, users, InUse, ProcEnts, Dev
<1>7. CASE CleanupProcfs
  BY <1>7 DEF IInv, TypeOK, PhaseInv, SetupInv, CleanupInv, RestInv, UseInv, Empty, Complete, SetupPc, CleanupPc, CleanupProcfs, reg, users, InUse, ProcEnts, Dev
<1>8. CASE CleanupFin
  BY <1>8 DEF IInv, TypeOK, PhaseInv, SetupInv, CleanupInv, RestInv, UseInv, Empty, Complete, SetupPc, CleanupPc, CleanupFin, reg, users, InUse, ProcEnts, Dev
<1>9. CASE CleanupDel
  BY <1>9 DEF IInv, TypeOK, PhaseInv, SetupInv, CleanupInv, RestInv, UseInv, Empty, Complete, SetupPc, CleanupPc, CleanupDel, reg, users, InUse, ProcEnts, Dev
<1>10. CASE CleanupDevno
  BY <1>10 DEF IInv, TypeOK, PhaseInv, SetupInv, CleanupInv, RestInv, UseInv, Empty, Complete, SetupPc, CleanupPc, CleanupDevno, reg, users, InUse, ProcEnts, Dev
<1>11. CASE ScriptInsmod
  BY <1>11 DEF IInv, TypeOK, PhaseInv, SetupInv, CleanupInv, RestInv, UseInv, Empty, Complete, SetupPc, CleanupPc, ScriptInsmod, reg, users, InUse, ProcEnts, Dev
<1>12. CASE ScriptMknod
  BY <1>12 DEF IInv, TypeOK, PhaseInv, SetupInv, CleanupInv, RestInv, UseInv, Empty, Complete, SetupPc, CleanupPc, ScriptMknod, reg, users, InUse, ProcEnts, Dev
<1>13. CASE ScriptRm
  BY <1>13 DEF IInv, TypeOK, PhaseInv, SetupInv, CleanupInv, RestInv, UseInv, Empty, Complete, SetupPc, CleanupPc, ScriptRm, reg, users, InUse, ProcEnts, Dev
<1>14. CASE ScriptRmmod
  <2>1. TypeOK'
    BY <1>14 DEF IInv, ScriptRmmod, TypeOK, PhaseInv, SetupInv, CleanupInv, RestInv, UseInv, SetupPc, CleanupPc, Empty, Complete, InUse, ProcEnts, Dev, reg, users
  <2>2. PhaseInv'
    BY <1>14 DEF IInv, ScriptRmmod, TypeOK, PhaseInv, SetupInv, CleanupInv, RestInv, UseInv, SetupPc, CleanupPc, Empty, Complete, InUse, ProcEnts, Dev, reg, users
  <2>3. SetupInv'
    BY <1>14 DEF IInv, ScriptRmmod, TypeOK, PhaseInv, SetupInv, CleanupInv, RestInv, UseInv, SetupPc, CleanupPc, Empty, Complete, InUse, ProcEnts, Dev, reg, users
  <2>4. CleanupInv'
    BY <1>14 DEF IInv, ScriptRmmod, TypeOK, PhaseInv, SetupInv, CleanupInv, RestInv, UseInv, SetupPc, CleanupPc, Empty, Complete, InUse, ProcEnts, Dev, reg, users
  <2>5. RestInv'
    BY <1>14 DEF IInv, ScriptRmmod, TypeOK, PhaseInv, SetupInv, CleanupInv, RestInv, UseInv, SetupPc, CleanupPc, Empty, Complete, InUse, ProcEnts, Dev, reg, users
  <2>6. UseInv'
    BY <1>14 DEF IInv, ScriptRmmod, TypeOK, PhaseInv, SetupInv, CleanupInv, RestInv, UseInv, SetupPc, CleanupPc, Empty, Complete, InUse, ProcEnts, Dev, reg, users
  <2> QED
    BY <2>1, <2>2, <2>3, <2>4, <2>5, <2>6 DEF IInv
<1>15. CASE ScriptRmDone
  BY <1>15 DEF IInv, TypeOK, PhaseInv, SetupInv, CleanupInv, RestInv, UseInv, Empty, Complete, SetupPc, CleanupPc, ScriptRmDone, reg, users, InUse, ProcEnts, Dev
<1>16. ASSUME NEW u \in User, UserOpen(u) PROVE IInv'
  BY <1>16 DEF IInv, TypeOK, PhaseInv, SetupInv, CleanupInv, RestInv, UseInv, Empty, Complete, SetupPc, CleanupPc, UserOpen, reg, users, InUse, ProcEnts, Dev
<1>17. ASSUME NEW u \in User, UserMmap(u) PROVE IInv'
  BY <1>17 DEF IInv, TypeOK, PhaseInv, SetupInv, CleanupInv, RestInv, UseInv, Empty, Complete, SetupPc, CleanupPc, UserMmap, reg, users, InUse, ProcEnts, Dev
<1>18. ASSUME NEW u \in User, UserMunmap(u) PROVE IInv'
  BY <1>18 DEF IInv, TypeOK, PhaseInv, SetupInv, CleanupInv, RestInv, UseInv, Empty, Complete, SetupPc, CleanupPc, UserMunmap, reg, users, InUse, ProcEnts, Dev
<1>19. ASSUME NEW u \in User, UserClose(u) PROVE IInv'
  BY <1>19 DEF IInv, TypeOK, PhaseInv, SetupInv, CleanupInv, RestInv, UseInv, Empty, Complete, SetupPc, CleanupPc, UserClose, reg, users, InUse, ProcEnts, Dev
<1>20. CASE UNCHANGED vars
  BY <1>20 DEF IInv, TypeOK, PhaseInv, SetupInv, CleanupInv, RestInv, UseInv, Empty, Complete, SetupPc, CleanupPc, InUse, vars, reg, users
<1> QED
  BY <1>1, <1>2, <1>3, <1>4, <1>5, <1>6, <1>7, <1>8, <1>9, <1>10, <1>11, <1>12, <1>13, <1>14, <1>15, <1>16, <1>17, <1>18, <1>19, <1>20 DEF Next, Setup, Cleanup, Script, Users

\* The invariant above holds in every state of every behaviour.
THEOREM Invariance == Spec => []IInv
BY IInvInit, IInvStep, PTL DEF Spec

\* TestDrv keeps its types: the loops stay within the device table, for any NDev.
THEOREM TypeCorrect == Spec => []TypeOK
BY Invariance, PTL DEF IInv

\* For any number of devices and any failing calls, an unloaded driver has given
\* everything back.
THEOREM CleanupIsComplete == Spec => []NothingLeaks
<1>1. IInv => NothingLeaks
  BY DEF IInv, RestInv, Empty, NothingLeaks
<1> QED
  BY <1>1, Invariance, PTL

\* Whatever registration call failed, a loaded driver is complete or, after a class_create(), empty.
THEOREM SetupIsWhole == Spec => []LiveIsWhole
<1>1. IInv => LiveIsWhole
  BY DEF IInv, RestInv, Complete, Empty, LiveIsComplete, LiveIsWhole
<1> QED
  BY <1>1, Invariance, PTL

\* A loaded driver is complete, as long as class_create() does not fail.
THEOREM SetupIsComplete == ASSUME "class" \notin Faults PROVE Spec => []LiveIsComplete
<1>1. IInv => LiveIsComplete
  BY DEF IInv, RestInv, Complete, LiveIsComplete
<1> QED
  BY <1>1, Invariance, PTL

\* Every step keeps the stale pointers behind the loop of test_mck_cleanup().
LEMMA StaleStep == ASSUME IInv, StaleInv, [Next]_vars PROVE StaleInv'
<1> USE BeforeFacts
<1>1. CASE SetupDevno \/ SetupCdev \/ SetupNode \/ SetupInit \/ SetupProcfs
  BY <1>1 DEF StaleInv, SetupDevno, SetupCdev, SetupNode, SetupInit, SetupProcfs, Fail, IInv, PhaseInv, SetupPc
<1>2. CASE SetupClass
  BY <1>2 DEF StaleInv, SetupClass, Fail, IInv, PhaseInv, SetupPc
<1>3. CASE CleanupProcfs
  BY <1>3 DEF StaleInv, CleanupProcfs
<1>4. CASE CleanupFin
  BY <1>4 DEF StaleInv, CleanupFin
<1>5. CASE CleanupDel
  <2>1. /\ i \in Dev /\ pc = "c_del" /\ i' = i + 1 /\ stale' \subseteq stale \union {i}
        /\ region' = region /\ mod' = mod /\ mod # "unloaded" /\ pc' \in {"c_fin", "c_devno"}
    BY <1>5 DEF IInv, TypeOK, PhaseInv, CleanupPc, CleanupDel
  <2>2. region = "taken" => stale' \subseteq Before(i')
    BY <2>1 DEF StaleInv
  <2>. QED  BY <2>1, <2>2 DEF StaleInv
<1>6. CASE CleanupDevno
  BY <1>6 DEF StaleInv, CleanupDevno
<1>7. CASE Script
  BY <1>7 DEF IInv, PhaseInv, CleanupPc, StaleInv, Script, ScriptInsmod, ScriptMknod, ScriptRm, ScriptRmmod, ScriptRmDone, reg,
     RestInv
<1>8. CASE Users
  BY <1>8 DEF StaleInv, Users, UserOpen, UserMmap, UserMunmap, UserClose, reg
<1>9. CASE UNCHANGED vars
  BY <1>9 DEF StaleInv, vars, reg
<1>. QED  BY <1>1, <1>2, <1>3, <1>4, <1>5, <1>6, <1>7, <1>8, <1>9 DEF Next, Setup, Cleanup

\* What setup did is undone once: while the device numbers are held, cleanup never sees a class that is gone.
THEOREM CleanupHappensOnce == Spec => []CleanedOnce
<1>1. Init => StaleInv
  BY DEF Init, StaleInv
<1>2. IInv /\ StaleInv /\ [Next]_vars => StaleInv'
  BY StaleStep
<1>3. IInv /\ StaleInv => CleanedOnce
  BY DEF StaleInv, CleanedOnce, Before, IInv, TypeOK, Dev
<1>. QED  BY <1>1, <1>2, <1>3, Invariance, PTL DEF Spec

\* No open file and no mapping outlives its device, whatever calls failed.
THEOREM NoUseAfterUnload == Spec => []UsersAreServed
<1>1. IInv => UsersAreServed
  BY BufDevAssumption DEF IInv, TypeOK, UseInv, InUse, Complete, UsersAreServed, Dev
<1> QED
  BY <1>1, Invariance, PTL

\* Files under /dev/test_mck name registered devices, whatever calls failed.
THEOREM DevFilesAlwaysWork == Spec => []DevFilesWork
<1>1. IInv => DevFilesWork
  BY DEF IInv, TypeOK, UseInv, Complete, DevFilesWork
<1> QED
  BY <1>1, Invariance, PTL
=============================================================================
