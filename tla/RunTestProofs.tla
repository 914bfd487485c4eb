--------------------------- MODULE RunTestProofs ---------------------------
(***************************************************************************)
(* Proofs about RunTest for any set of tests, any core_pattern of the host *)
(* and any set of places where run.sh may be killed: the verdict is that   *)
(* of a finished program, a run that was not killed restores the host, and *)
(* a test that asked for the driver has it as long as it runs, unless this *)
(* run could not load it.                                                  *)
(*                                                                         *)
(* None is inductive.  HostInv says what of the host has been saved,       *)
(* changed and put back when run.sh has come to each place; ProgInv ties   *)
(* the place of run.sh to that of the program it started; VerdictInv       *)
(* carries the verdict from the check to the end.                          *)
(***************************************************************************)
EXTENDS RunTest, TLAPS

StartPlace == {"user", "printk", "core", "init", "exec"}
RunPlace == {"tee", "kill", "signals", "wait_pid", "wait_loop"}
FiniPlace == {"fini", "fini_kill", "fini_core", "fini_printk", "fini_user", "check", "structs"}
Judged == pc = "idle" /\ exit \in {"pass", "fail"}
Dead == {"done", "segv", "killed"}

\* The settings of the host at each place: saved before they are changed, put back in turn.
HostInv ==
  /\ orig \in [printk : {"none", "7", "4"}, core : Patterns \union {"none", "core.host"}, addusr : BOOLEAN]
  /\ pc = "user" => ~orig.addusr
  /\ pc \in (StartPlace \ {"user"}) \union RunPlace \union FiniPlace => orig.addusr = ~before.user
  /\ pc \in {"core", "init", "exec"} \union RunPlace \union FiniPlace => orig.printk = before.printk
  /\ pc \in {"init", "exec"} \union RunPlace \union FiniPlace => orig.core = before.core
  /\ pc \in {"user", "printk", "fini_user", "check", "structs"} \/ Judged => host.printk = before.printk
  /\ pc \in {"user", "printk", "core"} => host.core = before.core
  /\ before.core # "|handler" /\ (pc \in {"fini_printk", "fini_user", "check", "structs"} \/ Judged) =>
       host.core = before.core
  /\ pc = "user" => host.user = before.user
  /\ "userdel" \notin failed /\ (pc \in {"check", "structs"} \/ Judged) => host.user = before.user
  /\ pc \in {"printk", "core", "init", "exec", "fini", "fini_kill", "fini_core", "fini_printk", "fini_user"} \union RunPlace => host.user

\* The program runs only while run.sh is in exec/ or waits for it, it prints one line at its end,
\* and run.sh has its exit status from then on.
ProgInv ==
  /\ Alive => pc \in RunPlace
  /\ pc \in StartPlace => app = "none" /\ exit_status = "none"
  /\ pc \in RunPlace => app \in {"setup", "run", "teardown", "print"} \union Dead
  /\ pc \in FiniPlace => app \in Dead /\ (T.exec = "eval" => exit_status = app)
  /\ lines = IF app = "done" THEN {res} ELSE {}
  /\ app \in {"teardown", "print", "done"} => res # "none"
  /\ pc \in {"fini_core", "fini_printk", "fini_user", "check", "structs"} \/ Judged => orphan = "none"

\* The driver from insmod_test_drv.sh until the program has ended.
DrvInv ==
  /\ devs => drv
  /\ pc \in {"exec"} \union RunPlace /\ T.insmod => devs = drv /\ (drv \/ "insmod" \in failed)

VerdictInv ==
  /\ pc = "structs" => (rc = 0 /\ ~left <=> Good)
  /\ Judged => (exit = "pass" <=> Good)

IInv == TypeOK /\ HostInv /\ ProgInv /\ DrvInv /\ VerdictInv

-----------------------------------------------------------------------------
\* What the scripts of a test say, in the form the proofs use.
LEMMA TestFacts ==
  ASSUME NEW t \in DOMAIN Test
  PROVE  /\ Test[t].exec \in {"eval", "kill", "signals", "wait"}
         /\ Test[t].insmod \in BOOLEAN /\ Test[t].rmmod \in BOOLEAN
         /\ Test[t].check \in {"result", "last_line", "output", "segv", "structs"}
         /\ Test[t].check = "segv" => Test[t].exec = "eval"
<1>1. t \in {"getppid", "mem_limits", "execve", "ptrace", "mmap_dev", "force_exit", "siginfo", "freeze_thaw"}
  BY DEF Test
<1>2. CASE t = "getppid"
  BY <1>2 DEF Test
<1>3. CASE t = "mem_limits"
  BY <1>3 DEF Test
<1>4. CASE t = "execve"
  BY <1>4 DEF Test
<1>5. CASE t = "ptrace"
  BY <1>5 DEF Test
<1>6. CASE t = "mmap_dev"
  BY <1>6 DEF Test
<1>7. CASE t = "force_exit"
  BY <1>7 DEF Test
<1>8. CASE t = "siginfo"
  BY <1>8 DEF Test
<1>9. CASE t = "freeze_thaw"
  BY <1>9 DEF Test
<1>. QED
  BY <1>1, <1>2, <1>3, <1>4, <1>5, <1>6, <1>7, <1>8, <1>9

\* run.sh and its program keep step.
LEMMA ProgStep == ASSUME IInv, [Next]_vars PROVE ProgInv'
<1> USE DEF IInv, TypeOK, ProgInv, Alive, T, Place, Dead, StartPlace, RunPlace, FiniPlace, Judged
<1>1. CASE start
  BY <1>1 DEF start, script, program
<1>2. CASE AppSetup
  BY <1>2 DEF AppSetup, script, program
<1>3. CASE AppRun
  BY <1>3 DEF AppRun, script, program
<1>4. CASE AppTeardown
  BY <1>4 DEF AppTeardown, script, program
<1>5. CASE AppPrint
  BY <1>5 DEF AppPrint, script, program
<1>6. CASE AppAssert
  BY <1>6 DEF AppAssert, script, program
<1>7. CASE AppCrash
  BY <1>7 DEF AppCrash, script, program
<1>8. CASE init_user
  BY <1>8 DEF init_user, script, program
<1>9. CASE init_printk
  BY <1>9 DEF init_printk, script, program
<1>10. CASE init_core
  BY <1>10 DEF init_core, script, program
<1>11. CASE init_test
  BY <1>11 DEF init_test, script, program
<1>12. CASE exec
  <2>1. T.exec \in {"eval", "kill", "signals", "wait"}
    BY TestFacts, TestsAssumption DEF T, TypeOK, IInv
  <2>2. pc' \in RunPlace
    BY <1>12, <2>1 DEF exec
  <2>. QED
    BY <1>12, <2>2 DEF exec, script, program
<1>13. CASE exec_kill
  BY <1>13 DEF exec_kill, script, program, Kill
<1>14. CASE exec_signals
  BY <1>14 DEF exec_signals, script, program
<1>15. CASE wait_pid
  BY <1>15 DEF wait_pid, script, program
<1>16. CASE wait_loop
  BY <1>16 DEF wait_loop, script, program
<1>17. CASE tee
  BY <1>17 DEF tee, script, program
<1>18. CASE fini_test
  BY <1>18 DEF fini_test, script, program
<1>19. CASE fini_kill
  BY <1>19 DEF fini_kill, script, program, Kill
<1>20. CASE fini_core
  BY <1>20 DEF fini_core, script, program
<1>21. CASE fini_printk
  BY <1>21 DEF fini_printk, script, program
<1>22. CASE fini_user
  BY <1>22 DEF fini_user, script, program
<1>23. CASE check
  BY <1>23 DEF check, script, program
<1>24. CASE structs
  BY <1>24 DEF structs, script, program
<1>25. CASE Interrupt
  BY <1>25 DEF Interrupt, script, program
<1>26. CASE OrphanEnds
  BY <1>26 DEF OrphanEnds, script, program
<1>27. CASE UNCHANGED vars
  BY <1>27 DEF vars, script, program
<1>. QED
  BY <1>1, <1>2, <1>3, <1>4, <1>5, <1>6, <1>7, <1>8, <1>9, <1>10, <1>11, <1>12, <1>13, <1>14,
      <1>15, <1>16, <1>17, <1>18, <1>19, <1>20, <1>21, <1>22, <1>23, <1>24, <1>25, <1>26, <1>27 DEF
      Next, App, Run

\* Nothing unloads the driver or removes its files between init/ and the end of the program.
LEMMA DrvStep == ASSUME IInv, [Next]_vars PROVE DrvInv'
<1> USE DEF IInv, TypeOK, ProgInv, DrvInv, Alive, T, Place, Dead, StartPlace, RunPlace, FiniPlace,
    Judged
<1>1. CASE start
  BY <1>1 DEF start, script, program
<1>2. CASE AppSetup
  BY <1>2 DEF AppSetup, script, program
<1>3. CASE AppRun
  BY <1>3 DEF AppRun, script, program
<1>4. CASE AppTeardown
  BY <1>4 DEF AppTeardown, script, program
<1>5. CASE AppPrint
  BY <1>5 DEF AppPrint, script, program
<1>6. CASE AppAssert
  BY <1>6 DEF AppAssert, script, program
<1>7. CASE AppCrash
  BY <1>7 DEF AppCrash, script, program
<1>8. CASE init_user
  BY <1>8 DEF init_user, script, program
<1>9. CASE init_printk
  BY <1>9 DEF init_printk, script, program
<1>10. CASE init_core
  BY <1>10 DEF init_core, script, program
<1>11. CASE init_test
  BY <1>11 DEF init_test, script, program
<1>12. CASE exec
  <2>1. T.exec \in {"eval", "kill", "signals", "wait"}
    BY TestFacts, TestsAssumption DEF T, TypeOK, IInv
  <2>2. pc' \in RunPlace
    BY <1>12, <2>1 DEF exec
  <2>. QED
    BY <1>12, <2>2 DEF exec, script, program
<1>13. CASE exec_kill
  BY <1>13 DEF exec_kill, script, program, Kill
<1>14. CASE exec_signals
  BY <1>14 DEF exec_signals, script, program
<1>15. CASE wait_pid
  BY <1>15 DEF wait_pid, script, program
<1>16. CASE wait_loop
  BY <1>16 DEF wait_loop, script, program
<1>17. CASE tee
  BY <1>17 DEF tee, script, program
<1>18. CASE fini_test
  BY <1>18 DEF fini_test, script, program
<1>19. CASE fini_kill
  BY <1>19 DEF fini_kill, script, program, Kill
<1>20. CASE fini_core
  BY <1>20 DEF fini_core, script, program
<1>21. CASE fini_printk
  BY <1>21 DEF fini_printk, script, program
<1>22. CASE fini_user
  BY <1>22 DEF fini_user, script, program
<1>23. CASE check
  BY <1>23 DEF check, script, program
<1>24. CASE structs
  BY <1>24 DEF structs, script, program
<1>25. CASE Interrupt
  BY <1>25 DEF Interrupt, script, program
<1>26. CASE OrphanEnds
  BY <1>26 DEF OrphanEnds, script, program
<1>27. CASE UNCHANGED vars
  BY <1>27 DEF vars, script, program
<1>. QED
  BY <1>1, <1>2, <1>3, <1>4, <1>5, <1>6, <1>7, <1>8, <1>9, <1>10, <1>11, <1>12, <1>13, <1>14,
      <1>15, <1>16, <1>17, <1>18, <1>19, <1>20, <1>21, <1>22, <1>23, <1>24, <1>25, <1>26, <1>27 DEF
      Next, App, Run

\* Every setting that was changed has been saved, and is put back once.
LEMMA HostStep == ASSUME IInv, [Next]_vars PROVE HostInv'
<1> USE DEF IInv, TypeOK, HostInv, Place, StartPlace, RunPlace, FiniPlace, Judged
<1>1. CASE start
  BY <1>1 DEF start, script, program
<1>2. CASE AppSetup
  BY <1>2 DEF AppSetup, script, program
<1>3. CASE AppRun
  BY <1>3 DEF AppRun, script, program
<1>4. CASE AppTeardown
  BY <1>4 DEF AppTeardown, script, program
<1>5. CASE AppPrint
  BY <1>5 DEF AppPrint, script, program
<1>6. CASE AppAssert
  BY <1>6 DEF AppAssert, script, program
<1>7. CASE AppCrash
  BY <1>7 DEF AppCrash, script, program
<1>8. CASE init_user
  <2>1. /\ before.user \in BOOLEAN /\ host.user = before.user /\ orig.addusr = FALSE
        /\ host.core = before.core /\ host.printk = before.printk
    BY <1>8 DEF init_user
  <2>2. CASE host.user /\ pc' = "printk" /\ UNCHANGED <<exit, orig, host>>
    BY <1>8, <2>1, <2>2 DEF init_user, script, program
  <2>3. CASE ~host.user /\ pc' = "printk" /\ host' = [host EXCEPT !.user = TRUE]
             /\ orig' = [orig EXCEPT !.addusr = TRUE] /\ UNCHANGED exit
    BY <1>8, <2>1, <2>3 DEF init_user, script, program
  <2>4. CASE ~host.user /\ pc' = "idle" /\ exit' = "err" /\ UNCHANGED <<orig, host>>
    BY <1>8, <2>1, <2>4 DEF init_user, script, program
  <2>. QED
    BY <1>8, <2>2, <2>3, <2>4 DEF init_user
<1>9. CASE init_printk
  BY <1>9 DEF init_printk, script, program
<1>10. CASE init_core
  BY <1>10 DEF init_core, script, program
<1>11. CASE init_test
  BY <1>11 DEF init_test, script, program
<1>12. CASE exec
  <2>1. T.exec \in {"eval", "kill", "signals", "wait"}
    BY TestFacts, TestsAssumption DEF T, TypeOK, IInv
  <2>2. pc' \in RunPlace
    BY <1>12, <2>1 DEF exec
  <2>. QED
    BY <1>12, <2>2 DEF exec, script, program
<1>13. CASE exec_kill
  BY <1>13 DEF exec_kill, script, program, Kill
<1>14. CASE exec_signals
  BY <1>14 DEF exec_signals, script, program
<1>15. CASE wait_pid
  BY <1>15 DEF wait_pid, script, program
<1>16. CASE wait_loop
  BY <1>16 DEF wait_loop, script, program
<1>17. CASE tee
  BY <1>17 DEF tee, script, program
<1>18. CASE fini_test
  BY <1>18 DEF fini_test, script, program
<1>19. CASE fini_kill
  BY <1>19 DEF fini_kill, script, program, Kill
<1>20. CASE fini_core
  BY <1>20 DEF fini_core, script, program
<1>21. CASE fini_printk
  BY <1>21 DEF fini_printk, script, program
<1>22. CASE fini_user
  <2>1. host.user = TRUE /\ before.user \in BOOLEAN /\ orig.addusr = ~before.user
    BY <1>22 DEF fini_user
  <2>2. "userdel" \notin failed' => host'.user = before.user
    <3>1. CASE host' = [host EXCEPT !.user = @ /\ ~orig.addusr]
      BY <2>1, <3>1
    <3>. QED
      BY <1>22, <3>1 DEF fini_user
  <2>3. host'.core = host.core /\ host'.printk = host.printk
    BY <1>22 DEF fini_user
  <2>4. pc = "fini_user" /\ pc' = "check" /\ UNCHANGED <<exit, before, orig>>
    BY <1>22 DEF fini_user, script, program
  <2>. QED
    BY <2>2, <2>3, <2>4
<1>23. CASE check
  BY <1>23 DEF check, script, program
<1>24. CASE structs
  BY <1>24 DEF structs, script, program
<1>25. CASE Interrupt
  BY <1>25 DEF Interrupt, script, program
<1>26. CASE OrphanEnds
  BY <1>26 DEF OrphanEnds, script, program
<1>27. CASE UNCHANGED vars
  BY <1>27 DEF vars, script, program
<1>. QED
  BY <1>1, <1>2, <1>3, <1>4, <1>5, <1>6, <1>7, <1>8, <1>9, <1>10, <1>11, <1>12, <1>13, <1>14,
      <1>15, <1>16, <1>17, <1>18, <1>19, <1>20, <1>21, <1>22, <1>23, <1>24, <1>25, <1>26, <1>27 DEF
      Next, App, Run

\* The verdict is made on a program that has ended and a kernel that changes no more.
LEMMA VerdictStep == ASSUME IInv, [Next]_vars PROVE VerdictInv'
<1> USE DEF IInv, TypeOK, ProgInv, VerdictInv, Good, Alive, T, Place, Dead, StartPlace, RunPlace,
    FiniPlace, Judged
<1>1. CASE start
  BY <1>1 DEF start, script, program
<1>2. CASE AppSetup
  BY <1>2 DEF AppSetup, script, program
<1>3. CASE AppRun
  BY <1>3 DEF AppRun, script, program
<1>4. CASE AppTeardown
  BY <1>4 DEF AppTeardown, script, program
<1>5. CASE AppPrint
  BY <1>5 DEF AppPrint, script, program
<1>6. CASE AppAssert
  BY <1>6 DEF AppAssert, script, program
<1>7. CASE AppCrash
  BY <1>7 DEF AppCrash, script, program
<1>8. CASE init_user
  BY <1>8 DEF init_user, script, program
<1>9. CASE init_printk
  BY <1>9 DEF init_printk, script, program
<1>10. CASE init_core
  BY <1>10 DEF init_core, script, program
<1>11. CASE init_test
  BY <1>11 DEF init_test, script, program
<1>12. CASE exec
  <2>1. T.exec \in {"eval", "kill", "signals", "wait"}
    BY TestFacts, TestsAssumption DEF T, TypeOK, IInv
  <2>2. pc' \in RunPlace
    BY <1>12, <2>1 DEF exec
  <2>. QED
    BY <1>12, <2>2 DEF exec, script, program
<1>13. CASE exec_kill
  BY <1>13 DEF exec_kill, script, program, Kill
<1>14. CASE exec_signals
  BY <1>14 DEF exec_signals, script, program
<1>15. CASE wait_pid
  BY <1>15 DEF wait_pid, script, program
<1>16. CASE wait_loop
  BY <1>16 DEF wait_loop, script, program
<1>17. CASE tee
  BY <1>17 DEF tee, script, program
<1>18. CASE fini_test
  BY <1>18 DEF fini_test, script, program
<1>19. CASE fini_kill
  BY <1>19 DEF fini_kill, script, program, Kill
<1>20. CASE fini_core
  BY <1>20 DEF fini_core, script, program
<1>21. CASE fini_printk
  BY <1>21 DEF fini_printk, script, program
<1>22. CASE fini_user
  BY <1>22 DEF fini_user, script, program
<1>23. CASE check
  <2>1. /\ T.check \in {"result", "last_line", "output", "segv", "structs"}
        /\ T.check = "segv" => T.exec = "eval"
    BY TestFacts, TestsAssumption
  <2>2. app \in Dead /\ (T.exec = "eval" => exit_status = app) /\ lines = IF app = "done" THEN {res} ELSE {}
    BY <1>23 DEF check
  <2>3. UNCHANGED <<test, app, res, left, exit>> /\ pc' = "structs"
    BY <1>23 DEF check, script, program
  <2>4. CASE T.check = "result"
    BY <1>23, <2>2, <2>3, <2>4 DEF check, result_is_ok
  <2>5. CASE T.check = "last_line"
    BY <1>23, <2>2, <2>3, <2>5 DEF check
  <2>6. CASE T.check = "output"
    BY <1>23, <2>2, <2>3, <2>6 DEF check
  <2>7. CASE T.check = "segv"
    BY <1>23, <2>1, <2>2, <2>3, <2>7 DEF check
  <2>8. CASE T.check = "structs"
    BY <1>23, <2>2, <2>3, <2>8 DEF check
  <2>. QED
    BY <2>1, <2>4, <2>5, <2>6, <2>7, <2>8
<1>24. CASE structs
  <2>1. UNCHANGED <<test, app, res, left>> /\ pc = "structs" /\ pc' = "idle"
    BY <1>24 DEF structs, script, program
  <2>2. exit' = IF rc = 0 /\ ~left THEN "pass" ELSE "fail"
    BY <1>24 DEF structs
  <2>3. Good' <=> Good
    BY <2>1
  <2>. QED
    BY <2>1, <2>2, <2>3
<1>25. CASE Interrupt
  BY <1>25 DEF Interrupt, script, program
<1>26. CASE OrphanEnds
  BY <1>26 DEF OrphanEnds, script, program
<1>27. CASE UNCHANGED vars
  BY <1>27 DEF vars, script, program
<1>. QED
  BY <1>1, <1>2, <1>3, <1>4, <1>5, <1>6, <1>7, <1>8, <1>9, <1>10, <1>11, <1>12, <1>13, <1>14,
      <1>15, <1>16, <1>17, <1>18, <1>19, <1>20, <1>21, <1>22, <1>23, <1>24, <1>25, <1>26, <1>27 DEF
      Next, App, Run

\* The flags stay Booleans.
LEMMA FlagStep == ASSUME TypeOK, [Next]_vars PROVE {sent, left, drv, devs}' \subseteq BOOLEAN
<1>1. CASE start
  BY <1>1, Zenon DEF TypeOK, start, script, program
<1>2. CASE AppSetup
  BY <1>2, Zenon DEF TypeOK, AppSetup, script, program
<1>3. CASE AppRun
  BY <1>3, Zenon DEF TypeOK, AppRun, script, program
<1>4. CASE AppTeardown
  BY <1>4, Zenon DEF TypeOK, AppTeardown, script, program
<1>5. CASE AppPrint
  BY <1>5, Zenon DEF TypeOK, AppPrint, script, program
<1>6. CASE AppAssert
  BY <1>6, Zenon DEF TypeOK, AppAssert, script, program
<1>7. CASE AppCrash
  BY <1>7, Zenon DEF TypeOK, AppCrash, script, program
<1>8. CASE init_user
  BY <1>8, Zenon DEF TypeOK, init_user, script, program
<1>9. CASE init_printk
  BY <1>9, Zenon DEF TypeOK, init_printk, script, program
<1>10. CASE init_core
  BY <1>10, Zenon DEF TypeOK, init_core, script, program
<1>11. CASE init_test
  BY <1>11, Zenon DEF TypeOK, init_test, script, program
<1>12. CASE exec
  BY <1>12, Zenon DEF TypeOK, exec, script, program
<1>13. CASE exec_kill
  BY <1>13, Zenon DEF TypeOK, exec_kill, script, program, Kill
<1>14. CASE exec_signals
  BY <1>14, Zenon DEF TypeOK, exec_signals, script, program
<1>15. CASE wait_pid
  BY <1>15, Zenon DEF TypeOK, wait_pid, script, program
<1>16. CASE wait_loop
  BY <1>16, Zenon DEF TypeOK, wait_loop, script, program
<1>17. CASE tee
  BY <1>17, Zenon DEF TypeOK, tee, script, program
<1>18. CASE fini_test
  BY <1>18, Zenon DEF TypeOK, fini_test, script, program
<1>19. CASE fini_kill
  BY <1>19, Zenon DEF TypeOK, fini_kill, script, program, Kill
<1>20. CASE fini_core
  BY <1>20, Zenon DEF TypeOK, fini_core, script, program
<1>21. CASE fini_printk
  BY <1>21, Zenon DEF TypeOK, fini_printk, script, program
<1>22. CASE fini_user
  BY <1>22, Zenon DEF TypeOK, fini_user, script, program
<1>23. CASE check
  BY <1>23, Zenon DEF TypeOK, check, script, program
<1>24. CASE structs
  BY <1>24, Zenon DEF TypeOK, structs, script, program
<1>25. CASE Interrupt
  BY <1>25, Zenon DEF TypeOK, Interrupt, script, program
<1>26. CASE OrphanEnds
  BY <1>26, Zenon DEF TypeOK, OrphanEnds, script, program
<1>27. CASE UNCHANGED vars
  BY <1>27, Zenon DEF TypeOK, vars, script, program
<1>. QED
  BY <1>1, <1>2, <1>3, <1>4, <1>5, <1>6, <1>7, <1>8, <1>9, <1>10, <1>11, <1>12, <1>13, <1>14,
      <1>15, <1>16, <1>17, <1>18, <1>19, <1>20, <1>21, <1>22, <1>23, <1>24, <1>25, <1>26, <1>27 DEF
      Next, App, Run

\* Every step keeps the types.
LEMMA TypeStep == ASSUME IInv, [Next]_vars PROVE TypeOK'
<1>0. {sent, left, drv, devs}' \subseteq BOOLEAN
  BY FlagStep DEF IInv
<1> USE DEF IInv, TypeOK, ProgInv, HostInv, T, Alive, Place, Dead, StartPlace, RunPlace, FiniPlace,
    Judged
<1>1. CASE start
  BY <1>0, <1>1 DEF start, script, program
<1>2. CASE AppSetup
  BY <1>0, <1>2 DEF AppSetup, script, program
<1>3. CASE AppRun
  BY <1>0, <1>3 DEF AppRun, script, program
<1>4. CASE AppTeardown
  BY <1>0, <1>4 DEF AppTeardown, script, program
<1>5. CASE AppPrint
  BY <1>0, <1>5 DEF AppPrint, script, program
<1>6. CASE AppAssert
  BY <1>0, <1>6 DEF AppAssert, script, program
<1>7. CASE AppCrash
  BY <1>0, <1>7 DEF AppCrash, script, program
<1>8. CASE init_user
  <2>1. host' \in [printk : {"7", "4"}, core : Patterns \union {"core.host"}, user : BOOLEAN]
    BY <1>8 DEF init_user
  <2>2. orig'.addusr \in BOOLEAN
    <3>1. CASE UNCHANGED orig
      BY <3>1
    <3>2. CASE orig' = [orig EXCEPT !.addusr = TRUE]
      BY <3>2
    <3>. QED
      BY <1>8, <3>1, <3>2 DEF init_user
  <2>3. exit' \in {"none", "err", "killed", "pass", "fail"} /\ pc' \in {"printk", "idle"}
    BY <1>8 DEF init_user
  <2>. QED
    BY <1>0, <1>8, <2>1, <2>2, <2>3 DEF init_user, script, program
<1>9. CASE init_printk
  BY <1>0, <1>9 DEF init_printk, script, program
<1>10. CASE init_core
  BY <1>0, <1>10 DEF init_core, script, program
<1>11. CASE init_test
  BY <1>0, <1>11 DEF init_test, script, program
<1>12. CASE exec
  <2>1. T.exec \in {"eval", "kill", "signals", "wait"}
    BY TestFacts, TestsAssumption DEF T, TypeOK, IInv
  <2>2. pc' \in RunPlace
    BY <1>12, <2>1 DEF exec
  <2>. QED
    BY <1>12, <2>2 DEF exec, script, program
<1>13. CASE exec_kill
  BY <1>0, <1>13 DEF exec_kill, script, program, Kill
<1>14. CASE exec_signals
  <2>1. app' \in {app, "killed"}
    BY <1>14 DEF exec_signals
  <2>. QED
    BY <1>0, <1>14, <2>1 DEF exec_signals, script, program
<1>15. CASE wait_pid
  BY <1>0, <1>15 DEF wait_pid, script, program
<1>16. CASE wait_loop
  BY <1>0, <1>16 DEF wait_loop, script, program
<1>17. CASE tee
  BY <1>0, <1>17 DEF tee, script, program
<1>18. CASE fini_test
  BY <1>0, <1>18 DEF fini_test, script, program
<1>19. CASE fini_kill
  BY <1>0, <1>19 DEF fini_kill, script, program, Kill
<1>20. CASE fini_core
  BY <1>0, <1>20 DEF fini_core, script, program
<1>21. CASE fini_printk
  BY <1>0, <1>21 DEF fini_printk, script, program
<1>22. CASE fini_user
  BY <1>0, <1>22 DEF fini_user, script, program
<1>23. CASE check
  BY <1>0, <1>23 DEF check, script, program
<1>24. CASE structs
  BY <1>0, <1>24 DEF structs, script, program
<1>25. CASE Interrupt
  BY <1>0, <1>25 DEF Interrupt, script, program
<1>26. CASE OrphanEnds
  BY <1>0, <1>26 DEF OrphanEnds, script, program
<1>27. CASE UNCHANGED vars
  BY <1>0, <1>27 DEF vars, script, program
<1>. QED
  BY <1>1, <1>2, <1>3, <1>4, <1>5, <1>6, <1>7, <1>8, <1>9, <1>10, <1>11, <1>12, <1>13, <1>14,
      <1>15, <1>16, <1>17, <1>18, <1>19, <1>20, <1>21, <1>22, <1>23, <1>24, <1>25, <1>26, <1>27 DEF
      Next, App, Run


\* The inductive invariant holds always.
THEOREM Invariance == Spec => []IInv
<1>1. Init => IInv
  <2> SUFFICES ASSUME Init PROVE IInv
    OBVIOUS
  <2>1. TypeOK
    <3>1. {sent, left, drv, devs} \subseteq BOOLEAN
      BY Zenon DEF Init
    <3>2. {before, host} \subseteq [printk : {"7", "4"}, core : Patterns \union {"core.host"}, user : BOOLEAN]
      BY DEF Init
    <3>. QED
      BY <3>1, <3>2 DEF Init, TypeOK, Place
  <2>2. HostInv
    BY DEF Init, HostInv, Judged, StartPlace, RunPlace, FiniPlace
  <2>3. ProgInv /\ DrvInv /\ VerdictInv
    BY DEF Init, ProgInv, DrvInv, VerdictInv, Alive, Judged, StartPlace, RunPlace, FiniPlace, Dead
  <2>. QED
    BY <2>1, <2>2, <2>3 DEF IInv
<1>2. IInv /\ [Next]_vars => IInv'
  BY TypeStep, HostStep, ProgStep, DrvStep, VerdictStep DEF IInv
<1>. QED
  BY <1>1, <1>2, PTL DEF Spec

\* Types, whatever run.sh and its programs do.
THEOREM TypeCorrect == Spec => []TypeOK
  BY Invariance, PTL DEF IInv

\* run.sh passes a test exactly if its program did what the check is for and the kernel forgot it, for any
\* history of tests, each killed anywhere.
THEOREM VerdictsAreExact == Spec => []VerdictIsExact
<1>1. IInv => VerdictIsExact
  BY DEF IInv, VerdictInv, VerdictIsExact, Judged
<1>. QED
  BY <1>1, Invariance, PTL

\* A run of run.sh that was not killed leaves printk, core_pattern and users as it found them, for any
\* core_pattern of the host but those that begin with a pipe and unless userdel failed in this very run.
THEOREM HostIsRestored == Spec => []HostRestored
<1>1. IInv => HostRestored
  BY DEF IInv, TypeOK, HostInv, HostRestored, Judged
<1>. QED
  BY <1>1, Invariance, PTL

\* A test that asked for the driver has it, with its device files, as long as it runs, unless it was not
\* loaded and the insmod of this very run failed; then there are no device files either.
THEOREM DriverAlwaysServes == Spec => []DriverServes
<1>1. IInv => DriverServes
  BY DEF IInv, ProgInv, DrvInv, DriverServes
<1>. QED
  BY <1>1, Invariance, PTL
=============================================================================
