------------------------------ MODULE RunTest ------------------------------
(***************************************************************************)
(* One autotest script after another: util/run.sh with init.sh, fini.sh    *)
(* and the per-test scripts of init/, exec/, fini/ and check/, around the  *)
(* test program test_mck (test_mck.c: setup, run, teardown, RESULT line)   *)
(* on the kernel under test.                                               *)
(*                                                                         *)
(* A test is the control its scripts give it; a process ends as the kernel *)
(* lets it.  The script may be killed anywhere: its test program then      *)
(* stays behind as an orphan, and the host as it was.                      *)
(***************************************************************************)
EXTENDS Naturals

CONSTANTS
  Tests,      \* the tests that are run
  Patterns,   \* core_pattern of the host before all tests
  Faults,     \* commands that may fail: insmod, userdel
  Interrupts  \* places where run.sh may be killed

\* How the scripts treat a test: exec/<test>.sh, the driver in init/ and fini/, check/.
Test == [
  getppid     |-> [exec |-> "eval", insmod |-> FALSE, rmmod |-> FALSE, check |-> "result"],
  mem_limits  |-> [exec |-> "eval", insmod |-> FALSE, rmmod |-> FALSE, check |-> "segv"],
  execve      |-> [exec |-> "eval", insmod |-> FALSE, rmmod |-> FALSE, check |-> "last_line"],
  ptrace      |-> [exec |-> "eval", insmod |-> TRUE, rmmod |-> FALSE, check |-> "result"],
  mmap_dev    |-> [exec |-> "eval", insmod |-> TRUE, rmmod |-> TRUE, check |-> "result"],
  force_exit  |-> [exec |-> "kill", insmod |-> TRUE, rmmod |-> TRUE, check |-> "structs"],
  siginfo     |-> [exec |-> "signals", insmod |-> FALSE, rmmod |-> FALSE, check |-> "result"],
  freeze_thaw |-> [exec |-> "wait", insmod |-> FALSE, rmmod |-> FALSE, check |-> "output"]]

ASSUME TestsAssumption == Tests \subseteq DOMAIN Test /\ Faults \subseteq {"insmod", "userdel"}
                          /\ Patterns \subseteq {"core", "|handler"}

VARIABLES
  pc,        \* next step of run.sh, or "idle"
  test,      \* $testname
  exit,      \* how the last run.sh ended
  before,    \* the host when it started
  orig,      \* $orig_printk_setting, $orig_core_pattern, $addusr
  pid,       \* $pid of exec/wait.sh
  rc,        \* the verdict so far
  exit_status,
  failed,    \* history: the commands of Faults that have failed in this run
  app,       \* where the test program is, or how it ended
  res,       \* what its run() has returned
  lines,     \* RESULT lines of $recordfile
  sent,      \* siginfo_send_signal has reached it
  orphan,    \* the test whose program an earlier run.sh has left running, or "none"
  left,      \* the kernel keeps process or thread structures
  host,      \* [printk, core, user]
  drv, devs  \* the test driver is loaded; /dev/test_mck is there

script == <<test, before, orig, pid, rc, exit_status, failed>>
program == <<app, res, lines, sent>>
vars == <<pc, exit, script, program, orphan, left, host, drv, devs>>

Alive == app \in {"setup", "run", "teardown", "print"}
T == Test[test]

Init ==
  /\ pc = "idle" /\ exit = "none" /\ test \in Tests
  /\ \E p \in Patterns, u \in BOOLEAN : host = [printk |-> "7", core |-> p, user |-> u]
  /\ before = host /\ orig = [printk |-> "none", core |-> "none", addusr |-> FALSE]
  /\ pid = "none" /\ rc = 0 /\ exit_status = "none" /\ failed = {}
  /\ app = "none" /\ res = "none" /\ lines = {} /\ sent = FALSE /\ orphan = "none" /\ left = FALSE
  /\ drv = FALSE /\ devs = FALSE

-----------------------------------------------------------------------------
(* test_mck.c *)

\* setup() and run() of the test case: what they return is up to the kernel under test.
AppSetup ==
  /\ app = "setup" /\ app' = "run"
  /\ UNCHANGED <<pc, exit, script, res, lines, sent, orphan, left, host, drv, devs>>

\* force_exit runs until it is killed, siginfo until it has all the signals.
AppRun ==
  /\ app = "run" /\ T.exec # "kill" /\ (T.exec = "signals" => sent)
  /\ app' = "teardown" /\ res' \in {"ok", "ng", "skip"}
  /\ UNCHANGED <<pc, exit, script, lines, sent, orphan, left, host, drv, devs>>

\* tp_assert() returns from run() before it has got that far.
AppAssert ==
  /\ app = "run" /\ app' = "teardown" /\ res' = "ng"
  /\ UNCHANGED <<pc, exit, script, lines, sent, orphan, left, host, drv, devs>>

AppTeardown ==
  /\ app = "teardown" /\ app' = "print"
  /\ UNCHANGED <<pc, exit, script, res, lines, sent, orphan, left, host, drv, devs>>

\* RESULT: ok, or the message; exit(); the kernel may keep its structures.
AppPrint ==
  /\ app = "print" /\ app' = "done" /\ lines' = lines \union {res}
  /\ left' \in {left, TRUE}
  /\ UNCHANGED <<pc, exit, script, res, sent, orphan, host, drv, devs>>

\* A test program that a signal ends has printed no RESULT.
AppCrash ==
  /\ app \in {"setup", "run", "teardown"} /\ app' = "segv" /\ left' \in {left, TRUE}
  /\ UNCHANGED <<pc, exit, script, res, lines, sent, orphan, host, drv, devs>>

OrphanEnds ==
  /\ orphan # "none" /\ orphan' = "none" /\ left' \in {left, TRUE}
  /\ UNCHANGED <<pc, exit, script, program, host, drv, devs>>

-----------------------------------------------------------------------------
(* run.sh up to the test *)

start ==
  /\ pc = "idle" /\ pc' = "user" /\ test' \in Tests /\ before' = host
  /\ app' = "none" /\ res' = "none" /\ lines' = {} /\ sent' = FALSE
  /\ orig' = [printk |-> "none", core |-> "none", addusr |-> FALSE]
  /\ pid' = "none" /\ rc' = 0 /\ exit_status' = "none" /\ failed' = {}
  /\ UNCHANGED <<exit, orphan, left, host, drv, devs>>

init_user ==
  /\ pc = "user"
  /\ \/ host.user /\ pc' = "printk" /\ UNCHANGED <<exit, orig, host>>
     \/ ~host.user /\ pc' = "printk" /\ host' = [host EXCEPT !.user = TRUE]
        /\ orig' = [orig EXCEPT !.addusr = TRUE] /\ UNCHANGED exit
     \/ ~host.user /\ pc' = "idle" /\ exit' = "err" /\ UNCHANGED <<orig, host>>
  /\ UNCHANGED <<test, before, pid, rc, exit_status, failed, program, orphan, left, drv, devs>>

init_printk ==
  /\ pc = "printk" /\ pc' = "core"
  /\ orig' = [orig EXCEPT !.printk = host.printk] /\ host' = [host EXCEPT !.printk = "4"]
  /\ UNCHANGED <<exit, test, before, pid, rc, exit_status, failed, program, orphan, left, drv, devs>>

\* Mutant: the setting is changed before it is saved.
init_core_late ==
  /\ pc = "core" /\ pc' = "init"
  /\ orig' = [orig EXCEPT !.core = "core.host"] /\ host' = [host EXCEPT !.core = "core.host"]
  /\ UNCHANGED <<exit, test, before, pid, rc, exit_status, failed, program, orphan, left, drv, devs>>

init_core ==
  /\ pc = "core" /\ pc' = "init"
  /\ orig' = [orig EXCEPT !.core = host.core] /\ host' = [host EXCEPT !.core = "core.host"]
  /\ UNCHANGED <<exit, test, before, pid, rc, exit_status, failed, program, orphan, left, drv, devs>>

\* Mutant: a driver that is loaded already is taken for ready.
init_test_loaded ==
  /\ pc = "init" /\ pc' = "exec"
  /\ drv' = (drv \/ T.insmod) /\ devs' = IF drv THEN devs ELSE T.insmod
  /\ UNCHANGED <<exit, script, program, orphan, left, host>>

\* init/<test>.sh: insmod_test_drv.sh goes on to the device files when insmod fails: they are
\* made if that was because the driver is still there, and there are none if it is not.
init_test ==
  /\ pc = "init" /\ pc' = "exec"
  /\ \/ drv' = (drv \/ T.insmod) /\ UNCHANGED failed
     \/ "insmod" \in Faults /\ T.insmod /\ ~drv /\ failed' = failed \union {"insmod"} /\ UNCHANGED drv
  /\ devs' = (devs \/ (T.insmod /\ drv'))
  /\ UNCHANGED <<exit, test, before, orig, pid, rc, exit_status, program, orphan, left, host>>

-----------------------------------------------------------------------------
(* exec/: the test in the foreground, or in the background *)

exec ==
  /\ pc = "exec" /\ app' = "setup"
  /\ pc' = CASE T.exec = "eval" -> "tee" [] T.exec = "kill" -> "kill"
             [] T.exec = "signals" -> "signals" [] T.exec = "wait" -> "wait_pid"
  /\ UNCHANGED <<exit, script, res, lines, sent, orphan, left, host, drv, devs>>

Kill == app' = (IF Alive THEN "killed" ELSE app) /\ orphan' = "none" /\ left' \in {left, TRUE}

\* kill -9 `pidof mcexec`
exec_kill ==
  /\ pc = "kill" /\ pc' = "tee" /\ Kill
  /\ UNCHANGED <<exit, script, res, lines, sent, host, drv, devs>>

\* siginfo_send_signal `pidof mcexec`: to the first pid, whichever that is.  The signals
\* end a program that has no handlers yet.
exec_signals ==
  /\ pc = "signals" /\ pc' = "tee"
  /\ \/ Alive /\ sent' = TRUE
        /\ IF app = "setup" THEN app' = "killed" /\ left' \in {left, TRUE} ELSE UNCHANGED <<app, left>>
     \/ (Alive => orphan # "none") /\ UNCHANGED <<sent, app, left>>
  /\ UNCHANGED <<exit, script, res, lines, orphan, host, drv, devs>>

\* pid=`pidof mcexec`: one pid, none, or two
wait_pid ==
  /\ pc = "wait_pid" /\ pc' = "wait_loop"
  /\ pid' = IF orphan # "none" THEN IF Alive THEN "two" ELSE "orphan" ELSE IF Alive THEN "app" ELSE "none"
  /\ UNCHANGED <<exit, test, before, orig, rc, exit_status, failed, program, orphan, left, host, drv, devs>>

\* Mutant: the test is the wrong way round.
wait_loop_inverted ==
  /\ pc = "wait_loop" /\ pid = "app" /\ Alive
  /\ pc' = "tee" /\ UNCHANGED <<exit, script, program, orphan, left, host, drv, devs>>

\* while true; [ ! -e /proc/$pid ]: true neither of /proc/ nor of two arguments
wait_loop ==
  /\ pc = "wait_loop" /\ ((pid = "app" /\ ~Alive) \/ (pid = "orphan" /\ orphan = "none"))
  /\ pc' = "tee" /\ UNCHANGED <<exit, script, program, orphan, left, host, drv, devs>>

\* Mutant: nothing holds the script back until the program has ended.
tee_early ==
  /\ pc = "tee" /\ pc' = "fini"
  /\ exit_status' = app
  /\ UNCHANGED <<exit, test, before, orig, pid, rc, failed, program, orphan, left, host, drv, devs>>

\* | tee $recordfile ends when the last program that writes to it has ended.
tee ==
  /\ pc = "tee" /\ ~Alive /\ pc' = "fini"
  /\ exit_status' = IF T.exec = "eval" THEN app ELSE exit_status
  /\ UNCHANGED <<exit, test, before, orig, pid, rc, failed, program, orphan, left, host, drv, devs>>

-----------------------------------------------------------------------------
(* fini/, fini.sh, and the verdict *)

\* rmmod_test_drv.sh: the files go, the module only if no program has a device open.
HasDevice == (Alive /\ T.insmod) \/ (orphan # "none" /\ Test[orphan].insmod)

fini_test ==
  /\ pc = "fini" /\ pc' = "fini_kill"
  /\ devs' = (devs /\ ~T.rmmod) /\ drv' = (drv /\ (T.rmmod => HasDevice))
  /\ UNCHANGED <<exit, script, program, orphan, left, host>>

fini_kill ==
  /\ pc = "fini_kill" /\ pc' = "fini_core" /\ Kill
  /\ UNCHANGED <<exit, script, res, lines, sent, host, drv, devs>>

\* bash -c "echo $orig_core_pattern > ...": with a pattern that starts with a pipe the
\* output of echo goes there, and nothing is written.
fini_core ==
  /\ pc = "fini_core" /\ pc' = "fini_printk"
  /\ host' = IF orig.core = "|handler" THEN host ELSE [host EXCEPT !.core = orig.core]
  /\ UNCHANGED <<exit, script, program, orphan, left, drv, devs>>

fini_printk ==
  /\ pc = "fini_printk" /\ pc' = "fini_user" /\ host' = [host EXCEPT !.printk = orig.printk]
  /\ UNCHANGED <<exit, script, program, orphan, left, drv, devs>>

\* userdel of a user that init.sh has added; that it failed is only printed.
fini_user ==
  /\ pc = "fini_user" /\ pc' = "check"
  /\ \/ host' = [host EXCEPT !.user = @ /\ ~orig.addusr] /\ UNCHANGED failed
     \/ "userdel" \in Faults /\ orig.addusr /\ failed' = failed \union {"userdel"} /\ UNCHANGED host
  /\ UNCHANGED <<exit, test, before, orig, pid, rc, exit_status, program, orphan, left, drv, devs>>

\* Mutant: a program without a RESULT line is no failure.
result_is_ok_empty == "skip" \in lines \/ lines \subseteq {"ok"}

\* check/result_is_ok.sh
result_is_ok == lines # {} /\ ("skip" \in lines \/ lines \subseteq {"ok"})

\* check/<test>.sh; last_line.sh compares with the Linux run, which was good, and
\* freeze_thaw.000.sh looks for what run() prints at its end.
check ==
  /\ pc = "check" /\ pc' = "structs"
  /\ rc' = IF CASE T.check = "result" -> result_is_ok
                [] T.check = "last_line" -> lines = {"ok"}
                [] T.check = "output" -> res = "ok"
                [] T.check = "segv" -> exit_status = "segv"
                [] T.check = "structs" -> ~left
           THEN 0 ELSE 1
  /\ UNCHANGED <<exit, test, before, orig, pid, exit_status, failed, program, orphan, left, host, drv, devs>>

\* ihkosctl 0 ioctl 40000000: structures that remain make any test fail.
structs ==
  /\ pc = "structs" /\ pc' = "idle" /\ exit' = IF rc = 1 \/ left THEN "fail" ELSE "pass"
  /\ UNCHANGED <<script, program, orphan, left, host, drv, devs>>

Interrupt ==
  /\ pc \in Interrupts /\ pc' = "idle" /\ exit' = "killed"
  /\ app' = (IF Alive THEN "gone" ELSE app)
  /\ orphan' \in (IF Alive THEN {orphan, test} ELSE {orphan})   \* one orphan at most
  /\ UNCHANGED <<script, res, lines, sent, left, host, drv, devs>>

-----------------------------------------------------------------------------
App == AppSetup \/ AppRun \/ AppTeardown \/ AppPrint
Run == init_user \/ init_printk \/ init_core \/ init_test \/ exec \/ exec_kill \/ exec_signals \/ wait_pid
       \/ wait_loop \/ tee \/ fini_test \/ fini_kill \/ fini_core \/ fini_printk \/ fini_user \/ check \/ structs

Next == start \/ App \/ AppAssert \/ AppCrash \/ Run \/ Interrupt \/ OrphanEnds
Spec == Init /\ [][Next]_vars
\* The script and the test program go on when they can.
FairSpec == Spec /\ WF_vars(App) /\ WF_vars(Run)

-----------------------------------------------------------------------------
(* Correctness *)

Place == {"user", "printk", "core", "init", "exec", "tee", "kill", "signals", "wait_pid", "wait_loop", "fini",
          "fini_kill", "fini_core", "fini_printk", "fini_user", "check", "structs"}

\* Types.
TypeOK ==
  /\ pc \in Place \union {"idle"} /\ test \in Tests /\ exit \in {"none", "err", "killed", "pass", "fail"}
  /\ {before, host} \subseteq [printk : {"7", "4"}, core : Patterns \union {"core.host"}, user : BOOLEAN]
  /\ orig.addusr \in BOOLEAN /\ pid \in {"none", "app", "orphan", "two"} /\ rc \in 0..1
  /\ app \in {"none", "setup", "run", "teardown", "print", "done", "segv", "killed", "gone"}
  /\ res \in {"none", "ok", "ng", "skip"} /\ lines \subseteq {res} \ {"none"}
  /\ exit_status \in {"none", "done", "segv", "killed"}
  /\ failed \subseteq {"insmod", "userdel"}
  /\ orphan \in Tests \union {"none"} /\ {sent, left, drv, devs} \subseteq BOOLEAN

\* The test program did what its check asks for (force_exit: nothing), and the kernel
\* has forgotten it and all programs before it.
Good ==
  /\ ~left
  /\ CASE T.check = "result" -> app = "done" /\ res \in {"ok", "skip"}
       [] T.check = "last_line" -> app = "done" /\ res = "ok"
       [] T.check = "output" -> res = "ok"
       [] T.check = "segv" -> app = "segv"
       [] T.check = "structs" -> TRUE

\* run.sh passes a test exactly when its program did what the check is for: no verdict
\* comes from a program that has not finished, or that crashed.
VerdictIsExact == pc = "idle" /\ exit \in {"pass", "fail"} => (exit = "pass" <=> Good)

\* A run.sh that was not killed leaves the host's printk and core_pattern settings and its
\* users as it found them, whatever earlier runs left, but for a core_pattern that begins
\* with a pipe and a user that userdel could not remove.
HostRestored ==
  pc = "idle" /\ exit \in {"pass", "fail"} =>
    /\ host.printk = before.printk
    /\ before.core # "|handler" => host.core = before.core
    /\ "userdel" \notin failed => host.user = before.user

\* The core_pattern that fini.sh says it restores is the one the run has found.
CoreRestored == pc = "idle" /\ exit \in {"pass", "fail"} => host.core = before.core

\* While a test that asked for the driver runs, the driver and its files are there,
\* whatever earlier tests did not unload, could not unload or were killed over.  Only if
\* this run found no driver and could not load it the test runs without, and then without
\* device files of a driver that is gone.
DriverServes == Alive /\ T.insmod => devs = drv /\ (drv \/ "insmod" \in failed)

\* run.sh ends, unless an orphan is about, or the program was gone before exec/wait.sh
\* looked for it.
RunEnds ==
  (pc # "idle") ~> \/ pc = "idle"
                   \/ pc = "wait_loop" /\ pid \in {"none", "two", "orphan"}
                   \/ pc = "tee" /\ T.exec = "signals" /\ ~sent

\* exec/wait.sh ends when the program it waits for has ended.
WaitEnds == (pc = "wait_loop") ~> (pc # "wait_loop")
=============================================================================
