------------------------------- MODULE Sched -------------------------------
(***************************************************************************)
(* A test of the affinity, yield, time sharing or CPU limit suites at      *)
(* work: the process P of RUN_FUNC() and its children on ncpu CPUs.        *)
(*                                                                         *)
(* The kernel is external.  On a "coop" kernel, McKernel as it is booted   *)
(* by default, a CPU keeps its task until the task blocks, sleeps, yields  *)
(* or ends, and a task that spins keeps it too.  On a "share" kernel       *)
(* (time sharing) all tasks of a CPU make progress.  A child inherits the  *)
(* affinity of its creator and starts on a CPU of it with the fewest       *)
(* tasks; a task that may no longer stay on its CPU is moved by the call   *)
(* that says so.  A signal takes effect when it is sent.  The kernel is    *)
(* good except for the one thing named by `fault'.                         *)
(***************************************************************************)
EXTENDS SchedProgs

CONSTANTS
  MaxCpus,    \* the largest machine
  Cases       \* records of a test, a fault, a kind of kernel and a value n of -p (-c for the limits);
              \* 0 stands for a test started without it, on one CPU

Task == {"P", "C1", "C2", "C3"}
Child == Task \ {"P"}
Pipes == {"c2p", "fd1", "fd2", "down1", "down2", "down3", "up1", "up2", "up3"}
Sems == {"sem1", "sem2", "sync1", "sync2", "start1", "start2"}
Resources == {"alloc", "calloc", "open", "ioctl", "mmap", "fopen", "execve", "setpgid", "setrlimit"}
Faults == Resources \union {"fork", "create", "pipe", "refuse", "getrefuse", "lax", "nomove", "wrongtask", "noinherit", "badyield"}

\* set011 and the pthread suites go on with garbage when pipe() or pthread_create() fails.
Undefined(c) == c.test \in {"set011", "pthread_set", "pthread_get"} /\ c.fault \in {"pipe", "create"}

ASSUME CasesAssumption ==
  /\ MaxCpus \in Nat \ {0}
  /\ \A c \in Cases : /\ c.n \in 0..MaxCpus /\ c.test \in DOMAIN Suite(0) /\ c.fault \in {"none"} \union Faults /\ c.kind \in {"coop", "share"}
                      /\ ~Undefined(c)

VARIABLES
  test, T, num_of_cpus, kind, fault,   \* the test, its programs, -p, the kernel
  pc, alt,     \* the step each task is at, and the step of its orelse or 0
  reg,         \* its locals
  life,        \* "unborn", "alive", "asleep", "done" or "killed"
  val,         \* exit value
  threads,     \* the children made by pthread_create()
  aff, cpu,    \* the affinity and the CPU of each task
  run,         \* the task each CPU of a coop kernel runs
  hand,        \* signals with a handler: sig -> "none", "once" or "always"
  sig,         \* sig_count, as a Boolean
  pipe,        \* contents, and the processes that hold the read end and the write end
  sem,
  flag, mapped, core,   \* shared memory: order_flag, running_flag or threads_barrier; *parent_core
  waiting,     \* threads whose waiting is 1
  block,       \* the block child[] of cpu_thread_limits
  stray,       \* history: the block was accessed after it was freed
  log,         \* lines of time_sharing
  end          \* what RUN_FUNC() returned

chosen == <<test, T, num_of_cpus, kind, fault>>
where == <<aff, cpu, run>>
signals == <<hand, sig>>
channels == <<pipe, sem>>
memory == <<flag, mapped, core, waiting, block, stray, log>>
vars == <<chosen, pc, alt, reg, life, val, threads, where, signals, channels, memory, end>>

ncpu == IF num_of_cpus = 0 THEN 1 ELSE num_of_cpus
CPU == 0..(ncpu - 1)

Init ==
  /\ \E c \in Cases : test = c.test /\ fault = c.fault /\ kind = c.kind /\ num_of_cpus = c.n /\ T = Suite(c.n)[c.test]
  /\ pc = [t \in Task |-> 1] /\ alt = [t \in Task |-> 0]
  /\ reg = [t \in Task |-> [cpu |-> -1, new |-> -1, got |-> -1, got2 |-> -1, own |-> {}, its |-> {}, result |-> "none", i |-> 0]]
  /\ life = [t \in Task |-> IF t = "P" THEN "alive" ELSE "unborn"]
  /\ val = [t \in Task |-> 0] /\ threads = {}
  /\ aff = [t \in Task |-> CPU]
  /\ \E c \in CPU : cpu = [t \in Task |-> c]
  /\ run = [c \in CPU |-> IF c = cpu["P"] THEN "P" ELSE "idle"]
  /\ hand = [t \in Task |-> [s \in {"USR1", "USR2"} |-> "none"]] /\ sig = [t \in Task |-> FALSE]
  /\ pipe = [p \in Pipes |-> [q |-> <<>>, r |-> {}, w |-> {}]] /\ sem = [s \in Sems |-> 0]
  /\ flag = 0 /\ mapped = TRUE /\ core = -1 /\ waiting = {} /\ block = "live" /\ stray = FALSE /\ log = <<>>
  /\ end = "none"

-----------------------------------------------------------------------------
(* The scheduler, external *)

Alive(t) == life[t] \in {"alive", "asleep"}
S(t) == IF alt[t] = 0 THEN T[t][pc[t]] ELSE T[t][pc[t]].orelse[alt[t]]

\* The task waits in the kernel, without its CPU.
Blocked(t) ==
  \/ S(t).op = "wait" /\ sem[S(t).s] = 0
  \/ S(t).op = "read" /\ pipe[S(t).p].q = <<>> /\ pipe[S(t).p].w # {}
  \/ S(t).op = "waitpid" /\ Alive(S(t).who)
Runnable(t, c) == t # "idle" /\ life[t] = "alive" /\ cpu[t] = c /\ ~Blocked(t)
Runs(t) == life[t] = "alive" /\ (kind = "share" \/ run[cpu[t]] = t)

Dispatch(t) ==
  LET c == cpu[t] IN
  /\ kind = "coop" /\ Runnable(t, c) /\ ~(run[c] # "idle" /\ Runnable(run[c], c))
  /\ run' = [run EXCEPT ![c] = t]
  /\ UNCHANGED <<chosen, pc, alt, reg, life, val, threads, aff, cpu, signals, channels, memory, end>>

Wake(t) ==
  /\ life[t] = "asleep" /\ life' = [life EXCEPT ![t] = "alive"]
  /\ UNCHANGED <<chosen, pc, alt, reg, val, threads, where, signals, channels, memory, end>>

Load(c) == Cardinality({t \in Task : Alive(t) /\ cpu[t] = c})
Least(cs) == {c \in cs : \A d \in cs : Load(c) <= Load(d)}

\* pipe[] without the ends that process t holds
Dropped(t) == [p \in Pipes |-> [pipe[p] EXCEPT !.r = @ \ {t}, !.w = @ \ {t}]]

-----------------------------------------------------------------------------
(* Steps of a task *)

At(t, op) == Runs(t) /\ S(t).op = op
Rest(t) ==
  /\ pc' = [pc EXCEPT ![t] = IF alt[t] = 0 THEN @ + 1 ELSE @]
  /\ alt' = [alt EXCEPT ![t] = IF @ = 0 THEN 0 ELSE @ + 1]
Else(t) == alt' = [alt EXCEPT ![t] = 1] /\ UNCHANGED pc
Assert(t, b) == IF b THEN Rest(t) ELSE Else(t)
Put(t, r, v) == reg' = [reg EXCEPT ![t][r] = v]

\* tp_assert() on num_of_cpus
NeedCpus(t) ==
  /\ At(t, "need") /\ Assert(t, num_of_cpus >= S(t).k)
  /\ UNCHANGED <<chosen, reg, life, val, threads, where, signals, channels, memory, end>>

\* A library or system call that either works or fails, and the assertion on it
TryCall(t) ==
  /\ At(t, "try")
  /\ Rest(t) \/ (fault = S(t).what /\ Else(t))
  /\ UNCHANGED <<chosen, reg, life, val, threads, where, signals, channels, memory, end>>

get_cpu_id(t) ==
  /\ At(t, "getcpu") /\ Put(t, S(t).r, cpu[t]) /\ Rest(t)
  /\ UNCHANGED <<chosen, life, val, threads, where, signals, channels, memory, end>>

\* Mutant: only the parent's CPU is avoided.
get_migrate_target_cpuid_near(parent, child) == Max({c \in CPU : c # parent} \union {-1})
\* get_migrate_target_cpuid(): down from the last CPU, past the parent and the child; negative if there is none
get_migrate_target_cpuid(parent, child) == Max({c \in CPU : c # parent /\ c # child} \union {-1})
\* What 009 does in its place
migrate_cpu(parent, child) ==
  IF ncpu - 1 # child THEN ncpu - 1 ELSE IF ncpu - 2 # parent THEN ncpu - 2 ELSE ncpu - 3

\* The mask a test builds
Mask(t) ==
  LET m == S(t).mask IN
  CASE m = "own" -> reg[t].own
    [] m = "empty" -> {}
    [] m = "cpu" -> {reg[t].cpu}
    [] m = "got" -> {reg[t].got}
    [] m = "max" -> {ncpu - 1}
    [] m = "last" -> {IF ncpu - 1 = reg[t].cpu THEN ncpu - 2 ELSE ncpu - 1}
    [] m = "third" -> {get_migrate_target_cpuid(reg[t].cpu, reg[t].got)}
    [] m = "other" -> {migrate_cpu(reg[t].cpu, reg[t].got)}

Target(t) == IF S(t).who = "self" THEN t ELSE S(t).who
Nobody(u) == u = "nobody" \/ ~Alive(u)
SetError(t) ==
  IF fault = "refuse" THEN "ENOSYS"
  ELSE IF fault = "lax" THEN "ok"
  ELSE IF Nobody(Target(t)) THEN "ESRCH"
  ELSE IF S(t).ptr = "invalid" THEN "EFAULT"
  ELSE IF S(t).size = 0 \/ Mask(t) \intersect CPU = {} THEN "EINVAL" ELSE "ok"

\* sched_setaffinity() and pthread_setaffinity_np(), with the assertion on the result or without
sched_setaffinity(t) ==
  LET err == SetError(t)
      u == IF fault = "wrongtask" THEN t ELSE Target(t)
      done == err = "ok" /\ ~Nobody(u) /\ S(t).ptr = "mem" /\ S(t).size # 0 /\ Mask(t) \intersect CPU # {}
  IN
  /\ At(t, "setaff")
  /\ Put(t, "result", err) /\ Assert(t, S(t).want \in {"kept", err})
  /\ IF done
     THEN /\ aff' = [aff EXCEPT ![u] = Mask(t) \intersect CPU]
          /\ IF cpu[u] \in Mask(t) \/ fault = "nomove" THEN UNCHANGED cpu
             ELSE \E c \in Least(aff'[u]) : cpu' = [cpu EXCEPT ![u] = c]
     ELSE UNCHANGED <<aff, cpu>>
  /\ UNCHANGED <<chosen, life, val, threads, run, signals, channels, memory, end>>

GetError(t) ==
  IF fault = "getrefuse" THEN "ENOSYS"
  ELSE IF fault = "lax" THEN "ok"
  ELSE IF Nobody(Target(t)) THEN "ESRCH"
  ELSE IF S(t).size = 0 \/ S(t).size % LONG # 0 THEN "EINVAL"
  ELSE IF S(t).ptr = "invalid" THEN "EFAULT" ELSE "ok"

\* sched_getaffinity() and pthread_getaffinity_np(), with the assertion
sched_getaffinity(t) ==
  LET err == GetError(t) IN
  /\ At(t, "getaff") /\ Assert(t, err = S(t).want)
  /\ IF err = "ok" /\ ~Nobody(Target(t)) THEN Put(t, S(t).r, aff[Target(t)]) ELSE UNCHANGED reg
  /\ UNCHANGED <<chosen, life, val, threads, where, signals, channels, memory, end>>

\* What an assertion looks at
Holds(t) ==
  LET what == S(t).what
      R == reg[t]
  IN
  CASE what = "stayed" -> R.cpu = R.new
    [] what = "moved" -> R.cpu # R.new
    [] what = "target" -> get_migrate_target_cpuid(R.cpu, R.got) >= 0
    [] what = "unchecked" -> TRUE
    [] what = "migrated" -> R.got # R.got2
    [] what = "result" -> R.result = "ok"
    [] what = "isset" -> R.cpu \in R.own
    [] what = "equal" -> R.own = R.its
    [] what = "another" -> R.own # {R.cpu}
    [] what = "bound" -> R.its = {R.cpu}
    [] what = "core" -> core # R.cpu => R.cpu # R.new
    [] what = "order" -> flag = 1
    [] what = "value" -> ~(life["C1"] = "done" /\ val["C1"] # 0)    \* WIFEXITED() and WEXITSTATUS(); errmsg

CheckStep(t) ==
  /\ At(t, "check") /\ Assert(t, Holds(t))
  /\ UNCHANGED <<chosen, reg, life, val, threads, where, signals, channels, memory, end>>

-----------------------------------------------------------------------------
(* Children *)

Born(t, c) ==
  /\ life' = [life EXCEPT ![c] = "alive"] /\ Rest(t)
  /\ \E d \in Least(aff[t]) :
       /\ cpu' = [cpu EXCEPT ![c] = d]
       /\ aff' = [aff EXCEPT ![c] = IF fault = "noinherit" THEN {d} ELSE aff[t]]
  /\ UNCHANGED run

fork(t) ==
  LET c == S(t).who IN
  /\ At(t, "fork")
  /\ \/ /\ Born(t, c)
        /\ hand' = [hand EXCEPT ![c] = hand[t]] /\ sig' = [sig EXCEPT ![c] = sig[t]]
        /\ pipe' = [p \in Pipes |-> [pipe[p] EXCEPT !.r = IF t \in @ THEN @ \union {c} ELSE @,
                                                    !.w = IF t \in @ THEN @ \union {c} ELSE @]]
     \/ fault = "fork" /\ Else(t) /\ UNCHANGED <<life, where, signals, pipe>>
  /\ UNCHANGED <<chosen, reg, val, threads, sem, memory, end>>

pthread_create(t) ==
  LET c == S(t).who IN
  /\ At(t, "create")
  /\ \/ Born(t, c) /\ threads' = threads \union {c}
     \/ fault = "create" /\ Rest(t) /\ UNCHANGED <<life, where, threads>>
  /\ UNCHANGED <<chosen, reg, val, signals, channels, memory, end>>

\* child[ith].iret of all threads
AllCreated(t) ==
  /\ At(t, "created") /\ Assert(t, threads = {"C1", "C2"})
  /\ UNCHANGED <<chosen, reg, life, val, threads, where, signals, channels, memory, end>>

\* waitpid(), wait(), pthread_join()
WaitFor(t) ==
  /\ At(t, "waitpid") /\ ~Blocked(t) /\ Rest(t)
  /\ UNCHANGED <<chosen, reg, life, val, threads, where, signals, channels, memory, end>>

\* _exit() of a child, the return of a thread
ExitStep(t) ==
  /\ At(t, "exit") /\ Rest(t)
  /\ life' = [life EXCEPT ![t] = "done"] /\ val' = [val EXCEPT ![t] = S(t).v]
  /\ pipe' = IF t \in threads THEN pipe ELSE Dropped(t)
  /\ UNCHANGED <<chosen, reg, threads, where, signals, sem, memory, end>>

\* P returns or dies: its threads end with it, the other children stay.
Over(v) ==
  /\ end' = v
  /\ life' = [t \in Task |-> IF t = "P" \/ (t \in threads /\ Alive(t)) THEN (IF v = "dead" THEN "killed" ELSE "done") ELSE life[t]]
  /\ pipe' = Dropped("P")

\* The return of RUN_FUNC(); main() reports it, calls TEARDOWN_FUNC() and exits.
ReturnStep(t) ==
  /\ At(t, "return") /\ Rest(t) /\ Over(S(t).v)
  /\ UNCHANGED <<chosen, reg, val, threads, where, signals, sem, memory>>

-----------------------------------------------------------------------------
(* Signals *)

sigaction(t) ==
  /\ At(t, "sigaction") /\ Rest(t)
  /\ hand' = [hand EXCEPT ![t][S(t).sig] = IF S(t).once THEN "once" ELSE "always"]
  /\ UNCHANGED <<chosen, reg, life, val, threads, where, sig, channels, memory, end>>

\* kill(): the handler counts, and is reset if SA_RESETHAND says so; without a handler the process ends
kill(t) ==
  LET u == S(t).who
      s == S(t).sig
      handled == s # "KILL" /\ hand[u][s] # "none"
  IN
  /\ At(t, "kill") /\ Rest(t)
  /\ IF u = "nobody" \/ ~Alive(u) THEN UNCHANGED <<life, signals, pipe, end>>
     ELSE IF handled
     THEN /\ sig' = [sig EXCEPT ![u] = TRUE]
          /\ hand' = IF hand[u][s] = "once" THEN [hand EXCEPT ![u][s] = "none"] ELSE hand
          /\ UNCHANGED <<life, pipe, end>>
     ELSE /\ life' = [life EXCEPT ![u] = "killed"] /\ pipe' = Dropped(u)
          /\ end' = IF u = "P" THEN "dead" ELSE end
          /\ UNCHANGED signals
  /\ UNCHANGED <<chosen, reg, val, threads, where, sem, memory>>

\* cpu_pause() until what is waited for is seen
spin(t) ==
  LET s == S(t) IN
  /\ At(t, "spin")
  /\ CASE s.on = "sig" -> sig[t]
       [] s.on = "flag" -> flag = s.k
       [] s.on = "waiting" -> waiting = {"C1", "C2"}
  /\ Rest(t)
  /\ UNCHANGED <<chosen, reg, life, val, threads, where, signals, channels, memory, end>>

-----------------------------------------------------------------------------
(* Pipes, semaphores, shared memory *)

MakePipe(t) ==
  /\ At(t, "pipe")
  /\ \/ Rest(t) /\ pipe' = [pipe EXCEPT ![S(t).p] = [q |-> <<>>, r |-> {t}, w |-> {t}]]
     \/ fault = "pipe" /\ Else(t) /\ UNCHANGED pipe
  /\ UNCHANGED <<chosen, reg, life, val, threads, where, signals, sem, memory, end>>

write(t) ==
  /\ At(t, "write") /\ Rest(t)
  /\ pipe' = [pipe EXCEPT ![S(t).p].q = Append(@, reg[t][S(t).r])]
  /\ UNCHANGED <<chosen, reg, life, val, threads, where, signals, sem, memory, end>>

read(t) ==
  LET p == S(t).p IN
  /\ At(t, "read") /\ ~Blocked(t)
  /\ IF pipe[p].q # <<>>
     THEN Rest(t) /\ Put(t, S(t).r, Head(pipe[p].q)) /\ pipe' = [pipe EXCEPT ![p].q = Tail(@)]
     ELSE (IF S(t).orelse = <<>> THEN Rest(t) ELSE Else(t)) /\ UNCHANGED <<reg, pipe>>
  /\ UNCHANGED <<chosen, life, val, threads, where, signals, sem, memory, end>>

close(t) ==
  /\ At(t, "close") /\ Rest(t)
  /\ pipe' = [p \in Pipes |-> [pipe[p] EXCEPT !.r = IF p \in S(t).r THEN @ \ {t} ELSE @,
                                              !.w = IF p \in S(t).w THEN @ \ {t} ELSE @]]
  /\ UNCHANGED <<chosen, reg, life, val, threads, where, signals, sem, memory, end>>

sem_post(t) ==
  /\ At(t, "post") /\ Rest(t) /\ sem' = [sem EXCEPT ![S(t).s] = @ + 1]
  /\ UNCHANGED <<chosen, reg, life, val, threads, where, signals, pipe, memory, end>>

sem_wait(t) ==
  /\ At(t, "wait") /\ ~Blocked(t) /\ Rest(t) /\ sem' = [sem EXCEPT ![S(t).s] = @ - 1]
  /\ UNCHANGED <<chosen, reg, life, val, threads, where, signals, pipe, memory, end>>

\* mmap() of order_flag or, in time_sharing, of any page: MAP_FAILED goes unnoticed
MapFlagStep(t) ==
  /\ At(t, "mapflag") /\ Rest(t)
  /\ mapped' \in IF fault = "mmap" THEN BOOLEAN ELSE {TRUE}
  /\ UNCHANGED <<chosen, reg, life, val, threads, where, signals, channels, flag, core, waiting, block, stray, log, end>>

\* A store to the flag; through MAP_FAILED it kills the writer.
StoreFlag(t) ==
  /\ At(t, "flag") /\ Rest(t)
  /\ \/ mapped /\ flag' = S(t).k /\ UNCHANGED <<life, pipe, end>>
     \/ ~mapped /\ t = "P" /\ Over("dead") /\ UNCHANGED flag
  /\ UNCHANGED <<chosen, reg, val, threads, where, signals, sem, mapped, core, waiting, block, stray, log>>

StoreCore(t) ==
  /\ At(t, "core") /\ Rest(t) /\ core' = reg[t].cpu
  /\ UNCHANGED <<chosen, reg, life, val, threads, where, signals, channels, flag, mapped, waiting, block, stray, log, end>>

usleep(t) ==
  /\ At(t, "usleep") /\ Rest(t) /\ life' = [life EXCEPT ![t] = "asleep"]
  /\ UNCHANGED <<chosen, reg, val, threads, where, signals, channels, memory, end>>

\* sched_yield(): another task that can run on this CPU gets it
sched_yield(t) ==
  LET c == cpu[t]
      next == {u \in Task \ {t} : Runnable(u, c)}
  IN
  /\ At(t, "yield") /\ Rest(t)
  /\ IF kind = "share" \/ fault = "badyield" \/ next = {} THEN UNCHANGED run
     ELSE \E u \in next : run' = [run EXCEPT ![c] = u]
  /\ UNCHANGED <<chosen, reg, life, val, threads, aff, cpu, signals, channels, memory, end>>

\* The end of a round of child_func() and parent_func()
NextRound(t) ==
  /\ At(t, "again") /\ Put(t, "i", reg[t].i + 1)
  /\ IF reg[t].i + 1 < ROUNDS THEN pc' = [pc EXCEPT ![t] = @ - S(t).back] /\ UNCHANGED alt ELSE Rest(t)
  /\ UNCHANGED <<chosen, life, val, threads, where, signals, channels, memory, end>>

printf(t) ==
  /\ At(t, "print") /\ Rest(t) /\ log' = Append(log, t)
  /\ UNCHANGED <<chosen, reg, life, val, threads, where, signals, channels, flag, mapped, core, waiting, block, stray, end>>

\* An access to child[], of which waiting = 1 is one
Access(t) ==
  /\ Runs(t) /\ S(t).op \in {"mark", "use"} /\ Rest(t)
  /\ waiting' = IF S(t).op = "mark" THEN waiting \union {t} ELSE waiting
  /\ stray' = (stray \/ block = "freed")
  /\ UNCHANGED <<chosen, reg, life, val, threads, where, signals, channels, flag, mapped, core, block, log, end>>

free(t) ==
  /\ At(t, "free") /\ Rest(t) /\ block' = "freed"
  /\ UNCHANGED <<chosen, reg, life, val, threads, where, signals, channels, flag, mapped, core, waiting, stray, log, end>>

-----------------------------------------------------------------------------
Step(t) ==
  \/ NeedCpus(t) \/ TryCall(t) \/ get_cpu_id(t) \/ sched_setaffinity(t) \/ sched_getaffinity(t) \/ CheckStep(t)
  \/ fork(t) \/ pthread_create(t) \/ AllCreated(t) \/ WaitFor(t) \/ ExitStep(t) \/ ReturnStep(t)
  \/ sigaction(t) \/ kill(t) \/ spin(t)
  \/ MakePipe(t) \/ write(t) \/ read(t) \/ close(t) \/ sem_post(t) \/ sem_wait(t)
  \/ MapFlagStep(t) \/ StoreFlag(t) \/ StoreCore(t) \/ usleep(t) \/ sched_yield(t) \/ NextRound(t) \/ printf(t) \/ Access(t) \/ free(t)

(* The verdict *)

\* The lines of round i, in the order of the record file
Scheduled(i) ==
  LET round(k) == Cardinality({j \in 1..(k - 1) : log[j] = log[k]})
  IN {k \in DOMAIN log : round(k) = i}
\* check/time_sharing.000.sh: rc stays 0.  A comparison with a line that is not there is a syntax error
\* of test, which if takes for false.
order_check ==
  \A i \in 0..(ROUNDS - 1) : \A k \in Scheduled(i) :
    log[k] = IF \E j \in Scheduled(i) : j < k THEN "P" ELSE "C1"
\* run.sh: "ok" is a RESULT of ok; time_sharing, whose RESULT never is, passes if the order is right and
\* ihkosctl finds no process.
Verdict ==
  IF test # "time_sharing" \/ end = "none" THEN end
  ELSE IF order_check /\ \A t \in Task : ~Alive(t) THEN "ok" ELSE "ng"

(* What the tests are made for *)

\* The CPUs a test needs to come to its end, where that is more than what it asks for by itself: three
\* tasks that spin need three CPUs without time sharing; a thread of pthread_setaffinity must find a
\* mask that differs from its own; time_sharing and sched_yield are about one kind of scheduler each.
Suitable ==
  LET want == CASE test \in {"set005", "get001", "sched_yield", "time_sharing"} -> 0
                [] test \in {"set001", "set002", "pthread_set"} -> 2
                [] test \in {"set008", "set009"} -> 3
                [] test \in {"set010", "threads000", "threads001"} -> IF kind = "coop" THEN 3 ELSE 1
                [] OTHER -> 1
  IN /\ num_of_cpus >= want
     /\ test = "time_sharing" => kind = "share"
     /\ test = "sched_yield" => kind = "coop"
Good == fault = "none" /\ Suitable

\* A test that is over stays so; on a kernel that is not good it may also wait for ever.
Stays == (end # "none" \/ ~Good) /\ UNCHANGED vars

Next == (\E t \in Task : Step(t) \/ Dispatch(t) \/ Wake(t)) \/ Stays
Fairness == \A t \in Task : WF_vars(Step(t)) /\ WF_vars(Dispatch(t)) /\ WF_vars(Wake(t))
Spec == Init /\ [][Next]_vars /\ Fairness

-----------------------------------------------------------------------------
(* Correctness *)

\* Every variable keeps its type; a semaphore and the steps of a live task never run out.
TypeOK ==
  /\ \A t \in Task : /\ life[t] \in {"unborn", "alive", "asleep", "done", "killed"} /\ val[t] \in {0, 1}
                     /\ aff[t] \subseteq CPU /\ cpu[t] \in CPU
                     /\ pc[t] \in 1..(Len(T[t]) + 1) /\ (Alive(t) => pc[t] <= Len(T[t]))
  /\ \A c \in CPU : run[c] \in Task \union {"idle"}
  /\ \A s \in Sems : sem[s] \in 0..1
  /\ \A p \in Pipes : pipe[p].r \union pipe[p].w \subseteq {t \in Task : Alive(t)}
  /\ flag \in 0..2 /\ core \in CPU \union {-1} /\ block \in {"live", "freed"}
  /\ end \in {"none", "ok", "ng", "dead", "order"} /\ (end = "none" <=> Alive("P"))

\* The defects each test looks for
Looks ==
  LET set == {"set000", "set001", "set002", "set007", "set008", "set009", "set010", "set011", "set012",
              "pthread_set", "pthread_get", "sched_yield", "time_sharing"}
      get == {"set000", "set012", "get000", "get005", "pthread_set", "pthread_get"}
      errors == {"set003", "set004", "set005", "set006", "get001", "get002", "get003"}
      moves == {"set008", "set009"} \union (IF ncpu > 1 THEN {"sched_yield", "time_sharing"} ELSE {})
  IN \/ fault = "refuse" /\ test \in set
     \/ fault = "getrefuse" /\ test \in get
     \/ fault = "lax" /\ test \in errors
     \/ fault = "nomove" /\ test \in moves \union {"set001"}
     \/ fault = "wrongtask" /\ test \in moves
     \/ fault = "noinherit" /\ test = "get005" /\ ncpu > 1
     \/ fault = "badyield" /\ test = "sched_yield" /\ kind = "coop"

Kernel == IF Good THEN "good" ELSE IF Looks THEN "bad" ELSE "other"
Test == INSTANCE TestPromise WITH Verdicts <- {"ok", "ng", "dead"}, kernel <- Kernel, verdict <- Verdict
\* A test is judged once; on a good kernel with the CPUs it needs it comes to ok however its tasks are
\* scheduled, and on a kernel with the defect it looks for it never does.
Promise == Test!Spec

\* A child is gone for good some time after its test on a good kernel, and cpu_proc_limits leaves none
\* behind whichever pipe() or fork() fails: the end of file goes from the last child to the first.
NothingLeft == Good \/ test = "procs000" => <>[](\A c \in Child : ~Alive(c))

\* The signals that the tests use to wake a task find its handler: none ends the task, but for the child of
\* sched_getaffinity 005, which is to end.
SignalsAreCaught == Good /\ test # "get005" => \A t \in Task : life[t] # "killed"

\* time_sharing prints child, parent, child, parent, ... and all of it by the time it returns.
Alternates ==
  /\ \A k \in DOMAIN log : log[k] = IF k % 2 = 1 THEN "C1" ELSE "P"
  /\ test = "time_sharing" /\ end = "order" => Len(log) = 2 * ROUNDS

\* cpu_thread_limits frees the block of its threads when none of them uses it any more, as long as
\* every pthread_create() succeeds.
FreedLast == fault # "create" => ~stray
=============================================================================
