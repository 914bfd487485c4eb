----------------------------- MODULE SchedProgs -----------------------------
(***************************************************************************)
(* The tests of sched_setaffinity, sched_getaffinity, pthread_setaffinity, *)
(* pthread_getaffinity, sched_yield, time_sharing, cpu_thread_limits and   *)
(* cpu_proc_limits as data: for each the steps of the process P that runs  *)
(* RUN_FUNC() and of the children C1, C2, C3 it forks or creates.  Module  *)
(* Sched runs them on n CPUs.                                              *)
(*                                                                         *)
(* A step that can fail says in orelse what is done instead of the rest.   *)
(* A tp_assert() of P ends the test; one of a child ends the child.        *)
(***************************************************************************)
EXTENDS Integers, Sequences, FiniteSetsExt, Functions

CONSTANTS
  LONG,       \* sizeof(unsigned long)
  ROUNDS      \* rounds of time_sharing, 5 in the code

ASSUME SizesAssumption == LONG \in Nat \ {0, 1} /\ ROUNDS \in Nat \ {0}

Return(v) == [op |-> "return", v |-> v]        \* of RUN_FUNC(), in P
OK == Return("ok")
NG == << Return("ng") >>
Exit(v) == [op |-> "exit", v |-> v]            \* of a child; also the return of a thread
Fail == << Exit(1) >>

Need(k) == [op |-> "need", k |-> k, orelse |-> NG]               \* num_of_cpus, given by -p
TryElse(what, else) == [op |-> "try", what |-> what, orelse |-> else]
Try(what) == TryElse(what, NG)
ForkElse(c, else) == [op |-> "fork", who |-> c, orelse |-> else]
Fork(c) == ForkElse(c, NG)
Create(c) == [op |-> "create", who |-> c]                        \* the result is looked at later
Waitpid(c) == [op |-> "waitpid", who |-> c]                      \* and pthread_join()

Getcpu(r) == [op |-> "getcpu", r |-> r]
\* sched_getaffinity(who, size, ptr) into the mask r
Getaff(who, r, size, ptr, want, else) ==
  [op |-> "getaff", who |-> who, r |-> r, size |-> size, ptr |-> ptr, want |-> want, orelse |-> else]
GetOwn(r, else) == Getaff("self", r, LONG, "mem", "ok", else)
\* sched_setaffinity(who, size, mask); want "kept": result is looked at later
Setaff(who, mask, size, ptr, want, else) ==
  [op |-> "setaff", who |-> who, mask |-> mask, size |-> size, ptr |-> ptr, want |-> want, orelse |-> else]
SetOwn(mask, else) == Setaff("self", mask, LONG, "mem", "ok", else)
CheckElse(what, else) == [op |-> "check", what |-> what, orelse |-> else]
Check(what) == CheckElse(what, NG)

Sigaction(sig, once) == [op |-> "sigaction", sig |-> sig, once |-> once]
Kill(c, sig) == [op |-> "kill", who |-> c, sig |-> sig]
SpinSig == [op |-> "spin", on |-> "sig", k |-> 1]                \* while (sig_count == 0)
SpinFlag(k) == [op |-> "spin", on |-> "flag", k |-> k]
SpinWaiting == [op |-> "spin", on |-> "waiting", k |-> 0]        \* retry:
SetFlag(k) == [op |-> "flag", k |-> k]

Pipe(p, else) == [op |-> "pipe", p |-> p, orelse |-> else]
Write(p, r) == [op |-> "write", p |-> p, r |-> r]
\* orelse: at the end of the file; <<>> goes on
ReadElse(p, r, else) == [op |-> "read", p |-> p, r |-> r, orelse |-> else]
Read(p, r) == ReadElse(p, r, <<>>)
Close(r, w) == [op |-> "close", r |-> r, w |-> w]                \* read ends, write ends
Post(s) == [op |-> "post", s |-> s]
Wait(s) == [op |-> "wait", s |-> s]
Again(n) == [op |-> "again", back |-> n]                         \* the end of a loop, to its first step
Usleep == [op |-> "usleep"]
Yield == [op |-> "yield"]
InLoop == [op |-> "print"]                                        \* "[child] in loop" or "[parent] in loop"
Mark == [op |-> "mark"]                                          \* waiting = 1 in the block of the thread
Use == [op |-> "use"]                                            \* another access to it
Free == [op |-> "free"]
Created == [op |-> "created", orelse |-> << Free, Return("ng") >>]

None == <<>>
With(p, c1) == [P |-> p, C1 |-> c1, C2 |-> None, C3 |-> None]
Alone(p) == With(p, None)

-----------------------------------------------------------------------------
(* sched_setaffinity *)

Set000 == Alone(<< Need(1), Try("alloc"), Getcpu("cpu"), GetOwn("own", NG), SetOwn("own", NG),
                   Getcpu("new"), Check("stayed"), OK >>)
Set001 == Alone(<< Need(2), Try("alloc"), Getcpu("cpu"), SetOwn("last", NG), Getcpu("new"), Check("moved"), OK >>)
Set002 == Alone(<< Getcpu("cpu"), Need(2), Try("alloc"), SetOwn("last", NG), OK >>)
Set003 == Alone(<< Need(1), Setaff("self", "max", LONG, "invalid", "EFAULT", NG), OK >>)
Set004 == Alone(<< Need(1), Try("alloc"), Setaff("self", "max", 0, "mem", "EINVAL", NG), OK >>)
Set005 == Alone(<< Try("alloc"), Setaff("self", "empty", LONG, "mem", "EINVAL", NG), OK >>)
\* the pid found by the loop over kill(pid, 0) is nobody's
Set006 == Alone(<< Need(1), Try("alloc"), Setaff("nobody", "max", LONG, "mem", "ESRCH", NG), OK >>)
\* primitive_ceil()
primitive_ceil(x, y) == (x \div y) + (IF x % y # 0 THEN 1 ELSE 0)
Set007(n) == Alone(<< Need(1), Try("alloc"), Setaff("self", "max", primitive_ceil(n, LONG), "mem", "ok", NG), OK >>)

\* Mutant: the child runs on into the code of its parent.
MigratedOn ==
  << Sigaction("USR1", TRUE), Getcpu("cpu"), Write("c2p", "cpu"), Kill("P", "USR2"), SpinSig,
     Getcpu("cpu"), Write("c2p", "cpu") >>
\* Mutant: the child tells its CPU before it is ready for the signal that answers.
MigratedLate ==
  << Getcpu("cpu"), Write("c2p", "cpu"), Kill("P", "USR2"), Sigaction("USR1", TRUE), SpinSig,
     Getcpu("cpu"), Write("c2p", "cpu"), Exit(0) >>
\* The child of 008 and 009
Migrated ==
  << Sigaction("USR1", TRUE), Getcpu("cpu"), Write("c2p", "cpu"), Kill("P", "USR2"), SpinSig,
     Getcpu("cpu"), Write("c2p", "cpu"), Exit(0) >>
\* Their parent, which chooses the target by the mask; 008 asserts that there is one, 009 does not look
Migrate(mask, what) ==
  << Need(3), Sigaction("USR2", TRUE), Pipe("c2p", NG), Fork("C1"), Getcpu("cpu"), SpinSig, Read("c2p", "got"),
     Try("alloc"), Check(what), Setaff("C1", mask, LONG, "mem", "kept", NG), Kill("C1", "USR1"),
     Read("c2p", "got2"), Waitpid("C1"), Close({"c2p"}, {"c2p"}), Check("migrated"), Check("result"), OK >>
Set008 == With(Migrate("third", "target"), Migrated)
Set009 == With(Migrate("other", "unchecked"), Migrated)

\* child1_fn() and child2_fn(), and the end of the child
child1_fn == << Sigaction("USR1", TRUE), Getcpu("cpu"), Write("c2p", "cpu"), SpinSig, Close({"c2p"}, {"c2p"}), Exit(0) >>
child2_fn == << Sigaction("USR1", TRUE), Kill("P", "USR2"), SpinSig, Exit(0) >>
KillBoth == << Kill("C1", "KILL"), Kill("C2", "KILL"), Return("ng") >>
Set010 ==
  [P |-> << Need(1), Sigaction("USR2", FALSE), Pipe("c2p", NG), Fork("C1"), Read("c2p", "got"), Close({"c2p"}, {"c2p"}),
            ForkElse("C2", << Kill("C1", "USR1"), Return("ng") >>),
            TryElse("setpgid", KillBoth), TryElse("setpgid", KillBoth), Try("alloc"), SpinSig,
            \* kill(-child_pid2): there is no such group, C2 is in the group of C1
            Setaff("C2", "got", LONG, "mem", "ok", << Kill("nobody", "USR1"), Return("ng") >>),
            Kill("C2", "USR1"), Kill("C1", "USR1"), Waitpid("C1"), Waitpid("C2"), OK >>,
   C1 |-> child1_fn, C2 |-> child2_fn, C3 |-> None]

\* child_fn_common(); its last close() calls find the pipe closed already
child_fn_common(fd, sync, start) == << Getcpu("cpu"), Write(fd, "cpu"), Post(sync), Wait(start), Exit(0) >>
Set011 ==
  [P |-> << Need(1), Pipe("fd1", NG), Create("C1"), Read("fd1", "got"), Close({"fd1"}, {"fd1"}),
            Pipe("fd2", NG), Create("C2"), Read("fd2", "got2"), Close({"fd2"}, {"fd2"}),
            Try("alloc"), Wait("sync1"), Wait("sync2"),
            Setaff("C2", "got", LONG, "mem", "kept", NG), Post("start2"), Post("start1"),
            Waitpid("C1"), Waitpid("C2"), Check("result"), OK >>,
   C1 |-> child_fn_common("fd1", "sync1", "start1"), C2 |-> child_fn_common("fd2", "sync2", "start2"), C3 |-> None]
Set012 == Alone(<< Need(1), Try("open"), Try("ioctl"), Try("mmap"), GetOwn("own", NG), SetOwn("own", NG), OK >>)

(* sched_getaffinity *)

Get000 == Alone(<< Getcpu("cpu"), Need(1), Try("alloc"), GetOwn("own", NG), Check("isset"), OK >>)
Get001 == Alone(<< Getaff("self", "own", LONG, "invalid", "EFAULT", NG), OK >>)
Get002 == Alone(<< Need(1), Try("alloc"), Getaff("self", "own", 0, "mem", "EINVAL", NG), OK >>)
Get003 == Alone(<< Need(1), Try("alloc"), Getaff("nobody", "own", LONG, "mem", "ESRCH", NG), OK >>)
Get004(n) ==
  LET size == primitive_ceil(n, LONG) IN
  Alone(<< Need(1), Try("alloc"), Getaff("self", "own", size, "mem", IF size % LONG = 0 THEN "ok" ELSE "EINVAL", NG), OK >>)
Get005 ==
  With(<< Need(1), Fork("C1"), Try("alloc"), GetOwn("own", NG), Try("alloc"),
          Getaff("C1", "its", LONG, "mem", "ok", NG), Kill("C1", "USR1"), Check("equal"), OK >>,
       << Sigaction("USR1", FALSE), SpinSig, Exit(0) >>)      \* the handler exits
Get006 ==
  With(<< Need(1), Fork("C1"), Waitpid("C1"), OK >>,
       << TryElse("fopen", Fail), TryElse("alloc", Fail), GetOwn("own", Fail), TryElse("execve", Fail), Exit(0) >>)

(* pthread_setaffinity, pthread_getaffinity: an error message is the value of the thread. *)

Joined == << Need(1), Try("calloc"), Create("C1"), Waitpid("C1"), Check("value"), OK >>
PthreadSet ==
  With(Joined,
       << Getcpu("cpu"), TryElse("alloc", Fail), GetOwn("own", Fail), TryElse("alloc", Fail),
          CheckElse("another", Fail), SetOwn("cpu", Fail),
          TryElse("alloc", Fail), GetOwn("its", Fail), CheckElse("bound", Fail), Exit(0) >>)
PthreadGet ==
  With(Joined,
       << Getcpu("cpu"), TryElse("alloc", Fail), SetOwn("cpu", Fail),
          TryElse("alloc", Fail), GetOwn("its", Fail), CheckElse("bound", Fail),
          TryElse("alloc", Fail), GetOwn("its", Fail), CheckElse("bound", Fail), Exit(0) >>)

-----------------------------------------------------------------------------
(* sched_yield and time_sharing *)

MapFlag == [op |-> "mapflag"]                   \* the mmap() whose result no assertion looks at
KeepCore == [op |-> "core"]                     \* *parent_core = sched_getcpu()
\* The parent takes the child to its own CPU and stays there.
SetChild == Setaff("C1", "cpu", LONG, "mem", "ok", NG)
CheckCore == CheckElse("core", Fail)

SchedYield ==
  With(<< MapFlag, Try("mmap"), Fork("C1"), Wait("sem1"), Getcpu("cpu"), KeepCore, SetChild, SetOwn("cpu", NG),
          Usleep, SetFlag(0), Post("sem2"), Yield, Check("order"), Waitpid("C1"), Check("value"), OK >>,
       << Getcpu("cpu"), Post("sem1"), Wait("sem2"), SetFlag(1), Getcpu("new"), CheckCore, Exit(0) >>)

\* Mutant: the turn is handed over before the line is printed.
child_func_hasty ==
  << Getcpu("cpu"), Post("sem1"), Wait("sem2"), Getcpu("new"), CheckCore,
     SpinFlag(1), SetFlag(2), Usleep, InLoop, Again(4), Exit(0) >>
\* The child, with its child_func()
child_func ==
  << Getcpu("cpu"), Post("sem1"), Wait("sem2"), Getcpu("new"), CheckCore,
     SpinFlag(1), InLoop, Usleep, SetFlag(2), Again(4), Exit(0) >>
\* The parent, with its parent_func(); it ends with a message, "check run order, [child] -> [parent] -> ...",
\* which main() prints as its RESULT
parent_func ==
  << MapFlag, SetFlag(1), Fork("C1"), Wait("sem1"), Getcpu("cpu"), KeepCore, SetChild, SetOwn("cpu", NG), Post("sem2"),
     SpinFlag(2), InLoop, Usleep, SetFlag(1), Again(4), Waitpid("C1"), Check("value"), Return("order") >>
TimeSharing == With(parent_func, child_func)

-----------------------------------------------------------------------------
(* cpu_thread_limits and cpu_proc_limits, with two threads and three processes *)

Spinner == << Mark, SpinFlag(1), Use, Exit(0) >>
Threads(p) == [P |-> p, C1 |-> Spinner, C2 |-> Spinner, C3 |-> None]
Limits == Try("setrlimit")
\* Mutant: the block is freed as soon as the threads have left the barrier.
ThreadLimits000Early ==
  Threads(<< Need(1), Try("calloc"), Limits, Create("C1"), Create("C2"), Created, SpinWaiting, SetFlag(1),
             Free, Waitpid("C1"), Waitpid("C2"), OK >>)
ThreadLimits000 ==
  Threads(<< Need(1), Try("calloc"), Limits, Create("C1"), Create("C2"), Created, SpinWaiting, SetFlag(1),
             Waitpid("C1"), Waitpid("C2"), Free, OK >>)
ThreadLimits001 ==
  Threads(<< Need(1), Limits, Try("calloc"), Create("C1"), Create("C2"), Created, SpinWaiting, SetFlag(1),
             Waitpid("C1"), Use, Waitpid("C2"), Use, OK >>)

Down == <<"down1", "down2", "down3">>       \* pp[i].p2c
Up == <<"up1", "up2", "up3">>               \* pp[i].c2p
Firsts(f, k) == {f[j] : j \in 1..k}

Leave(k) == << Close({Down[k]}, {Up[k]}), Exit(0) >>
\* child_fn(): it comes back at once at the end of the file
child_fn(k) == ReadElse(Down[k], "got", Leave(k))
\* Mutant: a child keeps the end of the pipe its parent writes to.
proc_child_open(k) ==
  << Close({Up[k]}, {}), child_fn(k), Usleep, Write(Up[k], "cpu"), Close({Down[k]}, {Up[k]}), Exit(0) >>
\* The child's branch of RUN_FUNC()
proc_child(k) ==
  << Close({Up[k]}, {Down[k]}), child_fn(k), Usleep, Write(Up[k], "cpu"), Close({Down[k]}, {Up[k]}), Exit(0) >>

\* forkone: with k - 1 children there; a first or a second pipe() that fails, or fork()
Others(k) == Close(Firsts(Up, k - 1), Firsts(Down, k - 1))
PipeDown(k) == Pipe(Down[k], << Others(k), Return("ng") >>)
PipeUp(k) == Pipe(Up[k], << Others(k), Close({Down[k]}, {Down[k]}), Return("ng") >>)
ForkOne(k, c) == ForkElse(c, << Others(k + 1), Return("ng") >>)
ChildEnds(k) == Close({Down[k]}, {Up[k]})             \* before the next one
Collect(k) == Close({Up[k]}, {Down[k]})               \* after the answer
ProcLimits ==
  [P |-> << Need(1), Limits, Try("calloc"), PipeDown(1), PipeUp(1), ForkOne(1, "C1"), ChildEnds(1),
            PipeDown(2), PipeUp(2), ForkOne(2, "C2"), ChildEnds(2), PipeDown(3), PipeUp(3), ForkOne(3, "C3"),
            Write("down1", "cpu"), Write("down2", "cpu"), Write("down3", "cpu"),
            Read("up1", "got"), Collect(1), Read("up2", "got"), Collect(2), Read("up3", "got"), Collect(3), OK >>,
   C1 |-> proc_child(1), C2 |-> proc_child(2), C3 |-> proc_child(3)]

-----------------------------------------------------------------------------
Suite(n) ==
  [set000 |-> Set000, set001 |-> Set001, set002 |-> Set002, set003 |-> Set003, set004 |-> Set004, set005 |-> Set005,
   set006 |-> Set006, set007 |-> Set007(n), set008 |-> Set008, set009 |-> Set009, set010 |-> Set010,
   set011 |-> Set011, set012 |-> Set012,
   get000 |-> Get000, get001 |-> Get001, get002 |-> Get002, get003 |-> Get003, get004 |-> Get004(n),
   get005 |-> Get005, get006 |-> Get006, pthread_set |-> PthreadSet, pthread_get |-> PthreadGet,
   sched_yield |-> SchedYield, time_sharing |-> TimeSharing,
   threads000 |-> ThreadLimits000, threads001 |-> ThreadLimits001, procs000 |-> ProcLimits]
=============================================================================
