# A TLA+ development for the McKernel OS test suite (ostest)

The repository is a test suite for McKernel, a lightweight kernel (LWK) that runs
next to Linux. It holds test programs in C, a Linux kernel module that gives some of
them devices to map, and shell scripts that boot McKernel, run the tests and judge
them. This directory models the parts of it whose order of steps matters, checks
them with TLC, and proves with TLAPS what TLC checks of their safety, but for the
refinement of `TestPromise`.

A test suite is right when a good kernel passes, a bad kernel fails, each run ends,
and nothing is left on the host. The properties are of these four kinds.

## Inventory

| Part | State it keeps | Operations | Talks to |
|---|---|---|---|
| Test driver `test_drv/` | device numbers, classes, cdevs, device nodes, buffers, `/proc/test_mck` | module init and exit, `open`, `mmap`, page faults, `close` | the loading scripts through `/proc`, tests through device files |
| Loading scripts `util/insmod_test_drv.sh`, `rmmod_test_drv.sh` | files under `/dev/test_mck` | load, make files, remove files, unload | driver; sourced by `util/init/` and `util/fini/` |
| ptrace suite `test_mck/src/ptrace`, `arch/arm64/arch_test_ptrace.c` | a child's memory and registers, semaphores, a pipe | 22 tests, each a parent, a child and a verdict | the kernel under test |
| Boot scripts `util/config`, `run_mck.sh`, `stop_mck.sh`, `reboot_mck.sh` | modules, reservations, LWK instances, mounts, `mcos.info`, `smp_resource.info` | reserve, boot, shutdown, release | IHK and mcctrl through commands |
| Runner `util/run.sh`, `init.sh`, `fini.sh` and `init/`, `exec/`, `fini/`, `check/` | host settings saved and changed, the record file, the driver | one test from set-up to verdict | test programs, `pidof`, the driver, the LWK |
| `test_mck.c` | the table of test cases | `setup`, `run`, `teardown`, the RESULT line | the runner through standard output |
| Whole-suite scripts `run_testset.sh`, `run_rt_postk.sh` | none of their own | all tests in turn, a reboot | runner, boot scripts |
| `test_mck/src/mremap_mmap_anon` | a few ranges of pages laid out around the one that is remapped | a shared layout helper, 68 tests with one `mremap()` and its checks | the kernel under test; `check/page_fault.sh` reads the kernel log |
| `mbind`, `get_mempolicy`, `set_mempolicy`, `numa.c` | policy of each page and of the process, node masks of several words, heap blocks and mappings | helpers of `numa.c`, 70 tests | the kernel under test |
| Affinity suites `sched_*affinity`, `pthread_*affinity` | masks, the CPU of a task, pipes, `sig_count` | 22 tests, alone or with children and threads | the kernel under test |
| `sched_yield`, `time_sharing`, `cpu_thread_limits`, `cpu_proc_limits` | shared flags, semaphores, a barrier, a chain of pipes | 5 tests with 1 to n children | the kernel under test |
| Other memory suites (`mmap_*`, `madvise`, `mprotect`, ...) | mappings | about 110 test cases | the kernel under test |
| Process and signal suites | processes, masks | about 120 test cases | the kernel under test |
| `condition_monitor`, `cpu_pa_info`, `freeze_thaw`, `get_rusage`, lv07 to lv15, small programs | little | single calls | IHK or the kernel under test |
| Reporting, gdb and job scripts | none | text processing | |

What is hard here: failure in the middle of module init; `rmmod` against programs
that hold a device; stops, forks and signals that reach `wait()` in an order the
test did not expect; a script killed between two commands, and the next script on
what it left; a program that ends before the script looks for its pid; scripts that
wait for something that never comes; addresses the kernel chooses, and a fault of the
test that looks like the fault it waits for; masks whose length is rounded and whose
last word is half used; spinning tasks on a kernel that takes no CPU away; signals
that meet no handler yet; ends of pipes that a sibling still holds. `PROJECT.json` lists each of these under
"hazards" at its line, and every part, modelled or not, under "components".

## Modules

| Module | Models | Lines of it that carry the argument |
|---|---|---|
| `TestDrv` | driver, loading scripts, test processes | one action per registration call of `test_mck_setup()` |
| `TestDrvProofs` | proofs about `TestDrv` | |
| `PtraceProgs` | the text of the 22 ptrace tests, as programs | one definition per `child_func()`, `parent_func()`, `RUN_FUNC()` |
| `Ptrace` | the machine that runs such a program with its child on a kernel | one action per kind of statement |
| `PtraceSuiteProofs`, `PtraceProofs` | what the 22 tests have in common; proofs about `Ptrace` | |
| `McBoot` | boot and stop scripts | one action per command |
| `McBootProofs` | proofs about `McBoot` | |
| `RunTest` | runner and test program | one action per stretch of script that another process can interrupt |
| `RunTestProofs` | proofs about `RunTest` | |
| `MremapProgs` | the 68 mremap tests: layout, call, checks | one definition per `RUN_FUNC()`, most of them one line |
| `Mremap` | the layout helper, `mremap()`, the checks, the verdict | one action per step of `mremap_mmap_anon()` and per kind of check |
| `MremapProofs` | what the 68 tests have in common; proofs about `Mremap` | |
| `NumaProgs` | the 70 policy tests and the masks they build | one definition per `RUN_FUNC()` and per helper of `numa.c` |
| `Numa` | the machine that runs them | one action per kind of call or comparison |
| `NumaProofs` | what the 70 tests have in common; proofs about `Numa` | |
| `SchedProgs` | the 27 affinity and scheduling tests | a program for the process and for each child |
| `Sched` | those programs on the CPUs of a kernel, with or without time sharing | one action per kind of call |
| `SchedProofs` | what the 27 tests have in common; proofs about `Sched` | |
| `TestPromise` | what any test promises (abstract) | `Decide` |
| `MC...` | values for the constants | |

Definitions keep the names of the source where they can. A definition whose comment
starts with "Mutant:" is a plausible mistake in the definition after it; nothing
refers to it, and each shows that one property notices that mistake.

### TestDrv

The kernel registries are sets of device indices (`cls`, `cdevs`, `nodes`, `bufs`)
and the two places where one thing is registered for all devices (`region`, `proc`).
`stale` has the devices whose `dev->class` still points to a class that cleanup has destroyed.
`pc` and `i` are the position in `test_mck_setup()` or `test_mck_cleanup()`, `res` the
local variable of that name, kept because one error path does not set it. Every
registration call may fail if `Faults` has its name. `mod` is the kernel's module
state, and a module with an open file or a mapping (`InUse`) is not unloaded, as
`fops.owner` has it. The scripts take their steps between those of module init and
of the test processes, which open devices through the files the script has made.

Abstracted: the contents of buffers, the read offset of the `/proc` files.

### PtraceProgs and Ptrace

The 21 tests that fork are a few dozen straight-line statements with `goto out`
after each. They are data: a sequence of records, one per call or comparison, with
the place where a failure jumps to (`Jump`: to the last PTRACE_CONT, to `out`, and
with or without setting `ret`). The same machine runs them all, so that a test is
not much longer in `PtraceProgs` than its list of calls.

The kernel under test is external, and it is the one part modelled from a document,
ptrace(2). It may be a bad one: `fault` names one request that it refuses, or that it
answers with success without doing what was asked. That is what the tests are for,
and `VerdictIsSound` says that they do it.

Abstracted: `si_errno`, the registers one by one (a register set is one value, or
the program counter), what is printed, and the comparison in 002 of the parent's own
`buf`, which no request of the model can write to.

### McBoot

One action per command of `reserve()`, `boot()`, `shutdown()` and `release()`, in the
order of the scripts, with the exits they have and those they lack. A command works
if the host is ready for it (a module is not loaded twice, an instance needs its
device and its resources); it also fails if `Faults` has it, the `umount` that nobody looks
at before `rm -rf` included. `layers` is the stack of
file systems on `/tmp/mcos`, because a second boot mounts over the first. `left` is a history: what
has been left there that no later cleanup looks for, bare tmpfs or mounts. A script
ends by itself, by an error, or by `Interrupt`, and any other may follow.

Abstracted: CPU lists and sizes, the NUMA presets, the list of CPUs hidden from
`/sys`. That a chunk of memory is known from an earlier reservation is one Boolean.

### RunTest

`run.sh` for one test after another. A test is what its scripts make of it: how
`exec/` starts it (in the foreground, to be killed, to get signals, to be waited for),
whether `init/` loads the driver and `fini/` unloads it, and which `check/` judges it;
`Test` has one test of every combination that occurs. The program goes through
`setup`, `run`, `teardown` and its RESULT line, crashes, or returns early from an
assertion. `Interrupt` kills the script anywhere; its program may live on as an
orphan that holds a device and that `pidof` finds. The host's `core_pattern` is a name or
begins with a pipe; `insmod` and `userdel`, which the scripts do not check, may fail, and
`failed` keeps which of them did in this run.

Abstracted: temporary files, core limits, the Linux run (`-H`), the dry run (`-d`),
the checks that read core files or numbers.

### MremapProgs and Mremap

A test is its array `params[]`, its `mremap()` call and its list of checks. The address
space is a ring of pages with protection, sharing and content. `Reserve` is the first
`mmap()` of `mremap_mmap_anon()`, over all ranges, wherever the kernel puts it; `Format` is
one turn of its loop, the `munmap()` of a range that is to be free or the
`mmap(MAP_FIXED)` and `memset()` of any other, each of which may fail. `CallMremap` is the kernel, external; it
follows mremap(2) or has one of eleven faults. A read of a page that is
not there raises a signal: with a handler the test ends as it planned, without one it
is killed, and in both cases the kernel log gets the line that `check/page_fault.sh`
greps for. `Judge` gives the verdict of `run.sh`.

Abstracted: the bytes of a page (each has one value, that of its range).

### NumaProgs and Numa

A test is a sequence of calls and comparisons on `node_mask`, `mode`, `buf` and the
policies; `Numa` runs it until an assertion fails, then `TEARDOWN_FUNC()`. The kernel,
external, has a policy for each of 7 pages and for the process; `due` is the history of
the policies that a good kernel would hold, and `looked` of the pages a test has read
back, so that `PassIsEarned` can say what a pass has seen. Masks keep their words: the
lengths `numa.c` computes, the rounding up and the shifts in an `int`. `ShiftFits` says which
numbers of nodes such a shift can count; it is no assumption but a condition of two
properties, for the four tests that call `node_mask_check()`.

Abstracted: page contents, and which node holds a page other than the first.

### SchedProgs and Sched

`P` is the process of `RUN_FUNC()`, `C1` to `C3` its children or threads. A program is a
sequence of steps, and a step that can fail has the steps of its error branch
(`orelse`). The loops of `child_func()` and `parent_func()` in time_sharing end in a step
that goes back (`NextRound`), with the counter in `reg`. The kernel is external. Where McKernel is cooperative (`coop`), a
CPU keeps its task until it blocks, sleeps, yields or ends, also while it spins; where it
shares time (`share`), all tasks of a CPU go on. A signal acts when it is sent. The ends of a
pipe have holders, so that a `read()` ends when the last writer is gone. `fault` is the
one call that fails, or the one thing the kernel gets wrong.

A test is judged by its RESULT, except time_sharing: its `RUN_FUNC()` always returns a
message ("check run order, ..."), so that its RESULT is never ok, and
`check/time_sharing.000.sh` judges the lines it has printed (`order_check`, `Verdict`).

`setrlimit()` either works or fails; that a kernel then refuses a `fork()` or
`pthread_create()` beyond the limit is covered by the faults that let those calls fail, not by a count.

Not in the cases: a failing `pipe()` or `pthread_create()` in sched_setaffinity 011 and
the pthread suites, which go on with uninitialised descriptors and thread ids.

### TestPromise

The abstract specification of a test: a kernel that is good, bad in the way the test
looks for, or something else; a verdict that is decided once, is ok on the good kernel
and not ok on the bad one; and fairness for the decision on the good kernel only.
`Sched` implements it (`Promise`): the good kernel is one without a fault and with the CPUs
the test needs (`Suitable`), and the bad one has the defect `Looks` names for the test.

## Runs

| Run | Shows |
|---|---|
| `drv_faults` | Any call fails, two test processes: `LiveIsWhole` (a loaded driver has all of its devices or, after a failed `class_create()`, none), `CleanedOnce` (cleanup never meets a class that is gone, but at the exit of such an empty driver), `NothingLeaks` (cleanup gives back exactly what setup got), `UsersAreServed` (no file or mapping outlives its cdev or buffer), `DevFilesWork` (device files name registered devices) |
| `drv_class_fault` | Violation: a failing `class_create()` leaves `res` 0, so insmod succeeds for a driver without devices; the rmmod after it is the exception of `CleanedOnce` |
| `ptrace_suite` | On a good kernel no interleaving fails a test (`NoFlake`) and every request meets a stopped child; on a kernel that gets a test's subject wrong the test never passes (`VerdictIsSound`); a pass comes from the child's own end (`OkMeansChildDone`); tests end (`Ends`) |
| `ptrace_fork_race` | Violation: in 015 the traced grandchild's stop may reach `wait()` before the child's fork event, and a good kernel fails |
| `boot_scripts` | Any history of scripts with failing commands and interruptions, the mount window and unchecked umounts included: `RmIsSafe` (root's `rm -rf /tmp/mcos` never meets a mount), `StopIsClean`, `BootIsReal` (a run that reports success has booted, overlays mounted once), with the exceptions they name: after a boot cut short in the window, or a cleanup that could take down neither `/tmp/mcos` nor a mount in it; `ScriptsEnd` |
| `boot_window` | Violation: one failing `insmod mcoverlay`, and a later cleanup runs `rm -rf /tmp/mcos` over the bind mount of `/proc` (`RmMeetsNoMount`) |
| `run_tests` | Any history of tests, killed anywhere, with any `core_pattern` and with `insmod` and `userdel` failing: `VerdictIsExact`, `HostRestored` (but for a piped `core_pattern` and a user whose `userdel` failed), `DriverServes` (a test has its driver, or this run could not load it and there are no files either), `RunEnds` |
| `run_core` | Violation: `fini.sh` says that it restores `core_pattern`; one that begins with a pipe it does not (`CoreRestored`) |
| `mremap_suite` | Wherever the kernel places things: the layout is the one the test describes when it calls (`LayoutHolds`), a good kernel passes (`NoFlake`), a pass of the program or of `run.sh` has seen what `mremap()` left (`PassIsEarned`, but for a probe test killed by an earlier fault), and only the probe of a test is taken for its fault (`HandledAtProbe`) |
| `numa_suite` | On 0 to 14 nodes: a good kernel passes (`NoFlake`; mbind 027 it fails, as the assertion on `errno` is inverted), a pass has read back the policies a good kernel would hold, no mask is written or read past its words (`MaskFits`), no block or mapping is left (`Released`). The four tests that call `node_mask_check()` keep the first two where its shift can count the nodes (`ShiftsFit`) |
| `sched_suite` | Every schedule of 27 tests: they keep the promise of a test (`Promise`, a refinement, with its liveness), leave no child behind (`NothingLeft`), their wake-up signals find the handler (`SignalsAreCaught`), time_sharing alternates (`Alternates`), the block of the threads is freed after its last use (`FreedLast`) |
| `run_wait` | Violation: `exec/wait.sh` never ends if the program was gone before `pidof` |

### Bounds

- `TestDrv`: `NDev = 3` is the real number of devices, two with buffers. Two test
  processes are enough for one to hold a file and the other a mapping; the proofs have
  any number of both.
- `Ptrace`: all 22 tests; a good kernel, and every kernel with one bad request or
  call. Two bad requests at once are not tried; the proofs have any set of them. Left out of the passing run, each for a
  stated reason in `MCPtrace`: 015 where it gets past its fork (it races), a broken
  GETREGSET in 008, a broken DETACH in 020, a refused ATTACH in 019 and 020.
- `McBoot`: `MaxOs = 2` instances; a failed destroy leaves one, and one more can be
  created. Scripts follow each other without bound, and so do faults. `MaxLayers` bounds the file
  systems stacked on `/tmp/mcos`: a boot that would mount one more is not started. Two are
  enough for a boot on top of what was left. `MCMcBoot` picks the commands that fail and the places of an
  interruption, one of each row that the code handles alike; the proofs have any bound, any failures and any interruptions.
- `RunTest`: one test of each kind, in any order and number, and one orphan at a time. A second orphan
  would hold a device or be found by `pidof` just as the first.

- `Mremap`: ranges of 2 pages, large ones of 3, in a space of 18 pages, six times
  the large size: the largest layout fits at more than one place, and a block that may move
  always finds a free one, as in the address space of a 64-bit process (`SizesAssumption`); all 68 tests with each of 15 kernels.
- `Numa`: `BITS_PER_LONG = 12` and `BITS_PER_INT = 6` keep an `int` half as wide as a word and
  give two-word masks at 13 and 14 nodes; `SYS_MAX_NODE = 30`. Of the numbers of
  nodes (`MaxNodes`), 7 is one whose shift does not fit an `int` and 12 one that fills a word.
- `Sched`: up to three CPUs, which is what the most demanding test needs; two threads and
  three processes for the limits (any number in the code), `ROUNDS = 2` of the 5 of
  time_sharing, `LONG = 2` bytes in a long. On a time-sharing kernel more CPUs
  add no interleaving, so `MCSched` keeps to one or two where the test allows.

`CHECK_DEADLOCK FALSE` stands in `ptrace_suite`, where on a bad kernel parent and child
really stop, and in `run_wait`, which is about such a stop. In `Sched` only a kernel
that is not good may leave everyone waiting (`Stays`), so a deadlock on a good one is found.

### Fairness

Weak fairness only, for processes that nothing in the code lets stop: parent, child and the delivery of a pending
signal (`Ptrace`), the running script (`McBoot`, `RunTest`), the next part of a test
program that is not waiting (`RunTest`). In `Sched` a task that has a CPU takes its next
step, an idle CPU takes a runnable task, and a sleep ends; on a cooperative kernel
nothing makes a CPU leave a task that spins. There is none for test processes to close a
device, for an orphan to end, for a program to crash or fail an assertion, or for a
person to start a script. force_exit, which spins until it is killed, and siginfo,
which spins until it has its signals, get no fairness while they do.

`Ends` of `Ptrace` is conditional on `Resumable`: on a kernel that refuses PTRACE_CONT
most of the suite hangs in its last `wait()`. `ScriptsEnd` of `McBoot` and `RunEnds` name
the loops that have no timeout.

## Proofs

`TestDrvProofs`, for every `NDev`, `BufDev`, `User` and `Faults`:

- `TypeCorrect`: types, and both loops stay in `test_mck_devlist[]`.
- `CleanupIsComplete` (`NothingLeaks`), `NoUseAfterUnload` (`UsersAreServed`),
  `DevFilesAlwaysWork` (`DevFilesWork`).
- `SetupIsWhole` (`LiveIsWhole`), and `SetupIsComplete` (`LiveIsComplete`) from the assumption
  that `class_create()` does not fail; the run `drv_class_fault` shows that it is needed.
- `CleanupHappensOnce` (`CleanedOnce`). For it `StaleInv` adds that as long as the device numbers are held
  the stale pointers are those of the devices the loop of cleanup has passed.

None of these is inductive alone. `IInv` adds where the loops are: in setup exactly the
devices before `i` are complete, and device `i` has what the calls before `pc` gave
it; in cleanup nothing is left of the devices before `i`; at rest a driver is empty
or complete (or, after a failed `class_create()`, loaded and empty); and a
driver that is in use is live and complete. The proof has one step per action. The
assumptions on constants (`NDev` positive, `BufDev` among the devices, `NoDev` not a
device) are evaluated by the runs.

`McBootProofs`, for every `Scripts`, `Dry`, `Faults`, `Interrupts` and `MaxLayers`:

- `TypeCorrect`, `RemovalIsSafe` (`RmIsSafe`), `StopCleansUp` (`StopIsClean`),
  `BootSucceeds` (`BootIsReal`).

Nothing is assumed of what fails or where a script is interrupted. Two things are not put right by any later script,
and `left` records them. Every cleanup asks whether mcoverlay is loaded before it
unmounts anything, so what a boot cut short between mounting the tmpfs and loading mcoverlay
leaves (a bind mount of `/proc`) stays, a later boot covers it, and the `rm -rf` after that
finds it (`boot_window`). And no `umount` is checked. The heart of `IInv` is `LayersInv`: as long
as no mounts were left, whatever has mounts in it is the top layer and mcoverlay is loaded, and below are
bare tmpfs at most; with nothing left there is one layer. `StopInv` says how far a stop has come:
no instance once modules are removed, and each module gone after its step unless a
command of this script failed. For `BootSucceeds` the proof adds how far a boot has
come: which modules and which instance its steps so far have made sure of, whatever
was there before it.

`RunTestProofs`, for every set of tests and of core patterns and any history of scripts:

- `TypeCorrect`, `VerdictsAreExact` (`VerdictIsExact`), `HostIsRestored` (`HostRestored`),
  `DriverAlwaysServes` (`DriverServes`), whatever the host's `core_pattern` and with any failing `insmod` and `userdel`.

`HostInv` says for each place of `run.sh` which settings are saved, changed and put back by then;
`ProgInv` ties the place of the script to that of its program (it runs only while the script
is in `exec/`, and its one RESULT line and exit status are there from its end on); `DrvInv` has the
driver loaded from `init/` to the end of the program; `VerdictInv` carries the
verdict from the check to the exit.

`MremapProofs`, for every size of ranges and address space that
`SizesAssumption` admits, and every place where the kernel may put a block:

- `TypeCorrect`, `LayoutIsDescribed` (`LayoutHolds`), `TestsPassOnAGoodKernel` (`NoFlake`),
  `PassesAreEarned` (`PassIsEarned`), `HandledOnlyAtProbe` (`HandledAtProbe`).

Its first part shows that the 68 tests are well made: the call is one of five kinds that
must succeed or of two that must fail, inside the layout, and the checks are those its kind
asks for. The rest needs no more of a test than that. The invariant has four parts, each
resting on the one before: the loop has laid out the ranges before `i` and no others (layout);
after the call the pages are what the kernel's answer says (delivery); the checks done so far
have read what they read (seen); and the end of the program follows from them (earned). `JudgeInv` carries this
to the verdict of `run.sh`: a line in the kernel log comes from the fault that ended the program.

`SchedProofs`, for every number of CPUs, every number of rounds, every fault and every schedule:

- `TypeCorrect`, `SignalsReachHandlers` (`SignalsAreCaught`), `TurnsAlternate` (`Alternates`),
  `BlockFreedLast` (`FreedLast`).

The first part is about the text of the 27 tests (`SuiteLemma`): only the last step of a program
or of an error branch ends the task, each child is made once, a branch has none but simple
steps, and no loop makes a task. From that alone `PlaceInv` follows, that a live task is at a
step of its program, and with it the types. The other parts of `IInv` look at the steps of single tests:

- `SemInv`: each semaphore is posted at one step and waited for at one other, so its value is
  the difference of two positions; this is why it never goes past 1.
- `FreeInv`: the threads that have not been joined are there, and the block is freed behind both joins.
- `TurnInv` (`Turns`): the flag says which of parent and child is a round ahead, and the number of
  lines is the sum of the rounds, corrected by where in the round each of them is.
- `SigInv`: in sched_setaffinity 008 and 009 a task that may be signalled has set its handler, because
  the other waits for its own signal or its number first; in 010 the number in the pipe tells
  that C1 is ready, and this holds only as long as P itself has the write end
  open, for otherwise `read()` could return at the end of file.

Assumed of the constants: `ROUNDS` positive, `LONG` at least 2, cases as `CasesAssumption` has them
(the undefined cases left out). All assumptions are evaluated by the runs.

`NumaProofs`, for all 70 tests, every number of nodes, every width of words and ints that
`WidthsAssumption` admits, and every fault of `Numa`:

- `TypeCorrect`, `MasksFit` (`MaskFits`), `NothingLeft` (`Released`).
- `PassEarned` (`PassIsEarned`) and `NoFalseAlarm` (`NoFlake`). For the four tests that call `node_mask_check()` they speak
  of the numbers of nodes its shift can count (`ShiftsFit`);
  for all others of every number. `NoFalseAlarm` leaves mbind 027 out: that it always fails is model-checked only.

The first part is again about the text (`TestOK`, shown test by test): the checks of `max_node` and
the `mmap()` come first, a mask is allocated once and wide enough for every later use of it, and each
comparison asks for the policy of the last call before it that covers the page. With that the invariant
`IInv` speaks of "the steps so far" and never of a single test:

- `MaskInv` and `HeldInv`: the words each mask has, and which blocks and mappings are held. `MasksFit` and
  `NothingLeft` follow, and `NeedInv` (every `max_node` check passed so far was met) gives the bound on the nodes.
- `KernelInv` and `DueInv`: the kernel's policies and those a good kernel would hold. They are equal unless the fault
  is one of those that spoil what is stored (`StoreFaults`); the others spoil what is reported.
- `ReadInv`, `SeenInv` and `LookedInv`: the locals hold the answer to the last `get_mempolicy()`, and a comparison
  that succeeded found, for every page it was about, what `due` has. A fault in storing is seen by the
  comparison that follows it, a fault in reporting by the next; this is the argument for `PassEarned`.
- `LoopInv` for the loop of get_mempolicy 018, where the next node of an interleaved process is compared with the node
  of a page, and `FlakeInv` for the verdict on a good kernel.

Assumed of the constants: `WidthsAssumption` (an `int` of at least 5 bits is narrower than a `long`, as on every
machine of this code) and `CasesAssumption` (a case is a test and a fault). `ShiftsFit` is a condition on those parts of
`IInv` that follow the answers (`SureInv`), not an assumption.

`PtraceSuiteProofs` and `PtraceProofs`, for every set of cases, hence for kernels that refuse or mishandle any number of requests:

- `TypeCorrect`, and `RequestsMeetStopped` (`RequestsMeetStoppedChild`) for all 22 tests.
- `OkMeansDone` (`OkMeansChildDone`) and `NeverFlaky` (`NoFlake`), with 015 left out: its last `wait()` may reap the
  grandchild, and `ptrace_fork_race` shows that a good kernel may fail it.
- `Sound` (`VerdictIsSound`), with a broken GETREGSET in 008 and a broken DETACH in 020 left out, which
  no step of these tests looks at.

The rule about the text is `TextOK`, shown in `PtraceSuiteProofs`: P makes its requests only at places where the child has been waited for and
not yet been let go (`Hold`), and no jump leads into such places from outside. Five invariants follow each other:

- `BaseInv` rests on `TextOK` alone: at a place of `Hold` the child is stopped, traced and reported; a semaphore is
  posted once; only 015 has a grandchild. Types follow.
- `RunInv`: a parent on its way to success has had every request so far accepted; a child that ended with success came
  to the end of its program; a signal ends it in 018, or where nobody traces it. This is why `WEXITSTATUS` of a killed
  child, which is zero, is never taken for success.
- `AddrInv`: the addresses that pass from child to parent are those of its own instructions, so that a request with
  a stale or wrong value does not reach the memory a verdict depends on.
- `FaultInv`: per test, what a kernel that gets the subject wrong leaves behind (a trap that is not there, a cell
  that has the old value, a siginfo that is not the one written) until the statement that notices.
- `GoodInv`: on a good kernel, where the child is for each place of P: it stops where P's next `wait()` expects it and
  nowhere else (`Alive`, `Signalled`), runs in the mode P has asked for (`Stepping`), the traps that are set (`Traps`), what
  its memory holds (`Data`), what P has read (`Seen`, `Told`), and how it ends (`Gone`). `GoodText` has, place by place,
  the facts about the 20 texts that it needs.

Assumed: `CasesAssumption` (a case is one of the 22 tests and a set of refused and one of broken requests).

Only model-checked: all liveness, which under fairness is outside the prover (`ScriptsEnd`, `RunEnds`, `Ends`,
`NothingLeft` of `Sched`), and the refinement `Promise`: its safety half, that a verdict is right, would need what the
locals and the kernel hold at every assertion of each of the 27 tests. Every invariant of the runs is stated by a theorem.

## Seen while modelling, without a run of their own

Driver and scripts:

- `mmap()` of mmap_dev returns 0 after `remap_pfn_range()` failed
  (test_mck_drv-mmap_dev.c:55). `cdev_add()` comes before the device's buffer is allocated
  (test_mck_drv.c:237); the scripts make the device files later, so nobody can open it then.
- `config:365` gives sudo a whole pipeline as one command name: `smp_resource.info`
  is never written, and `run_mck.sh` uses an old one or gives up.
- `-n`, the dry run of the boot scripts, executes for real: it is read after `config` has
  chosen the command prefix (config:32, run_mck.sh:30).
- `reboot_mck.sh` without `-m` ends in an arithmetic error on `<n>M`.
- `release()` sets swappiness to 60 whatever it was before.
- `run.sh:68` tests `$nprocs` without quotes and so is always true; in
  `check/result_is_ok.sh:7` one SKIP hides other results.
- `force_exit.000` passes whatever its program printed: only leftover structures count.
- A run of `run.sh` that is killed leaves its settings, and the next takes them for
  the originals.

Tests that hang, or leave a child that spins or waits for ever:

- ptrace 019 and 020 if ATTACH is refused, 009 if `kill()` or TRACEME is; all, if the last CONT is.
- sched_setaffinity 010: `kill(-child_pid2)` names a process group that does not exist. Its assertion accepts any
  number of CPUs (010.c:125, 008 asks for three), but with one or two and no time sharing parent and first child spin for ever.
- sched_setaffinity 008 and 009 if an allocation fails, sched_getaffinity 005 and
  sched_yield if their first calls fail.

Tests that pass or fail for another reason than their subject:

- ptrace 008 prints the registers and never compares them; 020 cannot tell DETACH
  from CONT; the last `wait()` of 015 may reap the grandchild instead of the child.
- mbind 027 asserts `errno != EIO` (027.c:84) where its comment expects EIO (027.c:62): it fails on the kernel it describes.
- `check/page_fault.sh:3` takes any page_fault_handler line of the kernel log: on a kernel that loses the block, mremap 014
  is killed in its data check, before it has a handler, and `run.sh` passes it.
- `check/time_sharing.000.sh:3` compares without quotes: with a line missing it is a syntax error, taken for
  equal, so a time_sharing whose `fork()` failed and that printed nothing passes.
- `node_mask_check()` shifts a 1 in an `int` (numa.c:73): for 32 to 63 nodes (modulo 64) the shift does not fit, and for a multiple
  of 64 the last word is compared with 0. get_mempolicy 006 then fails on a good kernel, and with a
  full last word passes on one that writes no mask.
- mbind 013 and set_mempolicy 012 also build the mask they pass, which is one node too wide, with a shift in
  an `int`, wrong at the same numbers of nodes.
- sched_getaffinity 006: a child that fails an assertion returns into `main()`, and the
  parent says ok. sched_setaffinity 002, 007 and 010 to 012 do not look whether the task moved.
- pthread_setaffinity fails on a machine of one CPU; sched_yield is a test of a
  cooperative scheduler only.

Errors not looked at:

- mbind 015 to 023 and 027 do not check `mmap()`; time_sharing and sched_yield compare
  it with NULL or not at all. get_mempolicy 018 leaks the tail of its reservation
  when it stops in its loop.
- sched_setaffinity 011 ignores failures of `pipe()` and `pthread_create()` and closes descriptors twice.
- cpu_thread_limits frees `child[]` under running threads after a failed
  `pthread_create()`, and 001 never frees it. cpu_proc_limits writes 17 bytes of a
  literal of 11.

## Not modelled, and the plan

Done, in this order: the driver (smallest, with failure paths and races), the ptrace
suite (most intricate protocol of the repository), the boot scripts (most damage if
wrong), the runner (every test goes through it), the mremap suite and the NUMA policy
suites (most tests, and the most arithmetic), the affinity and scheduling suites (most
schedules).

Next, most important first:

1. Processes and signals: `wait4`, `waitid`, `vfork`, `rt_sig*`, `siginfo`, `procfs`, `uti`,
   on the machine of `Sched`, which has processes, pipes, semaphores and signals that act
   at once; blocked and queued signals are missing.
2. `mmap_file`, `mmap_dev` and lv11 (copy on write between parent and child) on the address
   space of `Mremap`, with files and a second process.
3. `Ptrace`, `Mremap` and `Numa` as implementations of `TestPromise`; `RunTest` with `TestDrv` and with
   `McBoot`: the driver of `RunTest` (`drv`, `devs`) as an abstraction of `TestDrv`; the
   reboot between the halves of `run_testset.sh`.
4. Theorems: the safety half of `Promise` in `Sched`, along the lines of `GoodInv` in `PtraceProofs`.
5. `condition_monitor`: which events it misses between two polls.

Not planned: instruction emulation, floating-point registers, core file contents
(data, not control); one-call suites such as `getuid` (nothing to interleave);
script generators, gdb and reporting scripts (text in, text out).
