------------------------------- MODULE Ptrace -------------------------------
(***************************************************************************)
(* A ptrace test at work: the test process P runs parent_func() and        *)
(* RUN_FUNC() of one test of test_mck/src/ptrace, its child C runs         *)
(* child_func(), and the kernel under test answers fork, wait, signals and *)
(* ptrace requests.  G is the grandchild that test 015 makes.              *)
(*                                                                         *)
(* The programs come from PtraceProgs.  The kernel is external: it follows *)
(* ptrace(2), except for the requests of `fault', which it refuses or      *)
(* carries out wrongly; the tests exist to tell such a kernel from a good  *)
(* one.                                                                    *)
(***************************************************************************)
EXTENDS PtraceProgs, Naturals, FiniteSets

CONSTANT Cases   \* the tests to run and the kernels to run them on

ASSUME CasesAssumption ==
  \A c \in Cases : c.test \in DOMAIN Test /\ {"refused", "broken"} = DOMAIN c.fault

VARIABLES
  test,      \* the test case
  fault,     \* [refused, broken]: requests that fail, requests that do the wrong thing
  ppc,       \* next statement of parent_func(); 0 before fork()
  ret,       \* the local variable ret of parent_func(), as zero or not
  reg,       \* the other local variables
  pinfo,     \* the siginfo_t variables
  last,      \* the status of the last wait()
  verdict,   \* what RUN_FUNC() returns: NULL is "ok", a message is "fail"
  cpc,       \* next statement of child_func()
  proc,      \* the kernel's view of C and G
  mem,       \* memory and registers of C
  info,      \* siginfo of C's last stop
  sem        \* semaphores, and messages in the pipe

parentVars == <<ppc, ret, reg, pinfo, last, verdict>>
childVars == <<cpc, proc, mem, info>>
vars == <<test, fault, parentVars, childVars, sem>>

NoFault == [refused |-> {}, broken |-> {}]
NoStatus == [kind |-> "none", val |-> "none"]
NoInfo == [signo |-> "none", code |-> "none", addr |-> "none"]
JunkInfo == [signo |-> "junk", code |-> "junk", addr |-> "junk"]
NoProc == [st |-> "none", traced |-> FALSE, pend |-> FALSE, event |-> FALSE,
           status |-> NoStatus, mode |-> "CONT"]

Init ==
  /\ \E c \in Cases : test = c.test /\ fault = c.fault
  /\ ppc = 0 /\ ret = "fail" /\ verdict = "none"
  /\ reg = [r \in Reg |-> "none"] /\ pinfo = [r \in InfoReg |-> NoInfo] /\ last = NoStatus
  /\ cpc = 1 /\ info = NoInfo
  /\ proc = [p \in {"C", "G"} |-> NoProc]
  /\ mem = [c \in Cell |-> IF c \in {"site1", "site2"} THEN "brk" ELSE IF c = "t" THEN "nop" ELSE "none"]
  /\ sem = [s \in {"pwait", "cwait", "pipe"} |-> 0]

Code == Test[test].parent
CCode == Test[test].child

-----------------------------------------------------------------------------
(* The kernel: processes, stops and wait() *)

Dead(st) == st \in {"dead", "gone"}

\* A stop of p that its tracer may wait for; without a tracer nobody sees it.
Stopped(p, sig) ==
  [proc[p] EXCEPT !.st = "stop", !.pend = FALSE, !.event = @ \/ proc[p].traced,
                  !.status = [kind |-> "stop", val |-> sig]]

\* The end of p; P waits for its child and for its tracees.
Ended(p, kind, val) ==
  [proc[p] EXCEPT !.st = "dead", !.pend = FALSE, !.event = (p = "C" \/ proc[p].traced),
                  !.status = [kind |-> kind, val |-> val]]

\* A synchronous signal: a stop under a tracer, death without one.
Raised(p, sig) == IF proc[p].traced THEN Stopped(p, sig) ELSE Ended(p, "sig", sig)

Waitable(who) == {p \in {"C", "G"} : proc[p].event /\ who \in {"any", p}}

\* wait() has nothing to wait for: ECHILD.
NoChildren == /\ proc["C"].st \in {"none", "gone"}
              /\ proc["G"].traced => proc["G"].st = "gone"

\* What wait() takes away when it reports p.
Reaped(p) == [proc EXCEPT ![p].event = FALSE, ![p].st = IF @ = "dead" THEN "gone" ELSE @]

-----------------------------------------------------------------------------
(* The parent: statements of parent_func() *)

At(op) == verdict = "none" /\ ppc \in 1..Len(Code) /\ Code[ppc].op = op

Advance == ppc' = ppc + 1 /\ UNCHANGED ret
Jump(f) ==
  /\ ppc' = CASE f \in {"next", "ret"} -> ppc + 1
              [] f = "skip" -> ppc + 2
              [] f \in {"cont", "contret"} -> Len(Code)
              [] f \in {"out", "outret"} -> Len(Code) + 1
  /\ ret' = IF f \in {"ret", "contret", "outret"} THEN "fail" ELSE ret

\* A ptrace() call succeeds on a stopped tracee, unless this kernel refuses it.
Accepted(req) == proc["C"].st = "stop" /\ proc["C"].traced /\ req \notin fault.refused
Works(req) == req \notin fault.broken

Value(x) == IF x \in Reg THEN reg[x] ELSE x
Read(c) == IF c = "pc" THEN CCode[cpc].at ELSE mem[c]

\* wait() or waitpid(cpid): anything but a stop of the child is a failure.
PWait ==
  /\ At("wait")
  /\ \/ \E p \in Waitable(Code[ppc].who) :
          /\ proc' = Reaped(p) /\ last' = proc[p].status
          /\ IF p = "C" /\ proc[p].status.kind = "stop" THEN Advance ELSE Jump(Code[ppc].fail)
     \/ NoChildren /\ Jump(Code[ppc].fail) /\ UNCHANGED <<proc, last>>
  /\ UNCHANGED <<test, fault, reg, pinfo, verdict, cpc, mem, info, sem>>

\* WSTOPSIG(status)
PStopSig ==
  /\ At("stopsig")
  /\ IF last.val = Code[ppc].sig THEN Advance ELSE Jump(Code[ppc].fail)
  /\ UNCHANGED <<test, fault, reg, pinfo, last, verdict, childVars, sem>>

\* PTRACE_PEEKDATA, PEEKTEXT, GETREGSET, GETEVENTMSG; a failing call returns -1.
PGet ==
  LET s == Code[ppc] IN
  /\ At("get")
  /\ IF Accepted(s.req) /\ Value(s.at) \in Cell
     THEN /\ reg' = [reg EXCEPT ![s.to] = IF Works(s.req) THEN Read(Value(s.at)) ELSE "junk"]
          /\ Advance
     ELSE reg' = [reg EXCEPT ![s.to] = "junk"] /\ Jump(s.fail)
  /\ UNCHANGED <<test, fault, pinfo, last, verdict, childVars, sem>>

\* PTRACE_POKEDATA, POKETEXT, SETREGSET, SETOPTIONS
PSet ==
  LET s == Code[ppc] IN
  /\ At("set")
  /\ IF Accepted(s.req) /\ Value(s.at) \in Cell
     THEN /\ mem' = IF Works(s.req) THEN [mem EXCEPT ![Value(s.at)] = Value(s.val)] ELSE mem
          /\ Advance
     ELSE UNCHANGED mem /\ Jump(s.fail)
  /\ UNCHANGED <<test, fault, reg, pinfo, last, verdict, cpc, proc, info, sem>>

PCheck ==
  /\ At("check")
  /\ IF Value(Code[ppc].a) = Value(Code[ppc].b) THEN Advance ELSE Jump(Code[ppc].fail)
  /\ UNCHANGED <<test, fault, reg, pinfo, last, verdict, childVars, sem>>

\* A request that must fail with one errno: PEEKUSER, POKEUSER, an illegal option.
\* On a refusing kernel it fails with another.
PMustFail ==
  LET s == Code[ppc] IN
  /\ At("mustfail")
  /\ IF Accepted(s.req) /\ Works(s.req) THEN Advance ELSE Jump(s.fail)
  /\ UNCHANGED <<test, fault, reg, pinfo, last, verdict, childVars, sem>>

PGetInfo ==
  LET s == Code[ppc] IN
  /\ At("getinfo")
  /\ IF Accepted(s.req)
     THEN pinfo' = [pinfo EXCEPT ![s.to] = IF Works(s.req) THEN info ELSE JunkInfo] /\ Advance
     ELSE UNCHANGED pinfo /\ Jump(s.fail)
  /\ UNCHANGED <<test, fault, reg, last, verdict, childVars, sem>>

PCheckInfo ==
  /\ At("checkinfo")
  /\ IF pinfo[Code[ppc].a] = Code[ppc].info THEN Advance ELSE Jump(Code[ppc].fail)
  /\ UNCHANGED <<test, fault, reg, pinfo, last, verdict, childVars, sem>>

PSetInfo ==
  LET s == Code[ppc] IN
  /\ At("setinfo") \/ At("restoreinfo")
  /\ IF Accepted(s.req)
     THEN /\ info' = IF ~Works(s.req) THEN info
                     ELSE IF s.op = "setinfo" THEN s.info ELSE pinfo[s.a]
          /\ Advance
     ELSE UNCHANGED info /\ Jump(s.fail)
  /\ UNCHANGED <<test, fault, reg, pinfo, last, verdict, cpc, proc, mem, sem>>

\* PTRACE_CONT, SYSCALL, SINGLESTEP, DETACH and KILL end a stop.  A broken CONT or
\* KILL does nothing; a broken SYSCALL, SINGLESTEP or DETACH is a CONT.
PResume ==
  LET s == Code[ppc] IN
  /\ At("resume")
  /\ IF Accepted(s.req)
     THEN /\ proc' = [proc EXCEPT !["C"] =
               CASE s.req = "KILL" -> IF Works("KILL") THEN Ended("C", "sig", "KILL") ELSE @
                 [] s.req = "CONT" -> IF Works("CONT") THEN [@ EXCEPT !.st = "run", !.mode = "CONT"] ELSE @
                 [] s.req = "DETACH" -> [@ EXCEPT !.st = "run", !.mode = "CONT", !.traced = ~Works("DETACH")]
                 [] OTHER -> [@ EXCEPT !.st = "run", !.mode = IF Works(s.req) THEN s.req ELSE "CONT"]]
          /\ Advance
     ELSE UNCHANGED proc /\ Jump(s.fail)
  /\ UNCHANGED <<test, fault, reg, pinfo, last, verdict, cpc, mem, info, sem>>

\* PTRACE_ATTACH: C becomes a tracee and gets a SIGSTOP.
PAttach ==
  LET s == Code[ppc] IN
  /\ At("attach")
  /\ IF s.req \notin fault.refused /\ ~Dead(proc["C"].st) /\ ~proc["C"].traced
     THEN /\ proc' = IF Works(s.req) THEN [proc EXCEPT !["C"].traced = TRUE, !["C"].pend = TRUE] ELSE proc
          /\ Advance
     ELSE UNCHANGED proc /\ Jump(s.fail)
  /\ UNCHANGED <<test, fault, reg, pinfo, last, verdict, cpc, mem, info, sem>>

\* kill(2): a SIGSTOP becomes pending, a SIGKILL ends its target.
PKill ==
  LET s == Code[ppc] IN
  /\ At("kill")
  /\ IF "kill" \notin fault.refused /\ proc[s.who].st \notin {"none", "gone"}
     THEN /\ proc' = [proc EXCEPT ![s.who] =
               CASE Dead(@.st) -> @
                 [] s.sig = "KILL" -> Ended(s.who, "sig", "KILL")
                 [] s.sig = "STOP" -> [@ EXCEPT !.pend = TRUE]]
          /\ Advance
     ELSE UNCHANGED proc /\ Jump(s.fail)
  /\ UNCHANGED <<test, fault, reg, pinfo, last, verdict, cpc, mem, info, sem>>

PSem ==
  /\ \/ At("post") /\ sem' = [sem EXCEPT ![Code[ppc].sem] = @ + 1]
     \/ At("semwait") /\ sem[Code[ppc].sem] > 0 /\ sem' = [sem EXCEPT ![Code[ppc].sem] = @ - 1]
  /\ Advance
  /\ UNCHANGED <<test, fault, reg, pinfo, last, verdict, childVars>>

\* read() of the address the child writes; 0 bytes when the child is gone.
PRead ==
  LET s == Code[ppc] IN
  /\ At("read")
  /\ IF s.req \in fault.refused THEN Jump(s.fail) /\ UNCHANGED <<reg, sem>>
     ELSE /\ Advance
          /\ \/ sem["pipe"] > 0 /\ reg' = [reg EXCEPT ![s.to] = "dev"] /\ sem' = [sem EXCEPT !["pipe"] = 0]
             \/ sem["pipe"] = 0 /\ Dead(proc["C"].st)
                /\ reg' = [reg EXCEPT ![s.to] = "junk"] /\ UNCHANGED sem
  /\ UNCHANGED <<test, fault, pinfo, last, verdict, childVars>>

POk ==
  /\ At("ok") /\ ret' = "ok" /\ ppc' = ppc + 1
  /\ UNCHANGED <<test, fault, reg, pinfo, last, verdict, childVars, sem>>

-----------------------------------------------------------------------------
(* The parent: RUN_FUNC() *)

\* The calls before fork(), and fork() itself.
PStart ==
  /\ ppc = 0 /\ verdict = "none"
  /\ IF Test[test].needs \intersect fault.refused = {}
     THEN /\ ppc' = 1 /\ proc' = [proc EXCEPT !["C"].st = "run"]
          /\ UNCHANGED verdict
     ELSE verdict' = "fail" /\ UNCHANGED <<ppc, proc>>
  /\ UNCHANGED <<test, fault, ret, reg, pinfo, last, cpc, mem, info, sem>>

\* WEXITSTATUS(status): the exit code or the number of the stop signal, and zero
\* for a process that a signal ended.
WEXITSTATUSisZero(s) == s.kind = "sig" \/ (s.kind = "exit" /\ s.val = "0")

\* Mutant: only func_ret decides.
JudgementBlind(s) == TRUE

Judgement(s) ==
  CASE Test[test].verdict = "kill" -> s.kind = "sig" /\ s.val = "KILL"
    [] Test[test].verdict = "assert" -> s.kind = "exit" /\ s.val = "0"
    [] OTHER -> WEXITSTATUSisZero(s)

\* A return without wait(): 000, a message of 021's parent_func(), a munmap() that failed.
ReturnsEarly ==
  \/ Test[test].verdict = "none"
  \/ Test[test].verdict = "assert" /\ ret = "fail"
  \/ Test[test].verdict = "unmap" /\ "MUNMAP" \in fault.refused

PVerdict ==
  /\ verdict = "none" /\ ppc > Len(Code)
  /\ \/ /\ ReturnsEarly
        /\ verdict' = IF Test[test].verdict = "none" THEN "ok" ELSE "fail"
        /\ UNCHANGED <<proc, last>>
     \/ /\ ~ReturnsEarly
        /\ \/ \E p \in Waitable("any") :
                /\ proc' = Reaped(p) /\ last' = proc[p].status
                /\ verdict' = IF Judgement(proc[p].status) /\ ret = "ok" THEN "ok" ELSE "fail"
           \/ NoChildren /\ verdict' = "fail" /\ UNCHANGED <<proc, last>>
  /\ UNCHANGED <<test, fault, ppc, ret, reg, pinfo, cpc, mem, info, sem>>

-----------------------------------------------------------------------------
(* The child *)

CAt(op) == proc["C"].st = "run" /\ cpc \in 1..Len(CCode) /\ CCode[cpc].op = op
CUnchanged == UNCHANGED <<test, fault, parentVars>>
CExit(val) == proc' = [proc EXCEPT !["C"] = Ended("C", "exit", val)] /\ UNCHANGED <<cpc, mem, info>>

CTraceme ==
  /\ CAt("traceme")
  /\ IF "TRACEME" \in fault.refused THEN CExit("-1")
     ELSE /\ proc' = [proc EXCEPT !["C"].traced = Works("TRACEME")]
          /\ cpc' = cpc + 1 /\ UNCHANGED <<mem, info>>
  /\ CUnchanged /\ UNCHANGED sem

CStore ==
  /\ CAt("store")
  /\ mem' = [mem EXCEPT ![CCode[cpc].at] = CCode[cpc].val] /\ cpc' = cpc + 1
  /\ CUnchanged /\ UNCHANGED <<proc, info, sem>>

\* The instruction at address c: breakpoint register, brk, rubbish, or plain.
CInsn ==
  LET c == CCode[cpc].at
      code == IF c \in Text THEN mem[c] ELSE "nop"
      trapped(sig, i) == proc' = [proc EXCEPT !["C"] = Raised("C", sig)] /\ info' = i /\ UNCHANGED cpc
  IN
  /\ CAt("site") \/ CAt("insn")
  /\ mem' = IF CCode[cpc].op = "site" THEN [mem EXCEPT !["inst_addr"] = c] ELSE mem
  /\ CASE mem["hwbrk"] = c -> trapped("TRAP", Trap("HWBKPT", c))
       [] mem["hwbrk"] # c /\ code = "brk" -> trapped("TRAP", Trap("BRKPT", c))
       [] mem["hwbrk"] # c /\ code \notin {"brk", "nop"} -> trapped("ILL", [NoInfo EXCEPT !.signo = "ILL"])
       [] mem["hwbrk"] # c /\ code = "nop" ->
            /\ cpc' = cpc + 1
            /\ IF proc["C"].mode = "SINGLESTEP"
               THEN /\ proc' = [proc EXCEPT !["C"] = Stopped("C", "TRAP")]
                    /\ info' = Trap("HWBKPT", CCode[cpc + 1].at)
               ELSE UNCHANGED <<proc, info>>
  /\ CUnchanged /\ UNCHANGED sem

\* The store instruction of get_or_do_store_inst(), which a watchpoint may stop.
CStoreInsn ==
  LET s == CCode[cpc] IN
  /\ CAt("storeinsn")
  /\ IF mem["hwwatch"] = s.to
     THEN /\ proc' = [proc EXCEPT !["C"] = Raised("C", "TRAP")] /\ info' = Trap("HWBKPT", s.to)
          /\ UNCHANGED <<cpc, mem>>
     ELSE mem' = [mem EXCEPT ![s.to] = s.val] /\ cpc' = cpc + 1 /\ UNCHANGED <<proc, info>>
  /\ CUnchanged /\ UNCHANGED sem

\* A system call: PTRACE_SYSCALL stops it at its entry.
CSyscall ==
  /\ CAt("syscall") /\ ~proc["C"].pend
  /\ cpc' = cpc + 1
  /\ IF proc["C"].mode = "SYSCALL"
     THEN /\ proc' = [proc EXCEPT !["C"] = Stopped("C", "TRAP")]
          /\ mem' = [mem EXCEPT !["sysno"] = CCode[cpc].no]
     ELSE UNCHANGED <<proc, mem>>
  /\ CUnchanged /\ UNCHANGED <<info, sem>>

\* fork() with PTRACE_O_TRACEFORK: G starts out traced, with a SIGSTOP pending,
\* and may stop before C reports the event.
CFork ==
  /\ CAt("fork") /\ ~proc["C"].pend
  /\ LET traces == mem["options"] = "TRACEFORK" IN
     proc' = [proc EXCEPT !["G"] = [NoProc EXCEPT !.st = "run", !.traced = traces, !.pend = traces]]
  /\ cpc' = cpc + 1
  /\ CUnchanged /\ UNCHANGED <<mem, info, sem>>

CForkEvent ==
  /\ CAt("forkevent")
  /\ cpc' = cpc + 1
  /\ IF mem["options"] = "TRACEFORK"
     THEN /\ proc' = [proc EXCEPT !["C"] = Stopped("C", "TRAP")]
          /\ mem' = [mem EXCEPT !["fork_msg"] = "G"]
     ELSE UNCHANGED <<proc, mem>>
  /\ CUnchanged /\ UNCHANGED <<info, sem>>

CSem ==
  /\ \/ CAt("cpost") /\ sem' = [sem EXCEPT ![CCode[cpc].sem] = @ + 1]
     \/ CAt("csemwait") /\ sem[CCode[cpc].sem] > 0 /\ sem' = [sem EXCEPT ![CCode[cpc].sem] = @ - 1]
  /\ cpc' = cpc + 1
  /\ CUnchanged /\ UNCHANGED <<proc, mem, info>>

CCheckMem ==
  LET s == CCode[cpc] IN
  /\ CAt("ccheck") \/ CAt("cchecknot")
  /\ IF (s.op = "ccheck") = (mem[s.at] = s.val)
     THEN cpc' = cpc + 1 /\ UNCHANGED <<proc, mem, info>>
     ELSE CExit("-1")
  /\ CUnchanged /\ UNCHANGED sem

\* munmap(), open(), ioctl(), mmap(): a pending SIGSTOP is taken on the way out.
CCall ==
  /\ CAt("call") /\ ~proc["C"].pend
  /\ IF CCode[cpc].req \in fault.refused THEN CExit("-1")
     ELSE cpc' = cpc + 1 /\ UNCHANGED <<proc, mem, info>>
  /\ CUnchanged /\ UNCHANGED sem

CEnd ==
  /\ proc["C"].st = "run" /\ cpc > Len(CCode) /\ CExit("0")
  /\ CUnchanged /\ UNCHANGED sem

\* A pending SIGSTOP stops its target, blocked or not.
TakeStop(p) ==
  /\ proc[p].st = "run" /\ proc[p].pend
  /\ proc' = [proc EXCEPT ![p] = Stopped(p, "STOP")]
  /\ info' = IF p = "C" THEN [signo |-> "STOP", code |-> "USER", addr |-> "none"] ELSE info
  /\ UNCHANGED <<test, fault, parentVars, cpc, mem, sem>>

\* The grandchild only calls _exit(0).
GExit ==
  /\ proc["G"].st = "run" /\ ~proc["G"].pend
  /\ proc' = [proc EXCEPT !["G"] = Ended("G", "exit", "0")]
  /\ UNCHANGED <<test, fault, parentVars, cpc, mem, info, sem>>

\* The run is over: nothing more to look at.
Over == verdict # "none" /\ UNCHANGED vars

Parent == PStart \/ PWait \/ PStopSig \/ PGet \/ PSet \/ PCheck \/ PMustFail \/ PGetInfo \/ PCheckInfo
          \/ PSetInfo \/ PResume \/ PAttach \/ PKill \/ PSem \/ PRead \/ POk \/ PVerdict
Child == CTraceme \/ CStore \/ CInsn \/ CStoreInsn \/ CSyscall \/ CFork \/ CForkEvent \/ CSem
         \/ CCheckMem \/ CCall \/ CEnd
Kernel == TakeStop("C") \/ TakeStop("G") \/ GExit

Next == Parent \/ Child \/ Kernel \/ Over
Spec == Init /\ [][Next]_vars

\* Every process that can run runs, and a signal that is pending is delivered.
FairSpec == Spec /\ WF_vars(Parent) /\ WF_vars(Child) /\ WF_vars(TakeStop("C"))
            /\ WF_vars(TakeStop("G")) /\ WF_vars(GExit)

-----------------------------------------------------------------------------
(* Correctness *)

\* Every variable keeps its type; the counters stay within the programs.
TypeOK ==
  /\ test \in DOMAIN Test
  /\ ppc \in 0..(Len(Code) + 1) /\ cpc \in 1..(Len(CCode) + 1)
  /\ ret \in {"ok", "fail"} /\ verdict \in {"none", "ok", "fail"}
  /\ DOMAIN reg = Reg /\ DOMAIN mem = Cell
  /\ \A p \in {"C", "G"} :
       /\ proc[p].st \in {"none", "run", "stop", "dead", "gone"}
       /\ proc[p].event => proc[p].st \in {"stop", "dead"}
       /\ proc[p].mode \in {"CONT", "SYSCALL", "SINGLESTEP"}
  /\ \A s \in DOMAIN sem : sem[s] \in 0..1

BadCalls == fault.refused \union fault.broken

\* On a kernel that follows ptrace(2), a test passes whatever the interleaving of
\* parent and child: no wait() meets the wrong event and no request comes too early.
NoFlake == fault = NoFault => verdict # "fail"

\* A test that passes has really exercised its subject: it never passes on a kernel
\* that refuses the request the test is about or carries it out wrongly.
VerdictIsSound ==
  verdict = "ok" => Subject[test] \intersect BadCalls = {}

\* "ok" comes from the child itself: it was waited for and its own code ended with
\* success (or with SIGKILL, in 018); no other process's status stands in for it.
OkMeansChildDone ==
  verdict = "ok" /\ test # "t000" =>
    /\ proc["C"].st = "gone"
    /\ proc["C"].status = IF test = "t018" THEN [kind |-> "sig", val |-> "KILL"]
                                           ELSE [kind |-> "exit", val |-> "0"]

\* On a good kernel every ptrace request finds the child stopped: the wait() calls
\* are in the right places.
RequestsMeetStoppedChild ==
  fault = NoFault /\ test # "t000" /\ ppc \in 1..Len(Code) /\ verdict = "none"
    /\ Code[ppc].op \in {"get", "set", "mustfail", "getinfo", "setinfo", "restoreinfo", "resume"}
  => proc["C"].st = "stop" /\ proc["C"].traced

\* A stopped child can be resumed, and the semaphore its partner waits on is posted:
\* the resuming requests work, and so do TRACEME and kill() in 009, which come
\* before a sem_post().
Resumable ==
  /\ BadCalls \intersect {"CONT", "KILL", "DETACH"} = {}
  /\ test = "t009" => BadCalls \intersect {"TRACEME", "kill"} = {}

\* On such a kernel every test reaches its verdict; neither a wait() nor a
\* semaphore blocks for ever.
Ends == Resumable => <>(verdict # "none")
=============================================================================
