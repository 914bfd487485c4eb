---------------------------- MODULE PtraceProgs ----------------------------
(***************************************************************************)
(* The test programs of test_mck/src/ptrace, written as data: what child_func() *)
(* and parent_func() of each test do, statement by statement, in the order *)
(* of the source.  Module Ptrace runs them.                                *)
(*                                                                         *)
(* A statement of parent_func() carries the place it jumps to when the     *)
(* call fails: "out" and "cont" are the labels of the source, "next" means *)
(* the failure is only printed, "skip" leaves out the statement after it;  *)
(* with "ret" at the end of the name ret becomes -1 as well.               *)
(* Child memory is a set of named cells: "site1" and "site2" hold the brk  *)
(* instructions a child stops at, "t" the instruction under test.          *)
(***************************************************************************)
EXTENDS Sequences

(* Statements of parent_func() *)

Wait(who) == [op |-> "wait", who |-> who, fail |-> "out"]
WaitElse(f) == [op |-> "wait", who |-> "any", fail |-> f]
StopSig(sig) == [op |-> "stopsig", sig |-> sig, fail |-> "cont"]
Get(req, at, to, f) == [op |-> "get", req |-> req, at |-> at, to |-> to, fail |-> f]
Set(req, at, val, f) == [op |-> "set", req |-> req, at |-> at, val |-> val, fail |-> f]
Check(a, b) == [op |-> "check", a |-> a, b |-> b, fail |-> "cont"]
MustFail(req, errno) == [op |-> "mustfail", req |-> req, errno |-> errno, fail |-> "cont"]
GetInfo(to) == [op |-> "getinfo", req |-> "GETSIGINFO", to |-> to, fail |-> "cont"]
CheckInfo(a, i) == [op |-> "checkinfo", a |-> a, info |-> i, fail |-> "cont"]
SetInfo(i) == [op |-> "setinfo", req |-> "SETSIGINFO", info |-> i, fail |-> "cont"]
RestoreInfo(a) == [op |-> "restoreinfo", req |-> "SETSIGINFO", a |-> a, fail |-> "cont"]
Resume(req, f) == [op |-> "resume", req |-> req, fail |-> f]
Attach == [op |-> "attach", req |-> "ATTACH", fail |-> "out"]
Kill(who, sig, f) == [op |-> "kill", who |-> who, sig |-> sig, fail |-> f]
Post(s) == [op |-> "post", sem |-> s]
SemWait(s) == [op |-> "semwait", sem |-> s]
ReadPipe(to) == [op |-> "read", req |-> "READ", to |-> to, fail |-> "outret"]
Ok == [op |-> "ok"]                            \* ret = 0
LastCont == [op |-> "resume", req |-> "CONT", fail |-> "ret"]   \* the code at cont:

Trap(code, addr) == [signo |-> "TRAP", code |-> code, addr |-> addr]

(* Statements of child_func(); each failure means exit(-1). *)

Traceme == [op |-> "traceme"]
Store(c, v) == [op |-> "store", at |-> c, val |-> v]
Site(c) == [op |-> "site", at |-> c]           \* the asm block around "brk #0"
Insn(c) == [op |-> "insn", at |-> c]           \* an instruction of get_or_do_inst()
StoreInsn(c, to, v) == [op |-> "storeinsn", at |-> c, to |-> to, val |-> v]
Syscall(n) == [op |-> "syscall", no |-> n]
Fork == [op |-> "fork"]
ForkEvent == [op |-> "forkevent"]              \* the kernel's stop inside fork()
CPost(s) == [op |-> "cpost", sem |-> s]
CSemWait(s) == [op |-> "csemwait", sem |-> s]
CCheck(c, v) == [op |-> "ccheck", at |-> c, val |-> v]
CCheckNot(c, v) == [op |-> "cchecknot", at |-> c, val |-> v]
Call(f) == [op |-> "call", req |-> f]          \* a call whose failure ends the child

\* Local variables of parent_func() and the helpers it calls, and child memory.
Reg == {"brk_addr", "read_val", "inst_val", "inst", "gregs", "fregs", "org_tls_val", "org_sysno",
        "tmp_val", "bpoint", "wpoint", "gregs_pc", "sysno_val", "eventmsg", "devmap"}
InfoReg == {"info", "org_info", "tmp_info"}
Cell == {"site1", "site2", "t", "inst_addr", "addr", "buf", "greg", "freg", "tls", "sysno", "hwbrk",
         "hwwatch", "pc", "regno0", "regno1", "options", "eventpid", "fork_msg", "dev"}
Text == {"site1", "site2", "t"}

-----------------------------------------------------------------------------
(* arch/arm64/arch_test_ptrace.c *)

rewrite_brk_inst(f) ==
  << Get("PEEKDATA", "inst_addr", "brk_addr", f), Set("POKETEXT", "brk_addr", "nop", f) >>

\* "Through": a failure inside rewrite_brk_inst() changes nothing else.
rewrite_brk_through ==
  << Get("PEEKDATA", "inst_addr", "brk_addr", "skip"), Set("POKETEXT", "brk_addr", "nop", "next") >>

get_or_do_inst == Insn("t")
get_or_do_store_inst(v) == StoreInsn("t", "buf", v)

pre_getregset == << Store("greg", "index"), Store("freg", "index") >>

\* Reads the six register sets and prints them.
getregset_check ==
  << Get("GETREGSET", "greg", "gregs", "cont"), Get("GETREGSET", "freg", "fregs", "cont"),
     Get("GETREGSET", "tls", "org_tls_val", "cont"), Get("GETREGSET", "hwbrk", "bpoint", "cont"),
     Get("GETREGSET", "hwwatch", "wpoint", "cont"), Get("GETREGSET", "sysno", "org_sysno", "cont") >>

\* Writes a register set, reads it back, and puts the old value back.
SetAndReadBack(cell, org, val) ==
  << Get("GETREGSET", cell, org, "cont"), Set("SETREGSET", cell, val, "cont"),
     Get("GETREGSET", cell, "tmp_val", "cont"), Check("tmp_val", val),
     Set("SETREGSET", cell, org, "cont") >>

setregset_check ==
  << Get("GETREGSET", "greg", "gregs", "cont"), Check("gregs", "index"),
     Set("SETREGSET", "greg", "magic", "cont"),
     Get("GETREGSET", "freg", "fregs", "cont"), Set("SETREGSET", "freg", "magic", "cont") >>
  \o SetAndReadBack("tls", "org_tls_val", "write_tls_val")
  \o SetAndReadBack("sysno", "org_sysno", "write_sysno")

setregset_child_check == << CCheck("greg", "magic"), CCheck("freg", "magic") >>

set_hw_watchpt(cell) ==
  << Get("GETREGSET", "hwwatch", "wpoint", "cont"), Set("SETREGSET", "hwwatch", cell, "cont") >>
clear_hw_watchpt ==
  << Get("GETREGSET", "hwwatch", "wpoint", "cont"), Set("SETREGSET", "hwwatch", "none", "cont") >>
set_hw_breakpt(reg) ==
  << Get("GETREGSET", "hwbrk", "bpoint", "cont"), Set("SETREGSET", "hwbrk", reg, "cont") >>
clear_hw_breakpt ==
  << Get("GETREGSET", "hwbrk", "bpoint", "cont"), Set("SETREGSET", "hwbrk", "none", "cont") >>
check_trap_addr(reg) == << Get("GETREGSET", "pc", "gregs_pc", "cont"), Check("gregs_pc", reg) >>
get_check_syscallno(n) == << Get("GETREGSET", "sysno", "sysno_val", "cont"), Check("sysno_val", n) >>

-----------------------------------------------------------------------------
(* parent_func() and child_func() of every test *)

Begin == << Wait("any") >> \o rewrite_brk_inst("cont")   \* how most parents begin
Success == << Ok, LastCont >>                               \* and end

Child001 == << Traceme, Site("site1") >>
Parent001 == << Wait("any") >> \o rewrite_brk_through \o << Resume("CONT", "out"), Ok >>

Child002 == << Traceme, Store("buf", "CHILD_MAGIC"), Site("site1"), CCheck("buf", "CHILD_MAGIC") >>
\* The comparison of the parent's own buf is left out: no request of the model writes to the memory of the parent.
Parent002 == Begin \o << Get("PEEKDATA", "buf", "read_val", "cont"), Check("read_val", "CHILD_MAGIC") >> \o Success

Child003 == << Traceme, Store("addr", "t"), Site("site1") >>
Parent003 ==
  Begin \o << Get("PEEKDATA", "addr", "read_val", "cont"), Get("PEEKTEXT", "read_val", "inst", "cont"),
                Check("inst", "nop") >> \o Success

Child004 == << Traceme, Site("site1") >>
Parent004 == Begin \o << MustFail("PEEKUSER", "EIO") >> \o Success

Child005 == << Traceme, Store("buf", "CHILD_MAGIC"), Site("site1"), CCheck("buf", "PARENT_MAGIC") >>
Parent005 == Begin \o << Set("POKEDATA", "buf", "PARENT_MAGIC", "cont") >> \o Success

Child006 == << Traceme, Store("addr", "t"), Site("site1"), get_or_do_inst >>

\* Shared by 006 and 017: make "t" a brk and run into it.  The check after
\* PTRACE_PEEKTEXT looks at read_val, so a failing PEEKTEXT is not noticed.
RunIntoBrk ==
  << Get("PEEKDATA", "addr", "read_val", "cont"), Get("PEEKTEXT", "read_val", "inst_val", "next"),
     Set("POKETEXT", "read_val", "brk", "cont"), Resume("CONT", "out"), Wait("any"), StopSig("TRAP") >>
RestoreText == << Set("POKETEXT", "read_val", "inst_val", "cont") >>

Parent006 ==
  Begin \o RunIntoBrk \o << GetInfo("info"), CheckInfo("info", Trap("BRKPT", "t")) >> \o RestoreText \o Success

Child007 == << Traceme, Site("site1") >>
Parent007 == Begin \o << MustFail("POKEUSER", "EIO") >> \o Success

Child008 == << Traceme >> \o pre_getregset \o << Site("site1") >>
Parent008 == Begin \o getregset_check \o Success

Child009 == << Traceme, CPost("pwait"), CSemWait("cwait"), Call("MUNMAP") >>
\* Mutants: the child let go before the signal is sent; never let go.
Parent009PostsFirst ==
  << SemWait("pwait"), Post("cwait"), Kill("C", "STOP", "out"), Wait("any"), GetInfo("info"),
     CheckInfo("info", [signo |-> "STOP", code |-> "USER", addr |-> "none"]) >> \o Success
Parent009NoPost ==
  << SemWait("pwait"), Kill("C", "STOP", "out"), Wait("any"), GetInfo("info"),
     CheckInfo("info", [signo |-> "STOP", code |-> "USER", addr |-> "none"]) >> \o Success

\* The order that matters: the signal is sent before the child may go on.
Parent009 ==
  << SemWait("pwait"), Kill("C", "STOP", "out"), Post("cwait"), Wait("any"), GetInfo("info"),
     CheckInfo("info", [signo |-> "STOP", code |-> "USER", addr |-> "none"]) >> \o Success

Child010 ==
  << Traceme >> \o pre_getregset \o << Site("site1"), CCheck("regno0", "regno"), CCheck("regno1", "regno") >> \o setregset_child_check
Parent010 ==
  Begin \o setregset_check \o << Set("POKEDATA", "regno0", "regno", "cont"), Set("POKEDATA", "regno1", "regno", "cont") >> \o Success

Child011 == << Traceme, Store("addr", "t"), Site("site1"), get_or_do_store_inst("CHILD_MAGIC") >>
Parent011 ==
  Begin \o << Get("PEEKDATA", "addr", "inst", "cont") >> \o set_hw_watchpt("buf")
  \o << Resume("CONT", "out"), Wait("any"), StopSig("TRAP"), GetInfo("info"), CheckInfo("info", Trap("HWBKPT", "buf")) >>
  \o check_trap_addr("inst") \o clear_hw_watchpt \o Success

Child012 == << Traceme, Store("addr", "t"), Site("site1"), get_or_do_inst >>
Parent012 ==
  Begin \o << Get("PEEKDATA", "addr", "inst", "cont") >> \o set_hw_breakpt("inst")
  \o << Resume("CONT", "out"), Wait("any"), StopSig("TRAP"), GetInfo("info"), CheckInfo("info", Trap("HWBKPT", "t")) >>
  \o clear_hw_breakpt \o Success

Child013 == << Traceme, Site("site1") >>
write_info == [signo |-> "TRAP+1", code |-> "BRKPT+1", addr |-> "any"]
\* Mutant: the siginfo is read back and not compared.
Parent013NotCompared ==
  Begin \o << GetInfo("org_info"), SetInfo(write_info), GetInfo("tmp_info"), RestoreInfo("org_info") >> \o Success
Parent013 ==
  Begin \o << GetInfo("org_info"), SetInfo(write_info), GetInfo("tmp_info"), CheckInfo("tmp_info", write_info),
                RestoreInfo("org_info") >> \o Success

Child014 == << Traceme, Site("site1") >>
Parent014 ==
  Begin \o << Set("SETOPTIONS", "options", "all", "cont"), MustFail("SETOPTIONS", "EINVAL") >> \o Success

Child015 ==
  << Traceme, Site("site1"), Call("GFORK"), Fork, ForkEvent, Store("eventpid", "G"), Site("site2") >>
Parent015 ==
  Begin
  \o << Set("SETOPTIONS", "options", "TRACEFORK", "cont"), Resume("CONT", "out"),
        Wait("any"), Resume("CONT", "out"), Wait("C") >>
  \o rewrite_brk_inst("cont")
  \o << Get("PEEKDATA", "eventpid", "read_val", "cont"), Get("GETEVENTMSG", "fork_msg", "eventmsg", "cont"),
        Check("read_val", "eventmsg"), Kill("G", "KILL", "next") >> \o Success

Child016 == << Traceme, Site("site1"), Syscall("getpid") >>
Parent016 ==
  Begin \o << Resume("SYSCALL", "cont"), Wait("any") >> \o get_check_syscallno("getpid") \o Success

\* The instructions from get_or_do_inst()'s label on: si_addr of the k-th step.
StepAddr == << "t+4", "t+8", "t+12", "t+16", "t+20" >>
Child017 ==
  << Traceme, Store("addr", "t"), Site("site1"), get_or_do_inst,
     Insn("t+4"), Insn("t+8"), Insn("t+12"), Insn("t+16"), Insn("t+20") >>
StepTurn(k) ==
  << Resume("SINGLESTEP", "cont"), Wait("any"), StopSig("TRAP"), GetInfo("info"),
     CheckInfo("info", Trap("HWBKPT", StepAddr[k])) >>
Parent017 ==
  Begin \o RunIntoBrk \o RestoreText
  \o StepTurn(1) \o StepTurn(2) \o StepTurn(3) \o StepTurn(4) \o StepTurn(5) \o Success

Child018 == << Traceme, Site("site1") >>
Parent018 == << Wait("any") >> \o rewrite_brk_through \o << Resume("KILL", "out"), Ok >>

Child019 == << CPost("pwait"), CSemWait("cwait"), Call("MUNMAP") >>
\* Mutant: PTRACE_CONT without waiting for the stop.
Parent019NoWait ==
  << SemWait("pwait"), Attach, Post("cwait"), Resume("CONT", "out"), Ok >>
Parent019 ==
  << SemWait("pwait"), Attach, Post("cwait"), Wait("any"), Resume("CONT", "out"), Ok >>

Child020 == << CPost("pwait"), CSemWait("cwait"), Call("MUNMAP") >>
Parent020 ==
  << SemWait("pwait"), Attach, Post("cwait"), Wait("any"), Resume("DETACH", "out"), Ok >>

Child021 ==
  << Call("OPEN"), Call("IOCTL"), Call("MMAP"), Store("dev", "zero"), Call("WRITE"), CPost("pipe"), Traceme, Site("site1"),
     CCheckNot("dev", "zero") >>
\* Here ret is the message, NULL (success) from the start.
Parent021 ==
  << Ok, ReadPipe("devmap"), WaitElse("contret") >> \o rewrite_brk_inst("cont")
  \o << Set("POKEDATA", "devmap", "0xFFFFFFFF", "contret"), LastCont >>

Child000 == << >>
Parent000 == << Resume("KILL", "next"), Ok >>

-----------------------------------------------------------------------------
(* RUN_FUNC(): how each test makes the child and reaches its verdict *)

\* wait child; then WEXITSTATUS(status) and func_ret decide.
Run(c, p) == [child |-> c, parent |-> p, needs |-> {"FORK"}, verdict |-> "exit"]
\* The same with two semaphores in shared memory, unmapped before wait().
RunSem(c, p) == [child |-> c, parent |-> p, needs |-> {"MMAP", "SEM_INIT", "FORK"}, verdict |-> "unmap"]

Test000 == [Run(Child000, Parent000) EXCEPT !.verdict = "none"]
Test001 == Run(Child001, Parent001)
Test002 == Run(Child002, Parent002)
Test003 == Run(Child003, Parent003)
Test004 == Run(Child004, Parent004)
Test005 == Run(Child005, Parent005)
Test006 == Run(Child006, Parent006)
Test007 == Run(Child007, Parent007)
Test008 == Run(Child008, Parent008)
Test009 == RunSem(Child009, Parent009)
Test010 == Run(Child010, Parent010)
Test011 == Run(Child011, Parent011)
Test012 == Run(Child012, Parent012)
Test013 == Run(Child013, Parent013)
Test014 == Run(Child014, Parent014)
Test015 == Run(Child015, Parent015)
Test016 == Run(Child016, Parent016)
Test017 == Run(Child017, Parent017)
Test018 == [Run(Child018, Parent018) EXCEPT !.verdict = "kill"]
Test019 == RunSem(Child019, Parent019)
Test020 == RunSem(Child020, Parent020)
Test021 == [Run(Child021, Parent021) EXCEPT !.needs = {"PIPE", "FORK"}, !.verdict = "assert"]

Test == [
  t000 |-> Test000, t001 |-> Test001, t002 |-> Test002, t003 |-> Test003,
  t004 |-> Test004, t005 |-> Test005, t006 |-> Test006, t007 |-> Test007,
  t008 |-> Test008, t009 |-> Test009, t010 |-> Test010, t011 |-> Test011,
  t012 |-> Test012, t013 |-> Test013, t014 |-> Test014, t015 |-> Test015,
  t016 |-> Test016, t017 |-> Test017, t018 |-> Test018, t019 |-> Test019,
  t020 |-> Test020, t021 |-> Test021 ]

\* The requests a test is about: the comment in its second line.
Subject == [
  t000 |-> {}, t001 |-> {"TRACEME", "CONT"}, t002 |-> {"PEEKDATA"}, t003 |-> {"PEEKTEXT"},
  t004 |-> {"PEEKUSER"}, t005 |-> {"POKEDATA"}, t006 |-> {"POKETEXT"}, t007 |-> {"POKEUSER"},
  t008 |-> {"GETREGSET"}, t009 |-> {"GETSIGINFO"}, t010 |-> {"SETREGSET"}, t011 |-> {"SETREGSET"},
  t012 |-> {"SETREGSET"}, t013 |-> {"SETSIGINFO"}, t014 |-> {"SETOPTIONS"}, t015 |-> {"GETEVENTMSG"},
  t016 |-> {"SYSCALL"}, t017 |-> {"SINGLESTEP"}, t018 |-> {"KILL"}, t019 |-> {"ATTACH"},
  t020 |-> {"DETACH"}, t021 |-> {"POKEDATA"} ]
=============================================================================
