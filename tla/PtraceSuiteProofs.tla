------------------------- MODULE PtraceSuiteProofs --------------------------
(***************************************************************************)
(* Facts about the 22 ptrace tests, whatever runs them.                    *)
(*                                                                         *)
(* What the tests have in common is a rule about their texts, TextOK: P    *)
(* makes its requests between a wait() that has succeeded and the request  *)
(* that lets the child go, the places of Hold, and no jump leads into such *)
(* places from outside.  It is shown for each of the 22 texts.             *)
(***************************************************************************)
EXTENDS Ptrace, TLAPS

\* The places of parent_func() at which the child has been waited for and not been let go.
Hold == [
  t000 |-> {}, t001 |-> 2..4, t002 |-> 2..7, t003 |-> 2..8, t004 |-> 2..6, t005 |-> 2..6,
  t006 |-> (2..7) \union (9..14), t007 |-> 2..6, t008 |-> 2..11, t009 |-> 5..8, t010 |-> 2..22,
  t011 |-> (2..7) \union (9..17), t012 |-> (2..7) \union (9..15), t013 |-> 2..10, t014 |-> 2..7,
  t015 |-> (2..5) \union (7..7) \union (9..16), t016 |-> (2..4) \union (6..9),
  t017 |-> (2..7) \union (9..11) \union (13..16) \union (18..21) \union (23..26) \union (28..31) \union (33..37),
  t018 |-> 2..4, t019 |-> 5..5, t020 |-> 5..5, t021 |-> 4..7 ]

\* Where parent_func() sets ret to success, where it first waits for a stop, where the child
\* asks to be traced, and where the child posts a semaphore or writes to the pipe.
OkAt == [
  t000 |-> 2, t001 |-> 5, t002 |-> 6, t003 |-> 7, t004 |-> 5, t005 |-> 5, t006 |-> 13, t007 |-> 5,
  t008 |-> 10, t009 |-> 7, t010 |-> 21, t011 |-> 16, t012 |-> 14, t013 |-> 9, t014 |-> 6, t015 |-> 15,
  t016 |-> 8, t017 |-> 36, t018 |-> 5, t019 |-> 6, t020 |-> 6, t021 |-> 1 ]
WaitAt == [
  t000 |-> 0, t001 |-> 1, t002 |-> 1, t003 |-> 1, t004 |-> 1, t005 |-> 1, t006 |-> 1, t007 |-> 1, t008 |-> 1,
  t009 |-> 4, t010 |-> 1, t011 |-> 1, t012 |-> 1, t013 |-> 1, t014 |-> 1, t015 |-> 1, t016 |-> 1, t017 |-> 1,
  t018 |-> 1, t019 |-> 4, t020 |-> 4, t021 |-> 3 ]
TraceAt == [
  t000 |-> 0, t001 |-> 1, t002 |-> 1, t003 |-> 1, t004 |-> 1, t005 |-> 1, t006 |-> 1, t007 |-> 1, t008 |-> 1,
  t009 |-> 1, t010 |-> 1, t011 |-> 1, t012 |-> 1, t013 |-> 1, t014 |-> 1, t015 |-> 1, t016 |-> 1, t017 |-> 1,
  t018 |-> 1, t019 |-> 0, t020 |-> 0, t021 |-> 7 ]
PostAt == [
  t000 |-> 0, t001 |-> 0, t002 |-> 0, t003 |-> 0, t004 |-> 0, t005 |-> 0, t006 |-> 0, t007 |-> 0, t008 |-> 0,
  t009 |-> 2, t010 |-> 0, t011 |-> 0, t012 |-> 0, t013 |-> 0, t014 |-> 0, t015 |-> 0, t016 |-> 0, t017 |-> 0,
  t018 |-> 0, t019 |-> 1, t020 |-> 1, t021 |-> 6 ]

H == Hold[test]

\* Statements that call ptrace() on a child that has to be stopped.
Requests == {"get", "set", "mustfail", "getinfo", "setinfo", "restoreinfo", "resume"}

\* The cells that parent_func() and child_func() name when they write.
Named == {"buf", "greg", "freg", "tls", "sysno", "regno0", "regno1", "hwbrk", "hwwatch", "options"}
Stored == {"buf", "addr", "greg", "freg", "eventpid", "dev"}

StmtOK(i) ==
  /\ Code[i].op \in Requests \union {"wait", "stopsig", "check", "checkinfo", "attach", "kill",
                                     "post", "semwait", "read", "ok"}
  /\ Code[i].op \in Requests => i \in H \/ test = "t000"
  /\ Code[i].op = "wait" => /\ i \notin H /\ i < Len(Code) /\ i >= WaitAt[test] /\ i + 1 \in H
                            /\ Code[i].fail = "out" \/ (Code[i].fail = "contret" /\ test = "t021")
  /\ Code[i].op # "wait" => (i + 1 \in H => i \in H /\ Code[i].op # "resume")
  /\ i = WaitAt[test] => Code[i].op = "wait"
  /\ Code[i].op \notin {"post", "semwait", "ok"} =>
       /\ Code[i].fail \in {"next", "ret", "skip", "cont", "contret", "out", "outret"}
       /\ Code[i].fail = "ret" => i = Len(Code)
       /\ Code[i].fail = "skip" => i + 2 < Len(Code) /\ (i + 2 \in H => i \in H) /\ i + 2 <= OkAt[test]
                                   /\ i >= WaitAt[test] /\ Code[i + 1].fail = "next"
       /\ Code[i].fail \in {"cont", "contret"} =>
            /\ Len(Code) \in H /\ Code[Len(Code)].op = "resume" /\ i < Len(Code)
            /\ i \in H \/ Code[i].op = "wait"
            /\ OkAt[test] < Len(Code)
       /\ Code[i].fail \in {"contret", "outret"} => test = "t021"
       /\ Code[i].fail = "out" => test # "t021"
  /\ Code[i].op = "resume" => /\ Code[i].req \in {"KILL", "CONT", "DETACH", "SYSCALL", "SINGLESTEP"}
                              /\ Code[i].req = "DETACH" => test = "t020"
                              /\ Code[i].req = "KILL" => test \in {"t000", "t018"}
                              /\ Code[i].req = "SYSCALL" => test = "t016"
                              /\ Code[i].req = "SINGLESTEP" => test = "t017"
                              /\ Code[i].fail # "skip"
  /\ Code[i].op = "attach" => /\ i \notin H /\ i + 1 \notin H /\ Code[i].fail = "out"
                              /\ test \in {"t019", "t020"} /\ Code[i].req = "ATTACH"
  /\ Code[i].op = "kill" =>
       \/ Code[i].who = "C" /\ Code[i].sig = "STOP" /\ i \notin H /\ i + 1 \notin H /\ Code[i].fail = "out"
       \/ Code[i].who = "G" /\ Code[i].sig = "KILL" /\ test = "t015"
  /\ Code[i].op = "post" => i = 3 /\ Code[i].sem = "cwait"
  /\ Code[i].op = "semwait" => Code[i].sem = "pwait"
  /\ Code[i].op = "ok" => i = OkAt[test]
  /\ Code[i].op = "get" => /\ Code[i].to = "brk_addr" => Code[i].at = "inst_addr"
                           /\ Code[i].to = "read_val" /\ test \in {"t006", "t017"} => Code[i].at = "addr"
                           /\ Code[i].to # "devmap"
  /\ Code[i].op = "read" => Code[i].to = "devmap" /\ test = "t021"
  /\ Code[i].op = "set" => \/ Code[i].at \in {"brk_addr", "devmap"} \union Named
                           \/ Code[i].at = "read_val" /\ test \in {"t006", "t017"}

CStmtOK(j) ==
  /\ CCode[j].op = "traceme" => j = TraceAt[test]
  /\ CCode[j].op = "cpost" => j = PostAt[test] /\ CCode[j].sem \in {"pwait", "pipe"}
  /\ CCode[j].op = "csemwait" => CCode[j].sem = "cwait"
  /\ CCode[j].op \in {"site", "insn", "storeinsn"} => test \notin {"t019", "t020"}
  /\ CCode[j].op = "store" => CCode[j].at \in Stored /\ (CCode[j].at = "addr" => CCode[j].val = "t")
  /\ CCode[j].op = "storeinsn" => CCode[j].to = "buf"
  /\ CCode[j].op = "site" => CCode[j].at \in {"site1", "site2"}
  /\ CCode[j].op \in {"fork", "forkevent"} => test = "t015"

\* The rule that all texts follow.
TextOK ==
  /\ DOMAIN Code = 1..Len(Code) /\ DOMAIN CCode = 1..Len(CCode)
  /\ Len(Code) \in Nat /\ Len(CCode) \in Nat
  /\ H \subseteq 1..Len(Code) /\ 1 \notin H /\ \A i \in H : i > WaitAt[test]
  /\ OkAt[test] \in 1..Len(Code) /\ WaitAt[test] \in 0..Len(Code)
  /\ TraceAt[test] \in 0..Len(CCode) /\ PostAt[test] \in 0..Len(CCode)
  /\ test \in {"t019", "t020"} => TraceAt[test] = 0
  /\ test = "t000" => Len(CCode) = 0
  /\ test \notin {"t000", "t021"} => WaitAt[test] < OkAt[test]
  /\ test # "t000" => WaitAt[test] >= 1
  /\ Test[test].verdict = "none" <=> test = "t000"
  /\ Test[test].verdict = "kill" <=> test = "t018"
  /\ Test[test].verdict = "assert" <=> test = "t021"
  /\ \A i \in 1..Len(Code) : StmtOK(i)
  /\ \A j \in 1..Len(CCode) : CStmtOK(j)

\* The statements of 000, parent and child.
LEMMA Text000 ==
  ASSUME test = "t000"
  PROVE  /\ Len(Code) = 2 /\ DOMAIN Code = 1..2
         /\ Len(CCode) = 0 /\ DOMAIN CCode = 1..0
         /\ Test[test].needs = {"FORK"} /\ Test[test].verdict = "none"
         /\ Code[1].op = "resume" /\ Code[1].req = "KILL" /\ Code[1].fail = "next"
         /\ Code[2].op = "ok"
<1>1. Code = Parent000 /\ CCode = Child000 /\ Test[test].needs = {"FORK"} /\ Test[test].verdict = "none"
  BY DEF Code, CCode, Test, Test000, Run
<1>2. /\ Len(Code) = 2 /\ DOMAIN Code = 1..2
      /\ Code[1] = Resume("KILL", "next")
      /\ Code[2] = Ok
  BY ONLY <1>1 DEF Parent000
<1>3. /\ Len(CCode) = 0 /\ DOMAIN CCode = 1..0
  BY ONLY <1>1 DEF Child000
<1>4. /\ Code[1].op = "resume" /\ Code[1].req = "KILL" /\ Code[1].fail = "next"
      /\ Code[2].op = "ok"
  BY ONLY <1>2 DEF Resume, Ok
<1>. QED  BY ONLY <1>1, <1>2, <1>3, <1>4

\* 000 keeps to the rules.
LEMMA Rules000 ==
  ASSUME test = "t000"
  PROVE  TextOK
<1>1. H = {} /\ OkAt[test] = 2 /\ TraceAt[test] = 0 /\ PostAt[test] = 0 /\ WaitAt[test] = 0
  BY DEF H, Hold, OkAt, TraceAt, PostAt, WaitAt
<1>2. /\ Len(Code) = 2 /\ DOMAIN Code = 1..2 /\ Len(CCode) = 0 /\ DOMAIN CCode = 1..0
      /\ Test[test].verdict = "none"
  BY Text000
<1>3. StmtOK(1)
  <2>1. Code[1].op = "resume" /\ Code[1].req = "KILL" /\ Code[1].fail = "next"
    BY Text000
  <2>. QED  BY ONLY test = "t000", <1>1, <1>2, <2>1 DEF StmtOK, Requests, Named
<1>4. StmtOK(2)
  <2>1. Code[2].op = "ok"
    BY Text000
  <2>. QED  BY ONLY test = "t000", <1>1, <1>2, <2>1 DEF StmtOK, Requests, Named
<1>5. \A i \in 1..2 : StmtOK(i)
  BY ONLY <1>3, <1>4
<1>6. \A j \in 1..0 : CStmtOK(j)
  OBVIOUS
<1>. QED  BY ONLY test = "t000", <1>1, <1>2, <1>5, <1>6 DEF TextOK

\* The statements of 001, parent and child.
LEMMA Text001 ==
  ASSUME test = "t001"
  PROVE  /\ Len(Code) = 5 /\ DOMAIN Code = 1..5
         /\ Len(CCode) = 2 /\ DOMAIN CCode = 1..2
         /\ Test[test].needs = {"FORK"} /\ Test[test].verdict = "exit"
         /\ Code[1].op = "wait" /\ Code[1].who = "any" /\ Code[1].fail = "out"
         /\ Code[2].op = "get" /\ Code[2].req = "PEEKDATA" /\ Code[2].at = "inst_addr" /\ Code[2].to = "brk_addr" /\ Code[2].fail = "skip"
         /\ Code[3].op = "set" /\ Code[3].req = "POKETEXT" /\ Code[3].at = "brk_addr" /\ Code[3].val = "nop" /\ Code[3].fail = "next"
         /\ Code[4].op = "resume" /\ Code[4].req = "CONT" /\ Code[4].fail = "out"
         /\ Code[5].op = "ok"
         /\ CCode[1].op = "traceme"
         /\ CCode[2].op = "site" /\ CCode[2].at = "site1"
<1>1. Code = Parent001 /\ CCode = Child001 /\ Test[test].needs = {"FORK"} /\ Test[test].verdict = "exit"
  BY DEF Code, CCode, Test, Test001, Run
<1>2. /\ Len(Code) = 5 /\ DOMAIN Code = 1..5
      /\ Code[1] = Wait("any")
      /\ Code[2] = Get("PEEKDATA", "inst_addr", "brk_addr", "skip")
      /\ Code[3] = Set("POKETEXT", "brk_addr", "nop", "next")
      /\ Code[4] = Resume("CONT", "out")
      /\ Code[5] = Ok
  BY ONLY <1>1 DEF Parent001, rewrite_brk_through
<1>3. /\ Len(CCode) = 2 /\ DOMAIN CCode = 1..2
      /\ CCode[1] = Traceme
      /\ CCode[2] = Site("site1")
  BY ONLY <1>1 DEF Child001
<1>4. /\ Code[1].op = "wait" /\ Code[1].who = "any" /\ Code[1].fail = "out"
      /\ Code[2].op = "get" /\ Code[2].req = "PEEKDATA" /\ Code[2].at = "inst_addr" /\ Code[2].to = "brk_addr" /\ Code[2].fail = "skip"
      /\ Code[3].op = "set" /\ Code[3].req = "POKETEXT" /\ Code[3].at = "brk_addr" /\ Code[3].val = "nop" /\ Code[3].fail = "next"
      /\ Code[4].op = "resume" /\ Code[4].req = "CONT" /\ Code[4].fail = "out"
      /\ Code[5].op = "ok"
  BY ONLY <1>2 DEF Wait, Get, Set, Resume, Ok
<1>5. /\ CCode[1].op = "traceme"
      /\ CCode[2].op = "site" /\ CCode[2].at = "site1"
  BY ONLY <1>3 DEF Traceme, Site
<1>. QED  BY ONLY <1>1, <1>2, <1>3, <1>4, <1>5

\* 001 keeps to the rules.
LEMMA Rules001 ==
  ASSUME test = "t001"
  PROVE  TextOK
<1>1. H = 2..4 /\ OkAt[test] = 5 /\ TraceAt[test] = 1 /\ PostAt[test] = 0 /\ WaitAt[test] = 1
  BY DEF H, Hold, OkAt, TraceAt, PostAt, WaitAt
<1>2. /\ Len(Code) = 5 /\ DOMAIN Code = 1..5 /\ Len(CCode) = 2 /\ DOMAIN CCode = 1..2
      /\ Test[test].verdict = "exit"
  BY Text001
<1>3. StmtOK(1)
  <2>1. Code[1].op = "wait" /\ Code[1].who = "any" /\ Code[1].fail = "out"
    BY Text001
  <2>. QED  BY ONLY test = "t001", <1>1, <1>2, <2>1 DEF StmtOK, Requests, Named
<1>4. StmtOK(2)
  <2>1. /\ Code[2].op = "get" /\ Code[2].req = "PEEKDATA" /\ Code[2].at = "inst_addr" /\ Code[2].to = "brk_addr" /\ Code[2].fail = "skip"
        /\ Code[3].fail = "next"
    BY Text001
  <2>. QED  BY ONLY test = "t001", <1>1, <1>2, <2>1 DEF StmtOK, Requests, Named
<1>5. StmtOK(3)
  <2>1. Code[3].op = "set" /\ Code[3].req = "POKETEXT" /\ Code[3].at = "brk_addr" /\ Code[3].val = "nop" /\ Code[3].fail = "next"
    BY Text001
  <2>. QED  BY ONLY test = "t001", <1>1, <1>2, <2>1 DEF StmtOK, Requests, Named
<1>6. StmtOK(4)
  <2>1. Code[4].op = "resume" /\ Code[4].req = "CONT" /\ Code[4].fail = "out"
    BY Text001
  <2>. QED  BY ONLY test = "t001", <1>1, <1>2, <2>1 DEF StmtOK, Requests, Named
<1>7. StmtOK(5)
  <2>1. Code[5].op = "ok"
    BY Text001
  <2>. QED  BY ONLY test = "t001", <1>1, <1>2, <2>1 DEF StmtOK, Requests, Named
<1>8. CStmtOK(1)
  <2>1. CCode[1].op = "traceme"
    BY Text001
  <2>. QED  BY ONLY test = "t001", <1>1, <1>2, <2>1 DEF CStmtOK, Stored
<1>9. CStmtOK(2)
  <2>1. CCode[2].op = "site" /\ CCode[2].at = "site1"
    BY Text001
  <2>. QED  BY ONLY test = "t001", <1>1, <1>2, <2>1 DEF CStmtOK, Stored
<1>10. \A i \in 1..5 : StmtOK(i)
  BY ONLY <1>3, <1>4, <1>5, <1>6, <1>7
<1>11. \A j \in 1..2 : CStmtOK(j)
  BY ONLY <1>8, <1>9
<1>. QED  BY ONLY test = "t001", <1>1, <1>2, <1>10, <1>11 DEF TextOK

\* The statements of 002, parent and child.
LEMMA Text002 ==
  ASSUME test = "t002"
  PROVE  /\ Len(Code) = 7 /\ DOMAIN Code = 1..7
         /\ Len(CCode) = 4 /\ DOMAIN CCode = 1..4
         /\ Test[test].needs = {"FORK"} /\ Test[test].verdict = "exit"
         /\ Code[1].op = "wait" /\ Code[1].who = "any" /\ Code[1].fail = "out"
         /\ Code[2].op = "get" /\ Code[2].req = "PEEKDATA" /\ Code[2].at = "inst_addr" /\ Code[2].to = "brk_addr" /\ Code[2].fail = "cont"
         /\ Code[3].op = "set" /\ Code[3].req = "POKETEXT" /\ Code[3].at = "brk_addr" /\ Code[3].val = "nop" /\ Code[3].fail = "cont"
         /\ Code[4].op = "get" /\ Code[4].req = "PEEKDATA" /\ Code[4].at = "buf" /\ Code[4].to = "read_val" /\ Code[4].fail = "cont"
         /\ Code[5].op = "check" /\ Code[5].a = "read_val" /\ Code[5].b = "CHILD_MAGIC" /\ Code[5].fail = "cont"
         /\ Code[6].op = "ok"
         /\ Code[7].op = "resume" /\ Code[7].req = "CONT" /\ Code[7].fail = "ret"
         /\ CCode[1].op = "traceme"
         /\ CCode[2].op = "store" /\ CCode[2].at = "buf" /\ CCode[2].val = "CHILD_MAGIC"
         /\ CCode[3].op = "site" /\ CCode[3].at = "site1"
         /\ CCode[4].op = "ccheck" /\ CCode[4].at = "buf" /\ CCode[4].val = "CHILD_MAGIC"
<1>1. Code = Parent002 /\ CCode = Child002 /\ Test[test].needs = {"FORK"} /\ Test[test].verdict = "exit"
  BY DEF Code, CCode, Test, Test002, Run
<1>2. /\ Len(Code) = 7 /\ DOMAIN Code = 1..7
      /\ Code[1] = Wait("any")
      /\ Code[2] = Get("PEEKDATA", "inst_addr", "brk_addr", "cont")
      /\ Code[3] = Set("POKETEXT", "brk_addr", "nop", "cont")
      /\ Code[4] = Get("PEEKDATA", "buf", "read_val", "cont")
      /\ Code[5] = Check("read_val", "CHILD_MAGIC")
      /\ Code[6] = Ok
      /\ Code[7] = LastCont
  BY ONLY <1>1 DEF Parent002, Begin, rewrite_brk_inst, Success
<1>3. /\ Len(CCode) = 4 /\ DOMAIN CCode = 1..4
      /\ CCode[1] = Traceme
      /\ CCode[2] = Store("buf", "CHILD_MAGIC")
      /\ CCode[3] = Site("site1")
      /\ CCode[4] = CCheck("buf", "CHILD_MAGIC")
  BY ONLY <1>1 DEF Child002
<1>4. /\ Code[1].op = "wait" /\ Code[1].who = "any" /\ Code[1].fail = "out"
      /\ Code[2].op = "get" /\ Code[2].req = "PEEKDATA" /\ Code[2].at = "inst_addr" /\ Code[2].to = "brk_addr" /\ Code[2].fail = "cont"
      /\ Code[3].op = "set" /\ Code[3].req = "POKETEXT" /\ Code[3].at = "brk_addr" /\ Code[3].val = "nop" /\ Code[3].fail = "cont"
      /\ Code[4].op = "get" /\ Code[4].req = "PEEKDATA" /\ Code[4].at = "buf" /\ Code[4].to = "read_val" /\ Code[4].fail = "cont"
      /\ Code[5].op = "check" /\ Code[5].a = "read_val" /\ Code[5].b = "CHILD_MAGIC" /\ Code[5].fail = "cont"
      /\ Code[6].op = "ok"
  BY ONLY <1>2 DEF Wait, Get, Set, Check, Ok
<1>5. /\ Code[7].op = "resume" /\ Code[7].req = "CONT" /\ Code[7].fail = "ret"
  BY ONLY <1>2 DEF LastCont
<1>6. /\ CCode[1].op = "traceme"
      /\ CCode[2].op = "store" /\ CCode[2].at = "buf" /\ CCode[2].val = "CHILD_MAGIC"
      /\ CCode[3].op = "site" /\ CCode[3].at = "site1"
      /\ CCode[4].op = "ccheck" /\ CCode[4].at = "buf" /\ CCode[4].val = "CHILD_MAGIC"
  BY ONLY <1>3 DEF Traceme, Store, Site, CCheck
<1>. QED  BY ONLY <1>1, <1>2, <1>3, <1>4, <1>5, <1>6

\* 002 keeps to the rules.
LEMMA Rules002 ==
  ASSUME test = "t002"
  PROVE  TextOK
<1>1. H = 2..7 /\ OkAt[test] = 6 /\ TraceAt[test] = 1 /\ PostAt[test] = 0 /\ WaitAt[test] = 1
  BY DEF H, Hold, OkAt, TraceAt, PostAt, WaitAt
<1>2. /\ Len(Code) = 7 /\ DOMAIN Code = 1..7 /\ Len(CCode) = 4 /\ DOMAIN CCode = 1..4
      /\ Test[test].verdict = "exit"
  BY Text002
<1>3. StmtOK(1)
  <2>1. Code[1].op = "wait" /\ Code[1].who = "any" /\ Code[1].fail = "out"
    BY Text002
  <2>. QED  BY ONLY test = "t002", <1>1, <1>2, <2>1 DEF StmtOK, Requests, Named
<1>4. StmtOK(2)
  <2>1. /\ Code[2].op = "get" /\ Code[2].req = "PEEKDATA" /\ Code[2].at = "inst_addr" /\ Code[2].to = "brk_addr" /\ Code[2].fail = "cont"
        /\ Code[7].op = "resume"
    BY Text002
  <2>. QED  BY ONLY test = "t002", <1>1, <1>2, <2>1 DEF StmtOK, Requests, Named
<1>5. StmtOK(3)
  <2>1. /\ Code[3].op = "set" /\ Code[3].req = "POKETEXT" /\ Code[3].at = "brk_addr" /\ Code[3].val = "nop" /\ Code[3].fail = "cont"
        /\ Code[7].op = "resume"
    BY Text002
  <2>. QED  BY ONLY test = "t002", <1>1, <1>2, <2>1 DEF StmtOK, Requests, Named
<1>6. StmtOK(4)
  <2>1. /\ Code[4].op = "get" /\ Code[4].req = "PEEKDATA" /\ Code[4].at = "buf" /\ Code[4].to = "read_val" /\ Code[4].fail = "cont"
        /\ Code[7].op = "resume"
    BY Text002
  <2>. QED  BY ONLY test = "t002", <1>1, <1>2, <2>1 DEF StmtOK, Requests, Named
<1>7. StmtOK(5)
  <2>1. /\ Code[5].op = "check" /\ Code[5].a = "read_val" /\ Code[5].b = "CHILD_MAGIC" /\ Code[5].fail = "cont"
        /\ Code[7].op = "resume"
    BY Text002
  <2>. QED  BY ONLY test = "t002", <1>1, <1>2, <2>1 DEF StmtOK, Requests, Named
<1>8. StmtOK(6)
  <2>1. Code[6].op = "ok"
    BY Text002
  <2>. QED  BY ONLY test = "t002", <1>1, <1>2, <2>1 DEF StmtOK, Requests, Named
<1>9. StmtOK(7)
  <2>1. Code[7].op = "resume" /\ Code[7].req = "CONT" /\ Code[7].fail = "ret"
    BY Text002
  <2>. QED  BY ONLY test = "t002", <1>1, <1>2, <2>1 DEF StmtOK, Requests, Named
<1>10. CStmtOK(1)
  <2>1. CCode[1].op = "traceme"
    BY Text002
  <2>. QED  BY ONLY test = "t002", <1>1, <1>2, <2>1 DEF CStmtOK, Stored
<1>11. CStmtOK(2)
  <2>1. CCode[2].op = "store" /\ CCode[2].at = "buf" /\ CCode[2].val = "CHILD_MAGIC"
    BY Text002
  <2>. QED  BY ONLY test = "t002", <1>1, <1>2, <2>1 DEF CStmtOK, Stored
<1>12. CStmtOK(3)
  <2>1. CCode[3].op = "site" /\ CCode[3].at = "site1"
    BY Text002
  <2>. QED  BY ONLY test = "t002", <1>1, <1>2, <2>1 DEF CStmtOK, Stored
<1>13. CStmtOK(4)
  <2>1. CCode[4].op = "ccheck" /\ CCode[4].at = "buf" /\ CCode[4].val = "CHILD_MAGIC"
    BY Text002
  <2>. QED  BY ONLY test = "t002", <1>1, <1>2, <2>1 DEF CStmtOK, Stored
<1>14. \A i \in 1..7 : StmtOK(i)
  BY ONLY <1>3, <1>4, <1>5, <1>6, <1>7, <1>8, <1>9
<1>15. \A j \in 1..4 : CStmtOK(j)
  BY ONLY <1>10, <1>11, <1>12, <1>13
<1>. QED  BY ONLY test = "t002", <1>1, <1>2, <1>14, <1>15 DEF TextOK

\* The statements of 003, parent and child.
LEMMA Text003 ==
  ASSUME test = "t003"
  PROVE  /\ Len(Code) = 8 /\ DOMAIN Code = 1..8
         /\ Len(CCode) = 3 /\ DOMAIN CCode = 1..3
         /\ Test[test].needs = {"FORK"} /\ Test[test].verdict = "exit"
         /\ Code[1].op = "wait" /\ Code[1].who = "any" /\ Code[1].fail = "out"
         /\ Code[2].op = "get" /\ Code[2].req = "PEEKDATA" /\ Code[2].at = "inst_addr" /\ Code[2].to = "brk_addr" /\ Code[2].fail = "cont"
         /\ Code[3].op = "set" /\ Code[3].req = "POKETEXT" /\ Code[3].at = "brk_addr" /\ Code[3].val = "nop" /\ Code[3].fail = "cont"
         /\ Code[4].op = "get" /\ Code[4].req = "PEEKDATA" /\ Code[4].at = "addr" /\ Code[4].to = "read_val" /\ Code[4].fail = "cont"
         /\ Code[5].op = "get" /\ Code[5].req = "PEEKTEXT" /\ Code[5].at = "read_val" /\ Code[5].to = "inst" /\ Code[5].fail = "cont"
         /\ Code[6].op = "check" /\ Code[6].a = "inst" /\ Code[6].b = "nop" /\ Code[6].fail = "cont"
         /\ Code[7].op = "ok"
         /\ Code[8].op = "resume" /\ Code[8].req = "CONT" /\ Code[8].fail = "ret"
         /\ CCode[1].op = "traceme"
         /\ CCode[2].op = "store" /\ CCode[2].at = "addr" /\ CCode[2].val = "t"
         /\ CCode[3].op = "site" /\ CCode[3].at = "site1"
<1>1. Code = Parent003 /\ CCode = Child003 /\ Test[test].needs = {"FORK"} /\ Test[test].verdict = "exit"
  BY DEF Code, CCode, Test, Test003, Run
<1>2. /\ Len(Code) = 8 /\ DOMAIN Code = 1..8
      /\ Code[1] = Wait("any")
      /\ Code[2] = Get("PEEKDATA", "inst_addr", "brk_addr", "cont")
      /\ Code[3] = Set("POKETEXT", "brk_addr", "nop", "cont")
      /\ Code[4] = Get("PEEKDATA", "addr", "read_val", "cont")
      /\ Code[5] = Get("PEEKTEXT", "read_val", "inst", "cont")
      /\ Code[6] = Check("inst", "nop")
      /\ Code[7] = Ok
      /\ Code[8] = LastCont
  BY ONLY <1>1 DEF Parent003, Begin, rewrite_brk_inst, Success
<1>3. /\ Len(CCode) = 3 /\ DOMAIN CCode = 1..3
      /\ CCode[1] = Traceme
      /\ CCode[2] = Store("addr", "t")
      /\ CCode[3] = Site("site1")
  BY ONLY <1>1 DEF Child003
<1>4. /\ Code[1].op = "wait" /\ Code[1].who = "any" /\ Code[1].fail = "out"
      /\ Code[2].op = "get" /\ Code[2].req = "PEEKDATA" /\ Code[2].at = "inst_addr" /\ Code[2].to = "brk_addr" /\ Code[2].fail = "cont"
      /\ Code[3].op = "set" /\ Code[3].req = "POKETEXT" /\ Code[3].at = "brk_addr" /\ Code[3].val = "nop" /\ Code[3].fail = "cont"
      /\ Code[4].op = "get" /\ Code[4].req = "PEEKDATA" /\ Code[4].at = "addr" /\ Code[4].to = "read_val" /\ Code[4].fail = "cont"
      /\ Code[5].op = "get" /\ Code[5].req = "PEEKTEXT" /\ Code[5].at = "read_val" /\ Code[5].to = "inst" /\ Code[5].fail = "cont"
      /\ Code[6].op = "check" /\ Code[6].a = "inst" /\ Code[6].b = "nop" /\ Code[6].fail = "cont"
  BY ONLY <1>2 DEF Wait, Get, Set, Check
<1>5. /\ Code[7].op = "ok"
      /\ Code[8].op = "resume" /\ Code[8].req = "CONT" /\ Code[8].fail = "ret"
  BY ONLY <1>2 DEF Ok, LastCont
<1>6. /\ CCode[1].op = "traceme"
      /\ CCode[2].op = "store" /\ CCode[2].at = "addr" /\ CCode[2].val = "t"
      /\ CCode[3].op = "site" /\ CCode[3].at = "site1"
  BY ONLY <1>3 DEF Traceme, Store, Site
<1>. QED  BY ONLY <1>1, <1>2, <1>3, <1>4, <1>5, <1>6

\* 003 keeps to the rules.
LEMMA Rules003 ==
  ASSUME test = "t003"
  PROVE  TextOK
<1>1. H = 2..8 /\ OkAt[test] = 7 /\ TraceAt[test] = 1 /\ PostAt[test] = 0 /\ WaitAt[test] = 1
  BY DEF H, Hold, OkAt, TraceAt, PostAt, WaitAt
<1>2. /\ Len(Code) = 8 /\ DOMAIN Code = 1..8 /\ Len(CCode) = 3 /\ DOMAIN CCode = 1..3
      /\ Test[test].verdict = "exit"
  BY Text003
<1>3. StmtOK(1)
  <2>1. Code[1].op = "wait" /\ Code[1].who = "any" /\ Code[1].fail = "out"
    BY Text003
  <2>. QED  BY ONLY test = "t003", <1>1, <1>2, <2>1 DEF StmtOK, Requests, Named
<1>4. StmtOK(2)
  <2>1. /\ Code[2].op = "get" /\ Code[2].req = "PEEKDATA" /\ Code[2].at = "inst_addr" /\ Code[2].to = "brk_addr" /\ Code[2].fail = "cont"
        /\ Code[8].op = "resume"
    BY Text003
  <2>. QED  BY ONLY test = "t003", <1>1, <1>2, <2>1 DEF StmtOK, Requests, Named
<1>5. StmtOK(3)
  <2>1. /\ Code[3].op = "set" /\ Code[3].req = "POKETEXT" /\ Code[3].at = "brk_addr" /\ Code[3].val = "nop" /\ Code[3].fail = "cont"
        /\ Code[8].op = "resume"
    BY Text003
  <2>. QED  BY ONLY test = "t003", <1>1, <1>2, <2>1 DEF StmtOK, Requests, Named
<1>6. StmtOK(4)
  <2>1. /\ Code[4].op = "get" /\ Code[4].req = "PEEKDATA" /\ Code[4].at = "addr" /\ Code[4].to = "read_val" /\ Code[4].fail = "cont"
        /\ Code[8].op = "resume"
    BY Text003
  <2>. QED  BY ONLY test = "t003", <1>1, <1>2, <2>1 DEF StmtOK, Requests, Named
<1>7. StmtOK(5)
  <2>1. /\ Code[5].op = "get" /\ Code[5].req = "PEEKTEXT" /\ Code[5].at = "read_val" /\ Code[5].to = "inst" /\ Code[5].fail = "cont"
        /\ Code[8].op = "resume"
    BY Text003
  <2>. QED  BY ONLY test = "t003", <1>1, <1>2, <2>1 DEF StmtOK, Requests, Named
<1>8. StmtOK(6)
  <2>1. /\ Code[6].op = "check" /\ Code[6].a = "inst" /\ Code[6].b = "nop" /\ Code[6].fail = "cont"
        /\ Code[8].op = "resume"
    BY Text003
  <2>. QED  BY ONLY test = "t003", <1>1, <1>2, <2>1 DEF StmtOK, Requests, Named
<1>9. StmtOK(7)
  <2>1. Code[7].op = "ok"
    BY Text003
  <2>. QED  BY ONLY test = "t003", <1>1, <1>2, <2>1 DEF StmtOK, Requests, Named
<1>10. StmtOK(8)
  <2>1. Code[8].op = "resume" /\ Code[8].req = "CONT" /\ Code[8].fail = "ret"
    BY Text003
  <2>. QED  BY ONLY test = "t003", <1>1, <1>2, <2>1 DEF StmtOK, Requests, Named
<1>11. CStmtOK(1)
  <2>1. CCode[1].op = "traceme"
    BY Text003
  <2>. QED  BY ONLY test = "t003", <1>1, <1>2, <2>1 DEF CStmtOK, Stored
<1>12. CStmtOK(2)
  <2>1. CCode[2].op = "store" /\ CCode[2].at = "addr" /\ CCode[2].val = "t"
    BY Text003
  <2>. QED  BY ONLY test = "t003", <1>1, <1>2, <2>1 DEF CStmtOK, Stored
<1>13. CStmtOK(3)
  <2>1. CCode[3].op = "site" /\ CCode[3].at = "site1"
    BY Text003
  <2>. QED  BY ONLY test = "t003", <1>1, <1>2, <2>1 DEF CStmtOK, Stored
<1>14. \A i \in 1..8 : StmtOK(i)
  BY ONLY <1>3, <1>4, <1>5, <1>6, <1>7, <1>8, <1>9, <1>10
<1>15. \A j \in 1..3 : CStmtOK(j)
  BY ONLY <1>11, <1>12, <1>13
<1>. QED  BY ONLY test = "t003", <1>1, <1>2, <1>14, <1>15 DEF TextOK

\* The statements of 004, parent and child.
LEMMA Text004 ==
  ASSUME test = "t004"
  PROVE  /\ Len(Code) = 6 /\ DOMAIN Code = 1..6
         /\ Len(CCode) = 2 /\ DOMAIN CCode = 1..2
         /\ Test[test].needs = {"FORK"} /\ Test[test].verdict = "exit"
         /\ Code[1].op = "wait" /\ Code[1].who = "any" /\ Code[1].fail = "out"
         /\ Code[2].op = "get" /\ Code[2].req = "PEEKDATA" /\ Code[2].at = "inst_addr" /\ Code[2].to = "brk_addr" /\ Code[2].fail = "cont"
         /\ Code[3].op = "set" /\ Code[3].req = "POKETEXT" /\ Code[3].at = "brk_addr" /\ Code[3].val = "nop" /\ Code[3].fail = "cont"
         /\ Code[4].op = "mustfail" /\ Code[4].req = "PEEKUSER" /\ Code[4].fail = "cont"
         /\ Code[5].op = "ok"
         /\ Code[6].op = "resume" /\ Code[6].req = "CONT" /\ Code[6].fail = "ret"
         /\ CCode[1].op = "traceme"
         /\ CCode[2].op = "site" /\ CCode[2].at = "site1"
<1>1. Code = Parent004 /\ CCode = Child004 /\ Test[test].needs = {"FORK"} /\ Test[test].verdict = "exit"
  BY DEF Code, CCode, Test, Test004, Run
<1>2. /\ Len(Code) = 6 /\ DOMAIN Code = 1..6
      /\ Code[1] = Wait("any")
      /\ Code[2] = Get("PEEKDATA", "inst_addr", "brk_addr", "cont")
      /\ Code[3] = Set("POKETEXT", "brk_addr", "nop", "cont")
      /\ Code[4] = MustFail("PEEKUSER", "EIO")
      /\ Code[5] = Ok
      /\ Code[6] = LastCont
  BY ONLY <1>1 DEF Parent004, Begin, rewrite_brk_inst, Success
<1>3. /\ Len(CCode) = 2 /\ DOMAIN CCode = 1..2
      /\ CCode[1] = Traceme
      /\ CCode[2] = Site("site1")
  BY ONLY <1>1 DEF Child004
<1>4. /\ Code[1].op = "wait" /\ Code[1].who = "any" /\ Code[1].fail = "out"
      /\ Code[2].op = "get" /\ Code[2].req = "PEEKDATA" /\ Code[2].at = "inst_addr" /\ Code[2].to = "brk_addr" /\ Code[2].fail = "cont"
      /\ Code[3].op = "set" /\ Code[3].req = "POKETEXT" /\ Code[3].at = "brk_addr" /\ Code[3].val = "nop" /\ Code[3].fail = "cont"
      /\ Code[4].op = "mustfail" /\ Code[4].req = "PEEKUSER" /\ Code[4].fail = "cont"
      /\ Code[5].op = "ok"
      /\ Code[6].op = "resume" /\ Code[6].req = "CONT" /\ Code[6].fail = "ret"
  BY ONLY <1>2 DEF Wait, Get, Set, MustFail, Ok, LastCont
<1>5. /\ CCode[1].op = "traceme"
      /\ CCode[2].op = "site" /\ CCode[2].at = "site1"
  BY ONLY <1>3 DEF Traceme, Site
<1>. QED  BY ONLY <1>1, <1>2, <1>3, <1>4, <1>5

\* 004 keeps to the rules.
LEMMA Rules004 ==
  ASSUME test = "t004"
  PROVE  TextOK
<1>1. H = 2..6 /\ OkAt[test] = 5 /\ TraceAt[test] = 1 /\ PostAt[test] = 0 /\ WaitAt[test] = 1
  BY DEF H, Hold, OkAt, TraceAt, PostAt, WaitAt
<1>2. /\ Len(Code) = 6 /\ DOMAIN Code = 1..6 /\ Len(CCode) = 2 /\ DOMAIN CCode = 1..2
      /\ Test[test].verdict = "exit"
  BY Text004
<1>3. StmtOK(1)
  <2>1. Code[1].op = "wait" /\ Code[1].who = "any" /\ Code[1].fail = "out"
    BY Text004
  <2>. QED  BY ONLY test = "t004", <1>1, <1>2, <2>1 DEF StmtOK, Requests, Named
<1>4. StmtOK(2)
  <2>1. /\ Code[2].op = "get" /\ Code[2].req = "PEEKDATA" /\ Code[2].at = "inst_addr" /\ Code[2].to = "brk_addr" /\ Code[2].fail = "cont"
        /\ Code[6].op = "resume"
    BY Text004
  <2>. QED  BY ONLY test = "t004", <1>1, <1>2, <2>1 DEF StmtOK, Requests, Named
<1>5. StmtOK(3)
  <2>1. /\ Code[3].op = "set" /\ Code[3].req = "POKETEXT" /\ Code[3].at = "brk_addr" /\ Code[3].val = "nop" /\ Code[3].fail = "cont"
        /\ Code[6].op = "resume"
    BY Text004
  <2>. QED  BY ONLY test = "t004", <1>1, <1>2, <2>1 DEF StmtOK, Requests, Named
<1>6. StmtOK(4)
  <2>1. /\ Code[4].op = "mustfail" /\ Code[4].req = "PEEKUSER" /\ Code[4].fail = "cont"
        /\ Code[6].op = "resume"
    BY Text004
  <2>. QED  BY ONLY test = "t004", <1>1, <1>2, <2>1 DEF StmtOK, Requests, Named
<1>7. StmtOK(5)
  <2>1. Code[5].op = "ok"
    BY Text004
  <2>. QED  BY ONLY test = "t004", <1>1, <1>2, <2>1 DEF StmtOK, Requests, Named
<1>8. StmtOK(6)
  <2>1. Code[6].op = "resume" /\ Code[6].req = "CONT" /\ Code[6].fail = "ret"
    BY Text004
  <2>. QED  BY ONLY test = "t004", <1>1, <1>2, <2>1 DEF StmtOK, Requests, Named
<1>9. CStmtOK(1)
  <2>1. CCode[1].op = "traceme"
    BY Text004
  <2>. QED  BY ONLY test = "t004", <1>1, <1>2, <2>1 DEF CStmtOK, Stored
<1>10. CStmtOK(2)
  <2>1. CCode[2].op = "site" /\ CCode[2].at = "site1"
    BY Text004
  <2>. QED  BY ONLY test = "t004", <1>1, <1>2, <2>1 DEF CStmtOK, Stored
<1>11. \A i \in 1..6 : StmtOK(i)
  BY ONLY <1>3, <1>4, <1>5, <1>6, <1>7, <1>8
<1>12. \A j \in 1..2 : CStmtOK(j)
  BY ONLY <1>9, <1>10
<1>. QED  BY ONLY test = "t004", <1>1, <1>2, <1>11, <1>12 DEF TextOK

\* The statements of 005, parent and child.
LEMMA Text005 ==
  ASSUME test = "t005"
  PROVE  /\ Len(Code) = 6 /\ DOMAIN Code = 1..6
         /\ Len(CCode) = 4 /\ DOMAIN CCode = 1..4
         /\ Test[test].needs = {"FORK"} /\ Test[test].verdict = "exit"
         /\ Code[1].op = "wait" /\ Code[1].who = "any" /\ Code[1].fail = "out"
         /\ Code[2].op = "get" /\ Code[2].req = "PEEKDATA" /\ Code[2].at = "inst_addr" /\ Code[2].to = "brk_addr" /\ Code[2].fail = "cont"
         /\ Code[3].op = "set" /\ Code[3].req = "POKETEXT" /\ Code[3].at = "brk_addr" /\ Code[3].val = "nop" /\ Code[3].fail = "cont"
         /\ Code[4].op = "set" /\ Code[4].req = "POKEDATA" /\ Code[4].at = "buf" /\ Code[4].val = "PARENT_MAGIC" /\ Code[4].fail = "cont"
         /\ Code[5].op = "ok"
         /\ Code[6].op = "resume" /\ Code[6].req = "CONT" /\ Code[6].fail = "ret"
         /\ CCode[1].op = "traceme"
         /\ CCode[2].op = "store" /\ CCode[2].at = "buf" /\ CCode[2].val = "CHILD_MAGIC"
         /\ CCode[3].op = "site" /\ CCode[3].at = "site1"
         /\ CCode[4].op = "ccheck" /\ CCode[4].at = "buf" /\ CCode[4].val = "PARENT_MAGIC"
<1>1. Code = Parent005 /\ CCode = Child005 /\ Test[test].needs = {"FORK"} /\ Test[test].verdict = "exit"
  BY DEF Code, CCode, Test, Test005, Run
<1>2. /\ Len(Code) = 6 /\ DOMAIN Code = 1..6
      /\ Code[1] = Wait("any")
      /\ Code[2] = Get("PEEKDATA", "inst_addr", "brk_addr", "cont")
      /\ Code[3] = Set("POKETEXT", "brk_addr", "nop", "cont")
      /\ Code[4] = Set("POKEDATA", "buf", "PARENT_MAGIC", "cont")
      /\ Code[5] = Ok
      /\ Code[6] = LastCont
  BY ONLY <1>1 DEF Parent005, Begin, rewrite_brk_inst, Success
<1>3. /\ Len(CCode) = 4 /\ DOMAIN CCode = 1..4
      /\ CCode[1] = Traceme
      /\ CCode[2] = Store("buf", "CHILD_MAGIC")
      /\ CCode[3] = Site("site1")
      /\ CCode[4] = CCheck("buf", "PARENT_MAGIC")
  BY ONLY <1>1 DEF Child005
<1>4. /\ Code[1].op = "wait" /\ Code[1].who = "any" /\ Code[1].fail = "out"
      /\ Code[2].op = "get" /\ Code[2].req = "PEEKDATA" /\ Code[2].at = "inst_addr" /\ Code[2].to = "brk_addr" /\ Code[2].fail = "cont"
      /\ Code[3].op = "set" /\ Code[3].req = "POKETEXT" /\ Code[3].at = "brk_addr" /\ Code[3].val = "nop" /\ Code[3].fail = "cont"
      /\ Code[4].op = "set" /\ Code[4].req = "POKEDATA" /\ Code[4].at = "buf" /\ Code[4].val = "PARENT_MAGIC" /\ Code[4].fail = "cont"
      /\ Code[5].op = "ok"
      /\ Code[6].op = "resume" /\ Code[6].req = "CONT" /\ Code[6].fail = "ret"
  BY ONLY <1>2 DEF Wait, Get, Set, Ok, LastCont
<1>5. /\ CCode[1].op = "traceme"
      /\ CCode[2].op = "store" /\ CCode[2].at = "buf" /\ CCode[2].val = "CHILD_MAGIC"
      /\ CCode[3].op = "site" /\ CCode[3].at = "site1"
      /\ CCode[4].op = "ccheck" /\ CCode[4].at = "buf" /\ CCode[4].val = "PARENT_MAGIC"
  BY ONLY <1>3 DEF Traceme, Store, Site, CCheck
<1>. QED  BY ONLY <1>1, <1>2, <1>3, <1>4, <1>5

\* 005 keeps to the rules.
LEMMA Rules005 ==
  ASSUME test = "t005"
  PROVE  TextOK
<1>1. H = 2..6 /\ OkAt[test] = 5 /\ TraceAt[test] = 1 /\ PostAt[test] = 0 /\ WaitAt[test] = 1
  BY DEF H, Hold, OkAt, TraceAt, PostAt, WaitAt
<1>2. /\ Len(Code) = 6 /\ DOMAIN Code = 1..6 /\ Len(CCode) = 4 /\ DOMAIN CCode = 1..4
      /\ Test[test].verdict = "exit"
  BY Text005
<1>3. StmtOK(1)
  <2>1. Code[1].op = "wait" /\ Code[1].who = "any" /\ Code[1].fail = "out"
    BY Text005
  <2>. QED  BY ONLY test = "t005", <1>1, <1>2, <2>1 DEF StmtOK, Requests, Named
<1>4. StmtOK(2)
  <2>1. /\ Code[2].op = "get" /\ Code[2].req = "PEEKDATA" /\ Code[2].at = "inst_addr" /\ Code[2].to = "brk_addr" /\ Code[2].fail = "cont"
        /\ Code[6].op = "resume"
    BY Text005
  <2>. QED  BY ONLY test = "t005", <1>1, <1>2, <2>1 DEF StmtOK, Requests, Named
<1>5. StmtOK(3)
  <2>1. /\ Code[3].op = "set" /\ Code[3].req = "POKETEXT" /\ Code[3].at = "brk_addr" /\ Code[3].val = "nop" /\ Code[3].fail = "cont"
        /\ Code[6].op = "resume"
    BY Text005
  <2>. QED  BY ONLY test = "t005", <1>1, <1>2, <2>1 DEF StmtOK, Requests, Named
<1>6. StmtOK(4)
  <2>1. /\ Code[4].op = "set" /\ Code[4].req = "POKEDATA" /\ Code[4].at = "buf" /\ Code[4].val = "PARENT_MAGIC" /\ Code[4].fail = "cont"
        /\ Code[6].op = "resume"
    BY Text005
  <2>. QED  BY ONLY test = "t005", <1>1, <1>2, <2>1 DEF StmtOK, Requests, Named
<1>7. StmtOK(5)
  <2>1. Code[5].op = "ok"
    BY Text005
  <2>. QED  BY ONLY test = "t005", <1>1, <1>2, <2>1 DEF StmtOK, Requests, Named
<1>8. StmtOK(6)
  <2>1. Code[6].op = "resume" /\ Code[6].req = "CONT" /\ Code[6].fail = "ret"
    BY Text005
  <2>. QED  BY ONLY test = "t005", <1>1, <1>2, <2>1 DEF StmtOK, Requests, Named
<1>9. CStmtOK(1)
  <2>1. CCode[1].op = "traceme"
    BY Text005
  <2>. QED  BY ONLY test = "t005", <1>1, <1>2, <2>1 DEF CStmtOK, Stored
<1>10. CStmtOK(2)
  <2>1. CCode[2].op = "store" /\ CCode[2].at = "buf" /\ CCode[2].val = "CHILD_MAGIC"
    BY Text005
  <2>. QED  BY ONLY test = "t005", <1>1, <1>2, <2>1 DEF CStmtOK, Stored
<1>11. CStmtOK(3)
  <2>1. CCode[3].op = "site" /\ CCode[3].at = "site1"
    BY Text005
  <2>. QED  BY ONLY test = "t005", <1>1, <1>2, <2>1 DEF CStmtOK, Stored
<1>12. CStmtOK(4)
  <2>1. CCode[4].op = "ccheck" /\ CCode[4].at = "buf" /\ CCode[4].val = "PARENT_MAGIC"
    BY Text005
  <2>. QED  BY ONLY test = "t005", <1>1, <1>2, <2>1 DEF CStmtOK, Stored
<1>13. \A i \in 1..6 : StmtOK(i)
  BY ONLY <1>3, <1>4, <1>5, <1>6, <1>7, <1>8
<1>14. \A j \in 1..4 : CStmtOK(j)
  BY ONLY <1>9, <1>10, <1>11, <1>12
<1>. QED  BY ONLY test = "t005", <1>1, <1>2, <1>13, <1>14 DEF TextOK

\* The statements of 006, parent and child.
LEMMA Text006 ==
  ASSUME test = "t006"
  PROVE  /\ Len(Code) = 14 /\ DOMAIN Code = 1..14
         /\ Len(CCode) = 4 /\ DOMAIN CCode = 1..4
         /\ Test[test].needs = {"FORK"} /\ Test[test].verdict = "exit"
         /\ Code[1].op = "wait" /\ Code[1].who = "any" /\ Code[1].fail = "out"
         /\ Code[2].op = "get" /\ Code[2].req = "PEEKDATA" /\ Code[2].at = "inst_addr" /\ Code[2].to = "brk_addr" /\ Code[2].fail = "cont"
         /\ Code[3].op = "set" /\ Code[3].req = "POKETEXT" /\ Code[3].at = "brk_addr" /\ Code[3].val = "nop" /\ Code[3].fail = "cont"
         /\ Code[4].op = "get" /\ Code[4].req = "PEEKDATA" /\ Code[4].at = "addr" /\ Code[4].to = "read_val" /\ Code[4].fail = "cont"
         /\ Code[5].op = "get" /\ Code[5].req = "PEEKTEXT" /\ Code[5].at = "read_val" /\ Code[5].to = "inst_val" /\ Code[5].fail = "next"
         /\ Code[6].op = "set" /\ Code[6].req = "POKETEXT" /\ Code[6].at = "read_val" /\ Code[6].val = "brk" /\ Code[6].fail = "cont"
         /\ Code[7].op = "resume" /\ Code[7].req = "CONT" /\ Code[7].fail = "out"
         /\ Code[8].op = "wait" /\ Code[8].who = "any" /\ Code[8].fail = "out"
         /\ Code[9].op = "stopsig" /\ Code[9].sig = "TRAP" /\ Code[9].fail = "cont"
         /\ Code[10].op = "getinfo" /\ Code[10].req = "GETSIGINFO" /\ Code[10].to = "info" /\ Code[10].fail = "cont"
         /\ Code[11].op = "checkinfo" /\ Code[11].a = "info" /\ Code[11].info = [signo |-> "TRAP", code |-> "BRKPT", addr |-> "t"] /\ Code[11].fail = "cont"
         /\ Code[12].op = "set" /\ Code[12].req = "POKETEXT" /\ Code[12].at = "read_val" /\ Code[12].val = "inst_val" /\ Code[12].fail = "cont"
         /\ Code[13].op = "ok"
         /\ Code[14].op = "resume" /\ Code[14].req = "CONT" /\ Code[14].fail = "ret"
         /\ CCode[1].op = "traceme"
         /\ CCode[2].op = "store" /\ CCode[2].at = "addr" /\ CCode[2].val = "t"
         /\ CCode[3].op = "site" /\ CCode[3].at = "site1"
         /\ CCode[4].op = "insn" /\ CCode[4].at = "t"
<1>1. Code = Parent006 /\ CCode = Child006 /\ Test[test].needs = {"FORK"} /\ Test[test].verdict = "exit"
  BY DEF Code, CCode, Test, Test006, Run
<1>2. /\ Len(Code) = 14 /\ DOMAIN Code = 1..14
      /\ Code[1] = Wait("any")
      /\ Code[2] = Get("PEEKDATA", "inst_addr", "brk_addr", "cont")
      /\ Code[3] = Set("POKETEXT", "brk_addr", "nop", "cont")
      /\ Code[4] = Get("PEEKDATA", "addr", "read_val", "cont")
      /\ Code[5] = Get("PEEKTEXT", "read_val", "inst_val", "next")
      /\ Code[6] = Set("POKETEXT", "read_val", "brk", "cont")
      /\ Code[7] = Resume("CONT", "out")
      /\ Code[8] = Wait("any")
      /\ Code[9] = StopSig("TRAP")
      /\ Code[10] = GetInfo("info")
      /\ Code[11] = CheckInfo("info", [signo |-> "TRAP", code |-> "BRKPT", addr |-> "t"])
      /\ Code[12] = Set("POKETEXT", "read_val", "inst_val", "cont")
      /\ Code[13] = Ok
      /\ Code[14] = LastCont
  BY ONLY <1>1 DEF Parent006, Begin, rewrite_brk_inst, RunIntoBrk, RestoreText, Success, Trap
<1>3. /\ Len(CCode) = 4 /\ DOMAIN CCode = 1..4
      /\ CCode[1] = Traceme
      /\ CCode[2] = Store("addr", "t")
      /\ CCode[3] = Site("site1")
      /\ CCode[4] = Insn("t")
  BY ONLY <1>1 DEF Child006, get_or_do_inst
<1>4. /\ Code[1].op = "wait" /\ Code[1].who = "any" /\ Code[1].fail = "out"
      /\ Code[2].op = "get" /\ Code[2].req = "PEEKDATA" /\ Code[2].at = "inst_addr" /\ Code[2].to = "brk_addr" /\ Code[2].fail = "cont"
      /\ Code[3].op = "set" /\ Code[3].req = "POKETEXT" /\ Code[3].at = "brk_addr" /\ Code[3].val = "nop" /\ Code[3].fail = "cont"
      /\ Code[4].op = "get" /\ Code[4].req = "PEEKDATA" /\ Code[4].at = "addr" /\ Code[4].to = "read_val" /\ Code[4].fail = "cont"
      /\ Code[5].op = "get" /\ Code[5].req = "PEEKTEXT" /\ Code[5].at = "read_val" /\ Code[5].to = "inst_val" /\ Code[5].fail = "next"
      /\ Code[6].op = "set" /\ Code[6].req = "POKETEXT" /\ Code[6].at = "read_val" /\ Code[6].val = "brk" /\ Code[6].fail = "cont"
  BY ONLY <1>2 DEF Wait, Get, Set
<1>5. /\ Code[7].op = "resume" /\ Code[7].req = "CONT" /\ Code[7].fail = "out"
      /\ Code[8].op = "wait" /\ Code[8].who = "any" /\ Code[8].fail = "out"
      /\ Code[9].op = "stopsig" /\ Code[9].sig = "TRAP" /\ Code[9].fail = "cont"
      /\ Code[10].op = "getinfo" /\ Code[10].req = "GETSIGINFO" /\ Code[10].to = "info" /\ Code[10].fail = "cont"
      /\ Code[11].op = "checkinfo" /\ Code[11].a = "info" /\ Code[11].info = [signo |-> "TRAP", code |-> "BRKPT", addr |-> "t"] /\ Code[11].fail = "cont"
      /\ Code[12].op = "set" /\ Code[12].req = "POKETEXT" /\ Code[12].at = "read_val" /\ Code[12].val = "inst_val" /\ Code[12].fail = "cont"
  BY ONLY <1>2 DEF Resume, Wait, StopSig, GetInfo, CheckInfo, Set
<1>6. /\ Code[13].op = "ok"
      /\ Code[14].op = "resume" /\ Code[14].req = "CONT" /\ Code[14].fail = "ret"
  BY ONLY <1>2 DEF Ok, LastCont
<1>7. /\ CCode[1].op = "traceme"
      /\ CCode[2].op = "store" /\ CCode[2].at = "addr" /\ CCode[2].val = "t"
      /\ CCode[3].op = "site" /\ CCode[3].at = "site1"
      /\ CCode[4].op = "insn" /\ CCode[4].at = "t"
  BY ONLY <1>3 DEF Traceme, Store, Site, Insn
<1>. QED  BY ONLY <1>1, <1>2, <1>3, <1>4, <1>5, <1>6, <1>7

\* 006 keeps to the rules.
LEMMA Rules006 ==
  ASSUME test = "t006"
  PROVE  TextOK
<1>1. H = (2..7) \union (9..14) /\ OkAt[test] = 13 /\ TraceAt[test] = 1 /\ PostAt[test] = 0 /\ WaitAt[test] = 1
  BY DEF H, Hold, OkAt, TraceAt, PostAt, WaitAt
<1>2. /\ Len(Code) = 14 /\ DOMAIN Code = 1..14 /\ Len(CCode) = 4 /\ DOMAIN CCode = 1..4
      /\ Test[test].verdict = "exit"
  BY Text006
<1>3. StmtOK(1)
  <2>1. Code[1].op = "wait" /\ Code[1].who = "any" /\ Code[1].fail = "out"
    BY Text006
  <2>. QED  BY ONLY test = "t006", <1>1, <1>2, <2>1 DEF StmtOK, Requests, Named
<1>4. StmtOK(2)
  <2>1. /\ Code[2].op = "get" /\ Code[2].req = "PEEKDATA" /\ Code[2].at = "inst_addr" /\ Code[2].to = "brk_addr" /\ Code[2].fail = "cont"
        /\ Code[14].op = "resume"
    BY Text006
  <2>. QED  BY ONLY test = "t006", <1>1, <1>2, <2>1 DEF StmtOK, Requests, Named
<1>5. StmtOK(3)
  <2>1. /\ Code[3].op = "set" /\ Code[3].req = "POKETEXT" /\ Code[3].at = "brk_addr" /\ Code[3].val = "nop" /\ Code[3].fail = "cont"
        /\ Code[14].op = "resume"
    BY Text006
  <2>. QED  BY ONLY test = "t006", <1>1, <1>2, <2>1 DEF StmtOK, Requests, Named
<1>6. StmtOK(4)
  <2>1. /\ Code[4].op = "get" /\ Code[4].req = "PEEKDATA" /\ Code[4].at = "addr" /\ Code[4].to = "read_val" /\ Code[4].fail = "cont"
        /\ Code[14].op = "resume"
    BY Text006
  <2>. QED  BY ONLY test = "t006", <1>1, <1>2, <2>1 DEF StmtOK, Requests, Named
<1>7. StmtOK(5)
  <2>1. Code[5].op = "get" /\ Code[5].req = "PEEKTEXT" /\ Code[5].at = "read_val" /\ Code[5].to = "inst_val" /\ Code[5].fail = "next"
    BY Text006
  <2>. QED  BY ONLY test = "t006", <1>1, <1>2, <2>1 DEF StmtOK, Requests, Named
<1>8. StmtOK(6)
  <2>1. /\ Code[6].op = "set" /\ Code[6].req = "POKETEXT" /\ Code[6].at = "read_val" /\ Code[6].val = "brk" /\ Code[6].fail = "cont"
        /\ Code[14].op = "resume"
    BY Text006
  <2>. QED  BY ONLY test = "t006", <1>1, <1>2, <2>1 DEF StmtOK, Requests, Named
<1>9. StmtOK(7)
  <2>1. Code[7].op = "resume" /\ Code[7].req = "CONT" /\ Code[7].fail = "out"
    BY Text006
  <2>. QED  BY ONLY test = "t006", <1>1, <1>2, <2>1 DEF StmtOK, Requests, Named
<1>10. StmtOK(8)
  <2>1. Code[8].op = "wait" /\ Code[8].who = "any" /\ Code[8].fail = "out"
    BY Text006
  <2>. QED  BY ONLY test = "t006", <1>1, <1>2, <2>1 DEF StmtOK, Requests, Named
<1>11. StmtOK(9)
  <2>1. /\ Code[9].op = "stopsig" /\ Code[9].sig = "TRAP" /\ Code[9].fail = "cont"
        /\ Code[14].op = "resume"
    BY Text006
  <2>. QED  BY ONLY test = "t006", <1>1, <1>2, <2>1 DEF StmtOK, Requests, Named
<1>12. StmtOK(10)
  <2>1. /\ Code[10].op = "getinfo" /\ Code[10].req = "GETSIGINFO" /\ Code[10].to = "info" /\ Code[10].fail = "cont"
        /\ Code[14].op = "resume"
    BY Text006
  <2>. QED  BY ONLY test = "t006", <1>1, <1>2, <2>1 DEF StmtOK, Requests, Named
<1>13. StmtOK(11)
  <2>1. /\ Code[11].op = "checkinfo" /\ Code[11].a = "info" /\ Code[11].info = [signo |-> "TRAP", code |-> "BRKPT", addr |-> "t"] /\ Code[11].fail = "cont"
        /\ Code[14].op = "resume"
    BY Text006
  <2>. QED  BY ONLY test = "t006", <1>1, <1>2, <2>1 DEF StmtOK, Requests, Named
<1>14. StmtOK(12)
  <2>1. /\ Code[12].op = "set" /\ Code[12].req = "POKETEXT" /\ Code[12].at = "read_val" /\ Code[12].val = "inst_val" /\ Code[12].fail = "cont"
        /\ Code[14].op = "resume"
    BY Text006
  <2>. QED  BY ONLY test = "t006", <1>1, <1>2, <2>1 DEF StmtOK, Requests, Named
<1>15. StmtOK(13)
  <2>1. Code[13].op = "ok"
    BY Text006
  <2>. QED  BY ONLY test = "t006", <1>1, <1>2, <2>1 DEF StmtOK, Requests, Named
<1>16. StmtOK(14)
  <2>1. Code[14].op = "resume" /\ Code[14].req = "CONT" /\ Code[14].fail = "ret"
    BY Text006
  <2>. QED  BY ONLY test = "t006", <1>1, <1>2, <2>1 DEF StmtOK, Requests, Named
<1>17. CStmtOK(1)
  <2>1. CCode[1].op = "traceme"
    BY Text006
  <2>. QED  BY ONLY test = "t006", <1>1, <1>2, <2>1 DEF CStmtOK, Stored
<1>18. CStmtOK(2)
  <2>1. CCode[2].op = "store" /\ CCode[2].at = "addr" /\ CCode[2].val = "t"
    BY Text006
  <2>. QED  BY ONLY test = "t006", <1>1, <1>2, <2>1 DEF CStmtOK, Stored
<1>19. CStmtOK(3)
  <2>1. CCode[3].op = "site" /\ CCode[3].at = "site1"
    BY Text006
  <2>. QED  BY ONLY test = "t006", <1>1, <1>2, <2>1 DEF CStmtOK, Stored
<1>20. CStmtOK(4)
  <2>1. CCode[4].op = "insn" /\ CCode[4].at = "t"
    BY Text006
  <2>. QED  BY ONLY test = "t006", <1>1, <1>2, <2>1 DEF CStmtOK, Stored
<1>21. \A i \in 1..14 : StmtOK(i)
  BY ONLY <1>3, <1>4, <1>5, <1>6, <1>7, <1>8, <1>9, <1>10, <1>11, <1>12, <1>13, <1>14, <1>15, <1>16
<1>22. \A j \in 1..4 : CStmtOK(j)
  BY ONLY <1>17, <1>18, <1>19, <1>20
<1>. QED  BY ONLY test = "t006", <1>1, <1>2, <1>21, <1>22 DEF TextOK

\* The statements of 007, parent and child.
LEMMA Text007 ==
  ASSUME test = "t007"
  PROVE  /\ Len(Code) = 6 /\ DOMAIN Code = 1..6
         /\ Len(CCode) = 2 /\ DOMAIN CCode = 1..2
         /\ Test[test].needs = {"FORK"} /\ Test[test].verdict = "exit"
         /\ Code[1].op = "wait" /\ Code[1].who = "any" /\ Code[1].fail = "out"
         /\ Code[2].op = "get" /\ Code[2].req = "PEEKDATA" /\ Code[2].at = "inst_addr" /\ Code[2].to = "brk_addr" /\ Code[2].fail = "cont"
         /\ Code[3].op = "set" /\ Code[3].req = "POKETEXT" /\ Code[3].at = "brk_addr" /\ Code[3].val = "nop" /\ Code[3].fail = "cont"
         /\ Code[4].op = "mustfail" /\ Code[4].req = "POKEUSER" /\ Code[4].fail = "cont"
         /\ Code[5].op = "ok"
         /\ Code[6].op = "resume" /\ Code[6].req = "CONT" /\ Code[6].fail = "ret"
         /\ CCode[1].op = "traceme"
         /\ CCode[2].op = "site" /\ CCode[2].at = "site1"
<1>1. Code = Parent007 /\ CCode = Child007 /\ Test[test].needs = {"FORK"} /\ Test[test].verdict = "exit"
  BY DEF Code, CCode, Test, Test007, Run
<1>2. /\ Len(Code) = 6 /\ DOMAIN Code = 1..6
      /\ Code[1] = Wait("any")
      /\ Code[2] = Get("PEEKDATA", "inst_addr", "brk_addr", "cont")
      /\ Code[3] = Set("POKETEXT", "brk_addr", "nop", "cont")
      /\ Code[4] = MustFail("POKEUSER", "EIO")
      /\ Code[5] = Ok
      /\ Code[6] = LastCont
  BY ONLY <1>1 DEF Parent007, Begin, rewrite_brk_inst, Success
<1>3. /\ Len(CCode) = 2 /\ DOMAIN CCode = 1..2
      /\ CCode[1] = Traceme
      /\ CCode[2] = Site("site1")
  BY ONLY <1>1 DEF Child007
<1>4. /\ Code[1].op = "wait" /\ Code[1].who = "any" /\ Code[1].fail = "out"
      /\ Code[2].op = "get" /\ Code[2].req = "PEEKDATA" /\ Code[2].at = "inst_addr" /\ Code[2].to = "brk_addr" /\ Code[2].fail = "cont"
      /\ Code[3].op = "set" /\ Code[3].req = "POKETEXT" /\ Code[3].at = "brk_addr" /\ Code[3].val = "nop" /\ Code[3].fail = "cont"
      /\ Code[4].op = "mustfail" /\ Code[4].req = "POKEUSER" /\ Code[4].fail = "cont"
      /\ Code[5].op = "ok"
      /\ Code[6].op = "resume" /\ Code[6].req = "CONT" /\ Code[6].fail = "ret"
  BY ONLY <1>2 DEF Wait, Get, Set, MustFail, Ok, LastCont
<1>5. /\ CCode[1].op = "traceme"
      /\ CCode[2].op = "site" /\ CCode[2].at = "site1"
  BY ONLY <1>3 DEF Traceme, Site
<1>. QED  BY ONLY <1>1, <1>2, <1>3, <1>4, <1>5

\* 007 keeps to the rules.
LEMMA Rules007 ==
  ASSUME test = "t007"
  PROVE  TextOK
<1>1. H = 2..6 /\ OkAt[test] = 5 /\ TraceAt[test] = 1 /\ PostAt[test] = 0 /\ WaitAt[test] = 1
  BY DEF H, Hold, OkAt, TraceAt, PostAt, WaitAt
<1>2. /\ Len(Code) = 6 /\ DOMAIN Code = 1..6 /\ Len(CCode) = 2 /\ DOMAIN CCode = 1..2
      /\ Test[test].verdict = "exit"
  BY Text007
<1>3. StmtOK(1)
  <2>1. Code[1].op = "wait" /\ Code[1].who = "any" /\ Code[1].fail = "out"
    BY Text007
  <2>. QED  BY ONLY test = "t007", <1>1, <1>2, <2>1 DEF StmtOK, Requests, Named
<1>4. StmtOK(2)
  <2>1. /\ Code[2].op = "get" /\ Code[2].req = "PEEKDATA" /\ Code[2].at = "inst_addr" /\ Code[2].to = "brk_addr" /\ Code[2].fail = "cont"
        /\ Code[6].op = "resume"
    BY Text007
  <2>. QED  BY ONLY test = "t007", <1>1, <1>2, <2>1 DEF StmtOK, Requests, Named
<1>5. StmtOK(3)
  <2>1. /\ Code[3].op = "set" /\ Code[3].req = "POKETEXT" /\ Code[3].at = "brk_addr" /\ Code[3].val = "nop" /\ Code[3].fail = "cont"
        /\ Code[6].op = "resume"
    BY Text007
  <2>. QED  BY ONLY test = "t007", <1>1, <1>2, <2>1 DEF StmtOK, Requests, Named
<1>6. StmtOK(4)
  <2>1. /\ Code[4].op = "mustfail" /\ Code[4].req = "POKEUSER" /\ Code[4].fail = "cont"
        /\ Code[6].op = "resume"
    BY Text007
  <2>. QED  BY ONLY test = "t007", <1>1, <1>2, <2>1 DEF StmtOK, Requests, Named
<1>7. StmtOK(5)
  <2>1. Code[5].op = "ok"
    BY Text007
  <2>. QED  BY ONLY test = "t007", <1>1, <1>2, <2>1 DEF StmtOK, Requests, Named
<1>8. StmtOK(6)
  <2>1. Code[6].op = "resume" /\ Code[6].req = "CONT" /\ Code[6].fail = "ret"
    BY Text007
  <2>. QED  BY ONLY test = "t007", <1>1, <1>2, <2>1 DEF StmtOK, Requests, Named
<1>9. CStmtOK(1)
  <2>1. CCode[1].op = "traceme"
    BY Text007
  <2>. QED  BY ONLY test = "t007", <1>1, <1>2, <2>1 DEF CStmtOK, Stored
<1>10. CStmtOK(2)
  <2>1. CCode[2].op = "site" /\ CCode[2].at = "site1"
    BY Text007
  <2>. QED  BY ONLY test = "t007", <1>1, <1>2, <2>1 DEF CStmtOK, Stored
<1>11. \A i \in 1..6 : StmtOK(i)
  BY ONLY <1>3, <1>4, <1>5, <1>6, <1>7, <1>8
<1>12. \A j \in 1..2 : CStmtOK(j)
  BY ONLY <1>9, <1>10
<1>. QED  BY ONLY test = "t007", <1>1, <1>2, <1>11, <1>12 DEF TextOK

\* The statements of 008, parent and child.
LEMMA Text008 ==
  ASSUME test = "t008"
  PROVE  /\ Len(Code) = 11 /\ DOMAIN Code = 1..11
         /\ Len(CCode) = 4 /\ DOMAIN CCode = 1..4
         /\ Test[test].needs = {"FORK"} /\ Test[test].verdict = "exit"
         /\ Code[1].op = "wait" /\ Code[1].who = "any" /\ Code[1].fail = "out"
         /\ Code[2].op = "get" /\ Code[2].req = "PEEKDATA" /\ Code[2].at = "inst_addr" /\ Code[2].to = "brk_addr" /\ Code[2].fail = "cont"
         /\ Code[3].op = "set" /\ Code[3].req = "POKETEXT" /\ Code[3].at = "brk_addr" /\ Code[3].val = "nop" /\ Code[3].fail = "cont"
         /\ Code[4].op = "get" /\ Code[4].req = "GETREGSET" /\ Code[4].at = "greg" /\ Code[4].to = "gregs" /\ Code[4].fail = "cont"
         /\ Code[5].op = "get" /\ Code[5].req = "GETREGSET" /\ Code[5].at = "freg" /\ Code[5].to = "fregs" /\ Code[5].fail = "cont"
         /\ Code[6].op = "get" /\ Code[6].req = "GETREGSET" /\ Code[6].at = "tls" /\ Code[6].to = "org_tls_val" /\ Code[6].fail = "cont"
         /\ Code[7].op = "get" /\ Code[7].req = "GETREGSET" /\ Code[7].at = "hwbrk" /\ Code[7].to = "bpoint" /\ Code[7].fail = "cont"
         /\ Code[8].op = "get" /\ Code[8].req = "GETREGSET" /\ Code[8].at = "hwwatch" /\ Code[8].to = "wpoint" /\ Code[8].fail = "cont"
         /\ Code[9].op = "get" /\ Code[9].req = "GETREGSET" /\ Code[9].at = "sysno" /\ Code[9].to = "org_sysno" /\ Code[9].fail = "cont"
         /\ Code[10].op = "ok"
         /\ Code[11].op = "resume" /\ Code[11].req = "CONT" /\ Code[11].fail = "ret"
         /\ CCode[1].op = "traceme"
         /\ CCode[2].op = "store" /\ CCode[2].at = "greg" /\ CCode[2].val = "index"
         /\ CCode[3].op = "store" /\ CCode[3].at = "freg" /\ CCode[3].val = "index"
         /\ CCode[4].op = "site" /\ CCode[4].at = "site1"
<1>1. Code = Parent008 /\ CCode = Child008 /\ Test[test].needs = {"FORK"} /\ Test[test].verdict = "exit"
  BY DEF Code, CCode, Test, Test008, Run
<1>2. /\ Len(Code) = 11 /\ DOMAIN Code = 1..11
      /\ Code[1] = Wait("any")
      /\ Code[2] = Get("PEEKDATA", "inst_addr", "brk_addr", "cont")
      /\ Code[3] = Set("POKETEXT", "brk_addr", "nop", "cont")
      /\ Code[4] = Get("GETREGSET", "greg", "gregs", "cont")
      /\ Code[5] = Get("GETREGSET", "freg", "fregs", "cont")
      /\ Code[6] = Get("GETREGSET", "tls", "org_tls_val", "cont")
      /\ Code[7] = Get("GETREGSET", "hwbrk", "bpoint", "cont")
      /\ Code[8] = Get("GETREGSET", "hwwatch", "wpoint", "cont")
      /\ Code[9] = Get("GETREGSET", "sysno", "org_sysno", "cont")
      /\ Code[10] = Ok
      /\ Code[11] = LastCont
  BY ONLY <1>1 DEF Parent008, Begin, rewrite_brk_inst, getregset_check, Success
<1>3. /\ Len(CCode) = 4 /\ DOMAIN CCode = 1..4
      /\ CCode[1] = Traceme
      /\ CCode[2] = Store("greg", "index")
      /\ CCode[3] = Store("freg", "index")
      /\ CCode[4] = Site("site1")
  BY ONLY <1>1 DEF Child008, pre_getregset
<1>4. /\ Code[1].op = "wait" /\ Code[1].who = "any" /\ Code[1].fail = "out"
      /\ Code[2].op = "get" /\ Code[2].req = "PEEKDATA" /\ Code[2].at = "inst_addr" /\ Code[2].to = "brk_addr" /\ Code[2].fail = "cont"
      /\ Code[3].op = "set" /\ Code[3].req = "POKETEXT" /\ Code[3].at = "brk_addr" /\ Code[3].val = "nop" /\ Code[3].fail = "cont"
      /\ Code[4].op = "get" /\ Code[4].req = "GETREGSET" /\ Code[4].at = "greg" /\ Code[4].to = "gregs" /\ Code[4].fail = "cont"
      /\ Code[5].op = "get" /\ Code[5].req = "GETREGSET" /\ Code[5].at = "freg" /\ Code[5].to = "fregs" /\ Code[5].fail = "cont"
      /\ Code[6].op = "get" /\ Code[6].req = "GETREGSET" /\ Code[6].at = "tls" /\ Code[6].to = "org_tls_val" /\ Code[6].fail = "cont"
  BY ONLY <1>2 DEF Wait, Get, Set
<1>5. /\ Code[7].op = "get" /\ Code[7].req = "GETREGSET" /\ Code[7].at = "hwbrk" /\ Code[7].to = "bpoint" /\ Code[7].fail = "cont"
      /\ Code[8].op = "get" /\ Code[8].req = "GETREGSET" /\ Code[8].at = "hwwatch" /\ Code[8].to = "wpoint" /\ Code[8].fail = "cont"
      /\ Code[9].op = "get" /\ Code[9].req = "GETREGSET" /\ Code[9].at = "sysno" /\ Code[9].to = "org_sysno" /\ Code[9].fail = "cont"
      /\ Code[10].op = "ok"
      /\ Code[11].op = "resume" /\ Code[11].req = "CONT" /\ Code[11].fail = "ret"
  BY ONLY <1>2 DEF Get, Ok, LastCont
<1>6. /\ CCode[1].op = "traceme"
      /\ CCode[2].op = "store" /\ CCode[2].at = "greg" /\ CCode[2].val = "index"
      /\ CCode[3].op = "store" /\ CCode[3].at = "freg" /\ CCode[3].val = "index"
      /\ CCode[4].op = "site" /\ CCode[4].at = "site1"
  BY ONLY <1>3 DEF Traceme, Store, Site
<1>. QED  BY ONLY <1>1, <1>2, <1>3, <1>4, <1>5, <1>6

\* 008 keeps to the rules.
LEMMA Rules008 ==
  ASSUME test = "t008"
  PROVE  TextOK
<1>1. H = 2..11 /\ OkAt[test] = 10 /\ TraceAt[test] = 1 /\ PostAt[test] = 0 /\ WaitAt[test] = 1
  BY DEF H, Hold, OkAt, TraceAt, PostAt, WaitAt
<1>2. /\ Len(Code) = 11 /\ DOMAIN Code = 1..11 /\ Len(CCode) = 4 /\ DOMAIN CCode = 1..4
      /\ Test[test].verdict = "exit"
  BY Text008
<1>3. StmtOK(1)
  <2>1. Code[1].op = "wait" /\ Code[1].who = "any" /\ Code[1].fail = "out"
    BY Text008
  <2>. QED  BY ONLY test = "t008", <1>1, <1>2, <2>1 DEF StmtOK, Requests, Named
<1>4. StmtOK(2)
  <2>1. /\ Code[2].op = "get" /\ Code[2].req = "PEEKDATA" /\ Code[2].at = "inst_addr" /\ Code[2].to = "brk_addr" /\ Code[2].fail = "cont"
        /\ Code[11].op = "resume"
    BY Text008
  <2>. QED  BY ONLY test = "t008", <1>1, <1>2, <2>1 DEF StmtOK, Requests, Named
<1>5. StmtOK(3)
  <2>1. /\ Code[3].op = "set" /\ Code[3].req = "POKETEXT" /\ Code[3].at = "brk_addr" /\ Code[3].val = "nop" /\ Code[3].fail = "cont"
        /\ Code[11].op = "resume"
    BY Text008
  <2>. QED  BY ONLY test = "t008", <1>1, <1>2, <2>1 DEF StmtOK, Requests, Named
<1>6. StmtOK(4)
  <2>1. /\ Code[4].op = "get" /\ Code[4].req = "GETREGSET" /\ Code[4].at = "greg" /\ Code[4].to = "gregs" /\ Code[4].fail = "cont"
        /\ Code[11].op = "resume"
    BY Text008
  <2>. QED  BY ONLY test = "t008", <1>1, <1>2, <2>1 DEF StmtOK, Requests, Named
<1>7. StmtOK(5)
  <2>1. /\ Code[5].op = "get" /\ Code[5].req = "GETREGSET" /\ Code[5].at = "freg" /\ Code[5].to = "fregs" /\ Code[5].fail = "cont"
        /\ Code[11].op = "resume"
    BY Text008
  <2>. QED  BY ONLY test = "t008", <1>1, <1>2, <2>1 DEF StmtOK, Requests, Named
<1>8. StmtOK(6)
  <2>1. /\ Code[6].op = "get" /\ Code[6].req = "GETREGSET" /\ Code[6].at = "tls" /\ Code[6].to = "org_tls_val" /\ Code[6].fail = "cont"
        /\ Code[11].op = "resume"
    BY Text008
  <2>. QED  BY ONLY test = "t008", <1>1, <1>2, <2>1 DEF StmtOK, Requests, Named
<1>9. StmtOK(7)
  <2>1. /\ Code[7].op = "get" /\ Code[7].req = "GETREGSET" /\ Code[7].at = "hwbrk" /\ Code[7].to = "bpoint" /\ Code[7].fail = "cont"
        /\ Code[11].op = "resume"
    BY Text008
  <2>. QED  BY ONLY test = "t008", <1>1, <1>2, <2>1 DEF StmtOK, Requests, Named
<1>10. StmtOK(8)
  <2>1. /\ Code[8].op = "get" /\ Code[8].req = "GETREGSET" /\ Code[8].at = "hwwatch" /\ Code[8].to = "wpoint" /\ Code[8].fail = "cont"
        /\ Code[11].op = "resume"
    BY Text008
  <2>. QED  BY ONLY test = "t008", <1>1, <1>2, <2>1 DEF StmtOK, Requests, Named
<1>11. StmtOK(9)
  <2>1. /\ Code[9].op = "get" /\ Code[9].req = "GETREGSET" /\ Code[9].at = "sysno" /\ Code[9].to = "org_sysno" /\ Code[9].fail = "cont"
        /\ Code[11].op = "resume"
    BY Text008
  <2>. QED  BY ONLY test = "t008", <1>1, <1>2, <2>1 DEF StmtOK, Requests, Named
<1>12. StmtOK(10)
  <2>1. Code[10].op = "ok"
    BY Text008
  <2>. QED  BY ONLY test = "t008", <1>1, <1>2, <2>1 DEF StmtOK, Requests, Named
<1>13. StmtOK(11)
  <2>1. Code[11].op = "resume" /\ Code[11].req = "CONT" /\ Code[11].fail = "ret"
    BY Text008
  <2>. QED  BY ONLY test = "t008", <1>1, <1>2, <2>1 DEF StmtOK, Requests, Named
<1>14. CStmtOK(1)
  <2>1. CCode[1].op = "traceme"
    BY Text008
  <2>. QED  BY ONLY test = "t008", <1>1, <1>2, <2>1 DEF CStmtOK, Stored
<1>15. CStmtOK(2)
  <2>1. CCode[2].op = "store" /\ CCode[2].at = "greg" /\ CCode[2].val = "index"
    BY Text008
  <2>. QED  BY ONLY test = "t008", <1>1, <1>2, <2>1 DEF CStmtOK, Stored
<1>16. CStmtOK(3)
  <2>1. CCode[3].op = "store" /\ CCode[3].at = "freg" /\ CCode[3].val = "index"
    BY Text008
  <2>. QED  BY ONLY test = "t008", <1>1, <1>2, <2>1 DEF CStmtOK, Stored
<1>17. CStmtOK(4)
  <2>1. CCode[4].op = "site" /\ CCode[4].at = "site1"
    BY Text008
  <2>. QED  BY ONLY test = "t008", <1>1, <1>2, <2>1 DEF CStmtOK, Stored
<1>18. \A i \in 1..11 : StmtOK(i)
  BY ONLY <1>3, <1>4, <1>5, <1>6, <1>7, <1>8, <1>9, <1>10, <1>11, <1>12, <1>13
<1>19. \A j \in 1..4 : CStmtOK(j)
  BY ONLY <1>14, <1>15, <1>16, <1>17
<1>. QED  BY ONLY test = "t008", <1>1, <1>2, <1>18, <1>19 DEF TextOK

\* The statements of 009, parent and child.
LEMMA Text009 ==
  ASSUME test = "t009"
  PROVE  /\ Len(Code) = 8 /\ DOMAIN Code = 1..8
         /\ Len(CCode) = 4 /\ DOMAIN CCode = 1..4
         /\ Test[test].needs = {"MMAP", "SEM_INIT", "FORK"} /\ Test[test].verdict = "unmap"
         /\ Code[1].op = "semwait" /\ Code[1].sem = "pwait"
         /\ Code[2].op = "kill" /\ Code[2].who = "C" /\ Code[2].sig = "STOP" /\ Code[2].fail = "out"
         /\ Code[3].op = "post" /\ Code[3].sem = "cwait"
         /\ Code[4].op = "wait" /\ Code[4].who = "any" /\ Code[4].fail = "out"
         /\ Code[5].op = "getinfo" /\ Code[5].req = "GETSIGINFO" /\ Code[5].to = "info" /\ Code[5].fail = "cont"
         /\ Code[6].op = "checkinfo" /\ Code[6].a = "info" /\ Code[6].info = [signo |-> "STOP", code |-> "USER", addr |-> "none"] /\ Code[6].fail = "cont"
         /\ Code[7].op = "ok"
         /\ Code[8].op = "resume" /\ Code[8].req = "CONT" /\ Code[8].fail = "ret"
         /\ CCode[1].op = "traceme"
         /\ CCode[2].op = "cpost" /\ CCode[2].sem = "pwait"
         /\ CCode[3].op = "csemwait" /\ CCode[3].sem = "cwait"
         /\ CCode[4].op = "call" /\ CCode[4].req = "MUNMAP"
<1>1. Code = Parent009 /\ CCode = Child009 /\ Test[test].needs = {"MMAP", "SEM_INIT", "FORK"} /\ Test[test].verdict = "unmap"
  BY DEF Code, CCode, Test, Test009, RunSem
<1>2. /\ Len(Code) = 8 /\ DOMAIN Code = 1..8
      /\ Code[1] = SemWait("pwait")
      /\ Code[2] = Kill("C", "STOP", "out")
      /\ Code[3] = Post("cwait")
      /\ Code[4] = Wait("any")
      /\ Code[5] = GetInfo("info")
      /\ Code[6] = CheckInfo("info", [signo |-> "STOP", code |-> "USER", addr |-> "none"])
      /\ Code[7] = Ok
      /\ Code[8] = LastCont
  BY ONLY <1>1 DEF Parent009, Success, Trap
<1>3. /\ Len(CCode) = 4 /\ DOMAIN CCode = 1..4
      /\ CCode[1] = Traceme
      /\ CCode[2] = CPost("pwait")
      /\ CCode[3] = CSemWait("cwait")
      /\ CCode[4] = Call("MUNMAP")
  BY ONLY <1>1 DEF Child009
<1>4. /\ Code[1].op = "semwait" /\ Code[1].sem = "pwait"
      /\ Code[2].op = "kill" /\ Code[2].who = "C" /\ Code[2].sig = "STOP" /\ Code[2].fail = "out"
      /\ Code[3].op = "post" /\ Code[3].sem = "cwait"
      /\ Code[4].op = "wait" /\ Code[4].who = "any" /\ Code[4].fail = "out"
      /\ Code[5].op = "getinfo" /\ Code[5].req = "GETSIGINFO" /\ Code[5].to = "info" /\ Code[5].fail = "cont"
      /\ Code[6].op = "checkinfo" /\ Code[6].a = "info" /\ Code[6].info = [signo |-> "STOP", code |-> "USER", addr |-> "none"] /\ Code[6].fail = "cont"
  BY ONLY <1>2 DEF SemWait, Kill, Post, Wait, GetInfo, CheckInfo
<1>5. /\ Code[7].op = "ok"
      /\ Code[8].op = "resume" /\ Code[8].req = "CONT" /\ Code[8].fail = "ret"
  BY ONLY <1>2 DEF Ok, LastCont
<1>6. /\ CCode[1].op = "traceme"
      /\ CCode[2].op = "cpost" /\ CCode[2].sem = "pwait"
      /\ CCode[3].op = "csemwait" /\ CCode[3].sem = "cwait"
      /\ CCode[4].op = "call" /\ CCode[4].req = "MUNMAP"
  BY ONLY <1>3 DEF Traceme, CPost, CSemWait, Call
<1>. QED  BY ONLY <1>1, <1>2, <1>3, <1>4, <1>5, <1>6

\* 009 keeps to the rules.
LEMMA Rules009 ==
  ASSUME test = "t009"
  PROVE  TextOK
<1>1. H = 5..8 /\ OkAt[test] = 7 /\ TraceAt[test] = 1 /\ PostAt[test] = 2 /\ WaitAt[test] = 4
  BY DEF H, Hold, OkAt, TraceAt, PostAt, WaitAt
<1>2. /\ Len(Code) = 8 /\ DOMAIN Code = 1..8 /\ Len(CCode) = 4 /\ DOMAIN CCode = 1..4
      /\ Test[test].verdict = "unmap"
  BY Text009
<1>3. StmtOK(1)
  <2>1. Code[1].op = "semwait" /\ Code[1].sem = "pwait"
    BY Text009
  <2>. QED  BY ONLY test = "t009", <1>1, <1>2, <2>1 DEF StmtOK, Requests, Named
<1>4. StmtOK(2)
  <2>1. Code[2].op = "kill" /\ Code[2].who = "C" /\ Code[2].sig = "STOP" /\ Code[2].fail = "out"
    BY Text009
  <2>. QED  BY ONLY test = "t009", <1>1, <1>2, <2>1 DEF StmtOK, Requests, Named
<1>5. StmtOK(3)
  <2>1. Code[3].op = "post" /\ Code[3].sem = "cwait"
    BY Text009
  <2>. QED  BY ONLY test = "t009", <1>1, <1>2, <2>1 DEF StmtOK, Requests, Named
<1>6. StmtOK(4)
  <2>1. Code[4].op = "wait" /\ Code[4].who = "any" /\ Code[4].fail = "out"
    BY Text009
  <2>. QED  BY ONLY test = "t009", <1>1, <1>2, <2>1 DEF StmtOK, Requests, Named
<1>7. StmtOK(5)
  <2>1. /\ Code[5].op = "getinfo" /\ Code[5].req = "GETSIGINFO" /\ Code[5].to = "info" /\ Code[5].fail = "cont"
        /\ Code[8].op = "resume"
    BY Text009
  <2>. QED  BY ONLY test = "t009", <1>1, <1>2, <2>1 DEF StmtOK, Requests, Named
<1>8. StmtOK(6)
  <2>1. /\ Code[6].op = "checkinfo" /\ Code[6].a = "info" /\ Code[6].info = [signo |-> "STOP", code |-> "USER", addr |-> "none"] /\ Code[6].fail = "cont"
        /\ Code[8].op = "resume"
    BY Text009
  <2>. QED  BY ONLY test = "t009", <1>1, <1>2, <2>1 DEF StmtOK, Requests, Named
<1>9. StmtOK(7)
  <2>1. Code[7].op = "ok"
    BY Text009
  <2>. QED  BY ONLY test = "t009", <1>1, <1>2, <2>1 DEF StmtOK, Requests, Named
<1>10. StmtOK(8)
  <2>1. Code[8].op = "resume" /\ Code[8].req = "CONT" /\ Code[8].fail = "ret"
    BY Text009
  <2>. QED  BY ONLY test = "t009", <1>1, <1>2, <2>1 DEF StmtOK, Requests, Named
<1>11. CStmtOK(1)
  <2>1. CCode[1].op = "traceme"
    BY Text009
  <2>. QED  BY ONLY test = "t009", <1>1, <1>2, <2>1 DEF CStmtOK, Stored
<1>12. CStmtOK(2)
  <2>1. CCode[2].op = "cpost" /\ CCode[2].sem = "pwait"
    BY Text009
  <2>. QED  BY ONLY test = "t009", <1>1, <1>2, <2>1 DEF CStmtOK, Stored
<1>13. CStmtOK(3)
  <2>1. CCode[3].op = "csemwait" /\ CCode[3].sem = "cwait"
    BY Text009
  <2>. QED  BY ONLY test = "t009", <1>1, <1>2, <2>1 DEF CStmtOK, Stored
<1>14. CStmtOK(4)
  <2>1. CCode[4].op = "call" /\ CCode[4].req = "MUNMAP"
    BY Text009
  <2>. QED  BY ONLY test = "t009", <1>1, <1>2, <2>1 DEF CStmtOK, Stored
<1>15. \A i \in 1..8 : StmtOK(i)
  BY ONLY <1>3, <1>4, <1>5, <1>6, <1>7, <1>8, <1>9, <1>10
<1>16. \A j \in 1..4 : CStmtOK(j)
  BY ONLY <1>11, <1>12, <1>13, <1>14
<1>. QED  BY ONLY test = "t009", <1>1, <1>2, <1>15, <1>16 DEF TextOK

\* The statements of 010, parent and child.
LEMMA Text010 ==
  ASSUME test = "t010"
  PROVE  /\ Len(Code) = 22 /\ DOMAIN Code = 1..22
         /\ Len(CCode) = 8 /\ DOMAIN CCode = 1..8
         /\ Test[test].needs = {"FORK"} /\ Test[test].verdict = "exit"
         /\ Code[1].op = "wait" /\ Code[1].who = "any" /\ Code[1].fail = "out"
         /\ Code[2].op = "get" /\ Code[2].req = "PEEKDATA" /\ Code[2].at = "inst_addr" /\ Code[2].to = "brk_addr" /\ Code[2].fail = "cont"
         /\ Code[3].op = "set" /\ Code[3].req = "POKETEXT" /\ Code[3].at = "brk_addr" /\ Code[3].val = "nop" /\ Code[3].fail = "cont"
         /\ Code[4].op = "get" /\ Code[4].req = "GETREGSET" /\ Code[4].at = "greg" /\ Code[4].to = "gregs" /\ Code[4].fail = "cont"
         /\ Code[5].op = "check" /\ Code[5].a = "gregs" /\ Code[5].b = "index" /\ Code[5].fail = "cont"
         /\ Code[6].op = "set" /\ Code[6].req = "SETREGSET" /\ Code[6].at = "greg" /\ Code[6].val = "magic" /\ Code[6].fail = "cont"
         /\ Code[7].op = "get" /\ Code[7].req = "GETREGSET" /\ Code[7].at = "freg" /\ Code[7].to = "fregs" /\ Code[7].fail = "cont"
         /\ Code[8].op = "set" /\ Code[8].req = "SETREGSET" /\ Code[8].at = "freg" /\ Code[8].val = "magic" /\ Code[8].fail = "cont"
         /\ Code[9].op = "get" /\ Code[9].req = "GETREGSET" /\ Code[9].at = "tls" /\ Code[9].to = "org_tls_val" /\ Code[9].fail = "cont"
         /\ Code[10].op = "set" /\ Code[10].req = "SETREGSET" /\ Code[10].at = "tls" /\ Code[10].val = "write_tls_val" /\ Code[10].fail = "cont"
         /\ Code[11].op = "get" /\ Code[11].req = "GETREGSET" /\ Code[11].at = "tls" /\ Code[11].to = "tmp_val" /\ Code[11].fail = "cont"
         /\ Code[12].op = "check" /\ Code[12].a = "tmp_val" /\ Code[12].b = "write_tls_val" /\ Code[12].fail = "cont"
         /\ Code[13].op = "set" /\ Code[13].req = "SETREGSET" /\ Code[13].at = "tls" /\ Code[13].val = "org_tls_val" /\ Code[13].fail = "cont"
         /\ Code[14].op = "get" /\ Code[14].req = "GETREGSET" /\ Code[14].at = "sysno" /\ Code[14].to = "org_sysno" /\ Code[14].fail = "cont"
         /\ Code[15].op = "set" /\ Code[15].req = "SETREGSET" /\ Code[15].at = "sysno" /\ Code[15].val = "write_sysno" /\ Code[15].fail = "cont"
         /\ Code[16].op = "get" /\ Code[16].req = "GETREGSET" /\ Code[16].at = "sysno" /\ Code[16].to = "tmp_val" /\ Code[16].fail = "cont"
         /\ Code[17].op = "check" /\ Code[17].a = "tmp_val" /\ Code[17].b = "write_sysno" /\ Code[17].fail = "cont"
         /\ Code[18].op = "set" /\ Code[18].req = "SETREGSET" /\ Code[18].at = "sysno" /\ Code[18].val = "org_sysno" /\ Code[18].fail = "cont"
         /\ Code[19].op = "set" /\ Code[19].req = "POKEDATA" /\ Code[19].at = "regno0" /\ Code[19].val = "regno" /\ Code[19].fail = "cont"
         /\ Code[20].op = "set" /\ Code[20].req = "POKEDATA" /\ Code[20].at = "regno1" /\ Code[20].val = "regno" /\ Code[20].fail = "cont"
         /\ Code[21].op = "ok"
         /\ Code[22].op = "resume" /\ Code[22].req = "CONT" /\ Code[22].fail = "ret"
         /\ CCode[1].op = "traceme"
         /\ CCode[2].op = "store" /\ CCode[2].at = "greg" /\ CCode[2].val = "index"
         /\ CCode[3].op = "store" /\ CCode[3].at = "freg" /\ CCode[3].val = "index"
         /\ CCode[4].op = "site" /\ CCode[4].at = "site1"
         /\ CCode[5].op = "ccheck" /\ CCode[5].at = "regno0" /\ CCode[5].val = "regno"
         /\ CCode[6].op = "ccheck" /\ CCode[6].at = "regno1" /\ CCode[6].val = "regno"
         /\ CCode[7].op = "ccheck" /\ CCode[7].at = "greg" /\ CCode[7].val = "magic"
         /\ CCode[8].op = "ccheck" /\ CCode[8].at = "freg" /\ CCode[8].val = "magic"
<1>1. Code = Parent010 /\ CCode = Child010 /\ Test[test].needs = {"FORK"} /\ Test[test].verdict = "exit"
  BY DEF Code, CCode, Test, Test010, Run
<1>2. /\ Len(Code) = 22 /\ DOMAIN Code = 1..22
      /\ Code[1] = Wait("any")
      /\ Code[2] = Get("PEEKDATA", "inst_addr", "brk_addr", "cont")
      /\ Code[3] = Set("POKETEXT", "brk_addr", "nop", "cont")
      /\ Code[4] = Get("GETREGSET", "greg", "gregs", "cont")
      /\ Code[5] = Check("gregs", "index")
      /\ Code[6] = Set("SETREGSET", "greg", "magic", "cont")
      /\ Code[7] = Get("GETREGSET", "freg", "fregs", "cont")
      /\ Code[8] = Set("SETREGSET", "freg", "magic", "cont")
      /\ Code[9] = Get("GETREGSET", "tls", "org_tls_val", "cont")
      /\ Code[10] = Set("SETREGSET", "tls", "write_tls_val", "cont")
      /\ Code[11] = Get("GETREGSET", "tls", "tmp_val", "cont")
      /\ Code[12] = Check("tmp_val", "write_tls_val")
      /\ Code[13] = Set("SETREGSET", "tls", "org_tls_val", "cont")
      /\ Code[14] = Get("GETREGSET", "sysno", "org_sysno", "cont")
      /\ Code[15] = Set("SETREGSET", "sysno", "write_sysno", "cont")
      /\ Code[16] = Get("GETREGSET", "sysno", "tmp_val", "cont")
      /\ Code[17] = Check("tmp_val", "write_sysno")
      /\ Code[18] = Set("SETREGSET", "sysno", "org_sysno", "cont")
      /\ Code[19] = Set("POKEDATA", "regno0", "regno", "cont")
      /\ Code[20] = Set("POKEDATA", "regno1", "regno", "cont")
      /\ Code[21] = Ok
      /\ Code[22] = LastCont
  BY ONLY <1>1 DEF Parent010, Begin, rewrite_brk_inst, setregset_check, SetAndReadBack, Success
<1>3. /\ Len(CCode) = 8 /\ DOMAIN CCode = 1..8
      /\ CCode[1] = Traceme
      /\ CCode[2] = Store("greg", "index")
      /\ CCode[3] = Store("freg", "index")
      /\ CCode[4] = Site("site1")
      /\ CCode[5] = CCheck("regno0", "regno")
      /\ CCode[6] = CCheck("regno1", "regno")
      /\ CCode[7] = CCheck("greg", "magic")
      /\ CCode[8] = CCheck("freg", "magic")
  BY ONLY <1>1 DEF Child010, pre_getregset, setregset_child_check
<1>4. /\ Code[1].op = "wait" /\ Code[1].who = "any" /\ Code[1].fail = "out"
      /\ Code[2].op = "get" /\ Code[2].req = "PEEKDATA" /\ Code[2].at = "inst_addr" /\ Code[2].to = "brk_addr" /\ Code[2].fail = "cont"
      /\ Code[3].op = "set" /\ Code[3].req = "POKETEXT" /\ Code[3].at = "brk_addr" /\ Code[3].val = "nop" /\ Code[3].fail = "cont"
      /\ Code[4].op = "get" /\ Code[4].req = "GETREGSET" /\ Code[4].at = "greg" /\ Code[4].to = "gregs" /\ Code[4].fail = "cont"
      /\ Code[5].op = "check" /\ Code[5].a = "gregs" /\ Code[5].b = "index" /\ Code[5].fail = "cont"
      /\ Code[6].op = "set" /\ Code[6].req = "SETREGSET" /\ Code[6].at = "greg" /\ Code[6].val = "magic" /\ Code[6].fail = "cont"
  BY ONLY <1>2 DEF Wait, Get, Set, Check
<1>5. /\ Code[7].op = "get" /\ Code[7].req = "GETREGSET" /\ Code[7].at = "freg" /\ Code[7].to = "fregs" /\ Code[7].fail = "cont"
      /\ Code[8].op = "set" /\ Code[8].req = "SETREGSET" /\ Code[8].at = "freg" /\ Code[8].val = "magic" /\ Code[8].fail = "cont"
      /\ Code[9].op = "get" /\ Code[9].req = "GETREGSET" /\ Code[9].at = "tls" /\ Code[9].to = "org_tls_val" /\ Code[9].fail = "cont"
      /\ Code[10].op = "set" /\ Code[10].req = "SETREGSET" /\ Code[10].at = "tls" /\ Code[10].val = "write_tls_val" /\ Code[10].fail = "cont"
      /\ Code[11].op = "get" /\ Code[11].req = "GETREGSET" /\ Code[11].at = "tls" /\ Code[11].to = "tmp_val" /\ Code[11].fail = "cont"
      /\ Code[12].op = "check" /\ Code[12].a = "tmp_val" /\ Code[12].b = "write_tls_val" /\ Code[12].fail = "cont"
  BY ONLY <1>2 DEF Get, Set, Check
<1>6. /\ Code[13].op = "set" /\ Code[13].req = "SETREGSET" /\ Code[13].at = "tls" /\ Code[13].val = "org_tls_val" /\ Code[13].fail = "cont"
      /\ Code[14].op = "get" /\ Code[14].req = "GETREGSET" /\ Code[14].at = "sysno" /\ Code[14].to = "org_sysno" /\ Code[14].fail = "cont"
      /\ Code[15].op = "set" /\ Code[15].req = "SETREGSET" /\ Code[15].at = "sysno" /\ Code[15].val = "write_sysno" /\ Code[15].fail = "cont"
      /\ Code[16].op = "get" /\ Code[16].req = "GETREGSET" /\ Code[16].at = "sysno" /\ Code[16].to = "tmp_val" /\ Code[16].fail = "cont"
      /\ Code[17].op = "check" /\ Code[17].a = "tmp_val" /\ Code[17].b = "write_sysno" /\ Code[17].fail = "cont"
      /\ Code[18].op = "set" /\ Code[18].req = "SETREGSET" /\ Code[18].at = "sysno" /\ Code[18].val = "org_sysno" /\ Code[18].fail = "cont"
  BY ONLY <1>2 DEF Set, Get, Check
<1>7. /\ Code[19].op = "set" /\ Code[19].req = "POKEDATA" /\ Code[19].at = "regno0" /\ Code[19].val = "regno" /\ Code[19].fail = "cont"
      /\ Code[20].op = "set" /\ Code[20].req = "POKEDATA" /\ Code[20].at = "regno1" /\ Code[20].val = "regno" /\ Code[20].fail = "cont"
      /\ Code[21].op = "ok"
      /\ Code[22].op = "resume" /\ Code[22].req = "CONT" /\ Code[22].fail = "ret"
  BY ONLY <1>2 DEF Set, Ok, LastCont
<1>8. /\ CCode[1].op = "traceme"
      /\ CCode[2].op = "store" /\ CCode[2].at = "greg" /\ CCode[2].val = "index"
      /\ CCode[3].op = "store" /\ CCode[3].at = "freg" /\ CCode[3].val = "index"
      /\ CCode[4].op = "site" /\ CCode[4].at = "site1"
      /\ CCode[5].op = "ccheck" /\ CCode[5].at = "regno0" /\ CCode[5].val = "regno"
      /\ CCode[6].op = "ccheck" /\ CCode[6].at = "regno1" /\ CCode[6].val = "regno"
  BY ONLY <1>3 DEF Traceme, Store, Site, CCheck
<1>9. /\ CCode[7].op = "ccheck" /\ CCode[7].at = "greg" /\ CCode[7].val = "magic"
      /\ CCode[8].op = "ccheck" /\ CCode[8].at = "freg" /\ CCode[8].val = "magic"
  BY ONLY <1>3 DEF CCheck
<1>. QED  BY ONLY <1>1, <1>2, <1>3, <1>4, <1>5, <1>6, <1>7, <1>8, <1>9

\* 010 keeps to the rules.
LEMMA Rules010 ==
  ASSUME test = "t010"
  PROVE  TextOK
<1>1. H = 2..22 /\ OkAt[test] = 21 /\ TraceAt[test] = 1 /\ PostAt[test] = 0 /\ WaitAt[test] = 1
  BY DEF H, Hold, OkAt, TraceAt, PostAt, WaitAt
<1>2. /\ Len(Code) = 22 /\ DOMAIN Code = 1..22 /\ Len(CCode) = 8 /\ DOMAIN CCode = 1..8
      /\ Test[test].verdict = "exit"
  BY Text010
<1>3. StmtOK(1)
  <2>1. Code[1].op = "wait" /\ Code[1].who = "any" /\ Code[1].fail = "out"
    BY Text010
  <2>. QED  BY ONLY test = "t010", <1>1, <1>2, <2>1 DEF StmtOK, Requests, Named
<1>4. StmtOK(2)
  <2>1. /\ Code[2].op = "get" /\ Code[2].req = "PEEKDATA" /\ Code[2].at = "inst_addr" /\ Code[2].to = "brk_addr" /\ Code[2].fail = "cont"
        /\ Code[22].op = "resume"
    BY Text010
  <2>. QED  BY ONLY test = "t010", <1>1, <1>2, <2>1 DEF StmtOK, Requests, Named
<1>5. StmtOK(3)
  <2>1. /\ Code[3].op = "set" /\ Code[3].req = "POKETEXT" /\ Code[3].at = "brk_addr" /\ Code[3].val = "nop" /\ Code[3].fail = "cont"
        /\ Code[22].op = "resume"
    BY Text010
  <2>. QED  BY ONLY test = "t010", <1>1, <1>2, <2>1 DEF StmtOK, Requests, Named
<1>6. StmtOK(4)
  <2>1. /\ Code[4].op = "get" /\ Code[4].req = "GETREGSET" /\ Code[4].at = "greg" /\ Code[4].to = "gregs" /\ Code[4].fail = "cont"
        /\ Code[22].op = "resume"
    BY Text010
  <2>. QED  BY ONLY test = "t010", <1>1, <1>2, <2>1 DEF StmtOK, Requests, Named
<1>7. StmtOK(5)
  <2>1. /\ Code[5].op = "check" /\ Code[5].a = "gregs" /\ Code[5].b = "index" /\ Code[5].fail = "cont"
        /\ Code[22].op = "resume"
    BY Text010
  <2>. QED  BY ONLY test = "t010", <1>1, <1>2, <2>1 DEF StmtOK, Requests, Named
<1>8. StmtOK(6)
  <2>1. /\ Code[6].op = "set" /\ Code[6].req = "SETREGSET" /\ Code[6].at = "greg" /\ Code[6].val = "magic" /\ Code[6].fail = "cont"
        /\ Code[22].op = "resume"
    BY Text010
  <2>. QED  BY ONLY test = "t010", <1>1, <1>2, <2>1 DEF StmtOK, Requests, Named
<1>9. StmtOK(7)
  <2>1. /\ Code[7].op = "get" /\ Code[7].req = "GETREGSET" /\ Code[7].at = "freg" /\ Code[7].to = "fregs" /\ Code[7].fail = "cont"
        /\ Code[22].op = "resume"
    BY Text010
  <2>. QED  BY ONLY test = "t010", <1>1, <1>2, <2>1 DEF StmtOK, Requests, Named
<1>10. StmtOK(8)
  <2>1. /\ Code[8].op = "set" /\ Code[8].req = "SETREGSET" /\ Code[8].at = "freg" /\ Code[8].val = "magic" /\ Code[8].fail = "cont"
        /\ Code[22].op = "resume"
    BY Text010
  <2>. QED  BY ONLY test = "t010", <1>1, <1>2, <2>1 DEF StmtOK, Requests, Named
<1>11. StmtOK(9)
  <2>1. /\ Code[9].op = "get" /\ Code[9].req = "GETREGSET" /\ Code[9].at = "tls" /\ Code[9].to = "org_tls_val" /\ Code[9].fail = "cont"
        /\ Code[22].op = "resume"
    BY Text010
  <2>. QED  BY ONLY test = "t010", <1>1, <1>2, <2>1 DEF StmtOK, Requests, Named
<1>12. StmtOK(10)
  <2>1. /\ Code[10].op = "set" /\ Code[10].req = "SETREGSET" /\ Code[10].at = "tls" /\ Code[10].val = "write_tls_val" /\ Code[10].fail = "cont"
        /\ Code[22].op = "resume"
    BY Text010
  <2>. QED  BY ONLY test = "t010", <1>1, <1>2, <2>1 DEF StmtOK, Requests, Named
<1>13. StmtOK(11)
  <2>1. /\ Code[11].op = "get" /\ Code[11].req = "GETREGSET" /\ Code[11].at = "tls" /\ Code[11].to = "tmp_val" /\ Code[11].fail = "cont"
        /\ Code[22].op = "resume"
    BY Text010
  <2>. QED  BY ONLY test = "t010", <1>1, <1>2, <2>1 DEF StmtOK, Requests, Named
<1>14. StmtOK(12)
  <2>1. /\ Code[12].op = "check" /\ Code[12].a = "tmp_val" /\ Code[12].b = "write_tls_val" /\ Code[12].fail = "cont"
        /\ Code[22].op = "resume"
    BY Text010
  <2>. QED  BY ONLY test = "t010", <1>1, <1>2, <2>1 DEF StmtOK, Requests, Named
<1>15. StmtOK(13)
  <2>1. /\ Code[13].op = "set" /\ Code[13].req = "SETREGSET" /\ Code[13].at = "tls" /\ Code[13].val = "org_tls_val" /\ Code[13].fail = "cont"
        /\ Code[22].op = "resume"
    BY Text010
  <2>. QED  BY ONLY test = "t010", <1>1, <1>2, <2>1 DEF StmtOK, Requests, Named
<1>16. StmtOK(14)
  <2>1. /\ Code[14].op = "get" /\ Code[14].req = "GETREGSET" /\ Code[14].at = "sysno" /\ Code[14].to = "org_sysno" /\ Code[14].fail = "cont"
        /\ Code[22].op = "resume"
    BY Text010
  <2>. QED  BY ONLY test = "t010", <1>1, <1>2, <2>1 DEF StmtOK, Requests, Named
<1>17. StmtOK(15)
  <2>1. /\ Code[15].op = "set" /\ Code[15].req = "SETREGSET" /\ Code[15].at = "sysno" /\ Code[15].val = "write_sysno" /\ Code[15].fail = "cont"
        /\ Code[22].op = "resume"
    BY Text010
  <2>. QED  BY ONLY test = "t010", <1>1, <1>2, <2>1 DEF StmtOK, Requests, Named
<1>18. StmtOK(16)
  <2>1. /\ Code[16].op = "get" /\ Code[16].req = "GETREGSET" /\ Code[16].at = "sysno" /\ Code[16].to = "tmp_val" /\ Code[16].fail = "cont"
        /\ Code[22].op = "resume"
    BY Text010
  <2>. QED  BY ONLY test = "t010", <1>1, <1>2, <2>1 DEF StmtOK, Requests, Named
<1>19. StmtOK(17)
  <2>1. /\ Code[17].op = "check" /\ Code[17].a = "tmp_val" /\ Code[17].b = "write_sysno" /\ Code[17].fail = "cont"
        /\ Code[22].op = "resume"
    BY Text010
  <2>. QED  BY ONLY test = "t010", <1>1, <1>2, <2>1 DEF StmtOK, Requests, Named
<1>20. StmtOK(18)
  <2>1. /\ Code[18].op = "set" /\ Code[18].req = "SETREGSET" /\ Code[18].at = "sysno" /\ Code[18].val = "org_sysno" /\ Code[18].fail = "cont"
        /\ Code[22].op = "resume"
    BY Text010
  <2>. QED  BY ONLY test = "t010", <1>1, <1>2, <2>1 DEF StmtOK, Requests, Named
<1>21. StmtOK(19)
  <2>1. /\ Code[19].op = "set" /\ Code[19].req = "POKEDATA" /\ Code[19].at = "regno0" /\ Code[19].val = "regno" /\ Code[19].fail = "cont"
        /\ Code[22].op = "resume"
    BY Text010
  <2>. QED  BY ONLY test = "t010", <1>1, <1>2, <2>1 DEF StmtOK, Requests, Named
<1>22. StmtOK(20)
  <2>1. /\ Code[20].op = "set" /\ Code[20].req = "POKEDATA" /\ Code[20].at = "regno1" /\ Code[20].val = "regno" /\ Code[20].fail = "cont"
        /\ Code[22].op = "resume"
    BY Text010
  <2>. QED  BY ONLY test = "t010", <1>1, <1>2, <2>1 DEF StmtOK, Requests, Named
<1>23. StmtOK(21)
  <2>1. Code[21].op = "ok"
    BY Text010
  <2>. QED  BY ONLY test = "t010", <1>1, <1>2, <2>1 DEF StmtOK, Requests, Named
<1>24. StmtOK(22)
  <2>1. Code[22].op = "resume" /\ Code[22].req = "CONT" /\ Code[22].fail = "ret"
    BY Text010
  <2>. QED  BY ONLY test = "t010", <1>1, <1>2, <2>1 DEF StmtOK, Requests, Named
<1>25. CStmtOK(1)
  <2>1. CCode[1].op = "traceme"
    BY Text010
  <2>. QED  BY ONLY test = "t010", <1>1, <1>2, <2>1 DEF CStmtOK, Stored
<1>26. CStmtOK(2)
  <2>1. CCode[2].op = "store" /\ CCode[2].at = "greg" /\ CCode[2].val = "index"
    BY Text010
  <2>. QED  BY ONLY test = "t010", <1>1, <1>2, <2>1 DEF CStmtOK, Stored
<1>27. CStmtOK(3)
  <2>1. CCode[3].op = "store" /\ CCode[3].at = "freg" /\ CCode[3].val = "index"
    BY Text010
  <2>. QED  BY ONLY test = "t010", <1>1, <1>2, <2>1 DEF CStmtOK, Stored
<1>28. CStmtOK(4)
  <2>1. CCode[4].op = "site" /\ CCode[4].at = "site1"
    BY Text010
  <2>. QED  BY ONLY test = "t010", <1>1, <1>2, <2>1 DEF CStmtOK, Stored
<1>29. CStmtOK(5)
  <2>1. CCode[5].op = "ccheck" /\ CCode[5].at = "regno0" /\ CCode[5].val = "regno"
    BY Text010
  <2>. QED  BY ONLY test = "t010", <1>1, <1>2, <2>1 DEF CStmtOK, Stored
<1>30. CStmtOK(6)
  <2>1. CCode[6].op = "ccheck" /\ CCode[6].at = "regno1" /\ CCode[6].val = "regno"
    BY Text010
  <2>. QED  BY ONLY test = "t010", <1>1, <1>2, <2>1 DEF CStmtOK, Stored
<1>31. CStmtOK(7)
  <2>1. CCode[7].op = "ccheck" /\ CCode[7].at = "greg" /\ CCode[7].val = "magic"
    BY Text010
  <2>. QED  BY ONLY test = "t010", <1>1, <1>2, <2>1 DEF CStmtOK, Stored
<1>32. CStmtOK(8)
  <2>1. CCode[8].op = "ccheck" /\ CCode[8].at = "freg" /\ CCode[8].val = "magic"
    BY Text010
  <2>. QED  BY ONLY test = "t010", <1>1, <1>2, <2>1 DEF CStmtOK, Stored
<1>33. \A i \in 1..22 : StmtOK(i)
  BY ONLY <1>3, <1>4, <1>5, <1>6, <1>7, <1>8, <1>9, <1>10, <1>11, <1>12, <1>13, <1>14, <1>15, <1>16, <1>17, <1>18, <1>19, <1>20, <1>21, <1>22, <1>23, <1>24
<1>34. \A j \in 1..8 : CStmtOK(j)
  BY ONLY <1>25, <1>26, <1>27, <1>28, <1>29, <1>30, <1>31, <1>32
<1>. QED  BY ONLY test = "t010", <1>1, <1>2, <1>33, <1>34 DEF TextOK

\* The statements of 011, parent and child.
LEMMA Text011 ==
  ASSUME test = "t011"
  PROVE  /\ Len(Code) = 17 /\ DOMAIN Code = 1..17
         /\ Len(CCode) = 4 /\ DOMAIN CCode = 1..4
         /\ Test[test].needs = {"FORK"} /\ Test[test].verdict = "exit"
         /\ Code[1].op = "wait" /\ Code[1].who = "any" /\ Code[1].fail = "out"
         /\ Code[2].op = "get" /\ Code[2].req = "PEEKDATA" /\ Code[2].at = "inst_addr" /\ Code[2].to = "brk_addr" /\ Code[2].fail = "cont"
         /\ Code[3].op = "set" /\ Code[3].req = "POKETEXT" /\ Code[3].at = "brk_addr" /\ Code[3].val = "nop" /\ Code[3].fail = "cont"
         /\ Code[4].op = "get" /\ Code[4].req = "PEEKDATA" /\ Code[4].at = "addr" /\ Code[4].to = "inst" /\ Code[4].fail = "cont"
         /\ Code[5].op = "get" /\ Code[5].req = "GETREGSET" /\ Code[5].at = "hwwatch" /\ Code[5].to = "wpoint" /\ Code[5].fail = "cont"
         /\ Code[6].op = "set" /\ Code[6].req = "SETREGSET" /\ Code[6].at = "hwwatch" /\ Code[6].val = "buf" /\ Code[6].fail = "cont"
         /\ Code[7].op = "resume" /\ Code[7].req = "CONT" /\ Code[7].fail = "out"
         /\ Code[8].op = "wait" /\ Code[8].who = "any" /\ Code[8].fail = "out"
         /\ Code[9].op = "stopsig" /\ Code[9].sig = "TRAP" /\ Code[9].fail = "cont"
         /\ Code[10].op = "getinfo" /\ Code[10].req = "GETSIGINFO" /\ Code[10].to = "info" /\ Code[10].fail = "cont"
         /\ Code[11].op = "checkinfo" /\ Code[11].a = "info" /\ Code[11].info = [signo |-> "TRAP", code |-> "HWBKPT", addr |-> "buf"] /\ Code[11].fail = "cont"
         /\ Code[12].op = "get" /\ Code[12].req = "GETREGSET" /\ Code[12].at = "pc" /\ Code[12].to = "gregs_pc" /\ Code[12].fail = "cont"
         /\ Code[13].op = "check" /\ Code[13].a = "gregs_pc" /\ Code[13].b = "inst" /\ Code[13].fail = "cont"
         /\ Code[14].op = "get" /\ Code[14].req = "GETREGSET" /\ Code[14].at = "hwwatch" /\ Code[14].to = "wpoint" /\ Code[14].fail = "cont"
         /\ Code[15].op = "set" /\ Code[15].req = "SETREGSET" /\ Code[15].at = "hwwatch" /\ Code[15].val = "none" /\ Code[15].fail = "cont"
         /\ Code[16].op = "ok"
         /\ Code[17].op = "resume" /\ Code[17].req = "CONT" /\ Code[17].fail = "ret"
         /\ CCode[1].op = "traceme"
         /\ CCode[2].op = "store" /\ CCode[2].at = "addr" /\ CCode[2].val = "t"
         /\ CCode[3].op = "site" /\ CCode[3].at = "site1"
         /\ CCode[4].op = "storeinsn" /\ CCode[4].at = "t" /\ CCode[4].to = "buf" /\ CCode[4].val = "CHILD_MAGIC"
<1>1. Code = Parent011 /\ CCode = Child011 /\ Test[test].needs = {"FORK"} /\ Test[test].verdict = "exit"
  BY DEF Code, CCode, Test, Test011, Run
<1>2. /\ Len(Code) = 17 /\ DOMAIN Code = 1..17
      /\ Code[1] = Wait("any")
      /\ Code[2] = Get("PEEKDATA", "inst_addr", "brk_addr", "cont")
      /\ Code[3] = Set("POKETEXT", "brk_addr", "nop", "cont")
      /\ Code[4] = Get("PEEKDATA", "addr", "inst", "cont")
      /\ Code[5] = Get("GETREGSET", "hwwatch", "wpoint", "cont")
      /\ Code[6] = Set("SETREGSET", "hwwatch", "buf", "cont")
      /\ Code[7] = Resume("CONT", "out")
      /\ Code[8] = Wait("any")
      /\ Code[9] = StopSig("TRAP")
      /\ Code[10] = GetInfo("info")
      /\ Code[11] = CheckInfo("info", [signo |-> "TRAP", code |-> "HWBKPT", addr |-> "buf"])
      /\ Code[12] = Get("GETREGSET", "pc", "gregs_pc", "cont")
      /\ Code[13] = Check("gregs_pc", "inst")
      /\ Code[14] = Get("GETREGSET", "hwwatch", "wpoint", "cont")
      /\ Code[15] = Set("SETREGSET", "hwwatch", "none", "cont")
      /\ Code[16] = Ok
      /\ Code[17] = LastCont
  BY ONLY <1>1 DEF Parent011, Begin, rewrite_brk_inst, set_hw_watchpt, check_trap_addr, clear_hw_watchpt, Success, Trap
<1>3. /\ Len(CCode) = 4 /\ DOMAIN CCode = 1..4
      /\ CCode[1] = Traceme
      /\ CCode[2] = Store("addr", "t")
      /\ CCode[3] = Site("site1")
      /\ CCode[4] = StoreInsn("t", "buf", "CHILD_MAGIC")
  BY ONLY <1>1 DEF Child011, get_or_do_store_inst
<1>4. /\ Code[1].op = "wait" /\ Code[1].who = "any" /\ Code[1].fail = "out"
      /\ Code[2].op = "get" /\ Code[2].req = "PEEKDATA" /\ Code[2].at = "inst_addr" /\ Code[2].to = "brk_addr" /\ Code[2].fail = "cont"
      /\ Code[3].op = "set" /\ Code[3].req = "POKETEXT" /\ Code[3].at = "brk_addr" /\ Code[3].val = "nop" /\ Code[3].fail = "cont"
      /\ Code[4].op = "get" /\ Code[4].req = "PEEKDATA" /\ Code[4].at = "addr" /\ Code[4].to = "inst" /\ Code[4].fail = "cont"
      /\ Code[5].op = "get" /\ Code[5].req = "GETREGSET" /\ Code[5].at = "hwwatch" /\ Code[5].to = "wpoint" /\ Code[5].fail = "cont"
      /\ Code[6].op = "set" /\ Code[6].req = "SETREGSET" /\ Code[6].at = "hwwatch" /\ Code[6].val = "buf" /\ Code[6].fail = "cont"
  BY ONLY <1>2 DEF Wait, Get, Set
<1>5. /\ Code[7].op = "resume" /\ Code[7].req = "CONT" /\ Code[7].fail = "out"
      /\ Code[8].op = "wait" /\ Code[8].who = "any" /\ Code[8].fail = "out"
      /\ Code[9].op = "stopsig" /\ Code[9].sig = "TRAP" /\ Code[9].fail = "cont"
      /\ Code[10].op = "getinfo" /\ Code[10].req = "GETSIGINFO" /\ Code[10].to = "info" /\ Code[10].fail = "cont"
      /\ Code[11].op = "checkinfo" /\ Code[11].a = "info" /\ Code[11].info = [signo |-> "TRAP", code |-> "HWBKPT", addr |-> "buf"] /\ Code[11].fail = "cont"
      /\ Code[12].op = "get" /\ Code[12].req = "GETREGSET" /\ Code[12].at = "pc" /\ Code[12].to = "gregs_pc" /\ Code[12].fail = "cont"
  BY ONLY <1>2 DEF Resume, Wait, StopSig, GetInfo, CheckInfo, Get
<1>6. /\ Code[13].op = "check" /\ Code[13].a = "gregs_pc" /\ Code[13].b = "inst" /\ Code[13].fail = "cont"
      /\ Code[14].op = "get" /\ Code[14].req = "GETREGSET" /\ Code[14].at = "hwwatch" /\ Code[14].to = "wpoint" /\ Code[14].fail = "cont"
      /\ Code[15].op = "set" /\ Code[15].req = "SETREGSET" /\ Code[15].at = "hwwatch" /\ Code[15].val = "none" /\ Code[15].fail = "cont"
      /\ Code[16].op = "ok"
      /\ Code[17].op = "resume" /\ Code[17].req = "CONT" /\ Code[17].fail = "ret"
  BY ONLY <1>2 DEF Check, Get, Set, Ok, LastCont
<1>7. /\ CCode[1].op = "traceme"
      /\ CCode[2].op = "store" /\ CCode[2].at = "addr" /\ CCode[2].val = "t"
      /\ CCode[3].op = "site" /\ CCode[3].at = "site1"
      /\ CCode[4].op = "storeinsn" /\ CCode[4].at = "t" /\ CCode[4].to = "buf" /\ CCode[4].val = "CHILD_MAGIC"
  BY ONLY <1>3 DEF Traceme, Store, Site, StoreInsn
<1>. QED  BY ONLY <1>1, <1>2, <1>3, <1>4, <1>5, <1>6, <1>7

\* 011 keeps to the rules.
LEMMA Rules011 ==
  ASSUME test = "t011"
  PROVE  TextOK
<1>1. H = (2..7) \union (9..17) /\ OkAt[test] = 16 /\ TraceAt[test] = 1 /\ PostAt[test] = 0 /\ WaitAt[test] = 1
  BY DEF H, Hold, OkAt, TraceAt, PostAt, WaitAt
<1>2. /\ Len(Code) = 17 /\ DOMAIN Code = 1..17 /\ Len(CCode) = 4 /\ DOMAIN CCode = 1..4
      /\ Test[test].verdict = "exit"
  BY Text011
<1>3. StmtOK(1)
  <2>1. Code[1].op = "wait" /\ Code[1].who = "any" /\ Code[1].fail = "out"
    BY Text011
  <2>. QED  BY ONLY test = "t011", <1>1, <1>2, <2>1 DEF StmtOK, Requests, Named
<1>4. StmtOK(2)
  <2>1. /\ Code[2].op = "get" /\ Code[2].req = "PEEKDATA" /\ Code[2].at = "inst_addr" /\ Code[2].to = "brk_addr" /\ Code[2].fail = "cont"
        /\ Code[17].op = "resume"
    BY Text011
  <2>. QED  BY ONLY test = "t011", <1>1, <1>2, <2>1 DEF StmtOK, Requests, Named
<1>5. StmtOK(3)
  <2>1. /\ Code[3].op = "set" /\ Code[3].req = "POKETEXT" /\ Code[3].at = "brk_addr" /\ Code[3].val = "nop" /\ Code[3].fail = "cont"
        /\ Code[17].op = "resume"
    BY Text011
  <2>. QED  BY ONLY test = "t011", <1>1, <1>2, <2>1 DEF StmtOK, Requests, Named
<1>6. StmtOK(4)
  <2>1. /\ Code[4].op = "get" /\ Code[4].req = "PEEKDATA" /\ Code[4].at = "addr" /\ Code[4].to = "inst" /\ Code[4].fail = "cont"
        /\ Code[17].op = "resume"
    BY Text011
  <2>. QED  BY ONLY test = "t011", <1>1, <1>2, <2>1 DEF StmtOK, Requests, Named
<1>7. StmtOK(5)
  <2>1. /\ Code[5].op = "get" /\ Code[5].req = "GETREGSET" /\ Code[5].at = "hwwatch" /\ Code[5].to = "wpoint" /\ Code[5].fail = "cont"
        /\ Code[17].op = "resume"
    BY Text011
  <2>. QED  BY ONLY test = "t011", <1>1, <1>2, <2>1 DEF StmtOK, Requests, Named
<1>8. StmtOK(6)
  <2>1. /\ Code[6].op = "set" /\ Code[6].req = "SETREGSET" /\ Code[6].at = "hwwatch" /\ Code[6].val = "buf" /\ Code[6].fail = "cont"
        /\ Code[17].op = "resume"
    BY Text011
  <2>. QED  BY ONLY test = "t011", <1>1, <1>2, <2>1 DEF StmtOK, Requests, Named
<1>9. StmtOK(7)
  <2>1. Code[7].op = "resume" /\ Code[7].req = "CONT" /\ Code[7].fail = "out"
    BY Text011
  <2>. QED  BY ONLY test = "t011", <1>1, <1>2, <2>1 DEF StmtOK, Requests, Named
<1>10. StmtOK(8)
  <2>1. Code[8].op = "wait" /\ Code[8].who = "any" /\ Code[8].fail = "out"
    BY Text011
  <2>. QED  BY ONLY test = "t011", <1>1, <1>2, <2>1 DEF StmtOK, Requests, Named
<1>11. StmtOK(9)
  <2>1. /\ Code[9].op = "stopsig" /\ Code[9].sig = "TRAP" /\ Code[9].fail = "cont"
        /\ Code[17].op = "resume"
    BY Text011
  <2>. QED  BY ONLY test = "t011", <1>1, <1>2, <2>1 DEF StmtOK, Requests, Named
<1>12. StmtOK(10)
  <2>1. /\ Code[10].op = "getinfo" /\ Code[10].req = "GETSIGINFO" /\ Code[10].to = "info" /\ Code[10].fail = "cont"
        /\ Code[17].op = "resume"
    BY Text011
  <2>. QED  BY ONLY test = "t011", <1>1, <1>2, <2>1 DEF StmtOK, Requests, Named
<1>13. StmtOK(11)
  <2>1. /\ Code[11].op = "checkinfo" /\ Code[11].a = "info" /\ Code[11].info = [signo |-> "TRAP", code |-> "HWBKPT", addr |-> "buf"] /\ Code[11].fail = "cont"
        /\ Code[17].op = "resume"
    BY Text011
  <2>. QED  BY ONLY test = "t011", <1>1, <1>2, <2>1 DEF StmtOK, Requests, Named
<1>14. StmtOK(12)
  <2>1. /\ Code[12].op = "get" /\ Code[12].req = "GETREGSET" /\ Code[12].at = "pc" /\ Code[12].to = "gregs_pc" /\ Code[12].fail = "cont"
        /\ Code[17].op = "resume"
    BY Text011
  <2>. QED  BY ONLY test = "t011", <1>1, <1>2, <2>1 DEF StmtOK, Requests, Named
<1>15. StmtOK(13)
  <2>1. /\ Code[13].op = "check" /\ Code[13].a = "gregs_pc" /\ Code[13].b = "inst" /\ Code[13].fail = "cont"
        /\ Code[17].op = "resume"
    BY Text011
  <2>. QED  BY ONLY test = "t011", <1>1, <1>2, <2>1 DEF StmtOK, Requests, Named
<1>16. StmtOK(14)
  <2>1. /\ Code[14].op = "get" /\ Code[14].req = "GETREGSET" /\ Code[14].at = "hwwatch" /\ Code[14].to = "wpoint" /\ Code[14].fail = "cont"
        /\ Code[17].op = "resume"
    BY Text011
  <2>. QED  BY ONLY test = "t011", <1>1, <1>2, <2>1 DEF StmtOK, Requests, Named
<1>17. StmtOK(15)
  <2>1. /\ Code[15].op = "set" /\ Code[15].req = "SETREGSET" /\ Code[15].at = "hwwatch" /\ Code[15].val = "none" /\ Code[15].fail = "cont"
        /\ Code[17].op = "resume"
    BY Text011
  <2>. QED  BY ONLY test = "t011", <1>1, <1>2, <2>1 DEF StmtOK, Requests, Named
<1>18. StmtOK(16)
  <2>1. Code[16].op = "ok"
    BY Text011
  <2>. QED  BY ONLY test = "t011", <1>1, <1>2, <2>1 DEF StmtOK, Requests, Named
<1>19. StmtOK(17)
  <2>1. Code[17].op = "resume" /\ Code[17].req = "CONT" /\ Code[17].fail = "ret"
    BY Text011
  <2>. QED  BY ONLY test = "t011", <1>1, <1>2, <2>1 DEF StmtOK, Requests, Named
<1>20. CStmtOK(1)
  <2>1. CCode[1].op = "traceme"
    BY Text011
  <2>. QED  BY ONLY test = "t011", <1>1, <1>2, <2>1 DEF CStmtOK, Stored
<1>21. CStmtOK(2)
  <2>1. CCode[2].op = "store" /\ CCode[2].at = "addr" /\ CCode[2].val = "t"
    BY Text011
  <2>. QED  BY ONLY test = "t011", <1>1, <1>2, <2>1 DEF CStmtOK, Stored
<1>22. CStmtOK(3)
  <2>1. CCode[3].op = "site" /\ CCode[3].at = "site1"
    BY Text011
  <2>. QED  BY ONLY test = "t011", <1>1, <1>2, <2>1 DEF CStmtOK, Stored
<1>23. CStmtOK(4)
  <2>1. CCode[4].op = "storeinsn" /\ CCode[4].at = "t" /\ CCode[4].to = "buf" /\ CCode[4].val = "CHILD_MAGIC"
    BY Text011
  <2>. QED  BY ONLY test = "t011", <1>1, <1>2, <2>1 DEF CStmtOK, Stored
<1>24. \A i \in 1..17 : StmtOK(i)
  BY ONLY <1>3, <1>4, <1>5, <1>6, <1>7, <1>8, <1>9, <1>10, <1>11, <1>12, <1>13, <1>14, <1>15, <1>16, <1>17, <1>18, <1>19
<1>25. \A j \in 1..4 : CStmtOK(j)
  BY ONLY <1>20, <1>21, <1>22, <1>23
<1>. QED  BY ONLY test = "t011", <1>1, <1>2, <1>24, <1>25 DEF TextOK

\* The statements of 012, parent and child.
LEMMA Text012 ==
  ASSUME test = "t012"
  PROVE  /\ Len(Code) = 15 /\ DOMAIN Code = 1..15
         /\ Len(CCode) = 4 /\ DOMAIN CCode = 1..4
         /\ Test[test].needs = {"FORK"} /\ Test[test].verdict = "exit"
         /\ Code[1].op = "wait" /\ Code[1].who = "any" /\ Code[1].fail = "out"
         /\ Code[2].op = "get" /\ Code[2].req = "PEEKDATA" /\ Code[2].at = "inst_addr" /\ Code[2].to = "brk_addr" /\ Code[2].fail = "cont"
         /\ Code[3].op = "set" /\ Code[3].req = "POKETEXT" /\ Code[3].at = "brk_addr" /\ Code[3].val = "nop" /\ Code[3].fail = "cont"
         /\ Code[4].op = "get" /\ Code[4].req = "PEEKDATA" /\ Code[4].at = "addr" /\ Code[4].to = "inst" /\ Code[4].fail = "cont"
         /\ Code[5].op = "get" /\ Code[5].req = "GETREGSET" /\ Code[5].at = "hwbrk" /\ Code[5].to = "bpoint" /\ Code[5].fail = "cont"
         /\ Code[6].op = "set" /\ Code[6].req = "SETREGSET" /\ Code[6].at = "hwbrk" /\ Code[6].val = "inst" /\ Code[6].fail = "cont"
         /\ Code[7].op = "resume" /\ Code[7].req = "CONT" /\ Code[7].fail = "out"
         /\ Code[8].op = "wait" /\ Code[8].who = "any" /\ Code[8].fail = "out"
         /\ Code[9].op = "stopsig" /\ Code[9].sig = "TRAP" /\ Code[9].fail = "cont"
         /\ Code[10].op = "getinfo" /\ Code[10].req = "GETSIGINFO" /\ Code[10].to = "info" /\ Code[10].fail = "cont"
         /\ Code[11].op = "checkinfo" /\ Code[11].a = "info" /\ Code[11].info = [signo |-> "TRAP", code |-> "HWBKPT", addr |-> "t"] /\ Code[11].fail = "cont"
         /\ Code[12].op = "get" /\ Code[12].req = "GETREGSET" /\ Code[12].at = "hwbrk" /\ Code[12].to = "bpoint" /\ Code[12].fail = "cont"
         /\ Code[13].op = "set" /\ Code[13].req = "SETREGSET" /\ Code[13].at = "hwbrk" /\ Code[13].val = "none" /\ Code[13].fail = "cont"
         /\ Code[14].op = "ok"
         /\ Code[15].op = "resume" /\ Code[15].req = "CONT" /\ Code[15].fail = "ret"
         /\ CCode[1].op = "traceme"
         /\ CCode[2].op = "store" /\ CCode[2].at = "addr" /\ CCode[2].val = "t"
         /\ CCode[3].op = "site" /\ CCode[3].at = "site1"
         /\ CCode[4].op = "insn" /\ CCode[4].at = "t"
<1>1. Code = Parent012 /\ CCode = Child012 /\ Test[test].needs = {"FORK"} /\ Test[test].verdict = "exit"
  BY DEF Code, CCode, Test, Test012, Run
<1>2. /\ Len(Code) = 15 /\ DOMAIN Code = 1..15
      /\ Code[1] = Wait("any")
      /\ Code[2] = Get("PEEKDATA", "inst_addr", "brk_addr", "cont")
      /\ Code[3] = Set("POKETEXT", "brk_addr", "nop", "cont")
      /\ Code[4] = Get("PEEKDATA", "addr", "inst", "cont")
      /\ Code[5] = Get("GETREGSET", "hwbrk", "bpoint", "cont")
      /\ Code[6] = Set("SETREGSET", "hwbrk", "inst", "cont")
      /\ Code[7] = Resume("CONT", "out")
      /\ Code[8] = Wait("any")
      /\ Code[9] = StopSig("TRAP")
      /\ Code[10] = GetInfo("info")
      /\ Code[11] = CheckInfo("info", [signo |-> "TRAP", code |-> "HWBKPT", addr |-> "t"])
      /\ Code[12] = Get("GETREGSET", "hwbrk", "bpoint", "cont")
      /\ Code[13] = Set("SETREGSET", "hwbrk", "none", "cont")
      /\ Code[14] = Ok
      /\ Code[15] = LastCont
  BY ONLY <1>1 DEF Parent012, Begin, rewrite_brk_inst, set_hw_breakpt, clear_hw_breakpt, Success, Trap
<1>3. /\ Len(CCode) = 4 /\ DOMAIN CCode = 1..4
      /\ CCode[1] = Traceme
      /\ CCode[2] = Store("addr", "t")
      /\ CCode[3] = Site("site1")
      /\ CCode[4] = Insn("t")
  BY ONLY <1>1 DEF Child012, get_or_do_inst
<1>4. /\ Code[1].op = "wait" /\ Code[1].who = "any" /\ Code[1].fail = "out"
      /\ Code[2].op = "get" /\ Code[2].req = "PEEKDATA" /\ Code[2].at = "inst_addr" /\ Code[2].to = "brk_addr" /\ Code[2].fail = "cont"
      /\ Code[3].op = "set" /\ Code[3].req = "POKETEXT" /\ Code[3].at = "brk_addr" /\ Code[3].val = "nop" /\ Code[3].fail = "cont"
      /\ Code[4].op = "get" /\ Code[4].req = "PEEKDATA" /\ Code[4].at = "addr" /\ Code[4].to = "inst" /\ Code[4].fail = "cont"
      /\ Code[5].op = "get" /\ Code[5].req = "GETREGSET" /\ Code[5].at = "hwbrk" /\ Code[5].to = "bpoint" /\ Code[5].fail = "cont"
      /\ Code[6].op = "set" /\ Code[6].req = "SETREGSET" /\ Code[6].at = "hwbrk" /\ Code[6].val = "inst" /\ Code[6].fail = "cont"
  BY ONLY <1>2 DEF Wait, Get, Set
<1>5. /\ Code[7].op = "resume" /\ Code[7].req = "CONT" /\ Code[7].fail = "out"
      /\ Code[8].op = "wait" /\ Code[8].who = "any" /\ Code[8].fail = "out"
      /\ Code[9].op = "stopsig" /\ Code[9].sig = "TRAP" /\ Code[9].fail = "cont"
      /\ Code[10].op = "getinfo" /\ Code[10].req = "GETSIGINFO" /\ Code[10].to = "info" /\ Code[10].fail = "cont"
      /\ Code[11].op = "checkinfo" /\ Code[11].a = "info" /\ Code[11].info = [signo |-> "TRAP", code |-> "HWBKPT", addr |-> "t"] /\ Code[11].fail = "cont"
      /\ Code[12].op = "get" /\ Code[12].req = "GETREGSET" /\ Code[12].at = "hwbrk" /\ Code[12].to = "bpoint" /\ Code[12].fail = "cont"
  BY ONLY <1>2 DEF Resume, Wait, StopSig, GetInfo, CheckInfo, Get
<1>6. /\ Code[13].op = "set" /\ Code[13].req = "SETREGSET" /\ Code[13].at = "hwbrk" /\ Code[13].val = "none" /\ Code[13].fail = "cont"
      /\ Code[14].op = "ok"
      /\ Code[15].op = "resume" /\ Code[15].req = "CONT" /\ Code[15].fail = "ret"
  BY ONLY <1>2 DEF Set, Ok, LastCont
<1>7. /\ CCode[1].op = "traceme"
      /\ CCode[2].op = "store" /\ CCode[2].at = "addr" /\ CCode[2].val = "t"
      /\ CCode[3].op = "site" /\ CCode[3].at = "site1"
      /\ CCode[4].op = "insn" /\ CCode[4].at = "t"
  BY ONLY <1>3 DEF Traceme, Store, Site, Insn
<1>. QED  BY ONLY <1>1, <1>2, <1>3, <1>4, <1>5, <1>6, <1>7

\* 012 keeps to the rules.
LEMMA Rules012 ==
  ASSUME test = "t012"
  PROVE  TextOK
<1>1. H = (2..7) \union (9..15) /\ OkAt[test] = 14 /\ TraceAt[test] = 1 /\ PostAt[test] = 0 /\ WaitAt[test] = 1
  BY DEF H, Hold, OkAt, TraceAt, PostAt, WaitAt
<1>2. /\ Len(Code) = 15 /\ DOMAIN Code = 1..15 /\ Len(CCode) = 4 /\ DOMAIN CCode = 1..4
      /\ Test[test].verdict = "exit"
  BY Text012
<1>3. StmtOK(1)
  <2>1. Code[1].op = "wait" /\ Code[1].who = "any" /\ Code[1].fail = "out"
    BY Text012
  <2>. QED  BY ONLY test = "t012", <1>1, <1>2, <2>1 DEF StmtOK, Requests, Named
<1>4. StmtOK(2)
  <2>1. /\ Code[2].op = "get" /\ Code[2].req = "PEEKDATA" /\ Code[2].at = "inst_addr" /\ Code[2].to = "brk_addr" /\ Code[2].fail = "cont"
        /\ Code[15].op = "resume"
    BY Text012
  <2>. QED  BY ONLY test = "t012", <1>1, <1>2, <2>1 DEF StmtOK, Requests, Named
<1>5. StmtOK(3)
  <2>1. /\ Code[3].op = "set" /\ Code[3].req = "POKETEXT" /\ Code[3].at = "brk_addr" /\ Code[3].val = "nop" /\ Code[3].fail = "cont"
        /\ Code[15].op = "resume"
    BY Text012
  <2>. QED  BY ONLY test = "t012", <1>1, <1>2, <2>1 DEF StmtOK, Requests, Named
<1>6. StmtOK(4)
  <2>1. /\ Code[4].op = "get" /\ Code[4].req = "PEEKDATA" /\ Code[4].at = "addr" /\ Code[4].to = "inst" /\ Code[4].fail = "cont"
        /\ Code[15].op = "resume"
    BY Text012
  <2>. QED  BY ONLY test = "t012", <1>1, <1>2, <2>1 DEF StmtOK, Requests, Named
<1>7. StmtOK(5)
  <2>1. /\ Code[5].op = "get" /\ Code[5].req = "GETREGSET" /\ Code[5].at = "hwbrk" /\ Code[5].to = "bpoint" /\ Code[5].fail = "cont"
        /\ Code[15].op = "resume"
    BY Text012
  <2>. QED  BY ONLY test = "t012", <1>1, <1>2, <2>1 DEF StmtOK, Requests, Named
<1>8. StmtOK(6)
  <2>1. /\ Code[6].op = "set" /\ Code[6].req = "SETREGSET" /\ Code[6].at = "hwbrk" /\ Code[6].val = "inst" /\ Code[6].fail = "cont"
        /\ Code[15].op = "resume"
    BY Text012
  <2>. QED  BY ONLY test = "t012", <1>1, <1>2, <2>1 DEF StmtOK, Requests, Named
<1>9. StmtOK(7)
  <2>1. Code[7].op = "resume" /\ Code[7].req = "CONT" /\ Code[7].fail = "out"
    BY Text012
  <2>. QED  BY ONLY test = "t012", <1>1, <1>2, <2>1 DEF StmtOK, Requests, Named
<1>10. StmtOK(8)
  <2>1. Code[8].op = "wait" /\ Code[8].who = "any" /\ Code[8].fail = "out"
    BY Text012
  <2>. QED  BY ONLY test = "t012", <1>1, <1>2, <2>1 DEF StmtOK, Requests, Named
<1>11. StmtOK(9)
  <2>1. /\ Code[9].op = "stopsig" /\ Code[9].sig = "TRAP" /\ Code[9].fail = "cont"
        /\ Code[15].op = "resume"
    BY Text012
  <2>. QED  BY ONLY test = "t012", <1>1, <1>2, <2>1 DEF StmtOK, Requests, Named
<1>12. StmtOK(10)
  <2>1. /\ Code[10].op = "getinfo" /\ Code[10].req = "GETSIGINFO" /\ Code[10].to = "info" /\ Code[10].fail = "cont"
        /\ Code[15].op = "resume"
    BY Text012
  <2>. QED  BY ONLY test = "t012", <1>1, <1>2, <2>1 DEF StmtOK, Requests, Named
<1>13. StmtOK(11)
  <2>1. /\ Code[11].op = "checkinfo" /\ Code[11].a = "info" /\ Code[11].info = [signo |-> "TRAP", code |-> "HWBKPT", addr |-> "t"] /\ Code[11].fail = "cont"
        /\ Code[15].op = "resume"
    BY Text012
  <2>. QED  BY ONLY test = "t012", <1>1, <1>2, <2>1 DEF StmtOK, Requests, Named
<1>14. StmtOK(12)
  <2>1. /\ Code[12].op = "get" /\ Code[12].req = "GETREGSET" /\ Code[12].at = "hwbrk" /\ Code[12].to = "bpoint" /\ Code[12].fail = "cont"
        /\ Code[15].op = "resume"
    BY Text012
  <2>. QED  BY ONLY test = "t012", <1>1, <1>2, <2>1 DEF StmtOK, Requests, Named
<1>15. StmtOK(13)
  <2>1. /\ Code[13].op = "set" /\ Code[13].req = "SETREGSET" /\ Code[13].at = "hwbrk" /\ Code[13].val = "none" /\ Code[13].fail = "cont"
        /\ Code[15].op = "resume"
    BY Text012
  <2>. QED  BY ONLY test = "t012", <1>1, <1>2, <2>1 DEF StmtOK, Requests, Named
<1>16. StmtOK(14)
  <2>1. Code[14].op = "ok"
    BY Text012
  <2>. QED  BY ONLY test = "t012", <1>1, <1>2, <2>1 DEF StmtOK, Requests, Named
<1>17. StmtOK(15)
  <2>1. Code[15].op = "resume" /\ Code[15].req = "CONT" /\ Code[15].fail = "ret"
    BY Text012
  <2>. QED  BY ONLY test = "t012", <1>1, <1>2, <2>1 DEF StmtOK, Requests, Named
<1>18. CStmtOK(1)
  <2>1. CCode[1].op = "traceme"
    BY Text012
  <2>. QED  BY ONLY test = "t012", <1>1, <1>2, <2>1 DEF CStmtOK, Stored
<1>19. CStmtOK(2)
  <2>1. CCode[2].op = "store" /\ CCode[2].at = "addr" /\ CCode[2].val = "t"
    BY Text012
  <2>. QED  BY ONLY test = "t012", <1>1, <1>2, <2>1 DEF CStmtOK, Stored
<1>20. CStmtOK(3)
  <2>1. CCode[3].op = "site" /\ CCode[3].at = "site1"
    BY Text012
  <2>. QED  BY ONLY test = "t012", <1>1, <1>2, <2>1 DEF CStmtOK, Stored
<1>21. CStmtOK(4)
  <2>1. CCode[4].op = "insn" /\ CCode[4].at = "t"
    BY Text012
  <2>. QED  BY ONLY test = "t012", <1>1, <1>2, <2>1 DEF CStmtOK, Stored
<1>22. \A i \in 1..15 : StmtOK(i)
  BY ONLY <1>3, <1>4, <1>5, <1>6, <1>7, <1>8, <1>9, <1>10, <1>11, <1>12, <1>13, <1>14, <1>15, <1>16, <1>17
<1>23. \A j \in 1..4 : CStmtOK(j)
  BY ONLY <1>18, <1>19, <1>20, <1>21
<1>. QED  BY ONLY test = "t012", <1>1, <1>2, <1>22, <1>23 DEF TextOK

\* The statements of 013, parent and child.
LEMMA Text013 ==
  ASSUME test = "t013"
  PROVE  /\ Len(Code) = 10 /\ DOMAIN Code = 1..10
         /\ Len(CCode) = 2 /\ DOMAIN CCode = 1..2
         /\ Test[test].needs = {"FORK"} /\ Test[test].verdict = "exit"
         /\ Code[1].op = "wait" /\ Code[1].who = "any" /\ Code[1].fail = "out"
         /\ Code[2].op = "get" /\ Code[2].req = "PEEKDATA" /\ Code[2].at = "inst_addr" /\ Code[2].to = "brk_addr" /\ Code[2].fail = "cont"
         /\ Code[3].op = "set" /\ Code[3].req = "POKETEXT" /\ Code[3].at = "brk_addr" /\ Code[3].val = "nop" /\ Code[3].fail = "cont"
         /\ Code[4].op = "getinfo" /\ Code[4].req = "GETSIGINFO" /\ Code[4].to = "org_info" /\ Code[4].fail = "cont"
         /\ Code[5].op = "setinfo" /\ Code[5].req = "SETSIGINFO" /\ Code[5].info = [signo |-> "TRAP+1", code |-> "BRKPT+1", addr |-> "any"] /\ Code[5].fail = "cont"
         /\ Code[6].op = "getinfo" /\ Code[6].req = "GETSIGINFO" /\ Code[6].to = "tmp_info" /\ Code[6].fail = "cont"
         /\ Code[7].op = "checkinfo" /\ Code[7].a = "tmp_info" /\ Code[7].info = [signo |-> "TRAP+1", code |-> "BRKPT+1", addr |-> "any"] /\ Code[7].fail = "cont"
         /\ Code[8].op = "restoreinfo" /\ Code[8].req = "SETSIGINFO" /\ Code[8].a = "org_info" /\ Code[8].fail = "cont"
         /\ Code[9].op = "ok"
         /\ Code[10].op = "resume" /\ Code[10].req = "CONT" /\ Code[10].fail = "ret"
         /\ CCode[1].op = "traceme"
         /\ CCode[2].op = "site" /\ CCode[2].at = "site1"
<1>1. Code = Parent013 /\ CCode = Child013 /\ Test[test].needs = {"FORK"} /\ Test[test].verdict = "exit"
  BY DEF Code, CCode, Test, Test013, Run
<1>2. /\ Len(Code) = 10 /\ DOMAIN Code = 1..10
      /\ Code[1] = Wait("any")
      /\ Code[2] = Get("PEEKDATA", "inst_addr", "brk_addr", "cont")
      /\ Code[3] = Set("POKETEXT", "brk_addr", "nop", "cont")
      /\ Code[4] = GetInfo("org_info")
      /\ Code[5] = SetInfo([signo |-> "TRAP+1", code |-> "BRKPT+1", addr |-> "any"])
      /\ Code[6] = GetInfo("tmp_info")
      /\ Code[7] = CheckInfo("tmp_info", [signo |-> "TRAP+1", code |-> "BRKPT+1", addr |-> "any"])
      /\ Code[8] = RestoreInfo("org_info")
      /\ Code[9] = Ok
      /\ Code[10] = LastCont
  BY ONLY <1>1 DEF Parent013, Begin, rewrite_brk_inst, Success, write_info
<1>3. /\ Len(CCode) = 2 /\ DOMAIN CCode = 1..2
      /\ CCode[1] = Traceme
      /\ CCode[2] = Site("site1")
  BY ONLY <1>1 DEF Child013
<1>4. /\ Code[1].op = "wait" /\ Code[1].who = "any" /\ Code[1].fail = "out"
      /\ Code[2].op = "get" /\ Code[2].req = "PEEKDATA" /\ Code[2].at = "inst_addr" /\ Code[2].to = "brk_addr" /\ Code[2].fail = "cont"
      /\ Code[3].op = "set" /\ Code[3].req = "POKETEXT" /\ Code[3].at = "brk_addr" /\ Code[3].val = "nop" /\ Code[3].fail = "cont"
      /\ Code[4].op = "getinfo" /\ Code[4].req = "GETSIGINFO" /\ Code[4].to = "org_info" /\ Code[4].fail = "cont"
      /\ Code[5].op = "setinfo" /\ Code[5].req = "SETSIGINFO" /\ Code[5].info = [signo |-> "TRAP+1", code |-> "BRKPT+1", addr |-> "any"] /\ Code[5].fail = "cont"
      /\ Code[6].op = "getinfo" /\ Code[6].req = "GETSIGINFO" /\ Code[6].to = "tmp_info" /\ Code[6].fail = "cont"
  BY ONLY <1>2 DEF Wait, Get, Set, GetInfo, SetInfo
<1>5. /\ Code[7].op = "checkinfo" /\ Code[7].a = "tmp_info" /\ Code[7].info = [signo |-> "TRAP+1", code |-> "BRKPT+1", addr |-> "any"] /\ Code[7].fail = "cont"
      /\ Code[8].op = "restoreinfo" /\ Code[8].req = "SETSIGINFO" /\ Code[8].a = "org_info" /\ Code[8].fail = "cont"
      /\ Code[9].op = "ok"
      /\ Code[10].op = "resume" /\ Code[10].req = "CONT" /\ Code[10].fail = "ret"
  BY ONLY <1>2 DEF CheckInfo, RestoreInfo, Ok, LastCont
<1>6. /\ CCode[1].op = "traceme"
      /\ CCode[2].op = "site" /\ CCode[2].at = "site1"
  BY ONLY <1>3 DEF Traceme, Site
<1>. QED  BY ONLY <1>1, <1>2, <1>3, <1>4, <1>5, <1>6

\* 013 keeps to the rules.
LEMMA Rules013 ==
  ASSUME test = "t013"
  PROVE  TextOK
<1>1. H = 2..10 /\ OkAt[test] = 9 /\ TraceAt[test] = 1 /\ PostAt[test] = 0 /\ WaitAt[test] = 1
  BY DEF H, Hold, OkAt, TraceAt, PostAt, WaitAt
<1>2. /\ Len(Code) = 10 /\ DOMAIN Code = 1..10 /\ Len(CCode) = 2 /\ DOMAIN CCode = 1..2
      /\ Test[test].verdict = "exit"
  BY Text013
<1>3. StmtOK(1)
  <2>1. Code[1].op = "wait" /\ Code[1].who = "any" /\ Code[1].fail = "out"
    BY Text013
  <2>. QED  BY ONLY test = "t013", <1>1, <1>2, <2>1 DEF StmtOK, Requests, Named
<1>4. StmtOK(2)
  <2>1. /\ Code[2].op = "get" /\ Code[2].req = "PEEKDATA" /\ Code[2].at = "inst_addr" /\ Code[2].to = "brk_addr" /\ Code[2].fail = "cont"
        /\ Code[10].op = "resume"
    BY Text013
  <2>. QED  BY ONLY test = "t013", <1>1, <1>2, <2>1 DEF StmtOK, Requests, Named
<1>5. StmtOK(3)
  <2>1. /\ Code[3].op = "set" /\ Code[3].req = "POKETEXT" /\ Code[3].at = "brk_addr" /\ Code[3].val = "nop" /\ Code[3].fail = "cont"
        /\ Code[10].op = "resume"
    BY Text013
  <2>. QED  BY ONLY test = "t013", <1>1, <1>2, <2>1 DEF StmtOK, Requests, Named
<1>6. StmtOK(4)
  <2>1. /\ Code[4].op = "getinfo" /\ Code[4].req = "GETSIGINFO" /\ Code[4].to = "org_info" /\ Code[4].fail = "cont"
        /\ Code[10].op = "resume"
    BY Text013
  <2>. QED  BY ONLY test = "t013", <1>1, <1>2, <2>1 DEF StmtOK, Requests, Named
<1>7. StmtOK(5)
  <2>1. /\ Code[5].op = "setinfo" /\ Code[5].req = "SETSIGINFO" /\ Code[5].info = [signo |-> "TRAP+1", code |-> "BRKPT+1", addr |-> "any"] /\ Code[5].fail = "cont"
        /\ Code[10].op = "resume"
    BY Text013
  <2>. QED  BY ONLY test = "t013", <1>1, <1>2, <2>1 DEF StmtOK, Requests, Named
<1>8. StmtOK(6)
  <2>1. /\ Code[6].op = "getinfo" /\ Code[6].req = "GETSIGINFO" /\ Code[6].to = "tmp_info" /\ Code[6].fail = "cont"
        /\ Code[10].op = "resume"
    BY Text013
  <2>. QED  BY ONLY test = "t013", <1>1, <1>2, <2>1 DEF StmtOK, Requests, Named
<1>9. StmtOK(7)
  <2>1. /\ Code[7].op = "checkinfo" /\ Code[7].a = "tmp_info" /\ Code[7].info = [signo |-> "TRAP+1", code |-> "BRKPT+1", addr |-> "any"] /\ Code[7].fail = "cont"
        /\ Code[10].op = "resume"
    BY Text013
  <2>. QED  BY ONLY test = "t013", <1>1, <1>2, <2>1 DEF StmtOK, Requests, Named
<1>10. StmtOK(8)
  <2>1. /\ Code[8].op = "restoreinfo" /\ Code[8].req = "SETSIGINFO" /\ Code[8].a = "org_info" /\ Code[8].fail = "cont"
        /\ Code[10].op = "resume"
    BY Text013
  <2>. QED  BY ONLY test = "t013", <1>1, <1>2, <2>1 DEF StmtOK, Requests, Named
<1>11. StmtOK(9)
  <2>1. Code[9].op = "ok"
    BY Text013
  <2>. QED  BY ONLY test = "t013", <1>1, <1>2, <2>1 DEF StmtOK, Requests, Named
<1>12. StmtOK(10)
  <2>1. Code[10].op = "resume" /\ Code[10].req = "CONT" /\ Code[10].fail = "ret"
    BY Text013
  <2>. QED  BY ONLY test = "t013", <1>1, <1>2, <2>1 DEF StmtOK, Requests, Named
<1>13. CStmtOK(1)
  <2>1. CCode[1].op = "traceme"
    BY Text013
  <2>. QED  BY ONLY test = "t013", <1>1, <1>2, <2>1 DEF CStmtOK, Stored
<1>14. CStmtOK(2)
  <2>1. CCode[2].op = "site" /\ CCode[2].at = "site1"
    BY Text013
  <2>. QED  BY ONLY test = "t013", <1>1, <1>2, <2>1 DEF CStmtOK, Stored
<1>15. \A i \in 1..10 : StmtOK(i)
  BY ONLY <1>3, <1>4, <1>5, <1>6, <1>7, <1>8, <1>9, <1>10, <1>11, <1>12
<1>16. \A j \in 1..2 : CStmtOK(j)
  BY ONLY <1>13, <1>14
<1>. QED  BY ONLY test = "t013", <1>1, <1>2, <1>15, <1>16 DEF TextOK

\* The statements of 014, parent and child.
LEMMA Text014 ==
  ASSUME test = "t014"
  PROVE  /\ Len(Code) = 7 /\ DOMAIN Code = 1..7
         /\ Len(CCode) = 2 /\ DOMAIN CCode = 1..2
         /\ Test[test].needs = {"FORK"} /\ Test[test].verdict = "exit"
         /\ Code[1].op = "wait" /\ Code[1].who = "any" /\ Code[1].fail = "out"
         /\ Code[2].op = "get" /\ Code[2].req = "PEEKDATA" /\ Code[2].at = "inst_addr" /\ Code[2].to = "brk_addr" /\ Code[2].fail = "cont"
         /\ Code[3].op = "set" /\ Code[3].req = "POKETEXT" /\ Code[3].at = "brk_addr" /\ Code[3].val = "nop" /\ Code[3].fail = "cont"
         /\ Code[4].op = "set" /\ Code[4].req = "SETOPTIONS" /\ Code[4].at = "options" /\ Code[4].val = "all" /\ Code[4].fail = "cont"
         /\ Code[5].op = "mustfail" /\ Code[5].req = "SETOPTIONS" /\ Code[5].fail = "cont"
         /\ Code[6].op = "ok"
         /\ Code[7].op = "resume" /\ Code[7].req = "CONT" /\ Code[7].fail = "ret"
         /\ CCode[1].op = "traceme"
         /\ CCode[2].op = "site" /\ CCode[2].at = "site1"
<1>1. Code = Parent014 /\ CCode = Child014 /\ Test[test].needs = {"FORK"} /\ Test[test].verdict = "exit"
  BY DEF Code, CCode, Test, Test014, Run
<1>2. /\ Len(Code) = 7 /\ DOMAIN Code = 1..7
      /\ Code[1] = Wait("any")
      /\ Code[2] = Get("PEEKDATA", "inst_addr", "brk_addr", "cont")
      /\ Code[3] = Set("POKETEXT", "brk_addr", "nop", "cont")
      /\ Code[4] = Set("SETOPTIONS", "options", "all", "cont")
      /\ Code[5] = MustFail("SETOPTIONS", "EINVAL")
      /\ Code[6] = Ok
      /\ Code[7] = LastCont
  BY ONLY <1>1 DEF Parent014, Begin, rewrite_brk_inst, Success
<1>3. /\ Len(CCode) = 2 /\ DOMAIN CCode = 1..2
      /\ CCode[1] = Traceme
      /\ CCode[2] = Site("site1")
  BY ONLY <1>1 DEF Child014
<1>4. /\ Code[1].op = "wait" /\ Code[1].who = "any" /\ Code[1].fail = "out"
      /\ Code[2].op = "get" /\ Code[2].req = "PEEKDATA" /\ Code[2].at = "inst_addr" /\ Code[2].to = "brk_addr" /\ Code[2].fail = "cont"
      /\ Code[3].op = "set" /\ Code[3].req = "POKETEXT" /\ Code[3].at = "brk_addr" /\ Code[3].val = "nop" /\ Code[3].fail = "cont"
      /\ Code[4].op = "set" /\ Code[4].req = "SETOPTIONS" /\ Code[4].at = "options" /\ Code[4].val = "all" /\ Code[4].fail = "cont"
      /\ Code[5].op = "mustfail" /\ Code[5].req = "SETOPTIONS" /\ Code[5].fail = "cont"
      /\ Code[6].op = "ok"
  BY ONLY <1>2 DEF Wait, Get, Set, MustFail, Ok
<1>5. /\ Code[7].op = "resume" /\ Code[7].req = "CONT" /\ Code[7].fail = "ret"
  BY ONLY <1>2 DEF LastCont
<1>6. /\ CCode[1].op = "traceme"
      /\ CCode[2].op = "site" /\ CCode[2].at = "site1"
  BY ONLY <1>3 DEF Traceme, Site
<1>. QED  BY ONLY <1>1, <1>2, <1>3, <1>4, <1>5, <1>6

\* 014 keeps to the rules.
LEMMA Rules014 ==
  ASSUME test = "t014"
  PROVE  TextOK
<1>1. H = 2..7 /\ OkAt[test] = 6 /\ TraceAt[test] = 1 /\ PostAt[test] = 0 /\ WaitAt[test] = 1
  BY DEF H, Hold, OkAt, TraceAt, PostAt, WaitAt
<1>2. /\ Len(Code) = 7 /\ DOMAIN Code = 1..7 /\ Len(CCode) = 2 /\ DOMAIN CCode = 1..2
      /\ Test[test].verdict = "exit"
  BY Text014
<1>3. StmtOK(1)
  <2>1. Code[1].op = "wait" /\ Code[1].who = "any" /\ Code[1].fail = "out"
    BY Text014
  <2>. QED  BY ONLY test = "t014", <1>1, <1>2, <2>1 DEF StmtOK, Requests, Named
<1>4. StmtOK(2)
  <2>1. /\ Code[2].op = "get" /\ Code[2].req = "PEEKDATA" /\ Code[2].at = "inst_addr" /\ Code[2].to = "brk_addr" /\ Code[2].fail = "cont"
        /\ Code[7].op = "resume"
    BY Text014
  <2>. QED  BY ONLY test = "t014", <1>1, <1>2, <2>1 DEF StmtOK, Requests, Named
<1>5. StmtOK(3)
  <2>1. /\ Code[3].op = "set" /\ Code[3].req = "POKETEXT" /\ Code[3].at = "brk_addr" /\ Code[3].val = "nop" /\ Code[3].fail = "cont"
        /\ Code[7].op = "resume"
    BY Text014
  <2>. QED  BY ONLY test = "t014", <1>1, <1>2, <2>1 DEF StmtOK, Requests, Named
<1>6. StmtOK(4)
  <2>1. /\ Code[4].op = "set" /\ Code[4].req = "SETOPTIONS" /\ Code[4].at = "options" /\ Code[4].val = "all" /\ Code[4].fail = "cont"
        /\ Code[7].op = "resume"
    BY Text014
  <2>. QED  BY ONLY test = "t014", <1>1, <1>2, <2>1 DEF StmtOK, Requests, Named
<1>7. StmtOK(5)
  <2>1. /\ Code[5].op = "mustfail" /\ Code[5].req = "SETOPTIONS" /\ Code[5].fail = "cont"
        /\ Code[7].op = "resume"
    BY Text014
  <2>. QED  BY ONLY test = "t014", <1>1, <1>2, <2>1 DEF StmtOK, Requests, Named
<1>8. StmtOK(6)
  <2>1. Code[6].op = "ok"
    BY Text014
  <2>. QED  BY ONLY test = "t014", <1>1, <1>2, <2>1 DEF StmtOK, Requests, Named
<1>9. StmtOK(7)
  <2>1. Code[7].op = "resume" /\ Code[7].req = "CONT" /\ Code[7].fail = "ret"
    BY Text014
  <2>. QED  BY ONLY test = "t014", <1>1, <1>2, <2>1 DEF StmtOK, Requests, Named
<1>10. CStmtOK(1)
  <2>1. CCode[1].op = "traceme"
    BY Text014
  <2>. QED  BY ONLY test = "t014", <1>1, <1>2, <2>1 DEF CStmtOK, Stored
<1>11. CStmtOK(2)
  <2>1. CCode[2].op = "site" /\ CCode[2].at = "site1"
    BY Text014
  <2>. QED  BY ONLY test = "t014", <1>1, <1>2, <2>1 DEF CStmtOK, Stored
<1>12. \A i \in 1..7 : StmtOK(i)
  BY ONLY <1>3, <1>4, <1>5, <1>6, <1>7, <1>8, <1>9
<1>13. \A j \in 1..2 : CStmtOK(j)
  BY ONLY <1>10, <1>11
<1>. QED  BY ONLY test = "t014", <1>1, <1>2, <1>12, <1>13 DEF TextOK

\* The statements of 015, parent and child.
LEMMA Text015 ==
  ASSUME test = "t015"
  PROVE  /\ Len(Code) = 16 /\ DOMAIN Code = 1..16
         /\ Len(CCode) = 7 /\ DOMAIN CCode = 1..7
         /\ Test[test].needs = {"FORK"} /\ Test[test].verdict = "exit"
         /\ Code[1].op = "wait" /\ Code[1].who = "any" /\ Code[1].fail = "out"
         /\ Code[2].op = "get" /\ Code[2].req = "PEEKDATA" /\ Code[2].at = "inst_addr" /\ Code[2].to = "brk_addr" /\ Code[2].fail = "cont"
         /\ Code[3].op = "set" /\ Code[3].req = "POKETEXT" /\ Code[3].at = "brk_addr" /\ Code[3].val = "nop" /\ Code[3].fail = "cont"
         /\ Code[4].op = "set" /\ Code[4].req = "SETOPTIONS" /\ Code[4].at = "options" /\ Code[4].val = "TRACEFORK" /\ Code[4].fail = "cont"
         /\ Code[5].op = "resume" /\ Code[5].req = "CONT" /\ Code[5].fail = "out"
         /\ Code[6].op = "wait" /\ Code[6].who = "any" /\ Code[6].fail = "out"
         /\ Code[7].op = "resume" /\ Code[7].req = "CONT" /\ Code[7].fail = "out"
         /\ Code[8].op = "wait" /\ Code[8].who = "C" /\ Code[8].fail = "out"
         /\ Code[9].op = "get" /\ Code[9].req = "PEEKDATA" /\ Code[9].at = "inst_addr" /\ Code[9].to = "brk_addr" /\ Code[9].fail = "cont"
         /\ Code[10].op = "set" /\ Code[10].req = "POKETEXT" /\ Code[10].at = "brk_addr" /\ Code[10].val = "nop" /\ Code[10].fail = "cont"
         /\ Code[11].op = "get" /\ Code[11].req = "PEEKDATA" /\ Code[11].at = "eventpid" /\ Code[11].to = "read_val" /\ Code[11].fail = "cont"
         /\ Code[12].op = "get" /\ Code[12].req = "GETEVENTMSG" /\ Code[12].at = "fork_msg" /\ Code[12].to = "eventmsg" /\ Code[12].fail = "cont"
         /\ Code[13].op = "check" /\ Code[13].a = "read_val" /\ Code[13].b = "eventmsg" /\ Code[13].fail = "cont"
         /\ Code[14].op = "kill" /\ Code[14].who = "G" /\ Code[14].sig = "KILL" /\ Code[14].fail = "next"
         /\ Code[15].op = "ok"
         /\ Code[16].op = "resume" /\ Code[16].req = "CONT" /\ Code[16].fail = "ret"
         /\ CCode[1].op = "traceme"
         /\ CCode[2].op = "site" /\ CCode[2].at = "site1"
         /\ CCode[3].op = "call" /\ CCode[3].req = "GFORK"
         /\ CCode[4].op = "fork"
         /\ CCode[5].op = "forkevent"
         /\ CCode[6].op = "store" /\ CCode[6].at = "eventpid" /\ CCode[6].val = "G"
         /\ CCode[7].op = "site" /\ CCode[7].at = "site2"
<1>1. Code = Parent015 /\ CCode = Child015 /\ Test[test].needs = {"FORK"} /\ Test[test].verdict = "exit"
  BY DEF Code, CCode, Test, Test015, Run
<1>2. /\ Len(Code) = 16 /\ DOMAIN Code = 1..16
      /\ Code[1] = Wait("any")
      /\ Code[2] = Get("PEEKDATA", "inst_addr", "brk_addr", "cont")
      /\ Code[3] = Set("POKETEXT", "brk_addr", "nop", "cont")
      /\ Code[4] = Set("SETOPTIONS", "options", "TRACEFORK", "cont")
      /\ Code[5] = Resume("CONT", "out")
      /\ Code[6] = Wait("any")
      /\ Code[7] = Resume("CONT", "out")
      /\ Code[8] = Wait("C")
      /\ Code[9] = Get("PEEKDATA", "inst_addr", "brk_addr", "cont")
      /\ Code[10] = Set("POKETEXT", "brk_addr", "nop", "cont")
      /\ Code[11] = Get("PEEKDATA", "eventpid", "read_val", "cont")
      /\ Code[12] = Get("GETEVENTMSG", "fork_msg", "eventmsg", "cont")
      /\ Code[13] = Check("read_val", "eventmsg")
      /\ Code[14] = Kill("G", "KILL", "next")
      /\ Code[15] = Ok
      /\ Code[16] = LastCont
  BY ONLY <1>1 DEF Parent015, Begin, rewrite_brk_inst, Success
<1>3. /\ Len(CCode) = 7 /\ DOMAIN CCode = 1..7
      /\ CCode[1] = Traceme
      /\ CCode[2] = Site("site1")
      /\ CCode[3] = Call("GFORK")
      /\ CCode[4] = Fork
      /\ CCode[5] = ForkEvent
      /\ CCode[6] = Store("eventpid", "G")
      /\ CCode[7] = Site("site2")
  BY ONLY <1>1 DEF Child015
<1>4. /\ Code[1].op = "wait" /\ Code[1].who = "any" /\ Code[1].fail = "out"
      /\ Code[2].op = "get" /\ Code[2].req = "PEEKDATA" /\ Code[2].at = "inst_addr" /\ Code[2].to = "brk_addr" /\ Code[2].fail = "cont"
      /\ Code[3].op = "set" /\ Code[3].req = "POKETEXT" /\ Code[3].at = "brk_addr" /\ Code[3].val = "nop" /\ Code[3].fail = "cont"
      /\ Code[4].op = "set" /\ Code[4].req = "SETOPTIONS" /\ Code[4].at = "options" /\ Code[4].val = "TRACEFORK" /\ Code[4].fail = "cont"
      /\ Code[5].op = "resume" /\ Code[5].req = "CONT" /\ Code[5].fail = "out"
      /\ Code[6].op = "wait" /\ Code[6].who = "any" /\ Code[6].fail = "out"
  BY ONLY <1>2 DEF Wait, Get, Set, Resume
<1>5. /\ Code[7].op = "resume" /\ Code[7].req = "CONT" /\ Code[7].fail = "out"
      /\ Code[8].op = "wait" /\ Code[8].who = "C" /\ Code[8].fail = "out"
      /\ Code[9].op = "get" /\ Code[9].req = "PEEKDATA" /\ Code[9].at = "inst_addr" /\ Code[9].to = "brk_addr" /\ Code[9].fail = "cont"
      /\ Code[10].op = "set" /\ Code[10].req = "POKETEXT" /\ Code[10].at = "brk_addr" /\ Code[10].val = "nop" /\ Code[10].fail = "cont"
      /\ Code[11].op = "get" /\ Code[11].req = "PEEKDATA" /\ Code[11].at = "eventpid" /\ Code[11].to = "read_val" /\ Code[11].fail = "cont"
      /\ Code[12].op = "get" /\ Code[12].req = "GETEVENTMSG" /\ Code[12].at = "fork_msg" /\ Code[12].to = "eventmsg" /\ Code[12].fail = "cont"
  BY ONLY <1>2 DEF Resume, Wait, Get, Set
<1>6. /\ Code[13].op = "check" /\ Code[13].a = "read_val" /\ Code[13].b = "eventmsg" /\ Code[13].fail = "cont"
      /\ Code[14].op = "kill" /\ Code[14].who = "G" /\ Code[14].sig = "KILL" /\ Code[14].fail = "next"
      /\ Code[15].op = "ok"
      /\ Code[16].op = "resume" /\ Code[16].req = "CONT" /\ Code[16].fail = "ret"
  BY ONLY <1>2 DEF Check, Kill, Ok, LastCont
<1>7. /\ CCode[1].op = "traceme"
      /\ CCode[2].op = "site" /\ CCode[2].at = "site1"
      /\ CCode[3].op = "call" /\ CCode[3].req = "GFORK"
      /\ CCode[4].op = "fork"
      /\ CCode[5].op = "forkevent"
      /\ CCode[6].op = "store" /\ CCode[6].at = "eventpid" /\ CCode[6].val = "G"
  BY ONLY <1>3 DEF Traceme, Site, Call, Fork, ForkEvent, Store
<1>8. /\ CCode[7].op = "site" /\ CCode[7].at = "site2"
  BY ONLY <1>3 DEF Site
<1>. QED  BY ONLY <1>1, <1>2, <1>3, <1>4, <1>5, <1>6, <1>7, <1>8

\* 015 keeps to the rules.
LEMMA Rules015 ==
  ASSUME test = "t015"
  PROVE  TextOK
<1>1. H = (2..5) \union (7..7) \union (9..16) /\ OkAt[test] = 15 /\ TraceAt[test] = 1 /\ PostAt[test] = 0 /\ WaitAt[test] = 1
  BY DEF H, Hold, OkAt, TraceAt, PostAt, WaitAt
<1>2. /\ Len(Code) = 16 /\ DOMAIN Code = 1..16 /\ Len(CCode) = 7 /\ DOMAIN CCode = 1..7
      /\ Test[test].verdict = "exit"
  BY Text015
<1>3. StmtOK(1)
  <2>1. Code[1].op = "wait" /\ Code[1].who = "any" /\ Code[1].fail = "out"
    BY Text015
  <2>. QED  BY ONLY test = "t015", <1>1, <1>2, <2>1 DEF StmtOK, Requests, Named
<1>4. StmtOK(2)
  <2>1. /\ Code[2].op = "get" /\ Code[2].req = "PEEKDATA" /\ Code[2].at = "inst_addr" /\ Code[2].to = "brk_addr" /\ Code[2].fail = "cont"
        /\ Code[16].op = "resume"
    BY Text015
  <2>. QED  BY ONLY test = "t015", <1>1, <1>2, <2>1 DEF StmtOK, Requests, Named
<1>5. StmtOK(3)
  <2>1. /\ Code[3].op = "set" /\ Code[3].req = "POKETEXT" /\ Code[3].at = "brk_addr" /\ Code[3].val = "nop" /\ Code[3].fail = "cont"
        /\ Code[16].op = "resume"
    BY Text015
  <2>. QED  BY ONLY test = "t015", <1>1, <1>2, <2>1 DEF StmtOK, Requests, Named
<1>6. StmtOK(4)
  <2>1. /\ Code[4].op = "set" /\ Code[4].req = "SETOPTIONS" /\ Code[4].at = "options" /\ Code[4].val = "TRACEFORK" /\ Code[4].fail = "cont"
        /\ Code[16].op = "resume"
    BY Text015
  <2>. QED  BY ONLY test = "t015", <1>1, <1>2, <2>1 DEF StmtOK, Requests, Named
<1>7. StmtOK(5)
  <2>1. Code[5].op = "resume" /\ Code[5].req = "CONT" /\ Code[5].fail = "out"
    BY Text015
  <2>. QED  BY ONLY test = "t015", <1>1, <1>2, <2>1 DEF StmtOK, Requests, Named
<1>8. StmtOK(6)
  <2>1. Code[6].op = "wait" /\ Code[6].who = "any" /\ Code[6].fail = "out"
    BY Text015
  <2>. QED  BY ONLY test = "t015", <1>1, <1>2, <2>1 DEF StmtOK, Requests, Named
<1>9. StmtOK(7)
  <2>1. Code[7].op = "resume" /\ Code[7].req = "CONT" /\ Code[7].fail = "out"
    BY Text015
  <2>. QED  BY ONLY test = "t015", <1>1, <1>2, <2>1 DEF StmtOK, Requests, Named
<1>10. StmtOK(8)
  <2>1. Code[8].op = "wait" /\ Code[8].who = "C" /\ Code[8].fail = "out"
    BY Text015
  <2>. QED  BY ONLY test = "t015", <1>1, <1>2, <2>1 DEF StmtOK, Requests, Named
<1>11. StmtOK(9)
  <2>1. /\ Code[9].op = "get" /\ Code[9].req = "PEEKDATA" /\ Code[9].at = "inst_addr" /\ Code[9].to = "brk_addr" /\ Code[9].fail = "cont"
        /\ Code[16].op = "resume"
    BY Text015
  <2>. QED  BY ONLY test = "t015", <1>1, <1>2, <2>1 DEF StmtOK, Requests, Named
<1>12. StmtOK(10)
  <2>1. /\ Code[10].op = "set" /\ Code[10].req = "POKETEXT" /\ Code[10].at = "brk_addr" /\ Code[10].val = "nop" /\ Code[10].fail = "cont"
        /\ Code[16].op = "resume"
    BY Text015
  <2>. QED  BY ONLY test = "t015", <1>1, <1>2, <2>1 DEF StmtOK, Requests, Named
<1>13. StmtOK(11)
  <2>1. /\ Code[11].op = "get" /\ Code[11].req = "PEEKDATA" /\ Code[11].at = "eventpid" /\ Code[11].to = "read_val" /\ Code[11].fail = "cont"
        /\ Code[16].op = "resume"
    BY Text015
  <2>. QED  BY ONLY test = "t015", <1>1, <1>2, <2>1 DEF StmtOK, Requests, Named
<1>14. StmtOK(12)
  <2>1. /\ Code[12].op = "get" /\ Code[12].req = "GETEVENTMSG" /\ Code[12].at = "fork_msg" /\ Code[12].to = "eventmsg" /\ Code[12].fail = "cont"
        /\ Code[16].op = "resume"
    BY Text015
  <2>. QED  BY ONLY test = "t015", <1>1, <1>2, <2>1 DEF StmtOK, Requests, Named
<1>15. StmtOK(13)
  <2>1. /\ Code[13].op = "check" /\ Code[13].a = "read_val" /\ Code[13].b = "eventmsg" /\ Code[13].fail = "cont"
        /\ Code[16].op = "resume"
    BY Text015
  <2>. QED  BY ONLY test = "t015", <1>1, <1>2, <2>1 DEF StmtOK, Requests, Named
<1>16. StmtOK(14)
  <2>1. Code[14].op = "kill" /\ Code[14].who = "G" /\ Code[14].sig = "KILL" /\ Code[14].fail = "next"
    BY Text015
  <2>. QED  BY ONLY test = "t015", <1>1, <1>2, <2>1 DEF StmtOK, Requests, Named
<1>17. StmtOK(15)
  <2>1. Code[15].op = "ok"
    BY Text015
  <2>. QED  BY ONLY test = "t015", <1>1, <1>2, <2>1 DEF StmtOK, Requests, Named
<1>18. StmtOK(16)
  <2>1. Code[16].op = "resume" /\ Code[16].req = "CONT" /\ Code[16].fail = "ret"
    BY Text015
  <2>. QED  BY ONLY test = "t015", <1>1, <1>2, <2>1 DEF StmtOK, Requests, Named
<1>19. CStmtOK(1)
  <2>1. CCode[1].op = "traceme"
    BY Text015
  <2>. QED  BY ONLY test = "t015", <1>1, <1>2, <2>1 DEF CStmtOK, Stored
<1>20. CStmtOK(2)
  <2>1. CCode[2].op = "site" /\ CCode[2].at = "site1"
    BY Text015
  <2>. QED  BY ONLY test = "t015", <1>1, <1>2, <2>1 DEF CStmtOK, Stored
<1>21. CStmtOK(3)
  <2>1. CCode[3].op = "call" /\ CCode[3].req = "GFORK"
    BY Text015
  <2>. QED  BY ONLY test = "t015", <1>1, <1>2, <2>1 DEF CStmtOK, Stored
<1>22. CStmtOK(4)
  <2>1. CCode[4].op = "fork"
    BY Text015
  <2>. QED  BY ONLY test = "t015", <1>1, <1>2, <2>1 DEF CStmtOK, Stored
<1>23. CStmtOK(5)
  <2>1. CCode[5].op = "forkevent"
    BY Text015
  <2>. QED  BY ONLY test = "t015", <1>1, <1>2, <2>1 DEF CStmtOK, Stored
<1>24. CStmtOK(6)
  <2>1. CCode[6].op = "store" /\ CCode[6].at = "eventpid" /\ CCode[6].val = "G"
    BY Text015
  <2>. QED  BY ONLY test = "t015", <1>1, <1>2, <2>1 DEF CStmtOK, Stored
<1>25. CStmtOK(7)
  <2>1. CCode[7].op = "site" /\ CCode[7].at = "site2"
    BY Text015
  <2>. QED  BY ONLY test = "t015", <1>1, <1>2, <2>1 DEF CStmtOK, Stored
<1>26. \A i \in 1..16 : StmtOK(i)
  BY ONLY <1>3, <1>4, <1>5, <1>6, <1>7, <1>8, <1>9, <1>10, <1>11, <1>12, <1>13, <1>14, <1>15, <1>16, <1>17, <1>18
<1>27. \A j \in 1..7 : CStmtOK(j)
  BY ONLY <1>19, <1>20, <1>21, <1>22, <1>23, <1>24, <1>25
<1>. QED  BY ONLY test = "t015", <1>1, <1>2, <1>26, <1>27 DEF TextOK

\* The statements of 016, parent and child.
LEMMA Text016 ==
  ASSUME test = "t016"
  PROVE  /\ Len(Code) = 9 /\ DOMAIN Code = 1..9
         /\ Len(CCode) = 3 /\ DOMAIN CCode = 1..3
         /\ Test[test].needs = {"FORK"} /\ Test[test].verdict = "exit"
         /\ Code[1].op = "wait" /\ Code[1].who = "any" /\ Code[1].fail = "out"
         /\ Code[2].op = "get" /\ Code[2].req = "PEEKDATA" /\ Code[2].at = "inst_addr" /\ Code[2].to = "brk_addr" /\ Code[2].fail = "cont"
         /\ Code[3].op = "set" /\ Code[3].req = "POKETEXT" /\ Code[3].at = "brk_addr" /\ Code[3].val = "nop" /\ Code[3].fail = "cont"
         /\ Code[4].op = "resume" /\ Code[4].req = "SYSCALL" /\ Code[4].fail = "cont"
         /\ Code[5].op = "wait" /\ Code[5].who = "any" /\ Code[5].fail = "out"
         /\ Code[6].op = "get" /\ Code[6].req = "GETREGSET" /\ Code[6].at = "sysno" /\ Code[6].to = "sysno_val" /\ Code[6].fail = "cont"
         /\ Code[7].op = "check" /\ Code[7].a = "sysno_val" /\ Code[7].b = "getpid" /\ Code[7].fail = "cont"
         /\ Code[8].op = "ok"
         /\ Code[9].op = "resume" /\ Code[9].req = "CONT" /\ Code[9].fail = "ret"
         /\ CCode[1].op = "traceme"
         /\ CCode[2].op = "site" /\ CCode[2].at = "site1"
         /\ CCode[3].op = "syscall" /\ CCode[3].no = "getpid"
<1>1. Code = Parent016 /\ CCode = Child016 /\ Test[test].needs = {"FORK"} /\ Test[test].verdict = "exit"
  BY DEF Code, CCode, Test, Test016, Run
<1>2. /\ Len(Code) = 9 /\ DOMAIN Code = 1..9
      /\ Code[1] = Wait("any")
      /\ Code[2] = Get("PEEKDATA", "inst_addr", "brk_addr", "cont")
      /\ Code[3] = Set("POKETEXT", "brk_addr", "nop", "cont")
      /\ Code[4] = Resume("SYSCALL", "cont")
      /\ Code[5] = Wait("any")
      /\ Code[6] = Get("GETREGSET", "sysno", "sysno_val", "cont")
      /\ Code[7] = Check("sysno_val", "getpid")
      /\ Code[8] = Ok
      /\ Code[9] = LastCont
  BY ONLY <1>1 DEF Parent016, Begin, rewrite_brk_inst, get_check_syscallno, Success
<1>3. /\ Len(CCode) = 3 /\ DOMAIN CCode = 1..3
      /\ CCode[1] = Traceme
      /\ CCode[2] = Site("site1")
      /\ CCode[3] = Syscall("getpid")
  BY ONLY <1>1 DEF Child016
<1>4. /\ Code[1].op = "wait" /\ Code[1].who = "any" /\ Code[1].fail = "out"
      /\ Code[2].op = "get" /\ Code[2].req = "PEEKDATA" /\ Code[2].at = "inst_addr" /\ Code[2].to = "brk_addr" /\ Code[2].fail = "cont"
      /\ Code[3].op = "set" /\ Code[3].req = "POKETEXT" /\ Code[3].at = "brk_addr" /\ Code[3].val = "nop" /\ Code[3].fail = "cont"
      /\ Code[4].op = "resume" /\ Code[4].req = "SYSCALL" /\ Code[4].fail = "cont"
      /\ Code[5].op = "wait" /\ Code[5].who = "any" /\ Code[5].fail = "out"
      /\ Code[6].op = "get" /\ Code[6].req = "GETREGSET" /\ Code[6].at = "sysno" /\ Code[6].to = "sysno_val" /\ Code[6].fail = "cont"
  BY ONLY <1>2 DEF Wait, Get, Set, Resume
<1>5. /\ Code[7].op = "check" /\ Code[7].a = "sysno_val" /\ Code[7].b = "getpid" /\ Code[7].fail = "cont"
      /\ Code[8].op = "ok"
      /\ Code[9].op = "resume" /\ Code[9].req = "CONT" /\ Code[9].fail = "ret"
  BY ONLY <1>2 DEF Check, Ok, LastCont
<1>6. /\ CCode[1].op = "traceme"
      /\ CCode[2].op = "site" /\ CCode[2].at = "site1"
      /\ CCode[3].op = "syscall" /\ CCode[3].no = "getpid"
  BY ONLY <1>3 DEF Traceme, Site, Syscall
<1>. QED  BY ONLY <1>1, <1>2, <1>3, <1>4, <1>5, <1>6

\* 016 keeps to the rules.
LEMMA Rules016 ==
  ASSUME test = "t016"
  PROVE  TextOK
<1>1. H = (2..4) \union (6..9) /\ OkAt[test] = 8 /\ TraceAt[test] = 1 /\ PostAt[test] = 0 /\ WaitAt[test] = 1
  BY DEF H, Hold, OkAt, TraceAt, PostAt, WaitAt
<1>2. /\ Len(Code) = 9 /\ DOMAIN Code = 1..9 /\ Len(CCode) = 3 /\ DOMAIN CCode = 1..3
      /\ Test[test].verdict = "exit"
  BY Text016
<1>3. StmtOK(1)
  <2>1. Code[1].op = "wait" /\ Code[1].who = "any" /\ Code[1].fail = "out"
    BY Text016
  <2>. QED  BY ONLY test = "t016", <1>1, <1>2, <2>1 DEF StmtOK, Requests, Named
<1>4. StmtOK(2)
  <2>1. /\ Code[2].op = "get" /\ Code[2].req = "PEEKDATA" /\ Code[2].at = "inst_addr" /\ Code[2].to = "brk_addr" /\ Code[2].fail = "cont"
        /\ Code[9].op = "resume"
    BY Text016
  <2>. QED  BY ONLY test = "t016", <1>1, <1>2, <2>1 DEF StmtOK, Requests, Named
<1>5. StmtOK(3)
  <2>1. /\ Code[3].op = "set" /\ Code[3].req = "POKETEXT" /\ Code[3].at = "brk_addr" /\ Code[3].val = "nop" /\ Code[3].fail = "cont"
        /\ Code[9].op = "resume"
    BY Text016
  <2>. QED  BY ONLY test = "t016", <1>1, <1>2, <2>1 DEF StmtOK, Requests, Named
<1>6. StmtOK(4)
  <2>1. /\ Code[4].op = "resume" /\ Code[4].req = "SYSCALL" /\ Code[4].fail = "cont"
        /\ Code[9].op = "resume"
    BY Text016
  <2>. QED  BY ONLY test = "t016", <1>1, <1>2, <2>1 DEF StmtOK, Requests, Named
<1>7. StmtOK(5)
  <2>1. Code[5].op = "wait" /\ Code[5].who = "any" /\ Code[5].fail = "out"
    BY Text016
  <2>. QED  BY ONLY test = "t016", <1>1, <1>2, <2>1 DEF StmtOK, Requests, Named
<1>8. StmtOK(6)
  <2>1. /\ Code[6].op = "get" /\ Code[6].req = "GETREGSET" /\ Code[6].at = "sysno" /\ Code[6].to = "sysno_val" /\ Code[6].fail = "cont"
        /\ Code[9].op = "resume"
    BY Text016
  <2>. QED  BY ONLY test = "t016", <1>1, <1>2, <2>1 DEF StmtOK, Requests, Named
<1>9. StmtOK(7)
  <2>1. /\ Code[7].op = "check" /\ Code[7].a = "sysno_val" /\ Code[7].b = "getpid" /\ Code[7].fail = "cont"
        /\ Code[9].op = "resume"
    BY Text016
  <2>. QED  BY ONLY test = "t016", <1>1, <1>2, <2>1 DEF StmtOK, Requests, Named
<1>10. StmtOK(8)
  <2>1. Code[8].op = "ok"
    BY Text016
  <2>. QED  BY ONLY test = "t016", <1>1, <1>2, <2>1 DEF StmtOK, Requests, Named
<1>11. StmtOK(9)
  <2>1. Code[9].op = "resume" /\ Code[9].req = "CONT" /\ Code[9].fail = "ret"
    BY Text016
  <2>. QED  BY ONLY test = "t016", <1>1, <1>2, <2>1 DEF StmtOK, Requests, Named
<1>12. CStmtOK(1)
  <2>1. CCode[1].op = "traceme"
    BY Text016
  <2>. QED  BY ONLY test = "t016", <1>1, <1>2, <2>1 DEF CStmtOK, Stored
<1>13. CStmtOK(2)
  <2>1. CCode[2].op = "site" /\ CCode[2].at = "site1"
    BY Text016
  <2>. QED  BY ONLY test = "t016", <1>1, <1>2, <2>1 DEF CStmtOK, Stored
<1>14. CStmtOK(3)
  <2>1. CCode[3].op = "syscall" /\ CCode[3].no = "getpid"
    BY Text016
  <2>. QED  BY ONLY test = "t016", <1>1, <1>2, <2>1 DEF CStmtOK, Stored
<1>15. \A i \in 1..9 : StmtOK(i)
  BY ONLY <1>3, <1>4, <1>5, <1>6, <1>7, <1>8, <1>9, <1>10, <1>11
<1>16. \A j \in 1..3 : CStmtOK(j)
  BY ONLY <1>12, <1>13, <1>14
<1>. QED  BY ONLY test = "t016", <1>1, <1>2, <1>15, <1>16 DEF TextOK

\* The statements of 017, parent and child.
LEMMA Text017 ==
  ASSUME test = "t017"
  PROVE  /\ Len(Code) = 37 /\ DOMAIN Code = 1..37
         /\ Len(CCode) = 9 /\ DOMAIN CCode = 1..9
         /\ Test[test].needs = {"FORK"} /\ Test[test].verdict = "exit"
         /\ Code[1].op = "wait" /\ Code[1].who = "any" /\ Code[1].fail = "out"
         /\ Code[2].op = "get" /\ Code[2].req = "PEEKDATA" /\ Code[2].at = "inst_addr" /\ Code[2].to = "brk_addr" /\ Code[2].fail = "cont"
         /\ Code[3].op = "set" /\ Code[3].req = "POKETEXT" /\ Code[3].at = "brk_addr" /\ Code[3].val = "nop" /\ Code[3].fail = "cont"
         /\ Code[4].op = "get" /\ Code[4].req = "PEEKDATA" /\ Code[4].at = "addr" /\ Code[4].to = "read_val" /\ Code[4].fail = "cont"
         /\ Code[5].op = "get" /\ Code[5].req = "PEEKTEXT" /\ Code[5].at = "read_val" /\ Code[5].to = "inst_val" /\ Code[5].fail = "next"
         /\ Code[6].op = "set" /\ Code[6].req = "POKETEXT" /\ Code[6].at = "read_val" /\ Code[6].val = "brk" /\ Code[6].fail = "cont"
         /\ Code[7].op = "resume" /\ Code[7].req = "CONT" /\ Code[7].fail = "out"
         /\ Code[8].op = "wait" /\ Code[8].who = "any" /\ Code[8].fail = "out"
         /\ Code[9].op = "stopsig" /\ Code[9].sig = "TRAP" /\ Code[9].fail = "cont"
         /\ Code[10].op = "set" /\ Code[10].req = "POKETEXT" /\ Code[10].at = "read_val" /\ Code[10].val = "inst_val" /\ Code[10].fail = "cont"
         /\ Code[11].op = "resume" /\ Code[11].req = "SINGLESTEP" /\ Code[11].fail = "cont"
         /\ Code[12].op = "wait" /\ Code[12].who = "any" /\ Code[12].fail = "out"
         /\ Code[13].op = "stopsig" /\ Code[13].sig = "TRAP" /\ Code[13].fail = "cont"
         /\ Code[14].op = "getinfo" /\ Code[14].req = "GETSIGINFO" /\ Code[14].to = "info" /\ Code[14].fail = "cont"
         /\ Code[15].op = "checkinfo" /\ Code[15].a = "info" /\ Code[15].info = [signo |-> "TRAP", code |-> "HWBKPT", addr |-> "t+4"] /\ Code[15].fail = "cont"
         /\ Code[16].op = "resume" /\ Code[16].req = "SINGLESTEP" /\ Code[16].fail = "cont"
         /\ Code[17].op = "wait" /\ Code[17].who = "any" /\ Code[17].fail = "out"
         /\ Code[18].op = "stopsig" /\ Code[18].sig = "TRAP" /\ Code[18].fail = "cont"
         /\ Code[19].op = "getinfo" /\ Code[19].req = "GETSIGINFO" /\ Code[19].to = "info" /\ Code[19].fail = "cont"
         /\ Code[20].op = "checkinfo" /\ Code[20].a = "info" /\ Code[20].info = [signo |-> "TRAP", code |-> "HWBKPT", addr |-> "t+8"] /\ Code[20].fail = "cont"
         /\ Code[21].op = "resume" /\ Code[21].req = "SINGLESTEP" /\ Code[21].fail = "cont"
         /\ Code[22].op = "wait" /\ Code[22].who = "any" /\ Code[22].fail = "out"
         /\ Code[23].op = "stopsig" /\ Code[23].sig = "TRAP" /\ Code[23].fail = "cont"
         /\ Code[24].op = "getinfo" /\ Code[24].req = "GETSIGINFO" /\ Code[24].to = "info" /\ Code[24].fail = "cont"
         /\ Code[25].op = "checkinfo" /\ Code[25].a = "info" /\ Code[25].info = [signo |-> "TRAP", code |-> "HWBKPT", addr |-> "t+12"] /\ Code[25].fail = "cont"
         /\ Code[26].op = "resume" /\ Code[26].req = "SINGLESTEP" /\ Code[26].fail = "cont"
         /\ Code[27].op = "wait" /\ Code[27].who = "any" /\ Code[27].fail = "out"
         /\ Code[28].op = "stopsig" /\ Code[28].sig = "TRAP" /\ Code[28].fail = "cont"
         /\ Code[29].op = "getinfo" /\ Code[29].req = "GETSIGINFO" /\ Code[29].to = "info" /\ Code[29].fail = "cont"
         /\ Code[30].op = "checkinfo" /\ Code[30].a = "info" /\ Code[30].info = [signo |-> "TRAP", code |-> "HWBKPT", addr |-> "t+16"] /\ Code[30].fail = "cont"
         /\ Code[31].op = "resume" /\ Code[31].req = "SINGLESTEP" /\ Code[31].fail = "cont"
         /\ Code[32].op = "wait" /\ Code[32].who = "any" /\ Code[32].fail = "out"
         /\ Code[33].op = "stopsig" /\ Code[33].sig = "TRAP" /\ Code[33].fail = "cont"
         /\ Code[34].op = "getinfo" /\ Code[34].req = "GETSIGINFO" /\ Code[34].to = "info" /\ Code[34].fail = "cont"
         /\ Code[35].op = "checkinfo" /\ Code[35].a = "info" /\ Code[35].info = [signo |-> "TRAP", code |-> "HWBKPT", addr |-> "t+20"] /\ Code[35].fail = "cont"
         /\ Code[36].op = "ok"
         /\ Code[37].op = "resume" /\ Code[37].req = "CONT" /\ Code[37].fail = "ret"
         /\ CCode[1].op = "traceme"
         /\ CCode[2].op = "store" /\ CCode[2].at = "addr" /\ CCode[2].val = "t"
         /\ CCode[3].op = "site" /\ CCode[3].at = "site1"
         /\ CCode[4].op = "insn" /\ CCode[4].at = "t"
         /\ CCode[5].op = "insn" /\ CCode[5].at = "t+4"
         /\ CCode[6].op = "insn" /\ CCode[6].at = "t+8"
         /\ CCode[7].op = "insn" /\ CCode[7].at = "t+12"
         /\ CCode[8].op = "insn" /\ CCode[8].at = "t+16"
         /\ CCode[9].op = "insn" /\ CCode[9].at = "t+20"
<1>1. Code = Parent017 /\ CCode = Child017 /\ Test[test].needs = {"FORK"} /\ Test[test].verdict = "exit"
  BY DEF Code, CCode, Test, Test017, Run
<1>2. /\ Len(Code) = 37 /\ DOMAIN Code = 1..37
      /\ Code[1] = Wait("any")
      /\ Code[2] = Get("PEEKDATA", "inst_addr", "brk_addr", "cont")
      /\ Code[3] = Set("POKETEXT", "brk_addr", "nop", "cont")
      /\ Code[4] = Get("PEEKDATA", "addr", "read_val", "cont")
      /\ Code[5] = Get("PEEKTEXT", "read_val", "inst_val", "next")
      /\ Code[6] = Set("POKETEXT", "read_val", "brk", "cont")
      /\ Code[7] = Resume("CONT", "out")
      /\ Code[8] = Wait("any")
      /\ Code[9] = StopSig("TRAP")
      /\ Code[10] = Set("POKETEXT", "read_val", "inst_val", "cont")
      /\ Code[11] = Resume("SINGLESTEP", "cont")
      /\ Code[12] = Wait("any")
      /\ Code[13] = StopSig("TRAP")
      /\ Code[14] = GetInfo("info")
      /\ Code[15] = CheckInfo("info", [signo |-> "TRAP", code |-> "HWBKPT", addr |-> "t+4"])
      /\ Code[16] = Resume("SINGLESTEP", "cont")
      /\ Code[17] = Wait("any")
      /\ Code[18] = StopSig("TRAP")
      /\ Code[19] = GetInfo("info")
      /\ Code[20] = CheckInfo("info", [signo |-> "TRAP", code |-> "HWBKPT", addr |-> "t+8"])
      /\ Code[21] = Resume("SINGLESTEP", "cont")
      /\ Code[22] = Wait("any")
      /\ Code[23] = StopSig("TRAP")
      /\ Code[24] = GetInfo("info")
      /\ Code[25] = CheckInfo("info", [signo |-> "TRAP", code |-> "HWBKPT", addr |-> "t+12"])
      /\ Code[26] = Resume("SINGLESTEP", "cont")
      /\ Code[27] = Wait("any")
      /\ Code[28] = StopSig("TRAP")
      /\ Code[29] = GetInfo("info")
      /\ Code[30] = CheckInfo("info", [signo |-> "TRAP", code |-> "HWBKPT", addr |-> "t+16"])
      /\ Code[31] = Resume("SINGLESTEP", "cont")
      /\ Code[32] = Wait("any")
      /\ Code[33] = StopSig("TRAP")
      /\ Code[34] = GetInfo("info")
      /\ Code[35] = CheckInfo("info", [signo |-> "TRAP", code |-> "HWBKPT", addr |-> "t+20"])
      /\ Code[36] = Ok
      /\ Code[37] = LastCont
  BY ONLY <1>1 DEF Parent017, Begin, rewrite_brk_inst, RunIntoBrk, RestoreText, StepTurn, StepAddr, Success, Trap
<1>3. /\ Len(CCode) = 9 /\ DOMAIN CCode = 1..9
      /\ CCode[1] = Traceme
      /\ CCode[2] = Store("addr", "t")
      /\ CCode[3] = Site("site1")
      /\ CCode[4] = Insn("t")
      /\ CCode[5] = Insn("t+4")
      /\ CCode[6] = Insn("t+8")
      /\ CCode[7] = Insn("t+12")
      /\ CCode[8] = Insn("t+16")
      /\ CCode[9] = Insn("t+20")
  BY ONLY <1>1 DEF Child017, get_or_do_inst
<1>4. /\ Code[1].op = "wait" /\ Code[1].who = "any" /\ Code[1].fail = "out"
      /\ Code[2].op = "get" /\ Code[2].req = "PEEKDATA" /\ Code[2].at = "inst_addr" /\ Code[2].to = "brk_addr" /\ Code[2].fail = "cont"
      /\ Code[3].op = "set" /\ Code[3].req = "POKETEXT" /\ Code[3].at = "brk_addr" /\ Code[3].val = "nop" /\ Code[3].fail = "cont"
      /\ Code[4].op = "get" /\ Code[4].req = "PEEKDATA" /\ Code[4].at = "addr" /\ Code[4].to = "read_val" /\ Code[4].fail = "cont"
      /\ Code[5].op = "get" /\ Code[5].req = "PEEKTEXT" /\ Code[5].at = "read_val" /\ Code[5].to = "inst_val" /\ Code[5].fail = "next"
      /\ Code[6].op = "set" /\ Code[6].req = "POKETEXT" /\ Code[6].at = "read_val" /\ Code[6].val = "brk" /\ Code[6].fail = "cont"
  BY ONLY <1>2 DEF Wait, Get, Set
<1>5. /\ Code[7].op = "resume" /\ Code[7].req = "CONT" /\ Code[7].fail = "out"
      /\ Code[8].op = "wait" /\ Code[8].who = "any" /\ Code[8].fail = "out"
      /\ Code[9].op = "stopsig" /\ Code[9].sig = "TRAP" /\ Code[9].fail = "cont"
      /\ Code[10].op = "set" /\ Code[10].req = "POKETEXT" /\ Code[10].at = "read_val" /\ Code[10].val = "inst_val" /\ Code[10].fail = "cont"
      /\ Code[11].op = "resume" /\ Code[11].req = "SINGLESTEP" /\ Code[11].fail = "cont"
      /\ Code[12].op = "wait" /\ Code[12].who = "any" /\ Code[12].fail = "out"
  BY ONLY <1>2 DEF Resume, Wait, StopSig, Set
<1>6. /\ Code[13].op = "stopsig" /\ Code[13].sig = "TRAP" /\ Code[13].fail = "cont"
      /\ Code[14].op = "getinfo" /\ Code[14].req = "GETSIGINFO" /\ Code[14].to = "info" /\ Code[14].fail = "cont"
      /\ Code[15].op = "checkinfo" /\ Code[15].a = "info" /\ Code[15].info = [signo |-> "TRAP", code |-> "HWBKPT", addr |-> "t+4"] /\ Code[15].fail = "cont"
      /\ Code[16].op = "resume" /\ Code[16].req = "SINGLESTEP" /\ Code[16].fail = "cont"
      /\ Code[17].op = "wait" /\ Code[17].who = "any" /\ Code[17].fail = "out"
      /\ Code[18].op = "stopsig" /\ Code[18].sig = "TRAP" /\ Code[18].fail = "cont"
  BY ONLY <1>2 DEF StopSig, GetInfo, CheckInfo, Resume, Wait
<1>7. /\ Code[19].op = "getinfo" /\ Code[19].req = "GETSIGINFO" /\ Code[19].to = "info" /\ Code[19].fail = "cont"
      /\ Code[20].op = "checkinfo" /\ Code[20].a = "info" /\ Code[20].info = [signo |-> "TRAP", code |-> "HWBKPT", addr |-> "t+8"] /\ Code[20].fail = "cont"
      /\ Code[21].op = "resume" /\ Code[21].req = "SINGLESTEP" /\ Code[21].fail = "cont"
      /\ Code[22].op = "wait" /\ Code[22].who = "any" /\ Code[22].fail = "out"
      /\ Code[23].op = "stopsig" /\ Code[23].sig = "TRAP" /\ Code[23].fail = "cont"
      /\ Code[24].op = "getinfo" /\ Code[24].req = "GETSIGINFO" /\ Code[24].to = "info" /\ Code[24].fail = "cont"
  BY ONLY <1>2 DEF GetInfo, CheckInfo, Resume, Wait, StopSig
<1>8. /\ Code[25].op = "checkinfo" /\ Code[25].a = "info" /\ Code[25].info = [signo |-> "TRAP", code |-> "HWBKPT", addr |-> "t+12"] /\ Code[25].fail = "cont"
      /\ Code[26].op = "resume" /\ Code[26].req = "SINGLESTEP" /\ Code[26].fail = "cont"
      /\ Code[27].op = "wait" /\ Code[27].who = "any" /\ Code[27].fail = "out"
      /\ Code[28].op = "stopsig" /\ Code[28].sig = "TRAP" /\ Code[28].fail = "cont"
      /\ Code[29].op = "getinfo" /\ Code[29].req = "GETSIGINFO" /\ Code[29].to = "info" /\ Code[29].fail = "cont"
      /\ Code[30].op = "checkinfo" /\ Code[30].a = "info" /\ Code[30].info = [signo |-> "TRAP", code |-> "HWBKPT", addr |-> "t+16"] /\ Code[30].fail = "cont"
  BY ONLY <1>2 DEF CheckInfo, Resume, Wait, StopSig, GetInfo
<1>9. /\ Code[31].op = "resume" /\ Code[31].req = "SINGLESTEP" /\ Code[31].fail = "cont"
      /\ Code[32].op = "wait" /\ Code[32].who = "any" /\ Code[32].fail = "out"
      /\ Code[33].op = "stopsig" /\ Code[33].sig = "TRAP" /\ Code[33].fail = "cont"
      /\ Code[34].op = "getinfo" /\ Code[34].req = "GETSIGINFO" /\ Code[34].to = "info" /\ Code[34].fail = "cont"
      /\ Code[35].op = "checkinfo" /\ Code[35].a = "info" /\ Code[35].info = [signo |-> "TRAP", code |-> "HWBKPT", addr |-> "t+20"] /\ Code[35].fail = "cont"
      /\ Code[36].op = "ok"
  BY ONLY <1>2 DEF Resume, Wait, StopSig, GetInfo, CheckInfo, Ok
<1>10. /\ Code[37].op = "resume" /\ Code[37].req = "CONT" /\ Code[37].fail = "ret"
  BY ONLY <1>2 DEF LastCont
<1>11. /\ CCode[1].op = "traceme"
       /\ CCode[2].op = "store" /\ CCode[2].at = "addr" /\ CCode[2].val = "t"
       /\ CCode[3].op = "site" /\ CCode[3].at = "site1"
       /\ CCode[4].op = "insn" /\ CCode[4].at = "t"
       /\ CCode[5].op = "insn" /\ CCode[5].at = "t+4"
       /\ CCode[6].op = "insn" /\ CCode[6].at = "t+8"
  BY ONLY <1>3 DEF Traceme, Store, Site, Insn
<1>12. /\ CCode[7].op = "insn" /\ CCode[7].at = "t+12"
       /\ CCode[8].op = "insn" /\ CCode[8].at = "t+16"
       /\ CCode[9].op = "insn" /\ CCode[9].at = "t+20"
  BY ONLY <1>3 DEF Insn
<1>. QED  BY ONLY <1>1, <1>2, <1>3, <1>4, <1>5, <1>6, <1>7, <1>8, <1>9, <1>10, <1>11, <1>12

\* 017 keeps to the rules.
LEMMA Rules017 ==
  ASSUME test = "t017"
  PROVE  TextOK
<1>1. H = (2..7) \union (9..11) \union (13..16) \union (18..21) \union (23..26) \union (28..31) \union (33..37) /\ OkAt[test] = 36 /\ TraceAt[test] = 1 /\ PostAt[test] = 0 /\ WaitAt[test] = 1
  BY DEF H, Hold, OkAt, TraceAt, PostAt, WaitAt
<1>2. /\ Len(Code) = 37 /\ DOMAIN Code = 1..37 /\ Len(CCode) = 9 /\ DOMAIN CCode = 1..9
      /\ Test[test].verdict = "exit"
  BY Text017
<1>3. StmtOK(1)
  <2>1. Code[1].op = "wait" /\ Code[1].who = "any" /\ Code[1].fail = "out"
    BY Text017
  <2>. QED  BY ONLY test = "t017", <1>1, <1>2, <2>1 DEF StmtOK, Requests, Named
<1>4. StmtOK(2)
  <2>1. /\ Code[2].op = "get" /\ Code[2].req = "PEEKDATA" /\ Code[2].at = "inst_addr" /\ Code[2].to = "brk_addr" /\ Code[2].fail = "cont"
        /\ Code[37].op = "resume"
    BY Text017
  <2>. QED  BY ONLY test = "t017", <1>1, <1>2, <2>1 DEF StmtOK, Requests, Named
<1>5. StmtOK(3)
  <2>1. /\ Code[3].op = "set" /\ Code[3].req = "POKETEXT" /\ Code[3].at = "brk_addr" /\ Code[3].val = "nop" /\ Code[3].fail = "cont"
        /\ Code[37].op = "resume"
    BY Text017
  <2>. QED  BY ONLY test = "t017", <1>1, <1>2, <2>1 DEF StmtOK, Requests, Named
<1>6. StmtOK(4)
  <2>1. /\ Code[4].op = "get" /\ Code[4].req = "PEEKDATA" /\ Code[4].at = "addr" /\ Code[4].to = "read_val" /\ Code[4].fail = "cont"
        /\ Code[37].op = "resume"
    BY Text017
  <2>. QED  BY ONLY test = "t017", <1>1, <1>2, <2>1 DEF StmtOK, Requests, Named
<1>7. StmtOK(5)
  <2>1. Code[5].op = "get" /\ Code[5].req = "PEEKTEXT" /\ Code[5].at = "read_val" /\ Code[5].to = "inst_val" /\ Code[5].fail = "next"
    BY Text017
  <2>. QED  BY ONLY test = "t017", <1>1, <1>2, <2>1 DEF StmtOK, Requests, Named
<1>8. StmtOK(6)
  <2>1. /\ Code[6].op = "set" /\ Code[6].req = "POKETEXT" /\ Code[6].at = "read_val" /\ Code[6].val = "brk" /\ Code[6].fail = "cont"
        /\ Code[37].op = "resume"
    BY Text017
  <2>. QED  BY ONLY test = "t017", <1>1, <1>2, <2>1 DEF StmtOK, Requests, Named
<1>9. StmtOK(7)
  <2>1. Code[7].op = "resume" /\ Code[7].req = "CONT" /\ Code[7].fail = "out"
    BY Text017
  <2>. QED  BY ONLY test = "t017", <1>1, <1>2, <2>1 DEF StmtOK, Requests, Named
<1>10. StmtOK(8)
  <2>1. Code[8].op = "wait" /\ Code[8].who = "any" /\ Code[8].fail = "out"
    BY Text017
  <2>. QED  BY ONLY test = "t017", <1>1, <1>2, <2>1 DEF StmtOK, Requests, Named
<1>11. StmtOK(9)
  <2>1. /\ Code[9].op = "stopsig" /\ Code[9].sig = "TRAP" /\ Code[9].fail = "cont"
        /\ Code[37].op = "resume"
    BY Text017
  <2>. QED  BY ONLY test = "t017", <1>1, <1>2, <2>1 DEF StmtOK, Requests, Named
<1>12. StmtOK(10)
  <2>1. /\ Code[10].op = "set" /\ Code[10].req = "POKETEXT" /\ Code[10].at = "read_val" /\ Code[10].val = "inst_val" /\ Code[10].fail = "cont"
        /\ Code[37].op = "resume"
    BY Text017
  <2>. QED  BY ONLY test = "t017", <1>1, <1>2, <2>1 DEF StmtOK, Requests, Named
<1>13. StmtOK(11)
  <2>1. /\ Code[11].op = "resume" /\ Code[11].req = "SINGLESTEP" /\ Code[11].fail = "cont"
        /\ Code[37].op = "resume"
    BY Text017
  <2>. QED  BY ONLY test = "t017", <1>1, <1>2, <2>1 DEF StmtOK, Requests, Named
<1>14. StmtOK(12)
  <2>1. Code[12].op = "wait" /\ Code[12].who = "any" /\ Code[12].fail = "out"
    BY Text017
  <2>. QED  BY ONLY test = "t017", <1>1, <1>2, <2>1 DEF StmtOK, Requests, Named
<1>15. StmtOK(13)
  <2>1. /\ Code[13].op = "stopsig" /\ Code[13].sig = "TRAP" /\ Code[13].fail = "cont"
        /\ Code[37].op = "resume"
    BY Text017
  <2>. QED  BY ONLY test = "t017", <1>1, <1>2, <2>1 DEF StmtOK, Requests, Named
<1>16. StmtOK(14)
  <2>1. /\ Code[14].op = "getinfo" /\ Code[14].req = "GETSIGINFO" /\ Code[14].to = "info" /\ Code[14].fail = "cont"
        /\ Code[37].op = "resume"
    BY Text017
  <2>. QED  BY ONLY test = "t017", <1>1, <1>2, <2>1 DEF StmtOK, Requests, Named
<1>17. StmtOK(15)
  <2>1. /\ Code[15].op = "checkinfo" /\ Code[15].a = "info" /\ Code[15].info = [signo |-> "TRAP", code |-> "HWBKPT", addr |-> "t+4"] /\ Code[15].fail = "cont"
        /\ Code[37].op = "resume"
    BY Text017
  <2>. QED  BY ONLY test = "t017", <1>1, <1>2, <2>1 DEF StmtOK, Requests, Named
<1>18. StmtOK(16)
  <2>1. /\ Code[16].op = "resume" /\ Code[16].req = "SINGLESTEP" /\ Code[16].fail = "cont"
        /\ Code[37].op = "resume"
    BY Text017
  <2>. QED  BY ONLY test = "t017", <1>1, <1>2, <2>1 DEF StmtOK, Requests, Named
<1>19. StmtOK(17)
  <2>1. Code[17].op = "wait" /\ Code[17].who = "any" /\ Code[17].fail = "out"
    BY Text017
  <2>. QED  BY ONLY test = "t017", <1>1, <1>2, <2>1 DEF StmtOK, Requests, Named
<1>20. StmtOK(18)
  <2>1. /\ Code[18].op = "stopsig" /\ Code[18].sig = "TRAP" /\ Code[18].fail = "cont"
        /\ Code[37].op = "resume"
    BY Text017
  <2>. QED  BY ONLY test = "t017", <1>1, <1>2, <2>1 DEF StmtOK, Requests, Named
<1>21. StmtOK(19)
  <2>1. /\ Code[19].op = "getinfo" /\ Code[19].req = "GETSIGINFO" /\ Code[19].to = "info" /\ Code[19].fail = "cont"
        /\ Code[37].op = "resume"
    BY Text017
  <2>. QED  BY ONLY test = "t017", <1>1, <1>2, <2>1 DEF StmtOK, Requests, Named
<1>22. StmtOK(20)
  <2>1. /\ Code[20].op = "checkinfo" /\ Code[20].a = "info" /\ Code[20].info = [signo |-> "TRAP", code |-> "HWBKPT", addr |-> "t+8"] /\ Code[20].fail = "cont"
        /\ Code[37].op = "resume"
    BY Text017
  <2>. QED  BY ONLY test = "t017", <1>1, <1>2, <2>1 DEF StmtOK, Requests, Named
<1>23. StmtOK(21)
  <2>1. /\ Code[21].op = "resume" /\ Code[21].req = "SINGLESTEP" /\ Code[21].fail = "cont"
        /\ Code[37].op = "resume"
    BY Text017
  <2>. QED  BY ONLY test = "t017", <1>1, <1>2, <2>1 DEF StmtOK, Requests, Named
<1>24. StmtOK(22)
  <2>1. Code[22].op = "wait" /\ Code[22].who = "any" /\ Code[22].fail = "out"
    BY Text017
  <2>. QED  BY ONLY test = "t017", <1>1, <1>2, <2>1 DEF StmtOK, Requests, Named
<1>25. StmtOK(23)
  <2>1. /\ Code[23].op = "stopsig" /\ Code[23].sig = "TRAP" /\ Code[23].fail = "cont"
        /\ Code[37].op = "resume"
    BY Text017
  <2>. QED  BY ONLY test = "t017", <1>1, <1>2, <2>1 DEF StmtOK, Requests, Named
<1>26. StmtOK(24)
  <2>1. /\ Code[24].op = "getinfo" /\ Code[24].req = "GETSIGINFO" /\ Code[24].to = "info" /\ Code[24].fail = "cont"
        /\ Code[37].op = "resume"
    BY Text017
  <2>. QED  BY ONLY test = "t017", <1>1, <1>2, <2>1 DEF StmtOK, Requests, Named
<1>27. StmtOK(25)
  <2>1. /\ Code[25].op = "checkinfo" /\ Code[25].a = "info" /\ Code[25].info = [signo |-> "TRAP", code |-> "HWBKPT", addr |-> "t+12"] /\ Code[25].fail = "cont"
        /\ Code[37].op = "resume"
    BY Text017
  <2>. QED  BY ONLY test = "t017", <1>1, <1>2, <2>1 DEF StmtOK, Requests, Named
<1>28. StmtOK(26)
  <2>1. /\ Code[26].op = "resume" /\ Code[26].req = "SINGLESTEP" /\ Code[26].fail = "cont"
        /\ Code[37].op = "resume"
    BY Text017
  <2>. QED  BY ONLY test = "t017", <1>1, <1>2, <2>1 DEF StmtOK, Requests, Named
<1>29. StmtOK(27)
  <2>1. Code[27].op = "wait" /\ Code[27].who = "any" /\ Code[27].fail = "out"
    BY Text017
  <2>. QED  BY ONLY test = "t017", <1>1, <1>2, <2>1 DEF StmtOK, Requests, Named
<1>30. StmtOK(28)
  <2>1. /\ Code[28].op = "stopsig" /\ Code[28].sig = "TRAP" /\ Code[28].fail = "cont"
        /\ Code[37].op = "resume"
    BY Text017
  <2>. QED  BY ONLY test = "t017", <1>1, <1>2, <2>1 DEF StmtOK, Requests, Named
<1>31. StmtOK(29)
  <2>1. /\ Code[29].op = "getinfo" /\ Code[29].req = "GETSIGINFO" /\ Code[29].to = "info" /\ Code[29].fail = "cont"
        /\ Code[37].op = "resume"
    BY Text017
  <2>. QED  BY ONLY test = "t017", <1>1, <1>2, <2>1 DEF StmtOK, Requests, Named
<1>32. StmtOK(30)
  <2>1. /\ Code[30].op = "checkinfo" /\ Code[30].a = "info" /\ Code[30].info = [signo |-> "TRAP", code |-> "HWBKPT", addr |-> "t+16"] /\ Code[30].fail = "cont"
        /\ Code[37].op = "resume"
    BY Text017
  <2>. QED  BY ONLY test = "t017", <1>1, <1>2, <2>1 DEF StmtOK, Requests, Named
<1>33. StmtOK(31)
  <2>1. /\ Code[31].op = "resume" /\ Code[31].req = "SINGLESTEP" /\ Code[31].fail = "cont"
        /\ Code[37].op = "resume"
    BY Text017
  <2>. QED  BY ONLY test = "t017", <1>1, <1>2, <2>1 DEF StmtOK, Requests, Named
<1>34. StmtOK(32)
  <2>1. Code[32].op = "wait" /\ Code[32].who = "any" /\ Code[32].fail = "out"
    BY Text017
  <2>. QED  BY ONLY test = "t017", <1>1, <1>2, <2>1 DEF StmtOK, Requests, Named
<1>35. StmtOK(33)
  <2>1. /\ Code[33].op = "stopsig" /\ Code[33].sig = "TRAP" /\ Code[33].fail = "cont"
        /\ Code[37].op = "resume"
    BY Text017
  <2>. QED  BY ONLY test = "t017", <1>1, <1>2, <2>1 DEF StmtOK, Requests, Named
<1>36. StmtOK(34)
  <2>1. /\ Code[34].op = "getinfo" /\ Code[34].req = "GETSIGINFO" /\ Code[34].to = "info" /\ Code[34].fail = "cont"
        /\ Code[37].op = "resume"
    BY Text017
  <2>. QED  BY ONLY test = "t017", <1>1, <1>2, <2>1 DEF StmtOK, Requests, Named
<1>37. StmtOK(35)
  <2>1. /\ Code[35].op = "checkinfo" /\ Code[35].a = "info" /\ Code[35].info = [signo |-> "TRAP", code |-> "HWBKPT", addr |-> "t+20"] /\ Code[35].fail = "cont"
        /\ Code[37].op = "resume"
    BY Text017
  <2>. QED  BY ONLY test = "t017", <1>1, <1>2, <2>1 DEF StmtOK, Requests, Named
<1>38. StmtOK(36)
  <2>1. Code[36].op = "ok"
    BY Text017
  <2>. QED  BY ONLY test = "t017", <1>1, <1>2, <2>1 DEF StmtOK, Requests, Named
<1>39. StmtOK(37)
  <2>1. Code[37].op = "resume" /\ Code[37].req = "CONT" /\ Code[37].fail = "ret"
    BY Text017
  <2>. QED  BY ONLY test = "t017", <1>1, <1>2, <2>1 DEF StmtOK, Requests, Named
<1>40. CStmtOK(1)
  <2>1. CCode[1].op = "traceme"
    BY Text017
  <2>. QED  BY ONLY test = "t017", <1>1, <1>2, <2>1 DEF CStmtOK, Stored
<1>41. CStmtOK(2)
  <2>1. CCode[2].op = "store" /\ CCode[2].at = "addr" /\ CCode[2].val = "t"
    BY Text017
  <2>. QED  BY ONLY test = "t017", <1>1, <1>2, <2>1 DEF CStmtOK, Stored
<1>42. CStmtOK(3)
  <2>1. CCode[3].op = "site" /\ CCode[3].at = "site1"
    BY Text017
  <2>. QED  BY ONLY test = "t017", <1>1, <1>2, <2>1 DEF CStmtOK, Stored
<1>43. CStmtOK(4)
  <2>1. CCode[4].op = "insn" /\ CCode[4].at = "t"
    BY Text017
  <2>. QED  BY ONLY test = "t017", <1>1, <1>2, <2>1 DEF CStmtOK, Stored
<1>44. CStmtOK(5)
  <2>1. CCode[5].op = "insn" /\ CCode[5].at = "t+4"
    BY Text017
  <2>. QED  BY ONLY test = "t017", <1>1, <1>2, <2>1 DEF CStmtOK, Stored
<1>45. CStmtOK(6)
  <2>1. CCode[6].op = "insn" /\ CCode[6].at = "t+8"
    BY Text017
  <2>. QED  BY ONLY test = "t017", <1>1, <1>2, <2>1 DEF CStmtOK, Stored
<1>46. CStmtOK(7)
  <2>1. CCode[7].op = "insn" /\ CCode[7].at = "t+12"
    BY Text017
  <2>. QED  BY ONLY test = "t017", <1>1, <1>2, <2>1 DEF CStmtOK, Stored
<1>47. CStmtOK(8)
  <2>1. CCode[8].op = "insn" /\ CCode[8].at = "t+16"
    BY Text017
  <2>. QED  BY ONLY test = "t017", <1>1, <1>2, <2>1 DEF CStmtOK, Stored
<1>48. CStmtOK(9)
  <2>1. CCode[9].op = "insn" /\ CCode[9].at = "t+20"
    BY Text017
  <2>. QED  BY ONLY test = "t017", <1>1, <1>2, <2>1 DEF CStmtOK, Stored
<1>49. \A i \in 1..37 : StmtOK(i)
  BY ONLY <1>3, <1>4, <1>5, <1>6, <1>7, <1>8, <1>9, <1>10, <1>11, <1>12, <1>13, <1>14, <1>15, <1>16, <1>17, <1>18, <1>19, <1>20, <1>21, <1>22, <1>23, <1>24, <1>25, <1>26, <1>27, <1>28, <1>29, <1>30, <1>31, <1>32, <1>33, <1>34, <1>35, <1>36, <1>37, <1>38, <1>39
<1>50. \A j \in 1..9 : CStmtOK(j)
  BY ONLY <1>40, <1>41, <1>42, <1>43, <1>44, <1>45, <1>46, <1>47, <1>48
<1>. QED  BY ONLY test = "t017", <1>1, <1>2, <1>49, <1>50 DEF TextOK

\* The statements of 018, parent and child.
LEMMA Text018 ==
  ASSUME test = "t018"
  PROVE  /\ Len(Code) = 5 /\ DOMAIN Code = 1..5
         /\ Len(CCode) = 2 /\ DOMAIN CCode = 1..2
         /\ Test[test].needs = {"FORK"} /\ Test[test].verdict = "kill"
         /\ Code[1].op = "wait" /\ Code[1].who = "any" /\ Code[1].fail = "out"
         /\ Code[2].op = "get" /\ Code[2].req = "PEEKDATA" /\ Code[2].at = "inst_addr" /\ Code[2].to = "brk_addr" /\ Code[2].fail = "skip"
         /\ Code[3].op = "set" /\ Code[3].req = "POKETEXT" /\ Code[3].at = "brk_addr" /\ Code[3].val = "nop" /\ Code[3].fail = "next"
         /\ Code[4].op = "resume" /\ Code[4].req = "KILL" /\ Code[4].fail = "out"
         /\ Code[5].op = "ok"
         /\ CCode[1].op = "traceme"
         /\ CCode[2].op = "site" /\ CCode[2].at = "site1"
<1>1. Code = Parent018 /\ CCode = Child018 /\ Test[test].needs = {"FORK"} /\ Test[test].verdict = "kill"
  BY DEF Code, CCode, Test, Test018, Run
<1>2. /\ Len(Code) = 5 /\ DOMAIN Code = 1..5
      /\ Code[1] = Wait("any")
      /\ Code[2] = Get("PEEKDATA", "inst_addr", "brk_addr", "skip")
      /\ Code[3] = Set("POKETEXT", "brk_addr", "nop", "next")
      /\ Code[4] = Resume("KILL", "out")
      /\ Code[5] = Ok
  BY ONLY <1>1 DEF Parent018, rewrite_brk_through
<1>3. /\ Len(CCode) = 2 /\ DOMAIN CCode = 1..2
      /\ CCode[1] = Traceme
      /\ CCode[2] = Site("site1")
  BY ONLY <1>1 DEF Child018
<1>4. /\ Code[1].op = "wait" /\ Code[1].who = "any" /\ Code[1].fail = "out"
      /\ Code[2].op = "get" /\ Code[2].req = "PEEKDATA" /\ Code[2].at = "inst_addr" /\ Code[2].to = "brk_addr" /\ Code[2].fail = "skip"
      /\ Code[3].op = "set" /\ Code[3].req = "POKETEXT" /\ Code[3].at = "brk_addr" /\ Code[3].val = "nop" /\ Code[3].fail = "next"
      /\ Code[4].op = "resume" /\ Code[4].req = "KILL" /\ Code[4].fail = "out"
      /\ Code[5].op = "ok"
  BY ONLY <1>2 DEF Wait, Get, Set, Resume, Ok
<1>5. /\ CCode[1].op = "traceme"
      /\ CCode[2].op = "site" /\ CCode[2].at = "site1"
  BY ONLY <1>3 DEF Traceme, Site
<1>. QED  BY ONLY <1>1, <1>2, <1>3, <1>4, <1>5

\* 018 keeps to the rules.
LEMMA Rules018 ==
  ASSUME test = "t018"
  PROVE  TextOK
<1>1. H = 2..4 /\ OkAt[test] = 5 /\ TraceAt[test] = 1 /\ PostAt[test] = 0 /\ WaitAt[test] = 1
  BY DEF H, Hold, OkAt, TraceAt, PostAt, WaitAt
<1>2. /\ Len(Code) = 5 /\ DOMAIN Code = 1..5 /\ Len(CCode) = 2 /\ DOMAIN CCode = 1..2
      /\ Test[test].verdict = "kill"
  BY Text018
<1>3. StmtOK(1)
  <2>1. Code[1].op = "wait" /\ Code[1].who = "any" /\ Code[1].fail = "out"
    BY Text018
  <2>. QED  BY ONLY test = "t018", <1>1, <1>2, <2>1 DEF StmtOK, Requests, Named
<1>4. StmtOK(2)
  <2>1. /\ Code[2].op = "get" /\ Code[2].req = "PEEKDATA" /\ Code[2].at = "inst_addr" /\ Code[2].to = "brk_addr" /\ Code[2].fail = "skip"
        /\ Code[3].fail = "next"
    BY Text018
  <2>. QED  BY ONLY test = "t018", <1>1, <1>2, <2>1 DEF StmtOK, Requests, Named
<1>5. StmtOK(3)
  <2>1. Code[3].op = "set" /\ Code[3].req = "POKETEXT" /\ Code[3].at = "brk_addr" /\ Code[3].val = "nop" /\ Code[3].fail = "next"
    BY Text018
  <2>. QED  BY ONLY test = "t018", <1>1, <1>2, <2>1 DEF StmtOK, Requests, Named
<1>6. StmtOK(4)
  <2>1. Code[4].op = "resume" /\ Code[4].req = "KILL" /\ Code[4].fail = "out"
    BY Text018
  <2>. QED  BY ONLY test = "t018", <1>1, <1>2, <2>1 DEF StmtOK, Requests, Named
<1>7. StmtOK(5)
  <2>1. Code[5].op = "ok"
    BY Text018
  <2>. QED  BY ONLY test = "t018", <1>1, <1>2, <2>1 DEF StmtOK, Requests, Named
<1>8. CStmtOK(1)
  <2>1. CCode[1].op = "traceme"
    BY Text018
  <2>. QED  BY ONLY test = "t018", <1>1, <1>2, <2>1 DEF CStmtOK, Stored
<1>9. CStmtOK(2)
  <2>1. CCode[2].op = "site" /\ CCode[2].at = "site1"
    BY Text018
  <2>. QED  BY ONLY test = "t018", <1>1, <1>2, <2>1 DEF CStmtOK, Stored
<1>10. \A i \in 1..5 : StmtOK(i)
  BY ONLY <1>3, <1>4, <1>5, <1>6, <1>7
<1>11. \A j \in 1..2 : CStmtOK(j)
  BY ONLY <1>8, <1>9
<1>. QED  BY ONLY test = "t018", <1>1, <1>2, <1>10, <1>11 DEF TextOK

\* The statements of 019, parent and child.
LEMMA Text019 ==
  ASSUME test = "t019"
  PROVE  /\ Len(Code) = 6 /\ DOMAIN Code = 1..6
         /\ Len(CCode) = 3 /\ DOMAIN CCode = 1..3
         /\ Test[test].needs = {"MMAP", "SEM_INIT", "FORK"} /\ Test[test].verdict = "unmap"
         /\ Code[1].op = "semwait" /\ Code[1].sem = "pwait"
         /\ Code[2].op = "attach" /\ Code[2].req = "ATTACH" /\ Code[2].fail = "out"
         /\ Code[3].op = "post" /\ Code[3].sem = "cwait"
         /\ Code[4].op = "wait" /\ Code[4].who = "any" /\ Code[4].fail = "out"
         /\ Code[5].op = "resume" /\ Code[5].req = "CONT" /\ Code[5].fail = "out"
         /\ Code[6].op = "ok"
         /\ CCode[1].op = "cpost" /\ CCode[1].sem = "pwait"
         /\ CCode[2].op = "csemwait" /\ CCode[2].sem = "cwait"
         /\ CCode[3].op = "call" /\ CCode[3].req = "MUNMAP"
<1>1. Code = Parent019 /\ CCode = Child019 /\ Test[test].needs = {"MMAP", "SEM_INIT", "FORK"} /\ Test[test].verdict = "unmap"
  BY DEF Code, CCode, Test, Test019, RunSem
<1>2. /\ Len(Code) = 6 /\ DOMAIN Code = 1..6
      /\ Code[1] = SemWait("pwait")
      /\ Code[2] = Attach
      /\ Code[3] = Post("cwait")
      /\ Code[4] = Wait("any")
      /\ Code[5] = Resume("CONT", "out")
      /\ Code[6] = Ok
  BY ONLY <1>1 DEF Parent019
<1>3. /\ Len(CCode) = 3 /\ DOMAIN CCode = 1..3
      /\ CCode[1] = CPost("pwait")
      /\ CCode[2] = CSemWait("cwait")
      /\ CCode[3] = Call("MUNMAP")
  BY ONLY <1>1 DEF Child019
<1>4. /\ Code[1].op = "semwait" /\ Code[1].sem = "pwait"
      /\ Code[2].op = "attach" /\ Code[2].req = "ATTACH" /\ Code[2].fail = "out"
      /\ Code[3].op = "post" /\ Code[3].sem = "cwait"
      /\ Code[4].op = "wait" /\ Code[4].who = "any" /\ Code[4].fail = "out"
      /\ Code[5].op = "resume" /\ Code[5].req = "CONT" /\ Code[5].fail = "out"
      /\ Code[6].op = "ok"
  BY ONLY <1>2 DEF SemWait, Attach, Post, Wait, Resume, Ok
<1>5. /\ CCode[1].op = "cpost" /\ CCode[1].sem = "pwait"
      /\ CCode[2].op = "csemwait" /\ CCode[2].sem = "cwait"
      /\ CCode[3].op = "call" /\ CCode[3].req = "MUNMAP"
  BY ONLY <1>3 DEF CPost, CSemWait, Call
<1>. QED  BY ONLY <1>1, <1>2, <1>3, <1>4, <1>5

\* 019 keeps to the rules.
LEMMA Rules019 ==
  ASSUME test = "t019"
  PROVE  TextOK
<1>1. H = 5..5 /\ OkAt[test] = 6 /\ TraceAt[test] = 0 /\ PostAt[test] = 1 /\ WaitAt[test] = 4
  BY DEF H, Hold, OkAt, TraceAt, PostAt, WaitAt
<1>2. /\ Len(Code) = 6 /\ DOMAIN Code = 1..6 /\ Len(CCode) = 3 /\ DOMAIN CCode = 1..3
      /\ Test[test].verdict = "unmap"
  BY Text019
<1>3. StmtOK(1)
  <2>1. Code[1].op = "semwait" /\ Code[1].sem = "pwait"
    BY Text019
  <2>. QED  BY ONLY test = "t019", <1>1, <1>2, <2>1 DEF StmtOK, Requests, Named
<1>4. StmtOK(2)
  <2>1. Code[2].op = "attach" /\ Code[2].req = "ATTACH" /\ Code[2].fail = "out"
    BY Text019
  <2>. QED  BY ONLY test = "t019", <1>1, <1>2, <2>1 DEF StmtOK, Requests, Named
<1>5. StmtOK(3)
  <2>1. Code[3].op = "post" /\ Code[3].sem = "cwait"
    BY Text019
  <2>. QED  BY ONLY test = "t019", <1>1, <1>2, <2>1 DEF StmtOK, Requests, Named
<1>6. StmtOK(4)
  <2>1. Code[4].op = "wait" /\ Code[4].who = "any" /\ Code[4].fail = "out"
    BY Text019
  <2>. QED  BY ONLY test = "t019", <1>1, <1>2, <2>1 DEF StmtOK, Requests, Named
<1>7. StmtOK(5)
  <2>1. Code[5].op = "resume" /\ Code[5].req = "CONT" /\ Code[5].fail = "out"
    BY Text019
  <2>. QED  BY ONLY test = "t019", <1>1, <1>2, <2>1 DEF StmtOK, Requests, Named
<1>8. StmtOK(6)
  <2>1. Code[6].op = "ok"
    BY Text019
  <2>. QED  BY ONLY test = "t019", <1>1, <1>2, <2>1 DEF StmtOK, Requests, Named
<1>9. CStmtOK(1)
  <2>1. CCode[1].op = "cpost" /\ CCode[1].sem = "pwait"
    BY Text019
  <2>. QED  BY ONLY test = "t019", <1>1, <1>2, <2>1 DEF CStmtOK, Stored
<1>10. CStmtOK(2)
  <2>1. CCode[2].op = "csemwait" /\ CCode[2].sem = "cwait"
    BY Text019
  <2>. QED  BY ONLY test = "t019", <1>1, <1>2, <2>1 DEF CStmtOK, Stored
<1>11. CStmtOK(3)
  <2>1. CCode[3].op = "call" /\ CCode[3].req = "MUNMAP"
    BY Text019
  <2>. QED  BY ONLY test = "t019", <1>1, <1>2, <2>1 DEF CStmtOK, Stored
<1>12. \A i \in 1..6 : StmtOK(i)
  BY ONLY <1>3, <1>4, <1>5, <1>6, <1>7, <1>8
<1>13. \A j \in 1..3 : CStmtOK(j)
  BY ONLY <1>9, <1>10, <1>11
<1>. QED  BY ONLY test = "t019", <1>1, <1>2, <1>12, <1>13 DEF TextOK

\* The statements of 020, parent and child.
LEMMA Text020 ==
  ASSUME test = "t020"
  PROVE  /\ Len(Code) = 6 /\ DOMAIN Code = 1..6
         /\ Len(CCode) = 3 /\ DOMAIN CCode = 1..3
         /\ Test[test].needs = {"MMAP", "SEM_INIT", "FORK"} /\ Test[test].verdict = "unmap"
         /\ Code[1].op = "semwait" /\ Code[1].sem = "pwait"
         /\ Code[2].op = "attach" /\ Code[2].req = "ATTACH" /\ Code[2].fail = "out"
         /\ Code[3].op = "post" /\ Code[3].sem = "cwait"
         /\ Code[4].op = "wait" /\ Code[4].who = "any" /\ Code[4].fail = "out"
         /\ Code[5].op = "resume" /\ Code[5].req = "DETACH" /\ Code[5].fail = "out"
         /\ Code[6].op = "ok"
         /\ CCode[1].op = "cpost" /\ CCode[1].sem = "pwait"
         /\ CCode[2].op = "csemwait" /\ CCode[2].sem = "cwait"
         /\ CCode[3].op = "call" /\ CCode[3].req = "MUNMAP"
<1>1. Code = Parent020 /\ CCode = Child020 /\ Test[test].needs = {"MMAP", "SEM_INIT", "FORK"} /\ Test[test].verdict = "unmap"
  BY DEF Code, CCode, Test, Test020, RunSem
<1>2. /\ Len(Code) = 6 /\ DOMAIN Code = 1..6
      /\ Code[1] = SemWait("pwait")
      /\ Code[2] = Attach
      /\ Code[3] = Post("cwait")
      /\ Code[4] = Wait("any")
      /\ Code[5] = Resume("DETACH", "out")
      /\ Code[6] = Ok
  BY ONLY <1>1 DEF Parent020
<1>3. /\ Len(CCode) = 3 /\ DOMAIN CCode = 1..3
      /\ CCode[1] = CPost("pwait")
      /\ CCode[2] = CSemWait("cwait")
      /\ CCode[3] = Call("MUNMAP")
  BY ONLY <1>1 DEF Child020
<1>4. /\ Code[1].op = "semwait" /\ Code[1].sem = "pwait"
      /\ Code[2].op = "attach" /\ Code[2].req = "ATTACH" /\ Code[2].fail = "out"
      /\ Code[3].op = "post" /\ Code[3].sem = "cwait"
      /\ Code[4].op = "wait" /\ Code[4].who = "any" /\ Code[4].fail = "out"
      /\ Code[5].op = "resume" /\ Code[5].req = "DETACH" /\ Code[5].fail = "out"
      /\ Code[6].op = "ok"
  BY ONLY <1>2 DEF SemWait, Attach, Post, Wait, Resume, Ok
<1>5. /\ CCode[1].op = "cpost" /\ CCode[1].sem = "pwait"
      /\ CCode[2].op = "csemwait" /\ CCode[2].sem = "cwait"
      /\ CCode[3].op = "call" /\ CCode[3].req = "MUNMAP"
  BY ONLY <1>3 DEF CPost, CSemWait, Call
<1>. QED  BY ONLY <1>1, <1>2, <1>3, <1>4, <1>5

\* 020 keeps to the rules.
LEMMA Rules020 ==
  ASSUME test = "t020"
  PROVE  TextOK
<1>1. H = 5..5 /\ OkAt[test] = 6 /\ TraceAt[test] = 0 /\ PostAt[test] = 1 /\ WaitAt[test] = 4
  BY DEF H, Hold, OkAt, TraceAt, PostAt, WaitAt
<1>2. /\ Len(Code) = 6 /\ DOMAIN Code = 1..6 /\ Len(CCode) = 3 /\ DOMAIN CCode = 1..3
      /\ Test[test].verdict = "unmap"
  BY Text020
<1>3. StmtOK(1)
  <2>1. Code[1].op = "semwait" /\ Code[1].sem = "pwait"
    BY Text020
  <2>. QED  BY ONLY test = "t020", <1>1, <1>2, <2>1 DEF StmtOK, Requests, Named
<1>4. StmtOK(2)
  <2>1. Code[2].op = "attach" /\ Code[2].req = "ATTACH" /\ Code[2].fail = "out"
    BY Text020
  <2>. QED  BY ONLY test = "t020", <1>1, <1>2, <2>1 DEF StmtOK, Requests, Named
<1>5. StmtOK(3)
  <2>1. Code[3].op = "post" /\ Code[3].sem = "cwait"
    BY Text020
  <2>. QED  BY ONLY test = "t020", <1>1, <1>2, <2>1 DEF StmtOK, Requests, Named
<1>6. StmtOK(4)
  <2>1. Code[4].op = "wait" /\ Code[4].who = "any" /\ Code[4].fail = "out"
    BY Text020
  <2>. QED  BY ONLY test = "t020", <1>1, <1>2, <2>1 DEF StmtOK, Requests, Named
<1>7. StmtOK(5)
  <2>1. Code[5].op = "resume" /\ Code[5].req = "DETACH" /\ Code[5].fail = "out"
    BY Text020
  <2>. QED  BY ONLY test = "t020", <1>1, <1>2, <2>1 DEF StmtOK, Requests, Named
<1>8. StmtOK(6)
  <2>1. Code[6].op = "ok"
    BY Text020
  <2>. QED  BY ONLY test = "t020", <1>1, <1>2, <2>1 DEF StmtOK, Requests, Named
<1>9. CStmtOK(1)
  <2>1. CCode[1].op = "cpost" /\ CCode[1].sem = "pwait"
    BY Text020
  <2>. QED  BY ONLY test = "t020", <1>1, <1>2, <2>1 DEF CStmtOK, Stored
<1>10. CStmtOK(2)
  <2>1. CCode[2].op = "csemwait" /\ CCode[2].sem = "cwait"
    BY Text020
  <2>. QED  BY ONLY test = "t020", <1>1, <1>2, <2>1 DEF CStmtOK, Stored
<1>11. CStmtOK(3)
  <2>1. CCode[3].op = "call" /\ CCode[3].req = "MUNMAP"
    BY Text020
  <2>. QED  BY ONLY test = "t020", <1>1, <1>2, <2>1 DEF CStmtOK, Stored
<1>12. \A i \in 1..6 : StmtOK(i)
  BY ONLY <1>3, <1>4, <1>5, <1>6, <1>7, <1>8
<1>13. \A j \in 1..3 : CStmtOK(j)
  BY ONLY <1>9, <1>10, <1>11
<1>. QED  BY ONLY test = "t020", <1>1, <1>2, <1>12, <1>13 DEF TextOK

\* The statements of 021, parent and child.
LEMMA Text021 ==
  ASSUME test = "t021"
  PROVE  /\ Len(Code) = 7 /\ DOMAIN Code = 1..7
         /\ Len(CCode) = 9 /\ DOMAIN CCode = 1..9
         /\ Test[test].needs = {"PIPE", "FORK"} /\ Test[test].verdict = "assert"
         /\ Code[1].op = "ok"
         /\ Code[2].op = "read" /\ Code[2].req = "READ" /\ Code[2].to = "devmap" /\ Code[2].fail = "outret"
         /\ Code[3].op = "wait" /\ Code[3].who = "any" /\ Code[3].fail = "contret"
         /\ Code[4].op = "get" /\ Code[4].req = "PEEKDATA" /\ Code[4].at = "inst_addr" /\ Code[4].to = "brk_addr" /\ Code[4].fail = "cont"
         /\ Code[5].op = "set" /\ Code[5].req = "POKETEXT" /\ Code[5].at = "brk_addr" /\ Code[5].val = "nop" /\ Code[5].fail = "cont"
         /\ Code[6].op = "set" /\ Code[6].req = "POKEDATA" /\ Code[6].at = "devmap" /\ Code[6].val = "0xFFFFFFFF" /\ Code[6].fail = "contret"
         /\ Code[7].op = "resume" /\ Code[7].req = "CONT" /\ Code[7].fail = "ret"
         /\ CCode[1].op = "call" /\ CCode[1].req = "OPEN"
         /\ CCode[2].op = "call" /\ CCode[2].req = "IOCTL"
         /\ CCode[3].op = "call" /\ CCode[3].req = "MMAP"
         /\ CCode[4].op = "store" /\ CCode[4].at = "dev" /\ CCode[4].val = "zero"
         /\ CCode[5].op = "call" /\ CCode[5].req = "WRITE"
         /\ CCode[6].op = "cpost" /\ CCode[6].sem = "pipe"
         /\ CCode[7].op = "traceme"
         /\ CCode[8].op = "site" /\ CCode[8].at = "site1"
         /\ CCode[9].op = "cchecknot" /\ CCode[9].at = "dev" /\ CCode[9].val = "zero"
<1>1. Code = Parent021 /\ CCode = Child021 /\ Test[test].needs = {"PIPE", "FORK"} /\ Test[test].verdict = "assert"
  BY DEF Code, CCode, Test, Test021, Run
<1>2. /\ Len(Code) = 7 /\ DOMAIN Code = 1..7
      /\ Code[1] = Ok
      /\ Code[2] = ReadPipe("devmap")
      /\ Code[3] = WaitElse("contret")
      /\ Code[4] = Get("PEEKDATA", "inst_addr", "brk_addr", "cont")
      /\ Code[5] = Set("POKETEXT", "brk_addr", "nop", "cont")
      /\ Code[6] = Set("POKEDATA", "devmap", "0xFFFFFFFF", "contret")
      /\ Code[7] = LastCont
  BY ONLY <1>1 DEF Parent021, rewrite_brk_inst
<1>3. /\ Len(CCode) = 9 /\ DOMAIN CCode = 1..9
      /\ CCode[1] = Call("OPEN")
      /\ CCode[2] = Call("IOCTL")
      /\ CCode[3] = Call("MMAP")
      /\ CCode[4] = Store("dev", "zero")
      /\ CCode[5] = Call("WRITE")
      /\ CCode[6] = CPost("pipe")
      /\ CCode[7] = Traceme
      /\ CCode[8] = Site("site1")
      /\ CCode[9] = CCheckNot("dev", "zero")
  BY ONLY <1>1 DEF Child021
<1>4. /\ Code[1].op = "ok"
      /\ Code[2].op = "read" /\ Code[2].req = "READ" /\ Code[2].to = "devmap" /\ Code[2].fail = "outret"
      /\ Code[3].op = "wait" /\ Code[3].who = "any" /\ Code[3].fail = "contret"
      /\ Code[4].op = "get" /\ Code[4].req = "PEEKDATA" /\ Code[4].at = "inst_addr" /\ Code[4].to = "brk_addr" /\ Code[4].fail = "cont"
      /\ Code[5].op = "set" /\ Code[5].req = "POKETEXT" /\ Code[5].at = "brk_addr" /\ Code[5].val = "nop" /\ Code[5].fail = "cont"
      /\ Code[6].op = "set" /\ Code[6].req = "POKEDATA" /\ Code[6].at = "devmap" /\ Code[6].val = "0xFFFFFFFF" /\ Code[6].fail = "contret"
  BY ONLY <1>2 DEF Ok, ReadPipe, WaitElse, Get, Set
<1>5. /\ Code[7].op = "resume" /\ Code[7].req = "CONT" /\ Code[7].fail = "ret"
  BY ONLY <1>2 DEF LastCont
<1>6. /\ CCode[1].op = "call" /\ CCode[1].req = "OPEN"
      /\ CCode[2].op = "call" /\ CCode[2].req = "IOCTL"
      /\ CCode[3].op = "call" /\ CCode[3].req = "MMAP"
      /\ CCode[4].op = "store" /\ CCode[4].at = "dev" /\ CCode[4].val = "zero"
      /\ CCode[5].op = "call" /\ CCode[5].req = "WRITE"
      /\ CCode[6].op = "cpost" /\ CCode[6].sem = "pipe"
  BY ONLY <1>3 DEF Call, Store, CPost
<1>7. /\ CCode[7].op = "traceme"
      /\ CCode[8].op = "site" /\ CCode[8].at = "site1"
      /\ CCode[9].op = "cchecknot" /\ CCode[9].at = "dev" /\ CCode[9].val = "zero"
  BY ONLY <1>3 DEF Traceme, Site, CCheckNot
<1>. QED  BY ONLY <1>1, <1>2, <1>3, <1>4, <1>5, <1>6, <1>7

\* 021 keeps to the rules.
LEMMA Rules021 ==
  ASSUME test = "t021"
  PROVE  TextOK
<1>1. H = 4..7 /\ OkAt[test] = 1 /\ TraceAt[test] = 7 /\ PostAt[test] = 6 /\ WaitAt[test] = 3
  BY DEF H, Hold, OkAt, TraceAt, PostAt, WaitAt
<1>2. /\ Len(Code) = 7 /\ DOMAIN Code = 1..7 /\ Len(CCode) = 9 /\ DOMAIN CCode = 1..9
      /\ Test[test].verdict = "assert"
  BY Text021
<1>3. StmtOK(1)
  <2>1. Code[1].op = "ok"
    BY Text021
  <2>. QED  BY ONLY test = "t021", <1>1, <1>2, <2>1 DEF StmtOK, Requests, Named
<1>4. StmtOK(2)
  <2>1. Code[2].op = "read" /\ Code[2].req = "READ" /\ Code[2].to = "devmap" /\ Code[2].fail = "outret"
    BY Text021
  <2>. QED  BY ONLY test = "t021", <1>1, <1>2, <2>1 DEF StmtOK, Requests, Named
<1>5. StmtOK(3)
  <2>1. /\ Code[3].op = "wait" /\ Code[3].who = "any" /\ Code[3].fail = "contret"
        /\ Code[7].op = "resume"
    BY Text021
  <2>. QED  BY ONLY test = "t021", <1>1, <1>2, <2>1 DEF StmtOK, Requests, Named
<1>6. StmtOK(4)
  <2>1. /\ Code[4].op = "get" /\ Code[4].req = "PEEKDATA" /\ Code[4].at = "inst_addr" /\ Code[4].to = "brk_addr" /\ Code[4].fail = "cont"
        /\ Code[7].op = "resume"
    BY Text021
  <2>. QED  BY ONLY test = "t021", <1>1, <1>2, <2>1 DEF StmtOK, Requests, Named
<1>7. StmtOK(5)
  <2>1. /\ Code[5].op = "set" /\ Code[5].req = "POKETEXT" /\ Code[5].at = "brk_addr" /\ Code[5].val = "nop" /\ Code[5].fail = "cont"
        /\ Code[7].op = "resume"
    BY Text021
  <2>. QED  BY ONLY test = "t021", <1>1, <1>2, <2>1 DEF StmtOK, Requests, Named
<1>8. StmtOK(6)
  <2>1. /\ Code[6].op = "set" /\ Code[6].req = "POKEDATA" /\ Code[6].at = "devmap" /\ Code[6].val = "0xFFFFFFFF" /\ Code[6].fail = "contret"
        /\ Code[7].op = "resume"
    BY Text021
  <2>. QED  BY ONLY test = "t021", <1>1, <1>2, <2>1 DEF StmtOK, Requests, Named
<1>9. StmtOK(7)
  <2>1. Code[7].op = "resume" /\ Code[7].req = "CONT" /\ Code[7].fail = "ret"
    BY Text021
  <2>. QED  BY ONLY test = "t021", <1>1, <1>2, <2>1 DEF StmtOK, Requests, Named
<1>10. CStmtOK(1)
  <2>1. CCode[1].op = "call" /\ CCode[1].req = "OPEN"
    BY Text021
  <2>. QED  BY ONLY test = "t021", <1>1, <1>2, <2>1 DEF CStmtOK, Stored
<1>11. CStmtOK(2)
  <2>1. CCode[2].op = "call" /\ CCode[2].req = "IOCTL"
    BY Text021
  <2>. QED  BY ONLY test = "t021", <1>1, <1>2, <2>1 DEF CStmtOK, Stored
<1>12. CStmtOK(3)
  <2>1. CCode[3].op = "call" /\ CCode[3].req = "MMAP"
    BY Text021
  <2>. QED  BY ONLY test = "t021", <1>1, <1>2, <2>1 DEF CStmtOK, Stored
<1>13. CStmtOK(4)
  <2>1. CCode[4].op = "store" /\ CCode[4].at = "dev" /\ CCode[4].val = "zero"
    BY Text021
  <2>. QED  BY ONLY test = "t021", <1>1, <1>2, <2>1 DEF CStmtOK, Stored
<1>14. CStmtOK(5)
  <2>1. CCode[5].op = "call" /\ CCode[5].req = "WRITE"
    BY Text021
  <2>. QED  BY ONLY test = "t021", <1>1, <1>2, <2>1 DEF CStmtOK, Stored
<1>15. CStmtOK(6)
  <2>1. CCode[6].op = "cpost" /\ CCode[6].sem = "pipe"
    BY Text021
  <2>. QED  BY ONLY test = "t021", <1>1, <1>2, <2>1 DEF CStmtOK, Stored
<1>16. CStmtOK(7)
  <2>1. CCode[7].op = "traceme"
    BY Text021
  <2>. QED  BY ONLY test = "t021", <1>1, <1>2, <2>1 DEF CStmtOK, Stored
<1>17. CStmtOK(8)
  <2>1. CCode[8].op = "site" /\ CCode[8].at = "site1"
    BY Text021
  <2>. QED  BY ONLY test = "t021", <1>1, <1>2, <2>1 DEF CStmtOK, Stored
<1>18. CStmtOK(9)
  <2>1. CCode[9].op = "cchecknot" /\ CCode[9].at = "dev" /\ CCode[9].val = "zero"
    BY Text021
  <2>. QED  BY ONLY test = "t021", <1>1, <1>2, <2>1 DEF CStmtOK, Stored
<1>19. \A i \in 1..7 : StmtOK(i)
  BY ONLY <1>3, <1>4, <1>5, <1>6, <1>7, <1>8, <1>9
<1>20. \A j \in 1..9 : CStmtOK(j)
  BY ONLY <1>10, <1>11, <1>12, <1>13, <1>14, <1>15, <1>16, <1>17, <1>18
<1>. QED  BY ONLY test = "t021", <1>1, <1>2, <1>19, <1>20 DEF TextOK

\* Every test of the suite keeps to the rules.
LEMMA TextHolds ==
  ASSUME test \in DOMAIN Test
  PROVE  TextOK
<1>1. test \in {"t000", "t001", "t002", "t003", "t004", "t005", "t006", "t007", "t008", "t009", "t010",
               "t011", "t012", "t013", "t014", "t015", "t016", "t017", "t018", "t019", "t020", "t021"}
  BY DEF Test
<1>. QED  BY ONLY <1>1, Rules000, Rules001, Rules002, Rules003, Rules004, Rules005, Rules006, Rules007, Rules008, Rules009, Rules010, Rules011, Rules012, Rules013, Rules014, Rules015, Rules016, Rules017, Rules018, Rules019, Rules020, Rules021
=============================================================================
