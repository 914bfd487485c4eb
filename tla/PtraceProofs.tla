---------------------------- MODULE PtraceProofs ----------------------------
(***************************************************************************)
(* Proofs about Ptrace, for every set of cases.                            *)
(*                                                                         *)
(* The argument goes from what any kernel must do (BaseInv: P's requests   *)
(* meet a stopped child) over what success of P and of the child means     *)
(* (RunInv) to what a kernel that gets a test's subject wrong leaves       *)
(* behind (FaultInv) and to what a good kernel does at each place of the   *)
(* programs (GoodInv).                                                     *)
(***************************************************************************)
EXTENDS PtraceSuiteProofs

-----------------------------------------------------------------------------
(***************************************************************************)
(* Types, stops and semaphores: BaseInv.                                   *)
(***************************************************************************)

Fields == {"st", "traced", "pend", "event", "status", "mode"}

\* Every variable has the fields the actions update.
Shape ==
  /\ DOMAIN proc = {"C", "G"} /\ DOMAIN proc["C"] = Fields /\ DOMAIN proc["G"] = Fields
  /\ DOMAIN reg = Reg /\ DOMAIN pinfo = InfoReg /\ DOMAIN mem = Cell
  /\ DOMAIN sem = {"pwait", "cwait", "pipe"}

Counters ==
  /\ test \in DOMAIN Test
  /\ ppc \in 0..(Len(Code) + 1) /\ cpc \in 1..(Len(CCode) + 1)
  /\ ret \in {"ok", "fail"} /\ verdict \in {"none", "ok", "fail"}

\* What is waited for is a stop or an end.
ProcInv(p) ==
  /\ proc[p].st \in {"none", "run", "stop", "dead", "gone"}
  /\ proc[p].mode \in {"CONT", "SYSCALL", "SINGLESTEP"}
  /\ proc[p].event => proc[p].st \in {"stop", "dead"}

\* The child exists from fork() on; only a traced child reports stops, and what is reported
\* is what has happened; before TRACEME the child is not traced.
ChildInv ==
  /\ ppc = 0 => proc["C"].st = "none"
  /\ ppc # 0 => proc["C"].st # "none"
  /\ proc["C"].event /\ proc["C"].st = "stop" => proc["C"].traced /\ proc["C"].status.kind = "stop"
  /\ proc["C"].event /\ proc["C"].st = "dead" => proc["C"].status.kind \in {"exit", "sig"}
  /\ proc["C"].status.kind \in {"exit", "sig"} => proc["C"].st \in {"dead", "gone"}
  /\ test = "t000" => ~proc["C"].traced
  /\ cpc <= TraceAt[test] => ~proc["C"].traced

\* Only 015 has a grandchild.
GrandInv == test # "t015" => proc["G"] = NoProc

\* P has the child in its hand: the child has stopped, and P knows.
Held == proc["C"].st = "stop" /\ proc["C"].traced /\ ~proc["C"].event

\* At the places of Hold the child is held; 021 alone comes to its last place without a child.
HeldInv ==
  verdict = "none" /\ ppc \in H =>
    \/ Held
    \/ test = "t021" /\ ppc = Len(Code) /\ proc["C"].st \in {"dead", "gone"} /\ ret = "fail"

\* A semaphore is posted once.
SemInv ==
  /\ \A s \in {"pwait", "cwait", "pipe"} : sem[s] \in 0..1
  /\ cpc <= PostAt[test] => sem["pwait"] = 0 /\ sem["pipe"] = 0
  /\ ppc <= 3 => sem["cwait"] = 0

BaseInv ==
  /\ Shape /\ Counters /\ ProcInv("C") /\ ProcInv("G") /\ ChildInv /\ GrandInv /\ HeldInv /\ SemInv

\* The programs depend on the test only.
LEMMA TextStays ==
  ASSUME test' = test
  PROVE  /\ Code' = Code /\ CCode' = CCode /\ H' = H /\ Len(Code)' = Len(Code) /\ Len(CCode)' = Len(CCode)
         /\ OkAt[test]' = OkAt[test] /\ TraceAt[test]' = TraceAt[test] /\ PostAt[test]' = PostAt[test]
         /\ WaitAt[test]' = WaitAt[test]
  BY DEF Code, CCode, H

\* Where a jump leads.
LEMMA JumpTo ==
  ASSUME NEW f, Jump(f)
  PROVE  /\ f \in {"next", "ret"} => ppc' = ppc + 1
         /\ f = "skip" => ppc' = ppc + 2
         /\ f \in {"cont", "contret"} => ppc' = Len(Code)
         /\ f \in {"out", "outret"} => ppc' = Len(Code) + 1
         /\ f \in {"ret", "contret", "outret"} => ret' = "fail"
         /\ f \notin {"ret", "contret", "outret"} => ret' = ret
  BY DEF Jump

\* A statement of parent_func() goes on or jumps.
Move == Advance \/ (Code[ppc].op \notin {"post", "semwait", "ok"} /\ Jump(Code[ppc].fail))

\* The places a statement may lead to.
LEMMA MoveTo ==
  ASSUME TextOK, ppc \in 1..Len(Code), ret \in {"ok", "fail"}, Move
  PROVE  /\ ppc' \in 2..(Len(Code) + 1) /\ ppc' > ppc
         /\ ret' \in {ret, "fail"}
         /\ \/ ppc' = ppc + 1
            \/ ppc' = ppc + 2 /\ Code[ppc].fail = "skip" /\ Code[ppc].op \notin {"post", "semwait", "ok"}
            \/ ppc' = Len(Code) /\ Code[ppc].fail \in {"cont", "contret"} /\ Code[ppc].op \notin {"post", "semwait", "ok"}
            \/ ppc' = Len(Code) + 1
<1>1. StmtOK(ppc) /\ Len(Code) \in Nat
  BY DEF TextOK
<1>2. CASE Advance
  BY <1>1, <1>2 DEF Advance
<1>3. CASE Code[ppc].op \notin {"post", "semwait", "ok"} /\ Jump(Code[ppc].fail)
  <2>1. /\ Code[ppc].fail \in {"next", "ret", "skip", "cont", "contret", "out", "outret"}
        /\ Code[ppc].fail = "skip" => ppc + 2 < Len(Code)
        /\ Code[ppc].fail \in {"cont", "contret"} => ppc < Len(Code)
    BY <1>1, <1>3 DEF StmtOK
  <2>2. PICK f : f = Code[ppc].fail /\ Jump(f)
    BY <1>3
  <2>. QED  BY ONLY <1>1, <1>3, <2>1, <2>2, JumpTo, ppc \in 1..Len(Code), ret \in {"ok", "fail"}
<1>. QED  BY <1>2, <1>3 DEF Move

\* A statement that neither waits nor resumes leaves the child as it was held.
LEMMA HoldStays ==
  ASSUME TextOK, BaseInv, verdict = "none", ppc \in 1..Len(Code), Code[ppc].op \notin {"wait", "resume"}, Move,
         UNCHANGED <<test, verdict, proc>>
  PROVE  HeldInv'
<1>1. StmtOK(ppc) /\ Len(Code) \in Nat /\ ret \in {"ok", "fail"}
  BY DEF TextOK, BaseInv, Counters
<1>2. ppc' \in H => ppc \in H /\ ppc < Len(Code)
  <2>1. /\ ppc + 1 \in H => ppc \in H
        /\ Code[ppc].op \notin {"post", "semwait", "ok"} /\ Code[ppc].fail = "skip" => (ppc + 2 \in H => ppc \in H)
        /\ Code[ppc].op \notin {"post", "semwait", "ok"} /\ Code[ppc].fail \in {"cont", "contret"} => ppc \in H
    BY <1>1 DEF StmtOK
  <2>2. Len(Code) + 1 \notin H
    BY <1>1 DEF TextOK
  <2>3. ppc' \in H => ppc \in H
    <3>1. \/ ppc' = ppc + 1
          \/ ppc' = ppc + 2 /\ Code[ppc].fail = "skip" /\ Code[ppc].op \notin {"post", "semwait", "ok"}
          \/ ppc' = Len(Code) /\ Code[ppc].fail \in {"cont", "contret"} /\ Code[ppc].op \notin {"post", "semwait", "ok"}
          \/ ppc' = Len(Code) + 1
      BY <1>1, MoveTo
    <3>. QED  BY ONLY <2>1, <2>2, <3>1
  <2>4. ppc' \in H => ppc < Len(Code)
    BY <1>1, MoveTo DEF TextOK
  <2>. QED  BY <2>3, <2>4
<1>3. ppc' \in H => Held
  BY <1>1, <1>2 DEF BaseInv, HeldInv
<1>4. Held' = Held
  BY DEF Held
<1>. QED  BY <1>3, <1>4, TextStays DEF HeldInv

\* A statement that leaves the kernel's view of the processes alone keeps the invariant.
LEMMA QuietStep ==
  ASSUME TextOK, BaseInv, verdict = "none", ppc \in 1..Len(Code), Code[ppc].op \notin {"wait", "resume"}, Move,
         UNCHANGED <<test, verdict, cpc, proc>>, Shape', SemInv'
  PROVE  BaseInv'
<1>1. ret \in {"ok", "fail"} /\ Len(Code) \in Nat
  BY DEF BaseInv, Counters, TextOK
<1>2. ppc' \in 2..(Len(Code) + 1) /\ ret' \in {ret, "fail"}
  BY <1>1, MoveTo
<1>3. Counters'
  BY <1>1, <1>2, TextStays DEF BaseInv, Counters
<1>4. ProcInv("C")' /\ ProcInv("G")' /\ GrandInv'
  BY DEF BaseInv, ProcInv, GrandInv
<1>5. ChildInv'
  BY <1>2, TextStays DEF BaseInv, ChildInv
<1>6. HeldInv'
  BY HoldStays
<1>. QED  BY <1>3, <1>4, <1>5, <1>6 DEF BaseInv

\* The semaphores of a statement that uses none.
LEMMA SemStays ==
  ASSUME TextOK, BaseInv, ppc \in 1..Len(Code), Move, UNCHANGED <<test, cpc, sem>>
  PROVE  SemInv'
<1>1. ret \in {"ok", "fail"} /\ Len(Code) \in Nat
  BY DEF BaseInv, Counters, TextOK
<1>2. ppc' \in 2..(Len(Code) + 1) /\ ppc' > ppc
  BY <1>1, MoveTo
<1>. QED  BY <1>1, <1>2, TextStays DEF BaseInv, SemInv

\* WSTOPSIG() keeps the invariant.
LEMMA PStopSigBase ==
  ASSUME TextOK, BaseInv, PStopSig
  PROVE  BaseInv'
<1>1. /\ verdict = "none" /\ ppc \in 1..Len(Code) /\ Code[ppc].op \in {"stopsig"}
      /\ UNCHANGED <<test, verdict, cpc, proc, sem>>
  BY DEF PStopSig, At, childVars
<1>2. Move
  BY <1>1 DEF PStopSig, Move
<1>3. Shape'
  BY <1>1 DEF PStopSig, BaseInv, Shape, childVars
<1>4. SemInv'
  BY <1>1, <1>2, SemStays
<1>. QED  BY <1>1, <1>2, <1>3, <1>4, QuietStep

\* A request that reads keeps the invariant.
LEMMA PGetBase ==
  ASSUME TextOK, BaseInv, PGet
  PROVE  BaseInv'
<1>1. /\ verdict = "none" /\ ppc \in 1..Len(Code) /\ Code[ppc].op \in {"get"}
      /\ UNCHANGED <<test, verdict, cpc, proc, sem>>
  BY DEF PGet, At, childVars
<1>2. Move
  BY <1>1 DEF PGet, Move
<1>3. Shape'
  BY <1>1 DEF PGet, BaseInv, Shape, childVars
<1>4. SemInv'
  BY <1>1, <1>2, SemStays
<1>. QED  BY <1>1, <1>2, <1>3, <1>4, QuietStep

\* A request that writes keeps the invariant.
LEMMA PSetBase ==
  ASSUME TextOK, BaseInv, PSet
  PROVE  BaseInv'
<1>1. /\ verdict = "none" /\ ppc \in 1..Len(Code) /\ Code[ppc].op \in {"set"}
      /\ UNCHANGED <<test, verdict, cpc, proc, sem>>
  BY DEF PSet, At, childVars
<1>2. Move
  BY <1>1 DEF PSet, Move
<1>3. Shape'
  BY <1>1 DEF PSet, BaseInv, Shape, childVars
<1>4. SemInv'
  BY <1>1, <1>2, SemStays
<1>. QED  BY <1>1, <1>2, <1>3, <1>4, QuietStep

\* A comparison keeps the invariant.
LEMMA PCheckBase ==
  ASSUME TextOK, BaseInv, PCheck
  PROVE  BaseInv'
<1>1. /\ verdict = "none" /\ ppc \in 1..Len(Code) /\ Code[ppc].op \in {"check"}
      /\ UNCHANGED <<test, verdict, cpc, proc, sem>>
  BY DEF PCheck, At, childVars
<1>2. Move
  BY <1>1 DEF PCheck, Move
<1>3. Shape'
  BY <1>1 DEF PCheck, BaseInv, Shape, childVars
<1>4. SemInv'
  BY <1>1, <1>2, SemStays
<1>. QED  BY <1>1, <1>2, <1>3, <1>4, QuietStep

\* A request that has to fail keeps the invariant.
LEMMA PMustFailBase ==
  ASSUME TextOK, BaseInv, PMustFail
  PROVE  BaseInv'
<1>1. /\ verdict = "none" /\ ppc \in 1..Len(Code) /\ Code[ppc].op \in {"mustfail"}
      /\ UNCHANGED <<test, verdict, cpc, proc, sem>>
  BY DEF PMustFail, At, childVars
<1>2. Move
  BY <1>1 DEF PMustFail, Move
<1>3. Shape'
  BY <1>1 DEF PMustFail, BaseInv, Shape, childVars
<1>4. SemInv'
  BY <1>1, <1>2, SemStays
<1>. QED  BY <1>1, <1>2, <1>3, <1>4, QuietStep

\* GETSIGINFO keeps the invariant.
LEMMA PGetInfoBase ==
  ASSUME TextOK, BaseInv, PGetInfo
  PROVE  BaseInv'
<1>1. /\ verdict = "none" /\ ppc \in 1..Len(Code) /\ Code[ppc].op \in {"getinfo"}
      /\ UNCHANGED <<test, verdict, cpc, proc, sem>>
  BY DEF PGetInfo, At, childVars
<1>2. Move
  BY <1>1 DEF PGetInfo, Move
<1>3. Shape'
  BY <1>1 DEF PGetInfo, BaseInv, Shape, childVars
<1>4. SemInv'
  BY <1>1, <1>2, SemStays
<1>. QED  BY <1>1, <1>2, <1>3, <1>4, QuietStep

\* A comparison of siginfo keeps the invariant.
LEMMA PCheckInfoBase ==
  ASSUME TextOK, BaseInv, PCheckInfo
  PROVE  BaseInv'
<1>1. /\ verdict = "none" /\ ppc \in 1..Len(Code) /\ Code[ppc].op \in {"checkinfo"}
      /\ UNCHANGED <<test, verdict, cpc, proc, sem>>
  BY DEF PCheckInfo, At, childVars
<1>2. Move
  BY <1>1 DEF PCheckInfo, Move
<1>3. Shape'
  BY <1>1 DEF PCheckInfo, BaseInv, Shape, childVars
<1>4. SemInv'
  BY <1>1, <1>2, SemStays
<1>. QED  BY <1>1, <1>2, <1>3, <1>4, QuietStep

\* SETSIGINFO keeps the invariant.
LEMMA PSetInfoBase ==
  ASSUME TextOK, BaseInv, PSetInfo
  PROVE  BaseInv'
<1>1. /\ verdict = "none" /\ ppc \in 1..Len(Code) /\ Code[ppc].op \in {"setinfo", "restoreinfo"}
      /\ UNCHANGED <<test, verdict, cpc, proc, sem>>
  BY DEF PSetInfo, At, childVars
<1>2. Move
  BY <1>1 DEF PSetInfo, Move
<1>3. Shape'
  BY <1>1 DEF PSetInfo, BaseInv, Shape, childVars
<1>4. SemInv'
  BY <1>1, <1>2, SemStays
<1>. QED  BY <1>1, <1>2, <1>3, <1>4, QuietStep

\* sem_post() and sem_wait() of the parent keep the invariant.
LEMMA PSemBase ==
  ASSUME TextOK, BaseInv, PSem
  PROVE  BaseInv'
<1>1. /\ verdict = "none" /\ ppc \in 1..Len(Code) /\ Code[ppc].op \in {"post", "semwait"}
      /\ UNCHANGED <<test, verdict, cpc, proc, reg, pinfo, mem>> /\ Advance
  BY DEF PSem, At, childVars
<1>2. Move
  BY <1>1 DEF Move
<1>3. Shape'
  BY <1>1 DEF PSem, BaseInv, Shape
<1>4. SemInv'
  <2>1. CASE Code[ppc].op = "post"
    <3>1. ppc = 3 /\ sem' = [sem EXCEPT !["cwait"] = @ + 1]
      BY <1>1, <2>1 DEF PSem, At, TextOK, StmtOK
    <3>2. sem["cwait"] = 0 /\ ppc' = 4 /\ DOMAIN sem = {"pwait", "cwait", "pipe"}
      BY <1>1, <3>1 DEF BaseInv, SemInv, Advance, Shape
    <3>3. sem'["cwait"] = 1 /\ sem'["pwait"] = sem["pwait"] /\ sem'["pipe"] = sem["pipe"]
      BY <3>1, <3>2
    <3>. QED  BY <1>1, <3>2, <3>3, TextStays DEF BaseInv, SemInv
  <2>2. CASE Code[ppc].op = "semwait"
    <3>1. sem["pwait"] > 0 /\ sem' = [sem EXCEPT !["pwait"] = @ - 1]
      BY <1>1, <2>2 DEF PSem, At, TextOK, StmtOK
    <3>2. sem["pwait"] = 1 /\ DOMAIN sem = {"pwait", "cwait", "pipe"}
      BY <3>1 DEF BaseInv, SemInv, Shape
    <3>3. sem'["pwait"] = 0 /\ sem'["cwait"] = sem["cwait"] /\ sem'["pipe"] = sem["pipe"]
      BY <3>1, <3>2
    <3>. QED  BY <1>1, <3>3, TextStays DEF BaseInv, SemInv, Advance
  <2>. QED  BY <1>1, <2>1, <2>2
<1>. QED  BY <1>1, <1>2, <1>3, <1>4, QuietStep

\* read() keeps the invariant.
LEMMA PReadBase ==
  ASSUME TextOK, BaseInv, PRead
  PROVE  BaseInv'
<1>1. /\ verdict = "none" /\ ppc \in 1..Len(Code) /\ Code[ppc].op = "read"
      /\ UNCHANGED <<test, verdict, cpc, proc, pinfo, mem>>
  BY DEF PRead, At, childVars
<1>2. Move
  BY <1>1 DEF PRead, Move
<1>3. Shape'
  BY <1>1 DEF PRead, BaseInv, Shape
<1>4. SemInv'
  <2>1. CASE sem' = sem
    BY <1>1, <1>2, <2>1, SemStays
  <2>2. CASE sem' = [sem EXCEPT !["pipe"] = 0]
    <3>1. sem'["pipe"] = 0 /\ sem'["pwait"] = sem["pwait"] /\ sem'["cwait"] = sem["cwait"]
      BY <2>2 DEF BaseInv, Shape
    <3>2. ppc' > ppc /\ ppc' \in Nat /\ ppc \in Nat
      <4>1. ret \in {"ok", "fail"} /\ Len(Code) \in Nat
        BY DEF BaseInv, Counters, TextOK
      <4>. QED  BY <1>1, <1>2, <4>1, MoveTo
    <3>. QED  BY <1>1, <3>1, <3>2, TextStays DEF BaseInv, SemInv
  <2>. QED  BY <2>1, <2>2 DEF PRead
<1>. QED  BY <1>1, <1>2, <1>3, <1>4, QuietStep

\* ret = 0 keeps the invariant.
LEMMA POkBase ==
  ASSUME TextOK, BaseInv, POk
  PROVE  BaseInv'
<1>1. /\ verdict = "none" /\ ppc \in 1..Len(Code) /\ Code[ppc].op = "ok" /\ ppc' = ppc + 1 /\ ret' = "ok"
      /\ UNCHANGED <<test, verdict, cpc, proc, sem, reg, pinfo, mem>>
  BY DEF POk, At, childVars
<1>2. /\ Len(Code) \in Nat /\ H \subseteq 1..Len(Code)
      /\ ppc + 1 \in H => ppc \in H /\ ppc < Len(Code)
  <2>1. StmtOK(ppc) /\ Len(Code) \in Nat /\ H \subseteq 1..Len(Code)
    BY <1>1 DEF TextOK
  <2>2. ppc + 1 \in H => ppc \in H
    BY <1>1, <2>1 DEF StmtOK
  <2>. QED  BY <1>1, <2>1, <2>2
<1>3. Shape' /\ ProcInv("C")' /\ ProcInv("G")' /\ GrandInv'
  BY <1>1 DEF BaseInv, Shape, ProcInv, GrandInv
<1>4. Counters' /\ ChildInv' /\ SemInv'
  BY <1>1, <1>2, TextStays DEF BaseInv, Counters, ChildInv, SemInv
<1>5. HeldInv'
  <2>1. ppc + 1 \in H => Held
    BY <1>1, <1>2 DEF BaseInv, HeldInv
  <2>2. Held' = Held
    BY <1>1 DEF Held
  <2>. QED  BY <1>1, <2>1, <2>2, TextStays DEF HeldInv
<1>. QED  BY <1>3, <1>4, <1>5 DEF BaseInv

\* What wait() does to the process it reports.
LEMMA ReapedFields ==
  ASSUME BaseInv, NEW p \in {"C", "G"}, proc' = Reaped(p)
  PROVE  /\ DOMAIN proc' = {"C", "G"} /\ DOMAIN proc'["C"] = Fields /\ DOMAIN proc'["G"] = Fields
         /\ ~proc'[p].event /\ proc'[p].st = IF proc[p].st = "dead" THEN "gone" ELSE proc[p].st
         /\ proc'[p].traced = proc[p].traced /\ proc'[p].status = proc[p].status /\ proc'[p].mode = proc[p].mode
         /\ proc'[p].pend = proc[p].pend
         /\ p = "C" => proc'["G"] = proc["G"]
         /\ p = "G" => proc'["C"] = proc["C"]
  BY DEF Reaped, BaseInv, Shape, Fields

\* The processes after wait() has reported one of them.
LEMMA ReapedBase ==
  ASSUME BaseInv, NEW p \in {"C", "G"}, proc[p].event, proc' = Reaped(p), ppc # 0, ppc' # 0,
         UNCHANGED <<test, cpc>>
  PROVE  /\ ProcInv("C")' /\ ProcInv("G")' /\ GrandInv' /\ ChildInv'
         /\ test # "t015" => p = "C"
<1>1. ProcInv("C") /\ ProcInv("G") /\ ChildInv /\ GrandInv
  BY DEF BaseInv
<1>2. test # "t015" => p = "C"
  BY <1>1 DEF GrandInv, NoProc
<1>3. ProcInv("C")' /\ ProcInv("G")' /\ GrandInv'
  BY <1>1, <1>2, ReapedFields DEF ProcInv, GrandInv
<1>4. ChildInv'
  BY <1>1, ReapedFields, TextStays DEF ChildInv, ProcInv
<1>. QED  BY <1>2, <1>3, <1>4

\* wait() in parent_func() keeps the invariant: where it succeeds, it has the child in its hand.
LEMMA PWaitBase ==
  ASSUME TextOK, BaseInv, PWait
  PROVE  BaseInv'
<1>1. /\ verdict = "none" /\ ppc \in 1..Len(Code) /\ Code[ppc].op = "wait"
      /\ UNCHANGED <<test, fault, reg, pinfo, verdict, cpc, mem, info, sem>>
  BY DEF PWait, At
<1>2. Move
  BY <1>1 DEF PWait, Move
<1>3. SemInv'
  BY <1>1, <1>2, SemStays
<1>4. /\ ret \in {"ok", "fail"} /\ Len(Code) \in Nat /\ H \subseteq 1..Len(Code) /\ ppc < Len(Code)
      /\ Code[ppc].fail = "out" \/ (Code[ppc].fail = "contret" /\ test = "t021")
  <2>1. StmtOK(ppc)
    BY <1>1 DEF TextOK
  <2>. QED  BY <1>1, <2>1 DEF BaseInv, Counters, TextOK, StmtOK
<1>5. ppc' \in 2..(Len(Code) + 1) /\ ret' \in {ret, "fail"}
  BY <1>1, <1>2, <1>4, MoveTo
<1>6. Counters'
  BY <1>1, <1>4, <1>5, TextStays DEF BaseInv, Counters
<1>7. ASSUME Jump(Code[ppc].fail)
      PROVE  ppc' \in H => test = "t021" /\ ppc' = Len(Code) /\ ret' = "fail"
  <2>1. PICK f : f = Code[ppc].fail /\ Jump(f)
    BY <1>7
  <2>2. Len(Code) + 1 \notin H
    BY <1>4
  <2>. QED  BY ONLY <1>4, <2>1, <2>2, JumpTo
<1>8. CASE NoChildren /\ Jump(Code[ppc].fail) /\ UNCHANGED <<proc, last>>
  <2>1. Shape' /\ ProcInv("C")' /\ ProcInv("G")' /\ GrandInv'
    BY <1>1, <1>8 DEF BaseInv, Shape, ProcInv, GrandInv
  <2>2. ChildInv'
    BY <1>1, <1>5, <1>8, TextStays DEF BaseInv, ChildInv
  <2>3. proc["C"].st = "gone"
    BY <1>1, <1>8 DEF NoChildren, BaseInv, ChildInv
  <2>4. HeldInv'
    BY <1>1, <1>7, <1>8, <2>3, TextStays DEF HeldInv
  <2>. QED  BY <1>3, <1>6, <2>1, <2>2, <2>4 DEF BaseInv
<1>9. ASSUME NEW p \in Waitable(Code[ppc].who), proc' = Reaped(p),
             IF p = "C" /\ proc[p].status.kind = "stop" THEN Advance ELSE Jump(Code[ppc].fail)
      PROVE  BaseInv'
  <2>1. p \in {"C", "G"} /\ proc[p].event
    BY <1>9 DEF Waitable
  <2>2. ProcInv("C")' /\ ProcInv("G")' /\ GrandInv' /\ ChildInv' /\ (test # "t015" => p = "C")
    BY <1>1, <1>5, <1>9, <2>1, ReapedBase
  <2>3. Shape'
    BY <1>1, <1>9, <2>1, ReapedFields DEF BaseInv, Shape
  <2>4. HeldInv'
    <3>1. CASE p = "C" /\ proc[p].status.kind = "stop"
      <4>1. proc["C"].st = "stop" /\ proc["C"].traced
        BY <2>1, <3>1 DEF BaseInv, ChildInv, ProcInv
      <4>2. Held'
        BY <1>9, <2>1, <3>1, <4>1, ReapedFields DEF Held
      <4>. QED  BY <4>2 DEF HeldInv
    <3>2. CASE ~(p = "C" /\ proc[p].status.kind = "stop")
      <4>1. ppc' \in H => test = "t021" /\ ppc' = Len(Code) /\ ret' = "fail"
        BY <1>7, <1>9, <3>2
      <4>2. test = "t021" => proc'["C"].st \in {"dead", "gone"}
        <5>1. ASSUME test = "t021" PROVE p = "C" /\ proc["C"].st = "dead"
          BY <2>1, <2>2, <3>2, <5>1 DEF BaseInv, ChildInv, ProcInv
        <5>. QED  BY <1>9, <2>1, <5>1, ReapedFields
      <4>. QED  BY <1>1, <4>1, <4>2, TextStays DEF HeldInv
    <3>. QED  BY <3>1, <3>2
  <2>. QED  BY <1>3, <1>6, <2>2, <2>3, <2>4 DEF BaseInv
<1>. QED  BY <1>1, <1>8, <1>9 DEF PWait

\* What a resuming request makes of a held child.
LEMMA ResumedFields ==
  ASSUME BaseInv, PResume, TextOK, Held, Accepted(Code[ppc].req)
  PROVE  /\ DOMAIN proc' = {"C", "G"} /\ DOMAIN proc'["C"] = Fields /\ proc'["G"] = proc["G"]
         /\ \/ proc'["C"] = proc["C"] /\ Code[ppc].req \in {"CONT", "KILL"} /\ ~Works(Code[ppc].req)
            \/ /\ Code[ppc].req = "KILL" /\ Works("KILL")
               /\ proc'["C"].st = "dead" /\ proc'["C"].event /\ proc'["C"].status = [kind |-> "sig", val |-> "KILL"]
               /\ proc'["C"].traced /\ proc'["C"].mode = proc["C"].mode /\ ~proc'["C"].pend
            \/ /\ Code[ppc].req \in {"CONT", "SYSCALL", "SINGLESTEP", "DETACH"}
               /\ proc'["C"].st = "run" /\ ~proc'["C"].event /\ proc'["C"].status = proc["C"].status
               /\ proc'["C"].pend = proc["C"].pend
               /\ Code[ppc].req # "DETACH" => proc'["C"].traced
               /\ proc'["C"].mode \in {"CONT", "SYSCALL", "SINGLESTEP"}
               /\ proc'["C"].mode # "CONT" => Code[ppc].req = proc'["C"].mode /\ Works(Code[ppc].req)
<1>1. Code[ppc].req \in {"KILL", "CONT", "DETACH", "SYSCALL", "SINGLESTEP"}
  <2>1. StmtOK(ppc) /\ Code[ppc].op = "resume"
    BY DEF PResume, At, TextOK
  <2>. QED  BY <2>1 DEF StmtOK
<1>2. DOMAIN proc = {"C", "G"} /\ DOMAIN proc["C"] = Fields
  BY DEF BaseInv, Shape
<1>3. proc["C"].st = "stop" /\ proc["C"].traced /\ ~proc["C"].event
  BY DEF Held
<1>4. CASE Code[ppc].req = "KILL" /\ Works("KILL")
  <2>1. proc' = [proc EXCEPT !["C"] = Ended("C", "sig", "KILL")]
    BY <1>4 DEF PResume
  <2>. QED  BY ONLY <1>2, <1>3, <1>4, <2>1 DEF Ended, Fields
<1>5. CASE Code[ppc].req \in {"CONT", "KILL"} /\ ~Works(Code[ppc].req)
  <2>1. proc' = [proc EXCEPT !["C"] = proc["C"]]
    BY <1>5 DEF PResume
  <2>. QED  BY ONLY <1>2, <1>5, <2>1
<1>6. CASE Code[ppc].req = "CONT" /\ Works(Code[ppc].req)
  <2>1. proc' = [proc EXCEPT !["C"] = [proc["C"] EXCEPT !.st = "run", !.mode = "CONT"]]
    BY <1>6 DEF PResume
  <2>. QED  BY ONLY <1>2, <1>3, <1>6, <2>1 DEF Fields
<1>7. CASE Code[ppc].req = "DETACH"
  <2>1. proc' = [proc EXCEPT !["C"] = [proc["C"] EXCEPT !.st = "run", !.mode = "CONT", !.traced = ~Works("DETACH")]]
    BY <1>7 DEF PResume
  <2>. QED  BY ONLY <1>2, <1>3, <1>7, <2>1 DEF Fields
<1>8. CASE Code[ppc].req \in {"SYSCALL", "SINGLESTEP"}
  <2>1. proc' = [proc EXCEPT !["C"] = [proc["C"] EXCEPT !.st = "run",
                                        !.mode = IF Works(Code[ppc].req) THEN Code[ppc].req ELSE "CONT"]]
    BY <1>8 DEF PResume
  <2>. QED  BY ONLY <1>2, <1>3, <1>8, <2>1 DEF Fields
<1>. QED  BY ONLY <1>1, <1>4, <1>5, <1>6, <1>7, <1>8

\* A resuming request keeps the invariant: P has let the child go, or still holds it.
LEMMA PResumeBase ==
  ASSUME TextOK, BaseInv, PResume
  PROVE  BaseInv'
<1>1. /\ verdict = "none" /\ ppc \in 1..Len(Code) /\ Code[ppc].op = "resume"
      /\ UNCHANGED <<test, fault, reg, pinfo, last, verdict, cpc, mem, info, sem>>
  BY DEF PResume, At
<1>2. Move
  BY <1>1 DEF PResume, Move
<1>3. SemInv'
  BY <1>1, <1>2, SemStays
<1>4. ret \in {"ok", "fail"} /\ Len(Code) \in Nat /\ H \subseteq 1..Len(Code) /\ StmtOK(ppc)
  BY <1>1 DEF BaseInv, Counters, TextOK
<1>5. ppc' \in 2..(Len(Code) + 1) /\ ret' \in {ret, "fail"}
  BY <1>1, <1>2, <1>4, MoveTo
<1>6. Counters'
  BY <1>1, <1>4, <1>5, TextStays DEF BaseInv, Counters
<1>7. ppc + 1 \notin H /\ Len(Code) + 1 \notin H
  <2>1. ppc + 1 \notin H
    BY <1>1, <1>4 DEF StmtOK
  <2>. QED  BY <1>4, <2>1
<1>8. CASE ~Accepted(Code[ppc].req)
  <2>1. proc' = proc /\ Jump(Code[ppc].fail)
    BY <1>8 DEF PResume
  <2>2. Shape' /\ ProcInv("C")' /\ ProcInv("G")' /\ GrandInv'
    BY <1>1, <2>1 DEF BaseInv, Shape, ProcInv, GrandInv
  <2>3. ChildInv'
    BY <1>1, <1>5, <2>1, TextStays DEF BaseInv, ChildInv
  <2>4. ppc' \in H => ppc \in H /\ ppc < Len(Code)
    <3>1. PICK f : f = Code[ppc].fail /\ Jump(f)
      BY <2>1
    <3>2. /\ f \in {"next", "ret", "cont", "contret", "out", "outret"}
          /\ f \in {"cont", "contret"} => ppc \in H /\ ppc < Len(Code)
      BY <1>1, <1>4, <3>1 DEF StmtOK
    <3>. QED  BY ONLY <1>7, <3>1, <3>2, JumpTo
  <2>5. HeldInv'
    <3>1. ppc' \in H => Held
      BY <1>1, <1>4, <2>4 DEF BaseInv, HeldInv
    <3>2. Held' = Held
      BY <2>1 DEF Held
    <3>. QED  BY <1>1, <3>1, <3>2, TextStays DEF HeldInv
  <2>. QED  BY <1>3, <1>6, <2>2, <2>3, <2>5 DEF BaseInv
<1>9. CASE Accepted(Code[ppc].req)
  <2>1. Held /\ test # "t000"
    <3>1. proc["C"].st = "stop" /\ proc["C"].traced
      BY <1>9 DEF Accepted
    <3>2. test # "t000"
      BY <3>1 DEF BaseInv, ChildInv
    <3>3. ppc \in H
      BY <1>1, <1>4, <3>2 DEF StmtOK, Requests
    <3>. QED  BY <1>1, <3>1, <3>2, <3>3 DEF BaseInv, HeldInv
  <2>2. /\ DOMAIN proc' = {"C", "G"} /\ DOMAIN proc'["C"] = Fields /\ proc'["G"] = proc["G"]
        /\ \/ proc'["C"] = proc["C"]
           \/ /\ proc'["C"].st = "dead" /\ proc'["C"].event /\ proc'["C"].status = [kind |-> "sig", val |-> "KILL"]
              /\ proc'["C"].traced /\ proc'["C"].mode = proc["C"].mode
           \/ /\ proc'["C"].st = "run" /\ ~proc'["C"].event /\ proc'["C"].status = proc["C"].status
              /\ Code[ppc].req # "DETACH" => proc'["C"].traced
              /\ proc'["C"].mode \in {"CONT", "SYSCALL", "SINGLESTEP"}
    BY <1>9, <2>1, ResumedFields
  <2>3. Advance
    BY <1>9 DEF PResume
  <2>4. Shape' /\ ProcInv("C")' /\ ProcInv("G")' /\ GrandInv'
    BY <1>1, <2>2 DEF BaseInv, Shape, ProcInv, GrandInv
  <2>5. ChildInv'
    <3>1. cpc > TraceAt[test] /\ proc["C"].st = "stop" /\ proc["C"].status.kind \notin {"exit", "sig"}
      <4>1. cpc \in Nat /\ TraceAt[test] \in Nat
        BY DEF BaseInv, Counters, TextOK
      <4>. QED  BY <2>1, <4>1 DEF BaseInv, ChildInv, Held
    <3>2. TraceAt[test] \in Nat /\ cpc \in Nat /\ ppc' # 0
      BY <1>5 DEF BaseInv, Counters, TextOK
    <3>3. TraceAt[test]' = TraceAt[test] /\ cpc' = cpc /\ test' = test
      BY <1>1, TextStays
    <3>4. ~(cpc <= TraceAt[test])
      BY ONLY <3>1, <3>2
    <3>6. CASE proc'["C"] = proc["C"]
      BY ONLY <2>1, <3>1, <3>2, <3>3, <3>4, <3>6 DEF ChildInv, Held
    <3>7. CASE proc'["C"].st = "dead" /\ proc'["C"].status = [kind |-> "sig", val |-> "KILL"]
      BY ONLY <2>1, <3>2, <3>3, <3>4, <3>7 DEF ChildInv
    <3>8. CASE proc'["C"].st = "run" /\ ~proc'["C"].event /\ proc'["C"].status = proc["C"].status
      BY ONLY <2>1, <3>1, <3>2, <3>3, <3>4, <3>8 DEF ChildInv
    <3>. QED  BY ONLY <2>2, <3>6, <3>7, <3>8
  <2>6. HeldInv'
    BY <1>1, <1>7, <2>3, TextStays DEF HeldInv, Advance
  <2>. QED  BY <1>3, <1>6, <2>4, <2>5, <2>6 DEF BaseInv
<1>. QED  BY <1>8, <1>9

\* PTRACE_ATTACH keeps the invariant.
LEMMA PAttachBase ==
  ASSUME TextOK, BaseInv, PAttach
  PROVE  BaseInv'
<1>1. /\ verdict = "none" /\ ppc \in 1..Len(Code) /\ Code[ppc].op = "attach"
      /\ UNCHANGED <<test, fault, reg, pinfo, last, verdict, cpc, mem, info, sem>>
  BY DEF PAttach, At
<1>2. Move
  BY <1>1 DEF PAttach, Move
<1>3. SemInv'
  BY <1>1, <1>2, SemStays
<1>4. ret \in {"ok", "fail"} /\ Len(Code) \in Nat /\ H \subseteq 1..Len(Code) /\ StmtOK(ppc)
  BY <1>1 DEF BaseInv, Counters, TextOK
<1>5. ppc' \in 2..(Len(Code) + 1) /\ ret' \in {ret, "fail"}
  BY <1>1, <1>2, <1>4, MoveTo
<1>6. Counters'
  BY <1>1, <1>4, <1>5, TextStays DEF BaseInv, Counters
<1>7. ppc + 1 \notin H /\ Len(Code) + 1 \notin H /\ Code[ppc].fail = "out" /\ test \in {"t019", "t020"}
  <2>1. ppc + 1 \notin H /\ Code[ppc].fail = "out" /\ test \in {"t019", "t020"}
    BY <1>1, <1>4 DEF StmtOK
  <2>. QED  BY <1>4, <2>1
<1>8. HeldInv'
  <2>1. ppc' \in {ppc + 1, Len(Code) + 1}
    <3>1. CASE Advance
      BY <3>1 DEF Advance
    <3>2. CASE Jump("out")
      BY <3>2, JumpTo
    <3>. QED  BY <1>7, <3>1, <3>2 DEF PAttach
  <2>. QED  BY <1>1, <1>7, <2>1, TextStays DEF HeldInv
<1>9. \/ proc' = proc
      \/ /\ proc' = [proc EXCEPT !["C"].traced = TRUE, !["C"].pend = TRUE]
         /\ proc["C"].st \notin {"dead", "gone"} /\ ~proc["C"].traced
  BY DEF PAttach, Dead
<1>10. CASE proc' = proc
  <2>1. Shape' /\ ProcInv("C")' /\ ProcInv("G")' /\ GrandInv'
    BY <1>1, <1>10 DEF BaseInv, Shape, ProcInv, GrandInv
  <2>2. ChildInv'
    BY <1>1, <1>5, <1>10, TextStays DEF BaseInv, ChildInv
  <2>. QED  BY <1>3, <1>6, <1>8, <2>1, <2>2 DEF BaseInv
<1>11. CASE /\ proc' = [proc EXCEPT !["C"].traced = TRUE, !["C"].pend = TRUE]
            /\ proc["C"].st \notin {"dead", "gone"} /\ ~proc["C"].traced
  <2>1. /\ DOMAIN proc' = {"C", "G"} /\ DOMAIN proc'["C"] = Fields /\ proc'["G"] = proc["G"]
        /\ proc'["C"].st = proc["C"].st /\ proc'["C"].event = proc["C"].event
        /\ proc'["C"].mode = proc["C"].mode /\ proc'["C"].status = proc["C"].status
    BY <1>11 DEF BaseInv, Shape, Fields
  <2>2. Shape' /\ ProcInv("C")' /\ ProcInv("G")' /\ GrandInv'
    BY <1>1, <2>1 DEF BaseInv, Shape, ProcInv, GrandInv
  <2>3. ~proc["C"].event
    BY <1>11 DEF BaseInv, ChildInv, ProcInv
  <2>4. cpc > TraceAt[test] /\ cpc \in Nat /\ TraceAt[test] = 0
    BY <1>7 DEF TextOK, BaseInv, Counters
  <2>5. ChildInv'
    BY <1>1, <1>5, <1>7, <1>11, <2>1, <2>3, <2>4, TextStays DEF BaseInv, ChildInv
  <2>. QED  BY <1>3, <1>6, <1>8, <2>2, <2>5 DEF BaseInv
<1>. QED  BY <1>9, <1>10, <1>11

\* kill() keeps the invariant.
LEMMA PKillBase ==
  ASSUME TextOK, BaseInv, PKill
  PROVE  BaseInv'
<1>1. /\ verdict = "none" /\ ppc \in 1..Len(Code) /\ Code[ppc].op = "kill"
      /\ UNCHANGED <<test, fault, reg, pinfo, last, verdict, cpc, mem, info, sem>>
  BY DEF PKill, At
<1>2. Move
  BY <1>1 DEF PKill, Move
<1>3. SemInv'
  BY <1>1, <1>2, SemStays
<1>4. ret \in {"ok", "fail"} /\ Len(Code) \in Nat /\ H \subseteq 1..Len(Code) /\ StmtOK(ppc)
  BY <1>1 DEF BaseInv, Counters, TextOK
<1>5. ppc' \in 2..(Len(Code) + 1) /\ ret' \in {ret, "fail"}
  BY <1>1, <1>2, <1>4, MoveTo
<1>6. Counters'
  BY <1>1, <1>4, <1>5, TextStays DEF BaseInv, Counters
<1>7. CASE proc' = proc
  <2>1. Shape'
    BY <1>1, <1>7 DEF BaseInv, Shape
  <2>. QED  BY <1>1, <1>2, <1>3, <1>7, <2>1, QuietStep
<1>8. CASE proc' # proc /\ Code[ppc].who = "C"
  <2>1. Code[ppc].sig = "STOP" /\ ppc + 1 \notin H /\ Code[ppc].fail = "out"
    BY <1>1, <1>4, <1>8 DEF StmtOK
  <2>2. proc' = [proc EXCEPT !["C"] = CASE Dead(proc["C"].st) -> proc["C"]
                 [] "STOP" = "KILL" -> Ended("C", "sig", "KILL")
                 [] "STOP" = "STOP" -> [proc["C"] EXCEPT !.pend = TRUE]]
    BY <1>8, <2>1 DEF PKill
  <2>3. \/ proc' = [proc EXCEPT !["C"] = proc["C"]]
        \/ proc' = [proc EXCEPT !["C"] = [proc["C"] EXCEPT !.pend = TRUE]]
    BY ONLY <2>2
  <2>4. /\ DOMAIN proc' = {"C", "G"} /\ DOMAIN proc'["C"] = Fields /\ proc'["G"] = proc["G"]
        /\ proc'["C"].st = proc["C"].st /\ proc'["C"].event = proc["C"].event /\ proc'["C"].traced = proc["C"].traced
        /\ proc'["C"].mode = proc["C"].mode /\ proc'["C"].status = proc["C"].status
    BY <2>3 DEF BaseInv, Shape, Fields
  <2>5. Shape' /\ ProcInv("C")' /\ ProcInv("G")' /\ GrandInv'
    BY <1>1, <2>4 DEF BaseInv, Shape, ProcInv, GrandInv
  <2>6. ChildInv'
    BY <1>1, <1>5, <2>4, TextStays DEF BaseInv, ChildInv
  <2>7. HeldInv'
    <3>1. Len(Code) + 1 \notin H
      BY <1>4
    <3>2. Advance
      BY <1>8 DEF PKill
    <3>. QED  BY <1>1, <2>1, <3>2, TextStays DEF HeldInv, Advance
  <2>. QED  BY <1>3, <1>6, <2>5, <2>6, <2>7 DEF BaseInv
<1>9. CASE proc' # proc /\ Code[ppc].who = "G"
  <2>1. Code[ppc].sig = "KILL" /\ test = "t015"
    BY <1>1, <1>4, <1>9 DEF StmtOK
  <2>2. proc' = [proc EXCEPT !["G"] = CASE Dead(proc["G"].st) -> proc["G"]
                 [] "KILL" = "KILL" -> Ended("G", "sig", "KILL")
                 [] "KILL" = "STOP" -> [proc["G"] EXCEPT !.pend = TRUE]]
    BY <1>9, <2>1 DEF PKill
  <2>3. \/ proc' = [proc EXCEPT !["G"] = proc["G"]]
        \/ proc' = [proc EXCEPT !["G"] = Ended("G", "sig", "KILL")]
    BY ONLY <2>2
  <2>4. /\ DOMAIN proc' = {"C", "G"} /\ DOMAIN proc'["G"] = Fields /\ proc'["C"] = proc["C"]
        /\ proc'["G"].mode = proc["G"].mode
        /\ \/ proc'["G"].st = proc["G"].st /\ proc'["G"].event = proc["G"].event
           \/ proc'["G"].st = "dead"
    <3>1. DOMAIN proc = {"C", "G"} /\ DOMAIN proc["G"] = Fields
      BY DEF BaseInv, Shape
    <3>2. CASE proc' = [proc EXCEPT !["G"] = proc["G"]]
      BY ONLY <3>1, <3>2
    <3>3. CASE proc' = [proc EXCEPT !["G"] = Ended("G", "sig", "KILL")]
      <4>1. DOMAIN proc' = {"C", "G"} /\ proc'["C"] = proc["C"] /\ proc'["G"] = Ended("G", "sig", "KILL")
        BY ONLY <3>1, <3>3
      <4>. QED  BY ONLY <3>1, <4>1 DEF Ended, Fields
    <3>. QED  BY <2>3, <3>2, <3>3
  <2>5. Shape' /\ ProcInv("C")' /\ ProcInv("G")' /\ GrandInv'
    BY <1>1, <2>1, <2>4 DEF BaseInv, Shape, ProcInv, GrandInv
  <2>6. ChildInv'
    BY <1>1, <1>5, <2>4, TextStays DEF BaseInv, ChildInv
  <2>7. HeldInv'
    <3>1. ppc' = ppc + 1
      BY <1>9 DEF PKill, Advance
    <3>2. ppc + 1 \in H => ppc \in H /\ ppc < Len(Code)
      <4>1. ppc + 1 \in H => ppc \in H
        BY <1>1, <1>4 DEF StmtOK
      <4>. QED  BY <1>1, <1>4, <4>1
    <3>3. ppc' \in H => Held
      BY <1>1, <1>4, <3>1, <3>2 DEF BaseInv, HeldInv
    <3>4. Held' = Held
      BY <2>4 DEF Held
    <3>. QED  BY <1>1, <3>3, <3>4, TextStays DEF HeldInv
  <2>. QED  BY <1>3, <1>6, <2>5, <2>6, <2>7 DEF BaseInv
<1>. QED  BY <1>1, <1>4, <1>7, <1>8, <1>9 DEF StmtOK

\* fork() keeps the invariant.
LEMMA PStartBase ==
  ASSUME TextOK, BaseInv, PStart
  PROVE  BaseInv'
<1>1. /\ ppc = 0 /\ verdict = "none" /\ Len(Code) \in Nat
      /\ UNCHANGED <<test, fault, ret, reg, pinfo, last, cpc, mem, info, sem>>
  BY DEF PStart, TextOK
<1>2. \/ ppc' = 1 /\ proc' = [proc EXCEPT !["C"].st = "run"] /\ verdict' = "none"
      \/ ppc' = 0 /\ proc' = proc /\ verdict' = "fail"
  BY <1>1 DEF PStart
<1>3. proc["C"].st = "none" /\ ~proc["C"].event
  BY <1>1 DEF BaseInv, ChildInv, ProcInv
<1>4. /\ DOMAIN proc' = {"C", "G"} /\ DOMAIN proc'["C"] = Fields /\ proc'["G"] = proc["G"]
      /\ proc'["C"].event = proc["C"].event /\ proc'["C"].traced = proc["C"].traced
      /\ proc'["C"].mode = proc["C"].mode /\ proc'["C"].status = proc["C"].status
      /\ proc'["C"].st = IF ppc' = 1 THEN "run" ELSE "none"
  BY <1>2, <1>3 DEF BaseInv, Shape, Fields
<1>5. Shape' /\ ProcInv("C")' /\ ProcInv("G")' /\ GrandInv'
  BY <1>1, <1>3, <1>4 DEF BaseInv, Shape, ProcInv, GrandInv
<1>6. Counters'
  BY <1>1, <1>2, TextStays DEF BaseInv, Counters
<1>7. ChildInv'
  BY <1>1, <1>2, <1>3, <1>4, TextStays DEF BaseInv, ChildInv
<1>8. SemInv'
  BY <1>1, <1>2, TextStays DEF BaseInv, SemInv
<1>9. HeldInv'
  <2>1. 0 \notin H /\ 1 \notin H
    BY DEF TextOK
  <2>. QED  BY <1>1, <1>2, <2>1, TextStays DEF HeldInv
<1>. QED  BY <1>5, <1>6, <1>7, <1>8, <1>9 DEF BaseInv

\* The end of RUN_FUNC() keeps the invariant.
LEMMA PVerdictBase ==
  ASSUME TextOK, BaseInv, PVerdict
  PROVE  BaseInv'
<1>1. /\ verdict = "none" /\ ppc > Len(Code) /\ verdict' \in {"ok", "fail"} /\ Len(Code) \in Nat /\ ppc \in Nat
      /\ UNCHANGED <<test, fault, ppc, ret, reg, pinfo, cpc, mem, info, sem>>
  BY DEF PVerdict, TextOK, BaseInv, Counters
<1>2. Counters' /\ SemInv' /\ HeldInv'
  BY <1>1, TextStays DEF BaseInv, Counters, SemInv, HeldInv
<1>3. CASE proc' = proc
  <2>1. Shape' /\ ProcInv("C")' /\ ProcInv("G")' /\ GrandInv' /\ ChildInv'
    BY <1>1, <1>3, TextStays DEF BaseInv, Shape, ProcInv, GrandInv, ChildInv
  <2>. QED  BY <1>2, <2>1 DEF BaseInv
<1>4. ASSUME NEW p \in Waitable("any"), proc' = Reaped(p)
      PROVE  BaseInv'
  <2>1. p \in {"C", "G"} /\ proc[p].event
    BY <1>4 DEF Waitable
  <2>2. ProcInv("C")' /\ ProcInv("G")' /\ GrandInv' /\ ChildInv'
    BY <1>1, <1>4, <2>1, ReapedBase
  <2>3. Shape'
    BY <1>1, <1>4, <2>1, ReapedFields DEF BaseInv, Shape
  <2>. QED  BY <1>2, <2>2, <2>3 DEF BaseInv
<1>. QED  BY <1>3, <1>4 DEF PVerdict

\* The record of a process that stops.
LEMMA StoppedFields ==
  ASSUME BaseInv, NEW p \in {"C", "G"}, NEW sig, proc' = [proc EXCEPT ![p] = Stopped(p, sig)]
  PROVE  /\ DOMAIN proc' = {"C", "G"} /\ DOMAIN proc'["C"] = Fields /\ DOMAIN proc'["G"] = Fields
         /\ proc'[p].st = "stop" /\ proc'[p].status = [kind |-> "stop", val |-> sig] /\ ~proc'[p].pend
         /\ proc'[p].traced = proc[p].traced /\ proc'[p].mode = proc[p].mode
         /\ proc'[p].event = (proc[p].event \/ proc[p].traced)
         /\ p = "C" => proc'["G"] = proc["G"]
         /\ p = "G" => proc'["C"] = proc["C"]
  BY DEF BaseInv, Shape, Fields, Stopped

\* The record of a process that ends.
LEMMA EndedFields ==
  ASSUME BaseInv, NEW p \in {"C", "G"}, NEW kind, NEW val, proc' = [proc EXCEPT ![p] = Ended(p, kind, val)]
  PROVE  /\ DOMAIN proc' = {"C", "G"} /\ DOMAIN proc'["C"] = Fields /\ DOMAIN proc'["G"] = Fields
         /\ proc'[p].st = "dead" /\ proc'[p].status = [kind |-> kind, val |-> val] /\ ~proc'[p].pend
         /\ proc'[p].traced = proc[p].traced /\ proc'[p].mode = proc[p].mode
         /\ proc'[p].event = (p = "C" \/ proc[p].traced)
         /\ p = "C" => proc'["G"] = proc["G"]
         /\ p = "G" => proc'["C"] = proc["C"]
  BY DEF BaseInv, Shape, Fields, Ended

\* How a step of the child may change it: not at all, to a stop, to its end.
Goes ==
  \/ proc'["C"] = proc["C"]
  \/ /\ proc'["C"].st = "stop" /\ proc'["C"].status.kind = "stop"
     /\ proc'["C"].event = (proc["C"].event \/ proc["C"].traced)
     /\ proc'["C"].traced = proc["C"].traced /\ proc'["C"].mode = proc["C"].mode
  \/ /\ proc'["C"].st = "dead" /\ proc'["C"].status.kind \in {"exit", "sig"}
     /\ proc'["C"].traced = proc["C"].traced /\ proc'["C"].mode = proc["C"].mode

\* A stop goes that way.
LEMMA StopGoes ==
  ASSUME BaseInv, NEW sig, proc' = [proc EXCEPT !["C"] = Stopped("C", sig)]
  PROVE  DOMAIN proc' = {"C", "G"} /\ DOMAIN proc'["C"] = Fields /\ proc'["G"] = proc["G"] /\ Goes
<1>1. PICK p \in {"C", "G"} : p = "C" /\ proc' = [proc EXCEPT ![p] = Stopped(p, sig)]
  OBVIOUS
<1>2. /\ DOMAIN proc' = {"C", "G"} /\ DOMAIN proc'["C"] = Fields
      /\ proc'[p].st = "stop" /\ proc'[p].status = [kind |-> "stop", val |-> sig]
      /\ proc'[p].traced = proc[p].traced /\ proc'[p].mode = proc[p].mode
      /\ proc'[p].event = (proc[p].event \/ proc[p].traced)
      /\ p = "C" => proc'["G"] = proc["G"]
  BY <1>1, StoppedFields
<1>. QED  BY ONLY <1>1, <1>2 DEF Goes

\* So does an end.
LEMMA EndGoes ==
  ASSUME BaseInv, NEW kind \in {"exit", "sig"}, NEW val, proc' = [proc EXCEPT !["C"] = Ended("C", kind, val)]
  PROVE  DOMAIN proc' = {"C", "G"} /\ DOMAIN proc'["C"] = Fields /\ proc'["G"] = proc["G"] /\ Goes
<1>1. DOMAIN proc = {"C", "G"} /\ DOMAIN proc["C"] = Fields
  BY DEF BaseInv, Shape
<1>2. /\ DOMAIN proc' = {"C", "G"} /\ DOMAIN proc'["C"] = Fields
      /\ proc'["C"].st = "dead" /\ proc'["C"].status = [kind |-> kind, val |-> val]
      /\ proc'["C"].traced = proc["C"].traced /\ proc'["C"].mode = proc["C"].mode
      /\ proc'["G"] = proc["G"]
  BY <1>1 DEF Ended, Fields
<1>. QED  BY ONLY <1>2, kind \in {"exit", "sig"} DEF Goes

\* A child that runs is not held.
LEMMA RunsFree ==
  ASSUME TextOK, BaseInv, proc["C"].st = "run", UNCHANGED <<test, ppc, verdict>>
  PROVE  HeldInv' /\ ppc # 0 /\ ~proc["C"].event /\ proc["C"].status.kind \notin {"exit", "sig"}
<1>1. ~(verdict = "none" /\ ppc \in H)
  BY DEF BaseInv, HeldInv, Held
<1>2. HeldInv'
  BY <1>1, TextStays DEF HeldInv
<1>3. ppc # 0 /\ ~proc["C"].event /\ proc["C"].status.kind \notin {"exit", "sig"}
  BY DEF BaseInv, ChildInv, ProcInv
<1>. QED  BY <1>2, <1>3

\* A step of the child keeps the invariant.
LEMMA ChildStep ==
  ASSUME TextOK, BaseInv, proc["C"].st = "run", UNCHANGED <<test, ppc, ret, reg, pinfo, verdict>>,
         cpc' \in {cpc, cpc + 1}, cpc' <= Len(CCode) + 1,
         DOMAIN proc' = {"C", "G"}, DOMAIN proc'["C"] = Fields, proc'["G"] = proc["G"], Goes,
         DOMAIN mem' = Cell, DOMAIN sem' = {"pwait", "cwait", "pipe"}, SemInv'
  PROVE  BaseInv'
<1>1. HeldInv' /\ ppc # 0 /\ ~proc["C"].event /\ proc["C"].status.kind \notin {"exit", "sig"}
  BY RunsFree
<1>2. cpc \in Nat /\ cpc' \in Nat /\ cpc' >= cpc /\ cpc >= 1 /\ Len(CCode) \in Nat /\ TraceAt[test] \in Nat
  BY DEF BaseInv, Counters, TextOK
<1>3. Counters'
  BY <1>2, TextStays DEF BaseInv, Counters
<1>4. Shape' /\ ProcInv("G")' /\ GrandInv'
  BY DEF BaseInv, Shape, ProcInv, GrandInv
<1>5. ProcInv("C")'
  BY <1>1 DEF BaseInv, ProcInv, Goes
<1>6. ChildInv'
  <2>1. /\ cpc' <= TraceAt[test] => cpc <= TraceAt[test]
        /\ TraceAt[test]' = TraceAt[test] /\ ppc' = ppc /\ test' = test
    BY <1>2, TextStays
  <2>2. ChildInv
    BY DEF BaseInv
  <2>3. CASE proc'["C"] = proc["C"]
    BY ONLY <1>1, <2>1, <2>2, <2>3 DEF ChildInv
  <2>4. CASE /\ proc'["C"].st = "stop" /\ proc'["C"].status.kind = "stop"
             /\ proc'["C"].event = (proc["C"].event \/ proc["C"].traced)
             /\ proc'["C"].traced = proc["C"].traced
    BY ONLY <1>1, <2>1, <2>2, <2>4 DEF ChildInv
  <2>5. CASE /\ proc'["C"].st = "dead" /\ proc'["C"].status.kind \in {"exit", "sig"}
             /\ proc'["C"].traced = proc["C"].traced
    BY ONLY <1>1, <2>1, <2>2, <2>5 DEF ChildInv
  <2>. QED  BY ONLY <2>3, <2>4, <2>5, Goes DEF Goes
<1>. QED  BY <1>1, <1>3, <1>4, <1>5, <1>6 DEF BaseInv

\* The semaphores of a step of the child that posts none.
LEMMA ChildSems ==
  ASSUME TextOK, BaseInv, UNCHANGED <<test, ppc, sem>>, cpc' \in {cpc, cpc + 1}
  PROVE  SemInv' /\ DOMAIN sem' = {"pwait", "cwait", "pipe"}
<1>1. cpc \in Nat /\ PostAt[test] \in Nat
  BY DEF BaseInv, Counters, TextOK
<1>. QED  BY <1>1, TextStays DEF BaseInv, SemInv, Shape

\* An end of the child keeps the invariant.
LEMMA CExitBase ==
  ASSUME TextOK, BaseInv, proc["C"].st = "run", UNCHANGED <<test, ppc, ret, reg, pinfo, verdict, sem>>,
         NEW val, CExit(val)
  PROVE  BaseInv'
<1>1. proc' = [proc EXCEPT !["C"] = Ended("C", "exit", val)] /\ UNCHANGED <<cpc, mem>>
  BY DEF CExit
<1>2. DOMAIN proc' = {"C", "G"} /\ DOMAIN proc'["C"] = Fields /\ proc'["G"] = proc["G"] /\ Goes
  BY <1>1, EndGoes
<1>3. cpc' \in {cpc, cpc + 1} /\ cpc' <= Len(CCode) + 1 /\ DOMAIN mem' = Cell
  BY <1>1 DEF BaseInv, Counters, Shape, TextOK
<1>4. SemInv' /\ DOMAIN sem' = {"pwait", "cwait", "pipe"}
  BY <1>3, ChildSems
<1>. QED  BY <1>2, <1>3, <1>4, ChildStep

\* A store of the child keeps the invariant.
LEMMA CStoreBase ==
  ASSUME TextOK, BaseInv, CStore
  PROVE  BaseInv'
<1>1. /\ proc["C"].st = "run" /\ cpc \in 1..Len(CCode) /\ CCode[cpc].op \in {"store"}
      /\ UNCHANGED <<test, ppc, ret, reg, pinfo, verdict, sem>>
  BY DEF CStore, CAt, CUnchanged, parentVars
<1>2. DOMAIN proc = {"C", "G"} /\ DOMAIN proc["C"] = Fields /\ DOMAIN proc["G"] = Fields /\ DOMAIN mem = Cell /\ DOMAIN sem = {"pwait", "cwait", "pipe"}
      /\ Len(CCode) \in Nat
  BY DEF BaseInv, Shape, TextOK
<1>3. cpc' = cpc + 1 /\ proc' = proc /\ DOMAIN mem' = Cell
  BY <1>1, <1>2 DEF CStore
<1>4. SemInv' /\ DOMAIN sem' = {"pwait", "cwait", "pipe"}
  BY <1>1, <1>3, ChildSems
<1>. QED  BY <1>1, <1>2, <1>3, <1>4, ChildStep DEF Goes


\* A check of the child keeps the invariant.
LEMMA CCheckMemBase ==
  ASSUME TextOK, BaseInv, CCheckMem
  PROVE  BaseInv'
<1>1. /\ proc["C"].st = "run" /\ cpc \in 1..Len(CCode) /\ CCode[cpc].op \in {"ccheck", "cchecknot"}
      /\ UNCHANGED <<test, ppc, ret, reg, pinfo, verdict, sem>>
  BY DEF CCheckMem, CAt, CUnchanged, parentVars
<1>2. DOMAIN proc = {"C", "G"} /\ DOMAIN proc["C"] = Fields /\ DOMAIN proc["G"] = Fields /\ DOMAIN mem = Cell /\ DOMAIN sem = {"pwait", "cwait", "pipe"}
      /\ Len(CCode) \in Nat
  BY DEF BaseInv, Shape, TextOK
<1>3. CASE CExit("-1")
  BY <1>1, <1>3, CExitBase
<1>4. CASE cpc' = cpc + 1 /\ proc' = proc /\ mem' = mem
  <2>1. SemInv' /\ DOMAIN sem' = {"pwait", "cwait", "pipe"}
    BY <1>1, <1>4, ChildSems
  <2>. QED  BY <1>1, <1>2, <1>4, <2>1, ChildStep DEF Goes
<1>. QED  BY <1>3, <1>4 DEF CCheckMem


\* A call of the child keeps the invariant.
LEMMA CCallBase ==
  ASSUME TextOK, BaseInv, CCall
  PROVE  BaseInv'
<1>1. /\ proc["C"].st = "run" /\ cpc \in 1..Len(CCode) /\ CCode[cpc].op \in {"call"}
      /\ UNCHANGED <<test, ppc, ret, reg, pinfo, verdict, sem>>
  BY DEF CCall, CAt, CUnchanged, parentVars
<1>2. DOMAIN proc = {"C", "G"} /\ DOMAIN proc["C"] = Fields /\ DOMAIN proc["G"] = Fields /\ DOMAIN mem = Cell /\ DOMAIN sem = {"pwait", "cwait", "pipe"}
      /\ Len(CCode) \in Nat
  BY DEF BaseInv, Shape, TextOK
<1>3. CASE CExit("-1")
  BY <1>1, <1>3, CExitBase
<1>4. CASE cpc' = cpc + 1 /\ proc' = proc /\ mem' = mem
  <2>1. SemInv' /\ DOMAIN sem' = {"pwait", "cwait", "pipe"}
    BY <1>1, <1>4, ChildSems
  <2>. QED  BY <1>1, <1>2, <1>4, <2>1, ChildStep DEF Goes
<1>. QED  BY <1>3, <1>4 DEF CCall


\* A system call that a tracer may follow keeps the invariant.
LEMMA CSyscallBase ==
  ASSUME TextOK, BaseInv, CSyscall
  PROVE  BaseInv'
<1>1. /\ proc["C"].st = "run" /\ cpc \in 1..Len(CCode) /\ CCode[cpc].op \in {"syscall"}
      /\ UNCHANGED <<test, ppc, ret, reg, pinfo, verdict, sem>>
  BY DEF CSyscall, CAt, CUnchanged, parentVars
<1>2. DOMAIN proc = {"C", "G"} /\ DOMAIN proc["C"] = Fields /\ DOMAIN proc["G"] = Fields /\ DOMAIN mem = Cell /\ DOMAIN sem = {"pwait", "cwait", "pipe"}
      /\ Len(CCode) \in Nat
  BY DEF BaseInv, Shape, TextOK
<1>3. cpc' = cpc + 1 /\ DOMAIN mem' = Cell
  BY <1>1, <1>2 DEF CSyscall
<1>4. SemInv' /\ DOMAIN sem' = {"pwait", "cwait", "pipe"}
  BY <1>1, <1>3, ChildSems
<1>5. DOMAIN proc' = {"C", "G"} /\ DOMAIN proc'["C"] = Fields /\ proc'["G"] = proc["G"] /\ Goes
  <2>1. CASE proc' = proc
    BY <1>2, <2>1 DEF Goes
  <2>2. CASE proc' = [proc EXCEPT !["C"] = Stopped("C", "TRAP")]
    BY <2>2, StopGoes
  <2>. QED  BY <2>1, <2>2 DEF CSyscall
<1>. QED  BY <1>1, <1>2, <1>3, <1>4, <1>5, ChildStep


\* The event of fork() keeps the invariant.
LEMMA CForkEventBase ==
  ASSUME TextOK, BaseInv, CForkEvent
  PROVE  BaseInv'
<1>1. /\ proc["C"].st = "run" /\ cpc \in 1..Len(CCode) /\ CCode[cpc].op \in {"forkevent"}
      /\ UNCHANGED <<test, ppc, ret, reg, pinfo, verdict, sem>>
  BY DEF CForkEvent, CAt, CUnchanged, parentVars
<1>2. DOMAIN proc = {"C", "G"} /\ DOMAIN proc["C"] = Fields /\ DOMAIN proc["G"] = Fields /\ DOMAIN mem = Cell /\ DOMAIN sem = {"pwait", "cwait", "pipe"}
      /\ Len(CCode) \in Nat
  BY DEF BaseInv, Shape, TextOK
<1>3. cpc' = cpc + 1 /\ DOMAIN mem' = Cell
  BY <1>1, <1>2 DEF CForkEvent
<1>4. SemInv' /\ DOMAIN sem' = {"pwait", "cwait", "pipe"}
  BY <1>1, <1>3, ChildSems
<1>5. DOMAIN proc' = {"C", "G"} /\ DOMAIN proc'["C"] = Fields /\ proc'["G"] = proc["G"] /\ Goes
  <2>1. CASE proc' = proc
    BY <1>2, <2>1 DEF Goes
  <2>2. CASE proc' = [proc EXCEPT !["C"] = Stopped("C", "TRAP")]
    BY <2>2, StopGoes
  <2>. QED  BY <2>1, <2>2 DEF CForkEvent
<1>. QED  BY <1>1, <1>2, <1>3, <1>4, <1>5, ChildStep


\* The store instruction under a watchpoint keeps the invariant.
LEMMA CStoreInsnBase ==
  ASSUME TextOK, BaseInv, CStoreInsn
  PROVE  BaseInv'
<1>1. /\ proc["C"].st = "run" /\ cpc \in 1..Len(CCode) /\ CCode[cpc].op \in {"storeinsn"}
      /\ UNCHANGED <<test, ppc, ret, reg, pinfo, verdict, sem>>
  BY DEF CStoreInsn, CAt, CUnchanged, parentVars
<1>2. DOMAIN proc = {"C", "G"} /\ DOMAIN proc["C"] = Fields /\ DOMAIN proc["G"] = Fields /\ DOMAIN mem = Cell /\ DOMAIN sem = {"pwait", "cwait", "pipe"}
      /\ Len(CCode) \in Nat
  BY DEF BaseInv, Shape, TextOK
<1>3. cpc' \in {cpc, cpc + 1} /\ DOMAIN mem' = Cell
  BY <1>1, <1>2 DEF CStoreInsn
<1>4. SemInv' /\ DOMAIN sem' = {"pwait", "cwait", "pipe"}
  BY <1>1, <1>3, ChildSems
<1>5. DOMAIN proc' = {"C", "G"} /\ DOMAIN proc'["C"] = Fields /\ proc'["G"] = proc["G"] /\ Goes
  <2>1. CASE proc' = proc
    BY <1>2, <2>1 DEF Goes
  <2>2. CASE proc' = [proc EXCEPT !["C"] = Raised("C", "TRAP")]
    <3>1. CASE proc' = [proc EXCEPT !["C"] = Stopped("C", "TRAP")]
      BY <3>1, StopGoes
    <3>2. CASE proc' = [proc EXCEPT !["C"] = Ended("C", "sig", "TRAP")]
      BY <3>2, EndGoes
    <3>. QED  BY <2>2, <3>1, <3>2 DEF Raised
  <2>. QED  BY <2>1, <2>2 DEF CStoreInsn
<1>6. cpc' <= Len(CCode) + 1
  BY <1>1, <1>2, <1>3
<1>. QED  BY <1>1, <1>2, <1>3, <1>4, <1>5, <1>6, ChildStep


\* An instruction of the child keeps the invariant.
LEMMA CInsnBase ==
  ASSUME TextOK, BaseInv, CInsn
  PROVE  BaseInv'
<1>1. /\ proc["C"].st = "run" /\ cpc \in 1..Len(CCode) /\ CCode[cpc].op \in {"site", "insn"}
      /\ UNCHANGED <<test, ppc, ret, reg, pinfo, verdict, sem>>
  BY DEF CInsn, CAt, CUnchanged, parentVars
<1>2. DOMAIN proc = {"C", "G"} /\ DOMAIN proc["C"] = Fields /\ DOMAIN proc["G"] = Fields /\ DOMAIN mem = Cell /\ DOMAIN sem = {"pwait", "cwait", "pipe"}
      /\ Len(CCode) \in Nat
  BY DEF BaseInv, Shape, TextOK
<1>3. DOMAIN mem' = Cell
  BY <1>2 DEF CInsn
<1>4. /\ cpc' \in {cpc, cpc + 1}
      /\ \/ proc' = proc
         \/ proc' = [proc EXCEPT !["C"] = Raised("C", "TRAP")]
         \/ proc' = [proc EXCEPT !["C"] = Raised("C", "ILL")]
         \/ proc' = [proc EXCEPT !["C"] = Stopped("C", "TRAP")]
  BY DEF CInsn
<1>5. SemInv' /\ DOMAIN sem' = {"pwait", "cwait", "pipe"}
  BY <1>1, <1>4, ChildSems
<1>6. DOMAIN proc' = {"C", "G"} /\ DOMAIN proc'["C"] = Fields /\ proc'["G"] = proc["G"] /\ Goes
  <2>1. CASE proc' = proc
    BY <1>2, <2>1 DEF Goes
  <2>2. CASE proc' = [proc EXCEPT !["C"] = Raised("C", "TRAP")]
    <3>1. CASE proc' = [proc EXCEPT !["C"] = Stopped("C", "TRAP")]
      BY <3>1, StopGoes
    <3>2. CASE proc' = [proc EXCEPT !["C"] = Ended("C", "sig", "TRAP")]
      BY <3>2, EndGoes
    <3>. QED  BY <2>2, <3>1, <3>2 DEF Raised
  <2>3. CASE proc' = [proc EXCEPT !["C"] = Raised("C", "ILL")]
    <3>1. CASE proc' = [proc EXCEPT !["C"] = Stopped("C", "ILL")]
      BY <3>1, StopGoes
    <3>2. CASE proc' = [proc EXCEPT !["C"] = Ended("C", "sig", "ILL")]
      BY <3>2, EndGoes
    <3>. QED  BY <2>3, <3>1, <3>2 DEF Raised
  <2>4. CASE proc' = [proc EXCEPT !["C"] = Stopped("C", "TRAP")]
    BY <2>4, StopGoes
  <2>. QED  BY <1>4, <2>1, <2>2, <2>3, <2>4
<1>7. cpc' <= Len(CCode) + 1
  BY <1>1, <1>2, <1>4
<1>. QED  BY <1>1, <1>2, <1>3, <1>4, <1>5, <1>6, <1>7, ChildStep


\* sem_post(), sem_wait() and write() of the child keeps the invariant.
LEMMA CSemBase ==
  ASSUME TextOK, BaseInv, CSem
  PROVE  BaseInv'
<1>1. /\ proc["C"].st = "run" /\ cpc \in 1..Len(CCode) /\ CCode[cpc].op \in {"cpost", "csemwait"}
      /\ UNCHANGED <<test, ppc, ret, reg, pinfo, verdict>>
  BY DEF CSem, CAt, CUnchanged, parentVars
<1>2. DOMAIN proc = {"C", "G"} /\ DOMAIN proc["C"] = Fields /\ DOMAIN proc["G"] = Fields /\ DOMAIN mem = Cell /\ DOMAIN sem = {"pwait", "cwait", "pipe"}
      /\ Len(CCode) \in Nat
  BY DEF BaseInv, Shape, TextOK
<1>3. cpc' = cpc + 1 /\ proc' = proc /\ mem' = mem
  BY DEF CSem
<1>4. CStmtOK(cpc) /\ PostAt[test] \in Nat
  BY <1>1 DEF TextOK
<1>5. SemInv' /\ DOMAIN sem' = {"pwait", "cwait", "pipe"}
  <2>1. CASE CCode[cpc].op = "cpost"
    <3>1. PICK s \in {"pwait", "pipe"} : s = CCode[cpc].sem /\ cpc = PostAt[test]
      BY <1>4, <2>1 DEF CStmtOK
    <3>2. sem' = [sem EXCEPT ![s] = @ + 1] /\ sem["pwait"] = 0 /\ sem["pipe"] = 0
      BY <1>1, <1>4, <2>1, <3>1 DEF CSem, CAt, BaseInv, SemInv
    <3>3. \A x \in {"pwait", "cwait", "pipe"} : sem'[x] = IF x = s THEN 1 ELSE sem[x]
      BY <1>2, <3>1, <3>2
    <3>4. DOMAIN sem' = {"pwait", "cwait", "pipe"}
      BY <1>2, <3>2
    <3>5. ~(cpc' <= PostAt[test])
      BY <1>1, <1>3, <1>4, <3>1
    <3>. QED  BY <1>1, <1>3, <3>1, <3>3, <3>4, <3>5, TextStays DEF BaseInv, SemInv
  <2>2. CASE CCode[cpc].op = "csemwait"
    <3>1. sem["cwait"] > 0 /\ sem' = [sem EXCEPT !["cwait"] = @ - 1]
      BY <1>1, <1>4, <2>2 DEF CSem, CAt, CStmtOK
    <3>2. sem["cwait"] = 1
      BY <3>1 DEF BaseInv, SemInv
    <3>3. sem'["cwait"] = 0 /\ sem'["pwait"] = sem["pwait"] /\ sem'["pipe"] = sem["pipe"]
      BY <1>2, <3>1, <3>2
    <3>4. DOMAIN sem' = {"pwait", "cwait", "pipe"}
      BY <1>2, <3>1
    <3>5. cpc' <= PostAt[test] => cpc <= PostAt[test]
      BY <1>1, <1>3, <1>4
    <3>. QED  BY <1>1, <3>3, <3>4, <3>5, TextStays DEF BaseInv, SemInv
  <2>. QED  BY <1>1, <2>1, <2>2
<1>. QED  BY <1>1, <1>2, <1>3, <1>5, ChildStep DEF Goes


\* PTRACE_TRACEME keeps the invariant.
LEMMA CTracemeBase ==
  ASSUME TextOK, BaseInv, CTraceme
  PROVE  BaseInv'
<1>1. /\ proc["C"].st = "run" /\ cpc \in 1..Len(CCode) /\ CCode[cpc].op \in {"traceme"}
      /\ UNCHANGED <<test, ppc, ret, reg, pinfo, verdict, sem>>
  BY DEF CTraceme, CAt, CUnchanged, parentVars
<1>2. DOMAIN proc = {"C", "G"} /\ DOMAIN proc["C"] = Fields /\ DOMAIN proc["G"] = Fields /\ DOMAIN mem = Cell /\ DOMAIN sem = {"pwait", "cwait", "pipe"}
      /\ Len(CCode) \in Nat
  BY DEF BaseInv, Shape, TextOK
<1>3. CASE CExit("-1")
  BY <1>1, <1>3, CExitBase
<1>4. CASE cpc' = cpc + 1 /\ proc' = [proc EXCEPT !["C"].traced = Works("TRACEME")] /\ mem' = mem
  <2>1. SemInv' /\ DOMAIN sem' = {"pwait", "cwait", "pipe"}
    BY <1>1, <1>4, ChildSems
  <2>2. HeldInv' /\ ppc # 0 /\ ~proc["C"].event /\ proc["C"].status.kind \notin {"exit", "sig"}
    BY <1>1, RunsFree
  <2>3. /\ DOMAIN proc' = {"C", "G"} /\ DOMAIN proc'["C"] = Fields /\ proc'["G"] = proc["G"]
        /\ proc'["C"].st = "run" /\ proc'["C"].event = proc["C"].event /\ proc'["C"].status = proc["C"].status
        /\ proc'["C"].mode = proc["C"].mode
    BY <1>1, <1>2, <1>4 DEF Fields
  <2>4. Shape' /\ ProcInv("C")' /\ ProcInv("G")' /\ GrandInv'
    BY <1>1, <1>4, <2>1, <2>2, <2>3 DEF BaseInv, Shape, ProcInv, GrandInv
  <2>5. Counters'
    BY <1>1, <1>2, <1>4, TextStays DEF BaseInv, Counters
  <2>6. cpc = TraceAt[test] /\ test # "t000"
    BY <1>1 DEF TextOK, CStmtOK
  <2>7. ~(cpc' <= TraceAt[test])
    BY <1>1, <1>4, <2>6
  <2>8. ChildInv'
    BY <1>1, <2>2, <2>3, <2>6, <2>7, TextStays DEF ChildInv
  <2>. QED  BY <2>1, <2>2, <2>4, <2>5, <2>8 DEF BaseInv
<1>. QED  BY <1>3, <1>4 DEF CTraceme


\* fork() of the child keeps the invariant.
LEMMA CForkBase ==
  ASSUME TextOK, BaseInv, CFork
  PROVE  BaseInv'
<1>1. /\ proc["C"].st = "run" /\ cpc \in 1..Len(CCode) /\ CCode[cpc].op \in {"fork"}
      /\ UNCHANGED <<test, ppc, ret, reg, pinfo, verdict, sem>>
  BY DEF CFork, CAt, CUnchanged, parentVars
<1>2. DOMAIN proc = {"C", "G"} /\ DOMAIN proc["C"] = Fields /\ DOMAIN proc["G"] = Fields /\ DOMAIN mem = Cell /\ DOMAIN sem = {"pwait", "cwait", "pipe"}
      /\ Len(CCode) \in Nat
  BY DEF BaseInv, Shape, TextOK
<1>3. cpc' = cpc + 1 /\ mem' = mem /\ test = "t015"
  BY <1>1 DEF CFork, TextOK, CStmtOK
<1>4. SemInv' /\ DOMAIN sem' = {"pwait", "cwait", "pipe"}
  BY <1>1, <1>3, ChildSems
<1>5. HeldInv' /\ ppc # 0 /\ ~proc["C"].event /\ proc["C"].status.kind \notin {"exit", "sig"}
  BY <1>1, RunsFree
<1>6. /\ DOMAIN proc' = {"C", "G"} /\ DOMAIN proc'["G"] = Fields /\ proc'["C"] = proc["C"]
      /\ proc'["G"].st = "run" /\ ~proc'["G"].event /\ proc'["G"].mode = "CONT"
  BY <1>2 DEF CFork, NoProc, Fields
<1>7. Shape' /\ ProcInv("C")' /\ ProcInv("G")' /\ GrandInv'
  BY <1>1, <1>2, <1>3, <1>4, <1>6 DEF BaseInv, Shape, ProcInv, GrandInv
<1>8. Counters'
  BY <1>1, <1>2, <1>3, TextStays DEF BaseInv, Counters
<1>9. ChildInv'
  <2>1. TraceAt[test] \in Nat /\ (cpc + 1 <= TraceAt[test] => cpc <= TraceAt[test])
    BY <1>1 DEF TextOK
  <2>. QED  BY <1>1, <1>3, <1>5, <1>6, <2>1, TextStays DEF BaseInv, ChildInv
<1>. QED  BY <1>4, <1>5, <1>7, <1>8, <1>9 DEF BaseInv


\* The end of child_func() keeps the invariant.
LEMMA CEndBase ==
  ASSUME TextOK, BaseInv, CEnd
  PROVE  BaseInv'
<1>1. proc["C"].st = "run" /\ CExit("0") /\ UNCHANGED <<test, ppc, ret, reg, pinfo, verdict, sem>>
  BY DEF CEnd, CUnchanged, parentVars
<1>. QED  BY <1>1, CExitBase

\* A stop by a pending SIGSTOP keeps the invariant.
LEMMA TakeStopBase ==
  ASSUME TextOK, BaseInv, NEW p \in {"C", "G"}, TakeStop(p)
  PROVE  BaseInv'
<1>1. /\ proc[p].st = "run" /\ proc[p].pend /\ proc' = [proc EXCEPT ![p] = Stopped(p, "STOP")]
      /\ UNCHANGED <<test, ppc, ret, reg, pinfo, verdict, cpc, mem, sem>>
  BY DEF TakeStop, parentVars
<1>2. DOMAIN mem = Cell /\ cpc <= Len(CCode) + 1
  BY DEF BaseInv, Shape, Counters, TextOK
<1>3. SemInv' /\ DOMAIN sem' = {"pwait", "cwait", "pipe"}
  BY <1>1, ChildSems
<1>4. CASE p = "C"
  <2>1. DOMAIN proc' = {"C", "G"} /\ DOMAIN proc'["C"] = Fields /\ proc'["G"] = proc["G"] /\ Goes
    BY <1>1, <1>4, StopGoes
  <2>. QED  BY <1>1, <1>2, <1>3, <1>4, <2>1, ChildStep
<1>5. CASE p = "G"
  <2>1. proc'["C"] = proc["C"] /\ DOMAIN proc' = {"C", "G"} /\ DOMAIN proc'["G"] = Fields
        /\ proc'["G"].st = "stop" /\ proc'["G"].mode = proc["G"].mode
    BY <1>1, <1>5, StoppedFields
  <2>2. test = "t015"
    BY <1>1, <1>5 DEF BaseInv, GrandInv, NoProc
  <2>3. Shape' /\ ProcInv("C")' /\ ProcInv("G")' /\ GrandInv'
    BY <1>1, <1>3, <2>1, <2>2 DEF BaseInv, Shape, ProcInv, GrandInv
  <2>4. Counters' /\ ChildInv' /\ HeldInv'
    BY <1>1, <2>1, TextStays DEF BaseInv, Counters, ChildInv, HeldInv, Held
  <2>. QED  BY <1>3, <2>3, <2>4 DEF BaseInv
<1>. QED  BY <1>4, <1>5

\* The end of the grandchild keeps the invariant.
LEMMA GExitBase ==
  ASSUME TextOK, BaseInv, GExit
  PROVE  BaseInv'
<1>1. /\ proc["G"].st = "run" /\ proc' = [proc EXCEPT !["G"] = Ended("G", "exit", "0")]
      /\ UNCHANGED <<test, ppc, ret, reg, pinfo, verdict, cpc, mem, sem>>
  BY DEF GExit, parentVars
<1>2. SemInv' /\ DOMAIN sem' = {"pwait", "cwait", "pipe"}
  BY <1>1, ChildSems
<1>3. proc'["C"] = proc["C"] /\ DOMAIN proc' = {"C", "G"} /\ DOMAIN proc'["G"] = Fields
      /\ proc'["G"].st = "dead" /\ proc'["G"].mode = proc["G"].mode
  BY <1>1, EndedFields
<1>4. test = "t015"
  BY <1>1 DEF BaseInv, GrandInv, NoProc
<1>5. Shape' /\ ProcInv("C")' /\ ProcInv("G")' /\ GrandInv'
  BY <1>1, <1>2, <1>3, <1>4 DEF BaseInv, Shape, ProcInv, GrandInv
<1>6. Counters' /\ ChildInv' /\ HeldInv'
  BY <1>1, <1>3, TextStays DEF BaseInv, Counters, ChildInv, HeldInv, Held
<1>. QED  BY <1>2, <1>5, <1>6 DEF BaseInv

\* Init has the invariant.
LEMMA InitBase == Init => BaseInv
<1>. SUFFICES ASSUME Init PROVE BaseInv
  OBVIOUS
<1>1. test \in DOMAIN Test
  BY CasesAssumption DEF Init
<1>2. TextOK
  BY <1>1, TextHolds
<1>3. /\ ppc = 0 /\ cpc = 1 /\ ret = "fail" /\ verdict = "none" /\ proc = [p \in {"C", "G"} |-> NoProc]
      /\ DOMAIN reg = Reg /\ DOMAIN pinfo = InfoReg /\ DOMAIN mem = Cell
      /\ sem = [s \in {"pwait", "cwait", "pipe"} |-> 0]
  BY DEF Init
<1>4. Shape /\ ProcInv("C") /\ ProcInv("G") /\ GrandInv
  BY <1>3 DEF Shape, ProcInv, GrandInv, NoProc, Fields
<1>5. Counters
  BY <1>1, <1>2, <1>3 DEF Counters, TextOK
<1>6. ChildInv
  BY <1>3 DEF ChildInv, NoProc, NoStatus
<1>7. HeldInv /\ SemInv
  <2>1. 0 \notin H
    BY <1>2 DEF TextOK
  <2>. QED  BY <1>3, <2>1 DEF HeldInv, SemInv
<1>. QED  BY <1>4, <1>5, <1>6, <1>7 DEF BaseInv

\* Every step keeps the invariant.
LEMMA NextBase ==
  ASSUME BaseInv, [Next]_vars
  PROVE  BaseInv'
<1>1. TextOK
  BY TextHolds DEF BaseInv, Counters
<1>2. CASE Parent
  BY <1>1, <1>2, PStartBase, PWaitBase, PStopSigBase, PGetBase, PSetBase, PCheckBase, PMustFailBase, PGetInfoBase,
     PCheckInfoBase, PSetInfoBase, PResumeBase, PAttachBase, PKillBase, PSemBase, PReadBase, POkBase, PVerdictBase
     DEF Parent
<1>3. CASE Child
  BY <1>1, <1>3, CTracemeBase, CStoreBase, CInsnBase, CStoreInsnBase, CSyscallBase, CForkBase, CForkEventBase,
     CSemBase, CCheckMemBase, CCallBase, CEndBase DEF Child
<1>4. CASE Kernel
  BY <1>1, <1>4, TakeStopBase, GExitBase DEF Kernel
<1>5. CASE UNCHANGED vars
  <2>1. UNCHANGED <<test, ppc, ret, reg, pinfo, verdict, cpc, proc, mem, sem>>
    BY <1>5 DEF vars, parentVars, childVars
  <2>2. Shape' /\ Counters' /\ ProcInv("C")' /\ ProcInv("G")' /\ GrandInv'
    BY <2>1, TextStays DEF BaseInv, Shape, Counters, ProcInv, GrandInv
  <2>3. ChildInv' /\ HeldInv' /\ SemInv'
    BY <2>1, TextStays DEF BaseInv, ChildInv, HeldInv, Held, SemInv
  <2>. QED  BY <2>2, <2>3 DEF BaseInv
<1>6. CASE Over
  BY <1>5, <1>6 DEF Over
<1>. QED  BY <1>2, <1>3, <1>4, <1>5, <1>6 DEF Next

\* BaseInv is an invariant.
THEOREM Base == Spec => []BaseInv
<1>1. Init => BaseInv
  BY InitBase
<1>2. BaseInv /\ [Next]_vars => BaseInv'
  BY NextBase
<1>. QED  BY <1>1, <1>2, PTL DEF Spec

\* Types: the counters stay within the programs, a semaphore is never posted twice, and what
\* wait() may report is a stop or an end.
THEOREM TypeCorrect == Spec => []TypeOK
<1>1. BaseInv => TypeOK
  BY DEF BaseInv, Shape, Counters, ProcInv, SemInv, TypeOK
<1>. QED  BY <1>1, Base, PTL

-----------------------------------------------------------------------------
(***************************************************************************)
(* What a run shows: RunInv.                                               *)
(***************************************************************************)

\* A request that has succeeded is one that this kernel does not refuse; one that has to fail
\* has failed as it must.
Good(i) ==
  Code[i].op \in Requests \union {"attach"} =>
    Code[i].req \notin fault.refused /\ (Code[i].op = "mustfail" => Code[i].req \notin fault.broken)

\* A statement of parent_func(), as far as it moves on.
PStep ==
  /\ verdict = "none" /\ ppc \in 1..Len(Code) /\ UNCHANGED <<test, fault, verdict, cpc>>
  /\ \/ Code[ppc].op = "ok" /\ ret' = "ok" /\ ppc' = ppc + 1
     \/ Code[ppc].op # "ok" /\ Advance /\ Good(ppc)
     \/ Code[ppc].op \notin {"post", "semwait", "ok"} /\ Jump(Code[ppc].fail)

\* The place lies behind P, and P has not jumped since.
Past(i) == i < OkAt[test] /\ (ret = "ok" \/ ppc \in (i + 1)..OkAt[test])

RetInv == ret = "ok" => ppc > OkAt[test]

\* What parent_func() has called on its way to success is not refused.
PassInv ==
  test # "t021" =>
    \A i \in 1..Len(Code) : Past(i) /\ Code[i].op \in Requests \union {"attach"} /\ Code[i].fail \in {"cont", "out"} => Good(i)

\* A parent on its way to success has met a traced child.
TracedInv ==
  test \notin {"t000", "t020"} /\ ppc > WaitAt[test] /\ (ret = "ok" \/ ppc <= OkAt[test]) => proc["C"].traced

\* A child is traced because of TRACEME, or of ATTACH in 019 and 020.
TraceInv ==
  proc["C"].traced => IF test \in {"t019", "t020"} THEN "ATTACH" \notin fault.broken
                      ELSE "TRACEME" \notin fault.refused \union fault.broken

\* Only SYSCALL and SINGLESTEP make a child run that way.
ModeInv ==
  /\ proc["C"].mode = "SYSCALL" => test = "t016" /\ Works("SYSCALL")
  /\ proc["C"].mode = "SINGLESTEP" => test = "t017" /\ Works("SINGLESTEP")

\* What wait() reports.
StatusInv == \E k, v : proc["C"].status = [kind |-> k, val |-> v]

\* A signal ends the child in 018, or when nobody traces it.
SigInv ==
  proc["C"].status.kind = "sig" =>
    \/ test = "t018" /\ proc["C"].status.val = "KILL" /\ Works("KILL")
    \/ test \notin {"t019", "t020"} /\ ~proc["C"].traced /\ proc["C"].status.val # "KILL"

\* Success of the child is the end of its program.
ExitInv == proc["C"].status = [kind |-> "exit", val |-> "0"] => cpc = Len(CCode) + 1

\* A verdict of success: parent_func() has succeeded, and so has the child.
VerdictInv ==
  verdict = "ok" /\ test # "t000" =>
    /\ ret = "ok" /\ ppc = Len(Code) + 1
    /\ test # "t015" =>
         /\ proc["C"].st = "gone"
         /\ proc["C"].status = IF test = "t018" THEN [kind |-> "sig", val |-> "KILL"]
                                                ELSE [kind |-> "exit", val |-> "0"]

RunInv == RetInv /\ PassInv /\ TracedInv /\ TraceInv /\ ModeInv /\ StatusInv /\ SigInv /\ ExitInv /\ VerdictInv

\* The statements of parent_func().
Statement ==
  PWait \/ PStopSig \/ PGet \/ PSet \/ PCheck \/ PMustFail \/ PGetInfo \/ PCheckInfo \/ PSetInfo
  \/ PResume \/ PAttach \/ PKill \/ PSem \/ PRead \/ POk

\* Each statement goes on, having succeeded, or jumps.
LEMMA StatementSteps ==
  ASSUME Statement
  PROVE  PStep
<1>1. CASE PWait
  BY <1>1 DEF PWait, At, PStep, Good, Requests
<1>2. CASE PStopSig
  BY <1>2 DEF PStopSig, At, PStep, Good, Requests, childVars
<1>3. CASE PGet
  BY <1>3 DEF PGet, At, PStep, Good, Requests, childVars, Accepted
<1>4. CASE PSet
  BY <1>4 DEF PSet, At, PStep, Good, Requests, Accepted
<1>5. CASE PCheck
  BY <1>5 DEF PCheck, At, PStep, Good, Requests, childVars
<1>6. CASE PMustFail
  BY <1>6 DEF PMustFail, At, PStep, Good, Requests, childVars, Accepted, Works
<1>7. CASE PGetInfo
  BY <1>7 DEF PGetInfo, At, PStep, Good, Requests, childVars, Accepted
<1>8. CASE PCheckInfo
  BY <1>8 DEF PCheckInfo, At, PStep, Good, Requests, childVars
<1>9. CASE PSetInfo
  BY <1>9 DEF PSetInfo, At, PStep, Good, Requests, Accepted
<1>10. CASE PResume
  BY <1>10 DEF PResume, At, PStep, Good, Requests, Accepted
<1>11. CASE PAttach
  BY <1>11 DEF PAttach, At, PStep, Good, Requests
<1>12. CASE PKill
  BY <1>12 DEF PKill, At, PStep, Good, Requests
<1>13. CASE PSem
  BY <1>13 DEF PSem, At, PStep, Good, Requests, childVars
<1>14. CASE PRead
  BY <1>14 DEF PRead, At, PStep, Good, Requests, childVars
<1>15. CASE POk
  BY <1>15 DEF POk, At, PStep, childVars
<1>. QED  BY <1>1, <1>2, <1>3, <1>4, <1>5, <1>6, <1>7, <1>8, <1>9, <1>10, <1>11, <1>12, <1>13, <1>14, <1>15 DEF Statement

\* Which actions change what.
LEMMA Frames ==
  ASSUME [Next]_vars
  PROVE  /\ UNCHANGED <<test, fault>>
         /\ Statement \/ PStart \/ UNCHANGED <<ppc, ret>>
         /\ PVerdict \/ PStart \/ UNCHANGED verdict
         /\ PGet \/ PRead \/ UNCHANGED reg
         /\ PGetInfo \/ UNCHANGED pinfo
         /\ PSetInfo \/ CInsn \/ CStoreInsn \/ TakeStop("C") \/ UNCHANGED info
         /\ PSet \/ CStore \/ CInsn \/ CStoreInsn \/ CSyscall \/ CForkEvent \/ UNCHANGED mem
         /\ Child \/ UNCHANGED cpc
         /\ \/ PStart \/ PWait \/ PVerdict \/ PResume \/ PAttach \/ PKill
            \/ CTraceme \/ CInsn \/ CStoreInsn \/ CSyscall \/ CFork \/ CForkEvent \/ CCheckMem \/ CCall \/ CEnd
            \/ TakeStop("C") \/ TakeStop("G") \/ GExit \/ UNCHANGED proc
<1>1. CASE Parent
  BY <1>1 DEF Parent, Statement, PStart, PWait, PStopSig, PGet, PSet, PCheck, PMustFail, PGetInfo, PCheckInfo, PSetInfo,
     PResume, PAttach, PKill, PSem, PRead, POk, PVerdict, childVars
<1>2. CASE Child
  BY <1>2 DEF Child, CTraceme, CStore, CInsn, CStoreInsn, CSyscall, CFork, CForkEvent, CSem, CCheckMem, CCall, CEnd,
     CUnchanged, CExit, parentVars
<1>3. CASE Kernel
  BY <1>3 DEF Kernel, TakeStop, GExit, parentVars
<1>4. CASE UNCHANGED vars
  BY <1>4 DEF vars, parentVars, childVars
<1>5. CASE Over
  BY <1>4, <1>5 DEF Over
<1>. QED  BY <1>1, <1>2, <1>3, <1>4, <1>5 DEF Next

\* Where a statement leads, and with which ret.
LEMMA PStepTo ==
  ASSUME TextOK, BaseInv, PStep
  PROVE  /\ ppc' \in Nat /\ ppc' > ppc /\ ret' \in {"ok", "fail"}
         /\ \/ ppc' = ppc + 1 /\ ret' = "ok" /\ ppc = OkAt[test]
            \/ ppc' = ppc + 1 /\ ret' = ret /\ Good(ppc)
            \/ ppc' = ppc + 1 /\ ret' \in {ret, "fail"} /\ Code[ppc].fail \in {"next", "ret"}
            \/ /\ ppc' = ppc + 2 /\ ret' = ret /\ Code[ppc].fail = "skip" /\ Code[ppc + 1].fail = "next"
               /\ ppc >= WaitAt[test]
            \/ ppc' = Len(Code) /\ ppc' > OkAt[test] /\ ret' = ret /\ ppc \in H /\ Code[ppc].fail = "cont"
            \/ ppc' = Len(Code) + 1 /\ ret' = ret /\ Code[ppc].fail = "out"
            \/ ppc' \in {Len(Code), Len(Code) + 1} /\ ret' = "fail" /\ test = "t021" /\ ppc' > OkAt[test]
<1>1. StmtOK(ppc) /\ Len(Code) \in Nat /\ OkAt[test] \in 1..Len(Code) /\ ppc \in 1..Len(Code) /\ ret \in {"ok", "fail"}
  BY DEF PStep, TextOK, BaseInv, Counters
<1>2. CASE Code[ppc].op = "ok" /\ ret' = "ok" /\ ppc' = ppc + 1
  BY <1>1, <1>2 DEF StmtOK
<1>3. CASE Code[ppc].op # "ok" /\ Advance /\ Good(ppc)
  BY <1>1, <1>3 DEF Advance
<1>4. CASE Code[ppc].op \notin {"post", "semwait", "ok"} /\ Jump(Code[ppc].fail)
  <2>1. PICK f : f = Code[ppc].fail /\ Jump(f)
    BY <1>4
  <2>2. f \in {"next", "ret", "skip", "cont", "contret", "out", "outret"}
    BY <1>1, <1>4, <2>1 DEF StmtOK
  <2>3. CASE f \in {"next", "ret"}
    <3>1. ppc' = ppc + 1 /\ ret' \in {ret, "fail"}
      BY ONLY <2>1, <2>3, JumpTo
    <3>. QED  BY ONLY <1>1, <2>1, <2>3, <3>1
  <2>4. CASE f = "skip"
    <3>1. ppc' = ppc + 2 /\ ret' = ret
      BY ONLY <2>1, <2>4, JumpTo
    <3>2. Code[ppc + 1].fail = "next" /\ ppc >= WaitAt[test]
      BY <1>1, <1>4, <2>1, <2>4 DEF StmtOK
    <3>. QED  BY ONLY <1>1, <2>1, <2>4, <3>1, <3>2
  <2>5. CASE f = "cont"
    <3>1. ppc' = Len(Code) /\ ret' = ret
      BY ONLY <2>1, <2>5, JumpTo
    <3>2. OkAt[test] < Len(Code) /\ ppc \in H /\ ppc < Len(Code)
      BY <1>1, <1>4, <2>1, <2>5 DEF StmtOK
    <3>. QED  BY ONLY <1>1, <2>1, <2>5, <3>1, <3>2
  <2>6. CASE f = "contret"
    <3>1. ppc' = Len(Code) /\ ret' = "fail"
      BY ONLY <2>1, <2>6, JumpTo
    <3>2. OkAt[test] < Len(Code) /\ test = "t021" /\ ppc < Len(Code)
      BY <1>1, <1>4, <2>1, <2>6 DEF StmtOK
    <3>. QED  BY ONLY <1>1, <3>1, <3>2
  <2>7. CASE f = "out"
    <3>1. ppc' = Len(Code) + 1 /\ ret' = ret
      BY ONLY <2>1, <2>7, JumpTo
    <3>. QED  BY ONLY <1>1, <2>1, <2>7, <3>1
  <2>8. CASE f = "outret"
    <3>1. ppc' = Len(Code) + 1 /\ ret' = "fail"
      BY ONLY <2>1, <2>8, JumpTo
    <3>2. test = "t021"
      BY <1>1, <1>4, <2>1, <2>8 DEF StmtOK
    <3>. QED  BY ONLY <1>1, <3>1, <3>2
  <2>. QED  BY <2>2, <2>3, <2>4, <2>5, <2>6, <2>7, <2>8
<1>. QED  BY <1>2, <1>3, <1>4 DEF PStep

\* Only the statement that P is at can be past after a step and not before.
LEMMA PastBefore ==
  ASSUME TextOK, BaseInv, RetInv, PStep, NEW i \in 1..Len(Code), Past(i)'
  PROVE  \/ Past(i)
         \/ i = ppc /\ ppc' = ppc + 1 /\ (Good(ppc) \/ Code[ppc].fail \in {"next", "ret"}) /\ Code[ppc].op # "ok"
         \/ i \in {ppc, ppc + 1} /\ Code[i].fail \in {"skip", "next"}
<1>1. test' = test
  BY DEF PStep
<1>2. i < OkAt[test] /\ (ret' = "ok" \/ ppc' \in (i + 1)..OkAt[test])
  BY <1>1, TextStays DEF Past
<1>3. ppc \in Nat /\ OkAt[test] \in Nat /\ Len(Code) \in Nat /\ OkAt[test] <= Len(Code) /\ i \in Nat
  BY DEF PStep, TextOK
<1>4. SUFFICES ASSUME ~Past(i)
               PROVE  \/ i = ppc /\ ppc' = ppc + 1 /\ (Good(ppc) \/ Code[ppc].fail \in {"next", "ret"}) /\ Code[ppc].op # "ok"
                      \/ i \in {ppc, ppc + 1} /\ Code[i].fail \in {"skip", "next"}
  OBVIOUS
<1>5. ret # "ok" /\ ~(ppc \in (i + 1)..OkAt[test])
  BY <1>2, <1>4 DEF Past
<1>6. /\ ppc' \in Nat /\ ppc' > ppc
      /\ \/ ppc' = ppc + 1 /\ ret' = "ok" /\ ppc = OkAt[test]
         \/ ppc' = ppc + 1 /\ ret' = ret /\ Good(ppc)
         \/ ppc' = ppc + 1 /\ ret' \in {ret, "fail"} /\ Code[ppc].fail \in {"next", "ret"}
         \/ ppc' = ppc + 2 /\ ret' = ret /\ Code[ppc].fail = "skip" /\ Code[ppc + 1].fail = "next"
         \/ ppc' = Len(Code) /\ ppc' > OkAt[test] /\ ret' = ret
         \/ ppc' = Len(Code) + 1 /\ ret' = ret
         \/ ppc' > OkAt[test] /\ ret' = "fail"
  BY PStepTo
<1>7. ret' # "ok" /\ ppc' \in (i + 1)..OkAt[test]
  BY ONLY <1>2, <1>3, <1>5, <1>6
<1>8. ppc <= i /\ i < ppc' /\ ppc' <= OkAt[test]
  BY ONLY <1>3, <1>5, <1>6, <1>7
<1>9. CASE ppc' = ppc + 1 /\ (Good(ppc) \/ Code[ppc].fail \in {"next", "ret"})
  <2>1. i = ppc
    BY ONLY <1>3, <1>8, <1>9
  <2>2. Code[ppc].op # "ok"
    BY <1>5, <1>7 DEF PStep
  <2>. QED  BY <1>9, <2>1, <2>2
<1>10. CASE ppc' = ppc + 2 /\ Code[ppc].fail = "skip" /\ Code[ppc + 1].fail = "next"
  <2>1. i \in {ppc, ppc + 1}
    BY ONLY <1>3, <1>8, <1>10
  <2>. QED  BY <1>10, <2>1
<1>. QED  BY ONLY <1>3, <1>6, <1>7, <1>8, <1>9, <1>10

\* A step of parent_func() keeps RetInv and PassInv.
LEMMA PStepPass ==
  ASSUME TextOK, BaseInv, RetInv, PassInv, PStep
  PROVE  RetInv' /\ PassInv'
<1>1. test' = test /\ fault' = fault /\ Code' = Code /\ Len(Code)' = Len(Code) /\ OkAt[test]' = OkAt[test]
  BY TextStays DEF PStep
<1>2. RetInv'
  <2>1. ppc \in Nat /\ OkAt[test] \in Nat /\ Len(Code) \in Nat /\ OkAt[test] <= Len(Code)
    BY DEF PStep, TextOK
  <2>2. /\ ppc' \in Nat /\ ppc' > ppc
        /\ ret' = "ok" => ret = "ok" \/ ppc = OkAt[test]
    BY PStepTo
  <2>. QED  BY <1>1, <2>1, <2>2 DEF RetInv
<1>3. PassInv'
  <2>1. SUFFICES ASSUME test # "t021", NEW i \in 1..Len(Code), Past(i)', Code[i].op \in Requests \union {"attach"},
                        Code[i].fail \in {"cont", "out"}
                 PROVE  Good(i)
    BY <1>1 DEF PassInv, Good
  <2>2. CASE Past(i)
    BY <2>1, <2>2 DEF PassInv
  <2>3. CASE ~Past(i)
    <3>1. i = ppc /\ (Good(ppc) \/ Code[ppc].fail \in {"next", "ret"})
      BY <2>1, <2>3, PastBefore
    <3>. QED  BY <2>1, <3>1
  <2>. QED  BY <2>2, <2>3
<1>. QED  BY <1>2, <1>3

\* Every other step leaves them alone.
LEMMA StillPass ==
  ASSUME RetInv, PassInv, UNCHANGED <<test, fault, ppc, ret>>
  PROVE  RetInv' /\ PassInv'
<1>1. Code' = Code /\ Len(Code)' = Len(Code) /\ OkAt[test]' = OkAt[test]
  BY TextStays
<1>. QED  BY <1>1 DEF RetInv, PassInv, Past, Good

\* So both hold throughout a run.
LEMMA NextPass ==
  ASSUME TextOK, BaseInv, RetInv, PassInv, [Next]_vars
  PROVE  RetInv' /\ PassInv'
<1>1. CASE Statement
  BY <1>1, StatementSteps, PStepPass
<1>2. CASE UNCHANGED <<ppc, ret>>
  BY <1>2, Frames, StillPass
<1>3. CASE PStart
  <2>1. ppc = 0 /\ ppc' \in {0, 1} /\ ret' = ret /\ test' = test /\ ret # "ok"
    <3>1. ppc = 0 /\ ppc' \in {0, 1} /\ ret' = ret /\ test' = test
      BY <1>3 DEF PStart
    <3>2. OkAt[test] >= 1 /\ OkAt[test] \in Nat
      BY DEF TextOK
    <3>. QED  BY <3>1, <3>2 DEF RetInv
  <2>2. OkAt[test]' = OkAt[test] /\ Code' = Code /\ Len(Code)' = Len(Code)
    BY <2>1, TextStays
  <2>3. \A i \in 1..Len(Code) : ~Past(i)'
    BY <2>1, <2>2 DEF Past
  <2>. QED  BY <2>1, <2>2, <2>3 DEF RetInv, PassInv
<1>. QED  BY <1>1, <1>2, <1>3, Frames

\* The fields of the child that only a few actions change.
Same(fs) == \A f \in fs : proc'["C"][f] = proc["C"][f]

\* What a step may do to the child: nothing; start it; report it; stop it; end it, by itself or by
\* a signal; resume or kill it; attach to it; send it a SIGSTOP; trace it.
Reports == /\ proc["C"].event /\ ~proc'["C"].event /\ Same({"traced", "status", "mode"})
           /\ proc'["C"].st = IF proc["C"].st = "dead" THEN "gone" ELSE proc["C"].st
Stops == /\ proc["C"].st = "run" /\ proc'["C"].st = "stop" /\ (\E v : proc'["C"].status = [kind |-> "stop", val |-> v])
         /\ proc'["C"].event = (proc["C"].event \/ proc["C"].traced) /\ Same({"traced", "mode"})
Exits == /\ proc["C"].st = "run" /\ proc'["C"].st = "dead" /\ Same({"traced", "mode"}) /\ cpc' = cpc
         /\ \E v : proc'["C"].status = [kind |-> "exit", val |-> v] /\ (v = "0" => cpc > Len(CCode))
Dies == /\ proc["C"].st = "run" /\ proc'["C"].st = "dead" /\ Same({"traced", "mode"}) /\ cpc' = cpc
        /\ \E v : v # "KILL" /\ proc'["C"].status = [kind |-> "sig", val |-> v]
        /\ ~proc["C"].traced /\ test \notin {"t019", "t020"}
Killed == /\ Held /\ proc'["C"].st = "dead" /\ Same({"traced", "mode"}) /\ cpc' = cpc
          /\ proc'["C"].status = [kind |-> "sig", val |-> "KILL"] /\ test = "t018" /\ Works("KILL")
Resumes == /\ PResume /\ Held /\ proc'["C"].st = "run" /\ ~proc'["C"].event /\ Same({"status"})
           /\ test # "t020" => proc'["C"].traced
           /\ proc'["C"].mode = "SYSCALL" => test = "t016" /\ Works("SYSCALL")
           /\ proc'["C"].mode = "SINGLESTEP" => test = "t017" /\ Works("SINGLESTEP")
Attaches == /\ Same({"st", "event", "status", "mode"}) /\ proc'["C"].traced /\ test \in {"t019", "t020"}
            /\ Works("ATTACH")
Traces == /\ Same({"st", "event", "status", "mode"}) /\ ~proc["C"].traced /\ proc["C"].st = "run"
          /\ test \notin {"t019", "t020"} /\ cpc' = cpc + 1
          /\ proc'["C"].traced => Works("TRACEME") /\ "TRACEME" \notin fault.refused
CMove ==
  \/ proc'["C"] = proc["C"]
  \/ Same({"traced", "event", "status", "mode"}) /\ (PStart \/ proc'["C"].st = proc["C"].st)
  \/ Reports \/ Stops \/ Exits \/ Dies \/ Killed \/ Resumes \/ Attaches \/ Traces

\* A signal that the child raises stops or ends it.
LEMMA RaisedMoves ==
  ASSUME TextOK, BaseInv, NEW sig \in {"TRAP", "ILL"}, proc["C"].st = "run", cpc \in 1..Len(CCode),
         CCode[cpc].op \in {"site", "insn", "storeinsn"}, cpc' = cpc,
         proc' = [proc EXCEPT !["C"] = Raised("C", sig)]
  PROVE  CMove
<1>1. DOMAIN proc = {"C", "G"} /\ DOMAIN proc["C"] = Fields
  BY DEF BaseInv, Shape
<1>2. test \notin {"t019", "t020"}
  BY DEF TextOK, CStmtOK
<1>3. CASE proc["C"].traced
  <2>1. proc' = [proc EXCEPT !["C"] = Stopped("C", sig)]
    BY <1>3 DEF Raised
  <2>2. /\ proc'["C"].st = "stop" /\ proc'["C"].status = [kind |-> "stop", val |-> sig]
        /\ proc'["C"].event = (proc["C"].event \/ proc["C"].traced)
        /\ proc'["C"].traced = proc["C"].traced /\ proc'["C"].mode = proc["C"].mode
    BY ONLY <1>1, <2>1 DEF Stopped, Fields
  <2>3. Stops
    BY ONLY <2>2, proc["C"].st = "run" DEF Stops, Same
  <2>. QED  BY <2>3 DEF CMove
<1>4. CASE ~proc["C"].traced
  <2>1. proc' = [proc EXCEPT !["C"] = Ended("C", "sig", sig)]
    BY <1>4 DEF Raised
  <2>2. /\ proc'["C"].st = "dead" /\ proc'["C"].status = [kind |-> "sig", val |-> sig]
        /\ proc'["C"].traced = proc["C"].traced /\ proc'["C"].mode = proc["C"].mode
    BY ONLY <1>1, <2>1 DEF Ended, Fields
  <2>3. Dies
    BY ONLY <1>2, <1>4, <2>2, proc["C"].st = "run", cpc' = cpc, sig \in {"TRAP", "ILL"} DEF Dies, Same
  <2>. QED  BY <2>3 DEF CMove
<1>. QED  BY <1>3, <1>4

\* A stop that a tracer asked for, or a pending SIGSTOP.
LEMMA StoppedMoves ==
  ASSUME BaseInv, NEW sig, proc["C"].st = "run", proc' = [proc EXCEPT !["C"] = Stopped("C", sig)]
  PROVE  CMove
<1>1. DOMAIN proc = {"C", "G"} /\ DOMAIN proc["C"] = Fields
  BY DEF BaseInv, Shape
<1>2. /\ proc'["C"].st = "stop" /\ proc'["C"].status = [kind |-> "stop", val |-> sig]
      /\ proc'["C"].event = (proc["C"].event \/ proc["C"].traced)
      /\ proc'["C"].traced = proc["C"].traced /\ proc'["C"].mode = proc["C"].mode
  BY <1>1 DEF Stopped, Fields
<1>3. Stops
  BY ONLY <1>2, proc["C"].st = "run" DEF Stops, Same
<1>. QED  BY <1>3 DEF CMove

\* An end of the child by itself.
LEMMA ExitMoves ==
  ASSUME BaseInv, NEW val \in {"-1", "0"}, proc["C"].st = "run", CExit(val), val = "0" => cpc > Len(CCode)
  PROVE  CMove
<1>1. DOMAIN proc = {"C", "G"} /\ DOMAIN proc["C"] = Fields
  BY DEF BaseInv, Shape
<1>2. proc' = [proc EXCEPT !["C"] = Ended("C", "exit", val)] /\ cpc' = cpc
  BY DEF CExit
<1>3. /\ proc'["C"].st = "dead" /\ proc'["C"].status = [kind |-> "exit", val |-> val]
      /\ proc'["C"].traced = proc["C"].traced /\ proc'["C"].mode = proc["C"].mode
  BY <1>1, <1>2 DEF Ended, Fields
<1>4. Exits
  BY ONLY <1>2, <1>3, proc["C"].st = "run", val = "0" => cpc > Len(CCode) DEF Exits, Same
<1>. QED  BY <1>4 DEF CMove

\* Reporting the child, or the grandchild.
LEMMA ReapedMoves ==
  ASSUME BaseInv, NEW p \in {"C", "G"}, proc[p].event, proc' = Reaped(p)
  PROVE  CMove
<1>1. CASE p = "C"
  <2>1. Reports
    BY <1>1, ReapedFields DEF Reports, Same
  <2>. QED  BY <2>1 DEF CMove
<1>2. CASE p = "G"
  BY <1>2, ReapedFields DEF CMove
<1>. QED  BY <1>1, <1>2

\* Every step moves the child in one of these ways.
LEMMA ChildMoves ==
  ASSUME TextOK, BaseInv, [Next]_vars
  PROVE  CMove
<1>. DEFINE Dom == DOMAIN proc = {"C", "G"} /\ DOMAIN proc["C"] = Fields /\ DOMAIN proc["G"] = Fields
<1>1. Dom
  BY DEF BaseInv, Shape
<1>2. CASE UNCHANGED proc
  BY <1>2 DEF CMove
<1>3. CASE PStart
  <2>1. proc' = proc \/ proc' = [proc EXCEPT !["C"].st = "run"]
    BY <1>3 DEF PStart
  <2>2. Same({"traced", "event", "status", "mode"})
    BY <1>1, <2>1 DEF Same, Fields
  <2>. QED  BY <1>3, <2>2 DEF CMove
<1>4. CASE PWait \/ PVerdict
  <2>1. proc' = proc \/ \E p \in {"C", "G"} : proc[p].event /\ proc' = Reaped(p)
    BY <1>4 DEF PWait, PVerdict, Waitable
  <2>. QED  BY <1>2, <2>1, ReapedMoves
<1>5. CASE PResume
  <2>1. CASE ~Accepted(Code[ppc].req)
    BY <1>2, <1>5, <2>1 DEF PResume
  <2>2. CASE Accepted(Code[ppc].req)
    <3>1. /\ StmtOK(ppc) /\ Code[ppc].op = "resume" /\ verdict = "none" /\ ppc \in 1..Len(Code)
          /\ proc["C"].st = "stop" /\ proc["C"].traced /\ cpc' = cpc
      BY <1>5, <2>2 DEF PResume, At, TextOK, Accepted
    <3>2. test # "t000" /\ ppc \in H
      BY <3>1 DEF BaseInv, ChildInv, StmtOK, Requests
    <3>3. Held
      BY <3>1, <3>2 DEF BaseInv, HeldInv
    <3>4. /\ Code[ppc].req = "DETACH" => test = "t020"
          /\ Code[ppc].req = "KILL" => test = "t018"
          /\ Code[ppc].req = "SYSCALL" => test = "t016"
          /\ Code[ppc].req = "SINGLESTEP" => test = "t017"
      BY <3>1, <3>2 DEF StmtOK
    <3>5. \/ proc'["C"] = proc["C"]
          \/ /\ Code[ppc].req = "KILL" /\ Works("KILL")
             /\ proc'["C"].st = "dead" /\ proc'["C"].status = [kind |-> "sig", val |-> "KILL"]
             /\ proc'["C"].traced /\ proc'["C"].mode = proc["C"].mode
          \/ /\ proc'["C"].st = "run" /\ ~proc'["C"].event /\ proc'["C"].status = proc["C"].status
             /\ Code[ppc].req # "DETACH" => proc'["C"].traced
             /\ proc'["C"].mode # "CONT" => Code[ppc].req = proc'["C"].mode /\ Works(Code[ppc].req)
      BY <1>5, <2>2, <3>3, ResumedFields
    <3>6. CASE proc'["C"] = proc["C"]
      BY <3>6 DEF CMove
    <3>7. CASE /\ Code[ppc].req = "KILL" /\ Works("KILL")
               /\ proc'["C"].st = "dead" /\ proc'["C"].status = [kind |-> "sig", val |-> "KILL"]
               /\ proc'["C"].traced /\ proc'["C"].mode = proc["C"].mode
      <4>1. proc'["C"].traced = TRUE /\ proc["C"].traced = TRUE
        BY <1>5, <3>1, <3>7, PResumeBase DEF BaseInv
      <4>2. Killed
        BY ONLY <3>1, <3>3, <3>4, <3>7, <4>1 DEF Killed, Same
      <4>. QED  BY <4>2 DEF CMove
    <3>8. CASE /\ proc'["C"].st = "run" /\ ~proc'["C"].event /\ proc'["C"].status = proc["C"].status
               /\ Code[ppc].req # "DETACH" => proc'["C"].traced
               /\ proc'["C"].mode # "CONT" => Code[ppc].req = proc'["C"].mode /\ Works(Code[ppc].req)
      <4>1. Resumes
        BY ONLY <1>5, <3>3, <3>4, <3>8 DEF Resumes, Same
      <4>. QED  BY <4>1 DEF CMove
    <3>. QED  BY <3>5, <3>6, <3>7, <3>8
  <2>. QED  BY <2>1, <2>2
<1>6. CASE PAttach
  <2>1. \/ proc' = proc
        \/ proc' = [proc EXCEPT !["C"].traced = TRUE, !["C"].pend = TRUE] /\ Works(Code[ppc].req)
    BY <1>6 DEF PAttach
  <2>2. Code[ppc].req = "ATTACH" /\ test \in {"t019", "t020"}
    <3>1. StmtOK(ppc) /\ Code[ppc].op = "attach"
      BY <1>6 DEF PAttach, At, TextOK
    <3>. QED  BY <3>1 DEF StmtOK
  <2>3. CASE proc' = [proc EXCEPT !["C"].traced = TRUE, !["C"].pend = TRUE] /\ Works(Code[ppc].req)
    <3>1. Attaches
      BY <1>1, <2>2, <2>3 DEF Attaches, Same, Fields
    <3>. QED  BY <3>1 DEF CMove
  <2>. QED  BY <1>2, <2>1, <2>3
<1>7. CASE PKill
  <2>1. CASE proc'["C"] = proc["C"]
    BY <2>1 DEF CMove
  <2>2. CASE proc'["C"] # proc["C"]
    <3>1. StmtOK(ppc) /\ Code[ppc].op = "kill"
      BY <1>7 DEF PKill, At, TextOK
    <3>2. Code[ppc].who \in {"C", "G"} /\ (Code[ppc].who = "C" => Code[ppc].sig = "STOP")
      BY <3>1 DEF StmtOK
    <3>3. Code[ppc].who = "C" /\ Code[ppc].sig = "STOP"
      BY <1>1, <1>7, <2>2, <3>2 DEF PKill
    <3>4. proc' = [proc EXCEPT !["C"] = CASE Dead(proc["C"].st) -> proc["C"]
                   [] "STOP" = "KILL" -> Ended("C", "sig", "KILL")
                   [] "STOP" = "STOP" -> [proc["C"] EXCEPT !.pend = TRUE]]
      BY <1>7, <2>2, <3>3 DEF PKill
    <3>5. \/ proc' = [proc EXCEPT !["C"] = proc["C"]]
          \/ proc' = [proc EXCEPT !["C"] = [proc["C"] EXCEPT !.pend = TRUE]]
      BY ONLY <3>4
    <3>6. Same({"traced", "event", "status", "mode"}) /\ proc'["C"].st = proc["C"].st
      BY <1>1, <3>5 DEF Same, Fields
    <3>. QED  BY <3>6 DEF CMove
  <2>. QED  BY <2>1, <2>2
<1>8. CASE CTraceme
  <2>1. CASE CExit("-1")
    BY <1>8, <2>1, ExitMoves DEF CTraceme, CAt
  <2>2. CASE proc' = [proc EXCEPT !["C"].traced = Works("TRACEME")] /\ "TRACEME" \notin fault.refused /\ cpc' = cpc + 1
    <3>1. cpc = TraceAt[test] /\ cpc \in Nat /\ cpc >= 1
      BY <1>8 DEF CTraceme, CAt, TextOK, CStmtOK
    <3>2. ~proc["C"].traced /\ test \notin {"t019", "t020"}
      BY <3>1 DEF BaseInv, ChildInv, TextOK
    <3>3. proc["C"].st = "run"
      BY <1>8 DEF CTraceme, CAt
    <3>4. Traces
      BY <1>1, <2>2, <3>2, <3>3 DEF Traces, Same, Fields
    <3>. QED  BY <3>4 DEF CMove
  <2>. QED  BY <1>8, <2>1, <2>2 DEF CTraceme
<1>9. CASE CInsn
  <2>1. /\ proc["C"].st = "run" /\ cpc \in 1..Len(CCode) /\ CCode[cpc].op \in {"site", "insn", "storeinsn"}
        /\ \/ proc' = proc
           \/ \E sig \in {"TRAP", "ILL"} : proc' = [proc EXCEPT !["C"] = Raised("C", sig)] /\ cpc' = cpc
           \/ proc' = [proc EXCEPT !["C"] = Stopped("C", "TRAP")]
    BY <1>9 DEF CInsn, CAt
  <2>. QED  BY <1>2, <2>1, RaisedMoves, StoppedMoves
<1>10. CASE CStoreInsn
  <2>1. /\ proc["C"].st = "run" /\ cpc \in 1..Len(CCode) /\ CCode[cpc].op \in {"site", "insn", "storeinsn"}
        /\ \/ proc' = proc
           \/ \E sig \in {"TRAP", "ILL"} : proc' = [proc EXCEPT !["C"] = Raised("C", sig)] /\ cpc' = cpc
    BY <1>10 DEF CStoreInsn, CAt
  <2>. QED  BY <1>2, <2>1, RaisedMoves
<1>11. CASE CSyscall \/ CForkEvent
  <2>1. proc["C"].st = "run" /\ (proc' = proc \/ proc' = [proc EXCEPT !["C"] = Stopped("C", "TRAP")])
    BY <1>11 DEF CSyscall, CForkEvent, CAt
  <2>. QED  BY <1>2, <2>1, StoppedMoves
<1>12. CASE CFork
  <2>1. proc'["C"] = proc["C"]
    BY <1>1, <1>12 DEF CFork
  <2>. QED  BY <2>1 DEF CMove
<1>13. CASE CCheckMem \/ CCall
  <2>1. proc["C"].st = "run" /\ (proc' = proc \/ CExit("-1"))
    BY <1>13 DEF CCheckMem, CCall, CAt
  <2>. QED  BY <1>2, <2>1, ExitMoves
<1>14. CASE CEnd
  BY <1>14, ExitMoves DEF CEnd
<1>15. CASE TakeStop("C")
  BY <1>15, StoppedMoves DEF TakeStop
<1>16. CASE TakeStop("G") \/ GExit
  <2>1. proc'["C"] = proc["C"]
    BY <1>1, <1>16 DEF TakeStop, GExit
  <2>. QED  BY <2>1 DEF CMove
<1>. QED  BY <1>2, <1>3, <1>4, <1>5, <1>6, <1>7, <1>8, <1>9, <1>10, <1>11, <1>12, <1>13, <1>14, <1>15, <1>16, Frames

\* What these moves say about the state of the child.
LEMMA MoveFields ==
  ASSUME CMove
  PROVE  /\ \/ proc'["C"].traced = proc["C"].traced
            \/ Held /\ (test # "t020" => proc'["C"].traced)
            \/ proc'["C"].traced /\ test \in {"t019", "t020"} /\ Works("ATTACH")
            \/ /\ ~proc["C"].traced /\ proc["C"].st = "run" /\ test \notin {"t019", "t020"}
               /\ proc'["C"].traced => Works("TRACEME") /\ "TRACEME" \notin fault.refused
         /\ \/ proc'["C"].mode = proc["C"].mode
            \/ /\ proc'["C"].mode = "SYSCALL" => test = "t016" /\ Works("SYSCALL")
               /\ proc'["C"].mode = "SINGLESTEP" => test = "t017" /\ Works("SINGLESTEP")
         /\ \/ proc'["C"].status = proc["C"].status
            \/ \E v : proc'["C"].status = [kind |-> "stop", val |-> v]
            \/ \E v : proc'["C"].status = [kind |-> "exit", val |-> v] /\ (v = "0" => cpc > Len(CCode)) /\ cpc' = cpc
            \/ /\ \E v : v # "KILL" /\ proc'["C"].status = [kind |-> "sig", val |-> v]
               /\ ~proc["C"].traced /\ proc'["C"].traced = proc["C"].traced /\ test \notin {"t019", "t020"}
            \/ proc'["C"].status = [kind |-> "sig", val |-> "KILL"] /\ test = "t018" /\ Works("KILL")
         /\ \/ proc'["C"].st = proc["C"].st
            \/ PStart
            \/ proc["C"].st \in {"run", "stop"}
            \/ proc["C"].event /\ proc["C"].st = "dead" /\ proc'["C"].st = "gone"
<1>1. CASE proc'["C"] = proc["C"]
  BY <1>1
<1>2. CASE Same({"traced", "event", "status", "mode"}) /\ (PStart \/ proc'["C"].st = proc["C"].st)
  BY ONLY <1>2 DEF Same
<1>3. CASE Reports
  BY ONLY <1>3 DEF Reports, Same
<1>4. CASE Stops
  BY ONLY <1>4 DEF Stops, Same
<1>5. CASE Exits
  BY ONLY <1>5 DEF Exits, Same
<1>6. CASE Dies
  BY ONLY <1>6 DEF Dies, Same
<1>7. CASE Killed
  BY ONLY <1>7 DEF Killed, Same, Held
<1>8. CASE Resumes
  BY ONLY <1>8 DEF Resumes, Same, Held
<1>9. CASE Attaches
  BY ONLY <1>9 DEF Attaches, Same
<1>10. CASE Traces
  BY ONLY <1>10 DEF Traces, Same
<1>. QED  BY <1>1, <1>2, <1>3, <1>4, <1>5, <1>6, <1>7, <1>8, <1>9, <1>10 DEF CMove

\* A child that has ended moves no more.
LEMMA Settled ==
  ASSUME BaseInv, CMove, proc["C"].st \in {"dead", "gone"}
  PROVE  proc'["C"].status = proc["C"].status /\ (proc["C"].st = "gone" /\ ~PStart => proc'["C"].st = "gone")
<1>1. proc["C"].event => proc["C"].st \in {"stop", "dead"}
  BY DEF BaseInv, ProcInv
<1>2. CASE proc'["C"] = proc["C"]
  BY <1>2
<1>3. CASE Same({"traced", "event", "status", "mode"}) /\ (PStart \/ proc'["C"].st = proc["C"].st)
  BY ONLY <1>3 DEF Same
<1>4. CASE Reports
  BY ONLY <1>1, <1>4 DEF Reports, Same
<1>5. CASE Attaches
  BY ONLY <1>5 DEF Attaches, Same
<1>. QED  BY <1>2, <1>3, <1>4, <1>5 DEF CMove, Stops, Exits, Dies, Killed, Resumes, Traces, Held

\* A wait() that goes on has reported a stop of a traced child.
LEMMA WaitMeetsTraced ==
  ASSUME BaseInv, PWait
  PROVE  proc'["C"].traced \/ Jump(Code[ppc].fail)
<1>1. SUFFICES ASSUME ~Jump(Code[ppc].fail)
               PROVE  proc'["C"].traced
  OBVIOUS
<1>2. proc["C"].event /\ proc["C"].status.kind = "stop" /\ proc' = Reaped("C")
  BY <1>1 DEF PWait, Waitable
<1>3. proc["C"].traced
  BY <1>2 DEF BaseInv, ChildInv, ProcInv
<1>4. DOMAIN proc = {"C", "G"} /\ DOMAIN proc["C"] = Fields
  BY DEF BaseInv, Shape
<1>. QED  BY ONLY <1>2, <1>3, <1>4 DEF Reaped, Fields

\* The parent meets a traced child.
LEMMA NextTraced ==
  ASSUME TextOK, BaseInv, RetInv, TracedInv, [Next]_vars, CMove
  PROVE  TracedInv'
<1>1. test' = test /\ OkAt[test]' = OkAt[test] /\ WaitAt[test]' = WaitAt[test]
  BY Frames, TextStays
<1>2. SUFFICES ASSUME test \notin {"t000", "t020"}, ppc' > WaitAt[test], ret' = "ok" \/ ppc' <= OkAt[test]
               PROVE  proc'["C"].traced
  BY <1>1 DEF TracedInv
<1>3. /\ ppc \in Nat /\ WaitAt[test] \in Nat /\ OkAt[test] \in Nat /\ Len(Code) \in Nat /\ WaitAt[test] >= 1
      /\ OkAt[test] <= Len(Code) /\ WaitAt[test] <= Len(Code)
      /\ test # "t021" => WaitAt[test] < OkAt[test]
  BY <1>2 DEF BaseInv, Counters, TextOK
<1>4. CASE ppc > WaitAt[test] /\ (ret = "ok" \/ ppc <= OkAt[test])
  <2>1. proc["C"].traced
    BY <1>2, <1>4 DEF TracedInv
  <2>. QED  BY <1>2, <2>1, MoveFields
<1>5. CASE UNCHANGED <<ppc, ret>>
  BY <1>2, <1>4, <1>5
<1>6. CASE PStart
  <2>1. ppc' \in {0, 1}
    BY <1>6 DEF PStart
  <2>. QED  BY <1>2, <1>3, <2>1
<1>7. CASE Statement /\ ~(ppc > WaitAt[test] /\ (ret = "ok" \/ ppc <= OkAt[test]))
  <2>1. PStep
    BY <1>7, StatementSteps
  <2>2. /\ ppc' \in Nat /\ ppc' > ppc
        /\ \/ ppc' = ppc + 1 /\ ret' = "ok" /\ ppc = OkAt[test]
           \/ ppc' = ppc + 1 /\ ret' \in {ret, "fail"}
           \/ ppc' = ppc + 2 /\ ret' = ret /\ ppc >= WaitAt[test] /\ Code[ppc].fail = "skip"
           \/ ppc' = Len(Code) /\ ppc' > OkAt[test] /\ ret' = ret /\ ppc \in H
           \/ ppc' = Len(Code) + 1 /\ ret' = ret
           \/ ret' = "fail" /\ ppc' > OkAt[test]
    BY <2>1, PStepTo
  <2>3. ret = "ok" => ppc > OkAt[test]
    BY DEF RetInv
  <2>4. ppc \in H => ppc > WaitAt[test]
    BY DEF TextOK
  <2>5. StmtOK(ppc)
    BY <2>1 DEF PStep, TextOK
  <2>6. CASE ppc = WaitAt[test]
    <3>1. Code[ppc].op = "wait"
      BY <2>5, <2>6 DEF StmtOK
    <3>2. PWait
      BY <1>7, <3>1 DEF Statement, PStopSig, PGet, PSet, PCheck, PMustFail, PGetInfo, PCheckInfo, PSetInfo,
         PResume, PAttach, PKill, PSem, PRead, POk, At
    <3>3. CASE Jump(Code[ppc].fail)
      <4>1. Code[ppc].fail = "out" \/ (Code[ppc].fail = "contret" /\ test = "t021")
        BY <2>5, <3>1 DEF StmtOK
      <4>2. Code[ppc].fail = "contret" => OkAt[test] < Len(Code)
        BY <2>5, <3>1 DEF StmtOK
      <4>3. Code[ppc].fail = "out" => test # "t021"
        BY <2>5, <3>1 DEF StmtOK
      <4>4. PICK f : f = Code[ppc].fail /\ Jump(f)
        BY <3>3
      <4>5. f = "out" => ppc' = Len(Code) + 1 /\ ret' = ret
        BY ONLY <4>4, JumpTo
      <4>6. f = "contret" => ppc' = Len(Code) /\ ret' = "fail"
        BY ONLY <4>4, JumpTo
      <4>. QED  BY ONLY <1>2, <1>3, <2>3, <2>6, <4>1, <4>2, <4>3, <4>4, <4>5, <4>6
    <3>. QED  BY <3>2, <3>3, WaitMeetsTraced
  <2>7. CASE ppc < WaitAt[test]
    <3>1. test # "t021"
      <4>1. SUFFICES ASSUME test = "t021" PROVE FALSE
        OBVIOUS
      <4>2. OkAt[test] = 1 /\ WaitAt[test] = 3
        BY <4>1 DEF OkAt, WaitAt
      <4>3. Code[1].op = "ok" /\ Code[2].op = "read" /\ Code[2].fail = "outret"
        BY <4>1, Text021
      <4>4. ppc \in {1, 2}
        BY ONLY <1>3, <2>1, <2>7, <4>2 DEF PStep
      <4>5. \/ ppc = 1 /\ ppc' = 2
            \/ ppc = 2 /\ ppc' = 3
            \/ ppc = 2 /\ Jump(Code[2].fail)
        BY ONLY <2>1, <4>3, <4>4 DEF PStep, Advance
      <4>6. CASE ppc = 2 /\ Jump(Code[2].fail)
        <5>1. PICK f : f = Code[2].fail /\ Jump(f)
          BY <4>6
        <5>2. ppc' = Len(Code) + 1 /\ ret' = "fail"
          BY ONLY <4>3, <5>1, JumpTo
        <5>. QED  BY ONLY <1>2, <1>3, <5>2
      <4>. QED  BY ONLY <1>2, <4>2, <4>5, <4>6
    <3>. QED  BY ONLY <1>2, <1>3, <2>2, <2>3, <2>4, <2>7, <3>1
  <2>. QED  BY ONLY <1>2, <1>3, <1>7, <2>2, <2>3, <2>6, <2>7
<1>. QED  BY <1>4, <1>5, <1>6, <1>7, Frames

\* Why the child is traced, how it runs, and what its end means.
LEMMA NextChild ==
  ASSUME TextOK, BaseInv, RunInv, [Next]_vars, CMove
  PROVE  TraceInv' /\ ModeInv' /\ StatusInv' /\ SigInv' /\ ExitInv'
<1>1. test' = test /\ fault' = fault /\ Len(CCode)' = Len(CCode)
  BY Frames, TextStays
<1>2. proc["C"].status.kind \in {"exit", "sig"} => proc["C"].st \in {"dead", "gone"}
  BY DEF BaseInv, ChildInv
<1>3. TraceInv'
  BY <1>1, MoveFields DEF RunInv, TraceInv, Works, Held
<1>4. ModeInv'
  BY <1>1, MoveFields DEF RunInv, ModeInv, Works
<1>5. StatusInv'
  BY MoveFields DEF RunInv, StatusInv
<1>6. SigInv'
  <2>1. SUFFICES ASSUME proc'["C"].status.kind = "sig"
                 PROVE  \/ test = "t018" /\ proc'["C"].status.val = "KILL" /\ Works("KILL")
                        \/ test \notin {"t019", "t020"} /\ ~proc'["C"].traced /\ proc'["C"].status.val # "KILL"
    BY <1>1 DEF SigInv, Works
  <2>2. CASE proc'["C"].status = proc["C"].status
    <3>1. /\ \/ test = "t018" /\ proc["C"].status.val = "KILL" /\ Works("KILL")
             \/ test \notin {"t019", "t020"} /\ ~proc["C"].traced /\ proc["C"].status.val # "KILL"
          /\ proc["C"].st \in {"dead", "gone"}
      BY <1>2, <2>1, <2>2 DEF RunInv, SigInv
    <3>2. \/ proc'["C"].traced = proc["C"].traced
          \/ test \in {"t019", "t020"}
      BY <3>1, MoveFields DEF Held
    <3>. QED  BY ONLY <2>2, <3>1, <3>2
  <2>3. CASE proc'["C"].status # proc["C"].status
    <3>1. \/ \E v : proc'["C"].status = [kind |-> "stop", val |-> v]
          \/ \E v : proc'["C"].status = [kind |-> "exit", val |-> v] /\ (v = "0" => cpc > Len(CCode)) /\ cpc' = cpc
          \/ /\ \E v : v # "KILL" /\ proc'["C"].status = [kind |-> "sig", val |-> v]
             /\ ~proc["C"].traced /\ proc'["C"].traced = proc["C"].traced /\ test \notin {"t019", "t020"}
          \/ proc'["C"].status = [kind |-> "sig", val |-> "KILL"] /\ test = "t018" /\ Works("KILL")
      BY <2>3, MoveFields
    <3>2. CASE /\ \E v : v # "KILL" /\ proc'["C"].status = [kind |-> "sig", val |-> v]
               /\ ~proc["C"].traced /\ proc'["C"].traced = proc["C"].traced /\ test \notin {"t019", "t020"}
      <4>1. ~proc'["C"].traced
        BY ONLY <3>2
      <4>2. proc'["C"].status.val # "KILL"
        BY ONLY <3>2
      <4>. QED  BY ONLY <3>2, <4>1, <4>2
    <3>3. CASE proc'["C"].status = [kind |-> "sig", val |-> "KILL"] /\ test = "t018" /\ Works("KILL")
      BY ONLY <3>3
    <3>4. ~\E v : proc'["C"].status \in {[kind |-> "stop", val |-> v], [kind |-> "exit", val |-> v]}
      BY ONLY <2>1
    <3>. QED  BY ONLY <3>1, <3>2, <3>3, <3>4
  <2>. QED  BY <2>2, <2>3
<1>7. ExitInv'
  <2>1. SUFFICES ASSUME proc'["C"].status = [kind |-> "exit", val |-> "0"]
                 PROVE  cpc' = Len(CCode) + 1
    BY <1>1 DEF ExitInv
  <2>2. CASE proc'["C"].status = proc["C"].status
    <3>1. cpc = Len(CCode) + 1 /\ proc["C"].st \in {"dead", "gone"}
      BY <1>2, <2>1, <2>2 DEF RunInv, ExitInv
    <3>2. ~Child
      BY <3>1 DEF Child, CTraceme, CStore, CInsn, CStoreInsn, CSyscall, CFork, CForkEvent, CSem, CCheckMem, CCall,
         CEnd, CAt
    <3>. QED  BY <3>1, <3>2, Frames
  <2>3. CASE proc'["C"].status # proc["C"].status
    <3>1. \/ \E v : proc'["C"].status = [kind |-> "stop", val |-> v]
          \/ \E v : proc'["C"].status = [kind |-> "exit", val |-> v] /\ (v = "0" => cpc > Len(CCode)) /\ cpc' = cpc
          \/ /\ \E v : v # "KILL" /\ proc'["C"].status = [kind |-> "sig", val |-> v]
             /\ ~proc["C"].traced /\ proc'["C"].traced = proc["C"].traced /\ test \notin {"t019", "t020"}
          \/ proc'["C"].status = [kind |-> "sig", val |-> "KILL"] /\ test = "t018" /\ Works("KILL")
      BY <2>3, MoveFields
    <3>2. cpc > Len(CCode) /\ cpc' = cpc
      <4>1. proc'["C"].status.kind = "exit" /\ proc'["C"].status.val = "0"
        BY ONLY <2>1
      <4>2. ~\E v : proc'["C"].status \in {[kind |-> "stop", val |-> v], [kind |-> "sig", val |-> v]}
        BY ONLY <4>1
      <4>3. PICK v : proc'["C"].status = [kind |-> "exit", val |-> v] /\ (v = "0" => cpc > Len(CCode)) /\ cpc' = cpc
        BY ONLY <3>1, <4>2
      <4>. QED  BY ONLY <4>1, <4>3
    <3>. QED  BY <3>2 DEF BaseInv, Counters, TextOK
  <2>. QED  BY <2>2, <2>3
<1>. QED  BY <1>3, <1>4, <1>5, <1>6, <1>7

\* The verdict.
LEMMA NextVerdict ==
  ASSUME TextOK, BaseInv, RunInv, [Next]_vars, CMove
  PROVE  VerdictInv'
<1>1. test' = test /\ Len(Code)' = Len(Code)
  BY Frames, TextStays
<1>2. CASE verdict = "ok"
  <2>1. ~Statement /\ ~PStart
    BY <1>2, StatementSteps DEF PStep, PStart
  <2>2. UNCHANGED <<ppc, ret>>
    BY <2>1, Frames
  <2>3. proc["C"].st = "gone" => proc'["C"].st = "gone" /\ proc'["C"].status = proc["C"].status
    BY <2>1, Settled
  <2>. QED  BY <1>1, <1>2, <2>2, <2>3 DEF RunInv, VerdictInv
<1>3. CASE verdict # "ok" /\ verdict' # "ok"
  BY <1>3 DEF VerdictInv
<1>4. CASE verdict # "ok" /\ verdict' = "ok" /\ test = "t000"
  BY <1>1, <1>4 DEF VerdictInv
<1>5. CASE verdict # "ok" /\ verdict' = "ok" /\ test # "t000"
  <2>1. PVerdict
    BY <1>5, Frames DEF PStart
  <2>2. Test[test].verdict # "none"
    BY <1>5 DEF TextOK
  <2>3. /\ ppc > Len(Code) /\ UNCHANGED <<ppc, ret>> /\ ret = "ok"
        /\ \E p \in Waitable("any") : proc' = Reaped(p) /\ Judgement(proc[p].status)
    BY <1>5, <2>1, <2>2 DEF PVerdict
  <2>4. ppc = Len(Code) + 1
    BY <2>3 DEF BaseInv, Counters, TextOK
  <2>5. CASE test = "t015"
    BY <1>1, <2>3, <2>4, <2>5 DEF VerdictInv
  <2>6. CASE test # "t015"
    <3>1. ~proc["G"].event
      BY <2>6 DEF BaseInv, GrandInv, NoProc
    <3>2. proc["C"].event /\ proc' = Reaped("C") /\ Judgement(proc["C"].status)
      BY <2>3, <3>1 DEF Waitable
    <3>3. PICK k, v : proc["C"].status = [kind |-> k, val |-> v]
      BY DEF RunInv, StatusInv
    <3>4. /\ k \in {"exit", "sig"} => proc["C"].st = "dead"
          /\ proc'["C"].status = proc["C"].status
          /\ proc["C"].st = "dead" => proc'["C"].st = "gone"
      BY <3>2, <3>3, ReapedFields DEF BaseInv, ChildInv, ProcInv
    <3>5. CASE test = "t018"
      <4>1. k = "sig" /\ v = "KILL"
        BY <3>2, <3>3, <3>5 DEF Judgement, TextOK
      <4>. QED  BY ONLY <1>1, <2>3, <2>4, <3>3, <3>4, <3>5, <4>1 DEF VerdictInv
    <3>6. CASE test # "t018"
      <4>1. k = "sig" \/ (k = "exit" /\ v = "0")
        BY <3>2, <3>3, <3>6 DEF Judgement, WEXITSTATUSisZero, TextOK
      <4>2. k # "sig"
        <5>1. SUFFICES ASSUME k = "sig" PROVE FALSE
          OBVIOUS
        <5>2. test \notin {"t019", "t020"} /\ ~proc["C"].traced
          BY <3>3, <3>6, <5>1 DEF RunInv, SigInv
        <5>3. ppc > WaitAt[test]
          BY <2>4 DEF TextOK
        <5>. QED  BY <1>5, <2>3, <5>2, <5>3 DEF RunInv, TracedInv
      <4>. QED  BY ONLY <1>1, <2>3, <2>4, <3>3, <3>4, <3>6, <4>1, <4>2 DEF VerdictInv
    <3>. QED  BY <3>5, <3>6
  <2>. QED  BY <2>5, <2>6
<1>. QED  BY <1>2, <1>3, <1>4, <1>5

\* RunInv holds at the start.
LEMMA InitRun == Init => RunInv
<1>. SUFFICES ASSUME Init PROVE RunInv
  OBVIOUS
<1>1. test \in DOMAIN Test
  BY CasesAssumption DEF Init
<1>2. TextOK
  BY <1>1, TextHolds
<1>3. ppc = 0 /\ ret = "fail" /\ verdict = "none" /\ proc = [p \in {"C", "G"} |-> NoProc]
  BY DEF Init
<1>4. proc["C"] = NoProc
  BY <1>3
<1>5. RetInv /\ VerdictInv
  BY <1>3 DEF RetInv, VerdictInv
<1>6. PassInv /\ TracedInv
  BY <1>2, <1>3 DEF PassInv, TracedInv, Past, TextOK
<1>7. /\ ~proc["C"].traced /\ proc["C"].mode = "CONT"
      /\ proc["C"].status = [kind |-> "none", val |-> "none"] /\ proc["C"].status.kind = "none"
  BY <1>4 DEF NoProc, NoStatus
<1>8. TraceInv /\ ModeInv /\ StatusInv /\ SigInv
  BY ONLY <1>7 DEF TraceInv, ModeInv, StatusInv, SigInv
<1>9. ExitInv
  BY ONLY <1>7 DEF ExitInv
<1>. QED  BY <1>5, <1>6, <1>8, <1>9 DEF RunInv

\* Every step keeps it.
LEMMA NextRun ==
  ASSUME BaseInv, RunInv, [Next]_vars
  PROVE  RunInv'
<1>1. TextOK
  BY TextHolds DEF BaseInv, Counters
<1>2. CMove
  BY <1>1, ChildMoves
<1>3. RetInv' /\ PassInv'
  BY <1>1, NextPass DEF RunInv
<1>4. TracedInv'
  BY <1>1, <1>2, NextTraced DEF RunInv
<1>. QED  BY <1>1, <1>2, <1>3, <1>4, NextChild, NextVerdict DEF RunInv

\* RunInv is an invariant.
THEOREM Runs == Spec => []RunInv
<1>1. Init => RunInv
  BY InitRun
<1>2. BaseInv /\ RunInv /\ [Next]_vars => RunInv'
  BY NextRun
<1>. QED  BY <1>1, <1>2, Base, PTL DEF Spec

\* A verdict of success comes from the child itself: it has been waited for, and its own program
\* ended with success, or SIGKILL ended it in 018.  015 is left out: there the grandchild's
\* status may stand in for the child's.
THEOREM OkMeansDone == Spec => [](test # "t015" => OkMeansChildDone)
<1>1. RunInv => (test # "t015" => OkMeansChildDone)
  BY DEF RunInv, VerdictInv, OkMeansChildDone
<1>. QED  BY <1>1, Runs, PTL

-----------------------------------------------------------------------------
(***************************************************************************)
(* What the steps do to memory, variables and siginfo, and where the       *)
(* addresses that P follows may point: AddrInv.                            *)
(***************************************************************************)

\* The addresses that pass from the child to P are those of its brk instructions, of the
\* instruction under test and of the device page.
AddrInv ==
  /\ mem["inst_addr"] \in {"none", "site1", "site2"} /\ mem["addr"] \in {"none", "t"}
  /\ reg["brk_addr"] \in {"none", "junk", "site1", "site2"}
  /\ reg["devmap"] \in {"none", "junk", "dev"}
  /\ test \in {"t006", "t017"} => reg["read_val"] \in {"none", "junk", "t"}

\* A variable of parent_func() changes by a request that reads, or by read().
LEMMA RegMoves ==
  ASSUME BaseInv, [Next]_vars
  PROVE  \A r \in Reg :
           \/ reg'[r] = reg[r]
           \/ /\ PGet /\ Code[ppc].to = r
              /\ \/ reg'[r] = "junk"
                 \/ /\ Works(Code[ppc].req) /\ Accepted(Code[ppc].req) /\ Value(Code[ppc].at) \in Cell
                    /\ reg'[r] = Read(Value(Code[ppc].at))
           \/ PRead /\ Code[ppc].to = r /\ reg'[r] \in {"dev", "junk"}
<1>1. DOMAIN reg = Reg
  BY DEF BaseInv, Shape
<1>2. SUFFICES ASSUME NEW r \in Reg, reg'[r] # reg[r]
               PROVE  \/ /\ PGet /\ Code[ppc].to = r
                         /\ \/ reg'[r] = "junk"
                            \/ /\ Works(Code[ppc].req) /\ Accepted(Code[ppc].req) /\ Value(Code[ppc].at) \in Cell
                               /\ reg'[r] = Read(Value(Code[ppc].at))
                      \/ PRead /\ Code[ppc].to = r /\ reg'[r] \in {"dev", "junk"}
  OBVIOUS
<1>3. CASE PGet
  <2>1. \/ reg' = [reg EXCEPT ![Code[ppc].to] = "junk"]
        \/ /\ Works(Code[ppc].req) /\ Accepted(Code[ppc].req) /\ Value(Code[ppc].at) \in Cell
           /\ reg' = [reg EXCEPT ![Code[ppc].to] = Read(Value(Code[ppc].at))]
    BY <1>3 DEF PGet
  <2>2. CASE reg' = [reg EXCEPT ![Code[ppc].to] = "junk"]
    <3>1. Code[ppc].to = r /\ reg'[r] = "junk"
      BY ONLY <1>1, <1>2, <2>2
    <3>. QED  BY <1>3, <3>1
  <2>3. CASE /\ Works(Code[ppc].req) /\ Accepted(Code[ppc].req) /\ Value(Code[ppc].at) \in Cell
             /\ reg' = [reg EXCEPT ![Code[ppc].to] = Read(Value(Code[ppc].at))]
    <3>1. Code[ppc].to = r /\ reg'[r] = Read(Value(Code[ppc].at))
      BY ONLY <1>1, <1>2, <2>3
    <3>. QED  BY <1>3, <2>3, <3>1
  <2>. QED  BY <2>1, <2>2, <2>3
<1>4. CASE PRead
  <2>1. PICK v \in {"dev", "junk"} : reg' = [reg EXCEPT ![Code[ppc].to] = v]
    BY <1>2, <1>4 DEF PRead
  <2>2. Code[ppc].to = r /\ reg'[r] = v
    BY ONLY <1>1, <1>2, <2>1
  <2>. QED  BY <1>4, <2>2
<1>. QED  BY <1>2, <1>3, <1>4, Frames

\* A cell of the child's memory changes by a request that writes, or by the child itself.
LEMMA MemMoves ==
  ASSUME BaseInv, [Next]_vars
  PROVE  \A c \in Cell :
           \/ mem'[c] = mem[c]
           \/ /\ PSet /\ Works(Code[ppc].req) /\ Accepted(Code[ppc].req)
              /\ Value(Code[ppc].at) = c /\ mem'[c] = Value(Code[ppc].val)
           \/ CStore /\ CCode[cpc].at = c /\ mem'[c] = CCode[cpc].val
           \/ CInsn /\ CCode[cpc].op = "site" /\ c = "inst_addr" /\ mem'[c] = CCode[cpc].at
           \/ CStoreInsn /\ CCode[cpc].to = c /\ mem'[c] = CCode[cpc].val
           \/ CSyscall /\ c = "sysno" /\ proc["C"].mode = "SYSCALL" /\ mem'[c] = CCode[cpc].no
           \/ CForkEvent /\ c = "fork_msg"
<1>1. DOMAIN mem = Cell
  BY DEF BaseInv, Shape
<1>2. SUFFICES ASSUME NEW c \in Cell, mem'[c] # mem[c]
               PROVE  \/ /\ PSet /\ Works(Code[ppc].req) /\ Accepted(Code[ppc].req)
                         /\ Value(Code[ppc].at) = c /\ mem'[c] = Value(Code[ppc].val)
                      \/ CStore /\ CCode[cpc].at = c /\ mem'[c] = CCode[cpc].val
                      \/ CInsn /\ CCode[cpc].op = "site" /\ c = "inst_addr" /\ mem'[c] = CCode[cpc].at
                      \/ CStoreInsn /\ CCode[cpc].to = c /\ mem'[c] = CCode[cpc].val
                      \/ CSyscall /\ c = "sysno" /\ proc["C"].mode = "SYSCALL" /\ mem'[c] = CCode[cpc].no
                      \/ CForkEvent /\ c = "fork_msg"
  OBVIOUS
<1>3. CASE PSet
  <2>1. /\ Works(Code[ppc].req) /\ Accepted(Code[ppc].req)
        /\ mem' = [mem EXCEPT ![Value(Code[ppc].at)] = Value(Code[ppc].val)]
    BY <1>2, <1>3 DEF PSet
  <2>2. Value(Code[ppc].at) = c /\ mem'[c] = Value(Code[ppc].val)
    BY ONLY <1>1, <1>2, <2>1
  <2>. QED  BY <1>3, <2>1, <2>2
<1>4. CASE CStore
  <2>1. mem' = [mem EXCEPT ![CCode[cpc].at] = CCode[cpc].val]
    BY <1>4 DEF CStore
  <2>2. CCode[cpc].at = c /\ mem'[c] = CCode[cpc].val
    BY ONLY <1>1, <1>2, <2>1
  <2>. QED  BY <1>4, <2>2
<1>5. CASE CInsn
  <2>1. CCode[cpc].op = "site" /\ mem' = [mem EXCEPT !["inst_addr"] = CCode[cpc].at]
    BY <1>2, <1>5 DEF CInsn
  <2>2. c = "inst_addr" /\ mem'[c] = CCode[cpc].at
    BY ONLY <1>1, <1>2, <2>1
  <2>. QED  BY <1>5, <2>1, <2>2
<1>6. CASE CStoreInsn
  <2>1. mem' = [mem EXCEPT ![CCode[cpc].to] = CCode[cpc].val]
    BY <1>2, <1>6 DEF CStoreInsn
  <2>2. CCode[cpc].to = c /\ mem'[c] = CCode[cpc].val
    BY ONLY <1>1, <1>2, <2>1
  <2>. QED  BY <1>6, <2>2
<1>7. CASE CSyscall
  <2>1. proc["C"].mode = "SYSCALL" /\ mem' = [mem EXCEPT !["sysno"] = CCode[cpc].no]
    BY <1>2, <1>7 DEF CSyscall
  <2>2. c = "sysno" /\ mem'[c] = CCode[cpc].no
    BY ONLY <1>1, <1>2, <2>1
  <2>. QED  BY <1>7, <2>1, <2>2
<1>8. CASE CForkEvent
  <2>1. mem' = [mem EXCEPT !["fork_msg"] = "G"]
    BY <1>2, <1>8 DEF CForkEvent
  <2>2. c = "fork_msg"
    BY ONLY <1>1, <1>2, <2>1
  <2>. QED  BY <1>8, <2>2
<1>. QED  BY <1>2, <1>3, <1>4, <1>5, <1>6, <1>7, <1>8, Frames

\* The siginfo of the child: set by P, or by a stop.
LEMMA InfoMoves ==
  ASSUME [Next]_vars
  PROVE  \/ info' = info
         \/ /\ PSetInfo /\ Works(Code[ppc].req)
            /\ \/ Code[ppc].op = "setinfo" /\ info' = Code[ppc].info
               \/ Code[ppc].op = "restoreinfo" /\ info' = pinfo[Code[ppc].a]
         \/ CInsn /\ mem["hwbrk"] = CCode[cpc].at /\ info' = Trap("HWBKPT", CCode[cpc].at)
         \/ CStoreInsn /\ mem["hwwatch"] = CCode[cpc].to /\ info' = Trap("HWBKPT", CCode[cpc].to)
         \/ CInsn /\ proc["C"].mode = "SINGLESTEP"
         \/ info' = Trap("BRKPT", CCode[cpc].at) \/ info' = [NoInfo EXCEPT !.signo = "ILL"]
         \/ info' = [signo |-> "STOP", code |-> "USER", addr |-> "none"]
<1>1. CASE PSetInfo
  BY <1>1 DEF PSetInfo, At
<1>2. CASE CInsn
  BY <1>2 DEF CInsn
<1>3. CASE CStoreInsn
  BY <1>3 DEF CStoreInsn
<1>4. CASE TakeStop("C")
  BY <1>4 DEF TakeStop
<1>. QED  BY <1>1, <1>2, <1>3, <1>4, Frames

\* A siginfo_t variable of parent_func() changes by PTRACE_GETSIGINFO.
LEMMA PInfoMoves ==
  ASSUME BaseInv, [Next]_vars
  PROVE  \A r \in InfoReg :
           \/ pinfo'[r] = pinfo[r]
           \/ PGetInfo /\ Code[ppc].to = r /\ pinfo'[r] = IF Works(Code[ppc].req) THEN info ELSE JunkInfo
<1>1. DOMAIN pinfo = InfoReg
  BY DEF BaseInv, Shape
<1>2. SUFFICES ASSUME NEW r \in InfoReg, pinfo'[r] # pinfo[r]
               PROVE  PGetInfo /\ Code[ppc].to = r /\ pinfo'[r] = IF Works(Code[ppc].req) THEN info ELSE JunkInfo
  OBVIOUS
<1>3. PGetInfo
  BY <1>2, Frames
<1>4. pinfo' = [pinfo EXCEPT ![Code[ppc].to] = IF Works(Code[ppc].req) THEN info ELSE JunkInfo]
  BY <1>2, <1>3 DEF PGetInfo
<1>5. Code[ppc].to = r /\ pinfo'[r] = IF Works(Code[ppc].req) THEN info ELSE JunkInfo
  BY ONLY <1>1, <1>2, <1>4
<1>. QED  BY <1>3, <1>5

\* The child goes on when nothing stops it.
LEMMA CpcMoves ==
  ASSUME [Next]_vars
  PROVE  \/ cpc' = cpc
         \/ /\ cpc' = cpc + 1 /\ proc["C"].st = "run" /\ cpc \in 1..Len(CCode)
            /\ CCode[cpc].op \in {"site", "insn"} =>
                 mem["hwbrk"] # CCode[cpc].at /\ (CCode[cpc].at \in Text => mem[CCode[cpc].at] = "nop")
            /\ CCode[cpc].op = "ccheck" => mem[CCode[cpc].at] = CCode[cpc].val
            /\ CCode[cpc].op = "cchecknot" => mem[CCode[cpc].at] # CCode[cpc].val
<1>1. CASE CTraceme
  BY <1>1 DEF CTraceme, CAt, CExit
<1>2. CASE CStore
  BY <1>2 DEF CStore, CAt
<1>3. CASE CInsn
  BY <1>3 DEF CInsn, CAt
<1>4. CASE CStoreInsn
  BY <1>4 DEF CStoreInsn, CAt
<1>5. CASE CSyscall
  BY <1>5 DEF CSyscall, CAt
<1>6. CASE CFork
  BY <1>6 DEF CFork, CAt
<1>7. CASE CForkEvent
  BY <1>7 DEF CForkEvent, CAt
<1>8. CASE CSem
  BY <1>8 DEF CSem, CAt
<1>9. CASE CCheckMem
  BY <1>9 DEF CCheckMem, CAt, CExit
<1>10. CASE CCall
  BY <1>10 DEF CCall, CAt, CExit
<1>11. CASE CEnd
  BY <1>11 DEF CEnd, CExit
<1>. QED  BY <1>1, <1>2, <1>3, <1>4, <1>5, <1>6, <1>7, <1>8, <1>9, <1>10, <1>11, Frames DEF Child

\* What a write of P hits.
LEMMA SetWhere ==
  ASSUME TextOK, AddrInv, PSet, Value(Code[ppc].at) \in Cell
  PROVE  /\ Code[ppc].at = "brk_addr" => Value(Code[ppc].at) \in {"site1", "site2"}
         /\ Code[ppc].at = "devmap" => Value(Code[ppc].at) = "dev"
         /\ Code[ppc].at = "read_val" => Value(Code[ppc].at) = "t" /\ test \in {"t006", "t017"}
         /\ Code[ppc].at \notin {"brk_addr", "devmap", "read_val"} =>
              Value(Code[ppc].at) = Code[ppc].at /\ Code[ppc].at \in Named
<1>1. StmtOK(ppc) /\ Code[ppc].op = "set"
  BY DEF PSet, At, TextOK
<1>2. \/ Code[ppc].at \in {"brk_addr", "devmap"} \union Named
      \/ Code[ppc].at = "read_val" /\ test \in {"t006", "t017"}
  BY <1>1 DEF StmtOK
<1>3. "none" \notin Cell /\ "junk" \notin Cell
  BY DEF Cell
<1>4. CASE Code[ppc].at = "brk_addr"
  BY <1>3, <1>4 DEF AddrInv, Value, Reg
<1>5. CASE Code[ppc].at = "devmap"
  BY <1>3, <1>5 DEF AddrInv, Value, Reg
<1>6. CASE Code[ppc].at = "read_val" /\ test \in {"t006", "t017"}
  BY <1>3, <1>6 DEF AddrInv, Value, Reg
<1>7. CASE Code[ppc].at \in Named
  BY ONLY <1>7 DEF Named, Value, Reg
<1>. QED  BY <1>2, <1>4, <1>5, <1>6, <1>7

\* AddrInv is inductive.
LEMMA NextAddr ==
  ASSUME TextOK, BaseInv, AddrInv, [Next]_vars
  PROVE  AddrInv'
<1>1. test' = test
  BY Frames
<1>2. \A i \in 1..Len(Code) : StmtOK(i)
  BY DEF TextOK
<1>3. \A j \in 1..Len(CCode) : CStmtOK(j)
  BY DEF TextOK
<1>4. mem'["inst_addr"] \in {"none", "site1", "site2"}
  <2>1. PICK c \in Cell : c = "inst_addr"
    BY DEF Cell
  <2>2. SUFFICES ASSUME mem'[c] # mem[c] PROVE mem'[c] \in {"site1", "site2"}
    BY <2>1 DEF AddrInv
  <2>3. ~(PSet /\ Value(Code[ppc].at) = c)
    BY <2>1, SetWhere DEF Named
  <2>4. ~(CStore /\ CCode[cpc].at = c)
    BY <1>3, <2>1 DEF CStore, CAt, CStmtOK, Stored
  <2>5. ~(CStoreInsn /\ CCode[cpc].to = c)
    BY <1>3, <2>1 DEF CStoreInsn, CAt, CStmtOK
  <2>6. CInsn /\ CCode[cpc].op = "site" /\ mem'[c] = CCode[cpc].at
    BY <2>1, <2>2, <2>3, <2>4, <2>5, MemMoves
  <2>7. cpc \in 1..Len(CCode)
    BY <2>6 DEF CInsn, CAt
  <2>. QED  BY <1>3, <2>6, <2>7 DEF CStmtOK
<1>5. mem'["addr"] \in {"none", "t"}
  <2>1. PICK c \in Cell : c = "addr"
    BY DEF Cell
  <2>2. SUFFICES ASSUME mem'[c] # mem[c] PROVE mem'[c] = "t"
    BY <2>1 DEF AddrInv
  <2>3. ~(PSet /\ Value(Code[ppc].at) = c)
    BY <2>1, SetWhere DEF Named
  <2>4. ~(CStoreInsn /\ CCode[cpc].to = c)
    BY <1>3, <2>1 DEF CStoreInsn, CAt, CStmtOK
  <2>5. CStore /\ CCode[cpc].at = c /\ mem'[c] = CCode[cpc].val
    BY <2>1, <2>2, <2>3, <2>4, MemMoves
  <2>6. cpc \in 1..Len(CCode) /\ CCode[cpc].op = "store"
    BY <2>5 DEF CStore, CAt
  <2>. QED  BY <1>3, <2>1, <2>5, <2>6 DEF CStmtOK
<1>6. reg'["brk_addr"] \in {"none", "junk", "site1", "site2"}
  <2>1. PICK r \in Reg : r = "brk_addr"
    BY DEF Reg
  <2>2. ~(PRead /\ Code[ppc].to = r)
    BY <1>2, <2>1 DEF PRead, At, StmtOK
  <2>3. PGet /\ Code[ppc].to = r => Code[ppc].at = "inst_addr"
    BY <1>2, <2>1 DEF PGet, At, StmtOK
  <2>4. Read(Value("inst_addr")) = mem["inst_addr"]
    BY DEF Read, Value, Reg
  <2>5. reg'[r] = reg[r] \/ reg'[r] = "junk" \/ reg'[r] = mem["inst_addr"]
    BY <2>2, <2>3, <2>4, RegMoves
  <2>. QED  BY ONLY <2>1, <2>5, AddrInv DEF AddrInv
<1>7. reg'["devmap"] \in {"none", "junk", "dev"}
  <2>1. PICK r \in Reg : r = "devmap"
    BY DEF Reg
  <2>2. ~(PGet /\ Code[ppc].to = r)
    BY <1>2, <2>1 DEF PGet, At, StmtOK
  <2>3. reg'[r] = reg[r] \/ reg'[r] \in {"dev", "junk"}
    BY <2>2, RegMoves
  <2>. QED  BY ONLY <2>1, <2>3, AddrInv DEF AddrInv
<1>8. ASSUME test \in {"t006", "t017"} PROVE reg'["read_val"] \in {"none", "junk", "t"}
  <2>1. PICK r \in Reg : r = "read_val"
    BY DEF Reg
  <2>2. ~(PRead /\ Code[ppc].to = r)
    BY <1>2, <2>1 DEF PRead, At, StmtOK
  <2>3. PGet /\ Code[ppc].to = r => Code[ppc].at = "addr"
    BY <1>2, <1>8, <2>1 DEF PGet, At, StmtOK
  <2>4. Read(Value("addr")) = mem["addr"]
    BY DEF Read, Value, Reg
  <2>5. reg'[r] = reg[r] \/ reg'[r] = "junk" \/ reg'[r] = mem["addr"]
    BY <2>2, <2>3, <2>4, RegMoves
  <2>. QED  BY ONLY <1>8, <2>1, <2>5, AddrInv DEF AddrInv
<1>. QED  BY <1>1, <1>4, <1>5, <1>6, <1>7, <1>8 DEF AddrInv

\* AddrInv is an invariant.
THEOREM Addresses == Spec => []AddrInv
<1>1. Init => AddrInv
  BY DEF Init, AddrInv, Reg, Cell
<1>2. BaseInv /\ AddrInv /\ [Next]_vars => AddrInv'
  BY NextAddr, TextHolds DEF BaseInv, Counters
<1>. QED  BY <1>1, <1>2, Base, PTL DEF Spec

-----------------------------------------------------------------------------
(***************************************************************************)
(* A kernel that carries a request out wrongly: what stops each test.      *)
(***************************************************************************)

InfoIs(i, code, addr) == i.code = code /\ i.addr = addr

\* 001: a broken CONT leaves the child where it stopped.
Broken001 ==
  test = "t001" /\ "CONT" \in fault.broken =>
    /\ cpc <= 2 /\ mem["hwbrk"] = "none"
    /\ proc["C"].st \in {"none", "run"} => mem["site1"] = "brk"

\* 002 and 003: what is read is not what the check wants, or no address.
Broken002 == test = "t002" /\ "PEEKDATA" \in fault.broken => reg["brk_addr"] \notin Cell /\ ~Past(3)
Broken003 == test = "t003" /\ "PEEKTEXT" \in fault.broken => reg["inst"] \in {"none", "junk"} /\ ~Past(6)

\* 005, 006 and 010: the child does not find what P wrote, and does not reach its end.
Broken005 == test = "t005" /\ "POKEDATA" \in fault.broken => mem["buf"] # "PARENT_MAGIC" /\ cpc <= 4
Broken006 ==
  test = "t006" /\ "POKETEXT" \in fault.broken => mem["site1"] = "brk" /\ mem["hwbrk"] = "none" /\ cpc <= 3
Broken010 == test = "t010" /\ "SETREGSET" \in fault.broken => mem["greg"] # "magic" /\ cpc <= 7

\* 009, 011, 012, 013 and 017: the siginfo that the check wants does not come.
Broken009 ==
  test = "t009" /\ "GETSIGINFO" \in fault.broken => pinfo["info"].code \in {"none", "junk"} /\ ~Past(6)
Broken011 ==
  test = "t011" /\ "SETREGSET" \in fault.broken =>
    /\ mem["hwwatch"] # "buf" /\ ~InfoIs(info, "HWBKPT", "buf") /\ ~InfoIs(pinfo["info"], "HWBKPT", "buf")
    /\ ~Past(11)
Broken012 ==
  test = "t012" /\ "SETREGSET" \in fault.broken =>
    /\ mem["hwbrk"] # "t" /\ ~InfoIs(info, "HWBKPT", "t") /\ ~InfoIs(pinfo["info"], "HWBKPT", "t")
    /\ ~Past(11)
Broken013 ==
  test = "t013" /\ "SETSIGINFO" \in fault.broken =>
    info.signo # "TRAP+1" /\ pinfo["tmp_info"].signo # "TRAP+1" /\ ~Past(7)
Broken017 ==
  test = "t017" /\ "SINGLESTEP" \in fault.broken =>
    mem["hwbrk"] = "none" /\ info.code # "HWBKPT" /\ pinfo["info"].code # "HWBKPT" /\ ~Past(15)

\* 015: P compares a value that it read with one that a broken GETEVENTMSG gave it; with a
\* broken PEEKDATA it does not come that far.
Broken015 ==
  test = "t015" /\ "GETEVENTMSG" \in fault.broken =>
    /\ mem["eventpid"] # "junk"
    /\ "PEEKDATA" \in fault.broken => reg["brk_addr"] \notin Cell /\ ~Past(3)
    /\ ppc \in {12, 13} => reg["read_val"] # "junk"
    /\ ppc = 13 => reg["eventmsg"] = "junk"
    /\ ~Past(13)

\* 016: without SYSCALL nothing stops at the call.
Broken016 ==
  test = "t016" /\ "SYSCALL" \in fault.broken =>
    mem["sysno"] # "getpid" /\ reg["sysno_val"] # "getpid" /\ ~Past(7)

\* 021: the device page stays as the child filled it.
Broken021 ==
  test = "t021" /\ "POKEDATA" \in fault.refused \union fault.broken => (cpc > 4 => mem["dev"] = "zero") /\ cpc <= 9

FaultInv ==
  /\ Broken001 /\ Broken002 /\ Broken003 /\ Broken005 /\ Broken006 /\ Broken009 /\ Broken010
  /\ Broken011 /\ Broken012 /\ Broken013 /\ Broken015 /\ Broken016 /\ Broken017 /\ Broken021

\* The statement that P executes is the one it is at.
LEMMA StatementIs ==
  ASSUME Statement
  PROVE  /\ Code[ppc].op = "wait" => PWait
         /\ Code[ppc].op = "stopsig" => PStopSig
         /\ Code[ppc].op = "get" => PGet
         /\ Code[ppc].op = "set" => PSet
         /\ Code[ppc].op = "check" => PCheck
         /\ Code[ppc].op = "mustfail" => PMustFail
         /\ Code[ppc].op = "getinfo" => PGetInfo
         /\ Code[ppc].op = "checkinfo" => PCheckInfo
         /\ Code[ppc].op \in {"setinfo", "restoreinfo"} => PSetInfo
         /\ Code[ppc].op = "resume" => PResume
         /\ Code[ppc].op = "attach" => PAttach
         /\ Code[ppc].op = "kill" => PKill
         /\ Code[ppc].op \in {"post", "semwait"} => PSem
         /\ Code[ppc].op = "read" => PRead
         /\ Code[ppc].op = "ok" => POk
  BY DEF Statement, PWait, PStopSig, PGet, PSet, PCheck, PMustFail, PGetInfo, PCheckInfo, PSetInfo, PResume, PAttach,
     PKill, PSem, PRead, POk, At

\* A place whose statement does not succeed is never passed.
LEMMA NotPast ==
  ASSUME TextOK, BaseInv, RetInv, [Next]_vars, NEW i \in 1..Len(Code), ~Past(i),
         Code[i].fail \notin {"skip", "next", "ret"}, Statement /\ ppc = i => ppc' # ppc + 1
  PROVE  ~Past(i)'
<1>1. CASE Statement
  BY <1>1, StatementSteps, PastBefore
<1>2. CASE UNCHANGED <<ppc, ret>>
  BY <1>2, Frames, TextStays DEF Past
<1>3. CASE PStart
  <2>1. ppc = 0 /\ ppc' \in {0, 1} /\ ret' = ret /\ OkAt[test]' = OkAt[test]
    BY <1>3, TextStays DEF PStart
  <2>2. ret # "ok"
    BY <2>1 DEF RetInv, TextOK
  <2>. QED  BY <2>1, <2>2, i \in 1..Len(Code) DEF Past
<1>. QED  BY <1>1, <1>2, <1>3, Frames

\* A jump to the label cont is not a success.
LEMMA ContJump ==
  ASSUME Jump(Code[ppc].fail), Code[ppc].fail = "cont", ppc + 1 < Len(Code)
  PROVE  ppc' # ppc + 1
<1>1. PICK f : f = Code[ppc].fail /\ Jump(f)
  OBVIOUS
<1>. QED  BY ONLY <1>1, Code[ppc].fail = "cont", ppc + 1 < Len(Code), JumpTo

\* A child that runs has been running, unless P has resumed it.
LEMMA RunMoves ==
  ASSUME BaseInv, CMove, proc'["C"].st \in {"none", "run"}
  PROVE  proc["C"].st \in {"none", "run"} \/ PResume
<1>1. CASE PStart
  BY <1>1 DEF PStart, BaseInv, ChildInv
<1>2. CASE ~PStart
  BY <1>2 DEF CMove, Same, Reports, Stops, Exits, Dies, Killed, Resumes, Attaches, Traces
<1>. QED  BY <1>1, <1>2

\* 001.
LEMMA Next001 ==
  ASSUME TextOK, BaseInv, AddrInv, [Next]_vars, CMove, Broken001
  PROVE  Broken001'
<1>1. SUFFICES ASSUME test = "t001", "CONT" \in fault.broken
               PROVE  /\ cpc' <= 2 /\ mem'["hwbrk"] = "none"
                      /\ proc'["C"].st \in {"none", "run"} => mem'["site1"] = "brk"
  BY Frames DEF Broken001
<1>2. cpc <= 2 /\ mem["hwbrk"] = "none" /\ (proc["C"].st \in {"none", "run"} => mem["site1"] = "brk")
  BY <1>1 DEF Broken001
<1>3. cpc' <= 2
  <2>1. CCode[2].op = "site" /\ CCode[2].at = "site1" /\ Len(CCode) = 2
    BY <1>1, Text001
  <2>2. cpc \in 1..2 /\ (cpc = 2 => CCode[cpc].op = "site" /\ CCode[cpc].at = "site1")
    BY <1>2, <2>1 DEF BaseInv, Counters
  <2>. QED  BY <1>2, <2>2, CpcMoves DEF Text
<1>4. PSet => Code[ppc].at = "brk_addr"
  <2>1. \A i \in 1..Len(Code) : Code[i].op = "set" => Code[i].at = "brk_addr"
    <3>1. /\ Len(Code) = 5 /\ Code[1].op = "wait" /\ Code[2].op = "get"
          /\ Code[3].op = "set" /\ Code[3].at = "brk_addr" /\ Code[4].op = "resume" /\ Code[5].op = "ok"
      BY <1>1, Text001
    <3>. QED  BY ONLY <3>1
  <2>. QED  BY <2>1 DEF PSet, At
<1>5. ~CStore /\ ~CStoreInsn /\ ~CForkEvent /\ ~CSyscall
  <2>1. \A j \in 1..Len(CCode) : CCode[j].op \in {"traceme", "site"}
    <3>1. Len(CCode) = 2 /\ CCode[1].op = "traceme" /\ CCode[2].op = "site"
      BY <1>1, Text001
    <3>. QED  BY ONLY <3>1
  <2>. QED  BY <2>1 DEF CStore, CStoreInsn, CForkEvent, CSyscall, CAt
<1>6. mem'["hwbrk"] = "none"
  <2>1. PICK c \in Cell : c = "hwbrk"
    BY DEF Cell
  <2>. QED  BY <1>2, <1>4, <1>5, <2>1, MemMoves, SetWhere
<1>7. ASSUME proc'["C"].st \in {"none", "run"} PROVE mem'["site1"] = "brk"
  <2>1. proc["C"].st \in {"none", "run"}
    <3>1. ASSUME PResume PROVE proc' = proc \/ proc' = [proc EXCEPT !["C"] = proc["C"]]
      <4>1. Code[ppc].req = "CONT"
        <5>1. \A i \in 1..Len(Code) : Code[i].op = "resume" => Code[i].req = "CONT"
          <6>1. /\ Len(Code) = 5 /\ Code[1].op = "wait" /\ Code[2].op = "get" /\ Code[3].op = "set"
                /\ Code[4].op = "resume" /\ Code[4].req = "CONT" /\ Code[5].op = "ok"
            BY <1>1, Text001
          <6>. QED  BY ONLY <6>1
        <5>. QED  BY <3>1, <5>1 DEF PResume, At
      <4>. QED  BY <1>1, <3>1, <4>1 DEF PResume, Works
    <3>. QED  BY <1>7, <3>1, RunMoves DEF BaseInv, Shape
  <2>2. PICK c \in Cell : c = "site1"
    BY DEF Cell
  <2>. QED  BY <1>2, <1>5, <2>1, <2>2, MemMoves DEF Accepted
<1>. QED  BY <1>3, <1>6, <1>7

\* 002.
LEMMA Next002 ==
  ASSUME TextOK, BaseInv, RetInv, [Next]_vars, Broken002
  PROVE  Broken002'
<1>1. SUFFICES ASSUME test = "t002", "PEEKDATA" \in fault.broken
               PROVE  reg'["brk_addr"] \notin Cell /\ ~Past(3)'
  BY Frames DEF Broken002
<1>2. reg["brk_addr"] \notin Cell /\ ~Past(3)
  BY <1>1 DEF Broken002
<1>3. reg'["brk_addr"] \notin Cell
  <2>1. PICK r \in Reg : r = "brk_addr"
    BY DEF Reg
  <2>2. \A i \in 1..Len(Code) : Code[i].op \in {"get", "read"} => Code[i].op = "get" /\ (Code[i].to = "brk_addr" => Code[i].req = "PEEKDATA")
    <3>1. /\ Len(Code) = 7 /\ Code[1].op = "wait"
          /\ Code[2].op = "get" /\ Code[2].to = "brk_addr" /\ Code[2].req = "PEEKDATA" /\ Code[3].op = "set"
          /\ Code[4].op = "get" /\ Code[4].to = "read_val" /\ Code[4].req = "PEEKDATA" /\ Code[5].op = "check"
          /\ Code[6].op = "ok" /\ Code[7].op = "resume"
      BY <1>1, Text002
    <3>. QED  BY ONLY <3>1
  <2>3. ~PRead /\ (PGet /\ Code[ppc].to = r => Code[ppc].req = "PEEKDATA")
    BY <2>1, <2>2 DEF PRead, PGet, At
  <2>. QED  BY <1>1, <1>2, <2>1, <2>3, RegMoves DEF Works, Cell
<1>4. ~Past(3)'
  <2>1. Len(Code) = 7 /\ Code[3].op = "set" /\ Code[3].at = "brk_addr" /\ Code[3].fail = "cont"
    BY <1>1, Text002
  <2>2. PICK i \in 1..Len(Code) : i = 3
    BY ONLY <2>1
  <2>3. ASSUME Statement, ppc = 3 PROVE ppc' # ppc + 1
    <3>1. PSet
      BY <2>1, <2>3, StatementIs
    <3>2. Jump(Code[ppc].fail)
      BY <1>2, <2>1, <2>3, <3>1 DEF PSet, Value, Reg
    <3>. QED  BY <2>1, <2>3, <3>2, ContJump
  <2>. QED  BY <1>2, <2>1, <2>2, <2>3, NotPast
<1>. QED  BY <1>3, <1>4

\* 003.
LEMMA Next003 ==
  ASSUME TextOK, BaseInv, RetInv, [Next]_vars, Broken003
  PROVE  Broken003'
<1>1. SUFFICES ASSUME test = "t003", "PEEKTEXT" \in fault.broken
               PROVE  reg'["inst"] \in {"none", "junk"} /\ ~Past(6)'
  BY Frames DEF Broken003
<1>2. reg["inst"] \in {"none", "junk"} /\ ~Past(6)
  BY <1>1 DEF Broken003
<1>3. reg'["inst"] \in {"none", "junk"}
  <2>1. PICK r \in Reg : r = "inst"
    BY DEF Reg
  <2>2. \A i \in 1..Len(Code) : Code[i].op \in {"get", "read"} => Code[i].op = "get" /\ (Code[i].to = "inst" => Code[i].req = "PEEKTEXT")
    <3>1. /\ Len(Code) = 8 /\ Code[1].op = "wait"
          /\ Code[2].op = "get" /\ Code[2].to = "brk_addr" /\ Code[2].req = "PEEKDATA" /\ Code[3].op = "set"
          /\ Code[4].op = "get" /\ Code[4].to = "read_val" /\ Code[4].req = "PEEKDATA"
          /\ Code[5].op = "get" /\ Code[5].to = "inst" /\ Code[5].req = "PEEKTEXT" /\ Code[6].op = "check"
          /\ Code[7].op = "ok" /\ Code[8].op = "resume"
      BY <1>1, Text003
    <3>. QED  BY ONLY <3>1
  <2>3. ~PRead /\ (PGet /\ Code[ppc].to = r => Code[ppc].req = "PEEKTEXT")
    BY <2>1, <2>2 DEF PRead, PGet, At
  <2>. QED  BY <1>1, <1>2, <2>1, <2>3, RegMoves DEF Works
<1>4. ~Past(6)'
  <2>1. Len(Code) = 8 /\ Code[6].op = "check" /\ Code[6].a = "inst" /\ Code[6].b = "nop" /\ Code[6].fail = "cont"
    BY <1>1, Text003
  <2>2. PICK i \in 1..Len(Code) : i = 6
    BY ONLY <2>1
  <2>3. ASSUME Statement, ppc = 6 PROVE ppc' # ppc + 1
    <3>1. PCheck
      BY <2>1, <2>3, StatementIs
    <3>2. Jump(Code[ppc].fail)
      BY <1>2, <2>1, <2>3, <3>1 DEF PCheck, Value, Reg
    <3>. QED  BY <2>1, <2>3, <3>2, ContJump
  <2>. QED  BY <1>2, <2>1, <2>2, <2>3, NotPast
<1>. QED  BY <1>3, <1>4

\* 005.
LEMMA Next005 ==
  ASSUME TextOK, BaseInv, AddrInv, [Next]_vars, Broken005
  PROVE  Broken005'
<1>1. SUFFICES ASSUME test = "t005", "POKEDATA" \in fault.broken
               PROVE  mem'["buf"] # "PARENT_MAGIC" /\ cpc' <= 4
  BY Frames DEF Broken005
<1>2. mem["buf"] # "PARENT_MAGIC" /\ cpc <= 4
  BY <1>1 DEF Broken005
<1>3. mem'["buf"] # "PARENT_MAGIC"
  <2>1. PICK c \in Cell : c = "buf"
    BY DEF Cell
  <2>2. \A i \in 1..Len(Code) : Code[i].op = "set" => Code[i].at = "brk_addr" \/ Code[i].req = "POKEDATA"
    <3>1. /\ Len(Code) = 6 /\ Code[1].op = "wait" /\ Code[2].op = "get"
          /\ Code[3].op = "set" /\ Code[3].at = "brk_addr" /\ Code[3].req = "POKETEXT"
          /\ Code[4].op = "set" /\ Code[4].at = "buf" /\ Code[4].req = "POKEDATA" /\ Code[5].op = "ok"
          /\ Code[6].op = "resume"
      BY <1>1, Text005
    <3>. QED  BY ONLY <3>1
  <2>3. \A j \in 1..Len(CCode) : CCode[j].op \in {"store", "storeinsn"} => CCode[j].op = "store" /\ CCode[j].val = "CHILD_MAGIC"
    <3>1. /\ Len(CCode) = 4 /\ CCode[1].op = "traceme" /\ CCode[2].op = "store" /\ CCode[2].val = "CHILD_MAGIC"
          /\ CCode[3].op = "site" /\ CCode[4].op = "ccheck"
      BY <1>1, Text005
    <3>. QED  BY ONLY <3>1
  <2>4. PSet => Code[ppc].at = "brk_addr" \/ Code[ppc].req = "POKEDATA"
    BY <2>2 DEF PSet, At
  <2>5. ~CStoreInsn /\ (CStore => CCode[cpc].val = "CHILD_MAGIC")
    BY <2>3 DEF CStore, CStoreInsn, CAt
  <2>. QED  BY <1>1, <1>2, <2>1, <2>4, <2>5, MemMoves, SetWhere DEF Works
<1>4. cpc' <= 4
  <2>1. CCode[4].op = "ccheck" /\ CCode[4].at = "buf" /\ CCode[4].val = "PARENT_MAGIC" /\ Len(CCode) = 4
    BY <1>1, Text005
  <2>2. cpc \in 1..4 /\ (cpc = 4 => CCode[cpc].op = "ccheck" /\ CCode[cpc].at = "buf" /\ CCode[cpc].val = "PARENT_MAGIC")
    BY <1>2, <2>1 DEF BaseInv, Counters
  <2>. QED  BY <1>2, <2>2, CpcMoves
<1>. QED  BY <1>3, <1>4

\* 006.
LEMMA Next006 ==
  ASSUME TextOK, BaseInv, AddrInv, [Next]_vars, Broken006
  PROVE  Broken006'
<1>1. SUFFICES ASSUME test = "t006", "POKETEXT" \in fault.broken
               PROVE  mem'["site1"] = "brk" /\ mem'["hwbrk"] = "none" /\ cpc' <= 3
  BY Frames DEF Broken006
<1>2. mem["site1"] = "brk" /\ mem["hwbrk"] = "none" /\ cpc <= 3
  BY <1>1 DEF Broken006
<1>3. PSet => Code[ppc].req = "POKETEXT"
  <2>1. \A i \in 1..Len(Code) : Code[i].op = "set" => Code[i].req = "POKETEXT"
    <3>1. /\ Len(Code) = 14 /\ Code[1].op = "wait" /\ Code[2].op = "get"
          /\ Code[3].op = "set" /\ Code[3].req = "POKETEXT" /\ Code[4].op = "get" /\ Code[5].op = "get"
          /\ Code[6].op = "set" /\ Code[6].req = "POKETEXT" /\ Code[7].op = "resume" /\ Code[8].op = "wait"
          /\ Code[9].op = "stopsig" /\ Code[10].op = "getinfo" /\ Code[11].op = "checkinfo"
          /\ Code[12].op = "set" /\ Code[12].req = "POKETEXT" /\ Code[13].op = "ok" /\ Code[14].op = "resume"
      BY <1>1, Text006
    <3>. QED  BY ONLY <3>1
  <2>. QED  BY <2>1 DEF PSet, At
<1>4. (CStore => CCode[cpc].at = "addr") /\ ~CStoreInsn
  <2>1. \A j \in 1..Len(CCode) : CCode[j].op \in {"store", "storeinsn"} => CCode[j].op = "store" /\ CCode[j].at = "addr"
    <3>1. /\ Len(CCode) = 4 /\ CCode[1].op = "traceme" /\ CCode[2].op = "store" /\ CCode[2].at = "addr"
          /\ CCode[3].op = "site" /\ CCode[4].op = "insn"
      BY <1>1, Text006
    <3>. QED  BY ONLY <3>1
  <2>. QED  BY <2>1 DEF CStore, CStoreInsn, CAt
<1>5. mem'["site1"] = "brk"
  <2>1. PICK c \in Cell : c = "site1"
    BY DEF Cell
  <2>. QED  BY <1>1, <1>2, <1>3, <1>4, <2>1, MemMoves DEF Works
<1>6. mem'["hwbrk"] = "none"
  <2>1. PICK c \in Cell : c = "hwbrk"
    BY DEF Cell
  <2>. QED  BY <1>1, <1>2, <1>3, <1>4, <2>1, MemMoves DEF Works
<1>7. cpc' <= 3
  <2>1. CCode[3].op = "site" /\ CCode[3].at = "site1" /\ Len(CCode) = 4
    BY <1>1, Text006
  <2>2. cpc \in 1..3 /\ (cpc = 3 => CCode[cpc].op = "site" /\ CCode[cpc].at = "site1")
    BY <1>2, <2>1 DEF BaseInv, Counters
  <2>. QED  BY <1>2, <2>2, CpcMoves DEF Text
<1>. QED  BY <1>5, <1>6, <1>7

\* 009.
LEMMA Next009 ==
  ASSUME TextOK, BaseInv, RetInv, [Next]_vars, Broken009
  PROVE  Broken009'
<1>1. SUFFICES ASSUME test = "t009", "GETSIGINFO" \in fault.broken
               PROVE  pinfo'["info"].code \in {"none", "junk"} /\ ~Past(6)'
  BY Frames DEF Broken009
<1>2. pinfo["info"].code \in {"none", "junk"} /\ ~Past(6)
  BY <1>1 DEF Broken009
<1>3. pinfo'["info"].code \in {"none", "junk"}
  <2>1. PICK r \in InfoReg : r = "info"
    BY DEF InfoReg
  <2>2. PGetInfo => Code[ppc].req = "GETSIGINFO"
    <3>1. \A i \in 1..Len(Code) : Code[i].op = "getinfo" => Code[i].req = "GETSIGINFO"
      <4>1. /\ Len(Code) = 8 /\ Code[1].op = "semwait" /\ Code[2].op = "kill" /\ Code[3].op = "post"
            /\ Code[4].op = "wait" /\ Code[5].op = "getinfo" /\ Code[5].req = "GETSIGINFO"
            /\ Code[6].op = "checkinfo" /\ Code[7].op = "ok" /\ Code[8].op = "resume"
        BY <1>1, Text009
      <4>. QED  BY ONLY <4>1
    <3>. QED  BY <3>1 DEF PGetInfo, At
  <2>3. JunkInfo.code = "junk"
    BY DEF JunkInfo
  <2>. QED  BY <1>1, <1>2, <2>1, <2>2, <2>3, PInfoMoves DEF Works
<1>4. ~Past(6)'
  <2>1. /\ Len(Code) = 8 /\ Code[6].op = "checkinfo" /\ Code[6].a = "info" /\ Code[6].fail = "cont"
        /\ Code[6].info = [signo |-> "STOP", code |-> "USER", addr |-> "none"]
    BY <1>1, Text009
  <2>2. PICK i \in 1..Len(Code) : i = 6
    BY ONLY <2>1
  <2>3. ASSUME Statement, ppc = 6 PROVE ppc' # ppc + 1
    <3>1. PCheckInfo
      BY <2>1, <2>3, StatementIs
    <3>2. pinfo["info"] # Code[6].info
      BY ONLY <1>2, <2>1
    <3>3. Jump(Code[ppc].fail)
      BY <2>1, <2>3, <3>1, <3>2 DEF PCheckInfo
    <3>. QED  BY <2>1, <2>3, <3>3, ContJump
  <2>. QED  BY <1>2, <2>1, <2>2, <2>3, NotPast
<1>. QED  BY <1>3, <1>4

\* 010.
LEMMA Next010 ==
  ASSUME TextOK, BaseInv, AddrInv, [Next]_vars, Broken010
  PROVE  Broken010'
<1>1. SUFFICES ASSUME test = "t010", "SETREGSET" \in fault.broken
               PROVE  mem'["greg"] # "magic" /\ cpc' <= 7
  BY Frames DEF Broken010
<1>2. mem["greg"] # "magic" /\ cpc <= 7
  BY <1>1 DEF Broken010
<1>3. mem'["greg"] # "magic"
  <2>1. PICK c \in Cell : c = "greg"
    BY DEF Cell
  <2>2. \A i \in 1..Len(Code) : Code[i].op = "set" => Code[i].at \in {"brk_addr", "regno0", "regno1"} \/ Code[i].req = "SETREGSET"
    <3>1. /\ Len(Code) = 22 /\ Code[1].op = "wait" /\ Code[2].op = "get"
          /\ Code[3].op = "set" /\ Code[3].at = "brk_addr" /\ Code[3].req = "POKETEXT" /\ Code[4].op = "get"
          /\ Code[5].op = "check" /\ Code[6].op = "set" /\ Code[6].at = "greg" /\ Code[6].req = "SETREGSET"
          /\ Code[7].op = "get" /\ Code[8].op = "set" /\ Code[8].at = "freg" /\ Code[8].req = "SETREGSET"
          /\ Code[9].op = "get" /\ Code[10].op = "set" /\ Code[10].at = "tls" /\ Code[10].req = "SETREGSET"
          /\ Code[11].op = "get" /\ Code[12].op = "check"
          /\ Code[13].op = "set" /\ Code[13].at = "tls" /\ Code[13].req = "SETREGSET" /\ Code[14].op = "get"
          /\ Code[15].op = "set" /\ Code[15].at = "sysno" /\ Code[15].req = "SETREGSET" /\ Code[16].op = "get"
          /\ Code[17].op = "check" /\ Code[18].op = "set" /\ Code[18].at = "sysno" /\ Code[18].req = "SETREGSET"
          /\ Code[19].op = "set" /\ Code[19].at = "regno0" /\ Code[19].req = "POKEDATA"
          /\ Code[20].op = "set" /\ Code[20].at = "regno1" /\ Code[20].req = "POKEDATA" /\ Code[21].op = "ok"
          /\ Code[22].op = "resume"
      BY <1>1, Text010
    <3>. QED  BY ONLY <3>1
  <2>3. \A j \in 1..Len(CCode) : CCode[j].op \in {"store", "storeinsn"} => CCode[j].op = "store" /\ CCode[j].val = "index"
    <3>1. /\ Len(CCode) = 8 /\ CCode[1].op = "traceme" /\ CCode[2].op = "store" /\ CCode[2].val = "index"
          /\ CCode[3].op = "store" /\ CCode[3].val = "index" /\ CCode[4].op = "site" /\ CCode[5].op = "ccheck"
          /\ CCode[6].op = "ccheck" /\ CCode[7].op = "ccheck" /\ CCode[8].op = "ccheck"
      BY <1>1, Text010
    <3>. QED  BY ONLY <3>1
  <2>4. PSet => Code[ppc].at \in {"brk_addr", "regno0", "regno1"} \/ Code[ppc].req = "SETREGSET"
    BY <2>2 DEF PSet, At
  <2>5. ~CStoreInsn /\ (CStore => CCode[cpc].val = "index")
    BY <2>3 DEF CStore, CStoreInsn, CAt
  <2>. QED  BY <1>1, <1>2, <2>1, <2>4, <2>5, MemMoves, SetWhere DEF Works
<1>4. cpc' <= 7
  <2>1. CCode[7].op = "ccheck" /\ CCode[7].at = "greg" /\ CCode[7].val = "magic" /\ Len(CCode) = 8
    BY <1>1, Text010
  <2>2. cpc \in 1..7 /\ (cpc = 7 => CCode[cpc].op = "ccheck" /\ CCode[cpc].at = "greg" /\ CCode[cpc].val = "magic")
    BY <1>2, <2>1 DEF BaseInv, Counters
  <2>. QED  BY <1>2, <2>2, CpcMoves
<1>. QED  BY <1>3, <1>4

\* 011.
LEMMA Next011 ==
  ASSUME TextOK, BaseInv, RunInv, AddrInv, [Next]_vars, Broken011
  PROVE  Broken011'
<1>1. SUFFICES ASSUME test = "t011", "SETREGSET" \in fault.broken
               PROVE  /\ mem'["hwwatch"] # "buf" /\ ~InfoIs(info', "HWBKPT", "buf")
                      /\ ~InfoIs(pinfo'["info"], "HWBKPT", "buf") /\ ~Past(11)'
  BY Frames DEF Broken011, InfoIs
<1>2. /\ mem["hwwatch"] # "buf" /\ ~InfoIs(info, "HWBKPT", "buf")
      /\ ~InfoIs(pinfo["info"], "HWBKPT", "buf") /\ ~Past(11)
  BY <1>1 DEF Broken011
<1>3. mem'["hwwatch"] # "buf"
  <2>1. PICK c \in Cell : c = "hwwatch"
    BY DEF Cell
  <2>2. \A i \in 1..Len(Code) : Code[i].op = "set" => Code[i].at = "brk_addr" \/ Code[i].req = "SETREGSET"
    <3>1. /\ Len(Code) = 17 /\ Code[1].op = "wait" /\ Code[2].op = "get"
          /\ Code[3].op = "set" /\ Code[3].at = "brk_addr" /\ Code[3].req = "POKETEXT" /\ Code[4].op = "get"
          /\ Code[5].op = "get" /\ Code[6].op = "set" /\ Code[6].at = "hwwatch" /\ Code[6].req = "SETREGSET"
          /\ Code[7].op = "resume" /\ Code[8].op = "wait" /\ Code[9].op = "stopsig" /\ Code[10].op = "getinfo"
          /\ Code[11].op = "checkinfo" /\ Code[12].op = "get" /\ Code[13].op = "check" /\ Code[14].op = "get"
          /\ Code[15].op = "set" /\ Code[15].at = "hwwatch" /\ Code[15].req = "SETREGSET" /\ Code[16].op = "ok"
          /\ Code[17].op = "resume"
      BY <1>1, Text011
    <3>. QED  BY ONLY <3>1
  <2>3. \A j \in 1..Len(CCode) : CCode[j].op \in {"store", "storeinsn"} => (IF CCode[j].op = "store" THEN CCode[j].at = "addr" ELSE CCode[j].to = "buf")
    <3>1. /\ Len(CCode) = 4 /\ CCode[1].op = "traceme" /\ CCode[2].op = "store" /\ CCode[2].at = "addr"
          /\ CCode[3].op = "site" /\ CCode[4].op = "storeinsn" /\ CCode[4].at = "t" /\ CCode[4].to = "buf"
      BY <1>1, Text011
    <3>. QED  BY ONLY <3>1
  <2>4. PSet => Code[ppc].at = "brk_addr" \/ Code[ppc].req = "SETREGSET"
    BY <2>2 DEF PSet, At
  <2>5. (CStore => CCode[cpc].at = "addr") /\ (CStoreInsn => CCode[cpc].to = "buf")
    BY <2>3 DEF CStore, CStoreInsn, CAt
  <2>. QED  BY <1>1, <1>2, <2>1, <2>4, <2>5, MemMoves, SetWhere DEF Works
<1>4. ~InfoIs(info', "HWBKPT", "buf")
  <2>1. \A i \in 1..Len(Code) : Code[i].op \notin {"setinfo", "restoreinfo"}
    <3>1. /\ Len(Code) = 17 /\ Code[1].op = "wait" /\ Code[2].op = "get" /\ Code[3].op = "set"
          /\ Code[4].op = "get" /\ Code[5].op = "get" /\ Code[6].op = "set" /\ Code[7].op = "resume"
          /\ Code[8].op = "wait" /\ Code[9].op = "stopsig" /\ Code[10].op = "getinfo"
          /\ Code[11].op = "checkinfo" /\ Code[12].op = "get" /\ Code[13].op = "check" /\ Code[14].op = "get"
          /\ Code[15].op = "set" /\ Code[16].op = "ok" /\ Code[17].op = "resume"
      BY <1>1, Text011
    <3>. QED  BY ONLY <3>1
  <2>2. \A j \in 1..Len(CCode) : CCode[j].op \in {"site", "insn", "storeinsn"} => (IF CCode[j].op = "storeinsn" THEN CCode[j].to = "buf" ELSE CCode[j].at = "site1")
    <3>1. /\ Len(CCode) = 4 /\ CCode[1].op = "traceme" /\ CCode[2].op = "store"
          /\ CCode[3].op = "site" /\ CCode[3].at = "site1"
          /\ CCode[4].op = "storeinsn" /\ CCode[4].to = "buf" /\ CCode[4].at = "t"
      BY <1>1, Text011
    <3>. QED  BY ONLY <3>1
  <2>3. ~PSetInfo
    BY <2>1 DEF PSetInfo, At
  <2>4. (CInsn => CCode[cpc].at = "site1") /\ (CStoreInsn => CCode[cpc].to = "buf")
    BY <2>2 DEF CInsn, CStoreInsn, CAt
  <2>5. proc["C"].mode # "SINGLESTEP"
    BY <1>1 DEF RunInv, ModeInv
  <2>6. \/ info' = info
        \/ info' = Trap("HWBKPT", "site1")
        \/ info' = Trap("BRKPT", CCode[cpc].at) \/ info' = [NoInfo EXCEPT !.signo = "ILL"]
        \/ info' = [signo |-> "STOP", code |-> "USER", addr |-> "none"]
    BY <1>2, <2>3, <2>4, <2>5, InfoMoves
  <2>. QED  BY ONLY <1>2, <2>6 DEF InfoIs, Trap, NoInfo
<1>5. ~InfoIs(pinfo'["info"], "HWBKPT", "buf")
  <2>1. PICK r \in InfoReg : r = "info"
    BY DEF InfoReg
  <2>2. pinfo'[r] = pinfo[r] \/ pinfo'[r] = info \/ pinfo'[r] = JunkInfo
    BY PInfoMoves
  <2>. QED  BY ONLY <1>2, <2>1, <2>2 DEF InfoIs, JunkInfo
<1>6. ~Past(11)'
  <2>1. /\ Len(Code) = 17 /\ Code[11].op = "checkinfo" /\ Code[11].a = "info" /\ Code[11].fail = "cont"
        /\ Code[11].info = [signo |-> "TRAP", code |-> "HWBKPT", addr |-> "buf"]
    BY <1>1, Text011
  <2>2. PICK i \in 1..Len(Code) : i = 11
    BY ONLY <2>1
  <2>3. ASSUME Statement, ppc = 11 PROVE ppc' # ppc + 1
    <3>1. PCheckInfo
      BY <2>1, <2>3, StatementIs
    <3>2. pinfo["info"] # Code[11].info
      BY ONLY <1>2, <2>1 DEF InfoIs
    <3>3. Jump(Code[ppc].fail)
      BY <2>1, <2>3, <3>1, <3>2 DEF PCheckInfo
    <3>. QED  BY <2>1, <2>3, <3>3, ContJump
  <2>. QED  BY <1>2, <2>1, <2>2, <2>3, NotPast DEF RunInv
<1>. QED  BY <1>3, <1>4, <1>5, <1>6

\* 012.
LEMMA Next012 ==
  ASSUME TextOK, BaseInv, RunInv, AddrInv, [Next]_vars, Broken012
  PROVE  Broken012'
<1>1. SUFFICES ASSUME test = "t012", "SETREGSET" \in fault.broken
               PROVE  /\ mem'["hwbrk"] # "t" /\ ~InfoIs(info', "HWBKPT", "t")
                      /\ ~InfoIs(pinfo'["info"], "HWBKPT", "t") /\ ~Past(11)'
  BY Frames DEF Broken012, InfoIs
<1>2. /\ mem["hwbrk"] # "t" /\ ~InfoIs(info, "HWBKPT", "t")
      /\ ~InfoIs(pinfo["info"], "HWBKPT", "t") /\ ~Past(11)
  BY <1>1 DEF Broken012
<1>3. mem'["hwbrk"] # "t"
  <2>1. PICK c \in Cell : c = "hwbrk"
    BY DEF Cell
  <2>2. \A i \in 1..Len(Code) : Code[i].op = "set" => Code[i].at = "brk_addr" \/ Code[i].req = "SETREGSET"
    <3>1. /\ Len(Code) = 15 /\ Code[1].op = "wait" /\ Code[2].op = "get"
          /\ Code[3].op = "set" /\ Code[3].at = "brk_addr" /\ Code[3].req = "POKETEXT" /\ Code[4].op = "get"
          /\ Code[5].op = "get" /\ Code[6].op = "set" /\ Code[6].at = "hwbrk" /\ Code[6].req = "SETREGSET"
          /\ Code[7].op = "resume" /\ Code[8].op = "wait" /\ Code[9].op = "stopsig" /\ Code[10].op = "getinfo"
          /\ Code[11].op = "checkinfo" /\ Code[12].op = "get"
          /\ Code[13].op = "set" /\ Code[13].at = "hwbrk" /\ Code[13].req = "SETREGSET" /\ Code[14].op = "ok"
          /\ Code[15].op = "resume"
      BY <1>1, Text012
    <3>. QED  BY ONLY <3>1
  <2>3. \A j \in 1..Len(CCode) : CCode[j].op \in {"store", "storeinsn"} => CCode[j].op = "store" /\ CCode[j].at = "addr"
    <3>1. /\ Len(CCode) = 4 /\ CCode[1].op = "traceme" /\ CCode[2].op = "store" /\ CCode[2].at = "addr"
          /\ CCode[3].op = "site" /\ CCode[4].op = "insn"
      BY <1>1, Text012
    <3>. QED  BY ONLY <3>1
  <2>4. PSet => Code[ppc].at = "brk_addr" \/ Code[ppc].req = "SETREGSET"
    BY <2>2 DEF PSet, At
  <2>5. (CStore => CCode[cpc].at = "addr") /\ ~CStoreInsn
    BY <2>3 DEF CStore, CStoreInsn, CAt
  <2>. QED  BY <1>1, <1>2, <2>1, <2>4, <2>5, MemMoves, SetWhere DEF Works
<1>4. ~InfoIs(info', "HWBKPT", "t")
  <2>1. \A i \in 1..Len(Code) : Code[i].op \notin {"setinfo", "restoreinfo"}
    <3>1. /\ Len(Code) = 15 /\ Code[1].op = "wait" /\ Code[2].op = "get" /\ Code[3].op = "set"
          /\ Code[4].op = "get" /\ Code[5].op = "get" /\ Code[6].op = "set" /\ Code[7].op = "resume"
          /\ Code[8].op = "wait" /\ Code[9].op = "stopsig" /\ Code[10].op = "getinfo"
          /\ Code[11].op = "checkinfo" /\ Code[12].op = "get" /\ Code[13].op = "set" /\ Code[14].op = "ok"
          /\ Code[15].op = "resume"
      BY <1>1, Text012
    <3>. QED  BY ONLY <3>1
  <2>2. \A j \in 1..Len(CCode) : CCode[j].op # "storeinsn"
    <3>1. /\ Len(CCode) = 4 /\ CCode[1].op = "traceme" /\ CCode[2].op = "store" /\ CCode[3].op = "site"
          /\ CCode[4].op = "insn"
      BY <1>1, Text012
    <3>. QED  BY ONLY <3>1
  <2>3. ~PSetInfo /\ ~CStoreInsn
    BY <2>1, <2>2 DEF PSetInfo, At, CStoreInsn, CAt
  <2>4. proc["C"].mode # "SINGLESTEP"
    BY <1>1 DEF RunInv, ModeInv
  <2>5. \/ info' = info
        \/ info' = Trap("HWBKPT", CCode[cpc].at) /\ mem["hwbrk"] = CCode[cpc].at
        \/ info' = Trap("BRKPT", CCode[cpc].at) \/ info' = [NoInfo EXCEPT !.signo = "ILL"]
        \/ info' = [signo |-> "STOP", code |-> "USER", addr |-> "none"]
    BY <2>3, <2>4, InfoMoves
  <2>. QED  BY ONLY <1>2, <2>5 DEF InfoIs, Trap, NoInfo
<1>5. ~InfoIs(pinfo'["info"], "HWBKPT", "t")
  <2>1. PICK r \in InfoReg : r = "info"
    BY DEF InfoReg
  <2>2. pinfo'[r] = pinfo[r] \/ pinfo'[r] = info \/ pinfo'[r] = JunkInfo
    BY PInfoMoves
  <2>. QED  BY ONLY <1>2, <2>1, <2>2 DEF InfoIs, JunkInfo
<1>6. ~Past(11)'
  <2>1. /\ Len(Code) = 15 /\ Code[11].op = "checkinfo" /\ Code[11].a = "info" /\ Code[11].fail = "cont"
        /\ Code[11].info = [signo |-> "TRAP", code |-> "HWBKPT", addr |-> "t"]
    BY <1>1, Text012
  <2>2. PICK i \in 1..Len(Code) : i = 11
    BY ONLY <2>1
  <2>3. ASSUME Statement, ppc = 11 PROVE ppc' # ppc + 1
    <3>1. PCheckInfo
      BY <2>1, <2>3, StatementIs
    <3>2. pinfo["info"] # Code[11].info
      BY ONLY <1>2, <2>1 DEF InfoIs
    <3>3. Jump(Code[ppc].fail)
      BY <2>1, <2>3, <3>1, <3>2 DEF PCheckInfo
    <3>. QED  BY <2>1, <2>3, <3>3, ContJump
  <2>. QED  BY <1>2, <2>1, <2>2, <2>3, NotPast DEF RunInv
<1>. QED  BY <1>3, <1>4, <1>5, <1>6

\* 013.
LEMMA Next013 ==
  ASSUME TextOK, BaseInv, RunInv, [Next]_vars, Broken013
  PROVE  Broken013'
<1>1. SUFFICES ASSUME test = "t013", "SETSIGINFO" \in fault.broken
               PROVE  info'.signo # "TRAP+1" /\ pinfo'["tmp_info"].signo # "TRAP+1" /\ ~Past(7)'
  BY Frames DEF Broken013
<1>2. info.signo # "TRAP+1" /\ pinfo["tmp_info"].signo # "TRAP+1" /\ ~Past(7)
  BY <1>1 DEF Broken013
<1>3. info'.signo # "TRAP+1"
  <2>1. \A i \in 1..Len(Code) : Code[i].op \in {"setinfo", "restoreinfo"} => Code[i].req = "SETSIGINFO"
    <3>1. /\ Len(Code) = 10 /\ Code[1].op = "wait" /\ Code[2].op = "get" /\ Code[3].op = "set"
          /\ Code[4].op = "getinfo" /\ Code[5].op = "setinfo" /\ Code[5].req = "SETSIGINFO"
          /\ Code[6].op = "getinfo" /\ Code[7].op = "checkinfo"
          /\ Code[8].op = "restoreinfo" /\ Code[8].req = "SETSIGINFO" /\ Code[9].op = "ok"
          /\ Code[10].op = "resume"
      BY <1>1, Text013
    <3>. QED  BY ONLY <3>1
  <2>2. PSetInfo => ~Works(Code[ppc].req)
    BY <1>1, <2>1 DEF PSetInfo, At, Works
  <2>3. proc["C"].mode # "SINGLESTEP"
    BY <1>1 DEF RunInv, ModeInv
  <2>4. \/ info' = info
        \/ info' = Trap("HWBKPT", CCode[cpc].at) \/ info' = Trap("HWBKPT", CCode[cpc].to)
        \/ info' = Trap("BRKPT", CCode[cpc].at) \/ info' = [NoInfo EXCEPT !.signo = "ILL"]
        \/ info' = [signo |-> "STOP", code |-> "USER", addr |-> "none"]
    BY <2>2, <2>3, InfoMoves
  <2>. QED  BY ONLY <1>2, <2>4 DEF Trap, NoInfo
<1>4. pinfo'["tmp_info"].signo # "TRAP+1"
  <2>1. PICK r \in InfoReg : r = "tmp_info"
    BY DEF InfoReg
  <2>2. pinfo'[r] = pinfo[r] \/ pinfo'[r] = info \/ pinfo'[r] = JunkInfo
    BY PInfoMoves
  <2>. QED  BY ONLY <1>2, <2>1, <2>2 DEF JunkInfo
<1>5. ~Past(7)'
  <2>1. /\ Len(Code) = 10 /\ Code[7].op = "checkinfo" /\ Code[7].a = "tmp_info" /\ Code[7].fail = "cont"
        /\ Code[7].info = [signo |-> "TRAP+1", code |-> "BRKPT+1", addr |-> "any"]
    BY <1>1, Text013
  <2>2. PICK i \in 1..Len(Code) : i = 7
    BY ONLY <2>1
  <2>3. ASSUME Statement, ppc = 7 PROVE ppc' # ppc + 1
    <3>1. PCheckInfo
      BY <2>1, <2>3, StatementIs
    <3>2. pinfo["tmp_info"] # Code[7].info
      BY ONLY <1>2, <2>1
    <3>3. Jump(Code[ppc].fail)
      BY <2>1, <2>3, <3>1, <3>2 DEF PCheckInfo
    <3>. QED  BY <2>1, <2>3, <3>3, ContJump
  <2>. QED  BY <1>2, <2>1, <2>2, <2>3, NotPast DEF RunInv
<1>. QED  BY <1>3, <1>4, <1>5

\* 016.
LEMMA Next016 ==
  ASSUME TextOK, BaseInv, RunInv, AddrInv, [Next]_vars, Broken016
  PROVE  Broken016'
<1>1. SUFFICES ASSUME test = "t016", "SYSCALL" \in fault.broken
               PROVE  mem'["sysno"] # "getpid" /\ reg'["sysno_val"] # "getpid" /\ ~Past(7)'
  BY Frames DEF Broken016
<1>2. mem["sysno"] # "getpid" /\ reg["sysno_val"] # "getpid" /\ ~Past(7)
  BY <1>1 DEF Broken016
<1>3. mem'["sysno"] # "getpid"
  <2>1. PICK c \in Cell : c = "sysno"
    BY DEF Cell
  <2>2. \A i \in 1..Len(Code) : Code[i].op = "set" => Code[i].at = "brk_addr"
    <3>1. /\ Len(Code) = 9 /\ Code[1].op = "wait" /\ Code[2].op = "get"
          /\ Code[3].op = "set" /\ Code[3].at = "brk_addr" /\ Code[4].op = "resume" /\ Code[5].op = "wait"
          /\ Code[6].op = "get" /\ Code[7].op = "check" /\ Code[8].op = "ok" /\ Code[9].op = "resume"
      BY <1>1, Text016
    <3>. QED  BY ONLY <3>1
  <2>3. \A j \in 1..Len(CCode) : CCode[j].op \notin {"store", "storeinsn"}
    <3>1. Len(CCode) = 3 /\ CCode[1].op = "traceme" /\ CCode[2].op = "site" /\ CCode[3].op = "syscall"
      BY <1>1, Text016
    <3>. QED  BY ONLY <3>1
  <2>4. (PSet => Code[ppc].at = "brk_addr") /\ ~CStore /\ ~CStoreInsn
    BY <2>2, <2>3 DEF PSet, At, CStore, CStoreInsn, CAt
  <2>5. proc["C"].mode # "SYSCALL"
    BY <1>1 DEF RunInv, ModeInv, Works
  <2>. QED  BY <1>2, <2>1, <2>4, <2>5, MemMoves, SetWhere
<1>4. reg'["sysno_val"] # "getpid"
  <2>1. PICK r \in Reg : r = "sysno_val"
    BY DEF Reg
  <2>2. \A i \in 1..Len(Code) : Code[i].op \in {"get", "read"} => Code[i].op = "get" /\ (Code[i].to = "sysno_val" => Code[i].at = "sysno")
    <3>1. /\ Len(Code) = 9 /\ Code[1].op = "wait"
          /\ Code[2].op = "get" /\ Code[2].to = "brk_addr" /\ Code[2].at = "inst_addr" /\ Code[3].op = "set"
          /\ Code[4].op = "resume" /\ Code[5].op = "wait"
          /\ Code[6].op = "get" /\ Code[6].to = "sysno_val" /\ Code[6].at = "sysno" /\ Code[7].op = "check"
          /\ Code[8].op = "ok" /\ Code[9].op = "resume"
      BY <1>1, Text016
    <3>. QED  BY ONLY <3>1
  <2>3. ~PRead /\ (PGet /\ Code[ppc].to = r => Code[ppc].at = "sysno")
    BY <2>1, <2>2 DEF PRead, PGet, At
  <2>4. Read(Value("sysno")) = mem["sysno"]
    BY DEF Read, Value, Reg
  <2>. QED  BY <1>2, <2>1, <2>3, <2>4, RegMoves
<1>5. ~Past(7)'
  <2>1. Len(Code) = 9 /\ Code[7].op = "check" /\ Code[7].a = "sysno_val" /\ Code[7].b = "getpid" /\ Code[7].fail = "cont"
    BY <1>1, Text016
  <2>2. PICK i \in 1..Len(Code) : i = 7
    BY ONLY <2>1
  <2>3. ASSUME Statement, ppc = 7 PROVE ppc' # ppc + 1
    <3>1. PCheck
      BY <2>1, <2>3, StatementIs
    <3>2. Jump(Code[ppc].fail)
      BY <1>2, <2>1, <2>3, <3>1 DEF PCheck, Value, Reg
    <3>. QED  BY <2>1, <2>3, <3>2, ContJump
  <2>. QED  BY <1>2, <2>1, <2>2, <2>3, NotPast DEF RunInv
<1>. QED  BY <1>3, <1>4, <1>5

\* 017.
LEMMA Next017 ==
  ASSUME TextOK, BaseInv, RunInv, AddrInv, [Next]_vars, Broken017
  PROVE  Broken017'
<1>1. SUFFICES ASSUME test = "t017", "SINGLESTEP" \in fault.broken
               PROVE  mem'["hwbrk"] = "none" /\ info'.code # "HWBKPT" /\ pinfo'["info"].code # "HWBKPT" /\ ~Past(15)'
  BY Frames DEF Broken017
<1>2. mem["hwbrk"] = "none" /\ info.code # "HWBKPT" /\ pinfo["info"].code # "HWBKPT" /\ ~Past(15)
  BY <1>1 DEF Broken017
<1>3. mem'["hwbrk"] = "none"
  <2>1. PICK c \in Cell : c = "hwbrk"
    BY DEF Cell
  <2>2. \A i \in 1..Len(Code) : Code[i].op = "set" => Code[i].at \in {"brk_addr", "read_val"}
    <3>1. /\ Len(Code) = 37 /\ Code[1].op = "wait" /\ Code[2].op = "get"
          /\ Code[3].op = "set" /\ Code[3].at = "brk_addr" /\ Code[4].op = "get" /\ Code[5].op = "get"
          /\ Code[6].op = "set" /\ Code[6].at = "read_val" /\ Code[7].op = "resume" /\ Code[8].op = "wait"
          /\ Code[9].op = "stopsig" /\ Code[10].op = "set" /\ Code[10].at = "read_val" /\ Code[11].op = "resume"
          /\ Code[12].op = "wait" /\ Code[13].op = "stopsig" /\ Code[14].op = "getinfo"
          /\ Code[15].op = "checkinfo" /\ Code[16].op = "resume" /\ Code[17].op = "wait"
          /\ Code[18].op = "stopsig" /\ Code[19].op = "getinfo" /\ Code[20].op = "checkinfo"
          /\ Code[21].op = "resume" /\ Code[22].op = "wait" /\ Code[23].op = "stopsig" /\ Code[24].op = "getinfo"
          /\ Code[25].op = "checkinfo" /\ Code[26].op = "resume" /\ Code[27].op = "wait"
          /\ Code[28].op = "stopsig" /\ Code[29].op = "getinfo" /\ Code[30].op = "checkinfo"
          /\ Code[31].op = "resume" /\ Code[32].op = "wait" /\ Code[33].op = "stopsig" /\ Code[34].op = "getinfo"
          /\ Code[35].op = "checkinfo" /\ Code[36].op = "ok" /\ Code[37].op = "resume"
      BY <1>1, Text017
    <3>. QED  BY ONLY <3>1
  <2>3. \A j \in 1..Len(CCode) : CCode[j].op \in {"store", "storeinsn"} => CCode[j].op = "store" /\ CCode[j].at = "addr"
    <3>1. /\ Len(CCode) = 9 /\ CCode[1].op = "traceme" /\ CCode[2].op = "store" /\ CCode[2].at = "addr"
          /\ CCode[3].op = "site" /\ CCode[4].op = "insn" /\ CCode[5].op = "insn" /\ CCode[6].op = "insn"
          /\ CCode[7].op = "insn" /\ CCode[8].op = "insn" /\ CCode[9].op = "insn"
      BY <1>1, Text017
    <3>. QED  BY ONLY <3>1
  <2>4. (PSet => Code[ppc].at \in {"brk_addr", "read_val"}) /\ (CStore => CCode[cpc].at = "addr") /\ ~CStoreInsn
    BY <2>2, <2>3 DEF PSet, At, CStore, CStoreInsn, CAt
  <2>. QED  BY <1>2, <2>1, <2>4, MemMoves, SetWhere
<1>4. info'.code # "HWBKPT"
  <2>1. \A i \in 1..Len(Code) : Code[i].op \notin {"setinfo", "restoreinfo"}
    <3>1. /\ Len(Code) = 37 /\ Code[1].op = "wait" /\ Code[2].op = "get" /\ Code[3].op = "set"
          /\ Code[4].op = "get" /\ Code[5].op = "get" /\ Code[6].op = "set" /\ Code[7].op = "resume"
          /\ Code[8].op = "wait" /\ Code[9].op = "stopsig" /\ Code[10].op = "set" /\ Code[11].op = "resume"
          /\ Code[12].op = "wait" /\ Code[13].op = "stopsig" /\ Code[14].op = "getinfo"
          /\ Code[15].op = "checkinfo" /\ Code[16].op = "resume" /\ Code[17].op = "wait"
          /\ Code[18].op = "stopsig" /\ Code[19].op = "getinfo" /\ Code[20].op = "checkinfo"
          /\ Code[21].op = "resume" /\ Code[22].op = "wait" /\ Code[23].op = "stopsig" /\ Code[24].op = "getinfo"
          /\ Code[25].op = "checkinfo" /\ Code[26].op = "resume" /\ Code[27].op = "wait"
          /\ Code[28].op = "stopsig" /\ Code[29].op = "getinfo" /\ Code[30].op = "checkinfo"
          /\ Code[31].op = "resume" /\ Code[32].op = "wait" /\ Code[33].op = "stopsig" /\ Code[34].op = "getinfo"
          /\ Code[35].op = "checkinfo" /\ Code[36].op = "ok" /\ Code[37].op = "resume"
      BY <1>1, Text017
    <3>. QED  BY ONLY <3>1
  <2>2. \A j \in 1..Len(CCode) : CCode[j].op # "storeinsn" /\ (CCode[j].op \in {"site", "insn"} => CCode[j].at # "none")
    <3>1. /\ Len(CCode) = 9 /\ CCode[1].op = "traceme" /\ CCode[2].op = "store"
          /\ CCode[3].op = "site" /\ CCode[3].at = "site1" /\ CCode[4].op = "insn" /\ CCode[4].at = "t"
          /\ CCode[5].op = "insn" /\ CCode[5].at = "t+4" /\ CCode[6].op = "insn" /\ CCode[6].at = "t+8"
          /\ CCode[7].op = "insn" /\ CCode[7].at = "t+12" /\ CCode[8].op = "insn" /\ CCode[8].at = "t+16"
          /\ CCode[9].op = "insn" /\ CCode[9].at = "t+20"
      BY <1>1, Text017
    <3>. QED  BY ONLY <3>1
  <2>3. ~PSetInfo /\ ~CStoreInsn /\ (CInsn => CCode[cpc].at # "none")
    BY <2>1, <2>2 DEF PSetInfo, At, CStoreInsn, CInsn, CAt
  <2>4. proc["C"].mode # "SINGLESTEP"
    BY <1>1 DEF RunInv, ModeInv, Works
  <2>5. \/ info' = info
        \/ info' = Trap("BRKPT", CCode[cpc].at) \/ info' = [NoInfo EXCEPT !.signo = "ILL"]
        \/ info' = [signo |-> "STOP", code |-> "USER", addr |-> "none"]
    BY <1>2, <2>3, <2>4, InfoMoves
  <2>. QED  BY ONLY <1>2, <2>5 DEF Trap, NoInfo
<1>5. pinfo'["info"].code # "HWBKPT"
  <2>1. PICK r \in InfoReg : r = "info"
    BY DEF InfoReg
  <2>2. pinfo'[r] = pinfo[r] \/ pinfo'[r] = info \/ pinfo'[r] = JunkInfo
    BY PInfoMoves
  <2>. QED  BY ONLY <1>2, <2>1, <2>2 DEF JunkInfo
<1>6. ~Past(15)'
  <2>1. /\ Len(Code) = 37 /\ Code[15].op = "checkinfo" /\ Code[15].a = "info" /\ Code[15].fail = "cont"
        /\ Code[15].info = [signo |-> "TRAP", code |-> "HWBKPT", addr |-> "t+4"]
    BY <1>1, Text017
  <2>2. PICK i \in 1..Len(Code) : i = 15
    BY ONLY <2>1
  <2>3. ASSUME Statement, ppc = 15 PROVE ppc' # ppc + 1
    <3>1. PCheckInfo
      BY <2>1, <2>3, StatementIs
    <3>2. pinfo["info"] # Code[15].info
      BY ONLY <1>2, <2>1
    <3>3. Jump(Code[ppc].fail)
      BY <2>1, <2>3, <3>1, <3>2 DEF PCheckInfo
    <3>. QED  BY <2>1, <2>3, <3>3, ContJump
  <2>. QED  BY <1>2, <2>1, <2>2, <2>3, NotPast DEF RunInv
<1>. QED  BY <1>3, <1>4, <1>5, <1>6

\* 021.
LEMMA Next021 ==
  ASSUME TextOK, BaseInv, AddrInv, [Next]_vars, Broken021
  PROVE  Broken021'
<1>1. SUFFICES ASSUME test = "t021", "POKEDATA" \in fault.refused \union fault.broken
               PROVE  (cpc' > 4 => mem'["dev"] = "zero") /\ cpc' <= 9
  BY Frames DEF Broken021
<1>2. (cpc > 4 => mem["dev"] = "zero") /\ cpc <= 9 /\ cpc \in 1..9
  BY <1>1, Text021 DEF Broken021, BaseInv, Counters
<1>3. ASSUME cpc' > 4 PROVE mem'["dev"] = "zero"
  <2>1. PICK c \in Cell : c = "dev"
    BY DEF Cell
  <2>2. \A i \in 1..Len(Code) : Code[i].op = "set" => Code[i].at # "dev" /\ (Code[i].at = "devmap" => Code[i].req = "POKEDATA")
    <3>1. /\ Len(Code) = 7 /\ Code[1].op = "ok" /\ Code[2].op = "read" /\ Code[3].op = "wait"
          /\ Code[4].op = "get" /\ Code[5].op = "set" /\ Code[5].at = "brk_addr" /\ Code[5].req = "POKETEXT"
          /\ Code[6].op = "set" /\ Code[6].at = "devmap" /\ Code[6].req = "POKEDATA" /\ Code[7].op = "resume"
      BY <1>1, Text021
    <3>. QED  BY ONLY <3>1
  <2>3. \A j \in 1..Len(CCode) : CCode[j].op \in {"store", "storeinsn"} => CCode[j].op = "store" /\ CCode[j].at = "dev" /\ CCode[j].val = "zero"
    <3>1. /\ Len(CCode) = 9 /\ CCode[1].op = "call" /\ CCode[2].op = "call" /\ CCode[3].op = "call"
          /\ CCode[4].op = "store" /\ CCode[4].at = "dev" /\ CCode[4].val = "zero" /\ CCode[5].op = "call"
          /\ CCode[6].op = "cpost" /\ CCode[7].op = "traceme" /\ CCode[8].op = "site"
          /\ CCode[9].op = "cchecknot"
      BY <1>1, Text021
    <3>. QED  BY ONLY <3>1
  <2>4. /\ PSet => Code[ppc].at # "dev" /\ (Code[ppc].at = "devmap" => Code[ppc].req = "POKEDATA")
        /\ CStore => CCode[cpc].val = "zero" /\ CCode[cpc].at = "dev"
        /\ ~CStoreInsn
    BY <2>2, <2>3 DEF PSet, At, CStore, CStoreInsn, CAt
  <2>5. mem'[c] = mem[c] \/ mem'[c] = "zero"
    <3>1. CASE PSet /\ Works(Code[ppc].req) /\ Accepted(Code[ppc].req) /\ Value(Code[ppc].at) = c
      BY <1>1, <2>1, <2>4, <3>1, SetWhere DEF Works, Accepted
    <3>. QED  BY <2>1, <2>4, <3>1, MemMoves
  <2>6. CASE cpc > 4
    BY <1>2, <2>1, <2>5, <2>6
  <2>7. CASE ~(cpc > 4)
    <3>1. cpc = 4 /\ cpc' # cpc
      BY ONLY <1>2, <1>3, <2>7, CpcMoves, [Next]_vars
    <3>2. CCode[4].op = "store"
      BY <1>1, Text021
    <3>3. Child
      BY <3>1, Frames
    <3>4. CStore
      BY <3>1, <3>2, <3>3 DEF Child, CTraceme, CInsn, CStoreInsn, CSyscall, CFork, CForkEvent, CSem, CCheckMem, CCall,
         CEnd, CAt, CExit
    <3>5. mem' = [mem EXCEPT ![CCode[cpc].at] = CCode[cpc].val] /\ DOMAIN mem = Cell
      BY <3>4 DEF CStore, BaseInv, Shape
    <3>. QED  BY ONLY <2>1, <2>4, <3>4, <3>5
  <2>. QED  BY <2>6, <2>7
<1>4. cpc' <= 9
  <2>1. CCode[9].op = "cchecknot" /\ CCode[9].at = "dev" /\ CCode[9].val = "zero" /\ Len(CCode) = 9
    BY <1>1, Text021
  <2>2. cpc = 9 => CCode[cpc].op = "cchecknot" /\ CCode[cpc].at = "dev" /\ CCode[cpc].val = "zero"
    BY ONLY <2>1
  <2>. QED  BY <1>2, <2>2, CpcMoves
<1>. QED  BY <1>3, <1>4

\* 015.
LEMMA Next015 ==
  ASSUME TextOK, BaseInv, RunInv, AddrInv, [Next]_vars, Broken015
  PROVE  Broken015'
<1>1. SUFFICES ASSUME test = "t015", "GETEVENTMSG" \in fault.broken
               PROVE  /\ mem'["eventpid"] # "junk"
                      /\ "PEEKDATA" \in fault.broken => reg'["brk_addr"] \notin Cell /\ ~Past(3)'
                      /\ ppc' \in {12, 13} => reg'["read_val"] # "junk"
                      /\ ppc' = 13 => reg'["eventmsg"] = "junk"
                      /\ ~Past(13)'
  BY Frames DEF Broken015
<1>2. /\ mem["eventpid"] # "junk"
      /\ "PEEKDATA" \in fault.broken => reg["brk_addr"] \notin Cell /\ ~Past(3)
      /\ ppc \in {12, 13} => reg["read_val"] # "junk"
      /\ ppc = 13 => reg["eventmsg"] = "junk"
      /\ ~Past(13)
  BY <1>1 DEF Broken015
<1>3. mem'["eventpid"] # "junk"
  <2>1. PICK c \in Cell : c = "eventpid"
    BY DEF Cell
  <2>2. \A i \in 1..Len(Code) : Code[i].op = "set" => Code[i].at \in {"brk_addr", "options"}
    <3>1. /\ Len(Code) = 16 /\ Code[1].op = "wait" /\ Code[2].op = "get"
          /\ Code[3].op = "set" /\ Code[3].at = "brk_addr" /\ Code[4].op = "set" /\ Code[4].at = "options"
          /\ Code[5].op = "resume" /\ Code[6].op = "wait" /\ Code[7].op = "resume" /\ Code[8].op = "wait"
          /\ Code[9].op = "get" /\ Code[10].op = "set" /\ Code[10].at = "brk_addr" /\ Code[11].op = "get"
          /\ Code[12].op = "get" /\ Code[13].op = "check" /\ Code[14].op = "kill" /\ Code[15].op = "ok"
          /\ Code[16].op = "resume"
      BY <1>1, Text015
    <3>. QED  BY ONLY <3>1
  <2>3. \A j \in 1..Len(CCode) : CCode[j].op \in {"store", "storeinsn"} => CCode[j].op = "store" /\ CCode[j].val = "G"
    <3>1. /\ Len(CCode) = 7 /\ CCode[1].op = "traceme" /\ CCode[2].op = "site" /\ CCode[3].op = "call"
          /\ CCode[4].op = "fork" /\ CCode[5].op = "forkevent" /\ CCode[6].op = "store" /\ CCode[6].val = "G"
          /\ CCode[7].op = "site"
      BY <1>1, Text015
    <3>. QED  BY ONLY <3>1
  <2>4. (PSet => Code[ppc].at \in {"brk_addr", "options"}) /\ (CStore => CCode[cpc].val = "G") /\ ~CStoreInsn
    BY <2>2, <2>3 DEF PSet, At, CStore, CStoreInsn, CAt
  <2>. QED  BY <1>2, <2>1, <2>4, MemMoves, SetWhere
<1>4. ASSUME "PEEKDATA" \in fault.broken PROVE reg'["brk_addr"] \notin Cell /\ ~Past(3)'
  <2>1. PICK r \in Reg : r = "brk_addr"
    BY DEF Reg
  <2>2. \A i \in 1..Len(Code) : Code[i].op \in {"get", "read"} => Code[i].op = "get" /\ (Code[i].to = "brk_addr" => Code[i].req = "PEEKDATA")
    <3>1. /\ Len(Code) = 16 /\ Code[1].op = "wait"
          /\ Code[2].op = "get" /\ Code[2].to = "brk_addr" /\ Code[2].req = "PEEKDATA" /\ Code[3].op = "set"
          /\ Code[4].op = "set" /\ Code[5].op = "resume" /\ Code[6].op = "wait" /\ Code[7].op = "resume"
          /\ Code[8].op = "wait" /\ Code[9].op = "get" /\ Code[9].to = "brk_addr" /\ Code[9].req = "PEEKDATA"
          /\ Code[10].op = "set" /\ Code[11].op = "get" /\ Code[11].to = "read_val" /\ Code[11].req = "PEEKDATA"
          /\ Code[12].op = "get" /\ Code[12].to = "eventmsg" /\ Code[12].req = "GETEVENTMSG"
          /\ Code[13].op = "check" /\ Code[14].op = "kill" /\ Code[15].op = "ok" /\ Code[16].op = "resume"
      BY <1>1, Text015
    <3>. QED  BY ONLY <3>1
  <2>3. ~PRead /\ (PGet /\ Code[ppc].to = r => Code[ppc].req = "PEEKDATA")
    BY <2>1, <2>2 DEF PRead, PGet, At
  <2>4. reg'["brk_addr"] \notin Cell
    BY <1>2, <1>4, <2>1, <2>3, RegMoves DEF Works, Cell
  <2>5. Len(Code) = 16 /\ Code[3].op = "set" /\ Code[3].at = "brk_addr" /\ Code[3].fail = "cont"
    BY <1>1, Text015
  <2>6. PICK i \in 1..Len(Code) : i = 3
    BY ONLY <2>5
  <2>7. ASSUME Statement, ppc = 3 PROVE ppc' # ppc + 1
    <3>1. PSet
      BY <2>5, <2>7, StatementIs
    <3>2. Jump(Code[ppc].fail)
      BY <1>2, <1>4, <2>5, <2>7, <3>1 DEF PSet, Value, Reg
    <3>. QED  BY <2>5, <2>7, <3>2, ContJump
  <2>8. ~Past(3)'
    BY <1>2, <1>4, <2>5, <2>6, <2>7, NotPast DEF RunInv
  <2>. QED  BY <2>4, <2>8
<1>5. ASSUME ppc' \in {12, 13} PROVE reg'["read_val"] # "junk" /\ (ppc' = 13 => reg'["eventmsg"] = "junk")
  <2>1. CASE ~Statement
    <3>1. reg' = reg /\ (PStart \/ ppc' = ppc)
      BY <2>1, Frames DEF Statement
    <3>2. ppc' = ppc
      BY <1>5, <3>1 DEF PStart
    <3>. QED  BY <1>2, <1>5, <3>1, <3>2
  <2>2. CASE Statement
    <3>1. Len(Code) = 16 /\ OkAt[test] = 15
      BY <1>1, Text015 DEF OkAt
    <3>2. \A i \in 1..Len(Code) : Code[i].op \notin {"post", "semwait", "ok"} => Code[i].fail # "skip"
      <4>1. /\ Len(Code) = 16 /\ Code[1].op = "wait" /\ Code[1].fail = "out"
            /\ Code[2].op = "get" /\ Code[2].fail = "cont" /\ Code[3].op = "set" /\ Code[3].fail = "cont"
            /\ Code[4].op = "set" /\ Code[4].fail = "cont" /\ Code[5].op = "resume" /\ Code[5].fail = "out"
            /\ Code[6].op = "wait" /\ Code[6].fail = "out" /\ Code[7].op = "resume" /\ Code[7].fail = "out"
            /\ Code[8].op = "wait" /\ Code[8].fail = "out" /\ Code[9].op = "get" /\ Code[9].fail = "cont"
            /\ Code[10].op = "set" /\ Code[10].fail = "cont" /\ Code[11].op = "get" /\ Code[11].fail = "cont"
            /\ Code[12].op = "get" /\ Code[12].fail = "cont" /\ Code[13].op = "check" /\ Code[13].fail = "cont"
            /\ Code[14].op = "kill" /\ Code[14].fail = "next" /\ Code[15].op = "ok"
            /\ Code[16].op = "resume" /\ Code[16].fail = "ret"
        BY <1>1, Text015
      <4>. QED  BY ONLY <4>1
    <3>3. ppc \in 1..16
      BY <2>2, <3>1, StatementSteps DEF PStep
    <3>4. ppc' = ppc + 1
      <4>1. PStep
        BY <2>2, StatementSteps
      <4>2. \/ ppc' = ppc + 1
            \/ Code[ppc].fail = "skip" /\ Code[ppc].op \notin {"post", "semwait", "ok"}
            \/ ppc' = Len(Code) \/ ppc' = Len(Code) + 1
        <5>1. CASE Code[ppc].op \notin {"post", "semwait", "ok"} /\ Jump(Code[ppc].fail)
          <6>1. Move /\ ret \in {"ok", "fail"} /\ ppc \in 1..Len(Code)
            BY <4>1, <5>1 DEF Move, PStep, BaseInv, Counters
          <6>. QED  BY <6>1, MoveTo
        <5>. QED  BY <4>1, <5>1 DEF PStep, Advance
      <4>. QED  BY ONLY <1>5, <3>1, <3>2, <3>3, <4>2
    <3>5. CASE ppc = 11
      <4>1. /\ Code[11].op = "get" /\ Code[11].req = "PEEKDATA" /\ Code[11].at = "eventpid" /\ Code[11].to = "read_val"
            /\ Code[11].fail = "cont"
        BY <1>1, Text015
      <4>2. PGet
        BY <2>2, <3>5, <4>1, StatementIs
      <4>3. ~Jump(Code[ppc].fail)
        BY <3>1, <3>4, <3>5, <4>1, ContJump
      <4>4. "PEEKDATA" \notin fault.broken
        <5>1. Past(3)
          BY <3>1, <3>5 DEF Past
        <5>. QED  BY <1>2, <5>1
      <4>5. reg' = [reg EXCEPT !["read_val"] = Read(Value("eventpid"))]
        BY <3>5, <4>1, <4>2, <4>3, <4>4 DEF PGet, Works
      <4>6. Read(Value("eventpid")) = mem["eventpid"]
        BY DEF Read, Value, Reg
      <4>7. DOMAIN reg = Reg /\ "read_val" \in Reg
        BY DEF BaseInv, Shape, Reg
      <4>. QED  BY ONLY <1>2, <3>4, <3>5, <4>5, <4>6, <4>7
    <3>6. CASE ppc = 12
      <4>1. /\ Code[12].op = "get" /\ Code[12].req = "GETEVENTMSG" /\ Code[12].to = "eventmsg"
        BY <1>1, Text015
      <4>2. PGet
        BY <2>2, <3>6, <4>1, StatementIs
      <4>3. reg' = [reg EXCEPT !["eventmsg"] = "junk"]
        BY <1>1, <3>6, <4>1, <4>2 DEF PGet, Works
      <4>4. DOMAIN reg = Reg /\ "eventmsg" \in Reg
        BY DEF BaseInv, Shape, Reg
      <4>. QED  BY ONLY <1>2, <3>6, <4>3, <4>4
    <3>. QED  BY ONLY <1>5, <3>3, <3>4, <3>5, <3>6
  <2>. QED  BY <2>1, <2>2
<1>6. ~Past(13)'
  <2>1. Len(Code) = 16 /\ Code[13].op = "check" /\ Code[13].a = "read_val" /\ Code[13].b = "eventmsg" /\ Code[13].fail = "cont"
    BY <1>1, Text015
  <2>2. PICK i \in 1..Len(Code) : i = 13
    BY ONLY <2>1
  <2>3. ASSUME Statement, ppc = 13 PROVE ppc' # ppc + 1
    <3>1. PCheck
      BY <2>1, <2>3, StatementIs
    <3>2. Value("read_val") # Value("eventmsg")
      BY <1>2, <2>3 DEF Value, Reg
    <3>3. Jump(Code[ppc].fail)
      BY <2>1, <2>3, <3>1, <3>2 DEF PCheck
    <3>. QED  BY <2>1, <2>3, <3>3, ContJump
  <2>. QED  BY <1>2, <2>1, <2>2, <2>3, NotPast DEF RunInv
<1>. QED  BY <1>3, <1>4, <1>5, <1>6

\* FaultInv holds at the start.
LEMMA InitFault == Init => FaultInv
<1>. SUFFICES ASSUME Init PROVE FaultInv
  OBVIOUS
<1>1. ppc = 0 /\ ret = "fail" /\ cpc = 1 /\ info = NoInfo
  BY DEF Init
<1>2. \A r \in Reg : reg[r] = "none"
  BY DEF Init
<1>3. \A r \in InfoReg : pinfo[r] = NoInfo
  BY DEF Init
<1>4. \A c \in Cell : mem[c] = IF c \in {"site1", "site2"} THEN "brk" ELSE IF c = "t" THEN "nop" ELSE "none"
  BY DEF Init
<1>5. \A i \in Nat : ~Past(i)
  BY <1>1 DEF Past
<1>6. NoInfo.signo = "none" /\ NoInfo.code = "none" /\ NoInfo.addr = "none"
  BY DEF NoInfo
<1>7. reg["brk_addr"] = "none" /\ reg["inst"] = "none" /\ reg["sysno_val"] = "none"
  BY <1>2 DEF Reg
<1>8. pinfo["info"] = NoInfo /\ pinfo["tmp_info"] = NoInfo
  BY <1>3 DEF InfoReg
<1>9. /\ mem["site1"] = "brk" /\ mem["hwbrk"] = "none" /\ mem["hwwatch"] = "none" /\ mem["buf"] = "none"
      /\ mem["greg"] = "none" /\ mem["sysno"] = "none" /\ mem["eventpid"] = "none"
  BY <1>4 DEF Cell
<1>10. "none" \notin Cell
  BY DEF Cell
<1>. QED  BY ONLY <1>1, <1>5, <1>6, <1>7, <1>8, <1>9, <1>10 DEF FaultInv, InfoIs, Broken001, Broken002, Broken003,
     Broken005, Broken006, Broken009, Broken010, Broken011, Broken012, Broken013, Broken015, Broken016, Broken017, Broken021

\* FaultInv is an invariant.
THEOREM Faults == Spec => []FaultInv
<1>1. Init => FaultInv
  BY InitFault
<1>2. BaseInv /\ RunInv /\ AddrInv /\ FaultInv /\ [Next]_vars => FaultInv'
  <2>. SUFFICES ASSUME BaseInv, RunInv, AddrInv, FaultInv, [Next]_vars PROVE FaultInv'
    OBVIOUS
  <2>1. TextOK
    BY TextHolds DEF BaseInv, Counters
  <2>2. CMove /\ RetInv
    BY <2>1, ChildMoves DEF RunInv
  <2>. QED  BY <2>1, <2>2, Next001, Next002, Next003, Next005, Next006, Next009, Next010, Next011, Next012, Next013,
       Next015, Next016, Next017, Next021 DEF FaultInv
<1>. QED  BY <1>1, <1>2, Base, Runs, Addresses, PTL DEF Spec

\* A verdict of success lies behind every request on the way: none was refused.
LEMMA Passed ==
  ASSUME RunInv, verdict = "ok", test \notin {"t000", "t021"}, NEW i \in 1..Len(Code), i < OkAt[test],
         Code[i].op \in Requests \union {"attach"}, Code[i].fail \in {"cont", "out"}
  PROVE  Code[i].req \notin fault.refused /\ (Code[i].op = "mustfail" => Code[i].req \notin fault.broken)
<1>1. ret = "ok"
  BY DEF RunInv, VerdictInv
<1>2. Past(i)
  BY <1>1 DEF Past
<1>3. Good(i)
  BY <1>2 DEF RunInv, PassInv
<1>. QED  BY <1>3 DEF Good

\* And no check on the way has failed.
LEMMA PassedAll ==
  ASSUME RunInv, verdict = "ok", test # "t000"
  PROVE  \A i \in Nat : i < OkAt[test] => Past(i)
  BY DEF RunInv, VerdictInv, Past

\* The child has come to its end.
LEMMA Finished ==
  ASSUME RunInv, verdict = "ok", test \notin {"t000", "t015", "t018"}
  PROVE  cpc = Len(CCode) + 1
  BY DEF RunInv, VerdictInv, ExitInv

\* P has met a traced child.
LEMMA Met ==
  ASSUME TextOK, RunInv, verdict = "ok", test \notin {"t000", "t020"}
  PROVE  proc["C"].traced
<1>1. ret = "ok" /\ ppc = Len(Code) + 1
  BY DEF RunInv, VerdictInv
<1>2. ppc > WaitAt[test]
  BY <1>1 DEF TextOK
<1>. QED  BY <1>1, <1>2 DEF RunInv, TracedInv

\* 001 says nothing wrong about TRACEME and CONT.
LEMMA Sound001 ==
  ASSUME TextOK, BaseInv, RunInv, FaultInv, verdict = "ok", test = "t001"
  PROVE  Subject[test] \intersect BadCalls = {}
<1>1. Subject[test] = {"TRACEME", "CONT"}
  BY DEF Subject
<1>2. /\ Len(Code) = 5 /\ OkAt[test] = 5 /\ Code[4].op = "resume" /\ Code[4].req = "CONT" /\ Code[4].fail = "out"
  BY Text001 DEF OkAt
<1>3. PICK i \in 1..Len(Code) : i = 4
  BY ONLY <1>2
<1>4. "CONT" \notin fault.refused
  BY <1>2, <1>3, Passed DEF Requests
<1>5. cpc = 3
  <2>1. Len(CCode) = 2
    BY Text001
  <2>2. cpc = Len(CCode) + 1
    BY Finished
  <2>. QED  BY ONLY <2>1, <2>2
<1>6. "CONT" \notin fault.broken
  BY <1>5 DEF FaultInv, Broken001
<1>7. "TRACEME" \notin fault.broken \union fault.refused
  BY Met DEF RunInv, TraceInv
<1>. QED  BY <1>1, <1>4, <1>6, <1>7 DEF BadCalls

\* 002 says nothing wrong about PEEKDATA.
LEMMA Sound002 ==
  ASSUME TextOK, BaseInv, RunInv, FaultInv, verdict = "ok", test = "t002"
  PROVE  Subject[test] \intersect BadCalls = {}
<1>1. Subject[test] = {"PEEKDATA"}
  BY DEF Subject
<1>2. /\ Len(Code) = 7 /\ OkAt[test] = 6 /\ Code[2].op = "get" /\ Code[2].req = "PEEKDATA" /\ Code[2].fail = "cont"
  BY Text002 DEF OkAt
<1>3. PICK i \in 1..Len(Code) : i = 2
  BY ONLY <1>2
<1>4. "PEEKDATA" \notin fault.refused
  BY <1>2, <1>3, Passed DEF Requests
<1>5. Past(3)
  BY <1>2, PassedAll
<1>6. "PEEKDATA" \notin fault.broken
  BY <1>5 DEF FaultInv, Broken002
<1>. QED  BY <1>1, <1>4, <1>6 DEF BadCalls

\* 003 says nothing wrong about PEEKTEXT.
LEMMA Sound003 ==
  ASSUME TextOK, BaseInv, RunInv, FaultInv, verdict = "ok", test = "t003"
  PROVE  Subject[test] \intersect BadCalls = {}
<1>1. Subject[test] = {"PEEKTEXT"}
  BY DEF Subject
<1>2. /\ Len(Code) = 8 /\ OkAt[test] = 7 /\ Code[5].op = "get" /\ Code[5].req = "PEEKTEXT" /\ Code[5].fail = "cont"
  BY Text003 DEF OkAt
<1>3. PICK i \in 1..Len(Code) : i = 5
  BY ONLY <1>2
<1>4. "PEEKTEXT" \notin fault.refused
  BY <1>2, <1>3, Passed DEF Requests
<1>5. Past(6)
  BY <1>2, PassedAll
<1>6. "PEEKTEXT" \notin fault.broken
  BY <1>5 DEF FaultInv, Broken003
<1>. QED  BY <1>1, <1>4, <1>6 DEF BadCalls

\* 004 says nothing wrong about PEEKUSER.
LEMMA Sound004 ==
  ASSUME TextOK, BaseInv, RunInv, FaultInv, verdict = "ok", test = "t004"
  PROVE  Subject[test] \intersect BadCalls = {}
<1>1. Subject[test] = {"PEEKUSER"}
  BY DEF Subject
<1>2. /\ Len(Code) = 6 /\ OkAt[test] = 5 /\ Code[4].op = "mustfail" /\ Code[4].req = "PEEKUSER" /\ Code[4].fail = "cont"
  BY Text004 DEF OkAt
<1>3. PICK i \in 1..Len(Code) : i = 4
  BY ONLY <1>2
<1>4. "PEEKUSER" \notin fault.refused \union fault.broken
  BY <1>2, <1>3, Passed DEF Requests
<1>. QED  BY <1>1, <1>4 DEF BadCalls

\* 005 says nothing wrong about POKEDATA.
LEMMA Sound005 ==
  ASSUME TextOK, BaseInv, RunInv, FaultInv, verdict = "ok", test = "t005"
  PROVE  Subject[test] \intersect BadCalls = {}
<1>1. Subject[test] = {"POKEDATA"}
  BY DEF Subject
<1>2. /\ Len(Code) = 6 /\ OkAt[test] = 5 /\ Code[4].op = "set" /\ Code[4].req = "POKEDATA" /\ Code[4].fail = "cont"
  BY Text005 DEF OkAt
<1>3. PICK i \in 1..Len(Code) : i = 4
  BY ONLY <1>2
<1>4. "POKEDATA" \notin fault.refused
  BY <1>2, <1>3, Passed DEF Requests
<1>5. cpc = 5
  <2>1. Len(CCode) = 4
    BY Text005
  <2>2. cpc = Len(CCode) + 1
    BY Finished
  <2>. QED  BY ONLY <2>1, <2>2
<1>6. "POKEDATA" \notin fault.broken
  BY <1>5 DEF FaultInv, Broken005
<1>. QED  BY <1>1, <1>4, <1>6 DEF BadCalls

\* 006 says nothing wrong about POKETEXT.
LEMMA Sound006 ==
  ASSUME TextOK, BaseInv, RunInv, FaultInv, verdict = "ok", test = "t006"
  PROVE  Subject[test] \intersect BadCalls = {}
<1>1. Subject[test] = {"POKETEXT"}
  BY DEF Subject
<1>2. /\ Len(Code) = 14 /\ OkAt[test] = 13 /\ Code[3].op = "set" /\ Code[3].req = "POKETEXT" /\ Code[3].fail = "cont"
  BY Text006 DEF OkAt
<1>3. PICK i \in 1..Len(Code) : i = 3
  BY ONLY <1>2
<1>4. "POKETEXT" \notin fault.refused
  BY <1>2, <1>3, Passed DEF Requests
<1>5. cpc = 5
  <2>1. Len(CCode) = 4
    BY Text006
  <2>2. cpc = Len(CCode) + 1
    BY Finished
  <2>. QED  BY ONLY <2>1, <2>2
<1>6. "POKETEXT" \notin fault.broken
  BY <1>5 DEF FaultInv, Broken006
<1>. QED  BY <1>1, <1>4, <1>6 DEF BadCalls

\* 007 says nothing wrong about POKEUSER.
LEMMA Sound007 ==
  ASSUME TextOK, BaseInv, RunInv, FaultInv, verdict = "ok", test = "t007"
  PROVE  Subject[test] \intersect BadCalls = {}
<1>1. Subject[test] = {"POKEUSER"}
  BY DEF Subject
<1>2. /\ Len(Code) = 6 /\ OkAt[test] = 5 /\ Code[4].op = "mustfail" /\ Code[4].req = "POKEUSER" /\ Code[4].fail = "cont"
  BY Text007 DEF OkAt
<1>3. PICK i \in 1..Len(Code) : i = 4
  BY ONLY <1>2
<1>4. "POKEUSER" \notin fault.refused \union fault.broken
  BY <1>2, <1>3, Passed DEF Requests
<1>. QED  BY <1>1, <1>4 DEF BadCalls

\* 008 says nothing wrong about GETREGSET.
LEMMA Sound008 ==
  ASSUME TextOK, BaseInv, RunInv, FaultInv, verdict = "ok", test = "t008", "GETREGSET" \notin fault.broken
  PROVE  Subject[test] \intersect BadCalls = {}
<1>1. Subject[test] = {"GETREGSET"}
  BY DEF Subject
<1>2. /\ Len(Code) = 11 /\ OkAt[test] = 10 /\ Code[4].op = "get" /\ Code[4].req = "GETREGSET" /\ Code[4].fail = "cont"
  BY Text008 DEF OkAt
<1>3. PICK i \in 1..Len(Code) : i = 4
  BY ONLY <1>2
<1>4. "GETREGSET" \notin fault.refused
  BY <1>2, <1>3, Passed DEF Requests
<1>. QED  BY <1>1, <1>4 DEF BadCalls

\* 009 says nothing wrong about GETSIGINFO.
LEMMA Sound009 ==
  ASSUME TextOK, BaseInv, RunInv, FaultInv, verdict = "ok", test = "t009"
  PROVE  Subject[test] \intersect BadCalls = {}
<1>1. Subject[test] = {"GETSIGINFO"}
  BY DEF Subject
<1>2. /\ Len(Code) = 8 /\ OkAt[test] = 7 /\ Code[5].op = "getinfo" /\ Code[5].req = "GETSIGINFO" /\ Code[5].fail = "cont"
  BY Text009 DEF OkAt
<1>3. PICK i \in 1..Len(Code) : i = 5
  BY ONLY <1>2
<1>4. "GETSIGINFO" \notin fault.refused
  BY <1>2, <1>3, Passed DEF Requests
<1>5. Past(6)
  BY <1>2, PassedAll
<1>6. "GETSIGINFO" \notin fault.broken
  BY <1>5 DEF FaultInv, Broken009
<1>. QED  BY <1>1, <1>4, <1>6 DEF BadCalls

\* 010 says nothing wrong about SETREGSET.
LEMMA Sound010 ==
  ASSUME TextOK, BaseInv, RunInv, FaultInv, verdict = "ok", test = "t010"
  PROVE  Subject[test] \intersect BadCalls = {}
<1>1. Subject[test] = {"SETREGSET"}
  BY DEF Subject
<1>2. /\ Len(Code) = 22 /\ OkAt[test] = 21 /\ Code[6].op = "set" /\ Code[6].req = "SETREGSET" /\ Code[6].fail = "cont"
  BY Text010 DEF OkAt
<1>3. PICK i \in 1..Len(Code) : i = 6
  BY ONLY <1>2
<1>4. "SETREGSET" \notin fault.refused
  BY <1>2, <1>3, Passed DEF Requests
<1>5. cpc = 9
  <2>1. Len(CCode) = 8
    BY Text010
  <2>2. cpc = Len(CCode) + 1
    BY Finished
  <2>. QED  BY ONLY <2>1, <2>2
<1>6. "SETREGSET" \notin fault.broken
  BY <1>5 DEF FaultInv, Broken010
<1>. QED  BY <1>1, <1>4, <1>6 DEF BadCalls

\* 011 says nothing wrong about SETREGSET.
LEMMA Sound011 ==
  ASSUME TextOK, BaseInv, RunInv, FaultInv, verdict = "ok", test = "t011"
  PROVE  Subject[test] \intersect BadCalls = {}
<1>1. Subject[test] = {"SETREGSET"}
  BY DEF Subject
<1>2. /\ Len(Code) = 17 /\ OkAt[test] = 16 /\ Code[6].op = "set" /\ Code[6].req = "SETREGSET" /\ Code[6].fail = "cont"
  BY Text011 DEF OkAt
<1>3. PICK i \in 1..Len(Code) : i = 6
  BY ONLY <1>2
<1>4. "SETREGSET" \notin fault.refused
  BY <1>2, <1>3, Passed DEF Requests
<1>5. Past(11)
  BY <1>2, PassedAll
<1>6. "SETREGSET" \notin fault.broken
  BY <1>5 DEF FaultInv, Broken011
<1>. QED  BY <1>1, <1>4, <1>6 DEF BadCalls

\* 012 says nothing wrong about SETREGSET.
LEMMA Sound012 ==
  ASSUME TextOK, BaseInv, RunInv, FaultInv, verdict = "ok", test = "t012"
  PROVE  Subject[test] \intersect BadCalls = {}
<1>1. Subject[test] = {"SETREGSET"}
  BY DEF Subject
<1>2. /\ Len(Code) = 15 /\ OkAt[test] = 14 /\ Code[6].op = "set" /\ Code[6].req = "SETREGSET" /\ Code[6].fail = "cont"
  BY Text012 DEF OkAt
<1>3. PICK i \in 1..Len(Code) : i = 6
  BY ONLY <1>2
<1>4. "SETREGSET" \notin fault.refused
  BY <1>2, <1>3, Passed DEF Requests
<1>5. Past(11)
  BY <1>2, PassedAll
<1>6. "SETREGSET" \notin fault.broken
  BY <1>5 DEF FaultInv, Broken012
<1>. QED  BY <1>1, <1>4, <1>6 DEF BadCalls

\* 013 says nothing wrong about SETSIGINFO.
LEMMA Sound013 ==
  ASSUME TextOK, BaseInv, RunInv, FaultInv, verdict = "ok", test = "t013"
  PROVE  Subject[test] \intersect BadCalls = {}
<1>1. Subject[test] = {"SETSIGINFO"}
  BY DEF Subject
<1>2. /\ Len(Code) = 10 /\ OkAt[test] = 9 /\ Code[5].op = "setinfo" /\ Code[5].req = "SETSIGINFO" /\ Code[5].fail = "cont"
  BY Text013 DEF OkAt
<1>3. PICK i \in 1..Len(Code) : i = 5
  BY ONLY <1>2
<1>4. "SETSIGINFO" \notin fault.refused
  BY <1>2, <1>3, Passed DEF Requests
<1>5. Past(7)
  BY <1>2, PassedAll
<1>6. "SETSIGINFO" \notin fault.broken
  BY <1>5 DEF FaultInv, Broken013
<1>. QED  BY <1>1, <1>4, <1>6 DEF BadCalls

\* 014 says nothing wrong about SETOPTIONS.
LEMMA Sound014 ==
  ASSUME TextOK, BaseInv, RunInv, FaultInv, verdict = "ok", test = "t014"
  PROVE  Subject[test] \intersect BadCalls = {}
<1>1. Subject[test] = {"SETOPTIONS"}
  BY DEF Subject
<1>2. /\ Len(Code) = 7 /\ OkAt[test] = 6 /\ Code[5].op = "mustfail" /\ Code[5].req = "SETOPTIONS" /\ Code[5].fail = "cont"
  BY Text014 DEF OkAt
<1>3. PICK i \in 1..Len(Code) : i = 5
  BY ONLY <1>2
<1>4. "SETOPTIONS" \notin fault.refused \union fault.broken
  BY <1>2, <1>3, Passed DEF Requests
<1>. QED  BY <1>1, <1>4 DEF BadCalls

\* 015 says nothing wrong about GETEVENTMSG.
LEMMA Sound015 ==
  ASSUME TextOK, BaseInv, RunInv, FaultInv, verdict = "ok", test = "t015"
  PROVE  Subject[test] \intersect BadCalls = {}
<1>1. Subject[test] = {"GETEVENTMSG"}
  BY DEF Subject
<1>2. /\ Len(Code) = 16 /\ OkAt[test] = 15 /\ Code[12].op = "get" /\ Code[12].req = "GETEVENTMSG" /\ Code[12].fail = "cont"
  BY Text015 DEF OkAt
<1>3. PICK i \in 1..Len(Code) : i = 12
  BY ONLY <1>2
<1>4. "GETEVENTMSG" \notin fault.refused
  BY <1>2, <1>3, Passed DEF Requests
<1>5. Past(13)
  BY <1>2, PassedAll
<1>6. "GETEVENTMSG" \notin fault.broken
  BY <1>5 DEF FaultInv, Broken015
<1>. QED  BY <1>1, <1>4, <1>6 DEF BadCalls

\* 016 says nothing wrong about SYSCALL.
LEMMA Sound016 ==
  ASSUME TextOK, BaseInv, RunInv, FaultInv, verdict = "ok", test = "t016"
  PROVE  Subject[test] \intersect BadCalls = {}
<1>1. Subject[test] = {"SYSCALL"}
  BY DEF Subject
<1>2. /\ Len(Code) = 9 /\ OkAt[test] = 8 /\ Code[4].op = "resume" /\ Code[4].req = "SYSCALL" /\ Code[4].fail = "cont"
  BY Text016 DEF OkAt
<1>3. PICK i \in 1..Len(Code) : i = 4
  BY ONLY <1>2
<1>4. "SYSCALL" \notin fault.refused
  BY <1>2, <1>3, Passed DEF Requests
<1>5. Past(7)
  BY <1>2, PassedAll
<1>6. "SYSCALL" \notin fault.broken
  BY <1>5 DEF FaultInv, Broken016
<1>. QED  BY <1>1, <1>4, <1>6 DEF BadCalls

\* 017 says nothing wrong about SINGLESTEP.
LEMMA Sound017 ==
  ASSUME TextOK, BaseInv, RunInv, FaultInv, verdict = "ok", test = "t017"
  PROVE  Subject[test] \intersect BadCalls = {}
<1>1. Subject[test] = {"SINGLESTEP"}
  BY DEF Subject
<1>2. /\ Len(Code) = 37 /\ OkAt[test] = 36 /\ Code[11].op = "resume" /\ Code[11].req = "SINGLESTEP" /\ Code[11].fail = "cont"
  BY Text017 DEF OkAt
<1>3. PICK i \in 1..Len(Code) : i = 11
  BY ONLY <1>2
<1>4. "SINGLESTEP" \notin fault.refused
  BY <1>2, <1>3, Passed DEF Requests
<1>5. Past(15)
  BY <1>2, PassedAll
<1>6. "SINGLESTEP" \notin fault.broken
  BY <1>5 DEF FaultInv, Broken017
<1>. QED  BY <1>1, <1>4, <1>6 DEF BadCalls

\* 018 says nothing wrong about KILL.
LEMMA Sound018 ==
  ASSUME TextOK, BaseInv, RunInv, FaultInv, verdict = "ok", test = "t018"
  PROVE  Subject[test] \intersect BadCalls = {}
<1>1. Subject[test] = {"KILL"}
  BY DEF Subject
<1>2. /\ Len(Code) = 5 /\ OkAt[test] = 5 /\ Code[4].op = "resume" /\ Code[4].req = "KILL" /\ Code[4].fail = "out"
  BY Text018 DEF OkAt
<1>3. PICK i \in 1..Len(Code) : i = 4
  BY ONLY <1>2
<1>4. "KILL" \notin fault.refused
  BY <1>2, <1>3, Passed DEF Requests
<1>5. proc["C"].status.kind = "sig" /\ proc["C"].traced
  BY Met DEF RunInv, VerdictInv
<1>6. "KILL" \notin fault.broken
  BY <1>5 DEF RunInv, SigInv, Works
<1>. QED  BY <1>1, <1>4, <1>6 DEF BadCalls

\* 019 says nothing wrong about ATTACH.
LEMMA Sound019 ==
  ASSUME TextOK, BaseInv, RunInv, FaultInv, verdict = "ok", test = "t019"
  PROVE  Subject[test] \intersect BadCalls = {}
<1>1. Subject[test] = {"ATTACH"}
  BY DEF Subject
<1>2. /\ Len(Code) = 6 /\ OkAt[test] = 6 /\ Code[2].op = "attach" /\ Code[2].req = "ATTACH" /\ Code[2].fail = "out"
  BY Text019 DEF OkAt
<1>3. PICK i \in 1..Len(Code) : i = 2
  BY ONLY <1>2
<1>4. "ATTACH" \notin fault.refused
  BY <1>2, <1>3, Passed DEF Requests
<1>5. "ATTACH" \notin fault.broken
  BY Met DEF RunInv, TraceInv
<1>. QED  BY <1>1, <1>4, <1>5 DEF BadCalls

\* 020 says nothing wrong about DETACH.
LEMMA Sound020 ==
  ASSUME TextOK, BaseInv, RunInv, FaultInv, verdict = "ok", test = "t020", "DETACH" \notin fault.broken
  PROVE  Subject[test] \intersect BadCalls = {}
<1>1. Subject[test] = {"DETACH"}
  BY DEF Subject
<1>2. /\ Len(Code) = 6 /\ OkAt[test] = 6 /\ Code[5].op = "resume" /\ Code[5].req = "DETACH" /\ Code[5].fail = "out"
  BY Text020 DEF OkAt
<1>3. PICK i \in 1..Len(Code) : i = 5
  BY ONLY <1>2
<1>4. "DETACH" \notin fault.refused
  BY <1>2, <1>3, Passed DEF Requests
<1>. QED  BY <1>1, <1>4 DEF BadCalls

\* 021 says nothing wrong about POKEDATA.
LEMMA Sound021 ==
  ASSUME TextOK, BaseInv, RunInv, FaultInv, verdict = "ok", test = "t021"
  PROVE  Subject[test] \intersect BadCalls = {}
<1>1. Subject[test] = {"POKEDATA"}
  BY DEF Subject
<1>2. cpc = 10
  <2>1. Len(CCode) = 9
    BY Text021
  <2>2. cpc = Len(CCode) + 1
    BY Finished
  <2>. QED  BY ONLY <2>1, <2>2
<1>3. "POKEDATA" \notin fault.broken \union fault.refused
  BY <1>2 DEF FaultInv, Broken021
<1>. QED  BY <1>1, <1>3 DEF BadCalls

\* A test that passes has exercised its subject: on a kernel that refuses it or carries it out
\* wrongly the verdict is not success, whatever else that kernel does.  The two exceptions are
\* what the tests cannot see: 008 only prints the registers it reads, and 020 does not look
\* whether the child is still traced after DETACH.
THEOREM Sound ==
  Spec => [](/\ test = "t008" => "GETREGSET" \notin fault.broken
             /\ test = "t020" => "DETACH" \notin fault.broken
             => VerdictIsSound)
<1>1. BaseInv /\ RunInv /\ FaultInv => (/\ test = "t008" => "GETREGSET" \notin fault.broken
                                        /\ test = "t020" => "DETACH" \notin fault.broken
                                        => VerdictIsSound)
  <2>. SUFFICES ASSUME BaseInv, RunInv, FaultInv, test = "t008" => "GETREGSET" \notin fault.broken,
                       test = "t020" => "DETACH" \notin fault.broken, verdict = "ok"
                PROVE  Subject[test] \intersect BadCalls = {}
    BY DEF VerdictIsSound
  <2>1. test \in DOMAIN Test
    BY DEF BaseInv, Counters
  <2>2. test \in {"t000", "t001", "t002", "t003", "t004", "t005", "t006", "t007", "t008", "t009", "t010",
                 "t011", "t012", "t013", "t014", "t015", "t016", "t017", "t018", "t019", "t020", "t021"}
    BY <2>1 DEF Test
  <2>3. TextOK
    BY <2>1, TextHolds
  <2>4. test = "t000" => Subject[test] = {}
    BY DEF Subject
  <2>. QED  BY <2>2, <2>3, <2>4, Sound001, Sound002, Sound003, Sound004, Sound005, Sound006, Sound007, Sound008, Sound009, Sound010, Sound011, Sound012, Sound013, Sound014, Sound015, Sound016, Sound017, Sound018, Sound019, Sound020, Sound021
<1>. QED  BY <1>1, Base, Runs, Faults, PTL

-----------------------------------------------------------------------------
(***************************************************************************)
(* A good kernel: every statement of P succeeds, and the child does what   *)
(* its program says.  015 is left out (its race is real), 000 has nothing  *)
(* to show.                                                                *)
(***************************************************************************)

\* Where P lets the child go for the first and for the last time, and where the child's first brk is.
FirstAt == [
  t000 |-> 1, t001 |-> 4, t002 |-> 7, t003 |-> 8, t004 |-> 6, t005 |-> 6, t006 |-> 7, t007 |-> 6,
  t008 |-> 11, t009 |-> 8, t010 |-> 22, t011 |-> 7, t012 |-> 7, t013 |-> 10, t014 |-> 7, t015 |-> 5,
  t016 |-> 4, t017 |-> 7, t018 |-> 4, t019 |-> 5, t020 |-> 5, t021 |-> 7 ]
LastAt == [
  t000 |-> 1, t001 |-> 4, t002 |-> 7, t003 |-> 8, t004 |-> 6, t005 |-> 6, t006 |-> 14, t007 |-> 6,
  t008 |-> 11, t009 |-> 8, t010 |-> 22, t011 |-> 17, t012 |-> 15, t013 |-> 10, t014 |-> 7, t015 |-> 16,
  t016 |-> 9, t017 |-> 37, t018 |-> 4, t019 |-> 5, t020 |-> 5, t021 |-> 7 ]
SiteAt == [
  t000 |-> 0, t001 |-> 2, t002 |-> 3, t003 |-> 3, t004 |-> 2, t005 |-> 3, t006 |-> 3, t007 |-> 2, t008 |-> 4,
  t009 |-> 0, t010 |-> 4, t011 |-> 3, t012 |-> 3, t013 |-> 2, t014 |-> 2, t015 |-> 2, t016 |-> 2, t017 |-> 3,
  t018 |-> 2, t019 |-> 0, t020 |-> 0, t021 |-> 8 ]

\* 009, 019 and 020 stop the child by a signal, the others by a trap.
BySignal == {"t009", "t019", "t020"}
Fine == fault = NoFault /\ verdict = "none" /\ test \notin {"t000", "t015"}
ByTrap == Fine /\ test \notin BySignal

\* The place at which the child stops for the wait() that P has made or comes to next.
StopAt ==
  IF test \in {"t006", "t011", "t012"} THEN (IF ppc <= 7 THEN 3 ELSE 4)
  ELSE IF test = "t016" THEN (IF ppc <= 4 THEN 2 ELSE 4)
  ELSE IF test = "t017" THEN (IF ppc <= 7 THEN 3 ELSE IF ppc <= 11 THEN 4 ELSE IF ppc <= 16 THEN 5 ELSE IF ppc <= 21 THEN 6
                              ELSE IF ppc <= 26 THEN 7 ELSE IF ppc <= 31 THEN 8 ELSE 9)
  ELSE SiteAt[test]

\* The places between the request that sets the trap under test and the one that clears it.
Armed ==
  IF test = "t006" THEN 7..12 ELSE IF test = "t011" THEN 7..15 ELSE IF test = "t012" THEN 7..13
  ELSE IF test = "t017" THEN 7..10 ELSE {}

\* parent_func() has taken no jump.
OnCourse == Fine /\ ppc > OkAt[test] => ret = "ok"

\* The child stops where P expects it, and nowhere else; it ends with success, after its last stop.
Alive ==
  ByTrap =>
    /\ ~proc["C"].pend
    /\ ppc <= LastAt[test] => cpc <= StopAt
    /\ ppc \in 1..LastAt[test] => /\ proc["C"].st \in {"run", "stop"}
                                  /\ proc["C"].st = "stop" => cpc = StopAt /\ proc["C"].status.val = "TRAP"
    /\ ppc > WaitAt[test] => cpc >= SiteAt[test] /\ last.val = "TRAP"
    /\ cpc > TraceAt[test] => proc["C"].traced
Stepping ==
  ByTrap =>
    /\ proc["C"].mode = IF test = "t016" /\ ppc \in 5..LastAt[test] THEN "SYSCALL"
                        ELSE IF test = "t017" /\ ppc \in 12..LastAt[test] THEN "SINGLESTEP" ELSE "CONT"
    /\ proc["C"].mode = "SYSCALL" /\ proc["C"].st = "run" => cpc <= 3
    /\ proc["C"].mode = "SINGLESTEP" /\ proc["C"].st = "run" => cpc = StopAt - 1
Gone ==
  Fine /\ ppc > LastAt[test] =>
    /\ proc["C"].st \in {"run", "dead"}
    /\ proc["C"].st = "run" => test # "t018" /\ ~proc["C"].pend /\ proc["C"].mode = "CONT"
    /\ proc["C"].st = "dead" => proc["C"].status = IF test = "t018" THEN [kind |-> "sig", val |-> "KILL"]
                                                   ELSE [kind |-> "exit", val |-> "0"]

\* The traps that are set.
Traps ==
  ByTrap =>
    /\ mem["site1"] = IF ppc <= WaitAt[test] + 2 THEN "brk" ELSE "nop"
    /\ mem["t"] = IF test \in {"t006", "t017"} /\ ppc \in Armed THEN "brk" ELSE "nop"
    /\ mem["hwbrk"] = IF test = "t012" /\ ppc \in Armed THEN "t" ELSE "none"
    /\ mem["hwwatch"] = IF test = "t011" /\ ppc \in Armed THEN "buf" ELSE "none"

\* What the child finds or leaves in its memory.
Data ==
  Fine =>
    /\ test \notin BySignal /\ ppc \in 1..FirstAt[test] /\ proc["C"].st = "stop" => mem["inst_addr"] = "site1"
    /\ test = "t002" /\ cpc > 2 => mem["buf"] = "CHILD_MAGIC"
    /\ test = "t005" /\ ppc > 4 => mem["buf"] = "PARENT_MAGIC"
    /\ test \in {"t003", "t006", "t011", "t012", "t017"} /\ cpc > 2 => mem["addr"] = "t"
    /\ test = "t016" /\ ppc \in 5..LastAt[test] /\ proc["C"].st = "stop" => mem["sysno"] = "getpid"
    /\ test = "t021" /\ ppc > 6 => mem["dev"] = "0xFFFFFFFF"
Data010 ==
  Fine /\ test = "t010" =>
    /\ cpc > 2 /\ ppc <= 6 => mem["greg"] = "index"
    /\ ppc > 6 => mem["greg"] = "magic"
    /\ ppc > 8 => mem["freg"] = "magic"
    /\ ppc \in 11..13 => mem["tls"] = "write_tls_val"
    /\ ppc \in 16..18 => mem["sysno"] = "write_sysno"
    /\ ppc > 19 => mem["regno0"] = "regno"
    /\ ppc > 20 => mem["regno1"] = "regno"

\* What P has read.
Seen ==
  Fine =>
    /\ test \notin BySignal /\ ppc = WaitAt[test] + 2 => reg["brk_addr"] = "site1"
    /\ test = "t002" /\ ppc = 5 => reg["read_val"] = "CHILD_MAGIC"
    /\ test \in {"t003", "t006", "t017"} /\ ppc \in 5..LastAt[test] => reg["read_val"] = "t"
    /\ test = "t003" /\ ppc = 6 => reg["inst"] = "nop"
    /\ test \in {"t006", "t017"} /\ ppc \in 6..LastAt[test] => reg["inst_val"] = "nop"
    /\ test = "t010" => /\ ppc = 5 => reg["gregs"] = "index"
                        /\ ppc = 12 => reg["tmp_val"] = "write_tls_val"
                        /\ ppc = 17 => reg["tmp_val"] = "write_sysno"
    /\ test \in {"t011", "t012"} /\ ppc \in 5..LastAt[test] => reg["inst"] = "t"
    /\ test = "t011" /\ ppc = 13 => reg["gregs_pc"] = "t"
    /\ test = "t016" /\ ppc = 7 => reg["sysno_val"] = "getpid"
    /\ test = "t021" /\ ppc \in 3..LastAt[test] => reg["devmap"] = "dev"

\* The siginfo of the child, and the one P has read.
StopInfo == [signo |-> "STOP", code |-> "USER", addr |-> "none"]
Infos ==
  Fine /\ proc["C"].st = "stop" =>
    /\ test = "t009" => info = StopInfo
    /\ test \in {"t006", "t017"} /\ ppc \in 8..11 => info = Trap("BRKPT", "t")
    /\ test = "t011" /\ ppc \in 8..LastAt[test] => info = Trap("HWBKPT", "buf")
    /\ test = "t012" /\ ppc \in 8..LastAt[test] => info = Trap("HWBKPT", "t")
    /\ test = "t013" /\ ppc \in 6..8 => info = write_info
    /\ test = "t017" /\ ppc \in 12..LastAt[test] => info = Trap("HWBKPT", CCode[cpc].at)
Told ==
  Fine /\ ppc \in 1..Len(Code) /\ Code[ppc].op = "checkinfo" => pinfo[Code[ppc].a] = Code[ppc].info

\* 009, 019 and 020: the SIGSTOP comes before the child may go on.
Signalled ==
  Fine /\ test \in BySignal =>
    /\ ppc <= 2 => /\ ~proc["C"].pend /\ cpc < Len(CCode)
                   /\ test # "t009" => ~proc["C"].traced
    /\ ppc \in 1..2 => proc["C"].st = "run"
    /\ ppc \in 3..4 => /\ proc["C"].st \in {"run", "stop"} /\ cpc <= Len(CCode)
                       /\ proc["C"].st = "run" => proc["C"].pend
    /\ ppc <= LastAt[test] => proc["C"].mode = "CONT"
    /\ proc["C"].st = "stop" => ~proc["C"].pend

GoodInv ==
  /\ OnCourse /\ Alive /\ Stepping /\ Gone /\ Traps /\ Data /\ Data010 /\ Seen /\ Infos /\ Told /\ Signalled
  /\ fault = NoFault /\ test # "t015" => verdict # "fail"

\* The places at which P waits for the child another time.
WaitsAgain(i) ==
  \/ test \in {"t006", "t011", "t012"} /\ i = 8
  \/ test = "t016" /\ i = 5
  \/ test = "t017" /\ i \in {8, 12, 17, 22, 27, 32}

\* Which requests read what, and which write what.
GetOK(i) ==
  \/ Code[i].at = "inst_addr" /\ Code[i].to = "brk_addr" /\ i = WaitAt[test] + 1
  \/ test = "t002" /\ i = 4 /\ Code[i].at = "buf" /\ Code[i].to = "read_val"
  \/ test \in {"t003", "t006", "t017"} /\ i = 4 /\ Code[i].at = "addr" /\ Code[i].to = "read_val"
  \/ test = "t003" /\ i = 5 /\ Code[i].at = "read_val" /\ Code[i].to = "inst"
  \/ test \in {"t006", "t017"} /\ i = 5 /\ Code[i].at = "read_val" /\ Code[i].to = "inst_val"
  \/ test \in {"t011", "t012"} /\ i = 4 /\ Code[i].at = "addr" /\ Code[i].to = "inst"
  \/ test \in {"t008", "t011", "t012"} /\ Code[i].at \in Cell /\ Code[i].to \in {"gregs", "fregs", "org_tls_val", "bpoint", "wpoint", "org_sysno"}
  \/ test = "t010" /\ Code[i].at \in Cell /\ Code[i].to \in {"fregs", "org_tls_val", "org_sysno"}
  \/ test = "t010" /\ \/ i = 4 /\ Code[i].at = "greg" /\ Code[i].to = "gregs"
                      \/ i = 11 /\ Code[i].at = "tls" /\ Code[i].to = "tmp_val"
                      \/ i = 16 /\ Code[i].at = "sysno" /\ Code[i].to = "tmp_val"
  \/ test = "t011" /\ i = 12 /\ Code[i].at = "pc" /\ Code[i].to = "gregs_pc"
  \/ test = "t016" /\ i = 6 /\ Code[i].at = "sysno" /\ Code[i].to = "sysno_val"
SetOK(i) ==
  \/ Code[i].at = "brk_addr" /\ i = WaitAt[test] + 2 /\ Code[i].val = "nop"
  \/ test = "t005" /\ i = 4 /\ Code[i].at = "buf" /\ Code[i].val = "PARENT_MAGIC"
  \/ test \in {"t006", "t017"} /\ i = 6 /\ Code[i].at = "read_val" /\ Code[i].val = "brk"
  \/ test = "t006" /\ i = 12 /\ Code[i].at = "read_val" /\ Code[i].val = "inst_val"
  \/ test = "t017" /\ i = 10 /\ Code[i].at = "read_val" /\ Code[i].val = "inst_val"
  \/ test = "t010" /\ \/ i = 6 /\ Code[i].at = "greg" /\ Code[i].val = "magic"
                      \/ i = 8 /\ Code[i].at = "freg" /\ Code[i].val = "magic"
                      \/ i = 10 /\ Code[i].at = "tls" /\ Code[i].val = "write_tls_val"
                      \/ i = 13 /\ Code[i].at = "tls"
                      \/ i = 15 /\ Code[i].at = "sysno" /\ Code[i].val = "write_sysno"
                      \/ i = 18 /\ Code[i].at = "sysno"
                      \/ i = 19 /\ Code[i].at = "regno0" /\ Code[i].val = "regno"
                      \/ i = 20 /\ Code[i].at = "regno1" /\ Code[i].val = "regno"
  \/ test = "t011" /\ \/ i = 6 /\ Code[i].at = "hwwatch" /\ Code[i].val = "buf"
                      \/ i = 15 /\ Code[i].at = "hwwatch" /\ Code[i].val = "none"
  \/ test = "t012" /\ \/ i = 6 /\ Code[i].at = "hwbrk" /\ Code[i].val = "inst"
                      \/ i = 13 /\ Code[i].at = "hwbrk" /\ Code[i].val = "none"
  \/ test = "t014" /\ Code[i].at = "options"
  \/ test = "t021" /\ i = 6 /\ Code[i].at = "devmap" /\ Code[i].val = "0xFFFFFFFF"
CheckOK(i) ==
  \/ test = "t002" /\ i = 5 /\ Code[i].a = "read_val" /\ Code[i].b = "CHILD_MAGIC"
  \/ test = "t003" /\ i = 6 /\ Code[i].a = "inst" /\ Code[i].b = "nop"
  \/ test = "t010" /\ \/ i = 5 /\ Code[i].a = "gregs" /\ Code[i].b = "index"
                      \/ i = 12 /\ Code[i].a = "tmp_val" /\ Code[i].b = "write_tls_val"
                      \/ i = 17 /\ Code[i].a = "tmp_val" /\ Code[i].b = "write_sysno"
  \/ test = "t011" /\ i = 13 /\ Code[i].a = "gregs_pc" /\ Code[i].b = "inst"
  \/ test = "t016" /\ i = 7 /\ Code[i].a = "sysno_val" /\ Code[i].b = "getpid"
ResumesAt(i) ==
  \/ i = LastAt[test]
  \/ test \in {"t006", "t011", "t012", "t017"} /\ i = 7
  \/ test = "t016" /\ i = 4
  \/ test = "t017" /\ i \in {11, 16, 21, 26, 31}
ResumeOK(i) ==
  \/ i = LastAt[test] /\ Code[i].req = (IF test = "t018" THEN "KILL" ELSE IF test = "t020" THEN "DETACH" ELSE "CONT")
  \/ test \in {"t006", "t011", "t012", "t017"} /\ i = 7 /\ Code[i].req = "CONT"
  \/ test = "t016" /\ i = 4 /\ Code[i].req = "SYSCALL"
  \/ test = "t017" /\ i \in {11, 16, 21, 26, 31} /\ Code[i].req = "SINGLESTEP"

\* The places at which P reads or writes what matters later, and what the siginfo has to be.
GetsAt(i, at, to) == Code[i].op = "get" /\ Code[i].at = at /\ Code[i].to = to
SetsAt(i, at, val) == Code[i].op = "set" /\ Code[i].at = at /\ Code[i].val = val
Reads(i) ==
  /\ test \notin BySignal /\ i = WaitAt[test] + 1 => GetsAt(i, "inst_addr", "brk_addr")
  /\ test = "t002" /\ i = 4 => GetsAt(i, "buf", "read_val")
  /\ test \in {"t003", "t006", "t017"} /\ i = 4 => GetsAt(i, "addr", "read_val")
  /\ test = "t003" /\ i = 5 => GetsAt(i, "read_val", "inst")
  /\ test \in {"t006", "t017"} /\ i = 5 => GetsAt(i, "read_val", "inst_val")
  /\ test \in {"t011", "t012"} /\ i = 4 => GetsAt(i, "addr", "inst")
  /\ test = "t010" /\ i = 4 => GetsAt(i, "greg", "gregs")
  /\ test = "t010" /\ i = 11 => GetsAt(i, "tls", "tmp_val")
  /\ test = "t010" /\ i = 16 => GetsAt(i, "sysno", "tmp_val")
  /\ test = "t011" /\ i = 12 => GetsAt(i, "pc", "gregs_pc")
  /\ test = "t016" /\ i = 6 => GetsAt(i, "sysno", "sysno_val")
Writes(i) ==
  /\ test \notin BySignal /\ i = WaitAt[test] + 2 => SetsAt(i, "brk_addr", "nop")
  /\ test = "t005" /\ i = 4 => SetsAt(i, "buf", "PARENT_MAGIC")
  /\ test \in {"t006", "t017"} /\ i = 6 => SetsAt(i, "read_val", "brk")
  /\ test = "t006" /\ i = 12 => SetsAt(i, "read_val", "inst_val")
  /\ test = "t017" /\ i = 10 => SetsAt(i, "read_val", "inst_val")
  /\ test = "t010" /\ i = 6 => SetsAt(i, "greg", "magic")
  /\ test = "t010" /\ i = 8 => SetsAt(i, "freg", "magic")
  /\ test = "t010" /\ i = 10 => SetsAt(i, "tls", "write_tls_val")
  /\ test = "t010" /\ i = 15 => SetsAt(i, "sysno", "write_sysno")
  /\ test = "t010" /\ i = 19 => SetsAt(i, "regno0", "regno")
  /\ test = "t010" /\ i = 20 => SetsAt(i, "regno1", "regno")
  /\ test = "t011" /\ i = 6 => SetsAt(i, "hwwatch", "buf")
  /\ test = "t011" /\ i = 15 => SetsAt(i, "hwwatch", "none")
  /\ test = "t012" /\ i = 6 => SetsAt(i, "hwbrk", "inst")
  /\ test = "t012" /\ i = 13 => SetsAt(i, "hwbrk", "none")
  /\ test = "t021" /\ i = 6 => SetsAt(i, "devmap", "0xFFFFFFFF")
CheckInfoOK(i) ==
  \/ test = "t009" /\ Code[i].info = StopInfo
  \/ test = "t006" /\ i = 11 /\ Code[i].info = Trap("BRKPT", "t")
  \/ test = "t011" /\ i = 11 /\ Code[i].info = Trap("HWBKPT", "buf")
  \/ test = "t012" /\ i = 11 /\ Code[i].info = Trap("HWBKPT", "t")
  \/ test = "t013" /\ i = 7 /\ Code[i].info = write_info
  \/ test = "t017" /\ \/ i = 15 /\ Code[i].info = Trap("HWBKPT", "t+4")
                      \/ i = 20 /\ Code[i].info = Trap("HWBKPT", "t+8")
                      \/ i = 25 /\ Code[i].info = Trap("HWBKPT", "t+12")
                      \/ i = 30 /\ Code[i].info = Trap("HWBKPT", "t+16")
                      \/ i = 35 /\ Code[i].info = Trap("HWBKPT", "t+20")

\* What a statement of parent_func() is, place by place.
GoodStmt(i) ==
  /\ Code[i].op = "ok" <=> i = OkAt[test]
  /\ Code[i].op = "wait" => i < LastAt[test] /\ (i = WaitAt[test] \/ WaitsAgain(i))
  /\ i \in (WaitAt[test] + 1)..LastAt[test] /\ i \notin H => WaitsAgain(i)
  /\ i > LastAt[test] => i \notin H /\ Code[i].op = "ok"
  /\ Code[i].op = "stopsig" => Code[i].sig = "TRAP" /\ test \notin BySignal /\ i > WaitAt[test]
  /\ Code[i].op = "get" => GetOK(i)
  /\ Code[i].op = "set" => SetOK(i)
  /\ Code[i].op = "check" => CheckOK(i)
  /\ Code[i].op = "resume" <=> ResumesAt(i)
  /\ Code[i].op = "resume" => ResumeOK(i)
  /\ Reads(i) /\ Writes(i)
  /\ Code[i].op = "getinfo" => Code[i].to \in InfoReg
  /\ Code[i].op = "setinfo" <=> test = "t013" /\ i = 5
  /\ Code[i].op = "setinfo" => Code[i].info = write_info
  /\ Code[i].op = "restoreinfo" => test = "t013" /\ i = 8
  /\ Code[i].op = "checkinfo" => /\ i > 1 /\ Code[i - 1].op = "getinfo" /\ Code[i - 1].to = Code[i].a
                                 /\ CheckInfoOK(i)
  /\ Code[i].op = "attach" <=> test \in {"t019", "t020"} /\ i = 2
  /\ Code[i].op = "kill" <=> test = "t009" /\ i = 2
  /\ Code[i].op = "read" <=> test = "t021" /\ i = 2
  /\ Code[i].op \in {"post", "semwait"} => test \in BySignal

\* What a statement of child_func() is.
GoodCStmt(j) ==
  /\ test \notin BySignal =>
       /\ j < SiteAt[test] => CCode[j].op \in {"traceme", "store", "call", "cpost"}
       /\ j = SiteAt[test] => CCode[j].op = "site" /\ CCode[j].at = "site1"
       /\ j > SiteAt[test] => CCode[j].op \in {"insn", "storeinsn", "syscall", "ccheck", "cchecknot"}
  /\ test \in BySignal =>
       /\ j < Len(CCode) - 1 => CCode[j].op \in {"traceme", "cpost"}
       /\ j = Len(CCode) - 1 => CCode[j].op = "csemwait"
       /\ j = Len(CCode) => CCode[j].op = "call"
  /\ CCode[j].op = "traceme" <=> j = TraceAt[test]
  /\ CCode[j].op = "store" =>
       \/ test \in {"t002", "t005"} /\ j = 2 /\ CCode[j].at = "buf" /\ CCode[j].val = "CHILD_MAGIC"
       \/ test \in {"t003", "t006", "t011", "t012", "t017"} /\ j = 2 /\ CCode[j].at = "addr" /\ CCode[j].val = "t"
       \/ test \in {"t008", "t010"} /\ j = 2 /\ CCode[j].at = "greg" /\ CCode[j].val = "index"
       \/ test \in {"t008", "t010"} /\ j = 3 /\ CCode[j].at = "freg"
       \/ test = "t021" /\ j = 4 /\ CCode[j].at = "dev"
  /\ test \in {"t002", "t003", "t006", "t010", "t011", "t012", "t017"} /\ j = 2 => CCode[j].op = "store"
  /\ CCode[j].op = "insn" =>
       \/ test \in {"t006", "t012", "t017"} /\ j = 4 /\ CCode[j].at = "t"
       \/ test = "t017" /\ j > 4 /\ CCode[j].at \notin Text \union {"none"}
  /\ CCode[j].op = "storeinsn" => test = "t011" /\ j = 4 /\ CCode[j].at = "t" /\ CCode[j].to = "buf"
  /\ CCode[j].op = "syscall" <=> test = "t016" /\ j = 3
  /\ CCode[j].op = "syscall" => CCode[j].no = "getpid"
  /\ CCode[j].op = "ccheck" =>
       \/ test = "t002" /\ CCode[j].at = "buf" /\ CCode[j].val = "CHILD_MAGIC"
       \/ test = "t005" /\ CCode[j].at = "buf" /\ CCode[j].val = "PARENT_MAGIC"
       \/ test = "t010" /\ CCode[j].at \in {"regno0", "regno1"} /\ CCode[j].val = "regno"
       \/ test = "t010" /\ CCode[j].at \in {"greg", "freg"} /\ CCode[j].val = "magic"
  /\ CCode[j].op = "cchecknot" => test = "t021" /\ CCode[j].at = "dev" /\ CCode[j].val = "zero"

GoodText ==
  /\ Len(Code) \in Nat /\ Len(CCode) \in Nat /\ WaitAt[test] \in Nat /\ SiteAt[test] \in Nat
  /\ OkAt[test] \in Nat /\ LastAt[test] \in Nat /\ FirstAt[test] \in Nat
  /\ 1 <= WaitAt[test] /\ WaitAt[test] < FirstAt[test] /\ FirstAt[test] <= LastAt[test] /\ LastAt[test] <= Len(Code)
  /\ WaitAt[test] <= 4
  /\ OkAt[test] \in 1..Len(Code)
  /\ test \in BySignal => WaitAt[test] = 4 /\ 5 \in H /\ Len(CCode) >= 3 /\ FirstAt[test] = LastAt[test]
  /\ test \notin BySignal => /\ SiteAt[test] >= 2 /\ SiteAt[test] <= Len(CCode)
                             /\ TraceAt[test] \in 1..(SiteAt[test] - 1)
                             /\ WaitAt[test] + 2 < FirstAt[test]
                             /\ WaitAt[test] + 1 \in H /\ WaitAt[test] + 2 \in H
  /\ \A i \in 1..Len(Code) : GoodStmt(i)
  /\ \A j \in 1..Len(CCode) : GoodCStmt(j)

\* 001, place by place.
LEMMA Plan001 ==
  ASSUME test = "t001"
  PROVE  GoodText
<1>1. /\ H = 2..4 /\ OkAt[test] = 5 /\ TraceAt[test] = 1 /\ WaitAt[test] = 1
      /\ FirstAt[test] = 4 /\ LastAt[test] = 4 /\ SiteAt[test] = 2
  BY DEF H, Hold, OkAt, TraceAt, WaitAt, FirstAt, LastAt, SiteAt
<1>2. /\ Len(Code) = 5 /\ Code[1].op = "wait"
      /\ Code[2].op = "get" /\ Code[2].at = "inst_addr" /\ Code[2].to = "brk_addr"
      /\ Code[3].op = "set" /\ Code[3].at = "brk_addr" /\ Code[3].val = "nop"
      /\ Code[4].op = "resume" /\ Code[4].req = "CONT" /\ Code[5].op = "ok"
  BY Text001
<1>3. /\ Len(CCode) = 2 /\ CCode[1].op = "traceme" /\ CCode[2].op = "site" /\ CCode[2].at = "site1"
  BY Text001
<1>4. \A i \in 1..Len(Code) : GoodStmt(i)
  BY ONLY test = "t001", <1>1, <1>2 DEF GoodStmt, Reads, GetsAt, Writes, SetsAt, GetOK, SetOK, CheckOK, CheckInfoOK, ResumesAt, ResumeOK, WaitsAgain,
    BySignal, InfoReg
<1>5. \A j \in 1..Len(CCode) : GoodCStmt(j)
  BY ONLY test = "t001", <1>1, <1>3 DEF GoodCStmt, BySignal
<1>. QED  BY ONLY test = "t001", <1>1, <1>2, <1>3, <1>4, <1>5 DEF GoodText, BySignal

\* 002, place by place.
LEMMA Plan002 ==
  ASSUME test = "t002"
  PROVE  GoodText
<1>1. /\ H = 2..7 /\ OkAt[test] = 6 /\ TraceAt[test] = 1 /\ WaitAt[test] = 1
      /\ FirstAt[test] = 7 /\ LastAt[test] = 7 /\ SiteAt[test] = 3
  BY DEF H, Hold, OkAt, TraceAt, WaitAt, FirstAt, LastAt, SiteAt
<1>2. /\ Len(Code) = 7 /\ Code[1].op = "wait"
      /\ Code[2].op = "get" /\ Code[2].at = "inst_addr" /\ Code[2].to = "brk_addr"
      /\ Code[3].op = "set" /\ Code[3].at = "brk_addr" /\ Code[3].val = "nop"
      /\ Code[4].op = "get" /\ Code[4].at = "buf" /\ Code[4].to = "read_val"
      /\ Code[5].op = "check" /\ Code[5].a = "read_val" /\ Code[5].b = "CHILD_MAGIC" /\ Code[6].op = "ok"
      /\ Code[7].op = "resume" /\ Code[7].req = "CONT"
  BY Text002
<1>3. /\ Len(CCode) = 4 /\ CCode[1].op = "traceme"
      /\ CCode[2].op = "store" /\ CCode[2].at = "buf" /\ CCode[2].val = "CHILD_MAGIC"
      /\ CCode[3].op = "site" /\ CCode[3].at = "site1"
      /\ CCode[4].op = "ccheck" /\ CCode[4].at = "buf" /\ CCode[4].val = "CHILD_MAGIC"
  BY Text002
<1>4. \A i \in 1..Len(Code) : GoodStmt(i)
  BY ONLY test = "t002", <1>1, <1>2 DEF GoodStmt, Reads, GetsAt, Writes, SetsAt, GetOK, SetOK, CheckOK, CheckInfoOK, ResumesAt, ResumeOK, WaitsAgain,
    BySignal, InfoReg
<1>5. \A j \in 1..Len(CCode) : GoodCStmt(j)
  BY ONLY test = "t002", <1>1, <1>3 DEF GoodCStmt, BySignal
<1>. QED  BY ONLY test = "t002", <1>1, <1>2, <1>3, <1>4, <1>5 DEF GoodText, BySignal

\* 003, place by place.
LEMMA Plan003 ==
  ASSUME test = "t003"
  PROVE  GoodText
<1>1. /\ H = 2..8 /\ OkAt[test] = 7 /\ TraceAt[test] = 1 /\ WaitAt[test] = 1
      /\ FirstAt[test] = 8 /\ LastAt[test] = 8 /\ SiteAt[test] = 3
  BY DEF H, Hold, OkAt, TraceAt, WaitAt, FirstAt, LastAt, SiteAt
<1>2. /\ Len(Code) = 8 /\ Code[1].op = "wait"
      /\ Code[2].op = "get" /\ Code[2].at = "inst_addr" /\ Code[2].to = "brk_addr"
      /\ Code[3].op = "set" /\ Code[3].at = "brk_addr" /\ Code[3].val = "nop"
      /\ Code[4].op = "get" /\ Code[4].at = "addr" /\ Code[4].to = "read_val"
      /\ Code[5].op = "get" /\ Code[5].at = "read_val" /\ Code[5].to = "inst"
      /\ Code[6].op = "check" /\ Code[6].a = "inst" /\ Code[6].b = "nop" /\ Code[7].op = "ok"
      /\ Code[8].op = "resume" /\ Code[8].req = "CONT"
  BY Text003
<1>3. /\ Len(CCode) = 3 /\ CCode[1].op = "traceme"
      /\ CCode[2].op = "store" /\ CCode[2].at = "addr" /\ CCode[2].val = "t"
      /\ CCode[3].op = "site" /\ CCode[3].at = "site1"
  BY Text003
<1>4. \A i \in 1..Len(Code) : GoodStmt(i)
  BY ONLY test = "t003", <1>1, <1>2 DEF GoodStmt, Reads, GetsAt, Writes, SetsAt, GetOK, SetOK, CheckOK, CheckInfoOK, ResumesAt, ResumeOK, WaitsAgain,
    BySignal, InfoReg
<1>5. \A j \in 1..Len(CCode) : GoodCStmt(j)
  BY ONLY test = "t003", <1>1, <1>3 DEF GoodCStmt, BySignal
<1>. QED  BY ONLY test = "t003", <1>1, <1>2, <1>3, <1>4, <1>5 DEF GoodText, BySignal

\* 004, place by place.
LEMMA Plan004 ==
  ASSUME test = "t004"
  PROVE  GoodText
<1>1. /\ H = 2..6 /\ OkAt[test] = 5 /\ TraceAt[test] = 1 /\ WaitAt[test] = 1
      /\ FirstAt[test] = 6 /\ LastAt[test] = 6 /\ SiteAt[test] = 2
  BY DEF H, Hold, OkAt, TraceAt, WaitAt, FirstAt, LastAt, SiteAt
<1>2. /\ Len(Code) = 6 /\ Code[1].op = "wait"
      /\ Code[2].op = "get" /\ Code[2].at = "inst_addr" /\ Code[2].to = "brk_addr"
      /\ Code[3].op = "set" /\ Code[3].at = "brk_addr" /\ Code[3].val = "nop" /\ Code[4].op = "mustfail"
      /\ Code[5].op = "ok" /\ Code[6].op = "resume" /\ Code[6].req = "CONT"
  BY Text004
<1>3. /\ Len(CCode) = 2 /\ CCode[1].op = "traceme" /\ CCode[2].op = "site" /\ CCode[2].at = "site1"
  BY Text004
<1>4. \A i \in 1..Len(Code) : GoodStmt(i)
  BY ONLY test = "t004", <1>1, <1>2 DEF GoodStmt, Reads, GetsAt, Writes, SetsAt, GetOK, SetOK, CheckOK, CheckInfoOK, ResumesAt, ResumeOK, WaitsAgain,
    BySignal, InfoReg
<1>5. \A j \in 1..Len(CCode) : GoodCStmt(j)
  BY ONLY test = "t004", <1>1, <1>3 DEF GoodCStmt, BySignal
<1>. QED  BY ONLY test = "t004", <1>1, <1>2, <1>3, <1>4, <1>5 DEF GoodText, BySignal

\* 005, place by place.
LEMMA Plan005 ==
  ASSUME test = "t005"
  PROVE  GoodText
<1>1. /\ H = 2..6 /\ OkAt[test] = 5 /\ TraceAt[test] = 1 /\ WaitAt[test] = 1
      /\ FirstAt[test] = 6 /\ LastAt[test] = 6 /\ SiteAt[test] = 3
  BY DEF H, Hold, OkAt, TraceAt, WaitAt, FirstAt, LastAt, SiteAt
<1>2. /\ Len(Code) = 6 /\ Code[1].op = "wait"
      /\ Code[2].op = "get" /\ Code[2].at = "inst_addr" /\ Code[2].to = "brk_addr"
      /\ Code[3].op = "set" /\ Code[3].at = "brk_addr" /\ Code[3].val = "nop"
      /\ Code[4].op = "set" /\ Code[4].at = "buf" /\ Code[4].val = "PARENT_MAGIC" /\ Code[5].op = "ok"
      /\ Code[6].op = "resume" /\ Code[6].req = "CONT"
  BY Text005
<1>3. /\ Len(CCode) = 4 /\ CCode[1].op = "traceme"
      /\ CCode[2].op = "store" /\ CCode[2].at = "buf" /\ CCode[2].val = "CHILD_MAGIC"
      /\ CCode[3].op = "site" /\ CCode[3].at = "site1"
      /\ CCode[4].op = "ccheck" /\ CCode[4].at = "buf" /\ CCode[4].val = "PARENT_MAGIC"
  BY Text005
<1>4. \A i \in 1..Len(Code) : GoodStmt(i)
  BY ONLY test = "t005", <1>1, <1>2 DEF GoodStmt, Reads, GetsAt, Writes, SetsAt, GetOK, SetOK, CheckOK, CheckInfoOK, ResumesAt, ResumeOK, WaitsAgain,
    BySignal, InfoReg
<1>5. \A j \in 1..Len(CCode) : GoodCStmt(j)
  BY ONLY test = "t005", <1>1, <1>3 DEF GoodCStmt, BySignal
<1>. QED  BY ONLY test = "t005", <1>1, <1>2, <1>3, <1>4, <1>5 DEF GoodText, BySignal

\* 006, place by place.
LEMMA Plan006 ==
  ASSUME test = "t006"
  PROVE  GoodText
<1>1. /\ H = (2..7) \union (9..14) /\ OkAt[test] = 13 /\ TraceAt[test] = 1 /\ WaitAt[test] = 1
      /\ FirstAt[test] = 7 /\ LastAt[test] = 14 /\ SiteAt[test] = 3
  BY DEF H, Hold, OkAt, TraceAt, WaitAt, FirstAt, LastAt, SiteAt
<1>2. /\ Len(Code) = 14 /\ Code[1].op = "wait"
      /\ Code[2].op = "get" /\ Code[2].at = "inst_addr" /\ Code[2].to = "brk_addr"
      /\ Code[3].op = "set" /\ Code[3].at = "brk_addr" /\ Code[3].val = "nop"
      /\ Code[4].op = "get" /\ Code[4].at = "addr" /\ Code[4].to = "read_val"
      /\ Code[5].op = "get" /\ Code[5].at = "read_val" /\ Code[5].to = "inst_val"
      /\ Code[6].op = "set" /\ Code[6].at = "read_val" /\ Code[6].val = "brk"
      /\ Code[7].op = "resume" /\ Code[7].req = "CONT" /\ Code[8].op = "wait"
      /\ Code[9].op = "stopsig" /\ Code[9].sig = "TRAP" /\ Code[10].op = "getinfo" /\ Code[10].to = "info"
      /\ Code[11].op = "checkinfo" /\ Code[11].a = "info" /\ Code[11].info = [signo |-> "TRAP", code |-> "BRKPT", addr |-> "t"]
      /\ Code[12].op = "set" /\ Code[12].at = "read_val" /\ Code[12].val = "inst_val" /\ Code[13].op = "ok"
      /\ Code[14].op = "resume" /\ Code[14].req = "CONT"
  BY Text006
<1>3. /\ Len(CCode) = 4 /\ CCode[1].op = "traceme"
      /\ CCode[2].op = "store" /\ CCode[2].at = "addr" /\ CCode[2].val = "t"
      /\ CCode[3].op = "site" /\ CCode[3].at = "site1" /\ CCode[4].op = "insn" /\ CCode[4].at = "t"
  BY Text006
<1>4. \A i \in 1..Len(Code) : GoodStmt(i)
  BY ONLY test = "t006", <1>1, <1>2 DEF GoodStmt, Reads, GetsAt, Writes, SetsAt, GetOK, SetOK, CheckOK, CheckInfoOK, ResumesAt, ResumeOK, WaitsAgain,
    BySignal, InfoReg, Trap
<1>5. \A j \in 1..Len(CCode) : GoodCStmt(j)
  BY ONLY test = "t006", <1>1, <1>3 DEF GoodCStmt, BySignal
<1>. QED  BY ONLY test = "t006", <1>1, <1>2, <1>3, <1>4, <1>5 DEF GoodText, BySignal

\* 007, place by place.
LEMMA Plan007 ==
  ASSUME test = "t007"
  PROVE  GoodText
<1>1. /\ H = 2..6 /\ OkAt[test] = 5 /\ TraceAt[test] = 1 /\ WaitAt[test] = 1
      /\ FirstAt[test] = 6 /\ LastAt[test] = 6 /\ SiteAt[test] = 2
  BY DEF H, Hold, OkAt, TraceAt, WaitAt, FirstAt, LastAt, SiteAt
<1>2. /\ Len(Code) = 6 /\ Code[1].op = "wait"
      /\ Code[2].op = "get" /\ Code[2].at = "inst_addr" /\ Code[2].to = "brk_addr"
      /\ Code[3].op = "set" /\ Code[3].at = "brk_addr" /\ Code[3].val = "nop" /\ Code[4].op = "mustfail"
      /\ Code[5].op = "ok" /\ Code[6].op = "resume" /\ Code[6].req = "CONT"
  BY Text007
<1>3. /\ Len(CCode) = 2 /\ CCode[1].op = "traceme" /\ CCode[2].op = "site" /\ CCode[2].at = "site1"
  BY Text007
<1>4. \A i \in 1..Len(Code) : GoodStmt(i)
  BY ONLY test = "t007", <1>1, <1>2 DEF GoodStmt, Reads, GetsAt, Writes, SetsAt, GetOK, SetOK, CheckOK, CheckInfoOK, ResumesAt, ResumeOK, WaitsAgain,
    BySignal, InfoReg
<1>5. \A j \in 1..Len(CCode) : GoodCStmt(j)
  BY ONLY test = "t007", <1>1, <1>3 DEF GoodCStmt, BySignal
<1>. QED  BY ONLY test = "t007", <1>1, <1>2, <1>3, <1>4, <1>5 DEF GoodText, BySignal

\* 008, place by place.
LEMMA Plan008 ==
  ASSUME test = "t008"
  PROVE  GoodText
<1>1. /\ H = 2..11 /\ OkAt[test] = 10 /\ TraceAt[test] = 1 /\ WaitAt[test] = 1
      /\ FirstAt[test] = 11 /\ LastAt[test] = 11 /\ SiteAt[test] = 4
  BY DEF H, Hold, OkAt, TraceAt, WaitAt, FirstAt, LastAt, SiteAt
<1>2. /\ Len(Code) = 11 /\ Code[1].op = "wait"
      /\ Code[2].op = "get" /\ Code[2].at = "inst_addr" /\ Code[2].to = "brk_addr"
      /\ Code[3].op = "set" /\ Code[3].at = "brk_addr" /\ Code[3].val = "nop"
      /\ Code[4].op = "get" /\ Code[4].at = "greg" /\ Code[4].to = "gregs"
      /\ Code[5].op = "get" /\ Code[5].at = "freg" /\ Code[5].to = "fregs"
      /\ Code[6].op = "get" /\ Code[6].at = "tls" /\ Code[6].to = "org_tls_val"
      /\ Code[7].op = "get" /\ Code[7].at = "hwbrk" /\ Code[7].to = "bpoint"
      /\ Code[8].op = "get" /\ Code[8].at = "hwwatch" /\ Code[8].to = "wpoint"
      /\ Code[9].op = "get" /\ Code[9].at = "sysno" /\ Code[9].to = "org_sysno" /\ Code[10].op = "ok"
      /\ Code[11].op = "resume" /\ Code[11].req = "CONT"
  BY Text008
<1>3. /\ Len(CCode) = 4 /\ CCode[1].op = "traceme"
      /\ CCode[2].op = "store" /\ CCode[2].at = "greg" /\ CCode[2].val = "index"
      /\ CCode[3].op = "store" /\ CCode[3].at = "freg" /\ CCode[3].val = "index"
      /\ CCode[4].op = "site" /\ CCode[4].at = "site1"
  BY Text008
<1>4. \A i \in 1..Len(Code) : GoodStmt(i)
  BY ONLY test = "t008", <1>1, <1>2 DEF GoodStmt, Reads, GetsAt, Writes, SetsAt, GetOK, SetOK, CheckOK, CheckInfoOK, ResumesAt, ResumeOK, WaitsAgain,
    BySignal, InfoReg, Cell
<1>5. \A j \in 1..Len(CCode) : GoodCStmt(j)
  BY ONLY test = "t008", <1>1, <1>3 DEF GoodCStmt, BySignal
<1>. QED  BY ONLY test = "t008", <1>1, <1>2, <1>3, <1>4, <1>5 DEF GoodText, BySignal

\* 009, place by place.
LEMMA Plan009 ==
  ASSUME test = "t009"
  PROVE  GoodText
<1>1. /\ H = 5..8 /\ OkAt[test] = 7 /\ TraceAt[test] = 1 /\ WaitAt[test] = 4
      /\ FirstAt[test] = 8 /\ LastAt[test] = 8 /\ SiteAt[test] = 0
  BY DEF H, Hold, OkAt, TraceAt, WaitAt, FirstAt, LastAt, SiteAt
<1>2. /\ Len(Code) = 8 /\ Code[1].op = "semwait" /\ Code[2].op = "kill" /\ Code[2].sig = "STOP"
      /\ Code[3].op = "post" /\ Code[4].op = "wait" /\ Code[5].op = "getinfo" /\ Code[5].to = "info"
      /\ Code[6].op = "checkinfo" /\ Code[6].a = "info" /\ Code[6].info = [signo |-> "STOP", code |-> "USER", addr |-> "none"]
      /\ Code[7].op = "ok" /\ Code[8].op = "resume" /\ Code[8].req = "CONT"
  BY Text009
<1>3. /\ Len(CCode) = 4 /\ CCode[1].op = "traceme" /\ CCode[2].op = "cpost" /\ CCode[3].op = "csemwait"
      /\ CCode[4].op = "call"
  BY Text009
<1>4. \A i \in 1..Len(Code) : GoodStmt(i)
  BY ONLY test = "t009", <1>1, <1>2 DEF GoodStmt, Reads, GetsAt, Writes, SetsAt, GetOK, SetOK, CheckOK, CheckInfoOK, ResumesAt, ResumeOK, WaitsAgain,
    BySignal, InfoReg, StopInfo
<1>5. \A j \in 1..Len(CCode) : GoodCStmt(j)
  BY ONLY test = "t009", <1>1, <1>3 DEF GoodCStmt, BySignal
<1>. QED  BY ONLY test = "t009", <1>1, <1>2, <1>3, <1>4, <1>5 DEF GoodText, BySignal

\* 010, place by place.
LEMMA Plan010 ==
  ASSUME test = "t010"
  PROVE  GoodText
<1>1. /\ H = 2..22 /\ OkAt[test] = 21 /\ TraceAt[test] = 1 /\ WaitAt[test] = 1
      /\ FirstAt[test] = 22 /\ LastAt[test] = 22 /\ SiteAt[test] = 4
  BY DEF H, Hold, OkAt, TraceAt, WaitAt, FirstAt, LastAt, SiteAt
<1>2. /\ Len(Code) = 22 /\ Code[1].op = "wait"
      /\ Code[2].op = "get" /\ Code[2].at = "inst_addr" /\ Code[2].to = "brk_addr"
      /\ Code[3].op = "set" /\ Code[3].at = "brk_addr" /\ Code[3].val = "nop"
      /\ Code[4].op = "get" /\ Code[4].at = "greg" /\ Code[4].to = "gregs"
      /\ Code[5].op = "check" /\ Code[5].a = "gregs" /\ Code[5].b = "index"
      /\ Code[6].op = "set" /\ Code[6].at = "greg" /\ Code[6].val = "magic"
      /\ Code[7].op = "get" /\ Code[7].at = "freg" /\ Code[7].to = "fregs"
      /\ Code[8].op = "set" /\ Code[8].at = "freg" /\ Code[8].val = "magic"
      /\ Code[9].op = "get" /\ Code[9].at = "tls" /\ Code[9].to = "org_tls_val"
      /\ Code[10].op = "set" /\ Code[10].at = "tls" /\ Code[10].val = "write_tls_val"
      /\ Code[11].op = "get" /\ Code[11].at = "tls" /\ Code[11].to = "tmp_val"
      /\ Code[12].op = "check" /\ Code[12].a = "tmp_val" /\ Code[12].b = "write_tls_val"
      /\ Code[13].op = "set" /\ Code[13].at = "tls" /\ Code[13].val = "org_tls_val"
      /\ Code[14].op = "get" /\ Code[14].at = "sysno" /\ Code[14].to = "org_sysno"
      /\ Code[15].op = "set" /\ Code[15].at = "sysno" /\ Code[15].val = "write_sysno"
      /\ Code[16].op = "get" /\ Code[16].at = "sysno" /\ Code[16].to = "tmp_val"
      /\ Code[17].op = "check" /\ Code[17].a = "tmp_val" /\ Code[17].b = "write_sysno"
      /\ Code[18].op = "set" /\ Code[18].at = "sysno" /\ Code[18].val = "org_sysno"
      /\ Code[19].op = "set" /\ Code[19].at = "regno0" /\ Code[19].val = "regno"
      /\ Code[20].op = "set" /\ Code[20].at = "regno1" /\ Code[20].val = "regno" /\ Code[21].op = "ok"
      /\ Code[22].op = "resume" /\ Code[22].req = "CONT"
  BY Text010
<1>3. /\ Len(CCode) = 8 /\ CCode[1].op = "traceme"
      /\ CCode[2].op = "store" /\ CCode[2].at = "greg" /\ CCode[2].val = "index"
      /\ CCode[3].op = "store" /\ CCode[3].at = "freg" /\ CCode[3].val = "index"
      /\ CCode[4].op = "site" /\ CCode[4].at = "site1"
      /\ CCode[5].op = "ccheck" /\ CCode[5].at = "regno0" /\ CCode[5].val = "regno"
      /\ CCode[6].op = "ccheck" /\ CCode[6].at = "regno1" /\ CCode[6].val = "regno"
      /\ CCode[7].op = "ccheck" /\ CCode[7].at = "greg" /\ CCode[7].val = "magic"
      /\ CCode[8].op = "ccheck" /\ CCode[8].at = "freg" /\ CCode[8].val = "magic"
  BY Text010
<1>4. \A i \in 1..Len(Code) : GoodStmt(i)
  BY ONLY test = "t010", <1>1, <1>2 DEF GoodStmt, Reads, GetsAt, Writes, SetsAt, GetOK, SetOK, CheckOK, CheckInfoOK, ResumesAt, ResumeOK, WaitsAgain,
    BySignal, InfoReg, Cell
<1>5. \A j \in 1..Len(CCode) : GoodCStmt(j)
  BY ONLY test = "t010", <1>1, <1>3 DEF GoodCStmt, BySignal
<1>. QED  BY ONLY test = "t010", <1>1, <1>2, <1>3, <1>4, <1>5 DEF GoodText, BySignal

\* 011, place by place.
LEMMA Plan011 ==
  ASSUME test = "t011"
  PROVE  GoodText
<1>1. /\ H = (2..7) \union (9..17) /\ OkAt[test] = 16 /\ TraceAt[test] = 1 /\ WaitAt[test] = 1
      /\ FirstAt[test] = 7 /\ LastAt[test] = 17 /\ SiteAt[test] = 3
  BY DEF H, Hold, OkAt, TraceAt, WaitAt, FirstAt, LastAt, SiteAt
<1>2. /\ Len(Code) = 17 /\ Code[1].op = "wait"
      /\ Code[2].op = "get" /\ Code[2].at = "inst_addr" /\ Code[2].to = "brk_addr"
      /\ Code[3].op = "set" /\ Code[3].at = "brk_addr" /\ Code[3].val = "nop"
      /\ Code[4].op = "get" /\ Code[4].at = "addr" /\ Code[4].to = "inst"
      /\ Code[5].op = "get" /\ Code[5].at = "hwwatch" /\ Code[5].to = "wpoint"
      /\ Code[6].op = "set" /\ Code[6].at = "hwwatch" /\ Code[6].val = "buf"
      /\ Code[7].op = "resume" /\ Code[7].req = "CONT" /\ Code[8].op = "wait"
      /\ Code[9].op = "stopsig" /\ Code[9].sig = "TRAP" /\ Code[10].op = "getinfo" /\ Code[10].to = "info"
      /\ Code[11].op = "checkinfo" /\ Code[11].a = "info" /\ Code[11].info = [signo |-> "TRAP", code |-> "HWBKPT", addr |-> "buf"]
      /\ Code[12].op = "get" /\ Code[12].at = "pc" /\ Code[12].to = "gregs_pc"
      /\ Code[13].op = "check" /\ Code[13].a = "gregs_pc" /\ Code[13].b = "inst"
      /\ Code[14].op = "get" /\ Code[14].at = "hwwatch" /\ Code[14].to = "wpoint"
      /\ Code[15].op = "set" /\ Code[15].at = "hwwatch" /\ Code[15].val = "none" /\ Code[16].op = "ok"
      /\ Code[17].op = "resume" /\ Code[17].req = "CONT"
  BY Text011
<1>3. /\ Len(CCode) = 4 /\ CCode[1].op = "traceme"
      /\ CCode[2].op = "store" /\ CCode[2].at = "addr" /\ CCode[2].val = "t"
      /\ CCode[3].op = "site" /\ CCode[3].at = "site1"
      /\ CCode[4].op = "storeinsn" /\ CCode[4].at = "t" /\ CCode[4].to = "buf" /\ CCode[4].val = "CHILD_MAGIC"
  BY Text011
<1>4. \A i \in 1..Len(Code) : GoodStmt(i)
  BY ONLY test = "t011", <1>1, <1>2 DEF GoodStmt, Reads, GetsAt, Writes, SetsAt, GetOK, SetOK, CheckOK, CheckInfoOK, ResumesAt, ResumeOK, WaitsAgain,
    BySignal, InfoReg, Cell, Trap
<1>5. \A j \in 1..Len(CCode) : GoodCStmt(j)
  BY ONLY test = "t011", <1>1, <1>3 DEF GoodCStmt, BySignal
<1>. QED  BY ONLY test = "t011", <1>1, <1>2, <1>3, <1>4, <1>5 DEF GoodText, BySignal

\* 012, place by place.
LEMMA Plan012 ==
  ASSUME test = "t012"
  PROVE  GoodText
<1>1. /\ H = (2..7) \union (9..15) /\ OkAt[test] = 14 /\ TraceAt[test] = 1 /\ WaitAt[test] = 1
      /\ FirstAt[test] = 7 /\ LastAt[test] = 15 /\ SiteAt[test] = 3
  BY DEF H, Hold, OkAt, TraceAt, WaitAt, FirstAt, LastAt, SiteAt
<1>2. /\ Len(Code) = 15 /\ Code[1].op = "wait"
      /\ Code[2].op = "get" /\ Code[2].at = "inst_addr" /\ Code[2].to = "brk_addr"
      /\ Code[3].op = "set" /\ Code[3].at = "brk_addr" /\ Code[3].val = "nop"
      /\ Code[4].op = "get" /\ Code[4].at = "addr" /\ Code[4].to = "inst"
      /\ Code[5].op = "get" /\ Code[5].at = "hwbrk" /\ Code[5].to = "bpoint"
      /\ Code[6].op = "set" /\ Code[6].at = "hwbrk" /\ Code[6].val = "inst"
      /\ Code[7].op = "resume" /\ Code[7].req = "CONT" /\ Code[8].op = "wait"
      /\ Code[9].op = "stopsig" /\ Code[9].sig = "TRAP" /\ Code[10].op = "getinfo" /\ Code[10].to = "info"
      /\ Code[11].op = "checkinfo" /\ Code[11].a = "info" /\ Code[11].info = [signo |-> "TRAP", code |-> "HWBKPT", addr |-> "t"]
      /\ Code[12].op = "get" /\ Code[12].at = "hwbrk" /\ Code[12].to = "bpoint"
      /\ Code[13].op = "set" /\ Code[13].at = "hwbrk" /\ Code[13].val = "none" /\ Code[14].op = "ok"
      /\ Code[15].op = "resume" /\ Code[15].req = "CONT"
  BY Text012
<1>3. /\ Len(CCode) = 4 /\ CCode[1].op = "traceme"
      /\ CCode[2].op = "store" /\ CCode[2].at = "addr" /\ CCode[2].val = "t"
      /\ CCode[3].op = "site" /\ CCode[3].at = "site1" /\ CCode[4].op = "insn" /\ CCode[4].at = "t"
  BY Text012
<1>4. \A i \in 1..Len(Code) : GoodStmt(i)
  BY ONLY test = "t012", <1>1, <1>2 DEF GoodStmt, Reads, GetsAt, Writes, SetsAt, GetOK, SetOK, CheckOK, CheckInfoOK, ResumesAt, ResumeOK, WaitsAgain,
    BySignal, InfoReg, Cell, Trap
<1>5. \A j \in 1..Len(CCode) : GoodCStmt(j)
  BY ONLY test = "t012", <1>1, <1>3 DEF GoodCStmt, BySignal
<1>. QED  BY ONLY test = "t012", <1>1, <1>2, <1>3, <1>4, <1>5 DEF GoodText, BySignal

\* 013, place by place.
LEMMA Plan013 ==
  ASSUME test = "t013"
  PROVE  GoodText
<1>1. /\ H = 2..10 /\ OkAt[test] = 9 /\ TraceAt[test] = 1 /\ WaitAt[test] = 1
      /\ FirstAt[test] = 10 /\ LastAt[test] = 10 /\ SiteAt[test] = 2
  BY DEF H, Hold, OkAt, TraceAt, WaitAt, FirstAt, LastAt, SiteAt
<1>2. /\ Len(Code) = 10 /\ Code[1].op = "wait"
      /\ Code[2].op = "get" /\ Code[2].at = "inst_addr" /\ Code[2].to = "brk_addr"
      /\ Code[3].op = "set" /\ Code[3].at = "brk_addr" /\ Code[3].val = "nop"
      /\ Code[4].op = "getinfo" /\ Code[4].to = "org_info"
      /\ Code[5].op = "setinfo" /\ Code[5].info = [signo |-> "TRAP+1", code |-> "BRKPT+1", addr |-> "any"]
      /\ Code[6].op = "getinfo" /\ Code[6].to = "tmp_info"
      /\ Code[7].op = "checkinfo" /\ Code[7].a = "tmp_info" /\ Code[7].info = [signo |-> "TRAP+1", code |-> "BRKPT+1", addr |-> "any"]
      /\ Code[8].op = "restoreinfo" /\ Code[8].a = "org_info" /\ Code[9].op = "ok"
      /\ Code[10].op = "resume" /\ Code[10].req = "CONT"
  BY Text013
<1>3. /\ Len(CCode) = 2 /\ CCode[1].op = "traceme" /\ CCode[2].op = "site" /\ CCode[2].at = "site1"
  BY Text013
<1>4. \A i \in 1..Len(Code) : GoodStmt(i)
  BY ONLY test = "t013", <1>1, <1>2 DEF GoodStmt, Reads, GetsAt, Writes, SetsAt, GetOK, SetOK, CheckOK, CheckInfoOK, ResumesAt, ResumeOK, WaitsAgain,
    BySignal, InfoReg, write_info
<1>5. \A j \in 1..Len(CCode) : GoodCStmt(j)
  BY ONLY test = "t013", <1>1, <1>3 DEF GoodCStmt, BySignal
<1>. QED  BY ONLY test = "t013", <1>1, <1>2, <1>3, <1>4, <1>5 DEF GoodText, BySignal

\* 014, place by place.
LEMMA Plan014 ==
  ASSUME test = "t014"
  PROVE  GoodText
<1>1. /\ H = 2..7 /\ OkAt[test] = 6 /\ TraceAt[test] = 1 /\ WaitAt[test] = 1
      /\ FirstAt[test] = 7 /\ LastAt[test] = 7 /\ SiteAt[test] = 2
  BY DEF H, Hold, OkAt, TraceAt, WaitAt, FirstAt, LastAt, SiteAt
<1>2. /\ Len(Code) = 7 /\ Code[1].op = "wait"
      /\ Code[2].op = "get" /\ Code[2].at = "inst_addr" /\ Code[2].to = "brk_addr"
      /\ Code[3].op = "set" /\ Code[3].at = "brk_addr" /\ Code[3].val = "nop"
      /\ Code[4].op = "set" /\ Code[4].at = "options" /\ Code[4].val = "all" /\ Code[5].op = "mustfail"
      /\ Code[6].op = "ok" /\ Code[7].op = "resume" /\ Code[7].req = "CONT"
  BY Text014
<1>3. /\ Len(CCode) = 2 /\ CCode[1].op = "traceme" /\ CCode[2].op = "site" /\ CCode[2].at = "site1"
  BY Text014
<1>4. \A i \in 1..Len(Code) : GoodStmt(i)
  BY ONLY test = "t014", <1>1, <1>2 DEF GoodStmt, Reads, GetsAt, Writes, SetsAt, GetOK, SetOK, CheckOK, CheckInfoOK, ResumesAt, ResumeOK, WaitsAgain,
    BySignal, InfoReg
<1>5. \A j \in 1..Len(CCode) : GoodCStmt(j)
  BY ONLY test = "t014", <1>1, <1>3 DEF GoodCStmt, BySignal
<1>. QED  BY ONLY test = "t014", <1>1, <1>2, <1>3, <1>4, <1>5 DEF GoodText, BySignal

\* 016, place by place.
LEMMA Plan016 ==
  ASSUME test = "t016"
  PROVE  GoodText
<1>1. /\ H = (2..4) \union (6..9) /\ OkAt[test] = 8 /\ TraceAt[test] = 1 /\ WaitAt[test] = 1
      /\ FirstAt[test] = 4 /\ LastAt[test] = 9 /\ SiteAt[test] = 2
  BY DEF H, Hold, OkAt, TraceAt, WaitAt, FirstAt, LastAt, SiteAt
<1>2. /\ Len(Code) = 9 /\ Code[1].op = "wait"
      /\ Code[2].op = "get" /\ Code[2].at = "inst_addr" /\ Code[2].to = "brk_addr"
      /\ Code[3].op = "set" /\ Code[3].at = "brk_addr" /\ Code[3].val = "nop"
      /\ Code[4].op = "resume" /\ Code[4].req = "SYSCALL" /\ Code[5].op = "wait"
      /\ Code[6].op = "get" /\ Code[6].at = "sysno" /\ Code[6].to = "sysno_val"
      /\ Code[7].op = "check" /\ Code[7].a = "sysno_val" /\ Code[7].b = "getpid" /\ Code[8].op = "ok"
      /\ Code[9].op = "resume" /\ Code[9].req = "CONT"
  BY Text016
<1>3. /\ Len(CCode) = 3 /\ CCode[1].op = "traceme" /\ CCode[2].op = "site" /\ CCode[2].at = "site1"
      /\ CCode[3].op = "syscall" /\ CCode[3].no = "getpid"
  BY Text016
<1>4. \A i \in 1..Len(Code) : GoodStmt(i)
  BY ONLY test = "t016", <1>1, <1>2 DEF GoodStmt, Reads, GetsAt, Writes, SetsAt, GetOK, SetOK, CheckOK, CheckInfoOK, ResumesAt, ResumeOK, WaitsAgain,
    BySignal, InfoReg
<1>5. \A j \in 1..Len(CCode) : GoodCStmt(j)
  BY ONLY test = "t016", <1>1, <1>3 DEF GoodCStmt, BySignal
<1>. QED  BY ONLY test = "t016", <1>1, <1>2, <1>3, <1>4, <1>5 DEF GoodText, BySignal

\* 017, place by place.
LEMMA Plan017 ==
  ASSUME test = "t017"
  PROVE  GoodText
<1>1. /\ H = (2..7) \union (9..11) \union (13..16) \union (18..21) \union (23..26) \union (28..31) \union (33..37) /\ OkAt[test] = 36 /\ TraceAt[test] = 1 /\ WaitAt[test] = 1
      /\ FirstAt[test] = 7 /\ LastAt[test] = 37 /\ SiteAt[test] = 3
  BY DEF H, Hold, OkAt, TraceAt, WaitAt, FirstAt, LastAt, SiteAt
<1>2. /\ Len(Code) = 37 /\ Code[1].op = "wait"
      /\ Code[2].op = "get" /\ Code[2].at = "inst_addr" /\ Code[2].to = "brk_addr"
      /\ Code[3].op = "set" /\ Code[3].at = "brk_addr" /\ Code[3].val = "nop"
      /\ Code[4].op = "get" /\ Code[4].at = "addr" /\ Code[4].to = "read_val"
      /\ Code[5].op = "get" /\ Code[5].at = "read_val" /\ Code[5].to = "inst_val"
      /\ Code[6].op = "set" /\ Code[6].at = "read_val" /\ Code[6].val = "brk"
      /\ Code[7].op = "resume" /\ Code[7].req = "CONT" /\ Code[8].op = "wait"
      /\ Code[9].op = "stopsig" /\ Code[9].sig = "TRAP"
      /\ Code[10].op = "set" /\ Code[10].at = "read_val" /\ Code[10].val = "inst_val"
      /\ Code[11].op = "resume" /\ Code[11].req = "SINGLESTEP" /\ Code[12].op = "wait"
      /\ Code[13].op = "stopsig" /\ Code[13].sig = "TRAP" /\ Code[14].op = "getinfo" /\ Code[14].to = "info"
      /\ Code[15].op = "checkinfo" /\ Code[15].a = "info" /\ Code[15].info = [signo |-> "TRAP", code |-> "HWBKPT", addr |-> "t+4"]
      /\ Code[16].op = "resume" /\ Code[16].req = "SINGLESTEP" /\ Code[17].op = "wait"
      /\ Code[18].op = "stopsig" /\ Code[18].sig = "TRAP" /\ Code[19].op = "getinfo" /\ Code[19].to = "info"
      /\ Code[20].op = "checkinfo" /\ Code[20].a = "info" /\ Code[20].info = [signo |-> "TRAP", code |-> "HWBKPT", addr |-> "t+8"]
      /\ Code[21].op = "resume" /\ Code[21].req = "SINGLESTEP" /\ Code[22].op = "wait"
      /\ Code[23].op = "stopsig" /\ Code[23].sig = "TRAP" /\ Code[24].op = "getinfo" /\ Code[24].to = "info"
      /\ Code[25].op = "checkinfo" /\ Code[25].a = "info" /\ Code[25].info = [signo |-> "TRAP", code |-> "HWBKPT", addr |-> "t+12"]
      /\ Code[26].op = "resume" /\ Code[26].req = "SINGLESTEP" /\ Code[27].op = "wait"
      /\ Code[28].op = "stopsig" /\ Code[28].sig = "TRAP" /\ Code[29].op = "getinfo" /\ Code[29].to = "info"
      /\ Code[30].op = "checkinfo" /\ Code[30].a = "info" /\ Code[30].info = [signo |-> "TRAP", code |-> "HWBKPT", addr |-> "t+16"]
      /\ Code[31].op = "resume" /\ Code[31].req = "SINGLESTEP" /\ Code[32].op = "wait"
      /\ Code[33].op = "stopsig" /\ Code[33].sig = "TRAP" /\ Code[34].op = "getinfo" /\ Code[34].to = "info"
      /\ Code[35].op = "checkinfo" /\ Code[35].a = "info" /\ Code[35].info = [signo |-> "TRAP", code |-> "HWBKPT", addr |-> "t+20"]
      /\ Code[36].op = "ok" /\ Code[37].op = "resume" /\ Code[37].req = "CONT"
  BY Text017
<1>3. /\ Len(CCode) = 9 /\ CCode[1].op = "traceme"
      /\ CCode[2].op = "store" /\ CCode[2].at = "addr" /\ CCode[2].val = "t"
      /\ CCode[3].op = "site" /\ CCode[3].at = "site1" /\ CCode[4].op = "insn" /\ CCode[4].at = "t"
      /\ CCode[5].op = "insn" /\ CCode[5].at = "t+4" /\ CCode[6].op = "insn" /\ CCode[6].at = "t+8"
      /\ CCode[7].op = "insn" /\ CCode[7].at = "t+12" /\ CCode[8].op = "insn" /\ CCode[8].at = "t+16"
      /\ CCode[9].op = "insn" /\ CCode[9].at = "t+20"
  BY Text017
<1>4. \A i \in 1..Len(Code) : GoodStmt(i)
  BY ONLY test = "t017", <1>1, <1>2 DEF GoodStmt, Reads, GetsAt, Writes, SetsAt, GetOK, SetOK, CheckOK, CheckInfoOK, ResumesAt, ResumeOK, WaitsAgain,
    BySignal, InfoReg, Trap
<1>5. \A j \in 1..Len(CCode) : GoodCStmt(j)
  BY ONLY test = "t017", <1>1, <1>3 DEF GoodCStmt, BySignal, Text
<1>. QED  BY ONLY test = "t017", <1>1, <1>2, <1>3, <1>4, <1>5 DEF GoodText, BySignal

\* 018, place by place.
LEMMA Plan018 ==
  ASSUME test = "t018"
  PROVE  GoodText
<1>1. /\ H = 2..4 /\ OkAt[test] = 5 /\ TraceAt[test] = 1 /\ WaitAt[test] = 1
      /\ FirstAt[test] = 4 /\ LastAt[test] = 4 /\ SiteAt[test] = 2
  BY DEF H, Hold, OkAt, TraceAt, WaitAt, FirstAt, LastAt, SiteAt
<1>2. /\ Len(Code) = 5 /\ Code[1].op = "wait"
      /\ Code[2].op = "get" /\ Code[2].at = "inst_addr" /\ Code[2].to = "brk_addr"
      /\ Code[3].op = "set" /\ Code[3].at = "brk_addr" /\ Code[3].val = "nop"
      /\ Code[4].op = "resume" /\ Code[4].req = "KILL" /\ Code[5].op = "ok"
  BY Text018
<1>3. /\ Len(CCode) = 2 /\ CCode[1].op = "traceme" /\ CCode[2].op = "site" /\ CCode[2].at = "site1"
  BY Text018
<1>4. \A i \in 1..Len(Code) : GoodStmt(i)
  BY ONLY test = "t018", <1>1, <1>2 DEF GoodStmt, Reads, GetsAt, Writes, SetsAt, GetOK, SetOK, CheckOK, CheckInfoOK, ResumesAt, ResumeOK, WaitsAgain,
    BySignal, InfoReg
<1>5. \A j \in 1..Len(CCode) : GoodCStmt(j)
  BY ONLY test = "t018", <1>1, <1>3 DEF GoodCStmt, BySignal
<1>. QED  BY ONLY test = "t018", <1>1, <1>2, <1>3, <1>4, <1>5 DEF GoodText, BySignal

\* 019, place by place.
LEMMA Plan019 ==
  ASSUME test = "t019"
  PROVE  GoodText
<1>1. /\ H = 5..5 /\ OkAt[test] = 6 /\ TraceAt[test] = 0 /\ WaitAt[test] = 4
      /\ FirstAt[test] = 5 /\ LastAt[test] = 5 /\ SiteAt[test] = 0
  BY DEF H, Hold, OkAt, TraceAt, WaitAt, FirstAt, LastAt, SiteAt
<1>2. /\ Len(Code) = 6 /\ Code[1].op = "semwait" /\ Code[2].op = "attach" /\ Code[3].op = "post"
      /\ Code[4].op = "wait" /\ Code[5].op = "resume" /\ Code[5].req = "CONT" /\ Code[6].op = "ok"
  BY Text019
<1>3. /\ Len(CCode) = 3 /\ CCode[1].op = "cpost" /\ CCode[2].op = "csemwait" /\ CCode[3].op = "call"
  BY Text019
<1>4. \A i \in 1..Len(Code) : GoodStmt(i)
  BY ONLY test = "t019", <1>1, <1>2 DEF GoodStmt, Reads, GetsAt, Writes, SetsAt, GetOK, SetOK, CheckOK, CheckInfoOK, ResumesAt, ResumeOK, WaitsAgain,
    BySignal, InfoReg
<1>5. \A j \in 1..Len(CCode) : GoodCStmt(j)
  BY ONLY test = "t019", <1>1, <1>3 DEF GoodCStmt, BySignal
<1>. QED  BY ONLY test = "t019", <1>1, <1>2, <1>3, <1>4, <1>5 DEF GoodText, BySignal

\* 020, place by place.
LEMMA Plan020 ==
  ASSUME test = "t020"
  PROVE  GoodText
<1>1. /\ H = 5..5 /\ OkAt[test] = 6 /\ TraceAt[test] = 0 /\ WaitAt[test] = 4
      /\ FirstAt[test] = 5 /\ LastAt[test] = 5 /\ SiteAt[test] = 0
  BY DEF H, Hold, OkAt, TraceAt, WaitAt, FirstAt, LastAt, SiteAt
<1>2. /\ Len(Code) = 6 /\ Code[1].op = "semwait" /\ Code[2].op = "attach" /\ Code[3].op = "post"
      /\ Code[4].op = "wait" /\ Code[5].op = "resume" /\ Code[5].req = "DETACH" /\ Code[6].op = "ok"
  BY Text020
<1>3. /\ Len(CCode) = 3 /\ CCode[1].op = "cpost" /\ CCode[2].op = "csemwait" /\ CCode[3].op = "call"
  BY Text020
<1>4. \A i \in 1..Len(Code) : GoodStmt(i)
  BY ONLY test = "t020", <1>1, <1>2 DEF GoodStmt, Reads, GetsAt, Writes, SetsAt, GetOK, SetOK, CheckOK, CheckInfoOK, ResumesAt, ResumeOK, WaitsAgain,
    BySignal, InfoReg
<1>5. \A j \in 1..Len(CCode) : GoodCStmt(j)
  BY ONLY test = "t020", <1>1, <1>3 DEF GoodCStmt, BySignal
<1>. QED  BY ONLY test = "t020", <1>1, <1>2, <1>3, <1>4, <1>5 DEF GoodText, BySignal

\* 021, place by place.
LEMMA Plan021 ==
  ASSUME test = "t021"
  PROVE  GoodText
<1>1. /\ H = 4..7 /\ OkAt[test] = 1 /\ TraceAt[test] = 7 /\ WaitAt[test] = 3
      /\ FirstAt[test] = 7 /\ LastAt[test] = 7 /\ SiteAt[test] = 8
  BY DEF H, Hold, OkAt, TraceAt, WaitAt, FirstAt, LastAt, SiteAt
<1>2. /\ Len(Code) = 7 /\ Code[1].op = "ok" /\ Code[2].op = "read" /\ Code[2].to = "devmap"
      /\ Code[3].op = "wait" /\ Code[4].op = "get" /\ Code[4].at = "inst_addr" /\ Code[4].to = "brk_addr"
      /\ Code[5].op = "set" /\ Code[5].at = "brk_addr" /\ Code[5].val = "nop"
      /\ Code[6].op = "set" /\ Code[6].at = "devmap" /\ Code[6].val = "0xFFFFFFFF"
      /\ Code[7].op = "resume" /\ Code[7].req = "CONT"
  BY Text021
<1>3. /\ Len(CCode) = 9 /\ CCode[1].op = "call" /\ CCode[2].op = "call" /\ CCode[3].op = "call"
      /\ CCode[4].op = "store" /\ CCode[4].at = "dev" /\ CCode[4].val = "zero" /\ CCode[5].op = "call"
      /\ CCode[6].op = "cpost" /\ CCode[7].op = "traceme" /\ CCode[8].op = "site" /\ CCode[8].at = "site1"
      /\ CCode[9].op = "cchecknot" /\ CCode[9].at = "dev" /\ CCode[9].val = "zero"
  BY Text021
<1>4. \A i \in 1..Len(Code) : GoodStmt(i)
  BY ONLY test = "t021", <1>1, <1>2 DEF GoodStmt, Reads, GetsAt, Writes, SetsAt, GetOK, SetOK, CheckOK, CheckInfoOK, ResumesAt, ResumeOK, WaitsAgain,
    BySignal, InfoReg
<1>5. \A j \in 1..Len(CCode) : GoodCStmt(j)
  BY ONLY test = "t021", <1>1, <1>3 DEF GoodCStmt, BySignal
<1>. QED  BY ONLY test = "t021", <1>1, <1>2, <1>3, <1>4, <1>5 DEF GoodText, BySignal

\* Every test but 000 and 015 goes by this plan.
LEMMA GoodTextHolds ==
  ASSUME BaseInv, Fine
  PROVE  GoodText
<1>1. test \in {"t001", "t002", "t003", "t004", "t005", "t006", "t007", "t008", "t009", "t010",
               "t011", "t012", "t013", "t014", "t016", "t017", "t018", "t019", "t020", "t021"}
  BY DEF BaseInv, Counters, Fine, Test
<1>. QED  BY ONLY <1>1, Plan001, Plan002, Plan003, Plan004, Plan005, Plan006, Plan007, Plan008, Plan009, Plan010, Plan011, Plan012, Plan013, Plan014, Plan016, Plan017, Plan018, Plan019, Plan020, Plan021

\* A run that is fine has been fine.
LEMMA FineBefore ==
  ASSUME [Next]_vars, Fine'
  PROVE  Fine /\ ~PVerdict
<1>1. test' = test /\ fault' = fault /\ verdict' = "none"
  BY Frames DEF Fine
<1>2. ~PVerdict
  BY <1>1 DEF PVerdict
<1>3. verdict = "none"
  BY <1>1, <1>2, Frames DEF PStart
<1>. QED  BY <1>1, <1>2, <1>3 DEF Fine, NoFault

\* A good kernel refuses nothing and does what it is asked.
LEMMA NothingBad ==
  ASSUME Fine
  PROVE  \A x : x \notin fault.refused /\ Works(x)
  BY DEF Fine, NoFault, Works

\* The places are numbers, in this order.
LEMMA Numbers ==
  ASSUME TextOK, GoodText, BaseInv
  PROVE  /\ ppc \in Nat /\ cpc \in Nat /\ cpc >= 1 /\ Len(Code) \in Nat /\ Len(CCode) \in Nat
         /\ WaitAt[test] \in Nat /\ FirstAt[test] \in Nat /\ LastAt[test] \in Nat /\ OkAt[test] \in Nat
         /\ SiteAt[test] \in Nat /\ TraceAt[test] \in Nat
         /\ 1 <= WaitAt[test] /\ WaitAt[test] <= 4 /\ WaitAt[test] < LastAt[test] /\ LastAt[test] <= Len(Code)
         /\ 1 <= OkAt[test] /\ OkAt[test] <= Len(Code)
         /\ test \notin BySignal => SiteAt[test] >= 2 /\ TraceAt[test] >= 1 /\ TraceAt[test] < SiteAt[test]
         /\ test \in BySignal => Len(CCode) >= 3
<1>1. Len(Code) \in Nat /\ Len(CCode) \in Nat /\ TraceAt[test] \in 0..Len(CCode)
  BY DEF TextOK
<1>2. ppc \in 0..(Len(Code) + 1) /\ cpc \in 1..(Len(CCode) + 1)
  BY DEF BaseInv, Counters
<1>3. /\ WaitAt[test] \in Nat /\ FirstAt[test] \in Nat /\ LastAt[test] \in Nat /\ OkAt[test] \in Nat
      /\ SiteAt[test] \in Nat /\ 1 <= WaitAt[test] /\ WaitAt[test] <= 4 /\ OkAt[test] \in 1..Len(Code)
  BY DEF GoodText
<1>4. WaitAt[test] < FirstAt[test] /\ FirstAt[test] <= LastAt[test] /\ LastAt[test] <= Len(Code)
  BY DEF GoodText
<1>5. /\ test \notin BySignal => SiteAt[test] >= 2 /\ TraceAt[test] \in 1..(SiteAt[test] - 1)
      /\ test \in BySignal => Len(CCode) >= 3
  BY DEF GoodText
<1>6. ppc \in Nat /\ cpc \in Nat /\ cpc >= 1 /\ TraceAt[test] \in Nat
  BY ONLY <1>1, <1>2
<1>7. WaitAt[test] < LastAt[test] /\ 1 <= OkAt[test] /\ OkAt[test] <= Len(Code)
  BY ONLY <1>1, <1>3, <1>4
<1>8. test \notin BySignal => SiteAt[test] >= 2 /\ TraceAt[test] >= 1 /\ TraceAt[test] < SiteAt[test]
  BY ONLY <1>3, <1>5
<1>. QED  BY ONLY <1>1, <1>3, <1>4, <1>5, <1>6, <1>7, <1>8

\* At the places of Hold the child is held.
LEMMA HeldNow ==
  ASSUME TextOK, GoodText, BaseInv, OnCourse, Fine, ppc \in H
  PROVE  Held
<1>1. SUFFICES ASSUME test = "t021", ppc = Len(Code), ret = "fail"
               PROVE  FALSE
  BY DEF BaseInv, HeldInv, Fine
<1>2. OkAt[test] = 1 /\ Len(Code) = 7
  BY <1>1, Text021 DEF OkAt
<1>. QED  BY <1>1, <1>2 DEF OnCourse

\* A request comes at a place of Hold.
LEMMA RequestHeld ==
  ASSUME TextOK, GoodText, BaseInv, OnCourse, Fine, ppc \in 1..Len(Code), Code[ppc].op \in Requests
  PROVE  ppc \in H /\ Held /\ ppc <= LastAt[test]
<1>1. StmtOK(ppc) /\ GoodStmt(ppc)
  BY DEF TextOK, GoodText
<1>2. ppc \in H
  BY <1>1 DEF StmtOK, Fine
<1>3. ppc <= LastAt[test]
  BY <1>1, <1>2 DEF GoodStmt, GoodText
<1>. QED  BY <1>2, <1>3, HeldNow

\* Every request on a held child is accepted.
LEMMA AcceptedNow ==
  ASSUME TextOK, GoodText, BaseInv, OnCourse, Fine, ppc \in 1..Len(Code), Code[ppc].op \in Requests
  PROVE  \A x : Accepted(x) /\ Works(x)
  BY RequestHeld, NothingBad DEF Accepted, Held

\* Where a request reads or writes.
LEMMA Where ==
  ASSUME TextOK, GoodText, BaseInv, GoodInv, Fine, ppc \in 1..Len(Code), Code[ppc].op \in {"get", "set"}
  PROVE  /\ Value(Code[ppc].at) \in Cell
         /\ Code[ppc].at = "brk_addr" => Value(Code[ppc].at) = "site1"
         /\ Code[ppc].at = "read_val" => Value(Code[ppc].at) = "t"
         /\ Code[ppc].at = "devmap" => Value(Code[ppc].at) = "dev"
         /\ Code[ppc].at \notin {"brk_addr", "read_val", "devmap"} => Value(Code[ppc].at) = Code[ppc].at
<1>0. ppc \in Nat /\ ppc >= 1 /\ WaitAt[test] \in Nat /\ LastAt[test] \in Nat
  BY Numbers
<1>1. GoodStmt(ppc) /\ WaitAt[test] <= 4 /\ WaitAt[test] \in Nat
  BY DEF GoodText
<1>2. ppc <= LastAt[test] /\ ppc \in H
  BY RequestHeld DEF GoodInv, Requests
<1>3. test \in BySignal => ppc > WaitAt[test] + 2
  <2>1. SUFFICES ASSUME test \in BySignal, ppc <= WaitAt[test] + 2
                 PROVE  FALSE
    BY <1>1
  <2>2. GetOK(ppc) \/ SetOK(ppc)
    BY <1>1 DEF GoodStmt
  <2>3. CASE test = "t009"
    <3>1. Code[5].op = "getinfo" /\ Code[6].op = "checkinfo" /\ WaitAt[test] = 4
      BY <2>3, Text009 DEF WaitAt
    <3>. QED  BY <2>1, <2>2, <2>3, <3>1 DEF GetOK, SetOK
  <2>4. CASE test \in {"t019", "t020"}
    <3>1. Code[5].op = "resume" /\ Code[6].op = "ok" /\ WaitAt[test] = 4
      BY <2>4, Text019, Text020 DEF WaitAt
    <3>. QED  BY <2>1, <2>2, <2>4, <3>1 DEF GetOK, SetOK
  <2>. QED  BY <2>1, <2>3, <2>4 DEF BySignal
<1>4. /\ test \notin BySignal /\ ppc = WaitAt[test] + 2 => reg["brk_addr"] = "site1"
      /\ test \in {"t003", "t006", "t017"} /\ ppc \in 5..LastAt[test] => reg["read_val"] = "t"
      /\ test = "t021" /\ ppc \in 3..LastAt[test] => reg["devmap"] = "dev"
  BY DEF GoodInv, Seen
<1>5. /\ Code[ppc].at = "brk_addr" => reg["brk_addr"] = "site1"
      /\ Code[ppc].at = "read_val" => reg["read_val"] = "t"
      /\ Code[ppc].at = "devmap" => reg["devmap"] = "dev"
      /\ Code[ppc].at \in {"brk_addr", "read_val", "devmap"} \union Cell
  <2>1. CASE GetOK(ppc)
    <3>1. Code[ppc].at \in {"brk_addr", "read_val", "devmap"} \union Cell
      BY ONLY <2>1 DEF GetOK, Cell
    <3>2. Code[ppc].at = "brk_addr" => reg["brk_addr"] = "site1"
      BY ONLY <2>1, <1>0, <1>3, <1>4 DEF GetOK, Cell
    <3>3. Code[ppc].at = "read_val" => reg["read_val"] = "t"
      BY ONLY <2>1, <1>0, <1>2, <1>4 DEF GetOK, Cell
    <3>4. Code[ppc].at = "devmap" => reg["devmap"] = "dev"
      BY ONLY <2>1, <1>0, <1>2, <1>4 DEF GetOK, Cell
    <3>. QED  BY ONLY <3>1, <3>2, <3>3, <3>4
  <2>2. CASE SetOK(ppc)
    <3>1. Code[ppc].at \in {"brk_addr", "read_val", "devmap"} \union Cell
      BY ONLY <2>2 DEF SetOK, Cell
    <3>2. Code[ppc].at = "brk_addr" => reg["brk_addr"] = "site1"
      BY ONLY <2>2, <1>0, <1>3, <1>4 DEF SetOK, Cell
    <3>3. Code[ppc].at = "read_val" => reg["read_val"] = "t"
      BY ONLY <2>2, <1>0, <1>2, <1>4 DEF SetOK, Cell
    <3>4. Code[ppc].at = "devmap" => reg["devmap"] = "dev"
      BY ONLY <2>2, <1>0, <1>2, <1>4 DEF SetOK, Cell
    <3>. QED  BY ONLY <3>1, <3>2, <3>3, <3>4
  <2>. QED  BY <1>1, <2>1, <2>2 DEF GoodStmt
<1>6. \A x \in Cell : x \notin Reg
  BY ONLY TRUE DEF Cell, Reg
<1>. QED  BY <1>5, <1>6 DEF Value, Reg, Cell

\* On a good kernel wait() reports a stop of the child.
LEMMA GoodWait ==
  ASSUME TextOK, GoodText, BaseInv, GoodInv, Fine, PWait
  PROVE  /\ Advance /\ proc["C"].st = "stop" /\ proc["C"].event /\ proc["C"].traced
         /\ proc' = Reaped("C") /\ last' = proc["C"].status
<1>1. /\ ppc \in 1..Len(Code) /\ Code[ppc].op = "wait" /\ GoodStmt(ppc)
  BY DEF PWait, At, GoodText
<1>2. ppc < LastAt[test] /\ ppc >= 1 /\ (ppc = WaitAt[test] \/ WaitsAgain(ppc))
  BY <1>1 DEF GoodStmt
<1>3. proc["C"].st \in {"run", "stop"}
  <2>1. CASE test \in BySignal
    <3>1. ppc = 4
      BY <1>2, <2>1 DEF WaitsAgain, BySignal, GoodText
    <3>. QED  BY <2>1, <3>1 DEF GoodInv, Signalled
  <2>2. CASE test \notin BySignal
    <3>1. ppc \in 1..LastAt[test]
      BY <1>1, <1>2 DEF GoodText
    <3>. QED  BY <2>2, <3>1 DEF GoodInv, Alive, ByTrap
  <2>. QED  BY <2>1, <2>2
<1>4. proc["G"].event = FALSE
  BY DEF BaseInv, GrandInv, Fine, NoProc
<1>5. Waitable(Code[ppc].who) \subseteq {"C"} /\ ~NoChildren
  BY <1>3, <1>4 DEF Waitable, NoChildren
<1>6. "C" \in Waitable(Code[ppc].who) => proc["C"].event
  BY DEF Waitable
<1>7. proc["C"].event /\ proc' = Reaped("C") /\ last' = proc["C"].status
      /\ (proc["C"].status.kind = "stop" => Advance)
  BY <1>5, <1>6 DEF PWait
<1>. QED  BY <1>3, <1>7 DEF BaseInv, ChildInv, ProcInv

\* What P reads and writes on a good kernel.
LEMMA GoodGet ==
  ASSUME TextOK, GoodText, BaseInv, GoodInv, Fine, PGet
  PROVE  Advance /\ reg' = [reg EXCEPT ![Code[ppc].to] = Read(Value(Code[ppc].at))]
<1>1. ppc \in 1..Len(Code) /\ Code[ppc].op = "get"
  BY DEF PGet, At
<1>. QED  BY <1>1, Where, AcceptedNow DEF PGet, GoodInv, Requests

\* The same for what P writes.
LEMMA GoodSet ==
  ASSUME TextOK, GoodText, BaseInv, GoodInv, Fine, PSet
  PROVE  Advance /\ mem' = [mem EXCEPT ![Value(Code[ppc].at)] = Value(Code[ppc].val)]
<1>1. ppc \in 1..Len(Code) /\ Code[ppc].op = "set"
  BY DEF PSet, At
<1>. QED  BY <1>1, Where, AcceptedNow DEF PSet, GoodInv, Requests

\* The siginfo that P reads and writes on a good kernel.
LEMMA GoodGetInfo ==
  ASSUME TextOK, GoodText, BaseInv, GoodInv, Fine, PGetInfo
  PROVE  Advance /\ pinfo' = [pinfo EXCEPT ![Code[ppc].to] = info]
<1>1. ppc \in 1..Len(Code) /\ Code[ppc].op = "getinfo"
  BY DEF PGetInfo, At
<1>. QED  BY <1>1, AcceptedNow DEF PGetInfo, GoodInv, Requests

\* The same for PTRACE_SETSIGINFO.
LEMMA GoodSetInfo ==
  ASSUME TextOK, GoodText, BaseInv, GoodInv, Fine, PSetInfo
  PROVE  Advance /\ (Code[ppc].op = "setinfo" => info' = Code[ppc].info)
<1>1. ppc \in 1..Len(Code) /\ Code[ppc].op \in {"setinfo", "restoreinfo"}
  BY DEF PSetInfo, At
<1>. QED  BY <1>1, AcceptedNow DEF PSetInfo, GoodInv, Requests

\* Requests that have to fail do.
LEMMA GoodMustFail ==
  ASSUME TextOK, GoodText, BaseInv, GoodInv, Fine, PMustFail
  PROVE  Advance
<1>1. ppc \in 1..Len(Code) /\ Code[ppc].op = "mustfail"
  BY DEF PMustFail, At
<1>. QED  BY <1>1, AcceptedNow DEF PMustFail, GoodInv, Requests

\* Every comparison comes out equal.
LEMMA GoodCheck ==
  ASSUME TextOK, GoodText, BaseInv, GoodInv, Fine, PCheck
  PROVE  Advance
<1>1. ppc \in 1..Len(Code) /\ Code[ppc].op = "check"
  BY DEF PCheck, At
<1>2. CheckOK(ppc)
  BY <1>1 DEF GoodText, GoodStmt
<1>3. /\ test = "t002" /\ ppc = 5 => reg["read_val"] = "CHILD_MAGIC"
      /\ test = "t003" /\ ppc = 6 => reg["inst"] = "nop"
      /\ test = "t010" => /\ ppc = 5 => reg["gregs"] = "index"
                          /\ ppc = 12 => reg["tmp_val"] = "write_tls_val"
                          /\ ppc = 17 => reg["tmp_val"] = "write_sysno"
      /\ test = "t011" /\ ppc = 13 => reg["gregs_pc"] = "t"
      /\ test = "t016" /\ ppc = 7 => reg["sysno_val"] = "getpid"
  BY DEF GoodInv, Seen
<1>4. test = "t011" /\ ppc = 13 => reg["inst"] = "t"
  <2>1. test = "t011" => LastAt[test] = 17
    BY DEF LastAt
  <2>. QED  BY <2>1 DEF GoodInv, Seen
<1>5. Value(Code[ppc].a) = Value(Code[ppc].b)
  BY ONLY <1>2, <1>3, <1>4 DEF CheckOK, Value, Reg
<1>. QED  BY <1>5 DEF PCheck

\* The signal that stopped the child is the one expected.
LEMMA GoodStopSig ==
  ASSUME TextOK, GoodText, BaseInv, GoodInv, Fine, PStopSig
  PROVE  Advance
<1>1. ppc \in 1..Len(Code) /\ Code[ppc].op = "stopsig" /\ GoodStmt(ppc) /\ StmtOK(ppc)
  BY DEF PStopSig, At, GoodText, TextOK
<1>2. Code[ppc].sig = "TRAP" /\ test \notin BySignal
  BY <1>1 DEF GoodStmt
<1>3. ppc > WaitAt[test]
  BY <1>1 DEF GoodStmt
<1>4. last.val = "TRAP"
  BY <1>2, <1>3 DEF GoodInv, Alive, ByTrap
<1>. QED  BY <1>2, <1>4 DEF PStopSig

\* The siginfo is the one expected.
LEMMA GoodCheckInfo ==
  ASSUME TextOK, GoodText, BaseInv, GoodInv, Fine, PCheckInfo
  PROVE  Advance
  BY DEF PCheckInfo, At, GoodInv, Told

\* The child has no SIGSTOP and no tracer before P sends it one.
LEMMA GoodAttach ==
  ASSUME TextOK, GoodText, BaseInv, GoodInv, Fine, PAttach
  PROVE  Advance /\ proc' = [proc EXCEPT !["C"].traced = TRUE, !["C"].pend = TRUE]
<1>1. ppc \in 1..Len(Code) /\ Code[ppc].op = "attach"
  BY DEF PAttach, At
<1>2. test \in {"t019", "t020"} /\ ppc = 2
  BY <1>1 DEF GoodText, GoodStmt
<1>3. proc["C"].st = "run" /\ ~proc["C"].traced
  BY <1>2 DEF GoodInv, Signalled, BySignal
<1>. QED  BY <1>3, NothingBad DEF PAttach, Dead

\* kill() finds the child alive and makes a SIGSTOP pending.
LEMMA GoodKill ==
  ASSUME TextOK, GoodText, BaseInv, GoodInv, Fine, PKill
  PROVE  Advance /\ proc' = [proc EXCEPT !["C"] = [proc["C"] EXCEPT !.pend = TRUE]]
<1>1. ppc \in 1..Len(Code) /\ Code[ppc].op = "kill"
  BY DEF PKill, At
<1>2. test = "t009" /\ ppc = 2
  BY <1>1 DEF GoodText, GoodStmt
<1>3. proc["C"].st = "run"
  BY <1>2 DEF GoodInv, Signalled, BySignal
<1>4. Code[ppc].who = "C" /\ Code[ppc].sig = "STOP"
  BY <1>2, Text009
<1>5. Advance /\ proc' = [proc EXCEPT ![Code[ppc].who] =
               CASE Dead(proc[Code[ppc].who].st) -> proc[Code[ppc].who]
                 [] Code[ppc].sig = "KILL" -> Ended(Code[ppc].who, "sig", "KILL")
                 [] Code[ppc].sig = "STOP" -> [proc[Code[ppc].who] EXCEPT !.pend = TRUE]]
  BY <1>3, <1>4, NothingBad DEF PKill
<1>. QED  BY <1>3, <1>4, <1>5 DEF Dead

\* read() gets the address.
LEMMA GoodRead ==
  ASSUME TextOK, GoodText, BaseInv, GoodInv, Fine, PRead
  PROVE  Advance /\ reg' = [reg EXCEPT !["devmap"] = "dev"]
<1>1. ppc \in 1..Len(Code) /\ Code[ppc].op = "read"
  BY DEF PRead, At
<1>2. test = "t021" /\ ppc = 2
  BY <1>1 DEF GoodText, GoodStmt
<1>3. Code[ppc].to = "devmap" /\ LastAt[test] = 7
  BY <1>2, Text021 DEF LastAt
<1>4. proc["C"].st \in {"run", "stop"}
  BY <1>2, <1>3 DEF GoodInv, Alive, ByTrap, BySignal
<1>. QED  BY <1>3, <1>4, NothingBad DEF PRead, Dead

\* The fields of a child that is resumed or killed.
LEMMA GoodResume ==
  ASSUME TextOK, GoodText, BaseInv, GoodInv, Fine, PResume
  PROVE  /\ Advance /\ Held /\ ppc \in 1..Len(Code) /\ ppc <= LastAt[test] /\ ResumeOK(ppc)
         /\ ~proc'["C"].event \/ Code[ppc].req = "KILL"
         /\ Code[ppc].req = "KILL" => /\ proc'["C"].st = "dead" /\ proc'["C"].status = [kind |-> "sig", val |-> "KILL"]
                                      /\ proc'["C"].pend = FALSE /\ proc'["C"].mode = proc["C"].mode
         /\ Code[ppc].req # "KILL" => /\ proc'["C"].st = "run" /\ proc'["C"].status = proc["C"].status
                                      /\ proc'["C"].pend = proc["C"].pend
         /\ Code[ppc].req \in {"CONT", "DETACH"} => proc'["C"].mode = "CONT"
         /\ Code[ppc].req \in {"SYSCALL", "SINGLESTEP"} => proc'["C"].mode = Code[ppc].req
         /\ Code[ppc].req # "DETACH" => proc'["C"].traced = proc["C"].traced
<1>1. ppc \in 1..Len(Code) /\ Code[ppc].op = "resume"
  BY DEF PResume, At
<1>2. Held /\ ppc <= LastAt[test] /\ (\A x : Accepted(x) /\ Works(x))
  BY <1>1, RequestHeld, AcceptedNow DEF GoodInv, Requests
<1>3. ResumeOK(ppc)
  BY <1>1 DEF GoodText, GoodStmt
<1>4. PICK r : r = Code[ppc].req
  OBVIOUS
<1>5. r \in {"KILL", "CONT", "DETACH", "SYSCALL", "SINGLESTEP"}
  BY <1>3, <1>4 DEF ResumeOK
<1>6. Advance /\ proc' = [proc EXCEPT !["C"] =
               CASE r = "KILL" -> Ended("C", "sig", "KILL")
                 [] r = "CONT" -> [proc["C"] EXCEPT !.st = "run", !.mode = "CONT"]
                 [] r = "DETACH" -> [proc["C"] EXCEPT !.st = "run", !.mode = "CONT", !.traced = FALSE]
                 [] OTHER -> [proc["C"] EXCEPT !.st = "run", !.mode = r]]
  BY <1>2, <1>4 DEF PResume
<1>7. DOMAIN proc = {"C", "G"} /\ DOMAIN proc["C"] = Fields
  BY DEF BaseInv, Shape
<1>8. ~proc["C"].event
  BY <1>2 DEF Held
<1>9. CASE r = "KILL"
  <2>1. proc'["C"] = Ended("C", "sig", "KILL")
    BY ONLY <1>6, <1>7, <1>9
  <2>. QED  BY <1>1, <1>2, <1>3, <1>4, <1>6, <1>7, <1>9, <2>1 DEF Ended, Fields
<1>10. CASE r = "CONT"
  <2>1. proc'["C"] = [proc["C"] EXCEPT !.st = "run", !.mode = "CONT"]
    BY ONLY <1>6, <1>7, <1>10
  <2>. QED  BY <1>1, <1>2, <1>3, <1>4, <1>6, <1>7, <1>8, <1>10, <2>1 DEF Fields
<1>11. CASE r = "DETACH"
  <2>1. proc'["C"] = [proc["C"] EXCEPT !.st = "run", !.mode = "CONT", !.traced = FALSE]
    BY ONLY <1>6, <1>7, <1>11
  <2>. QED  BY <1>1, <1>2, <1>3, <1>4, <1>6, <1>7, <1>8, <1>11, <2>1 DEF Fields
<1>12. CASE r \in {"SYSCALL", "SINGLESTEP"}
  <2>1. proc'["C"] = [proc["C"] EXCEPT !.st = "run", !.mode = r]
    BY ONLY <1>6, <1>7, <1>12
  <2>. QED  BY <1>1, <1>2, <1>3, <1>4, <1>6, <1>7, <1>8, <1>12, <2>1 DEF Fields
<1>. QED  BY <1>5, <1>9, <1>10, <1>11, <1>12

\* On a good kernel no statement of parent_func() jumps.
LEMMA Forward ==
  ASSUME TextOK, GoodText, BaseInv, GoodInv, Fine, Statement
  PROVE  /\ ppc \in 1..Len(Code) /\ ppc' = ppc + 1
         /\ ret' = IF ppc = OkAt[test] THEN "ok" ELSE ret
<1>1. ppc \in 1..Len(Code)
  BY StatementSteps DEF PStep
<1>2. GoodStmt(ppc)
  BY <1>1 DEF GoodText
<1>3. CASE POk
  BY <1>1, <1>2, <1>3 DEF POk, At, GoodStmt
<1>4. CASE ~POk
  <2>1. Advance
    BY <1>4, GoodWait, GoodGet, GoodSet, GoodGetInfo, GoodSetInfo, GoodMustFail, GoodCheck, GoodStopSig, GoodCheckInfo,
       GoodAttach, GoodKill, GoodRead, GoodResume DEF Statement, PSem
  <2>2. Code[ppc].op # "ok"
    BY <1>4, StatementIs
  <2>. QED  BY <1>1, <1>2, <2>1, <2>2 DEF Advance, GoodStmt
<1>. QED  BY <1>3, <1>4

\* A child that runs is on its way to a wait() of P.
LEMMA RunPlaces ==
  ASSUME TextOK, GoodText, BaseInv, GoodInv, Fine, proc["C"].st = "run"
  PROVE  ppc >= 1 /\ (ppc <= LastAt[test] => ppc <= WaitAt[test] \/ WaitsAgain(ppc))
<1>1. ppc \in Nat /\ ppc >= 1
  BY DEF BaseInv, Counters, ChildInv, TextOK
<1>2. ppc \notin H
  BY HeldNow DEF GoodInv, Held
<1>3. SUFFICES ASSUME ppc <= LastAt[test], ppc > WaitAt[test]
               PROVE  WaitsAgain(ppc)
  BY <1>1 DEF GoodText
<1>4. ppc \in 1..Len(Code) /\ ppc \in (WaitAt[test] + 1)..LastAt[test]
  <2>1. LastAt[test] <= Len(Code) /\ LastAt[test] \in Nat /\ WaitAt[test] \in Nat /\ Len(Code) \in Nat
    BY Numbers
  <2>. QED  BY ONLY <1>1, <1>3, <2>1
<1>5. GoodStmt(ppc)
  BY <1>4 DEF GoodText
<1>. QED  BY <1>2, <1>4, <1>5 DEF GoodStmt

\* The steps of a child that its traps stop: it goes on; it runs into a trap; it stops after a
\* step or before a system call; it ends with success.
CGoes ==
  /\ cpc' = cpc + 1 /\ Same({"st", "pend", "event", "status", "mode"}) /\ info' = info
  /\ proc'["C"].traced = proc["C"].traced \/ cpc = TraceAt[test]
  /\ cpc = TraceAt[test] => proc'["C"].traced
  /\ ppc \in 1..LastAt[test] => cpc < StopAt
  /\ proc["C"].mode = "SYSCALL" => cpc <= 2
  /\ proc["C"].mode # "SINGLESTEP"
CStops ==
  /\ proc'["C"].st = "stop" /\ proc'["C"].pend = FALSE /\ proc'["C"].status.val = "TRAP"
  /\ proc'["C"].traced = proc["C"].traced /\ proc'["C"].mode = proc["C"].mode
  /\ ppc \in 1..LastAt[test] /\ cpc' = StopAt /\ cpc' >= cpc
CTrapped ==
  /\ CStops /\ cpc' = cpc
  /\ \/ cpc = SiteAt[test] /\ ppc <= WaitAt[test] /\ mem'["inst_addr"] = "site1"
     \/ test \in {"t006", "t017"} /\ ppc = 8 /\ info' = Trap("BRKPT", "t")
     \/ test = "t011" /\ ppc = 8 /\ info' = Trap("HWBKPT", "buf")
     \/ test = "t012" /\ ppc = 8 /\ info' = Trap("HWBKPT", "t")
CStepped ==
  /\ CStops
  /\ \/ test = "t016" /\ ppc = 5 /\ mem'["sysno"] = "getpid"
     \/ test = "t017" /\ ppc \in 12..LastAt[test] /\ info' = Trap("HWBKPT", CCode[cpc'].at)
CEnded ==
  /\ ppc > LastAt[test] /\ cpc' = cpc /\ proc'["C"].traced = proc["C"].traced /\ proc'["C"].mode = proc["C"].mode
  /\ info' = info
  /\ proc'["C"].st = "dead" /\ proc'["C"].pend = FALSE /\ proc'["C"].status = [kind |-> "exit", val |-> "0"]
CGood == CGoes \/ CTrapped \/ CStepped \/ CEnded

\* A stop of a traced child.
LEMMA TrapFields ==
  ASSUME BaseInv, proc["C"].traced,
         proc' \in {[proc EXCEPT !["C"] = Raised("C", "TRAP")], [proc EXCEPT !["C"] = Stopped("C", "TRAP")]}
  PROVE  /\ proc'["C"].st = "stop" /\ proc'["C"].pend = FALSE /\ proc'["C"].status.val = "TRAP"
         /\ proc'["C"].traced = proc["C"].traced /\ proc'["C"].mode = proc["C"].mode
<1>1. DOMAIN proc = {"C", "G"} /\ DOMAIN proc["C"] = Fields
  BY DEF BaseInv, Shape
<1>2. Raised("C", "TRAP") = Stopped("C", "TRAP")
  BY DEF Raised
<1>3. proc' = [proc EXCEPT !["C"] = Stopped("C", "TRAP")]
  BY <1>2
<1>4. proc'["C"] = Stopped("C", "TRAP")
  BY ONLY <1>1, <1>3
<1>5. proc'["C"].st = "stop" /\ proc'["C"].status = [kind |-> "stop", val |-> "TRAP"]
  BY ONLY <1>1, <1>4 DEF Stopped, Fields
<1>6. proc'["C"].pend = FALSE
  BY ONLY <1>1, <1>4 DEF Stopped, Fields
<1>7. proc'["C"].traced = proc["C"].traced /\ proc'["C"].mode = proc["C"].mode
  BY ONLY <1>1, <1>4 DEF Stopped, Fields
<1>8. proc'["C"].status.val = "TRAP"
  BY ONLY <1>5
<1>. QED  BY ONLY <1>5, <1>6, <1>7, <1>8

\* A statement that only moves the child on.
LEMMA PlainGoes ==
  ASSUME TextOK, GoodText, BaseInv, GoodInv, ByTrap, proc["C"].st = "run", cpc' = cpc + 1, info' = info,
         proc'["C"].traced = proc["C"].traced \/ cpc = TraceAt[test], cpc = TraceAt[test] => proc'["C"].traced,
         Same({"st", "pend", "event", "status", "mode"}), cpc < SiteAt[test]
  PROVE  CGoes
<1>1. ppc >= 1 /\ (ppc <= LastAt[test] => ppc <= WaitAt[test] \/ WaitsAgain(ppc))
  BY RunPlaces DEF ByTrap
<1>2. ppc <= WaitAt[test]
  <2>1. ppc > WaitAt[test] => cpc >= SiteAt[test]
    BY DEF GoodInv, Alive
  <2>2. ppc \in Nat /\ cpc \in Nat /\ WaitAt[test] \in Nat /\ SiteAt[test] \in Nat
    BY Numbers
  <2>3. cpc < SiteAt[test]
    OBVIOUS
  <2>. QED  BY ONLY <2>1, <2>2, <2>3
<1>3. ppc \in 1..LastAt[test]
  <2>1. ppc \in Nat /\ LastAt[test] \in Nat /\ WaitAt[test] \in Nat /\ WaitAt[test] < LastAt[test]
    BY Numbers
  <2>. QED  BY ONLY <1>1, <1>2, <2>1
<1>4. StopAt >= SiteAt[test]
  <2>1. test \in {"t006", "t011", "t012", "t017"} => SiteAt[test] = 3
    BY DEF SiteAt
  <2>2. test = "t016" => SiteAt[test] = 2
    BY DEF SiteAt
  <2>3. ppc <= 4 /\ SiteAt[test] \in Nat
    BY <1>2, <1>3 DEF GoodText
  <2>. QED  BY ONLY <2>1, <2>2, <2>3, ppc <= 4 DEF StopAt
<1>5. proc["C"].mode = "CONT"
  BY <1>2, <1>3 DEF GoodInv, Stepping, GoodText
<1>6. cpc < StopAt
  <2>1. StopAt \in Nat /\ SiteAt[test] \in Nat /\ cpc \in Nat
    BY DEF StopAt, GoodText, BaseInv, Counters, TextOK
  <2>. QED  BY <1>4, <2>1
<1>. QED  BY <1>5, <1>6 DEF CGoes

\* TRACEME, stores, calls and the pipe.
LEMMA GoodPlain ==
  ASSUME TextOK, GoodText, BaseInv, GoodInv, ByTrap, CTraceme \/ CStore \/ CCall \/ CSem
  PROVE  CGoes
<1>1. cpc \in 1..Len(CCode) /\ proc["C"].st = "run" /\ CCode[cpc].op \in {"traceme", "store", "call", "cpost", "csemwait"}
  BY DEF CTraceme, CStore, CCall, CSem, CAt
<1>2. GoodCStmt(cpc)
  BY <1>1 DEF GoodText
<1>3. cpc < SiteAt[test] /\ (CCode[cpc].op = "traceme" => cpc = TraceAt[test])
  <2>1. /\ cpc = SiteAt[test] => CCode[cpc].op = "site"
        /\ cpc > SiteAt[test] => CCode[cpc].op \in {"insn", "storeinsn", "syscall", "ccheck", "cchecknot"}
        /\ CCode[cpc].op = "traceme" => cpc = TraceAt[test]
    BY <1>2 DEF GoodCStmt, ByTrap
  <2>2. cpc \in Nat /\ SiteAt[test] \in Nat
    BY Numbers
  <2>. QED  BY ONLY <1>1, <2>1, <2>2
<1>4. cpc = TraceAt[test] => CCode[cpc].op = "traceme"
  BY <1>2 DEF GoodCStmt
<1>5. DOMAIN proc = {"C", "G"} /\ DOMAIN proc["C"] = Fields
  BY DEF BaseInv, Shape
<1>6. CASE CTraceme
  <2>1. proc' = [proc EXCEPT !["C"].traced = TRUE] /\ cpc' = cpc + 1 /\ info' = info
    BY <1>6, NothingBad DEF CTraceme, ByTrap
  <2>2. proc'["C"].traced /\ Same({"st", "pend", "event", "status", "mode"})
    BY ONLY <2>1, <1>5 DEF Same, Fields
  <2>3. cpc = TraceAt[test]
    BY <1>3, <1>6 DEF CTraceme, CAt
  <2>. QED  BY <1>1, <1>3, <2>1, <2>2, <2>3, PlainGoes
<1>7. CASE ~CTraceme
  <2>1. proc' = proc /\ cpc' = cpc + 1 /\ info' = info
    BY <1>7, NothingBad DEF CStore, CCall, CSem, ByTrap
  <2>2. proc'["C"].traced = proc["C"].traced /\ Same({"st", "pend", "event", "status", "mode"})
    BY ONLY <2>1 DEF Same
  <2>3. CCode[cpc].op # "traceme"
    BY <1>7 DEF CStore, CCall, CSem, CAt
  <2>. QED  BY <1>1, <1>3, <1>4, <2>1, <2>2, <2>3, PlainGoes
<1>. QED  BY <1>6, <1>7

\* Where the child runs after its first stop, and how.
LEMMA RunsAgain ==
  ASSUME TextOK, GoodText, BaseInv, GoodInv, ByTrap, proc["C"].st = "run", ppc <= LastAt[test], ppc > WaitAt[test]
  PROVE  /\ test \in {"t006", "t011", "t012"} => /\ ppc = 8 /\ StopAt = 4 /\ proc["C"].mode = "CONT" /\ SiteAt[test] = 3
                                                /\ ppc \in Armed
         /\ test = "t016" => ppc = 5 /\ StopAt = 4 /\ proc["C"].mode = "SYSCALL" /\ cpc <= 3 /\ SiteAt[test] = 2
         /\ test = "t017" => /\ SiteAt[test] = 3
                             /\ \/ ppc = 8 /\ StopAt = 4 /\ proc["C"].mode = "CONT" /\ ppc \in Armed
                                \/ /\ ppc \in 12..LastAt[test] /\ proc["C"].mode = "SINGLESTEP" /\ cpc = StopAt - 1
                                   /\ cpc >= 4 /\ ppc \notin Armed
         /\ test \in {"t006", "t011", "t012", "t016", "t017"}
         /\ ppc \in 1..LastAt[test] /\ cpc <= StopAt
<1>1. WaitsAgain(ppc) /\ ppc >= 1
  BY RunPlaces DEF ByTrap, GoodText, BaseInv, Counters, TextOK
<1>2. test \in {"t006", "t011", "t012", "t016", "t017"}
  BY <1>1 DEF WaitsAgain
<1>3. ppc \in 1..LastAt[test]
  BY <1>1 DEF GoodText, BaseInv, Counters, TextOK
<1>4. cpc <= StopAt /\ cpc \in Nat
  BY <1>3 DEF GoodInv, Alive, BaseInv, Counters, TextOK
<1>5. /\ proc["C"].mode = IF test = "t016" /\ ppc \in 5..LastAt[test] THEN "SYSCALL"
                         ELSE IF test = "t017" /\ ppc \in 12..LastAt[test] THEN "SINGLESTEP" ELSE "CONT"
      /\ proc["C"].mode = "SYSCALL" => cpc <= 3
      /\ proc["C"].mode = "SINGLESTEP" => cpc = StopAt - 1
  BY DEF GoodInv, Stepping
<1>6. CASE test \in {"t006", "t011", "t012"}
  BY ONLY <1>1, <1>3, <1>4, <1>5, <1>6 DEF WaitsAgain, StopAt, SiteAt, Armed
<1>7. CASE test = "t016"
  BY ONLY <1>1, <1>3, <1>4, <1>5, <1>7 DEF WaitsAgain, StopAt, SiteAt
<1>8. CASE test = "t017"
  <2>1. SiteAt[test] = 3 /\ LastAt[test] = 37 /\ Armed = 7..10 /\ ppc \in {8, 12, 17, 22, 27, 32}
    BY ONLY <1>1, <1>8 DEF WaitsAgain, SiteAt, LastAt, Armed
  <2>2. ppc = 8 => StopAt = 4
    BY ONLY <1>8 DEF StopAt
  <2>3. StopAt = IF ppc <= 7 THEN 3 ELSE IF ppc <= 11 THEN 4 ELSE IF ppc <= 16 THEN 5 ELSE IF ppc <= 21 THEN 6
                 ELSE IF ppc <= 26 THEN 7 ELSE IF ppc <= 31 THEN 8 ELSE 9
    BY ONLY <1>8 DEF StopAt
  <2>4. StopAt \in Nat /\ (ppc # 8 => StopAt >= 5)
    BY ONLY <2>1, <2>3
  <2>. QED  BY ONLY <1>2, <1>3, <1>4, <1>5, <1>8, <2>1, <2>2, <2>4
<1>. QED  BY <1>2, <1>6, <1>7, <1>8

\* The brk instruction at which the child stops first.
LEMMA GoodSite ==
  ASSUME TextOK, GoodText, BaseInv, GoodInv, ByTrap, CInsn, CCode[cpc].op = "site"
  PROVE  CGood
<1>1. cpc \in 1..Len(CCode) /\ proc["C"].st = "run"
  BY DEF CInsn, CAt
<1>2. cpc = SiteAt[test] /\ CCode[cpc].at = "site1" /\ TraceAt[test] < cpc /\ cpc >= 2
  <2>1. \A j \in 1..Len(CCode) : GoodCStmt(j)
    BY DEF GoodText
  <2>2. GoodCStmt(cpc)
    BY ONLY <1>1, <2>1
  <2>3. SiteAt[test] \in Nat /\ SiteAt[test] >= 2 /\ TraceAt[test] \in 1..(SiteAt[test] - 1)
    BY DEF GoodText, ByTrap
  <2>4. cpc = SiteAt[test] /\ CCode[cpc].at = "site1"
    BY ONLY <1>1, <2>2, <2>3, CCode[cpc].op = "site", ByTrap DEF GoodCStmt, ByTrap
  <2>. QED  BY ONLY <2>3, <2>4
<1>3. proc["C"].traced
  BY <1>2 DEF GoodInv, Alive
<1>4. mem["site1"] = (IF ppc <= WaitAt[test] + 2 THEN "brk" ELSE "nop") /\ mem["hwbrk"] \in {"t", "none"}
  BY DEF GoodInv, Traps
<1>5. mem'["inst_addr"] = "site1"
  <2>1. mem' = [mem EXCEPT !["inst_addr"] = "site1"] /\ DOMAIN mem = Cell
    BY <1>2 DEF CInsn, BaseInv, Shape
  <2>. QED  BY ONLY <2>1 DEF Cell
<1>6. ppc \in Nat /\ ppc >= 1 /\ ppc # WaitAt[test] + 1 /\ ppc # WaitAt[test] + 2 /\ WaitAt[test] \in Nat
  <2>1. ppc \notin H
    BY <1>1, HeldNow DEF GoodInv, Held, ByTrap
  <2>2. ppc \in Nat /\ ppc >= 1
    BY <1>1, RunPlaces DEF ByTrap, BaseInv, Counters, TextOK
  <2>. QED  BY <2>1, <2>2 DEF GoodText, ByTrap
<1>7. CASE ppc <= WaitAt[test]
  <2>1. mem["site1"] = "brk"
    BY <1>4, <1>6, <1>7
  <2>2. proc' = [proc EXCEPT !["C"] = Raised("C", "TRAP")] /\ cpc' = cpc
    BY <1>2, <1>4, <2>1 DEF CInsn, Text
  <2>3. ppc \in 1..LastAt[test] /\ ppc <= 4
    <3>1. LastAt[test] \in Nat /\ WaitAt[test] < LastAt[test] /\ WaitAt[test] <= 4
      BY Numbers
    <3>. QED  BY ONLY <1>6, <1>7, <3>1
  <2>4. StopAt = SiteAt[test]
    BY ONLY <2>3 DEF StopAt, SiteAt
  <2>5. /\ proc'["C"].st = "stop" /\ proc'["C"].pend = FALSE /\ proc'["C"].status.val = "TRAP"
        /\ proc'["C"].traced = proc["C"].traced /\ proc'["C"].mode = proc["C"].mode
    BY ONLY BaseInv, <1>3, <2>2, TrapFields
  <2>6. CStops
    BY ONLY <1>1, <1>2, <2>2, <2>3, <2>4, <2>5 DEF CStops
  <2>. QED  BY <1>2, <1>5, <1>7, <2>2, <2>6 DEF CGood, CTrapped
<1>8. CASE ppc > WaitAt[test]
  <2>1. mem["site1"] = "nop"
    BY <1>4, <1>6, <1>8
  <2>2. proc["C"].mode # "SINGLESTEP" /\ (proc["C"].mode = "SYSCALL" => cpc <= 2)
        /\ (ppc \in 1..LastAt[test] => cpc < StopAt)
    <3>1. CASE ppc <= LastAt[test]
      BY <1>1, <1>2, <1>8, <3>1, RunsAgain
    <3>2. CASE ppc > LastAt[test]
      BY <1>1, <3>2 DEF GoodInv, Gone, ByTrap, GoodText
    <3>. QED  BY <1>6, <3>1, <3>2 DEF GoodText
  <2>3. proc' = proc /\ cpc' = cpc + 1 /\ info' = info
    BY <1>2, <1>4, <2>1, <2>2 DEF CInsn, Text
  <2>4. CGoes
    BY <1>2, <2>2, <2>3, <1>3 DEF CGoes, Same
  <2>. QED  BY <2>4 DEF CGood
<1>. QED  BY <1>6, <1>7, <1>8

\* A child that has passed its first brk has been let go.
LEMMA PassedSite ==
  ASSUME TextOK, GoodText, BaseInv, GoodInv, ByTrap, proc["C"].st = "run", cpc > SiteAt[test]
  PROVE  ppc > WaitAt[test] /\ proc["C"].traced /\ TraceAt[test] < cpc /\ ppc \in Nat
<1>1. /\ ppc \in Nat /\ cpc \in Nat /\ SiteAt[test] \in Nat /\ WaitAt[test] \in Nat /\ LastAt[test] \in Nat
      /\ WaitAt[test] <= LastAt[test] /\ WaitAt[test] <= 4 /\ TraceAt[test] \in 1..(SiteAt[test] - 1)
  BY Numbers DEF ByTrap
<1>2. ppc >= 1
  BY RunPlaces DEF ByTrap
<1>3. proc["C"].traced
  BY <1>1 DEF GoodInv, Alive
<1>4. ASSUME ppc <= WaitAt[test] PROVE FALSE
  <2>1. ppc \in 1..LastAt[test] /\ ppc <= 4
    BY <1>1, <1>2, <1>4
  <2>2. cpc <= StopAt
    BY <2>1 DEF GoodInv, Alive
  <2>3. StopAt = SiteAt[test]
    BY ONLY <2>1 DEF StopAt, SiteAt
  <2>. QED  BY ONLY <1>1, <2>2, <2>3, cpc > SiteAt[test]
<1>. QED  BY <1>1, <1>3, <1>4

\* The instruction under test, and those after it.
LEMMA GoodInsn ==
  ASSUME TextOK, GoodText, BaseInv, GoodInv, ByTrap, CInsn, CCode[cpc].op = "insn"
  PROVE  CGood
<1>1. cpc \in 1..Len(CCode) /\ proc["C"].st = "run"
  BY DEF CInsn, CAt
<1>2. GoodCStmt(cpc)
  BY <1>1 DEF GoodText
<1>3. \/ test \in {"t006", "t012", "t017"} /\ cpc = 4 /\ CCode[cpc].at = "t"
      \/ test = "t017" /\ cpc > 4 /\ CCode[cpc].at \notin Text \union {"none"}
  BY <1>2 DEF GoodCStmt
<1>4. test \in {"t006", "t012", "t017"} => SiteAt[test] = 3
  BY DEF SiteAt
<1>5. cpc > SiteAt[test] /\ cpc \in Nat
  BY <1>1, <1>3, <1>4
<1>6. ppc > WaitAt[test] /\ proc["C"].traced /\ TraceAt[test] < cpc /\ ppc \in Nat
  BY <1>1, <1>5, PassedSite
<1>7. /\ mem["t"] = IF test \in {"t006", "t017"} /\ ppc \in Armed THEN "brk" ELSE "nop"
      /\ mem["hwbrk"] = IF test = "t012" /\ ppc \in Armed THEN "t" ELSE "none"
  BY DEF GoodInv, Traps
<1>8. CASE ppc > LastAt[test]
  <2>1. ppc \notin Armed
    BY <1>3, <1>6, <1>8 DEF Armed, LastAt
  <2>2. mem["t"] = "nop" /\ mem["hwbrk"] = "none"
    BY <1>7, <2>1
  <2>3. proc["C"].mode = "CONT"
    BY <1>1, <1>8 DEF GoodInv, Gone, ByTrap
  <2>4. proc' = proc /\ cpc' = cpc + 1 /\ info' = info
    BY <1>3, <2>2, <2>3 DEF CInsn, Text
  <2>5. CGoes
    <3>1. LastAt[test] \in Nat /\ cpc \in Nat /\ TraceAt[test] \in Nat
      BY DEF BaseInv, Counters, GoodText, TextOK
    <3>2. TraceAt[test] < cpc /\ ppc \in Nat
      BY <1>6
    <3>. QED  BY ONLY <1>8, <2>3, <2>4, <3>1, <3>2 DEF CGoes, Same
  <2>. QED  BY <2>5 DEF CGood
<1>9. CASE ppc <= LastAt[test] /\ test \in {"t006", "t012"}
  <2>1. ppc = 8 /\ StopAt = 4 /\ ppc \in Armed /\ ppc \in 1..LastAt[test] /\ cpc = 4 /\ CCode[cpc].at = "t"
    BY <1>1, <1>3, <1>6, <1>9, RunsAgain
  <2>2. /\ proc' = [proc EXCEPT !["C"] = Raised("C", "TRAP")] /\ cpc' = cpc
        /\ test = "t006" => info' = Trap("BRKPT", "t")
        /\ test = "t012" => info' = Trap("HWBKPT", "t")
    BY <1>7, <1>9, <2>1 DEF CInsn, Text
  <2>3. /\ proc'["C"].st = "stop" /\ proc'["C"].pend = FALSE /\ proc'["C"].status.val = "TRAP"
        /\ proc'["C"].traced = proc["C"].traced /\ proc'["C"].mode = proc["C"].mode
    BY ONLY BaseInv, <1>6, <2>2, TrapFields
  <2>4. CStops
    BY ONLY <2>1, <2>2, <2>3 DEF CStops
  <2>. QED  BY ONLY <1>9, <2>1, <2>2, <2>4 DEF CGood, CTrapped
<1>10. CASE ppc <= LastAt[test] /\ test = "t017" /\ ppc = 8
  <2>1. StopAt = 4 /\ ppc \in Armed /\ ppc \in 1..LastAt[test] /\ cpc <= 4
    BY <1>1, <1>6, <1>10, RunsAgain
  <2>2. cpc = 4 /\ CCode[cpc].at = "t"
    BY <1>3, <1>5, <2>1
  <2>3. /\ proc' = [proc EXCEPT !["C"] = Raised("C", "TRAP")] /\ cpc' = cpc
        /\ info' = Trap("BRKPT", "t")
    BY <1>7, <1>10, <2>1, <2>2 DEF CInsn, Text
  <2>4. /\ proc'["C"].st = "stop" /\ proc'["C"].pend = FALSE /\ proc'["C"].status.val = "TRAP"
        /\ proc'["C"].traced = proc["C"].traced /\ proc'["C"].mode = proc["C"].mode
    BY ONLY BaseInv, <1>6, <2>3, TrapFields
  <2>5. CStops
    BY ONLY <2>1, <2>2, <2>3, <2>4 DEF CStops
  <2>. QED  BY ONLY <1>10, <2>3, <2>5 DEF CGood, CTrapped
<1>11. CASE ppc <= LastAt[test] /\ test = "t017" /\ ppc # 8
  <2>1. /\ ppc \in 12..LastAt[test] /\ proc["C"].mode = "SINGLESTEP" /\ cpc = StopAt - 1 /\ cpc >= 4 /\ ppc \notin Armed
        /\ ppc \in 1..LastAt[test]
    BY <1>1, <1>6, <1>11, RunsAgain
  <2>2. mem["t"] = "nop" /\ mem["hwbrk"] = "none"
    BY <1>7, <1>11, <2>1
  <2>3. /\ proc' = [proc EXCEPT !["C"] = Stopped("C", "TRAP")] /\ cpc' = cpc + 1
        /\ info' = Trap("HWBKPT", CCode[cpc + 1].at)
    BY <1>3, <2>1, <2>2 DEF CInsn, Text
  <2>4. /\ proc'["C"].st = "stop" /\ proc'["C"].pend = FALSE /\ proc'["C"].status.val = "TRAP"
        /\ proc'["C"].traced = proc["C"].traced /\ proc'["C"].mode = proc["C"].mode
    BY ONLY BaseInv, <1>6, <2>3, TrapFields
  <2>5. StopAt \in Nat
    BY ONLY <1>11 DEF StopAt
  <2>6. CStops
    BY ONLY <1>5, <2>1, <2>3, <2>4, <2>5 DEF CStops
  <2>. QED  BY ONLY <1>11, <2>1, <2>3, <2>6 DEF CGood, CStepped
<1>. QED  BY <1>3, <1>6, <1>8, <1>9, <1>10, <1>11 DEF GoodText

\* The store under test.
LEMMA GoodStoreInsn ==
  ASSUME TextOK, GoodText, BaseInv, GoodInv, ByTrap, CStoreInsn
  PROVE  CGood
<1>1. cpc \in 1..Len(CCode) /\ proc["C"].st = "run" /\ CCode[cpc].op = "storeinsn"
  BY DEF CStoreInsn, CAt
<1>2. test = "t011" /\ cpc = 4 /\ CCode[cpc].to = "buf"
  BY <1>1 DEF GoodText, GoodCStmt
<1>3. SiteAt[test] = 3 /\ LastAt[test] = 17 /\ Armed = 7..15
  BY <1>2 DEF SiteAt, LastAt, Armed
<1>4. ppc > WaitAt[test] /\ proc["C"].traced /\ TraceAt[test] < cpc /\ ppc \in Nat
  BY <1>1, <1>2, <1>3, PassedSite
<1>5. mem["hwwatch"] = IF ppc \in Armed THEN "buf" ELSE "none"
  BY <1>2 DEF GoodInv, Traps
<1>6. CASE ppc > LastAt[test]
  <2>1. mem["hwwatch"] = "none" /\ proc["C"].mode = "CONT"
    BY <1>1, <1>3, <1>4, <1>5, <1>6 DEF GoodInv, Gone, ByTrap
  <2>2. proc' = proc /\ cpc' = cpc + 1 /\ info' = info
    BY <1>2, <2>1 DEF CStoreInsn
  <2>3. CGoes
    <3>1. LastAt[test] \in Nat /\ cpc \in Nat /\ TraceAt[test] \in Nat
      BY DEF BaseInv, Counters, GoodText, TextOK
    <3>2. TraceAt[test] < cpc /\ ppc \in Nat
      BY <1>4
    <3>. QED  BY ONLY <1>6, <2>1, <2>2, <3>1, <3>2 DEF CGoes, Same
  <2>. QED  BY <2>3 DEF CGood
<1>7. CASE ppc <= LastAt[test]
  <2>1. ppc = 8 /\ StopAt = 4 /\ ppc \in Armed /\ ppc \in 1..LastAt[test]
    BY <1>1, <1>2, <1>4, <1>7, RunsAgain
  <2>2. proc' = [proc EXCEPT !["C"] = Raised("C", "TRAP")] /\ cpc' = cpc /\ info' = Trap("HWBKPT", "buf")
    BY <1>2, <1>5, <2>1 DEF CStoreInsn
  <2>3. /\ proc'["C"].st = "stop" /\ proc'["C"].pend = FALSE /\ proc'["C"].status.val = "TRAP"
        /\ proc'["C"].traced = proc["C"].traced /\ proc'["C"].mode = proc["C"].mode
    BY ONLY BaseInv, <1>4, <2>2, TrapFields
  <2>4. CStops
    BY ONLY <1>2, <2>1, <2>2, <2>3 DEF CStops
  <2>. QED  BY ONLY <1>2, <2>1, <2>2, <2>4 DEF CGood, CTrapped
<1>. QED  BY <1>3, <1>4, <1>6, <1>7

\* The system call under test.
LEMMA GoodSyscall ==
  ASSUME TextOK, GoodText, BaseInv, GoodInv, ByTrap, CSyscall
  PROVE  CGood
<1>1. cpc \in 1..Len(CCode) /\ proc["C"].st = "run" /\ CCode[cpc].op = "syscall"
  BY DEF CSyscall, CAt
<1>2. test = "t016" /\ cpc = 3 /\ CCode[cpc].no = "getpid"
  BY <1>1 DEF GoodText, GoodCStmt
<1>3. SiteAt[test] = 2 /\ LastAt[test] = 9
  BY <1>2 DEF SiteAt, LastAt
<1>4. ppc > WaitAt[test] /\ proc["C"].traced /\ TraceAt[test] < cpc /\ ppc \in Nat
  BY <1>1, <1>2, <1>3, PassedSite
<1>5. CASE ppc > LastAt[test]
  <2>1. proc["C"].mode = "CONT"
    BY <1>1, <1>5 DEF GoodInv, Gone, ByTrap
  <2>2. proc' = proc /\ cpc' = cpc + 1 /\ info' = info
    BY <2>1 DEF CSyscall
  <2>3. CGoes
    <3>1. LastAt[test] \in Nat /\ cpc \in Nat /\ TraceAt[test] \in Nat
      BY DEF BaseInv, Counters, GoodText, TextOK
    <3>2. TraceAt[test] < cpc /\ ppc \in Nat
      BY <1>4
    <3>. QED  BY ONLY <1>5, <2>1, <2>2, <3>1, <3>2 DEF CGoes, Same
  <2>. QED  BY <2>3 DEF CGood
<1>6. CASE ppc <= LastAt[test]
  <2>1. ppc = 5 /\ StopAt = 4 /\ ppc \in 1..LastAt[test] /\ proc["C"].mode = "SYSCALL"
    BY <1>1, <1>2, <1>4, <1>6, RunsAgain
  <2>2. proc' = [proc EXCEPT !["C"] = Stopped("C", "TRAP")] /\ cpc' = cpc + 1 /\ mem' = [mem EXCEPT !["sysno"] = "getpid"]
    BY <1>2, <2>1 DEF CSyscall
  <2>3. /\ proc'["C"].st = "stop" /\ proc'["C"].pend = FALSE /\ proc'["C"].status.val = "TRAP"
        /\ proc'["C"].traced = proc["C"].traced /\ proc'["C"].mode = proc["C"].mode
    BY ONLY BaseInv, <1>4, <2>2, TrapFields
  <2>4. DOMAIN mem = Cell
    BY DEF BaseInv, Shape
  <2>5. mem'["sysno"] = "getpid"
    BY ONLY <2>2, <2>4 DEF Cell
  <2>6. CStops
    BY ONLY <1>2, <2>1, <2>2, <2>3 DEF CStops
  <2>. QED  BY ONLY <1>2, <2>1, <2>5, <2>6 DEF CGood, CStepped
<1>. QED  BY <1>3, <1>4, <1>5, <1>6

\* A child with a check runs on only after P has done its work.
LEMMA ChecksLate ==
  ASSUME TextOK, GoodText, BaseInv, GoodInv, ByTrap, proc["C"].st = "run", cpc \in 1..Len(CCode),
         CCode[cpc].op \in {"ccheck", "cchecknot"}
  PROVE  ppc > LastAt[test] /\ proc["C"].mode = "CONT" /\ cpc > 2 /\ TraceAt[test] < cpc
<1>1. GoodCStmt(cpc)
  BY DEF GoodText
<1>2. /\ cpc > SiteAt[test] /\ SiteAt[test] >= 2 /\ SiteAt[test] \in Nat /\ cpc \in Nat
      /\ test \in {"t002", "t005", "t010", "t021"}
  BY <1>1 DEF GoodCStmt, ByTrap, GoodText
<1>3. ppc > WaitAt[test] /\ TraceAt[test] < cpc /\ ppc \in Nat
  BY <1>2, PassedSite
<1>4. ppc > LastAt[test]
  <2>1. SUFFICES ASSUME ppc <= LastAt[test] PROVE FALSE
    BY <1>3 DEF GoodText
  <2>. QED  BY <1>2, <1>3, <2>1, RunsAgain
<1>. QED  BY <1>2, <1>3, <1>4 DEF GoodInv, Gone, ByTrap

\* What the child checks is so.
LEMMA GoodCheckMem ==
  ASSUME TextOK, GoodText, BaseInv, GoodInv, ByTrap, CCheckMem
  PROVE  CGood
<1>1. cpc \in 1..Len(CCode) /\ proc["C"].st = "run" /\ CCode[cpc].op \in {"ccheck", "cchecknot"}
  BY DEF CCheckMem, CAt
<1>2. GoodCStmt(cpc)
  BY <1>1 DEF GoodText
<1>3. ppc > LastAt[test] /\ proc["C"].mode = "CONT" /\ cpc > 2 /\ TraceAt[test] < cpc
  BY <1>1, ChecksLate
<1>4. /\ test = "t002" => mem["buf"] = "CHILD_MAGIC"
      /\ test = "t005" => mem["buf"] = "PARENT_MAGIC"
      /\ test = "t021" => mem["dev"] = "0xFFFFFFFF"
  <2>1. (test = "t005" => ppc > 4) /\ (test = "t021" => ppc > 6)
    <3>1. (test = "t005" => LastAt[test] = 6) /\ (test = "t021" => LastAt[test] = 7) /\ ppc \in Nat
      <4>1. ppc \in Nat
        BY Numbers
      <4>. QED  BY ONLY <4>1 DEF LastAt
    <3>. QED  BY ONLY <1>3, <3>1
  <2>. QED  BY <1>3, <2>1 DEF GoodInv, Data, ByTrap
<1>5. test = "t010" => mem["regno0"] = "regno" /\ mem["regno1"] = "regno" /\ mem["greg"] = "magic" /\ mem["freg"] = "magic"
  <2>1. test = "t010" => LastAt[test] = 22 /\ ppc \in Nat
    <3>1. ppc \in Nat
      BY Numbers
    <3>. QED  BY ONLY <3>1 DEF LastAt
  <2>2. test = "t010" => ppc > 20 /\ ppc > 19 /\ ppc > 8 /\ ppc > 6
    BY ONLY <1>3, <2>1
  <2>. QED  BY <2>2 DEF GoodInv, Data010, ByTrap
<1>6. /\ CCode[cpc].op = "ccheck" => mem[CCode[cpc].at] = CCode[cpc].val
      /\ CCode[cpc].op = "cchecknot" => mem[CCode[cpc].at] # CCode[cpc].val
  BY ONLY <1>2, <1>4, <1>5 DEF GoodCStmt
<1>7. cpc' = cpc + 1 /\ proc' = proc /\ info' = info
  BY <1>1, <1>6 DEF CCheckMem
<1>8. ppc \in Nat /\ LastAt[test] \in Nat /\ cpc \in Nat /\ TraceAt[test] \in Nat
  BY DEF BaseInv, Counters, GoodText, TextOK
<1>9. CGoes
  BY ONLY <1>3, <1>7, <1>8 DEF CGoes, Same
<1>. QED  BY <1>9 DEF CGood

\* The end of the child.
LEMMA GoodEnd ==
  ASSUME TextOK, GoodText, BaseInv, GoodInv, ByTrap, CEnd
  PROVE  CGood
<1>1. proc["C"].st = "run" /\ cpc > Len(CCode) /\ proc' = [proc EXCEPT !["C"] = Ended("C", "exit", "0")] /\ UNCHANGED <<cpc, info>>
  BY DEF CEnd, CExit
<1>2. cpc > SiteAt[test] /\ cpc \in Nat
  BY <1>1 DEF GoodText, ByTrap, BaseInv, Counters, TextOK
<1>3. ppc > WaitAt[test] /\ ppc \in Nat
  BY <1>1, <1>2, PassedSite
<1>4. ppc > LastAt[test]
  <2>1. SUFFICES ASSUME ppc <= LastAt[test] PROVE FALSE
    BY <1>3 DEF GoodText
  <2>2. CASE test \in {"t006", "t011", "t012"}
    <3>1. Len(CCode) = 4
      BY <2>2, Text006, Text011, Text012
    <3>. QED  BY <1>1, <1>2, <1>3, <2>1, <2>2, <3>1, RunsAgain
  <2>3. CASE test = "t016"
    <3>1. Len(CCode) = 3
      BY <2>3, Text016
    <3>. QED  BY <1>1, <1>2, <1>3, <2>1, <2>3, <3>1, RunsAgain
  <2>4. CASE test = "t017"
    <3>1. Len(CCode) = 9 /\ StopAt <= 9 /\ StopAt \in Nat
      BY <2>4, Text017 DEF StopAt
    <3>2. cpc <= StopAt /\ (ppc = 8 => StopAt = 4) /\ (ppc # 8 => cpc = StopAt - 1)
      BY <1>1, <1>3, <2>1, <2>4, RunsAgain
    <3>. QED  BY ONLY <1>1, <1>2, <3>1, <3>2
  <2>. QED  BY <1>1, <1>3, <2>1, <2>2, <2>3, <2>4, RunsAgain
<1>5. DOMAIN proc = {"C", "G"} /\ DOMAIN proc["C"] = Fields
  BY DEF BaseInv, Shape
<1>6. proc'["C"] = Ended("C", "exit", "0")
  BY ONLY <1>1, <1>5
<1>7. proc'["C"].st = "dead" /\ proc'["C"].status = [kind |-> "exit", val |-> "0"]
  BY ONLY <1>5, <1>6 DEF Ended, Fields
<1>8. proc'["C"].pend = FALSE
  BY ONLY <1>5, <1>6 DEF Ended, Fields
<1>9. proc'["C"].traced = proc["C"].traced /\ proc'["C"].mode = proc["C"].mode
  BY ONLY <1>5, <1>6 DEF Ended, Fields
<1>10. CEnded
  BY ONLY <1>1, <1>4, <1>7, <1>8, <1>9 DEF CEnded
<1>. QED  BY <1>10 DEF CGood

\* Every step of a child that its traps stop.
LEMMA ChildGood ==
  ASSUME TextOK, GoodText, BaseInv, GoodInv, ByTrap, Child
  PROVE  CGood
<1>1. ~CFork /\ ~CForkEvent
  BY DEF CFork, CForkEvent, CAt, TextOK, CStmtOK, ByTrap, Fine
<1>2. CASE CInsn
  BY <1>2, GoodSite, GoodInsn DEF CInsn, CAt
<1>. QED  BY <1>1, <1>2, GoodPlain, GoodStoreInsn, GoodSyscall, GoodCheckMem, GoodEnd DEF Child, CGood

\* The steps of a run that is and stays fine.
LEMMA FineSteps ==
  ASSUME BaseInv, [Next]_vars, Fine'
  PROVE  Statement \/ Child \/ TakeStop("C") \/ PStart \/ UNCHANGED vars
<1>1. Fine /\ ~PVerdict
  BY FineBefore
<1>2. proc["G"].st = "none"
  BY <1>1 DEF BaseInv, GrandInv, Fine, NoProc
<1>3. ~TakeStop("G") /\ ~GExit
  BY <1>2 DEF TakeStop, GExit
<1>. QED  BY <1>1, <1>3 DEF Next, Parent, Kernel, Statement, Over

\* What the statements of parent_func() leave alone.
LEMMA StatementKeeps ==
  ASSUME Statement
  PROVE  /\ UNCHANGED <<test, fault, verdict, cpc>>
         /\ PWait \/ UNCHANGED last
         /\ PWait \/ PResume \/ PAttach \/ PKill \/ UNCHANGED proc
         /\ PSetInfo \/ UNCHANGED info
         /\ PSet \/ UNCHANGED mem
         /\ PGet \/ PRead \/ UNCHANGED reg
         /\ PGetInfo \/ UNCHANGED pinfo
  BY DEF Statement, PWait, PStopSig, PGet, PSet, PCheck, PMustFail, PGetInfo, PCheckInfo, PSetInfo, PResume, PAttach, PKill,
         PSem, PRead, POk, childVars

\* What the child leaves alone.
LEMMA ChildKeeps ==
  ASSUME Child
  PROVE  UNCHANGED <<test, fault, ppc, ret, reg, pinfo, last, verdict>> /\ proc["C"].st = "run"
  BY DEF Child, CTraceme, CStore, CInsn, CStoreInsn, CSyscall, CFork, CForkEvent, CSem, CCheckMem, CCall, CEnd, CUnchanged,
         parentVars, CAt

\* The next stop moves on when P lets the child go, and only then.
LEMMA StopAtMoves ==
  ASSUME GoodText, ppc \in 1..Len(Code), ppc' = ppc + 1, test' = test
  PROVE  /\ StopAt \in Nat /\ StopAt' \in Nat /\ StopAt' >= StopAt
         /\ Code[ppc].op # "resume" => StopAt' = StopAt
         /\ test = "t017" /\ ppc \in {11, 16, 21, 26, 31} => StopAt' = StopAt + 1
         /\ ppc <= WaitAt[test] => StopAt = SiteAt[test]
<1>1. GoodStmt(ppc) /\ SiteAt[test] \in Nat /\ ppc \in Nat /\ WaitAt[test] <= 4 /\ WaitAt[test] \in Nat
  BY DEF GoodText
<1>2. StopAt' = IF test \in {"t006", "t011", "t012"} THEN (IF ppc + 1 <= 7 THEN 3 ELSE 4)
  ELSE IF test = "t016" THEN (IF ppc + 1 <= 4 THEN 2 ELSE 4)
  ELSE IF test = "t017" THEN (IF ppc + 1 <= 7 THEN 3 ELSE IF ppc + 1 <= 11 THEN 4 ELSE IF ppc + 1 <= 16 THEN 5
                              ELSE IF ppc + 1 <= 21 THEN 6
                              ELSE IF ppc + 1 <= 26 THEN 7 ELSE IF ppc + 1 <= 31 THEN 8 ELSE 9)
  ELSE SiteAt[test]
  BY DEF StopAt
<1>3. StopAt \in Nat /\ StopAt' \in Nat /\ StopAt' >= StopAt
  BY ONLY <1>1, <1>2 DEF StopAt
<1>4. test = "t017" /\ ppc \in {11, 16, 21, 26, 31} => StopAt' = StopAt + 1
  BY ONLY <1>1, <1>2 DEF StopAt
<1>5. StopAt' # StopAt => ResumesAt(ppc)
  BY ONLY <1>1, <1>2 DEF StopAt, ResumesAt
<1>6. Code[ppc].op # "resume" => StopAt' = StopAt
  BY <1>1, <1>5 DEF GoodStmt
<1>7. ppc <= WaitAt[test] => StopAt = SiteAt[test]
  <2>1. ppc <= WaitAt[test] => ppc <= 4
    BY <1>1
  <2>2. ppc <= 4 => StopAt = SiteAt[test]
    BY ONLY <1>1 DEF StopAt, SiteAt
  <2>. QED  BY <2>1, <2>2
<1>. QED  BY <1>3, <1>4, <1>6, <1>7

\* What a statement does to a child that is traced from the start: nothing, report its stop, or let it go.
LEMMA StatementProc ==
  ASSUME TextOK, GoodText, BaseInv, GoodInv, Fine, Statement
  PROVE  /\ \/ Same({"st", "pend", "status", "traced", "mode"})
            \/ PResume
            \/ ((PAttach \/ PKill) /\ test \in BySignal /\ ppc = 2)
         /\ last' = last \/ (PWait /\ ppc < LastAt[test] /\ proc["C"].st = "stop" /\ last' = proc["C"].status)
         /\ ppc = WaitAt[test] => PWait /\ proc["C"].st = "stop" /\ last' = proc["C"].status
         /\ PResume <=> Code[ppc].op = "resume"
         /\ PWait => ppc < LastAt[test]
<1>1. ppc \in 1..Len(Code) /\ ppc \in Nat
  BY StatementSteps DEF PStep
<1>2. GoodStmt(ppc) /\ StmtOK(ppc)
  BY <1>1 DEF GoodText, TextOK
<1>3. PWait => Same({"st", "pend", "status", "traced", "mode"}) /\ ppc < LastAt[test]
  <2>1. SUFFICES ASSUME PWait
                 PROVE  Same({"st", "pend", "status", "traced", "mode"}) /\ ppc < LastAt[test]
    OBVIOUS
  <2>2. proc["C"].st = "stop" /\ proc' = Reaped("C")
    BY <2>1, GoodWait
  <2>3. PICK p \in {"C", "G"} : p = "C"
    OBVIOUS
  <2>4. /\ proc'["C"].st = proc["C"].st /\ proc'["C"].traced = proc["C"].traced /\ proc'["C"].status = proc["C"].status
        /\ proc'["C"].mode = proc["C"].mode /\ proc'["C"].pend = proc["C"].pend
    BY <2>2, <2>3, ReapedFields
  <2>5. ppc < LastAt[test]
    BY <2>1, <1>2 DEF PWait, At, GoodStmt
  <2>. QED  BY ONLY <2>4, <2>5 DEF Same
<1>4. PAttach \/ PKill => test \in BySignal /\ ppc = 2
  BY <1>2 DEF PAttach, PKill, At, GoodStmt, BySignal
<1>5. proc' = proc => Same({"st", "pend", "status", "traced", "mode"})
  BY ONLY TRUE DEF Same
<1>6. ppc = WaitAt[test] => PWait
  BY <1>2, StatementIs DEF StmtOK
<1>7. PResume <=> Code[ppc].op = "resume"
  BY StatementIs DEF PResume, At
<1>8. /\ PWait \/ UNCHANGED last
      /\ PWait \/ PResume \/ PAttach \/ PKill \/ UNCHANGED proc
  BY StatementKeeps
<1>9. PWait => proc["C"].st = "stop" /\ last' = proc["C"].status
  BY GoodWait
<1>10. Same({"st", "pend", "status", "traced", "mode"}) \/ PResume \/ ((PAttach \/ PKill) /\ test \in BySignal /\ ppc = 2)
  BY ONLY <1>3, <1>4, <1>5, <1>8
<1>11. last' = last \/ (PWait /\ ppc < LastAt[test] /\ proc["C"].st = "stop" /\ last' = proc["C"].status)
  BY ONLY <1>3, <1>8, <1>9
<1>. QED  BY ONLY <1>3, <1>6, <1>7, <1>9, <1>10, <1>11

\* parent_func() stays on its course.
LEMMA StatementCourse ==
  ASSUME TextOK, GoodText, BaseInv, GoodInv, Fine, Statement
  PROVE  OnCourse'
<1>1. ppc \in 1..Len(Code) /\ ppc' = ppc + 1 /\ ret' = IF ppc = OkAt[test] THEN "ok" ELSE ret
  BY Forward
<1>2. test' = test /\ OkAt[test] \in Nat /\ ppc \in Nat
  BY <1>1, StatementKeeps DEF GoodText
<1>3. ppc > OkAt[test] => ret = "ok"
  BY DEF GoodInv, OnCourse
<1>4. ppc' > OkAt[test]' => ret' = "ok"
  BY ONLY <1>1, <1>2, <1>3
<1>. QED  BY <1>4 DEF OnCourse

\* What is known when a statement of a trap test is executed.
LEMMA StatementNow ==
  ASSUME TextOK, GoodText, BaseInv, GoodInv, ByTrap, Statement
  PROVE  /\ ppc \in 1..Len(Code) /\ ppc \in Nat /\ ppc' = ppc + 1 /\ test' = test /\ cpc' = cpc /\ cpc \in Nat
         /\ LastAt[test] \in Nat /\ WaitAt[test] \in Nat /\ SiteAt[test] \in Nat /\ TraceAt[test] \in Nat
         /\ StopAt \in Nat /\ StopAt' \in Nat /\ StopAt' >= StopAt
         /\ WaitAt[test] < LastAt[test] /\ LastAt[test] <= Len(Code) /\ Len(Code) \in Nat
         /\ Code[ppc].op # "resume" => StopAt' = StopAt
         /\ ppc = LastAt[test] => Code[ppc].op = "resume"
         /\ Code[ppc].op = "resume" =>
              /\ ppc <= LastAt[test] /\ ResumeOK(ppc) /\ ppc > WaitAt[test]
              /\ proc["C"].st = "stop"
              /\ proc'["C"].traced = proc["C"].traced
         /\ Code[ppc].op # "resume" => Same({"st", "pend", "status", "traced", "mode"})
<1>1. ppc \in 1..Len(Code) /\ ppc' = ppc + 1
  BY Forward DEF ByTrap
<1>2. test' = test /\ cpc' = cpc
  BY StatementKeeps
<1>3. GoodStmt(ppc)
  BY <1>1 DEF GoodText
<1>4. ppc = LastAt[test] => Code[ppc].op = "resume"
  BY <1>3 DEF GoodStmt, ResumesAt
<1>5. Code[ppc].op = "resume" => PResume
  BY StatementIs
<1>6. ASSUME Code[ppc].op = "resume"
      PROVE  /\ ppc <= LastAt[test] /\ ResumeOK(ppc) /\ ppc > WaitAt[test]
             /\ proc["C"].st = "stop" /\ proc'["C"].traced = proc["C"].traced
  <2>1. ppc <= LastAt[test] /\ ResumeOK(ppc) /\ Held /\ (Code[ppc].req # "DETACH" => proc'["C"].traced = proc["C"].traced)
    BY <1>5, <1>6, GoodResume DEF ByTrap
  <2>2. ppc > WaitAt[test]
    BY <1>1, <1>6, RequestHeld DEF TextOK, Requests, GoodInv, ByTrap
  <2>3. Code[ppc].req # "DETACH"
    BY <2>1 DEF ResumeOK, ByTrap, BySignal
  <2>. QED  BY <2>1, <2>2, <2>3 DEF Held
<1>7. Code[ppc].op # "resume" => Same({"st", "pend", "status", "traced", "mode"})
  BY StatementProc DEF ByTrap
<1>8. /\ StopAt \in Nat /\ StopAt' \in Nat /\ StopAt' >= StopAt
      /\ Code[ppc].op # "resume" => StopAt' = StopAt
  BY <1>1, <1>2, StopAtMoves
<1>9. /\ LastAt[test] \in Nat /\ WaitAt[test] \in Nat /\ SiteAt[test] \in Nat /\ TraceAt[test] \in Nat
      /\ WaitAt[test] < LastAt[test] /\ LastAt[test] <= Len(Code) /\ Len(Code) \in Nat /\ cpc \in Nat
  <2>1. TraceAt[test] \in Nat /\ cpc \in Nat
    BY DEF BaseInv, Counters, GoodText, TextOK
  <2>2. /\ LastAt[test] \in Nat /\ WaitAt[test] \in Nat /\ SiteAt[test] \in Nat /\ FirstAt[test] \in Nat /\ Len(Code) \in Nat
        /\ WaitAt[test] < FirstAt[test] /\ FirstAt[test] <= LastAt[test] /\ LastAt[test] <= Len(Code)
    BY DEF GoodText
  <2>. QED  BY ONLY <2>1, <2>2
<1>. QED  BY ONLY <1>1, <1>2, <1>4, <1>6, <1>7, <1>8, <1>9

\* The fields of the child after it was let go.
LEMMA ResumedNow ==
  ASSUME TextOK, GoodText, BaseInv, GoodInv, ByTrap, Statement, Code[ppc].op = "resume"
  PROVE  /\ ppc = LastAt[test] /\ test = "t018" =>
              /\ proc'["C"].st = "dead" /\ proc'["C"].status = [kind |-> "sig", val |-> "KILL"]
              /\ proc'["C"].mode = proc["C"].mode
         /\ ~(ppc = LastAt[test] /\ test = "t018") => proc'["C"].st = "run"
         /\ ppc = LastAt[test] /\ test # "t018" => proc'["C"].mode = "CONT"
         /\ ppc # LastAt[test] => \/ test \in {"t006", "t011", "t012", "t017"} /\ ppc = 7 /\ proc'["C"].mode = "CONT"
                                  \/ test = "t016" /\ ppc = 4 /\ proc'["C"].mode = "SYSCALL"
                                  \/ test = "t017" /\ ppc \in {11, 16, 21, 26, 31} /\ proc'["C"].mode = "SINGLESTEP"
         /\ proc'["C"].pend = FALSE \/ proc'["C"].pend = proc["C"].pend
<1>1. PResume
  BY StatementIs
<1>2. /\ ResumeOK(ppc)
      /\ Code[ppc].req = "KILL" => /\ proc'["C"].st = "dead" /\ proc'["C"].status = [kind |-> "sig", val |-> "KILL"]
                                   /\ proc'["C"].mode = proc["C"].mode
      /\ Code[ppc].req # "KILL" => proc'["C"].st = "run"
      /\ Code[ppc].req \in {"CONT", "DETACH"} => proc'["C"].mode = "CONT"
      /\ Code[ppc].req \in {"SYSCALL", "SINGLESTEP"} => proc'["C"].mode = Code[ppc].req
  BY <1>1, GoodResume DEF ByTrap
<1>3. proc'["C"].pend = FALSE \/ proc'["C"].pend = proc["C"].pend
  BY <1>1, GoodResume DEF ByTrap
<1>4. test # "t020"
  BY DEF ByTrap, BySignal
<1>5. /\ test = "t018" => LastAt[test] = 4
      /\ test = "t016" => LastAt[test] = 9
      /\ test = "t017" => LastAt[test] = 37
  BY DEF LastAt
<1>6. Code[ppc].req = "KILL" <=> ppc = LastAt[test] /\ test = "t018"
  BY ONLY <1>2, <1>4, <1>5 DEF ResumeOK
<1>7. /\ ppc = LastAt[test] /\ test # "t018" => Code[ppc].req = "CONT"
      /\ ppc # LastAt[test] => \/ test \in {"t006", "t011", "t012", "t017"} /\ ppc = 7 /\ Code[ppc].req = "CONT"
                               \/ test = "t016" /\ ppc = 4 /\ Code[ppc].req = "SYSCALL"
                               \/ test = "t017" /\ ppc \in {11, 16, 21, 26, 31} /\ Code[ppc].req = "SINGLESTEP"
  BY ONLY <1>2, <1>4, <1>5 DEF ResumeOK
<1>. QED  BY ONLY <1>2, <1>3, <1>6, <1>7

\* A statement of P leaves the child where it is expected.
LEMMA StatementAlive ==
  ASSUME TextOK, GoodText, BaseInv, GoodInv, ByTrap, Statement
  PROVE  Alive'
<1>1. /\ ppc \in 1..Len(Code) /\ ppc \in Nat /\ ppc' = ppc + 1 /\ test' = test /\ cpc' = cpc /\ cpc \in Nat
      /\ LastAt[test] \in Nat /\ WaitAt[test] \in Nat /\ SiteAt[test] \in Nat /\ TraceAt[test] \in Nat
      /\ StopAt \in Nat /\ StopAt' \in Nat /\ StopAt' >= StopAt /\ WaitAt[test] < LastAt[test]
      /\ Code[ppc].op # "resume" => StopAt' = StopAt
      /\ Code[ppc].op = "resume" => ppc <= LastAt[test] /\ ppc > WaitAt[test] /\ proc["C"].st = "stop"
  BY StatementNow
<1>2. Code[ppc].op = "resume" => proc'["C"].traced = proc["C"].traced
  BY StatementNow
<1>3. Code[ppc].op # "resume" => Same({"st", "pend", "status", "traced", "mode"})
  BY StatementNow
<1>4. /\ ppc <= LastAt[test] => cpc <= StopAt
      /\ ppc \in 1..LastAt[test] => /\ proc["C"].st \in {"run", "stop"}
                                    /\ proc["C"].st = "stop" => cpc = StopAt /\ proc["C"].status.val = "TRAP"
      /\ ppc > WaitAt[test] => cpc >= SiteAt[test] /\ last.val = "TRAP"
  BY DEF GoodInv, Alive
<1>5. ~proc'["C"].pend
  <2>1. ~proc["C"].pend
    BY DEF GoodInv, Alive
  <2>2. CASE Code[ppc].op = "resume"
    BY <2>1, <2>2, ResumedNow
  <2>3. CASE Code[ppc].op # "resume"
    BY <1>3, <2>1, <2>3 DEF Same
  <2>. QED  BY <2>2, <2>3
<1>6. ppc' <= LastAt[test] => cpc' <= StopAt'
  BY ONLY <1>1, <1>4
<1>7. ppc' \in 1..LastAt[test] => /\ proc'["C"].st \in {"run", "stop"}
                                  /\ proc'["C"].st = "stop" => cpc' = StopAt' /\ proc'["C"].status.val = "TRAP"
  <2>1. CASE Code[ppc].op = "resume"
    <3>1. ppc' \in 1..LastAt[test] => ppc # LastAt[test]
      BY ONLY <1>1
    <3>2. ~(ppc = LastAt[test] /\ test = "t018") => proc'["C"].st = "run"
      BY <2>1, ResumedNow
    <3>. QED  BY ONLY <3>1, <3>2
  <2>2. CASE Code[ppc].op # "resume"
    <3>1. proc'["C"].st = proc["C"].st /\ proc'["C"].status = proc["C"].status
      BY <1>3, <2>2 DEF Same
    <3>. QED  BY ONLY <1>1, <1>4, <2>2, <3>1
  <2>. QED  BY <2>1, <2>2
<1>8. ppc' > WaitAt[test] => cpc' >= SiteAt[test] /\ last'.val = "TRAP"
  <2>1. /\ last' = last \/ (PWait /\ ppc < LastAt[test] /\ proc["C"].st = "stop" /\ last' = proc["C"].status)
        /\ ppc = WaitAt[test] => PWait /\ proc["C"].st = "stop" /\ last' = proc["C"].status
    BY StatementProc DEF ByTrap
  <2>2. ppc <= WaitAt[test] => StopAt = SiteAt[test]
    BY <1>1, StopAtMoves
  <2>. QED  BY ONLY <1>1, <1>4, <2>1, <2>2
<1>9. cpc' > TraceAt[test] => proc'["C"].traced
  <2>1. cpc > TraceAt[test] => proc["C"].traced
    BY DEF GoodInv, Alive
  <2>2. proc'["C"].traced = proc["C"].traced
    BY <1>2, <1>3 DEF Same
  <2>. QED  BY <1>1, <2>1, <2>2
<1>. QED  BY <1>1, <1>5, <1>6, <1>7, <1>8, <1>9 DEF Alive

\* A statement of P resumes the child in the way the test wants.
LEMMA StatementStepping ==
  ASSUME TextOK, GoodText, BaseInv, GoodInv, ByTrap, Statement
  PROVE  Stepping'
<1>1. /\ ppc \in 1..Len(Code) /\ ppc \in Nat /\ ppc' = ppc + 1 /\ test' = test /\ cpc' = cpc /\ cpc \in Nat
      /\ LastAt[test] \in Nat /\ StopAt \in Nat /\ StopAt' \in Nat
      /\ Code[ppc].op # "resume" => StopAt' = StopAt
      /\ Code[ppc].op = "resume" => ppc <= LastAt[test] /\ proc["C"].st = "stop"
  BY StatementNow
<1>2. /\ proc["C"].mode = IF test = "t016" /\ ppc \in 5..LastAt[test] THEN "SYSCALL"
                          ELSE IF test = "t017" /\ ppc \in 12..LastAt[test] THEN "SINGLESTEP" ELSE "CONT"
      /\ proc["C"].mode = "SYSCALL" /\ proc["C"].st = "run" => cpc <= 3
      /\ proc["C"].mode = "SINGLESTEP" /\ proc["C"].st = "run" => cpc = StopAt - 1
  BY DEF GoodInv, Stepping
<1>3. GoodStmt(ppc)
  BY <1>1 DEF GoodText
<1>4. /\ test = "t016" => LastAt[test] = 9
      /\ test = "t017" => LastAt[test] = 37
      /\ test = "t018" => LastAt[test] = 4
  BY DEF LastAt
<1>5. CASE Code[ppc].op = "resume"
  <2>1. cpc = StopAt
    BY <1>1, <1>5 DEF GoodInv, Alive
  <2>2. test = "t016" /\ ppc = 4 => StopAt = 2
    BY ONLY <1>1 DEF StopAt
  <2>3. test = "t017" /\ ppc \in {11, 16, 21, 26, 31} => StopAt' = StopAt + 1
    BY <1>1, StopAtMoves
  <2>4. /\ ppc = LastAt[test] /\ test = "t018" => proc'["C"].st = "dead" /\ proc'["C"].mode = proc["C"].mode
        /\ ppc = LastAt[test] /\ test # "t018" => proc'["C"].mode = "CONT"
        /\ ppc # LastAt[test] => \/ test \in {"t006", "t011", "t012", "t017"} /\ ppc = 7 /\ proc'["C"].mode = "CONT"
                                 \/ test = "t016" /\ ppc = 4 /\ proc'["C"].mode = "SYSCALL"
                                 \/ test = "t017" /\ ppc \in {11, 16, 21, 26, 31} /\ proc'["C"].mode = "SINGLESTEP"
    BY <1>5, ResumedNow
  <2>5. /\ proc'["C"].mode = IF test = "t016" /\ ppc' \in 5..LastAt[test] THEN "SYSCALL"
                             ELSE IF test = "t017" /\ ppc' \in 12..LastAt[test] THEN "SINGLESTEP" ELSE "CONT"
        /\ proc'["C"].mode = "SYSCALL" /\ proc'["C"].st = "run" => cpc' <= 3
        /\ proc'["C"].mode = "SINGLESTEP" /\ proc'["C"].st = "run" => cpc' = StopAt' - 1
    <3>1. proc'["C"].mode = IF test = "t016" /\ ppc' \in 5..LastAt[test] THEN "SYSCALL"
                            ELSE IF test = "t017" /\ ppc' \in 12..LastAt[test] THEN "SINGLESTEP" ELSE "CONT"
      BY ONLY <1>1, <1>2, <1>4, <1>5, <2>4
    <3>2. proc'["C"].mode = "SYSCALL" /\ proc'["C"].st = "run" => cpc' <= 3
      BY ONLY <1>1, <1>2, <1>4, <1>5, <2>1, <2>2, <2>4
    <3>3. proc'["C"].mode = "SINGLESTEP" /\ proc'["C"].st = "run" => cpc' = StopAt' - 1
      <4>1. proc'["C"].mode = "SINGLESTEP" /\ proc'["C"].st = "run" => test = "t017" /\ ppc \in {11, 16, 21, 26, 31}
        BY ONLY <2>4
      <4>2. cpc' = StopAt /\ StopAt \in Nat
        BY ONLY <1>1, <2>1
      <4>3. test = "t017" /\ ppc \in {11, 16, 21, 26, 31} => cpc' = StopAt' - 1
        BY ONLY <2>3, <4>2
      <4>. QED  BY ONLY <4>1, <4>3
    <3>. QED  BY ONLY <3>1, <3>2, <3>3
  <2>. QED  BY <1>1, <2>5 DEF Stepping
<1>6. CASE Code[ppc].op # "resume"
  <2>1. proc'["C"].st = proc["C"].st /\ proc'["C"].mode = proc["C"].mode
    BY <1>6, StatementNow DEF Same
  <2>2. ~ResumesAt(ppc)
    BY <1>3, <1>6 DEF GoodStmt
  <2>3. ppc # LastAt[test] /\ (test = "t016" => ppc # 4) /\ (test = "t017" => ppc # 11)
    BY ONLY <2>2 DEF ResumesAt
  <2>4. /\ proc'["C"].mode = IF test = "t016" /\ ppc' \in 5..LastAt[test] THEN "SYSCALL"
                             ELSE IF test = "t017" /\ ppc' \in 12..LastAt[test] THEN "SINGLESTEP" ELSE "CONT"
        /\ proc'["C"].mode = "SYSCALL" /\ proc'["C"].st = "run" => cpc' <= 3
        /\ proc'["C"].mode = "SINGLESTEP" /\ proc'["C"].st = "run" => cpc' = StopAt' - 1
    <3>1. proc'["C"].mode = IF test = "t016" /\ ppc' \in 5..LastAt[test] THEN "SYSCALL"
                            ELSE IF test = "t017" /\ ppc' \in 12..LastAt[test] THEN "SINGLESTEP" ELSE "CONT"
      <4>1. ppc' \in 5..LastAt[test] <=> (ppc \in 5..LastAt[test] \/ (ppc = 4 /\ LastAt[test] >= 5)) /\ ppc # LastAt[test]
        BY ONLY <1>1
      <4>2. ppc' \in 12..LastAt[test] <=> (ppc \in 12..LastAt[test] \/ (ppc = 11 /\ LastAt[test] >= 12)) /\ ppc # LastAt[test]
        BY ONLY <1>1
      <4>. QED  BY ONLY <1>2, <2>1, <2>3, <4>1, <4>2
    <3>2. proc'["C"].mode = "SYSCALL" /\ proc'["C"].st = "run" => cpc' <= 3
      BY ONLY <1>1, <1>2, <1>6, <2>1
    <3>3. proc'["C"].mode = "SINGLESTEP" /\ proc'["C"].st = "run" => cpc' = StopAt' - 1
      BY ONLY <1>1, <1>2, <1>6, <2>1
    <3>. QED  BY ONLY <3>1, <3>2, <3>3
  <2>. QED  BY <1>1, <2>4 DEF Stepping
<1>. QED  BY <1>5, <1>6

\* Once it has let the child go for the last time, P does nothing to it.
LEMMA StatementGone ==
  ASSUME TextOK, GoodText, BaseInv, GoodInv, Fine, Statement
  PROVE  Gone'
<1>1. ppc \in 1..Len(Code) /\ ppc' = ppc + 1 /\ test' = test
  BY Forward, StatementKeeps
<1>2. GoodStmt(ppc) /\ ppc \in Nat /\ LastAt[test] \in Nat
  BY <1>1 DEF GoodText
<1>3. SUFFICES ASSUME ppc' > LastAt[test]
               PROVE  /\ proc'["C"].st \in {"run", "dead"}
                      /\ proc'["C"].st = "run" => test # "t018" /\ ~proc'["C"].pend /\ proc'["C"].mode = "CONT"
                      /\ proc'["C"].st = "dead" => proc'["C"].status = IF test = "t018" THEN [kind |-> "sig", val |-> "KILL"]
                                                                       ELSE [kind |-> "exit", val |-> "0"]
  BY <1>1 DEF Gone
<1>4. CASE ppc > LastAt[test]
  <2>1. Code[ppc].op = "ok"
    BY <1>2, <1>4 DEF GoodStmt
  <2>2. proc' = proc
    BY <2>1, StatementKeeps DEF PWait, PResume, PAttach, PKill, At
  <2>. QED  BY <1>4, <2>2 DEF GoodInv, Gone
<1>5. CASE ppc = LastAt[test]
  <2>1. Code[ppc].op = "resume"
    BY <1>2, <1>5 DEF GoodStmt, ResumesAt
  <2>2. PResume
    BY <2>1, StatementIs
  <2>3. Held /\ ResumeOK(ppc)
    BY <2>2, GoodResume
  <2>4. /\ test = "t006" => LastAt[test] = 14
        /\ test = "t011" => LastAt[test] = 17
        /\ test = "t012" => LastAt[test] = 15
        /\ test = "t016" => LastAt[test] = 9
        /\ test = "t017" => LastAt[test] = 37
    BY DEF LastAt
  <2>5. Code[ppc].req = IF test = "t018" THEN "KILL" ELSE IF test = "t020" THEN "DETACH" ELSE "CONT"
    BY ONLY <1>5, <2>3, <2>4 DEF ResumeOK
  <2>6. /\ Code[ppc].req = "KILL" => proc'["C"].st = "dead" /\ proc'["C"].status = [kind |-> "sig", val |-> "KILL"]
        /\ Code[ppc].req # "KILL" => proc'["C"].st = "run"
        /\ Code[ppc].req \in {"CONT", "DETACH"} => proc'["C"].mode = "CONT"
    BY <2>2, GoodResume
  <2>7. Code[ppc].req # "KILL" => proc'["C"].pend = proc["C"].pend
    BY <2>2, GoodResume
  <2>8. ~proc["C"].pend
    BY <2>3 DEF Held, GoodInv, Alive, Signalled, ByTrap
  <2>9. Code[ppc].req # "KILL" => ~proc'["C"].pend
    BY ONLY <2>7, <2>8
  <2>. QED  BY ONLY <2>5, <2>6, <2>9
<1>. QED  BY <1>1, <1>2, <1>3, <1>4, <1>5

\* Where P writes into which cell.
WritesTo(c) ==
  \/ c = "site1" /\ ppc = WaitAt[test] + 2
  \/ c = "t" /\ \/ test \in {"t006", "t017"} /\ ppc = 6
                \/ test = "t006" /\ ppc = 12
                \/ test = "t017" /\ ppc = 10
  \/ c = "dev" /\ test = "t021" /\ ppc = 6
  \/ c = "buf" /\ test = "t005" /\ ppc = 4
  \/ c = "hwwatch" /\ test = "t011" /\ ppc \in {6, 15}
  \/ c = "hwbrk" /\ test = "t012" /\ ppc \in {6, 13}
  \/ c = "options"
  \/ test = "t010" /\ \/ c = "greg" /\ ppc = 6
                      \/ c = "freg" /\ ppc = 8
                      \/ c = "tls" /\ ppc \in {10, 13}
                      \/ c = "sysno" /\ ppc \in {15, 18}
                      \/ c = "regno0" /\ ppc = 19
                      \/ c = "regno1" /\ ppc = 20

\* A statement writes nowhere else.
LEMMA Untouched ==
  ASSUME TextOK, GoodText, BaseInv, GoodInv, Fine, Statement, NEW c \in Cell, ~WritesTo(c)
  PROVE  mem'[c] = mem[c]
<1>1. ppc \in 1..Len(Code)
  BY Forward
<1>2. GoodStmt(ppc)
  BY <1>1 DEF GoodText
<1>3. CASE ~PSet
  BY <1>3, StatementKeeps
<1>4. CASE PSet
  <2>1. Code[ppc].op = "set"
    BY <1>4 DEF PSet, At
  <2>2. SetOK(ppc)
    BY <1>2, <2>1 DEF GoodStmt
  <2>3. PICK w : w = Value(Code[ppc].at)
    OBVIOUS
  <2>4. /\ Code[ppc].at = "brk_addr" => w = "site1"
        /\ Code[ppc].at = "read_val" => w = "t"
        /\ Code[ppc].at = "devmap" => w = "dev"
        /\ Code[ppc].at \notin {"brk_addr", "read_val", "devmap"} => w = Code[ppc].at
    BY <1>1, <2>1, <2>3, Where
  <2>5. w # c
    BY ONLY <2>2, <2>4, ~WritesTo(c) DEF SetOK, WritesTo
  <2>6. mem' = [mem EXCEPT ![w] = Value(Code[ppc].val)]
    BY <1>4, <2>3, GoodSet
  <2>7. DOMAIN mem = Cell
    BY DEF BaseInv, Shape
  <2>. QED  BY ONLY <2>5, <2>6, <2>7, c \in Cell
<1>. QED  BY <1>3, <1>4

\* What a statement that writes leaves in the cell.
LEMMA Lands ==
  ASSUME TextOK, GoodText, BaseInv, GoodInv, Fine, Statement, NEW at, NEW val, SetsAt(ppc, at, val)
  PROVE  /\ at \in Cell => mem'[at] = Value(val)
         /\ at = "brk_addr" => mem'["site1"] = Value(val)
         /\ at = "read_val" => mem'["t"] = Value(val)
         /\ at = "devmap" => mem'["dev"] = Value(val)
<1>1. ppc \in 1..Len(Code) /\ Code[ppc].op = "set" /\ Code[ppc].at = at /\ Code[ppc].val = val
  BY Forward DEF SetsAt
<1>2. mem' = [mem EXCEPT ![Value(at)] = Value(val)]
  BY <1>1, StatementIs, GoodSet
<1>3. PICK w : w = Value(at)
  OBVIOUS
<1>4. /\ at = "brk_addr" => w = "site1"
      /\ at = "read_val" => w = "t"
      /\ at = "devmap" => w = "dev"
      /\ at \notin {"brk_addr", "read_val", "devmap"} => w = at
      /\ w \in Cell
  BY <1>1, <1>3, Where
<1>5. DOMAIN mem = Cell
  BY DEF BaseInv, Shape
<1>6. mem'[w] = Value(val)
  BY ONLY <1>2, <1>3, <1>4, <1>5
<1>7. at \in Cell => at \notin {"brk_addr", "read_val", "devmap"}
  BY ONLY TRUE DEF Cell
<1>. QED  BY ONLY <1>4, <1>6, <1>7

\* What the requests of the tests write.
LEMMA Written ==
  ASSUME TextOK, GoodText, BaseInv, GoodInv, Fine, Statement
  PROVE  /\ test \notin BySignal /\ ppc = WaitAt[test] + 2 => mem'["site1"] = "nop"
         /\ test \in {"t006", "t017"} /\ ppc = 6 => mem'["t"] = "brk"
         /\ test = "t006" /\ ppc = 12 => mem'["t"] = "nop"
         /\ test = "t017" /\ ppc = 10 => mem'["t"] = "nop"
         /\ test = "t011" => (ppc = 6 => mem'["hwwatch"] = "buf") /\ (ppc = 15 => mem'["hwwatch"] = "none")
         /\ test = "t012" => (ppc = 6 => mem'["hwbrk"] = "t") /\ (ppc = 13 => mem'["hwbrk"] = "none")
         /\ test = "t005" /\ ppc = 4 => mem'["buf"] = "PARENT_MAGIC"
         /\ test = "t021" /\ ppc = 6 => mem'["dev"] = "0xFFFFFFFF"
<1>1. ppc \in 1..Len(Code)
  BY Forward
<1>2. Writes(ppc)
  BY <1>1 DEF GoodText, GoodStmt
<1>3. \A x : x \notin Reg => Value(x) = x
  BY DEF Value
<1>4. Value("inst_val") = reg["inst_val"] /\ Value("inst") = reg["inst"]
  BY DEF Value, Reg
<1>5. "nop" \notin Reg /\ "brk" \notin Reg /\ "buf" \notin Reg /\ "none" \notin Reg /\ "PARENT_MAGIC" \notin Reg /\ "0xFFFFFFFF" \notin Reg
  BY ONLY TRUE DEF Reg
<1>6. ("hwwatch" \in Cell) /\ ("hwbrk" \in Cell) /\ ("buf" \in Cell)
  BY ONLY TRUE DEF Cell
<1>7. /\ test = "t006" /\ ppc = 12 => reg["inst_val"] = "nop"
      /\ test = "t017" /\ ppc = 10 => reg["inst_val"] = "nop"
      /\ test = "t012" /\ ppc = 6 => reg["inst"] = "t"
  <2>1. (test = "t006" => LastAt[test] = 14) /\ (test = "t017" => LastAt[test] = 37) /\ (test = "t012" => LastAt[test] = 15)
    BY DEF LastAt
  <2>2. /\ test \in {"t006", "t017"} /\ ppc \in 6..LastAt[test] => reg["inst_val"] = "nop"
        /\ test \in {"t011", "t012"} /\ ppc \in 5..LastAt[test] => reg["inst"] = "t"
    BY DEF GoodInv, Seen
  <2>. QED  BY ONLY <2>1, <2>2
<1>8. test \notin BySignal /\ ppc = WaitAt[test] + 2 => mem'["site1"] = "nop"
  BY <1>2, <1>3, <1>5, Lands DEF Writes
<1>9. test \in {"t006", "t017"} /\ ppc = 6 => mem'["t"] = "brk"
  BY <1>2, <1>3, <1>5, Lands DEF Writes
<1>10. (test = "t006" /\ ppc = 12) \/ (test = "t017" /\ ppc = 10) => mem'["t"] = "nop"
  BY <1>2, <1>4, <1>7, Lands DEF Writes
<1>11. test = "t011" => (ppc = 6 => mem'["hwwatch"] = "buf") /\ (ppc = 15 => mem'["hwwatch"] = "none")
  BY <1>2, <1>3, <1>5, <1>6, Lands DEF Writes
<1>12. test = "t012" => (ppc = 6 => mem'["hwbrk"] = "t") /\ (ppc = 13 => mem'["hwbrk"] = "none")
  BY <1>2, <1>3, <1>4, <1>5, <1>6, <1>7, Lands DEF Writes
<1>13. test = "t005" /\ ppc = 4 => mem'["buf"] = "PARENT_MAGIC"
  BY <1>2, <1>3, <1>5, <1>6, Lands DEF Writes
<1>14. test = "t021" /\ ppc = 6 => mem'["dev"] = "0xFFFFFFFF"
  BY <1>2, <1>3, <1>5, Lands DEF Writes
<1>. QED  BY ONLY <1>8, <1>9, <1>10, <1>11, <1>12, <1>13, <1>14

\* What 010 writes.
LEMMA Written010 ==
  ASSUME TextOK, GoodText, BaseInv, GoodInv, Fine, Statement, test = "t010"
  PROVE  /\ ppc = 6 => mem'["greg"] = "magic"
         /\ ppc = 8 => mem'["freg"] = "magic"
         /\ ppc = 10 => mem'["tls"] = "write_tls_val"
         /\ ppc = 15 => mem'["sysno"] = "write_sysno"
         /\ ppc = 19 => mem'["regno0"] = "regno"
         /\ ppc = 20 => mem'["regno1"] = "regno"
<1>1. ppc \in 1..Len(Code)
  BY Forward
<1>2. Writes(ppc)
  BY <1>1 DEF GoodText, GoodStmt
<1>3. \A x : x \notin Reg => Value(x) = x
  BY DEF Value
<1>4. "magic" \notin Reg /\ "write_tls_val" \notin Reg /\ "write_sysno" \notin Reg /\ "regno" \notin Reg
  BY ONLY TRUE DEF Reg
<1>5. ("greg" \in Cell) /\ ("freg" \in Cell) /\ ("tls" \in Cell) /\ ("sysno" \in Cell) /\ ("regno0" \in Cell) /\ ("regno1" \in Cell)
  BY ONLY TRUE DEF Cell
<1>6. (ppc = 6 => mem'["greg"] = "magic") /\ (ppc = 8 => mem'["freg"] = "magic")
  BY <1>2, <1>3, <1>4, <1>5, Lands DEF Writes
<1>7. (ppc = 10 => mem'["tls"] = "write_tls_val") /\ (ppc = 15 => mem'["sysno"] = "write_sysno")
  BY <1>2, <1>3, <1>4, <1>5, Lands DEF Writes
<1>8. (ppc = 19 => mem'["regno0"] = "regno") /\ (ppc = 20 => mem'["regno1"] = "regno")
  BY <1>2, <1>3, <1>4, <1>5, Lands DEF Writes
<1>. QED  BY ONLY <1>6, <1>7, <1>8

\* A statement sets and clears the traps at the places of Armed.
LEMMA StatementTraps ==
  ASSUME TextOK, GoodText, BaseInv, GoodInv, ByTrap, Statement
  PROVE  Traps'
<1>1. /\ ppc \in Nat /\ ppc' = ppc + 1 /\ test' = test /\ WaitAt[test] \in Nat
  BY StatementNow
<1>2. /\ mem["site1"] = IF ppc <= WaitAt[test] + 2 THEN "brk" ELSE "nop"
      /\ mem["t"] = IF test \in {"t006", "t017"} /\ ppc \in Armed THEN "brk" ELSE "nop"
      /\ mem["hwbrk"] = IF test = "t012" /\ ppc \in Armed THEN "t" ELSE "none"
      /\ mem["hwwatch"] = IF test = "t011" /\ ppc \in Armed THEN "buf" ELSE "none"
  BY DEF GoodInv, Traps
<1>3. Armed' = Armed
  BY <1>1 DEF Armed
<1>4. /\ test = "t006" => Armed = 7..12
      /\ test = "t011" => Armed = 7..15
      /\ test = "t012" => Armed = 7..13
      /\ test = "t017" => Armed = 7..10
  BY DEF Armed
<1>5. \A c \in Cell : mem'[c] = mem[c] \/ WritesTo(c)
  BY Untouched DEF ByTrap
<1>6. test \notin BySignal
  BY DEF ByTrap
<1>7. /\ ppc = WaitAt[test] + 2 => mem'["site1"] = "nop"
      /\ test \in {"t006", "t017"} /\ ppc = 6 => mem'["t"] = "brk"
      /\ test = "t006" /\ ppc = 12 => mem'["t"] = "nop"
      /\ test = "t017" /\ ppc = 10 => mem'["t"] = "nop"
      /\ test = "t011" => (ppc = 6 => mem'["hwwatch"] = "buf") /\ (ppc = 15 => mem'["hwwatch"] = "none")
      /\ test = "t012" => (ppc = 6 => mem'["hwbrk"] = "t") /\ (ppc = 13 => mem'["hwbrk"] = "none")
  BY <1>6, Written DEF ByTrap
<1>8. mem'["site1"] = IF ppc' <= WaitAt[test] + 2 THEN "brk" ELSE "nop"
  <2>1. mem'["site1"] = mem["site1"] \/ ppc = WaitAt[test] + 2
    BY ONLY <1>5 DEF Cell, WritesTo
  <2>. QED  BY ONLY <1>1, <1>2, <1>7, <2>1
<1>9. mem'["t"] = IF test \in {"t006", "t017"} /\ ppc' \in Armed THEN "brk" ELSE "nop"
  <2>1. \/ mem'["t"] = mem["t"] /\ (test = "t006" => ppc \notin {6, 12}) /\ (test = "t017" => ppc \notin {6, 10})
        \/ test = "t006" /\ ppc \in {6, 12}
        \/ test = "t017" /\ ppc \in {6, 10}
    BY ONLY <1>5 DEF Cell, WritesTo
  <2>2. CASE test = "t006"
    BY ONLY <1>1, <1>2, <1>4, <1>7, <2>1, <2>2
  <2>3. CASE test = "t017"
    BY ONLY <1>1, <1>2, <1>4, <1>7, <2>1, <2>3
  <2>. QED  BY ONLY <1>2, <2>1, <2>2, <2>3
<1>10. mem'["hwbrk"] = IF test = "t012" /\ ppc' \in Armed THEN "t" ELSE "none"
  <2>1. \/ mem'["hwbrk"] = mem["hwbrk"] /\ (test = "t012" => ppc \notin {6, 13})
        \/ (test = "t012" /\ ppc \in {6, 13})
    BY ONLY <1>5 DEF Cell, WritesTo
  <2>. QED  BY ONLY <1>1, <1>2, <1>4, <1>7, <2>1
<1>11. mem'["hwwatch"] = IF test = "t011" /\ ppc' \in Armed THEN "buf" ELSE "none"
  <2>1. \/ mem'["hwwatch"] = mem["hwwatch"] /\ (test = "t011" => ppc \notin {6, 15})
        \/ (test = "t011" /\ ppc \in {6, 15})
    BY ONLY <1>5 DEF Cell, WritesTo
  <2>. QED  BY ONLY <1>1, <1>2, <1>4, <1>7, <2>1
<1>. QED  BY <1>1, <1>3, <1>8, <1>9, <1>10, <1>11 DEF Traps

\* A stop that P leaves was there before.
LEMMA StillStopped ==
  ASSUME TextOK, GoodText, BaseInv, GoodInv, Fine, Statement, proc'["C"].st = "stop"
  PROVE  proc["C"].st = "stop" /\ Code[ppc].op # "resume"
<1>1. CASE Code[ppc].op = "resume"
  BY <1>1, StatementIs, GoodResume
<1>2. CASE PAttach \/ PKill
  <2>1. proc'["C"].st = proc["C"].st
    BY <1>2, GoodAttach, GoodKill DEF BaseInv, Shape, Fields
  <2>. QED  BY <1>2, <2>1 DEF PAttach, PKill, At
<1>3. CASE Code[ppc].op # "resume" /\ ~(PAttach \/ PKill)
  BY <1>3, StatementProc DEF Same
<1>. QED  BY <1>1, <1>2, <1>3

\* What a statement does to the child's data.
LEMMA StatementData ==
  ASSUME TextOK, GoodText, BaseInv, GoodInv, Fine, Statement
  PROVE  Data'
<1>1. ppc \in 1..Len(Code) /\ ppc' = ppc + 1 /\ test' = test /\ cpc' = cpc
  BY Forward, StatementKeeps
<1>2. GoodStmt(ppc) /\ ppc \in Nat /\ FirstAt[test] \in Nat /\ LastAt[test] \in Nat /\ WaitAt[test] \in Nat
      /\ WaitAt[test] < FirstAt[test] /\ FirstAt[test] <= LastAt[test]
  BY <1>1 DEF GoodText
<1>3. \A c \in Cell : mem'[c] = mem[c] \/ WritesTo(c)
  BY Untouched
<1>4. /\ mem'["inst_addr"] = mem["inst_addr"]
      /\ mem'["addr"] = mem["addr"]
      /\ mem'["buf"] = mem["buf"] \/ (test = "t005" /\ ppc = 4)
      /\ mem'["sysno"] = mem["sysno"] \/ test = "t010"
      /\ mem'["dev"] = mem["dev"] \/ (test = "t021" /\ ppc = 6)
  BY ONLY <1>3 DEF Cell, WritesTo
<1>5. /\ test \notin BySignal /\ ppc \in 1..FirstAt[test] /\ proc["C"].st = "stop" => mem["inst_addr"] = "site1"
      /\ test = "t002" /\ cpc > 2 => mem["buf"] = "CHILD_MAGIC"
      /\ test = "t005" /\ ppc > 4 => mem["buf"] = "PARENT_MAGIC"
      /\ test \in {"t003", "t006", "t011", "t012", "t017"} /\ cpc > 2 => mem["addr"] = "t"
      /\ test = "t016" /\ ppc \in 5..LastAt[test] /\ proc["C"].st = "stop" => mem["sysno"] = "getpid"
      /\ test = "t021" /\ ppc > 6 => mem["dev"] = "0xFFFFFFFF"
  BY DEF GoodInv, Data
<1>6. /\ test = "t005" /\ ppc = 4 => mem'["buf"] = "PARENT_MAGIC"
      /\ test = "t021" /\ ppc = 6 => mem'["dev"] = "0xFFFFFFFF"
  BY Written
<1>7. proc'["C"].st = "stop" => proc["C"].st = "stop" /\ ~ResumesAt(ppc)
  BY <1>2, StillStopped DEF GoodStmt
<1>8. test = "t016" => ResumesAt(4)
  BY DEF ResumesAt
<1>9. test \notin BySignal /\ ppc' \in 1..FirstAt[test] /\ proc'["C"].st = "stop" => mem'["inst_addr"] = "site1"
  BY ONLY <1>1, <1>2, <1>4, <1>5, <1>7
<1>10. /\ test = "t002" /\ cpc' > 2 => mem'["buf"] = "CHILD_MAGIC"
       /\ test = "t005" /\ ppc' > 4 => mem'["buf"] = "PARENT_MAGIC"
       /\ test \in {"t003", "t006", "t011", "t012", "t017"} /\ cpc' > 2 => mem'["addr"] = "t"
       /\ test = "t021" /\ ppc' > 6 => mem'["dev"] = "0xFFFFFFFF"
  BY ONLY <1>1, <1>2, <1>4, <1>5, <1>6
<1>11. test = "t016" /\ ppc' \in 5..LastAt[test] /\ proc'["C"].st = "stop" => mem'["sysno"] = "getpid"
  BY ONLY <1>1, <1>2, <1>4, <1>5, <1>7, <1>8
<1>. QED  BY <1>1, <1>9, <1>10, <1>11 DEF Data

\* What a statement of 010 does to the registers.
LEMMA StatementData010 ==
  ASSUME TextOK, GoodText, BaseInv, GoodInv, Fine, Statement
  PROVE  Data010'
<1>1. ppc \in 1..Len(Code) /\ ppc' = ppc + 1 /\ test' = test /\ cpc' = cpc /\ ppc \in Nat
  BY Forward, StatementKeeps DEF GoodText
<1>2. SUFFICES ASSUME test = "t010"
               PROVE  Data010'
  BY <1>1 DEF Data010
<1>3. \A c \in Cell : mem'[c] = mem[c] \/ WritesTo(c)
  BY Untouched
<1>4. /\ mem'["greg"] = mem["greg"] \/ ppc = 6
      /\ mem'["freg"] = mem["freg"] \/ ppc = 8
      /\ mem'["tls"] = mem["tls"] \/ ppc \in {10, 13}
      /\ mem'["sysno"] = mem["sysno"] \/ ppc \in {15, 18}
      /\ mem'["regno0"] = mem["regno0"] \/ ppc = 19
      /\ mem'["regno1"] = mem["regno1"] \/ ppc = 20
  BY ONLY <1>3 DEF Cell, WritesTo
<1>5. /\ cpc > 2 /\ ppc <= 6 => mem["greg"] = "index"
      /\ ppc > 6 => mem["greg"] = "magic"
      /\ ppc > 8 => mem["freg"] = "magic"
      /\ ppc \in 11..13 => mem["tls"] = "write_tls_val"
      /\ ppc \in 16..18 => mem["sysno"] = "write_sysno"
      /\ ppc > 19 => mem["regno0"] = "regno"
      /\ ppc > 20 => mem["regno1"] = "regno"
  BY <1>2 DEF GoodInv, Data010
<1>6. /\ ppc = 6 => mem'["greg"] = "magic"
      /\ ppc = 8 => mem'["freg"] = "magic"
      /\ ppc = 10 => mem'["tls"] = "write_tls_val"
      /\ ppc = 15 => mem'["sysno"] = "write_sysno"
      /\ ppc = 19 => mem'["regno0"] = "regno"
      /\ ppc = 20 => mem'["regno1"] = "regno"
  BY <1>2, Written010
<1>7. /\ cpc' > 2 /\ ppc' <= 6 => mem'["greg"] = "index"
      /\ ppc' > 6 => mem'["greg"] = "magic"
      /\ ppc' > 8 => mem'["freg"] = "magic"
  BY ONLY <1>1, <1>4, <1>5, <1>6
<1>8. /\ ppc' \in 11..13 => mem'["tls"] = "write_tls_val"
      /\ ppc' \in 16..18 => mem'["sysno"] = "write_sysno"
  BY ONLY <1>1, <1>4, <1>5, <1>6
<1>9. /\ ppc' > 19 => mem'["regno0"] = "regno"
      /\ ppc' > 20 => mem'["regno1"] = "regno"
  BY ONLY <1>1, <1>4, <1>5, <1>6
<1>. QED  BY <1>1, <1>7, <1>8, <1>9 DEF Data010

\* What a request that reads gives to P, and where the child is at that time.
LEMMA Fetched ==
  ASSUME TextOK, GoodText, BaseInv, GoodInv, Fine, Statement, NEW at, NEW to \in Reg, GetsAt(ppc, at, to)
  PROVE  /\ at \in Cell \ {"pc"} => reg'[to] = mem[at]
         /\ at = "pc" => reg'[to] = CCode[cpc].at
         /\ at = "read_val" => reg'[to] = mem["t"]
         /\ proc["C"].st = "stop" /\ ppc <= LastAt[test] /\ ppc > WaitAt[test] /\ ppc \in 1..LastAt[test]
<1>1. ppc \in 1..Len(Code) /\ Code[ppc].op = "get" /\ Code[ppc].at = at /\ Code[ppc].to = to
  BY Forward DEF GetsAt
<1>2. PGet
  BY <1>1, StatementIs
<1>3. reg' = [reg EXCEPT ![to] = Read(Value(at))]
  BY <1>1, <1>2, GoodGet
<1>4. DOMAIN reg = Reg
  BY DEF BaseInv, Shape
<1>5. reg'[to] = Read(Value(at))
  BY ONLY <1>3, <1>4, to \in Reg
<1>6. /\ at = "read_val" => Value(at) = "t"
      /\ at \notin {"brk_addr", "read_val", "devmap"} => Value(at) = at
  BY <1>1, Where
<1>7. at \in Cell => at \notin {"brk_addr", "read_val", "devmap"}
  BY ONLY TRUE DEF Cell
<1>8. ppc \in H /\ Held /\ ppc <= LastAt[test]
  BY <1>1, RequestHeld DEF GoodInv, Requests
<1>9. ppc > WaitAt[test]
  BY <1>8 DEF TextOK
<1>. QED  BY <1>1, <1>5, <1>6, <1>7, <1>8, <1>9 DEF Read, Held, GoodText

\* A variable that a statement does not name as its target stays.
LEMMA Unread ==
  ASSUME TextOK, GoodText, BaseInv, GoodInv, Fine, Statement, NEW r \in Reg,
         Code[ppc].op = "get" => Code[ppc].to # r, r = "devmap" => ~(test = "t021" /\ ppc = 2)
  PROVE  reg'[r] = reg[r]
<1>1. ppc \in 1..Len(Code)
  BY Forward
<1>2. GoodStmt(ppc)
  BY <1>1 DEF GoodText
<1>3. DOMAIN reg = Reg
  BY DEF BaseInv, Shape
<1>4. CASE PGet
  <2>1. Code[ppc].op = "get" /\ reg' = [reg EXCEPT ![Code[ppc].to] = Read(Value(Code[ppc].at))]
    BY <1>4, GoodGet DEF PGet, At
  <2>. QED  BY <2>1, <1>3
<1>5. CASE PRead
  <2>1. reg' = [reg EXCEPT !["devmap"] = "dev"]
    BY <1>5, GoodRead
  <2>2. test = "t021" /\ ppc = 2
    BY <1>2, <1>5 DEF PRead, At, GoodStmt
  <2>. QED  BY <2>1, <2>2, <1>3
<1>6. CASE ~PGet /\ ~PRead
  BY <1>6, StatementKeeps
<1>. QED  BY <1>4, <1>5, <1>6

\* Which variables may change where.
LEMMA ReadWhere ==
  ASSUME TextOK, GoodText, BaseInv, GoodInv, Fine, Statement
  PROVE  /\ test \in {"t003", "t006", "t017"} => reg'["read_val"] = reg["read_val"] \/ ppc = 4
         /\ test \in {"t006", "t017"} => reg'["inst_val"] = reg["inst_val"] \/ ppc = 5
         /\ test \in {"t011", "t012"} => reg'["inst"] = reg["inst"] \/ ppc = 4
         /\ test = "t021" => reg'["devmap"] = reg["devmap"] \/ ppc = 2
         /\ test = "t021" /\ ppc = 2 => reg'["devmap"] = "dev"
<1>1. ppc \in 1..Len(Code)
  BY Forward
<1>2. GoodStmt(ppc) /\ StmtOK(ppc) /\ WaitAt[test] \in Nat
  BY <1>1 DEF GoodText, TextOK
<1>3. Code[ppc].op = "get" => GetOK(ppc) /\ Code[ppc].to # "devmap"
  BY <1>2 DEF GoodStmt, StmtOK
<1>4. /\ Code[ppc].op = "get" /\ test \in {"t003", "t006", "t017"} /\ Code[ppc].to = "read_val" => ppc = 4
      /\ Code[ppc].op = "get" /\ test \in {"t006", "t017"} /\ Code[ppc].to = "inst_val" => ppc = 5
      /\ Code[ppc].op = "get" /\ test \in {"t011", "t012"} /\ Code[ppc].to = "inst" => ppc = 4
  BY ONLY <1>3 DEF GetOK
<1>5. ("read_val" \in Reg) /\ ("inst_val" \in Reg) /\ ("inst" \in Reg) /\ ("devmap" \in Reg)
  BY ONLY TRUE DEF Reg
<1>6. test = "t021" /\ ppc = 2 => reg'["devmap"] = "dev"
  <2>1. SUFFICES ASSUME test = "t021", ppc = 2
                 PROVE  reg'["devmap"] = "dev"
    OBVIOUS
  <2>2. PRead
    BY <1>2, <2>1, StatementIs DEF GoodStmt
  <2>. QED  BY <2>2, <1>5, GoodRead DEF BaseInv, Shape
<1>7. test \in {"t003", "t006", "t017"} => reg'["read_val"] = reg["read_val"] \/ ppc = 4
  BY <1>4, <1>5, Unread
<1>8. test \in {"t006", "t017"} => reg'["inst_val"] = reg["inst_val"] \/ ppc = 5
  BY <1>4, <1>5, Unread
<1>9. test \in {"t011", "t012"} => reg'["inst"] = reg["inst"] \/ ppc = 4
  BY <1>4, <1>5, Unread
<1>10. test = "t021" => reg'["devmap"] = reg["devmap"] \/ ppc = 2
  BY <1>3, <1>5, Unread
<1>. QED  BY ONLY <1>6, <1>7, <1>8, <1>9, <1>10

\* What the requests of the tests read.
LEMMA Fetches ==
  ASSUME TextOK, GoodText, BaseInv, GoodInv, Fine, Statement
  PROVE  /\ test \notin BySignal /\ ppc = WaitAt[test] + 1 => reg'["brk_addr"] = "site1"
         /\ test = "t002" /\ ppc = 4 => reg'["read_val"] = "CHILD_MAGIC"
         /\ test \in {"t003", "t006", "t017"} /\ ppc = 4 => reg'["read_val"] = "t"
         /\ test = "t003" /\ ppc = 5 => reg'["inst"] = "nop"
         /\ test \in {"t006", "t017"} /\ ppc = 5 => reg'["inst_val"] = "nop"
         /\ test = "t010" => /\ ppc = 4 => reg'["gregs"] = "index"
                             /\ ppc = 11 => reg'["tmp_val"] = "write_tls_val"
                             /\ ppc = 16 => reg'["tmp_val"] = "write_sysno"
         /\ test \in {"t011", "t012"} /\ ppc = 4 => reg'["inst"] = "t"
         /\ test = "t011" /\ ppc = 12 => reg'["gregs_pc"] = "t"
         /\ test = "t016" /\ ppc = 6 => reg'["sysno_val"] = "getpid"
<1>1. ppc \in 1..Len(Code) /\ ppc \in Nat
  BY Forward DEF GoodText
<1>2. Reads(ppc)
  BY <1>1 DEF GoodText, GoodStmt
<1>3. /\ "brk_addr" \in Reg /\ "read_val" \in Reg /\ "inst" \in Reg /\ "inst_val" \in Reg /\ "gregs" \in Reg
      /\ "tmp_val" \in Reg /\ "gregs_pc" \in Reg /\ "sysno_val" \in Reg
  BY ONLY TRUE DEF Reg
<1>4. /\ "inst_addr" \in Cell \ {"pc"} /\ "buf" \in Cell \ {"pc"} /\ "addr" \in Cell \ {"pc"}
      /\ "greg" \in Cell \ {"pc"} /\ "tls" \in Cell \ {"pc"} /\ "sysno" \in Cell \ {"pc"}
  BY ONLY TRUE DEF Cell
<1>5. ASSUME test \notin BySignal, proc["C"].st = "stop", ppc <= LastAt[test], ppc > WaitAt[test], ppc \in 1..LastAt[test]
      PROVE  cpc >= SiteAt[test] /\ cpc = StopAt
  BY <1>5 DEF GoodInv, Alive, ByTrap
<1>6. cpc \in Nat /\ SiteAt[test] \in Nat /\ WaitAt[test] \in Nat /\ FirstAt[test] \in Nat
  BY DEF GoodText, BaseInv, Counters, TextOK
<1>7. /\ test \notin BySignal /\ ppc \in 1..FirstAt[test] /\ proc["C"].st = "stop" => mem["inst_addr"] = "site1"
      /\ test = "t002" /\ cpc > 2 => mem["buf"] = "CHILD_MAGIC"
      /\ test \in {"t003", "t006", "t011", "t012", "t017"} /\ cpc > 2 => mem["addr"] = "t"
      /\ test = "t016" /\ ppc \in 5..LastAt[test] /\ proc["C"].st = "stop" => mem["sysno"] = "getpid"
  BY DEF GoodInv, Data
<1>8. /\ test \in {"t002", "t003", "t006", "t011", "t012", "t017"} => SiteAt[test] = 3 /\ test \notin BySignal
      /\ test = "t010" => SiteAt[test] = 4 /\ test \notin BySignal
      /\ test = "t016" => test \notin BySignal
  BY DEF SiteAt, BySignal
<1>9. test \notin BySignal /\ ppc = WaitAt[test] + 1 => reg'["brk_addr"] = "site1"
  <2>1. SUFFICES ASSUME test \notin BySignal, ppc = WaitAt[test] + 1
                 PROVE  reg'["brk_addr"] = "site1"
    OBVIOUS
  <2>2. GetsAt(ppc, "inst_addr", "brk_addr")
    BY <1>2, <2>1 DEF Reads
  <2>3. reg'["brk_addr"] = mem["inst_addr"] /\ proc["C"].st = "stop"
    BY <1>3, <1>4, <2>2, Fetched
  <2>4. ppc \in 1..FirstAt[test]
    BY <1>1, <1>6, <2>1 DEF GoodText
  <2>. QED  BY ONLY <1>7, <2>1, <2>3, <2>4
<1>10. test = "t002" /\ ppc = 4 => reg'["read_val"] = "CHILD_MAGIC"
  <2>1. SUFFICES ASSUME test = "t002", ppc = 4
                 PROVE  reg'["read_val"] = "CHILD_MAGIC"
    OBVIOUS
  <2>2. GetsAt(ppc, "buf", "read_val")
    BY <1>2, <2>1 DEF Reads
  <2>3. reg'["read_val"] = mem["buf"] /\ cpc >= SiteAt[test]
    BY <1>3, <1>4, <1>5, <1>8, <2>1, <2>2, Fetched
  <2>. QED  BY ONLY <1>6, <1>7, <1>8, <2>1, <2>3
<1>11. test \in {"t003", "t006", "t017"} /\ ppc = 4 => reg'["read_val"] = "t"
  <2>1. SUFFICES ASSUME test \in {"t003", "t006", "t017"}, ppc = 4
                 PROVE  reg'["read_val"] = "t"
    OBVIOUS
  <2>2. GetsAt(ppc, "addr", "read_val")
    BY <1>2, <2>1 DEF Reads
  <2>3. reg'["read_val"] = mem["addr"] /\ cpc >= SiteAt[test]
    BY <1>3, <1>4, <1>5, <1>8, <2>1, <2>2, Fetched
  <2>. QED  BY ONLY <1>6, <1>7, <1>8, <2>1, <2>3
<1>12. /\ test = "t003" /\ ppc = 5 => reg'["inst"] = "nop"
       /\ test \in {"t006", "t017"} /\ ppc = 5 => reg'["inst_val"] = "nop"
  <2>1. SUFFICES ASSUME test \in {"t003", "t006", "t017"}, ppc = 5
                 PROVE  /\ test = "t003" => reg'["inst"] = "nop"
                        /\ test \in {"t006", "t017"} => reg'["inst_val"] = "nop"
    OBVIOUS
  <2>2. /\ test = "t003" => GetsAt(ppc, "read_val", "inst")
        /\ test \in {"t006", "t017"} => GetsAt(ppc, "read_val", "inst_val")
    BY <1>2, <2>1 DEF Reads
  <2>3. (test = "t003" => reg'["inst"] = mem["t"]) /\ (test \in {"t006", "t017"} => reg'["inst_val"] = mem["t"])
    BY <1>3, <2>2, Fetched
  <2>4. ppc \notin Armed
    BY <2>1 DEF Armed
  <2>5. mem["t"] = "nop"
    BY <2>1, <2>4, <1>8 DEF GoodInv, Traps, ByTrap
  <2>. QED  BY ONLY <2>3, <2>5
<1>13. test = "t010" => /\ ppc = 4 => reg'["gregs"] = "index"
                        /\ ppc = 11 => reg'["tmp_val"] = "write_tls_val"
                        /\ ppc = 16 => reg'["tmp_val"] = "write_sysno"
  <2>1. SUFFICES ASSUME test = "t010"
                 PROVE  /\ ppc = 4 => reg'["gregs"] = "index"
                        /\ ppc = 11 => reg'["tmp_val"] = "write_tls_val"
                        /\ ppc = 16 => reg'["tmp_val"] = "write_sysno"
    OBVIOUS
  <2>2. /\ ppc = 4 => GetsAt(ppc, "greg", "gregs")
        /\ ppc = 11 => GetsAt(ppc, "tls", "tmp_val")
        /\ ppc = 16 => GetsAt(ppc, "sysno", "tmp_val")
    BY <1>2, <2>1 DEF Reads
  <2>3. /\ ppc = 4 => reg'["gregs"] = mem["greg"] /\ cpc >= SiteAt[test]
        /\ ppc = 11 => reg'["tmp_val"] = mem["tls"]
        /\ ppc = 16 => reg'["tmp_val"] = mem["sysno"]
    BY <1>3, <1>4, <1>5, <1>8, <2>1, <2>2, Fetched
  <2>4. /\ cpc > 2 /\ ppc <= 6 => mem["greg"] = "index"
        /\ ppc \in 11..13 => mem["tls"] = "write_tls_val"
        /\ ppc \in 16..18 => mem["sysno"] = "write_sysno"
    BY <2>1 DEF GoodInv, Data010
  <2>. QED  BY ONLY <1>1, <1>6, <1>8, <2>1, <2>3, <2>4
<1>14. test \in {"t011", "t012"} /\ ppc = 4 => reg'["inst"] = "t"
  <2>1. SUFFICES ASSUME test \in {"t011", "t012"}, ppc = 4
                 PROVE  reg'["inst"] = "t"
    OBVIOUS
  <2>2. GetsAt(ppc, "addr", "inst")
    BY <1>2, <2>1 DEF Reads
  <2>3. reg'["inst"] = mem["addr"] /\ cpc >= SiteAt[test]
    BY <1>3, <1>4, <1>5, <1>8, <2>1, <2>2, Fetched
  <2>. QED  BY ONLY <1>6, <1>7, <1>8, <2>1, <2>3
<1>15. test = "t011" /\ ppc = 12 => reg'["gregs_pc"] = "t"
  <2>1. SUFFICES ASSUME test = "t011", ppc = 12
                 PROVE  reg'["gregs_pc"] = "t"
    OBVIOUS
  <2>2. GetsAt(ppc, "pc", "gregs_pc")
    BY <1>2, <2>1 DEF Reads
  <2>3. reg'["gregs_pc"] = CCode[cpc].at /\ cpc = StopAt
    BY <1>3, <1>5, <1>8, <2>1, <2>2, Fetched
  <2>4. StopAt = 4
    BY ONLY <2>1 DEF StopAt
  <2>5. CCode[4].at = "t"
    BY <2>1, Text011
  <2>. QED  BY ONLY <2>3, <2>4, <2>5
<1>16. test = "t016" /\ ppc = 6 => reg'["sysno_val"] = "getpid"
  <2>1. SUFFICES ASSUME test = "t016", ppc = 6
                 PROVE  reg'["sysno_val"] = "getpid"
    OBVIOUS
  <2>2. GetsAt(ppc, "sysno", "sysno_val")
    BY <1>2, <2>1 DEF Reads
  <2>3. reg'["sysno_val"] = mem["sysno"] /\ proc["C"].st = "stop"
    BY <1>3, <1>4, <2>2, Fetched
  <2>4. ppc \in 5..LastAt[test]
    BY <2>1 DEF LastAt
  <2>. QED  BY ONLY <1>7, <2>1, <2>3, <2>4
<1>. QED  BY ONLY <1>9, <1>10, <1>11, <1>12, <1>13, <1>14, <1>15, <1>16

\* A statement reads what Seen says.
LEMMA StatementSeen ==
  ASSUME TextOK, GoodText, BaseInv, GoodInv, Fine, Statement
  PROVE  Seen'
<1>1. ppc \in 1..Len(Code) /\ ppc' = ppc + 1 /\ test' = test /\ ppc \in Nat /\ WaitAt[test] \in Nat /\ LastAt[test] \in Nat
  BY Forward, StatementKeeps DEF GoodText
<1>2. /\ test \in {"t003", "t006", "t017"} /\ ppc \in 5..LastAt[test] => reg["read_val"] = "t"
      /\ test \in {"t006", "t017"} /\ ppc \in 6..LastAt[test] => reg["inst_val"] = "nop"
      /\ test \in {"t011", "t012"} /\ ppc \in 5..LastAt[test] => reg["inst"] = "t"
      /\ test = "t021" /\ ppc \in 3..LastAt[test] => reg["devmap"] = "dev"
  BY DEF GoodInv, Seen
<1>3. /\ test \in {"t003", "t006", "t017"} => reg'["read_val"] = reg["read_val"] \/ ppc = 4
      /\ test \in {"t006", "t017"} => reg'["inst_val"] = reg["inst_val"] \/ ppc = 5
      /\ test \in {"t011", "t012"} => reg'["inst"] = reg["inst"] \/ ppc = 4
      /\ test = "t021" => reg'["devmap"] = reg["devmap"] \/ ppc = 2
      /\ test = "t021" /\ ppc = 2 => reg'["devmap"] = "dev"
  BY ReadWhere
<1>4. /\ test \notin BySignal /\ ppc = WaitAt[test] + 1 => reg'["brk_addr"] = "site1"
      /\ test = "t002" /\ ppc = 4 => reg'["read_val"] = "CHILD_MAGIC"
      /\ test \in {"t003", "t006", "t017"} /\ ppc = 4 => reg'["read_val"] = "t"
      /\ test = "t003" /\ ppc = 5 => reg'["inst"] = "nop"
      /\ test \in {"t006", "t017"} /\ ppc = 5 => reg'["inst_val"] = "nop"
      /\ test = "t010" => /\ ppc = 4 => reg'["gregs"] = "index"
                          /\ ppc = 11 => reg'["tmp_val"] = "write_tls_val"
                          /\ ppc = 16 => reg'["tmp_val"] = "write_sysno"
      /\ test \in {"t011", "t012"} /\ ppc = 4 => reg'["inst"] = "t"
      /\ test = "t011" /\ ppc = 12 => reg'["gregs_pc"] = "t"
      /\ test = "t016" /\ ppc = 6 => reg'["sysno_val"] = "getpid"
  BY Fetches
<1>5. /\ test \in {"t003", "t006", "t017"} /\ ppc' \in 5..LastAt[test] => reg'["read_val"] = "t"
      /\ test \in {"t006", "t017"} /\ ppc' \in 6..LastAt[test] => reg'["inst_val"] = "nop"
      /\ test \in {"t011", "t012"} /\ ppc' \in 5..LastAt[test] => reg'["inst"] = "t"
      /\ test = "t021" /\ ppc' \in 3..LastAt[test] => reg'["devmap"] = "dev"
  BY ONLY <1>1, <1>2, <1>3, <1>4
<1>6. /\ test \notin BySignal /\ ppc' = WaitAt[test] + 2 => reg'["brk_addr"] = "site1"
      /\ test = "t002" /\ ppc' = 5 => reg'["read_val"] = "CHILD_MAGIC"
      /\ test = "t003" /\ ppc' = 6 => reg'["inst"] = "nop"
      /\ test = "t010" => /\ ppc' = 5 => reg'["gregs"] = "index"
                          /\ ppc' = 12 => reg'["tmp_val"] = "write_tls_val"
                          /\ ppc' = 17 => reg'["tmp_val"] = "write_sysno"
      /\ test = "t011" /\ ppc' = 13 => reg'["gregs_pc"] = "t"
      /\ test = "t016" /\ ppc' = 7 => reg'["sysno_val"] = "getpid"
  BY ONLY <1>1, <1>4
<1>. QED  BY <1>1, <1>5, <1>6 DEF Seen

\* A statement changes the siginfo of the child in 013 only.
LEMMA StatementInfos ==
  ASSUME TextOK, GoodText, BaseInv, GoodInv, Fine, Statement
  PROVE  Infos'
<1>1. ppc \in 1..Len(Code) /\ ppc' = ppc + 1 /\ test' = test /\ cpc' = cpc /\ ppc \in Nat /\ LastAt[test] \in Nat
  BY Forward, StatementKeeps DEF GoodText
<1>2. GoodStmt(ppc)
  BY <1>1 DEF GoodText
<1>3. SUFFICES ASSUME proc'["C"].st = "stop"
               PROVE  Infos'
  BY DEF Infos
<1>4. proc["C"].st = "stop" /\ ~ResumesAt(ppc)
  BY <1>2, <1>3, StillStopped DEF GoodStmt
<1>5. /\ test \in {"t006", "t011", "t012", "t017"} => ppc # 7
      /\ test = "t017" => ppc # 11
  BY ONLY <1>4 DEF ResumesAt
<1>6. /\ test = "t009" => info = StopInfo
      /\ test \in {"t006", "t017"} /\ ppc \in 8..11 => info = Trap("BRKPT", "t")
      /\ test = "t011" /\ ppc \in 8..LastAt[test] => info = Trap("HWBKPT", "buf")
      /\ test = "t012" /\ ppc \in 8..LastAt[test] => info = Trap("HWBKPT", "t")
      /\ test = "t013" /\ ppc \in 6..8 => info = write_info
      /\ test = "t017" /\ ppc \in 12..LastAt[test] => info = Trap("HWBKPT", CCode[cpc].at)
  BY <1>4 DEF GoodInv, Infos
<1>7. info' = info \/ (test = "t013" /\ ppc \in {5, 8})
  BY <1>2, StatementKeeps DEF PSetInfo, At, GoodStmt
<1>8. test = "t013" /\ ppc = 5 => info' = write_info
  <2>1. SUFFICES ASSUME test = "t013", ppc = 5
                 PROVE  info' = write_info
    OBVIOUS
  <2>2. Code[ppc].op = "setinfo"
    BY <1>2, <2>1 DEF GoodStmt
  <2>3. Code[ppc].info = write_info
    BY <1>2, <2>2 DEF GoodStmt
  <2>. QED  BY <2>2, <2>3, StatementIs, GoodSetInfo
<1>9. /\ test = "t009" => info' = StopInfo
      /\ test \in {"t006", "t017"} /\ ppc' \in 8..11 => info' = Trap("BRKPT", "t")
      /\ test = "t011" /\ ppc' \in 8..LastAt[test] => info' = Trap("HWBKPT", "buf")
      /\ test = "t012" /\ ppc' \in 8..LastAt[test] => info' = Trap("HWBKPT", "t")
  BY ONLY <1>1, <1>5, <1>6, <1>7
<1>10. test = "t013" /\ ppc' \in 6..8 => info' = write_info
  BY ONLY <1>1, <1>6, <1>7, <1>8
<1>11. test = "t017" /\ ppc' \in 12..LastAt[test] => info' = Trap("HWBKPT", CCode[cpc].at)
  BY ONLY <1>1, <1>5, <1>6, <1>7
<1>12. CCode' = CCode
  BY <1>1, TextStays
<1>. QED  BY <1>1, <1>9, <1>10, <1>11, <1>12 DEF Infos, StopInfo, Trap, write_info

\* Before a comparison of siginfo P has read what it compares with.
LEMMA StatementTold ==
  ASSUME TextOK, GoodText, BaseInv, GoodInv, Fine, Statement
  PROVE  Told'
<1>1. ppc \in 1..Len(Code) /\ ppc' = ppc + 1 /\ test' = test /\ ppc \in Nat /\ Len(Code) \in Nat
  BY Forward, StatementKeeps DEF GoodText
<1>2. Code' = Code /\ Len(Code)' = Len(Code)
  BY <1>1, TextStays
<1>3. SUFFICES ASSUME ppc + 1 \in 1..Len(Code), Code[ppc + 1].op = "checkinfo"
               PROVE  pinfo'[Code[ppc + 1].a] = Code[ppc + 1].info
  BY <1>1, <1>2 DEF Told
<1>4. PICK i \in 1..Len(Code) : i = ppc + 1
  BY <1>3
<1>5. GoodStmt(i) /\ GoodStmt(ppc)
  BY <1>1 DEF GoodText
<1>6. Code[i - 1].op = "getinfo" /\ Code[i - 1].to = Code[i].a /\ CheckInfoOK(i)
  BY <1>3, <1>4, <1>5 DEF GoodStmt
<1>7. i - 1 = ppc
  BY <1>1, <1>4
<1>8. Code[ppc].op = "getinfo" /\ Code[ppc].to = Code[i].a
  BY <1>6, <1>7
<1>9. Code[ppc].to \in InfoReg
  BY <1>5, <1>8 DEF GoodStmt
<1>10. pinfo'[Code[i].a] = info
  <2>1. pinfo' = [pinfo EXCEPT ![Code[ppc].to] = info]
    BY <1>8, StatementIs, GoodGetInfo
  <2>2. DOMAIN pinfo = InfoReg
    BY DEF BaseInv, Shape
  <2>. QED  BY <1>8, <1>9, <2>1, <2>2
<1>11. Held /\ ppc \in 1..LastAt[test]
  BY <1>1, <1>8, RequestHeld DEF GoodInv, Requests, GoodText
<1>12. /\ test = "t009" => info = StopInfo
       /\ test \in {"t006", "t017"} /\ ppc \in 8..11 => info = Trap("BRKPT", "t")
       /\ test = "t011" /\ ppc \in 8..LastAt[test] => info = Trap("HWBKPT", "buf")
       /\ test = "t012" /\ ppc \in 8..LastAt[test] => info = Trap("HWBKPT", "t")
       /\ test = "t013" /\ ppc \in 6..8 => info = write_info
       /\ test = "t017" /\ ppc \in 12..LastAt[test] => info = Trap("HWBKPT", CCode[cpc].at)
  BY <1>11 DEF GoodInv, Infos, Held
<1>13. /\ test = "t011" => LastAt[test] = 17
       /\ test = "t012" => LastAt[test] = 15
       /\ test = "t017" => LastAt[test] = 37
  BY DEF LastAt
<1>14. ASSUME test # "t017" PROVE info = Code[i].info
  BY ONLY <1>1, <1>4, <1>6, <1>12, <1>13, <1>14 DEF CheckInfoOK
<1>15. ASSUME test = "t017" PROVE info = Code[i].info
  <2>1. cpc = StopAt
    BY <1>11, <1>15 DEF GoodInv, Alive, ByTrap, Held, BySignal
  <2>2. CCode[5].at = "t+4" /\ CCode[6].at = "t+8" /\ CCode[7].at = "t+12" /\ CCode[8].at = "t+16" /\ CCode[9].at = "t+20"
    BY <1>15, Text017
  <2>3. i \in {15, 20, 25, 30, 35}
    BY ONLY <1>6, <1>15 DEF CheckInfoOK
  <2>4. /\ i = 15 => cpc = 5
        /\ i = 20 => cpc = 6
        /\ i = 25 => cpc = 7
        /\ i = 30 => cpc = 8
        /\ i = 35 => cpc = 9
    BY ONLY <1>1, <1>4, <1>15, <2>1 DEF StopAt
  <2>5. info = Trap("HWBKPT", CCode[cpc].at)
    BY ONLY <1>1, <1>4, <1>12, <1>13, <1>15, <2>3
  <2>6. info = Code[i].info
    BY ONLY <1>6, <1>15, <2>2, <2>4, <2>5 DEF CheckInfoOK
  <2>. QED  BY <2>6
<1>16. info = Code[i].info
  BY <1>14, <1>15
<1>. QED  BY <1>4, <1>10, <1>16

\* 009, 019 and 020: the signal, the post and the wait().
LEMMA StatementSignalled ==
  ASSUME TextOK, GoodText, BaseInv, GoodInv, Fine, Statement
  PROVE  Signalled'
<1>1. /\ ppc \in 1..Len(Code) /\ ppc' = ppc + 1 /\ test' = test /\ cpc' = cpc /\ ppc \in Nat /\ LastAt[test] \in Nat
      /\ cpc \in Nat /\ Len(CCode) \in Nat /\ WaitAt[test] \in Nat
  BY Forward, StatementKeeps DEF GoodText, BaseInv, Counters, TextOK
<1>2. Len(CCode)' = Len(CCode)
  BY <1>1, TextStays
<1>3. SUFFICES ASSUME test \in BySignal
               PROVE  Signalled'
  BY <1>1 DEF Signalled
<1>4. GoodStmt(ppc) /\ LastAt[test] > 4
  BY <1>1, <1>3 DEF GoodText
<1>5. Code[ppc].op = "resume" => ppc = LastAt[test]
  BY <1>3, <1>4 DEF GoodStmt, ResumesAt, BySignal
<1>6. /\ ppc <= 2 => cpc < Len(CCode)
      /\ ppc \in 1..2 => proc["C"].st = "run"
      /\ ppc \in 3..4 => proc["C"].st \in {"run", "stop"} /\ cpc <= Len(CCode)
      /\ ppc <= LastAt[test] => proc["C"].mode = "CONT"
  BY <1>3 DEF GoodInv, Signalled
<1>7. /\ ppc \in 3..4 => (proc["C"].st = "run" => proc["C"].pend)
      /\ proc["C"].st = "stop" => ~proc["C"].pend
      /\ ppc <= 2 => ~proc["C"].pend /\ (test # "t009" => ~proc["C"].traced)
  BY <1>3 DEF GoodInv, Signalled
<1>8. CASE ppc = 2
  <2>1. Code[ppc].op \in {"attach", "kill"}
    BY <1>3, <1>4, <1>8 DEF GoodStmt, BySignal
  <2>2. PAttach \/ PKill
    BY <2>1, StatementIs
  <2>3. DOMAIN proc = {"C", "G"} /\ DOMAIN proc["C"] = Fields
    BY DEF BaseInv, Shape
  <2>4. \/ proc' = [proc EXCEPT !["C"].traced = TRUE, !["C"].pend = TRUE]
        \/ proc' = [proc EXCEPT !["C"] = [proc["C"] EXCEPT !.pend = TRUE]]
    BY <2>2, GoodAttach, GoodKill
  <2>5. proc'["C"].st = proc["C"].st /\ proc'["C"].mode = proc["C"].mode
    BY ONLY <2>3, <2>4 DEF Fields
  <2>6. proc'["C"].pend
    BY ONLY <2>3, <2>4 DEF Fields
  <2>7. ppc' = 3 /\ proc'["C"].st = "run" /\ cpc' <= Len(CCode) /\ (ppc' <= LastAt[test] => proc'["C"].mode = "CONT")
    BY ONLY <1>1, <1>4, <1>6, <1>8, <2>5
  <2>. QED  BY <1>1, <1>2, <2>6, <2>7 DEF Signalled
<1>9. CASE Code[ppc].op = "resume"
  <2>1. PResume
    BY <1>9, StatementIs
  <2>2. ppc' > LastAt[test] /\ ppc' > 4
    BY ONLY <1>1, <1>4, <1>5, <1>9
  <2>3. proc'["C"].st # "stop"
    BY <2>1, GoodResume
  <2>. QED  BY <1>1, <2>2, <2>3 DEF Signalled
<1>10. CASE ppc # 2 /\ Code[ppc].op # "resume"
  <2>1. Same({"st", "pend", "status", "traced", "mode"})
    BY <1>10, StatementProc
  <2>2. proc'["C"].st = proc["C"].st /\ proc'["C"].mode = proc["C"].mode
    BY <2>1 DEF Same
  <2>3. proc'["C"].pend = proc["C"].pend /\ proc'["C"].traced = proc["C"].traced
    BY <2>1 DEF Same
  <2>4. /\ ppc' <= 2 => cpc' < Len(CCode)
        /\ ppc' \in 1..2 => proc'["C"].st = "run"
        /\ ppc' \in 3..4 => proc'["C"].st \in {"run", "stop"} /\ cpc' <= Len(CCode)
        /\ ppc' <= LastAt[test] => proc'["C"].mode = "CONT"
    BY ONLY <1>1, <1>6, <1>10, <2>2
  <2>5. /\ ppc' \in 3..4 => ppc \in 3..4
        /\ ppc' <= 2 => ppc <= 2
    BY ONLY <1>1, <1>10
  <2>6. /\ ppc' \in 3..4 => (proc'["C"].st = "run" => proc'["C"].pend)
        /\ proc'["C"].st = "stop" => ~proc'["C"].pend
        /\ ppc' <= 2 => ~proc'["C"].pend /\ (test # "t009" => ~proc'["C"].traced)
    BY ONLY <1>7, <2>2, <2>3, <2>5
  <2>. QED  BY <1>1, <1>2, <2>4, <2>6 DEF Signalled
<1>. QED  BY <1>8, <1>9, <1>10

\* P's side of a step of the child.
LEMMA ChildNow ==
  ASSUME TextOK, GoodText, BaseInv, GoodInv, Fine, Child
  PROVE  /\ UNCHANGED <<test, fault, ppc, ret, reg, pinfo, last, verdict>> /\ proc["C"].st = "run"
         /\ StopAt' = StopAt /\ Armed' = Armed /\ Code' = Code /\ CCode' = CCode
         /\ Len(Code)' = Len(Code) /\ Len(CCode)' = Len(CCode)
         /\ ppc \in Nat /\ ppc >= 1 /\ cpc \in Nat /\ cpc >= 1 /\ LastAt[test] \in Nat /\ WaitAt[test] \in Nat
         /\ SiteAt[test] \in Nat /\ TraceAt[test] \in Nat /\ FirstAt[test] \in Nat
         /\ test \notin BySignal => TraceAt[test] < SiteAt[test]
<1>1. UNCHANGED <<test, fault, ppc, ret, reg, pinfo, last, verdict>> /\ proc["C"].st = "run"
  BY ChildKeeps
<1>2. StopAt' = StopAt /\ Armed' = Armed
  BY <1>1 DEF StopAt, Armed
<1>3. Code' = Code /\ CCode' = CCode /\ Len(Code)' = Len(Code) /\ Len(CCode)' = Len(CCode)
  BY <1>1, TextStays
<1>4. ppc >= 1
  BY <1>1, RunPlaces
<1>5. ppc \in Nat /\ cpc \in Nat /\ cpc >= 1 /\ TraceAt[test] \in Nat
  BY DEF BaseInv, Counters, TextOK
<1>6. LastAt[test] \in Nat /\ WaitAt[test] \in Nat /\ SiteAt[test] \in Nat /\ FirstAt[test] \in Nat
  BY DEF GoodText
<1>7. test \notin BySignal => TraceAt[test] < SiteAt[test]
  BY <1>6 DEF GoodText
<1>. QED  BY ONLY <1>1, <1>2, <1>3, <1>4, <1>5, <1>6, <1>7

\* A step of the child leads to the stop that P expects.
LEMMA ChildAlive ==
  ASSUME TextOK, GoodText, BaseInv, GoodInv, ByTrap, Child
  PROVE  Alive' /\ Stepping' /\ Gone'
<1>1. /\ UNCHANGED <<test, ppc, last>> /\ proc["C"].st = "run" /\ StopAt' = StopAt
      /\ ppc \in Nat /\ ppc >= 1 /\ cpc \in Nat /\ LastAt[test] \in Nat /\ WaitAt[test] \in Nat
      /\ SiteAt[test] \in Nat /\ TraceAt[test] \in Nat /\ TraceAt[test] < SiteAt[test]
  BY ChildNow DEF ByTrap
<1>2. /\ ppc <= LastAt[test] => cpc <= StopAt
      /\ ppc > WaitAt[test] => cpc >= SiteAt[test] /\ last.val = "TRAP"
  BY DEF GoodInv, Alive
<1>3. ~proc["C"].pend /\ (cpc > TraceAt[test] => proc["C"].traced)
  BY DEF GoodInv, Alive
<1>4. proc["C"].mode = IF test = "t016" /\ ppc \in 5..LastAt[test] THEN "SYSCALL"
                       ELSE IF test = "t017" /\ ppc \in 12..LastAt[test] THEN "SINGLESTEP" ELSE "CONT"
  BY DEF GoodInv, Stepping
<1>5. ppc > LastAt[test] => test # "t018" /\ proc["C"].mode = "CONT"
  BY <1>1 DEF GoodInv, Gone, ByTrap
<1>6. CASE CGoes
  <2>1. /\ cpc' = cpc + 1 /\ proc'["C"].st = "run" /\ proc'["C"].mode = proc["C"].mode
        /\ ppc \in 1..LastAt[test] => cpc < StopAt
        /\ proc["C"].mode = "SYSCALL" => cpc <= 2
        /\ proc["C"].mode # "SINGLESTEP"
    BY <1>1, <1>6 DEF CGoes, Same
  <2>2. ~proc'["C"].pend
    BY <1>3, <1>6 DEF CGoes, Same
  <2>3. cpc' > TraceAt[test] => proc'["C"].traced
    <3>1. SUFFICES ASSUME cpc' > TraceAt[test] PROVE proc'["C"].traced
      OBVIOUS
    <3>2. cpc > TraceAt[test] \/ cpc = TraceAt[test]
      BY ONLY <1>1, <2>1, <3>1
    <3>. QED  BY <1>3, <1>6, <3>2 DEF CGoes
  <2>4. StopAt \in Nat
    BY <1>1 DEF StopAt
  <2>5. ppc <= LastAt[test] => cpc' <= StopAt
    BY ONLY <1>1, <2>1, <2>4
  <2>6. ppc > WaitAt[test] => cpc' >= SiteAt[test] /\ last.val = "TRAP"
    BY ONLY <1>1, <1>2, <2>1
  <2>7. Alive'
    BY <1>1, <2>1, <2>2, <2>3, <2>5, <2>6 DEF Alive
  <2>8. proc["C"].mode = "SYSCALL" => cpc' <= 3
    BY ONLY <1>1, <2>1
  <2>9. Stepping'
    BY <1>1, <1>4, <2>1, <2>8 DEF Stepping
  <2>10. Gone'
    BY <1>1, <1>5, <2>1, <2>2 DEF Gone
  <2>. QED  BY <2>7, <2>9, <2>10
<1>7. CASE CTrapped \/ CStepped
  <2>1. /\ proc'["C"].st = "stop" /\ proc'["C"].status.val = "TRAP" /\ proc'["C"].mode = proc["C"].mode
        /\ ppc \in 1..LastAt[test] /\ cpc' = StopAt /\ cpc' >= cpc
    BY <1>7 DEF CTrapped, CStepped, CStops
  <2>2. ~proc'["C"].pend /\ proc'["C"].traced = proc["C"].traced
    BY <1>7 DEF CTrapped, CStepped, CStops
  <2>3. StopAt \in Nat
    BY <1>1 DEF StopAt
  <2>4. cpc' > TraceAt[test] => cpc > TraceAt[test]
    <3>1. CASE CTrapped
      BY <3>1 DEF CTrapped
    <3>2. CASE CStepped
      <4>1. ppc > WaitAt[test]
        BY <1>1, <3>2 DEF CStepped, WaitAt
      <4>. QED  BY ONLY <1>1, <1>2, <4>1
    <3>. QED  BY <1>7, <3>1, <3>2
  <2>5. cpc' > TraceAt[test] => proc'["C"].traced
    BY ONLY <1>3, <2>2, <2>4
  <2>6. ppc > WaitAt[test] => cpc' >= SiteAt[test] /\ last.val = "TRAP"
    BY ONLY <1>1, <1>2, <2>1, <2>3
  <2>7. Alive'
    <3>1. ppc <= LastAt[test] => cpc' <= StopAt
      BY ONLY <2>1, <2>3
    <3>. QED  BY <1>1, <2>1, <2>2, <2>5, <2>6, <3>1 DEF Alive
  <2>8. Stepping'
    BY <1>1, <1>4, <2>1 DEF Stepping
  <2>9. Gone'
    BY <1>1, <2>1 DEF Gone
  <2>. QED  BY <2>7, <2>8, <2>9
<1>8. CASE CEnded
  <2>1. /\ proc'["C"].st = "dead" /\ proc'["C"].status = [kind |-> "exit", val |-> "0"]
        /\ proc'["C"].mode = proc["C"].mode /\ ppc > LastAt[test] /\ cpc' = cpc
    BY <1>8 DEF CEnded
  <2>2. ~proc'["C"].pend /\ proc'["C"].traced = proc["C"].traced
    BY <1>8 DEF CEnded
  <2>3. Alive'
    <3>1. ppc \notin 1..LastAt[test] /\ ~(ppc <= LastAt[test])
      BY ONLY <1>1, <2>1
    <3>. QED  BY <1>1, <1>2, <1>3, <2>1, <2>2, <3>1 DEF Alive
  <2>4. Stepping'
    BY <1>1, <1>4, <2>1 DEF Stepping
  <2>5. Gone'
    BY <1>1, <1>5, <2>1 DEF Gone
  <2>. QED  BY <2>3, <2>4, <2>5
<1>. QED  BY <1>6, <1>7, <1>8, ChildGood DEF CGood

\* The cells that the child writes, and when.
LEMMA ChildWrites ==
  ASSUME TextOK, GoodText, BaseInv, GoodInv, Fine, [Next]_vars, Child
  PROVE  /\ UNCHANGED <<mem["site1"], mem["t"], mem["hwbrk"], mem["hwwatch"], mem["tls"], mem["regno0"], mem["regno1"]>>
         /\ mem'["buf"] = mem["buf"] \/ (test \in {"t002", "t005"} /\ cpc = 2 /\ mem'["buf"] = "CHILD_MAGIC") \/ test = "t011"
         /\ mem'["addr"] = mem["addr"] \/ mem'["addr"] = "t"
         /\ mem'["greg"] = mem["greg"] \/ (cpc = 2 /\ mem'["greg"] = "index")
         /\ mem'["freg"] = mem["freg"] \/ cpc = 3
         /\ mem'["dev"] = mem["dev"] \/ cpc = 4
         /\ mem'["sysno"] = mem["sysno"] \/ test = "t016"
<1>1. CASE cpc \in 1..Len(CCode)
  <2>1. GoodCStmt(cpc)
    BY <1>1 DEF GoodText
  <2>2. \A c \in Cell :
           \/ mem'[c] = mem[c]
           \/ CStore /\ CCode[cpc].at = c /\ mem'[c] = CCode[cpc].val
           \/ c = "inst_addr"
           \/ CStoreInsn /\ CCode[cpc].to = c
           \/ CSyscall /\ c = "sysno"
           \/ c = "fork_msg"
    <3>1. ~PSet
      <4>1. PSet => ppc' = ppc + 1
        BY GoodSet DEF Advance
      <4>2. ppc' = ppc /\ ppc \in Nat
        BY ChildNow
      <4>. QED  BY ONLY <4>1, <4>2
    <3>. QED  BY <3>1, MemMoves
  <2>3. /\ CStore => CCode[cpc].op = "store"
        /\ CStoreInsn => CCode[cpc].op = "storeinsn"
        /\ CSyscall => CCode[cpc].op = "syscall"
    BY DEF CStore, CStoreInsn, CSyscall, CAt
  <2>4. CStore =>
       \/ test \in {"t002", "t005"} /\ cpc = 2 /\ CCode[cpc].at = "buf" /\ CCode[cpc].val = "CHILD_MAGIC"
       \/ CCode[cpc].at = "addr" /\ CCode[cpc].val = "t"
       \/ cpc = 2 /\ CCode[cpc].at = "greg" /\ CCode[cpc].val = "index"
       \/ cpc = 3 /\ CCode[cpc].at = "freg"
       \/ cpc = 4 /\ CCode[cpc].at = "dev"
    BY ONLY <2>1, <2>3 DEF GoodCStmt
  <2>5. (CStoreInsn => test = "t011" /\ CCode[cpc].to = "buf") /\ (CSyscall => test = "t016")
    BY ONLY <2>1, <2>3 DEF GoodCStmt
  <2>. QED  BY ONLY <2>2, <2>4, <2>5 DEF Cell
<1>2. CASE cpc \notin 1..Len(CCode)
  <2>1. CEnd
    BY <1>2 DEF Child, CTraceme, CStore, CInsn, CStoreInsn, CSyscall, CFork, CForkEvent, CSem, CCheckMem, CCall, CAt
  <2>2. mem' = mem
    BY <2>1 DEF CEnd, CExit
  <2>. QED  BY <2>2
<1>. QED  BY <1>1, <1>2

\* The child leaves its traps alone.
LEMMA ChildTraps ==
  ASSUME TextOK, GoodText, BaseInv, GoodInv, ByTrap, [Next]_vars, Child
  PROVE  Traps'
<1>1. UNCHANGED <<test, ppc>> /\ Armed' = Armed
  BY ChildNow DEF ByTrap
<1>2. mem'["site1"] = mem["site1"] /\ mem'["t"] = mem["t"] /\ mem'["hwbrk"] = mem["hwbrk"] /\ mem'["hwwatch"] = mem["hwwatch"]
  BY ChildWrites DEF ByTrap
<1>. QED  BY <1>1, <1>2 DEF Traps, GoodInv

\* What the child writes stays as the tests want it.
LEMMA ChildData ==
  ASSUME TextOK, GoodText, BaseInv, GoodInv, ByTrap, [Next]_vars, Child
  PROVE  Data' /\ Data010'
<1>1. /\ UNCHANGED <<test, ppc>> /\ proc["C"].st = "run" /\ ppc \in Nat /\ cpc \in Nat /\ LastAt[test] \in Nat
      /\ WaitAt[test] \in Nat /\ FirstAt[test] \in Nat /\ test \notin BySignal
  BY ChildNow DEF ByTrap
<1>2. /\ mem'["buf"] = mem["buf"] \/ (test \in {"t002", "t005"} /\ cpc = 2 /\ mem'["buf"] = "CHILD_MAGIC") \/ test = "t011"
      /\ mem'["addr"] = mem["addr"] \/ mem'["addr"] = "t"
      /\ mem'["greg"] = mem["greg"] \/ (cpc = 2 /\ mem'["greg"] = "index")
      /\ mem'["freg"] = mem["freg"] \/ cpc = 3
      /\ mem'["dev"] = mem["dev"] \/ cpc = 4
      /\ mem'["sysno"] = mem["sysno"] \/ test = "t016"
      /\ mem'["tls"] = mem["tls"] /\ mem'["regno0"] = mem["regno0"] /\ mem'["regno1"] = mem["regno1"]
  BY ChildWrites DEF ByTrap
<1>3. ppc > WaitAt[test] => cpc >= SiteAt[test]
  BY DEF GoodInv, Alive
<1>4. /\ test \in {"t002", "t003", "t005", "t006", "t011", "t012", "t017"} => SiteAt[test] = 3 /\ WaitAt[test] = 1
      /\ test = "t010" => SiteAt[test] = 4 /\ WaitAt[test] = 1
      /\ test = "t021" => SiteAt[test] = 8 /\ WaitAt[test] = 3
      /\ test = "t016" => WaitAt[test] = 1 /\ FirstAt[test] = 4
      /\ test \in {"t006", "t011", "t012", "t017"} => FirstAt[test] = 7
  BY DEF SiteAt, WaitAt, FirstAt
<1>5. cpc' = cpc \/ (cpc' = cpc + 1 /\ cpc \in 1..Len(CCode))
  BY CpcMoves
<1>6. ASSUME cpc = 2, cpc' = cpc + 1, test \in {"t002", "t003", "t006", "t010", "t011", "t012", "t017"}
      PROVE  mem'[CCode[cpc].at] = CCode[cpc].val /\ CCode[cpc].op = "store" /\ GoodCStmt(cpc)
  <2>1. GoodCStmt(cpc) /\ cpc \in 1..Len(CCode)
    BY <1>5, <1>6 DEF GoodText
  <2>2. CCode[cpc].op = "store"
    BY <1>6, <2>1 DEF GoodCStmt
  <2>3. CStore
    BY <2>1, <2>2 DEF Child, CTraceme, CInsn, CStoreInsn, CSyscall, CFork, CForkEvent, CSem, CCheckMem, CCall, CAt, CEnd,
          BaseInv, Counters, TextOK
  <2>4. CCode[cpc].at \in Cell
    BY <2>1, <2>2 DEF TextOK, CStmtOK, Stored, Cell
  <2>. QED  BY <2>1, <2>2, <2>3, <2>4 DEF CStore, BaseInv, Shape
<1>7. /\ test = "t002" /\ cpc = 2 /\ cpc' = cpc + 1 => mem'["buf"] = "CHILD_MAGIC"
      /\ test \in {"t003", "t006", "t011", "t012", "t017"} /\ cpc = 2 /\ cpc' = cpc + 1 => mem'["addr"] = "t"
      /\ test = "t010" /\ cpc = 2 /\ cpc' = cpc + 1 => mem'["greg"] = "index"
  BY ONLY <1>6 DEF GoodCStmt
<1>8. CGood
  BY ChildGood
<1>9. proc'["C"].st = "stop" =>
         \/ ppc <= WaitAt[test] /\ mem'["inst_addr"] = "site1"
         \/ test \in {"t006", "t011", "t012", "t017"} /\ ppc >= 8
         \/ test = "t016" /\ ppc = 5 /\ mem'["sysno"] = "getpid"
  <2>1. CGoes => proc'["C"].st = "run"
    BY <1>1 DEF CGoes, Same
  <2>2. CEnded => proc'["C"].st = "dead"
    BY DEF CEnded
  <2>3. CTrapped \/ CStepped =>
         \/ ppc <= WaitAt[test] /\ mem'["inst_addr"] = "site1"
         \/ test \in {"t006", "t011", "t012", "t017"} /\ ppc >= 8
         \/ test = "t016" /\ ppc = 5 /\ mem'["sysno"] = "getpid"
    BY <1>1 DEF CTrapped, CStepped
  <2>. QED  BY <1>8, <2>1, <2>2, <2>3 DEF CGood
<1>10. test \notin BySignal /\ ppc' \in 1..FirstAt[test] /\ proc'["C"].st = "stop" => mem'["inst_addr"] = "site1"
  BY ONLY <1>1, <1>4, <1>9
<1>11. test = "t016" /\ ppc' \in 5..LastAt[test] /\ proc'["C"].st = "stop" => mem'["sysno"] = "getpid"
  BY ONLY <1>1, <1>4, <1>9
<1>12. /\ test = "t002" /\ cpc > 2 => mem["buf"] = "CHILD_MAGIC"
       /\ test = "t005" /\ ppc > 4 => mem["buf"] = "PARENT_MAGIC"
       /\ test \in {"t003", "t006", "t011", "t012", "t017"} /\ cpc > 2 => mem["addr"] = "t"
       /\ test = "t021" /\ ppc > 6 => mem["dev"] = "0xFFFFFFFF"
  BY DEF GoodInv, Data, ByTrap
<1>13. /\ test = "t002" /\ cpc' > 2 => mem'["buf"] = "CHILD_MAGIC"
       /\ test \in {"t003", "t006", "t011", "t012", "t017"} /\ cpc' > 2 => mem'["addr"] = "t"
  BY ONLY <1>1, <1>2, <1>5, <1>7, <1>12
<1>14. /\ test = "t005" /\ ppc' > 4 => mem'["buf"] = "PARENT_MAGIC"
       /\ test = "t021" /\ ppc' > 6 => mem'["dev"] = "0xFFFFFFFF"
  BY ONLY <1>1, <1>2, <1>3, <1>4, <1>12
<1>15. Data'
  BY <1>1, <1>10, <1>11, <1>13, <1>14 DEF Data
<1>16. test = "t010" => /\ cpc > 2 /\ ppc <= 6 => mem["greg"] = "index"
                        /\ ppc > 6 => mem["greg"] = "magic"
                        /\ ppc > 8 => mem["freg"] = "magic"
                        /\ ppc \in 11..13 => mem["tls"] = "write_tls_val"
                        /\ ppc \in 16..18 => mem["sysno"] = "write_sysno"
                        /\ ppc > 19 => mem["regno0"] = "regno"
                        /\ ppc > 20 => mem["regno1"] = "regno"
  BY DEF GoodInv, Data010, ByTrap
<1>17. test = "t010" => /\ cpc' > 2 /\ ppc <= 6 => mem'["greg"] = "index"
                        /\ ppc > 6 => mem'["greg"] = "magic"
                        /\ ppc > 8 => mem'["freg"] = "magic"
                        /\ ppc \in 11..13 => mem'["tls"] = "write_tls_val"
                        /\ ppc \in 16..18 => mem'["sysno"] = "write_sysno"
                        /\ ppc > 19 => mem'["regno0"] = "regno"
                        /\ ppc > 20 => mem'["regno1"] = "regno"
  BY ONLY <1>1, <1>2, <1>3, <1>4, <1>5, <1>7, <1>16
<1>18. Data010'
  BY <1>1, <1>17 DEF Data010
<1>. QED  BY <1>15, <1>18

\* The siginfo of a stop is the one that P expects.
LEMMA ChildInfos ==
  ASSUME TextOK, GoodText, BaseInv, GoodInv, ByTrap, Child
  PROVE  Infos'
<1>1. /\ UNCHANGED <<test, ppc>> /\ proc["C"].st = "run" /\ ppc \in Nat /\ LastAt[test] \in Nat
      /\ WaitAt[test] \in Nat /\ test \notin BySignal /\ CCode' = CCode
  BY ChildNow DEF ByTrap
<1>2. SUFFICES ASSUME proc'["C"].st = "stop"
               PROVE  Infos'
  BY DEF Infos
<1>3. CTrapped \/ CStepped
  <2>1. CGoes => proc'["C"].st = "run"
    BY <1>1 DEF CGoes, Same
  <2>2. CEnded => proc'["C"].st = "dead"
    BY DEF CEnded
  <2>. QED  BY <1>2, <2>1, <2>2, ChildGood DEF CGood
<1>4. \/ ppc <= WaitAt[test]
      \/ test \in {"t006", "t017"} /\ ppc = 8 /\ info' = Trap("BRKPT", "t")
      \/ test = "t011" /\ ppc = 8 /\ info' = Trap("HWBKPT", "buf")
      \/ test = "t012" /\ ppc = 8 /\ info' = Trap("HWBKPT", "t")
      \/ test = "t016"
      \/ test = "t017" /\ ppc \in 12..LastAt[test] /\ info' = Trap("HWBKPT", CCode[cpc'].at)
  BY ONLY <1>3 DEF CTrapped, CStepped
<1>5. WaitAt[test] <= 4
  BY DEF GoodText
<1>6. test # "t009"
  BY <1>1 DEF BySignal
<1>7. /\ test \in {"t006", "t017"} /\ ppc \in 8..11 => info' = Trap("BRKPT", "t")
      /\ test = "t011" /\ ppc \in 8..LastAt[test] => info' = Trap("HWBKPT", "buf")
      /\ test = "t012" /\ ppc \in 8..LastAt[test] => info' = Trap("HWBKPT", "t")
      /\ ~(test = "t013" /\ ppc \in 6..8)
      /\ test = "t017" /\ ppc \in 12..LastAt[test] => info' = Trap("HWBKPT", CCode[cpc'].at)
  BY ONLY <1>1, <1>4, <1>5
<1>. QED  BY <1>1, <1>6, <1>7 DEF Infos, Trap

\* The steps of a child that a signal stops.
LEMMA ChildSignal ==
  ASSUME TextOK, GoodText, BaseInv, GoodInv, Fine, test \in BySignal, Child
  PROVE  \/ /\ cpc' = cpc + 1 /\ Same({"st", "pend", "status", "mode"}) /\ info' = info
            /\ Same({"traced"}) \/ test = "t009"
            /\ ppc <= 2 => cpc + 1 < Len(CCode)
            /\ ppc \in 3..4 => cpc < Len(CCode)
         \/ /\ ppc > LastAt[test] /\ proc'["C"].st = "dead"
            /\ proc'["C"].status = [kind |-> "exit", val |-> "0"]
<1>1. /\ proc["C"].st = "run" /\ ppc \in Nat /\ ppc >= 1 /\ cpc \in Nat /\ cpc >= 1 /\ LastAt[test] \in Nat
      /\ WaitAt[test] \in Nat
  BY ChildNow
<1>2. ppc <= LastAt[test] => ppc <= 4
  <2>1. WaitAt[test] = 4 /\ ~WaitsAgain(ppc)
    BY DEF GoodText, WaitsAgain, BySignal
  <2>. QED  BY <1>1, <2>1, RunPlaces
<1>3. /\ ppc <= 2 => ~proc["C"].pend /\ cpc < Len(CCode)
      /\ ppc \in 3..4 => proc["C"].pend /\ cpc <= Len(CCode)
  BY <1>1 DEF GoodInv, Signalled
<1>4. DOMAIN proc = {"C", "G"} /\ DOMAIN proc["C"] = Fields /\ Len(CCode) \in Nat
  BY DEF BaseInv, Shape, GoodText
<1>5. CASE cpc \in 1..Len(CCode)
  <2>1. GoodCStmt(cpc)
    BY <1>5 DEF GoodText
  <2>2. CCode[cpc].op \in {"traceme", "cpost", "csemwait", "call"}
    BY <1>4, <1>5, <2>1 DEF GoodCStmt
  <2>3. CTraceme \/ CSem \/ CCall
    <3>1. ~(cpc > Len(CCode))
      BY ONLY <1>1, <1>4, <1>5
    <3>2. ~CEnd
      BY ONLY <3>1 DEF CEnd
    <3>3. ~CStore /\ ~CStoreInsn /\ ~CSyscall
      BY ONLY <2>2 DEF CStore, CStoreInsn, CSyscall, CAt
    <3>4. ~CInsn /\ ~CFork /\ ~CForkEvent /\ ~CCheckMem
      BY ONLY <2>2 DEF CInsn, CFork, CForkEvent, CCheckMem, CAt
    <3>5. Child
      OBVIOUS
    <3>. QED  BY ONLY <3>2, <3>3, <3>4, <3>5 DEF Child
  <2>4. cpc' = cpc + 1 /\ info' = info /\ (proc' = proc \/ (CTraceme /\ proc' = [proc EXCEPT !["C"].traced = TRUE]))
    BY <2>3, NothingBad DEF CTraceme, CSem, CCall
  <2>5. Same({"st", "pend", "status", "mode"}) /\ (Same({"traced"}) \/ CTraceme)
    BY ONLY <1>4, <2>4 DEF Same, Fields
  <2>6. CTraceme => test = "t009"
    <3>1. test \in {"t019", "t020"} => TraceAt[test] = 0
      BY DEF TextOK
    <3>2. CTraceme => cpc = TraceAt[test]
      BY <2>1 DEF CTraceme, CAt, GoodCStmt
    <3>. QED  BY <1>1, <3>1, <3>2 DEF BySignal
  <2>7. ppc <= 2 => cpc + 1 < Len(CCode)
    <3>1. SUFFICES ASSUME ppc <= 2, cpc + 1 >= Len(CCode)
                   PROVE  FALSE
      BY <1>1, <1>4
    <3>2. cpc = Len(CCode) - 1
      BY ONLY <1>1, <1>3, <1>4, <3>1
    <3>3. CCode[cpc].op = "csemwait"
      BY <2>1, <3>2 DEF GoodCStmt
    <3>4. sem["cwait"] = 0
      BY <1>1, <3>1 DEF BaseInv, SemInv
    <3>5. CCode[cpc].sem = "cwait"
      BY <1>5, <3>3 DEF TextOK, CStmtOK
    <3>. QED  BY <2>3, <3>3, <3>4, <3>5 DEF CTraceme, CSem, CCall, CAt
  <2>8. ppc \in 3..4 => cpc < Len(CCode)
    <3>1. SUFFICES ASSUME ppc \in 3..4, cpc >= Len(CCode)
                   PROVE  FALSE
      BY <1>1, <1>4
    <3>2. cpc = Len(CCode) /\ proc["C"].pend
      BY <1>1, <1>3, <1>4, <1>5, <3>1
    <3>3. CCode[cpc].op = "call"
      BY <1>4, <2>1, <3>2 DEF GoodCStmt
    <3>. QED  BY <2>3, <3>2, <3>3 DEF CTraceme, CSem, CCall, CAt
  <2>. QED  BY <2>4, <2>5, <2>6, <2>7, <2>8
<1>6. CASE cpc \notin 1..Len(CCode)
  <2>1. CEnd /\ cpc > Len(CCode)
    <3>1. cpc > Len(CCode)
      BY ONLY <1>1, <1>4, <1>6
    <3>2. ~CTraceme /\ ~CStore /\ ~CStoreInsn /\ ~CSyscall /\ ~CSem
      BY ONLY <1>6 DEF CTraceme, CStore, CStoreInsn, CSyscall, CSem, CAt
    <3>3. ~CInsn /\ ~CFork /\ ~CForkEvent /\ ~CCheckMem /\ ~CCall
      BY ONLY <1>6 DEF CInsn, CFork, CForkEvent, CCheckMem, CCall, CAt
    <3>4. Child
      OBVIOUS
    <3>. QED  BY ONLY <3>1, <3>2, <3>3, <3>4 DEF Child
  <2>2. ppc > LastAt[test]
    BY ONLY <1>1, <1>2, <1>3, <1>4, <2>1
  <2>3. proc'["C"] = Ended("C", "exit", "0")
    BY <1>4, <2>1 DEF CEnd, CExit
  <2>4. proc'["C"].st = "dead" /\ proc'["C"].status = [kind |-> "exit", val |-> "0"]
    BY ONLY <1>4, <2>3 DEF Ended, Fields
  <2>. QED  BY <2>2, <2>4
<1>. QED  BY <1>5, <1>6

\* What GoodInv says of the trap tests says nothing of 009, 019 and 020.
LEMMA OnlySignals ==
  ASSUME test \in BySignal, test' = test
  PROVE  Alive' /\ Stepping' /\ Traps' /\ Data' /\ Data010'
<1>1. ~ByTrap'
  BY DEF ByTrap
<1>2. Alive' /\ Stepping' /\ Traps'
  BY <1>1 DEF Alive, Stepping, Traps
<1>3. Data' /\ Data010'
  BY DEF Data, Data010, BySignal
<1>. QED  BY <1>2, <1>3

\* And what it says of those says nothing of the trap tests.
LEMMA OnlyTraps ==
  ASSUME test \notin BySignal, test' = test
  PROVE  Signalled'
  BY DEF Signalled

\* A child that waits for a signal does not stop by itself.
LEMMA ChildSignalled ==
  ASSUME TextOK, GoodText, BaseInv, GoodInv, Fine, test \in BySignal, Child
  PROVE  Gone' /\ Infos' /\ Signalled'
<1>1. /\ proc["C"].st = "run" /\ ppc \in Nat /\ LastAt[test] \in Nat /\ cpc \in Nat /\ Len(CCode) \in Nat
      /\ LastAt[test] > 4 /\ test # "t018"
  BY ChildNow DEF GoodText, BySignal
<1>2. test' = test /\ ppc' = ppc /\ Len(CCode)' = Len(CCode)
  BY ChildNow
<1>3. /\ ppc <= 2 => proc["C"].pend = FALSE /\ (test # "t009" => proc["C"].traced = FALSE)
      /\ ppc \in 3..4 => proc["C"].pend
      /\ ppc <= LastAt[test] => proc["C"].mode = "CONT"
  BY <1>1 DEF GoodInv, Signalled
<1>4. ppc > LastAt[test] => proc["C"].pend = FALSE /\ proc["C"].mode = "CONT"
  BY <1>1 DEF GoodInv, Gone
<1>5. CASE /\ cpc' = cpc + 1 /\ Same({"st", "pend", "status", "mode"}) /\ info' = info
           /\ Same({"traced"}) \/ test = "t009"
           /\ ppc <= 2 => cpc + 1 < Len(CCode)
           /\ ppc \in 3..4 => cpc < Len(CCode)
  <2>1. /\ proc'["C"].st = "run" /\ proc'["C"].pend = proc["C"].pend /\ proc'["C"].mode = proc["C"].mode
        /\ test # "t009" => proc'["C"].traced = proc["C"].traced
    BY ONLY <1>1, <1>5 DEF Same
  <2>2. Infos'
    BY ONLY <2>1 DEF Infos
  <2>3. Gone'
    BY ONLY <1>1, <1>2, <1>4, <2>1 DEF Gone
  <2>4. ppc' <= 2 => proc'["C"].pend = FALSE /\ cpc' < Len(CCode)' /\ (test' # "t009" => proc'["C"].traced = FALSE)
    BY ONLY <1>2, <1>3, <1>5, <2>1
  <2>5. ppc' \in 3..4 => cpc' <= Len(CCode)'
    BY ONLY <1>1, <1>2, <1>5
  <2>6. ppc' \in 3..4 => proc'["C"].pend
    BY ONLY <1>2, <1>3, <2>1
  <2>7. ppc' <= LastAt[test'] => proc'["C"].mode = "CONT"
    BY ONLY <1>2, <1>3, <2>1
  <2>8. Signalled'
    BY ONLY <2>1, <2>4, <2>5, <2>6, <2>7 DEF Signalled
  <2>. QED  BY <2>2, <2>3, <2>8
<1>6. CASE /\ ppc > LastAt[test] /\ proc'["C"].st = "dead"
           /\ proc'["C"].status = [kind |-> "exit", val |-> "0"]
  <2>1. Infos'
    BY ONLY <1>6 DEF Infos
  <2>2. Gone'
    BY ONLY <1>1, <1>2, <1>6 DEF Gone
  <2>3. Signalled'
    BY ONLY <1>1, <1>2, <1>6 DEF Signalled
  <2>. QED  BY <2>1, <2>2, <2>3
<1>. QED  BY <1>5, <1>6, ChildSignal

\* A step of the child keeps GoodInv, but for the verdict.
LEMMA ChildKeepsGood ==
  ASSUME TextOK, GoodText, BaseInv, GoodInv, Fine, [Next]_vars, Child
  PROVE  /\ OnCourse' /\ Alive' /\ Stepping' /\ Gone' /\ Traps' /\ Data' /\ Data010' /\ Seen' /\ Infos' /\ Told'
         /\ Signalled'
<1>1. UNCHANGED <<test, fault, ppc, ret, reg, pinfo, verdict>> /\ Code' = Code /\ Len(Code)' = Len(Code)
  BY ChildNow
<1>2. OnCourse' /\ Seen' /\ Told'
  <2>1. OnCourse /\ Seen /\ Told /\ Fine
    BY DEF GoodInv
  <2>2. OnCourse'
    BY ONLY <1>1, <2>1 DEF OnCourse, Fine
  <2>3. Seen'
    BY ONLY <1>1, <2>1 DEF Seen, Fine
  <2>4. Told'
    BY ONLY <1>1, <2>1 DEF Told, Fine
  <2>. QED  BY <2>2, <2>3, <2>4
<1>3. CASE test \in BySignal
  BY <1>1, <1>2, <1>3, OnlySignals, ChildSignalled
<1>4. CASE test \notin BySignal
  BY <1>1, <1>2, <1>4, OnlyTraps, ChildAlive, ChildTraps, ChildData, ChildInfos DEF ByTrap
<1>. QED  BY <1>3, <1>4

\* A statement of P keeps GoodInv, but for the verdict.
LEMMA StatementKeepsGood ==
  ASSUME TextOK, GoodText, BaseInv, GoodInv, Fine, [Next]_vars, Statement
  PROVE  /\ OnCourse' /\ Alive' /\ Stepping' /\ Gone' /\ Traps' /\ Data' /\ Data010' /\ Seen' /\ Infos' /\ Told'
         /\ Signalled'
<1>1. test' = test
  BY StatementKeeps
<1>2. Alive' /\ Stepping' /\ Traps'
  BY <1>1, OnlySignals, StatementAlive, StatementStepping, StatementTraps DEF ByTrap
<1>. QED  BY <1>2, StatementCourse, StatementGone, StatementData, StatementData010, StatementSeen, StatementInfos,
             StatementTold, StatementSignalled

\* The SIGSTOP comes while P waits for it.
LEMMA TakeKeepsGood ==
  ASSUME TextOK, GoodText, BaseInv, GoodInv, Fine, TakeStop("C")
  PROVE  /\ OnCourse' /\ Alive' /\ Stepping' /\ Gone' /\ Traps' /\ Data' /\ Data010' /\ Seen' /\ Infos' /\ Told'
         /\ Signalled'
<1>1. UNCHANGED <<test, fault, ppc, ret, reg, pinfo, verdict, cpc, mem>> /\ proc["C"].st = "run" /\ proc["C"].pend
      /\ proc' = [proc EXCEPT !["C"] = Stopped("C", "STOP")]
  BY DEF TakeStop, parentVars
<1>2. info' = StopInfo
  BY DEF TakeStop, StopInfo
<1>3. Code' = Code /\ Len(Code)' = Len(Code) /\ Len(CCode)' = Len(CCode)
  BY <1>1, TextStays
<1>4. ppc \in Nat /\ ppc >= 1 /\ LastAt[test] \in Nat
  BY <1>1, RunPlaces DEF GoodText, BaseInv, Counters
<1>5. test \in BySignal
  BY <1>1 DEF GoodInv, Alive, ByTrap
<1>6. ppc <= LastAt[test]
  BY <1>1, <1>4 DEF GoodInv, Gone
<1>7. ppc \in 3..4
  <2>1. ppc > 2
    BY <1>1, <1>4, <1>5 DEF GoodInv, Signalled
  <2>2. WaitAt[test] = 4 /\ ~WaitsAgain(ppc)
    BY <1>5 DEF GoodText, WaitsAgain, BySignal
  <2>3. ppc <= 4
    BY <1>1, <1>6, <2>2, RunPlaces
  <2>. QED  BY ONLY <1>4, <2>1, <2>3
<1>8. DOMAIN proc = {"C", "G"} /\ DOMAIN proc["C"] = Fields
  BY DEF BaseInv, Shape
<1>9. proc'["C"] = Stopped("C", "STOP")
  BY ONLY <1>1, <1>8
<1>10. proc'["C"].st = "stop" /\ proc'["C"].pend = FALSE
  BY ONLY <1>8, <1>9 DEF Stopped, Fields
<1>11. proc'["C"].mode = proc["C"].mode
  BY ONLY <1>8, <1>9 DEF Stopped, Fields
<1>12. OnCourse' /\ Seen' /\ Told'
  <2>1. OnCourse /\ Seen /\ Told /\ Fine
    BY DEF GoodInv
  <2>2. OnCourse'
    BY ONLY <1>1, <2>1 DEF OnCourse, Fine
  <2>3. Seen'
    BY ONLY <1>1, <2>1 DEF Seen, Fine
  <2>4. Told'
    BY ONLY <1>1, <1>3, <2>1 DEF Told, Fine
  <2>. QED  BY <2>2, <2>3, <2>4
<1>13. Infos'
  BY ONLY <1>1, <1>2, <1>5 DEF Infos, StopInfo, BySignal
<1>14. Gone'
  BY ONLY <1>1, <1>4, <1>6 DEF Gone
<1>15. Signalled'
  <2>1. cpc <= Len(CCode) /\ proc["C"].mode = "CONT"
    BY <1>5, <1>6, <1>7 DEF GoodInv, Signalled
  <2>. QED  BY ONLY <1>1, <1>3, <1>4, <1>7, <1>10, <1>11, <2>1 DEF Signalled
<1>. QED  BY <1>1, <1>5, <1>12, <1>13, <1>14, <1>15, OnlySignals

\* fork(): the child runs, nothing else has happened.
LEMMA StartKeepsGood ==
  ASSUME TextOK, GoodText, BaseInv, GoodInv, Fine, PStart
  PROVE  /\ OnCourse' /\ Alive' /\ Stepping' /\ Gone' /\ Traps' /\ Data' /\ Data010' /\ Seen' /\ Infos' /\ Told'
         /\ Signalled'
<1>1. ppc = 0 /\ ppc' = 1 /\ proc' = [proc EXCEPT !["C"].st = "run"]
  BY NothingBad DEF PStart
<1>2. UNCHANGED <<test, fault, ret, reg, pinfo, last, cpc, mem, info>> /\ verdict' = verdict
  BY NothingBad DEF PStart
<1>3. DOMAIN proc = {"C", "G"} /\ DOMAIN proc["C"] = Fields
  BY DEF BaseInv, Shape
<1>4. proc'["C"].st = "run" /\ proc'["C"].mode = proc["C"].mode
  BY ONLY <1>1, <1>3 DEF Fields
<1>5. proc'["C"].pend = proc["C"].pend /\ proc'["C"].traced = proc["C"].traced
  BY ONLY <1>1, <1>3 DEF Fields
<1>6. Code' = Code /\ Len(Code)' = Len(Code) /\ Len(CCode)' = Len(CCode) /\ CCode' = CCode
  BY <1>2, TextStays
<1>7. /\ WaitAt[test] \in Nat /\ LastAt[test] \in Nat /\ FirstAt[test] \in Nat /\ OkAt[test] \in Nat /\ cpc \in Nat
      /\ WaitAt[test] >= 1 /\ WaitAt[test] < LastAt[test] /\ OkAt[test] >= 1
      /\ SiteAt[test] \in Nat
  <2>1. cpc \in Nat
    BY DEF BaseInv, Counters, TextOK
  <2>. QED  BY <2>1 DEF GoodText
<1>8. StopAt' = StopAt
  BY ONLY <1>1, <1>2, <1>7 DEF StopAt
<1>9. ppc \notin Armed /\ ppc' \notin Armed'
  BY ONLY <1>1 DEF Armed
<1>10. ByTrap' => ByTrap
  BY <1>2 DEF ByTrap, Fine
<1>11. OnCourse'
  BY ONLY <1>1, <1>2, <1>7 DEF OnCourse
<1>12. Alive'
  <2>1. SUFFICES ASSUME ByTrap
                 PROVE  Alive'
    BY <1>10 DEF Alive
  <2>2. proc["C"].pend = FALSE /\ cpc <= StopAt
    BY <1>1, <1>7, <2>1 DEF GoodInv, Alive
  <2>3. cpc > TraceAt[test] => proc["C"].traced
    BY <2>1 DEF GoodInv, Alive
  <2>. QED  BY ONLY <1>1, <1>2, <1>4, <1>5, <1>7, <1>8, <2>2, <2>3 DEF Alive
<1>13. Stepping'
  <2>1. SUFFICES ASSUME ByTrap
                 PROVE  Stepping'
    BY <1>10 DEF Stepping
  <2>2. proc["C"].mode = "CONT"
    BY <1>1, <1>7, <2>1 DEF GoodInv, Stepping
  <2>. QED  BY ONLY <1>1, <1>2, <1>4, <1>7, <2>2 DEF Stepping
<1>14. Gone'
  BY ONLY <1>1, <1>2, <1>7 DEF Gone
<1>15. Traps'
  <2>1. SUFFICES ASSUME ByTrap
                 PROVE  Traps'
    BY <1>10 DEF Traps
  <2>2. mem["site1"] = "brk" /\ mem["t"] = "nop" /\ mem["hwbrk"] = "none" /\ mem["hwwatch"] = "none"
    BY <1>1, <1>7, <1>9, <2>1 DEF GoodInv, Traps
  <2>. QED  BY ONLY <1>1, <1>2, <1>7, <1>9, <2>2 DEF Traps
<1>16. Data'
  <2>1. /\ test = "t002" /\ cpc > 2 => mem["buf"] = "CHILD_MAGIC"
        /\ test \in {"t003", "t006", "t011", "t012", "t017"} /\ cpc > 2 => mem["addr"] = "t"
    BY DEF GoodInv, Data
  <2>. QED  BY ONLY <1>1, <1>2, <1>4, <1>7, <2>1 DEF Data
<1>17. Data010'
  <2>1. test = "t010" /\ cpc > 2 => mem["greg"] = "index"
    BY <1>1 DEF GoodInv, Data010
  <2>. QED  BY ONLY <1>1, <1>2, <1>7, <2>1 DEF Data010
<1>18. Seen'
  BY ONLY <1>1, <1>2, <1>7 DEF Seen
<1>19. Infos'
  BY ONLY <1>4 DEF Infos
<1>20. Told'
  <2>1. 1 \in 1..Len(Code) => GoodStmt(1)
    BY DEF GoodText
  <2>2. 1 \in 1..Len(Code) => Code[1].op # "checkinfo"
    BY <2>1 DEF GoodStmt
  <2>. QED  BY ONLY <1>1, <1>6, <2>2 DEF Told
<1>21. Signalled'
  <2>1. SUFFICES ASSUME test \in BySignal
                 PROVE  Signalled'
    BY <1>2, OnlyTraps
  <2>2. /\ proc["C"].pend = FALSE /\ cpc < Len(CCode) /\ proc["C"].mode = "CONT"
        /\ test # "t009" => proc["C"].traced = FALSE
    BY <1>1, <1>7, <2>1 DEF GoodInv, Signalled
  <2>. QED  BY ONLY <1>1, <1>2, <1>4, <1>5, <1>6, <1>7, <2>2 DEF Signalled
<1>. QED  BY <1>11, <1>12, <1>13, <1>14, <1>15, <1>16, <1>17, <1>18, <1>19, <1>20, <1>21

\* A step that changes nothing.
LEMMA StutterKeepsGood ==
  ASSUME GoodInv, UNCHANGED vars
  PROVE  /\ OnCourse' /\ Alive' /\ Stepping' /\ Gone' /\ Traps' /\ Data' /\ Data010' /\ Seen' /\ Infos' /\ Told'
         /\ Signalled'
<1>1. UNCHANGED <<test, fault, ppc, ret, reg, pinfo, last, verdict, cpc, proc, mem, info>>
  BY DEF vars, parentVars, childVars
<1>2. Code' = Code /\ Len(Code)' = Len(Code) /\ Len(CCode)' = Len(CCode) /\ CCode' = CCode
  BY <1>1, TextStays
<1>3. StopAt' = StopAt
  BY ONLY <1>1 DEF StopAt
<1>4. Armed' = Armed
  BY ONLY <1>1 DEF Armed
<1>5. OnCourse' /\ Gone' /\ Seen' /\ Told'
  BY <1>1, <1>2 DEF GoodInv, OnCourse, Gone, Seen, Told, Fine
<1>6. Alive' /\ Stepping'
  BY <1>1, <1>3 DEF GoodInv, Alive, Stepping, ByTrap, Fine
<1>7. Traps'
  BY <1>1, <1>4 DEF GoodInv, Traps, ByTrap, Fine
<1>8. Data' /\ Data010'
  BY <1>1 DEF GoodInv, Data, Data010, Fine
<1>9. Infos'
  BY <1>1, <1>2 DEF GoodInv, Infos, Fine
<1>10. Signalled'
  BY <1>1, <1>2 DEF GoodInv, Signalled, Fine
<1>. QED  BY <1>5, <1>6, <1>7, <1>8, <1>9, <1>10

\* The verdict on a good kernel is success.
LEMMA VerdictGood ==
  ASSUME TextOK, GoodText, BaseInv, GoodInv, Fine, PVerdict
  PROVE  verdict' = "ok"
<1>1. ppc > Len(Code) /\ ppc \in Nat /\ Len(Code) \in Nat
  BY DEF PVerdict, BaseInv, Counters, TextOK
<1>2. ret = "ok" /\ ppc > LastAt[test]
  <2>1. OkAt[test] \in Nat /\ OkAt[test] <= Len(Code) /\ LastAt[test] \in Nat /\ LastAt[test] <= Len(Code)
    BY DEF GoodText
  <2>2. ppc > OkAt[test] /\ ppc > LastAt[test]
    BY ONLY <1>1, <2>1
  <2>. QED  BY <2>2 DEF GoodInv, OnCourse
<1>3. /\ Test[test].verdict # "none" /\ (Test[test].verdict = "kill" <=> test = "t018")
      /\ Test[test].verdict = "assert" <=> test = "t021"
  BY DEF TextOK, Fine
<1>4. ~ReturnsEarly
  BY <1>2, <1>3, NothingBad DEF ReturnsEarly
<1>5. /\ proc["C"].st \in {"run", "dead"}
      /\ proc["C"].st = "dead" => proc["C"].status = IF test = "t018" THEN [kind |-> "sig", val |-> "KILL"]
                                                     ELSE [kind |-> "exit", val |-> "0"]
  BY <1>2 DEF GoodInv, Gone
<1>6. ~NoChildren
  BY <1>5 DEF NoChildren
<1>7. PICK p \in Waitable("any") : verdict' = IF Judgement(proc[p].status) /\ ret = "ok" THEN "ok" ELSE "fail"
  BY <1>4, <1>6 DEF PVerdict
<1>8. proc["G"].event = FALSE
  BY DEF BaseInv, GrandInv, Fine, NoProc
<1>9. p = "C" /\ proc["C"].event
  BY <1>7, <1>8 DEF Waitable
<1>10. proc["C"].st = "dead"
  BY <1>5, <1>9 DEF BaseInv, ProcInv
<1>11. Judgement(proc["C"].status)
  <2>1. CASE test = "t018"
    <3>1. proc["C"].status.kind = "sig" /\ proc["C"].status.val = "KILL" /\ Test[test].verdict = "kill"
      BY <1>3, <1>5, <1>10, <2>1
    <3>. QED  BY ONLY <3>1 DEF Judgement
  <2>2. CASE test # "t018"
    <3>1. proc["C"].status.kind = "exit" /\ proc["C"].status.val = "0" /\ Test[test].verdict # "kill"
      BY <1>3, <1>5, <1>10, <2>2
    <3>. QED  BY ONLY <3>1 DEF Judgement, WEXITSTATUSisZero
  <2>. QED  BY <2>1, <2>2
<1>. QED  BY <1>2, <1>7, <1>9, <1>11

\* A test that fails on a good kernel is 015.
LEMMA NextFlake ==
  ASSUME BaseInv, GoodInv, [Next]_vars
  PROVE  fault' = NoFault /\ test' # "t015" => verdict' # "fail"
<1>1. test' = test /\ fault' = fault
  BY Frames
<1>2. SUFFICES ASSUME fault = NoFault, test # "t015", verdict' = "fail"
               PROVE  FALSE
  BY <1>1
<1>3. TextOK
  BY TextHolds DEF BaseInv, Counters
<1>4. verdict # "fail"
  BY <1>2 DEF GoodInv
<1>5. PVerdict \/ PStart
  BY <1>2, <1>4, Frames
<1>6. PVerdict
  <2>1. PStart => verdict' = verdict
    BY <1>2 DEF PStart, NoFault
  <2>. QED  BY <1>2, <1>4, <1>5, <2>1
<1>7. CASE test = "t000"
  <2>1. Test[test].verdict = "none"
    BY <1>3, <1>7 DEF TextOK
  <2>. QED  BY <1>2, <1>6, <2>1 DEF PVerdict, ReturnsEarly
<1>8. CASE test # "t000"
  <2>1. Fine
    BY <1>2, <1>6, <1>8 DEF Fine, PVerdict
  <2>2. GoodText
    BY <2>1, GoodTextHolds
  <2>. QED  BY <1>2, <1>3, <1>6, <2>1, <2>2, VerdictGood
<1>. QED  BY <1>7, <1>8

\* Every step keeps GoodInv.
LEMMA NextGood ==
  ASSUME BaseInv, GoodInv, [Next]_vars
  PROVE  GoodInv'
<1>1. fault' = NoFault /\ test' # "t015" => verdict' # "fail"
  BY NextFlake
<1>2. /\ OnCourse' /\ Alive' /\ Stepping' /\ Gone' /\ Traps' /\ Data' /\ Data010' /\ Seen' /\ Infos' /\ Told'
      /\ Signalled'
  <2>1. CASE ~Fine'
    <3>1. ~ByTrap'
      BY <2>1 DEF ByTrap
    <3>. QED  BY ONLY <2>1, <3>1 DEF OnCourse, Alive, Stepping, Gone, Traps, Data, Data010, Seen, Infos, Told, Signalled
  <2>2. CASE Fine'
    <3>1. Fine
      BY <2>2, FineBefore
    <3>2. TextOK /\ GoodText
      BY <3>1, TextHolds, GoodTextHolds DEF BaseInv, Counters
    <3>3. Statement \/ Child \/ TakeStop("C") \/ PStart \/ UNCHANGED vars
      BY <2>2, FineSteps
    <3>. QED  BY <3>1, <3>2, <3>3, StatementKeepsGood, ChildKeepsGood, TakeKeepsGood, StartKeepsGood, StutterKeepsGood
  <2>. QED  BY <2>1, <2>2
<1>. QED  BY <1>1, <1>2 DEF GoodInv

\* GoodInv holds at the start.
LEMMA InitGood == Init => GoodInv
<1>. SUFFICES ASSUME Init PROVE GoodInv
  OBVIOUS
<1>1. BaseInv
  BY InitBase
<1>2. ppc = 0 /\ cpc = 1 /\ verdict = "none" /\ proc["C"] = NoProc
      /\ mem = [c \in Cell |-> IF c \in {"site1", "site2"} THEN "brk" ELSE IF c = "t" THEN "nop" ELSE "none"]
  BY DEF Init
<1>3. proc["C"].st = "none" /\ proc["C"].pend = FALSE /\ proc["C"].traced = FALSE /\ proc["C"].mode = "CONT"
  BY ONLY <1>2 DEF NoProc
<1>4. mem["site1"] = "brk" /\ mem["t"] = "nop" /\ mem["hwbrk"] = "none" /\ mem["hwwatch"] = "none"
  BY ONLY <1>2 DEF Cell
<1>5. verdict # "fail"
  BY <1>2
<1>6. CASE ~Fine
  <2>1. ~ByTrap
    BY <1>6 DEF ByTrap
  <2>2. OnCourse /\ Alive /\ Stepping /\ Gone /\ Traps /\ Data /\ Data010 /\ Seen /\ Infos /\ Told /\ Signalled
    BY ONLY <1>6, <2>1 DEF OnCourse, Alive, Stepping, Gone, Traps, Data, Data010, Seen, Infos, Told, Signalled
  <2>. QED  BY <1>5, <2>2 DEF GoodInv
<1>7. CASE Fine
  <2>1. GoodText /\ TextOK
    BY <1>1, <1>7, TextHolds, GoodTextHolds DEF BaseInv, Counters
  <2>2. /\ WaitAt[test] \in Nat /\ LastAt[test] \in Nat /\ OkAt[test] \in Nat /\ SiteAt[test] \in Nat
        /\ FirstAt[test] \in Nat /\ WaitAt[test] >= 1 /\ WaitAt[test] < LastAt[test] /\ OkAt[test] >= 1 /\ TraceAt[test] \in Nat
        /\ test \notin BySignal => SiteAt[test] >= 2 /\ TraceAt[test] >= 1
        /\ test \in BySignal => Len(CCode) >= 3
        /\ Len(CCode) \in Nat
    BY <1>1, <2>1, Numbers
  <2>3. OnCourse /\ Gone /\ Told /\ Infos
    BY ONLY <1>2, <1>3, <2>2 DEF OnCourse, Gone, Told, Infos
  <2>4. ByTrap => cpc <= StopAt /\ ~(cpc > TraceAt[test])
    BY ONLY <1>2, <2>2 DEF StopAt, ByTrap
  <2>5. Alive
    BY ONLY <1>2, <1>3, <2>2, <2>4 DEF Alive
  <2>6. Stepping
    BY ONLY <1>2, <1>3, <2>2 DEF Stepping
  <2>7. ppc \notin Armed
    BY ONLY <1>2 DEF Armed
  <2>8. Traps
    BY ONLY <1>2, <1>4, <2>2, <2>7 DEF Traps
  <2>9. Data /\ Data010
    BY ONLY <1>2, <1>3, <2>2 DEF Data, Data010
  <2>10. Seen
    BY ONLY <1>2, <2>2 DEF Seen
  <2>11. Signalled
    BY ONLY <1>2, <1>3, <2>2 DEF Signalled
  <2>. QED  BY <1>5, <2>3, <2>5, <2>6, <2>8, <2>9, <2>10, <2>11 DEF GoodInv
<1>. QED  BY <1>6, <1>7

\* GoodInv is an invariant.
THEOREM GoodRuns == Spec => []GoodInv
<1>1. Init => GoodInv
  BY InitGood
<1>2. BaseInv /\ GoodInv /\ [Next]_vars => GoodInv'
  BY NextGood
<1>. QED  BY <1>1, <1>2, Base, PTL DEF Spec

\* On a kernel that follows ptrace(2) no test fails, whatever the interleaving of P and its child:
\* no wait() meets the wrong event, no request comes too early, no check is wrong.  015 is left
\* out: there the stop of the grandchild may come before the fork event of the child.
THEOREM NeverFlaky == Spec => [](test # "t015" => NoFlake)
<1>1. GoodInv => (test # "t015" => NoFlake)
  BY DEF GoodInv, NoFlake
<1>. QED  BY <1>1, GoodRuns, PTL

\* On such a kernel every request of parent_func() finds the child stopped and traced, in all
\* the tests: the wait() calls are in the right places.
THEOREM RequestsMeetStopped == Spec => []RequestsMeetStoppedChild
<1>1. BaseInv /\ GoodInv => RequestsMeetStoppedChild
  <2>. SUFFICES ASSUME BaseInv, GoodInv, fault = NoFault, test # "t000", ppc \in 1..Len(Code), verdict = "none",
                       Code[ppc].op \in Requests
                PROVE  proc["C"].st = "stop" /\ proc["C"].traced
    BY DEF RequestsMeetStoppedChild, Requests
  <2>1. TextOK
    BY TextHolds DEF BaseInv, Counters
  <2>2. CASE test = "t015"
    <3>1. StmtOK(ppc)
      BY <2>1 DEF TextOK
    <3>2. ppc \in H
      BY <2>2, <3>1 DEF StmtOK
    <3>. QED  BY <2>2, <3>2 DEF BaseInv, HeldInv, Held
  <2>3. CASE test # "t015"
    <3>1. Fine
      BY <2>3 DEF Fine
    <3>2. GoodText
      BY <3>1, GoodTextHolds
    <3>. QED  BY <2>1, <3>1, <3>2, RequestHeld DEF Held, GoodInv
  <2>. QED  BY <2>2, <2>3
<1>. QED  BY <1>1, Base, GoodRuns, PTL
=============================================================================
