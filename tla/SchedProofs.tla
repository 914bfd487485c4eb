---------------------------- MODULE SchedProofs ----------------------------
(***************************************************************************)
(* Proofs about the scheduling tests (module Sched), for every number of   *)
(* CPUs, every number of rounds of time_sharing, every fault of the kernel *)
(* and every order in which it runs the tasks.                             *)
(***************************************************************************)
EXTENDS Sched, TLAPS

-----------------------------------------------------------------------------
(* The programs: what the proofs need of the text of a test *)

Births == {"fork", "create"}
Ends == {"return", "exit"}
\* The steps that have an orelse, and those an orelse is made of
Fails == {"need", "try", "getaff", "setaff", "check", "fork", "created", "pipe", "read"}
Simple == {"kill", "close", "free", "return", "exit"}
Fields == {"cpu", "new", "got", "got2", "own", "its", "result", "i"}

\* A step that task t may take
StepOK(t, s) ==
  /\ s.op = "return" => t = "P" /\ s.v \in {"ok", "ng", "order"}
  /\ s.op = "exit" => t # "P" /\ s.v \in {0, 1}
  /\ s.op \in Births => t = "P" /\ s.who \in Child
  /\ s.op = "pipe" => t = "P"
  /\ s.op \in {"pipe", "read", "write"} => s.p \in Pipes
  /\ s.op = "getcpu" => s.r \in {"cpu", "new"}
  /\ s.op = "getaff" => s.r \in {"own", "its"}
  /\ s.op = "read" => s.r \in {"got", "got2"}
  /\ s.op = "flag" => s.k \in 0..2
  /\ s.op = "kill" => s.who \in Task \union {"nobody"} /\ s.sig \in {"USR1", "USR2", "KILL"}
  /\ s.op = "sigaction" => s.sig \in {"USR1", "USR2"}
  /\ s.op \in {"post", "wait"} => s.s \in Sems
  /\ s.op = "setaff" => s.who \in Task \union {"self", "nobody"}

\* Its orelse is made of simple steps and comes to an end; only a read() may go on instead.
ElseOK(t, s) ==
  /\ Len(s.orelse) \in Nat
  /\ Len(s.orelse) = 0 => s.op = "read" /\ s.orelse = <<>>
  /\ Len(s.orelse) > 0 => s.orelse # <<>>
  /\ \A j \in 1..Len(s.orelse) : /\ s.orelse[j].op \in Simple /\ StepOK(t, s.orelse[j])
                                 /\ s.orelse[j].op \in Ends <=> j = Len(s.orelse)

\* The same, without sending a signal
Recovers(t, s) == ElseOK(t, s) /\ \A j \in 1..Len(s.orelse) : s.orelse[j].op # "kill"

Proper(t, s) == StepOK(t, s) /\ (s.op \in Fails => ElseOK(t, s))

\* The program of task t ends with its last step, and no loop of it makes a task.
TextOK(t, p) ==
  /\ Len(p) \in Nat
  /\ \A k \in 1..Len(p) : Proper(t, p[k])
  /\ \A k \in 1..Len(p) :
       /\ p[k].op \in Ends <=> k = Len(p)
       /\ p[k].op = "again" => p[k].back = 4 /\ 4 < k /\ \A j \in (k - 4)..k : p[j].op \notin Births

\* P makes each of its children once, and each has something to do.
BirthsOK(X) ==
  /\ Len(X.P) > 0
  /\ \A k \in 1..Len(X.P) : X.P[k].op \in Births =>
       /\ Len(X[X.P[k].who]) > 0
       /\ \A l \in 1..Len(X.P) : X.P[l].op \in Births /\ X.P[l].who = X.P[k].who => l = k

SuiteOK(X) == (\A t \in Task : TextOK(t, X[t])) /\ BirthsOK(X)

\* A test without steps of some kinds, and one that sends no signal
Lacks(X, ops) == \A t \in Task : \A k \in 1..Len(X[t]) : X[t][k].op \notin ops
NoKill(X) ==
  \A t \in Task : \A k \in 1..Len(X[t]) :
    /\ X[t][k].op # "kill"
    /\ X[t][k].op \in Fails => \A j \in 1..Len(X[t][k].orelse) : X[t][k].orelse[j].op # "kill"

\* What a task does when a step fails, most of the time
Quit(t) == IF t = "P" THEN NG ELSE Fail

\* A program whose steps are in order, but for the orelse of those at the places of odd
Body(t, p, odd) ==
  /\ Len(p) \in Nat \ {0}
  /\ \A k \in 1..Len(p) :
       /\ StepOK(t, p[k])
       /\ p[k].op \in Fails => k \in odd \/ p[k].orelse = Quit(t) \/ (p[k].op = "read" /\ p[k].orelse = <<>>)
       /\ p[k].op \in Ends <=> k = Len(p)
       /\ p[k].op = "again" => p[k].back = 4 /\ 4 < k /\ \A j \in (k - 4)..k : p[j].op \notin Births

\* Most tests have P alone at work, and no steps but calls and assertions.
Special == {"fork", "create", "again", "kill", "mark", "use", "print", "post", "wait"}
Straight(p) == Body("P", p, {}) /\ \A k \in 1..Len(p) : p[k].op \notin Special

\* The usual orelse of a task
LEMMA ElseQuit ==
  ASSUME NEW t \in Task, NEW s, s.orelse = Quit(t)
  PROVE  ElseOK(t, s) /\ \A j \in 1..Len(s.orelse) : s.orelse[j].op # "kill"
  BY DEF ElseOK, StepOK, Simple, Ends, Births, Quit, NG, Return, Fail, Exit, Task

\* A read() that goes on at the end of the file
LEMMA NoElse ==
  ASSUME NEW t \in Task, NEW s, s.op = "read", s.orelse = <<>>
  PROVE  ElseOK(t, s) /\ \A j \in 1..Len(s.orelse) : s.orelse[j].op # "kill"
  BY DEF ElseOK

\* An orelse of two steps, the last of which ends the task
LEMMA Else2 ==
  ASSUME NEW t \in Task, NEW s, NEW s1, NEW s2, s.orelse = << s1, s2 >>,
         s1.op \in Simple, s1.op \notin Ends, StepOK(t, s1), s2.op \in Ends, StepOK(t, s2)
  PROVE  ElseOK(t, s) /\ (s1.op # "kill" => \A j \in 1..Len(s.orelse) : s.orelse[j].op # "kill")
  BY DEF ElseOK, Simple, Ends

\* The same, for three
LEMMA Else3 ==
  ASSUME NEW t \in Task, NEW s, NEW s1, NEW s2, NEW s3, s.orelse = << s1, s2, s3 >>,
         s1.op \in Simple, s1.op \notin Ends, StepOK(t, s1), s2.op \in Simple, s2.op \notin Ends, StepOK(t, s2),
         s3.op \in Ends, StepOK(t, s3)
  PROVE  ElseOK(t, s) /\ (s1.op # "kill" /\ s2.op # "kill" => \A j \in 1..Len(s.orelse) : s.orelse[j].op # "kill")
  BY DEF ElseOK, Simple, Ends

\* A task that is never made has no steps.
LEMMA NoProgram == ASSUME NEW t PROVE TextOK(t, None) /\ Len(None) = 0
  BY DEF TextOK, None

\* The text of a program, from its steps
LEMMA BodyText ==
  ASSUME NEW t \in Task, NEW p, NEW odd, Body(t, p, odd), \A k \in odd : ElseOK(t, p[k])
  PROVE  TextOK(t, p)
<1>1. ASSUME NEW k \in 1..Len(p), p[k].op \in Fails PROVE ElseOK(t, p[k])
  BY <1>1, ElseQuit, NoElse DEF Body
<1>. QED  BY <1>1 DEF Body, TextOK, Proper

\* No signal is sent by a program that sends none in the steps of odd.
LEMMA BodyNoKill ==
  ASSUME NEW t \in Task, NEW p, NEW odd, Body(t, p, odd),
         \A k \in odd : \A j \in 1..Len(p[k].orelse) : p[k].orelse[j].op # "kill"
  PROVE  \A k \in 1..Len(p) : p[k].op \in Fails => \A j \in 1..Len(p[k].orelse) : p[k].orelse[j].op # "kill"
  BY ElseQuit, NoElse DEF Body

\* A test with no task but P
LEMMA AloneOK ==
  ASSUME NEW p, Straight(p)
  PROVE  SuiteOK(Alone(p)) /\ Lacks(Alone(p), Special) /\ NoKill(Alone(p))
<1>1. /\ Alone(p).P = p /\ Alone(p)["P"] = p
      /\ \A t \in Task : t # "P" => Alone(p)[t] = None
  BY DEF Alone, With, Task
<1>2. TextOK("P", p)
  BY BodyText DEF Straight, Task
<1>3. \A t \in Task : TextOK(t, Alone(p)[t])
  BY <1>1, <1>2, NoProgram
<1>4. BirthsOK(Alone(p))
  BY <1>1 DEF BirthsOK, Straight, Body, Special, Births
<1>5. Lacks(Alone(p), Special)
  BY <1>1, NoProgram DEF Lacks, Straight
<1>6. NoKill(Alone(p))
  <2>1. \A k \in 1..Len(p) : p[k].op \in Fails => \A j \in 1..Len(p[k].orelse) : p[k].orelse[j].op # "kill"
    BY BodyNoKill DEF Straight, Task
  <2>. QED  BY <1>1, <2>1, NoProgram DEF NoKill, Straight, Special
<1>. QED  BY <1>3, <1>4, <1>5, <1>6 DEF SuiteOK

USE DEF Return, OK, Exit, Need, TryElse, Try, ForkElse, Fork, Create, Waitpid, Getcpu, Getaff, GetOwn,
        Setaff, SetOwn, CheckElse, Check, Sigaction, Kill, SpinSig, SpinFlag, SpinWaiting, SetFlag, Pipe, Write,
        ReadElse, Read, Close, Post, Wait, Again, Usleep, Yield, InLoop, Mark, Use, Free, Created, None

\* The tests with no task but P
LEMMA AloneTests ==
  ASSUME NEW n \in Nat
  PROVE  \A X \in {Set000, Set001, Set002, Set003, Set004, Set005, Set006, Set007(n), Set012, Get000, Get001, Get002, Get003, Get004(n)} :
           SuiteOK(X) /\ Lacks(X, Special) /\ NoKill(X)
<1>1. Straight(Set000.P) /\ Set000 = Alone(Set000.P)
  BY DEF Set000, Alone, With, Straight, Body, Quit, StepOK, Fails, Ends, Special, Births, Task, Child, Pipes, Sems
<1>2. Straight(Set001.P) /\ Set001 = Alone(Set001.P)
  BY DEF Set001, Alone, With, Straight, Body, Quit, StepOK, Fails, Ends, Special, Births, Task, Child, Pipes, Sems
<1>3. Straight(Set002.P) /\ Set002 = Alone(Set002.P)
  BY DEF Set002, Alone, With, Straight, Body, Quit, StepOK, Fails, Ends, Special, Births, Task, Child, Pipes, Sems
<1>4. Straight(Set003.P) /\ Set003 = Alone(Set003.P)
  BY DEF Set003, Alone, With, Straight, Body, Quit, StepOK, Fails, Ends, Special, Births, Task, Child, Pipes, Sems
<1>5. Straight(Set004.P) /\ Set004 = Alone(Set004.P)
  BY DEF Set004, Alone, With, Straight, Body, Quit, StepOK, Fails, Ends, Special, Births, Task, Child, Pipes, Sems
<1>6. Straight(Set005.P) /\ Set005 = Alone(Set005.P)
  BY DEF Set005, Alone, With, Straight, Body, Quit, StepOK, Fails, Ends, Special, Births, Task, Child, Pipes, Sems
<1>7. Straight(Set006.P) /\ Set006 = Alone(Set006.P)
  BY DEF Set006, Alone, With, Straight, Body, Quit, StepOK, Fails, Ends, Special, Births, Task, Child, Pipes, Sems
<1>8. Straight(Set007(n).P) /\ Set007(n) = Alone(Set007(n).P)
  BY DEF Set007, Alone, With, Straight, Body, Quit, StepOK, Fails, Ends, Special, Births, Task, Child, Pipes, Sems
<1>9. Straight(Set012.P) /\ Set012 = Alone(Set012.P)
  BY DEF Set012, Alone, With, Straight, Body, Quit, StepOK, Fails, Ends, Special, Births, Task, Child, Pipes, Sems
<1>10. Straight(Get000.P) /\ Get000 = Alone(Get000.P)
  BY DEF Get000, Alone, With, Straight, Body, Quit, StepOK, Fails, Ends, Special, Births, Task, Child, Pipes, Sems
<1>11. Straight(Get001.P) /\ Get001 = Alone(Get001.P)
  BY DEF Get001, Alone, With, Straight, Body, Quit, StepOK, Fails, Ends, Special, Births, Task, Child, Pipes, Sems
<1>12. Straight(Get002.P) /\ Get002 = Alone(Get002.P)
  BY DEF Get002, Alone, With, Straight, Body, Quit, StepOK, Fails, Ends, Special, Births, Task, Child, Pipes, Sems
<1>13. Straight(Get003.P) /\ Get003 = Alone(Get003.P)
  BY DEF Get003, Alone, With, Straight, Body, Quit, StepOK, Fails, Ends, Special, Births, Task, Child, Pipes, Sems
<1>14. Straight(Get004(n).P) /\ Get004(n) = Alone(Get004(n).P)
  BY DEF Get004, Alone, With, Straight, Body, Quit, StepOK, Fails, Ends, Special, Births, Task, Child, Pipes, Sems
<1>. QED  BY <1>1, <1>2, <1>3, <1>4, <1>5, <1>6, <1>7, <1>8, <1>9, <1>10, <1>11, <1>12, <1>13, <1>14, AloneOK

\* A program without a loop is a Body when its steps are in order and only the last ends it.
LEMMA LooplessBody ==
  ASSUME NEW t, NEW p, NEW odd, Len(p) \in Nat \ {0},
         \A k \in 1..Len(p) : StepOK(t, p[k]),
         \A k \in 1..Len(p) : p[k].op \in Fails => k \in odd \/ p[k].orelse = Quit(t) \/ (p[k].op = "read" /\ p[k].orelse = <<>>),
         \A k \in 1..Len(p) : (p[k].op \in Ends <=> k = Len(p)) /\ p[k].op # "again"
  PROVE  Body(t, p, odd)
  BY DEF Body

\* The same for TextOK.
LEMMA LooplessText ==
  ASSUME NEW t, NEW p, Len(p) \in Nat \ {0},
         \A k \in 1..Len(p) : Proper(t, p[k]),
         \A k \in 1..Len(p) : (p[k].op \in Ends <=> k = Len(p)) /\ p[k].op # "again"
  PROVE  TextOK(t, p)
  BY DEF TextOK

\* sched_setaffinity 008: P moves a child
LEMMA Set008OK ==
  SuiteOK(Set008) /\ Lacks(Set008, {"mark", "use", "print", "post", "wait"})
<1>1. Body("P", Set008.P, {})
  BY DEF Set008, With, Migrate, Migrated, Body, Quit, StepOK, Fails, Ends, Births, Task, Child, Pipes, Sems
<1>2. Body("C1", Set008.C1, {})
  BY DEF Set008, With, Migrate, Migrated, Body, Quit, StepOK, Fails, Ends, Births, Task, Child, Pipes, Sems
<1>3. Set008.C2 = None /\ Set008.C3 = None
  BY DEF Set008, With, Migrate, Migrated
<1>4. \A t \in Task : TextOK(t, Set008[t])
  BY <1>1, <1>2, <1>3, BodyText, NoProgram DEF Task
<1>5. \A k \in 1..Len(Set008.P) : Set008.P[k].op \in Births => (k = 4 /\ Set008.P[k].who = "C1")
  BY DEF Set008, With, Migrate, Migrated, Births
<1>6. BirthsOK(Set008)
  BY <1>1, <1>2, <1>3, <1>5 DEF Body, BirthsOK
<1>7. \A k \in 1..Len(Set008.P) : Set008.P[k].op \notin {"mark", "use", "print", "post", "wait"}
  BY DEF Set008, With, Migrate, Migrated
<1>8. \A k \in 1..Len(Set008.C1) : Set008.C1[k].op \notin {"mark", "use", "print", "post", "wait"}
  BY DEF Set008, With, Migrate, Migrated
<1>9. Lacks(Set008, {"mark", "use", "print", "post", "wait"})
  BY <1>7, <1>8, <1>3, NoProgram DEF Lacks, Task
<1>. QED  BY <1>4, <1>6, <1>9 DEF SuiteOK

\* sched_setaffinity 009: the same, with another way to choose the CPU
LEMMA Set009OK ==
  SuiteOK(Set009) /\ Lacks(Set009, {"mark", "use", "print", "post", "wait"})
<1>1. Body("P", Set009.P, {})
  BY DEF Set009, With, Migrate, Migrated, Body, Quit, StepOK, Fails, Ends, Births, Task, Child, Pipes, Sems
<1>2. Body("C1", Set009.C1, {})
  BY DEF Set009, With, Migrate, Migrated, Body, Quit, StepOK, Fails, Ends, Births, Task, Child, Pipes, Sems
<1>3. Set009.C2 = None /\ Set009.C3 = None
  BY DEF Set009, With, Migrate, Migrated
<1>4. \A t \in Task : TextOK(t, Set009[t])
  BY <1>1, <1>2, <1>3, BodyText, NoProgram DEF Task
<1>5. \A k \in 1..Len(Set009.P) : Set009.P[k].op \in Births => (k = 4 /\ Set009.P[k].who = "C1")
  BY DEF Set009, With, Migrate, Migrated, Births
<1>6. BirthsOK(Set009)
  BY <1>1, <1>2, <1>3, <1>5 DEF Body, BirthsOK
<1>7. \A k \in 1..Len(Set009.P) : Set009.P[k].op \notin {"mark", "use", "print", "post", "wait"}
  BY DEF Set009, With, Migrate, Migrated
<1>8. \A k \in 1..Len(Set009.C1) : Set009.C1[k].op \notin {"mark", "use", "print", "post", "wait"}
  BY DEF Set009, With, Migrate, Migrated
<1>9. Lacks(Set009, {"mark", "use", "print", "post", "wait"})
  BY <1>7, <1>8, <1>3, NoProgram DEF Lacks, Task
<1>. QED  BY <1>4, <1>6, <1>9 DEF SuiteOK

\* sched_setaffinity 010: two children; a call that fails releases or kills them
LEMMA Set010OK ==
  SuiteOK(Set010) /\ Lacks(Set010, {"mark", "use", "print", "post", "wait"})
<1>1. Body("P", Set010.P, {7, 8, 9, 12})
  BY DEF Set010, child1_fn, child2_fn, Body, Quit, StepOK, Fails, Ends, Births, Task, Child, Pipes, Sems
<1>2. Set010.P[7].orelse = << Kill("C1", "USR1"), Return("ng") >>
  BY DEF Set010, child1_fn, child2_fn, KillBoth
<1>3. ElseOK("P", Set010.P[7]) /\ (\A j \in 1..Len(Set010.P[7].orelse) : TRUE)
  BY <1>2, Else2 DEF StepOK, Simple, Ends, Births, Task
<1>4. Set010.P[8].orelse = << Kill("C1", "KILL"), Kill("C2", "KILL"), Return("ng") >>
  BY DEF Set010, child1_fn, child2_fn, KillBoth
<1>5. ElseOK("P", Set010.P[8]) /\ (\A j \in 1..Len(Set010.P[8].orelse) : TRUE)
  BY <1>4, Else3 DEF StepOK, Simple, Ends, Births, Task
<1>6. Set010.P[9].orelse = << Kill("C1", "KILL"), Kill("C2", "KILL"), Return("ng") >>
  BY DEF Set010, child1_fn, child2_fn, KillBoth
<1>7. ElseOK("P", Set010.P[9]) /\ (\A j \in 1..Len(Set010.P[9].orelse) : TRUE)
  BY <1>6, Else3 DEF StepOK, Simple, Ends, Births, Task
<1>8. Set010.P[12].orelse = << Kill("nobody", "USR1"), Return("ng") >>
  BY DEF Set010, child1_fn, child2_fn, KillBoth
<1>9. ElseOK("P", Set010.P[12]) /\ (\A j \in 1..Len(Set010.P[12].orelse) : TRUE)
  BY <1>8, Else2 DEF StepOK, Simple, Ends, Births, Task
<1>10. \A k \in {7, 8, 9, 12} : ElseOK("P", Set010.P[k])
  BY <1>2, <1>3, <1>4, <1>5, <1>6, <1>7, <1>8, <1>9
<1>11. Body("C1", Set010.C1, {})
  BY DEF Set010, child1_fn, child2_fn, Body, Quit, StepOK, Fails, Ends, Births, Task, Child, Pipes, Sems
<1>12. Body("C2", Set010.C2, {})
  BY DEF Set010, child1_fn, child2_fn, Body, Quit, StepOK, Fails, Ends, Births, Task, Child, Pipes, Sems
<1>13. Set010.C3 = None
  BY DEF Set010, child1_fn, child2_fn
<1>14. \A t \in Task : TextOK(t, Set010[t])
  BY <1>1, <1>10, <1>11, <1>12, <1>13, BodyText, NoProgram DEF Task
<1>15. \A k \in 1..Len(Set010.P) : Set010.P[k].op \in Births => (k = 4 /\ Set010.P[k].who = "C1") \/ (k = 7 /\ Set010.P[k].who = "C2")
  BY DEF Set010, child1_fn, child2_fn, Births
<1>16. BirthsOK(Set010)
  BY <1>1, <1>11, <1>12, <1>13, <1>15 DEF Body, BirthsOK
<1>17. \A k \in 1..Len(Set010.P) : Set010.P[k].op \notin {"mark", "use", "print", "post", "wait"}
  BY DEF Set010, child1_fn, child2_fn
<1>18. \A k \in 1..Len(Set010.C1) : Set010.C1[k].op \notin {"mark", "use", "print", "post", "wait"}
  BY DEF Set010, child1_fn, child2_fn
<1>19. \A k \in 1..Len(Set010.C2) : Set010.C2[k].op \notin {"mark", "use", "print", "post", "wait"}
  BY DEF Set010, child1_fn, child2_fn
<1>20. Lacks(Set010, {"mark", "use", "print", "post", "wait"})
  BY <1>17, <1>18, <1>19, <1>13, NoProgram DEF Lacks, Task
<1>. QED  BY <1>14, <1>16, <1>20 DEF SuiteOK

\* sched_setaffinity 011: two threads
LEMMA Set011OK ==
  SuiteOK(Set011) /\ Lacks(Set011, {"mark", "use", "print"}) /\ NoKill(Set011)
<1>1. Len(Set011.P) = 19
  BY DEF Set011, child_fn_common
<1>2. StepOK("P", Set011.P[1]) /\ StepOK("P", Set011.P[2]) /\ StepOK("P", Set011.P[3]) /\ StepOK("P", Set011.P[4])
  BY DEF Set011, child_fn_common, StepOK, Births, Task, Child, Pipes, Sems
<1>3. StepOK("P", Set011.P[5]) /\ StepOK("P", Set011.P[6]) /\ StepOK("P", Set011.P[7]) /\ StepOK("P", Set011.P[8])
  BY DEF Set011, child_fn_common, StepOK, Births, Task, Child, Pipes, Sems
<1>4. StepOK("P", Set011.P[9]) /\ StepOK("P", Set011.P[10]) /\ StepOK("P", Set011.P[11]) /\ StepOK("P", Set011.P[12])
  BY DEF Set011, child_fn_common, StepOK, Births, Task, Child, Pipes, Sems
<1>5. StepOK("P", Set011.P[13]) /\ StepOK("P", Set011.P[14]) /\ StepOK("P", Set011.P[15]) /\ StepOK("P", Set011.P[16])
  BY DEF Set011, child_fn_common, StepOK, Births, Task, Child, Pipes, Sems
<1>6. StepOK("P", Set011.P[17]) /\ StepOK("P", Set011.P[18]) /\ StepOK("P", Set011.P[19])
  BY DEF Set011, child_fn_common, StepOK, Births, Task, Child, Pipes, Sems
<1>7. \A k \in 1..19 : StepOK("P", Set011.P[k])
  BY ONLY <1>2, <1>3, <1>4, <1>5, <1>6
<1>8. \A k \in 1..19 : Set011.P[k].op \in Fails =>
       k \in {} \/ Set011.P[k].orelse = Quit("P") \/ (Set011.P[k].op = "read" /\ Set011.P[k].orelse = <<>>)
  BY DEF Set011, child_fn_common, Fails, Quit
<1>9. \A k \in 1..19 : (Set011.P[k].op \in Ends <=> k = 19) /\ Set011.P[k].op # "again"
  BY DEF Set011, child_fn_common, Ends
<1>10. Len(Set011.P) \in Nat \ {0}
  BY <1>1
<1>11. \A k \in 1..Len(Set011.P) : StepOK("P", Set011.P[k])
  BY ONLY <1>1, <1>7
<1>12. \A k \in 1..Len(Set011.P) : Set011.P[k].op \in Fails =>
       k \in {} \/ Set011.P[k].orelse = Quit("P") \/ (Set011.P[k].op = "read" /\ Set011.P[k].orelse = <<>>)
  BY ONLY <1>1, <1>8
<1>13. \A k \in 1..Len(Set011.P) : (Set011.P[k].op \in Ends <=> k = Len(Set011.P)) /\ Set011.P[k].op # "again"
  BY ONLY <1>1, <1>9
<1>14. Body("P", Set011.P, {})
  BY ONLY <1>10, <1>11, <1>12, <1>13, LooplessBody
<1>15. Body("C1", Set011.C1, {})
  BY DEF Set011, child_fn_common, Body, Quit, StepOK, Fails, Ends, Births, Task, Child, Pipes, Sems
<1>16. Body("C2", Set011.C2, {})
  BY DEF Set011, child_fn_common, Body, Quit, StepOK, Fails, Ends, Births, Task, Child, Pipes, Sems
<1>17. Set011.C3 = None
  BY DEF Set011, child_fn_common
<1>18. \A t \in Task : TextOK(t, Set011[t])
  BY <1>14, <1>15, <1>16, <1>17, BodyText, NoProgram DEF Task
<1>19. \A k \in 1..Len(Set011.P) : Set011.P[k].op \in Births => (k = 3 /\ Set011.P[k].who = "C1") \/ (k = 7 /\ Set011.P[k].who = "C2")
  BY DEF Set011, child_fn_common, Births
<1>20. BirthsOK(Set011)
  BY <1>14, <1>15, <1>16, <1>17, <1>19 DEF Body, BirthsOK
<1>21. \A k \in 1..Len(Set011.P) : Set011.P[k].op \notin {"mark", "use", "print", "kill"}
  BY DEF Set011, child_fn_common
<1>22. \A k \in 1..Len(Set011.C1) : Set011.C1[k].op \notin {"mark", "use", "print", "kill"}
  BY DEF Set011, child_fn_common
<1>23. \A k \in 1..Len(Set011.C2) : Set011.C2[k].op \notin {"mark", "use", "print", "kill"}
  BY DEF Set011, child_fn_common
<1>24. Lacks(Set011, {"mark", "use", "print"})
  BY <1>21, <1>22, <1>23, <1>17, NoProgram DEF Lacks, Task
<1>25. \A k \in 1..Len(Set011.P) : Set011.P[k].op \in Fails =>
       \A j \in 1..Len(Set011.P[k].orelse) : Set011.P[k].orelse[j].op # "kill"
  BY <1>14, <1>15, <1>16, <1>17, BodyNoKill DEF Task
<1>26. \A k \in 1..Len(Set011.C1) : Set011.C1[k].op \in Fails =>
       \A j \in 1..Len(Set011.C1[k].orelse) : Set011.C1[k].orelse[j].op # "kill"
  BY <1>14, <1>15, <1>16, <1>17, BodyNoKill DEF Task
<1>27. \A k \in 1..Len(Set011.C2) : Set011.C2[k].op \in Fails =>
       \A j \in 1..Len(Set011.C2[k].orelse) : Set011.C2[k].orelse[j].op # "kill"
  BY <1>14, <1>15, <1>16, <1>17, BodyNoKill DEF Task
<1>28. NoKill(Set011)
  BY <1>21, <1>22, <1>23, <1>25, <1>26, <1>27, <1>17, NoProgram DEF NoKill, Task
<1>. QED  BY <1>18, <1>20, <1>24, <1>28 DEF SuiteOK

\* sched_getaffinity 005: the affinity of a child that waits for a signal
LEMMA Get005OK ==
  SuiteOK(Get005) /\ Lacks(Get005, {"mark", "use", "print", "post", "wait"})
<1>1. Body("P", Get005.P, {})
  BY DEF Get005, With, Body, Quit, StepOK, Fails, Ends, Births, Task, Child, Pipes, Sems
<1>2. Body("C1", Get005.C1, {})
  BY DEF Get005, With, Body, Quit, StepOK, Fails, Ends, Births, Task, Child, Pipes, Sems
<1>3. Get005.C2 = None /\ Get005.C3 = None
  BY DEF Get005, With
<1>4. \A t \in Task : TextOK(t, Get005[t])
  BY <1>1, <1>2, <1>3, BodyText, NoProgram DEF Task
<1>5. \A k \in 1..Len(Get005.P) : Get005.P[k].op \in Births => (k = 2 /\ Get005.P[k].who = "C1")
  BY DEF Get005, With, Births
<1>6. BirthsOK(Get005)
  BY <1>1, <1>2, <1>3, <1>5 DEF Body, BirthsOK
<1>7. \A k \in 1..Len(Get005.P) : Get005.P[k].op \notin {"mark", "use", "print", "post", "wait"}
  BY DEF Get005, With
<1>8. \A k \in 1..Len(Get005.C1) : Get005.C1[k].op \notin {"mark", "use", "print", "post", "wait"}
  BY DEF Get005, With
<1>9. Lacks(Get005, {"mark", "use", "print", "post", "wait"})
  BY <1>7, <1>8, <1>3, NoProgram DEF Lacks, Task
<1>. QED  BY <1>4, <1>6, <1>9 DEF SuiteOK

\* sched_getaffinity 006: a child that calls execve()
LEMMA Get006OK ==
  SuiteOK(Get006) /\ Lacks(Get006, {"mark", "use", "print", "post", "wait"}) /\ NoKill(Get006)
<1>1. Body("P", Get006.P, {})
  BY DEF Get006, With, Body, Quit, StepOK, Fails, Ends, Births, Task, Child, Pipes, Sems
<1>2. Body("C1", Get006.C1, {})
  BY DEF Get006, With, Body, Quit, StepOK, Fails, Ends, Births, Task, Child, Pipes, Sems
<1>3. Get006.C2 = None /\ Get006.C3 = None
  BY DEF Get006, With
<1>4. \A t \in Task : TextOK(t, Get006[t])
  BY <1>1, <1>2, <1>3, BodyText, NoProgram DEF Task
<1>5. \A k \in 1..Len(Get006.P) : Get006.P[k].op \in Births => (k = 2 /\ Get006.P[k].who = "C1")
  BY DEF Get006, With, Births
<1>6. BirthsOK(Get006)
  BY <1>1, <1>2, <1>3, <1>5 DEF Body, BirthsOK
<1>7. \A k \in 1..Len(Get006.P) : Get006.P[k].op \notin {"mark", "use", "print", "post", "wait", "kill"}
  BY DEF Get006, With
<1>8. \A k \in 1..Len(Get006.C1) : Get006.C1[k].op \notin {"mark", "use", "print", "post", "wait", "kill"}
  BY DEF Get006, With
<1>9. Lacks(Get006, {"mark", "use", "print", "post", "wait"})
  BY <1>7, <1>8, <1>3, NoProgram DEF Lacks, Task
<1>10. \A k \in 1..Len(Get006.P) : Get006.P[k].op \in Fails =>
       \A j \in 1..Len(Get006.P[k].orelse) : Get006.P[k].orelse[j].op # "kill"
  BY <1>1, <1>2, <1>3, BodyNoKill DEF Task
<1>11. \A k \in 1..Len(Get006.C1) : Get006.C1[k].op \in Fails =>
       \A j \in 1..Len(Get006.C1[k].orelse) : Get006.C1[k].orelse[j].op # "kill"
  BY <1>1, <1>2, <1>3, BodyNoKill DEF Task
<1>12. NoKill(Get006)
  BY <1>7, <1>8, <1>10, <1>11, <1>3, NoProgram DEF NoKill, Task
<1>. QED  BY <1>4, <1>6, <1>9, <1>12 DEF SuiteOK

\* pthread_setaffinity 000: a thread binds itself
LEMMA PthreadSetOK ==
  SuiteOK(PthreadSet) /\ Lacks(PthreadSet, {"mark", "use", "print", "post", "wait"}) /\ NoKill(PthreadSet)
<1>1. Body("P", PthreadSet.P, {})
  BY DEF PthreadSet, Joined, With, Body, Quit, StepOK, Fails, Ends, Births, Task, Child, Pipes, Sems
<1>2. Body("C1", PthreadSet.C1, {})
  BY DEF PthreadSet, Joined, With, Body, Quit, StepOK, Fails, Ends, Births, Task, Child, Pipes, Sems
<1>3. PthreadSet.C2 = None /\ PthreadSet.C3 = None
  BY DEF PthreadSet, Joined, With
<1>4. \A t \in Task : TextOK(t, PthreadSet[t])
  BY <1>1, <1>2, <1>3, BodyText, NoProgram DEF Task
<1>5. \A k \in 1..Len(PthreadSet.P) : PthreadSet.P[k].op \in Births => (k = 3 /\ PthreadSet.P[k].who = "C1")
  BY DEF PthreadSet, Joined, With, Births
<1>6. BirthsOK(PthreadSet)
  BY <1>1, <1>2, <1>3, <1>5 DEF Body, BirthsOK
<1>7. \A k \in 1..Len(PthreadSet.P) : PthreadSet.P[k].op \notin {"mark", "use", "print", "post", "wait", "kill"}
  BY DEF PthreadSet, Joined, With
<1>8. \A k \in 1..Len(PthreadSet.C1) : PthreadSet.C1[k].op \notin {"mark", "use", "print", "post", "wait", "kill"}
  BY DEF PthreadSet, Joined, With
<1>9. Lacks(PthreadSet, {"mark", "use", "print", "post", "wait"})
  BY <1>7, <1>8, <1>3, NoProgram DEF Lacks, Task
<1>10. \A k \in 1..Len(PthreadSet.P) : PthreadSet.P[k].op \in Fails =>
       \A j \in 1..Len(PthreadSet.P[k].orelse) : PthreadSet.P[k].orelse[j].op # "kill"
  BY <1>1, <1>2, <1>3, BodyNoKill DEF Task
<1>11. \A k \in 1..Len(PthreadSet.C1) : PthreadSet.C1[k].op \in Fails =>
       \A j \in 1..Len(PthreadSet.C1[k].orelse) : PthreadSet.C1[k].orelse[j].op # "kill"
  BY <1>1, <1>2, <1>3, BodyNoKill DEF Task
<1>12. NoKill(PthreadSet)
  BY <1>7, <1>8, <1>10, <1>11, <1>3, NoProgram DEF NoKill, Task
<1>. QED  BY <1>4, <1>6, <1>9, <1>12 DEF SuiteOK

\* pthread_getaffinity 000
LEMMA PthreadGetOK ==
  SuiteOK(PthreadGet) /\ Lacks(PthreadGet, {"mark", "use", "print", "post", "wait"}) /\ NoKill(PthreadGet)
<1>1. Body("P", PthreadGet.P, {})
  BY DEF PthreadGet, Joined, With, Body, Quit, StepOK, Fails, Ends, Births, Task, Child, Pipes, Sems
<1>2. Body("C1", PthreadGet.C1, {})
  BY DEF PthreadGet, Joined, With, Body, Quit, StepOK, Fails, Ends, Births, Task, Child, Pipes, Sems
<1>3. PthreadGet.C2 = None /\ PthreadGet.C3 = None
  BY DEF PthreadGet, Joined, With
<1>4. \A t \in Task : TextOK(t, PthreadGet[t])
  BY <1>1, <1>2, <1>3, BodyText, NoProgram DEF Task
<1>5. \A k \in 1..Len(PthreadGet.P) : PthreadGet.P[k].op \in Births => (k = 3 /\ PthreadGet.P[k].who = "C1")
  BY DEF PthreadGet, Joined, With, Births
<1>6. BirthsOK(PthreadGet)
  BY <1>1, <1>2, <1>3, <1>5 DEF Body, BirthsOK
<1>7. \A k \in 1..Len(PthreadGet.P) : PthreadGet.P[k].op \notin {"mark", "use", "print", "post", "wait", "kill"}
  BY DEF PthreadGet, Joined, With
<1>8. \A k \in 1..Len(PthreadGet.C1) : PthreadGet.C1[k].op \notin {"mark", "use", "print", "post", "wait", "kill"}
  BY DEF PthreadGet, Joined, With
<1>9. Lacks(PthreadGet, {"mark", "use", "print", "post", "wait"})
  BY <1>7, <1>8, <1>3, NoProgram DEF Lacks, Task
<1>10. \A k \in 1..Len(PthreadGet.P) : PthreadGet.P[k].op \in Fails =>
       \A j \in 1..Len(PthreadGet.P[k].orelse) : PthreadGet.P[k].orelse[j].op # "kill"
  BY <1>1, <1>2, <1>3, BodyNoKill DEF Task
<1>11. \A k \in 1..Len(PthreadGet.C1) : PthreadGet.C1[k].op \in Fails =>
       \A j \in 1..Len(PthreadGet.C1[k].orelse) : PthreadGet.C1[k].orelse[j].op # "kill"
  BY <1>1, <1>2, <1>3, BodyNoKill DEF Task
<1>12. NoKill(PthreadGet)
  BY <1>7, <1>8, <1>10, <1>11, <1>3, NoProgram DEF NoKill, Task
<1>. QED  BY <1>4, <1>6, <1>9, <1>12 DEF SuiteOK

\* sched_yield 000
LEMMA SchedYieldOK ==
  SuiteOK(SchedYield) /\ Lacks(SchedYield, {"mark", "use", "print"}) /\ NoKill(SchedYield)
<1>1. Body("P", SchedYield.P, {})
  BY DEF SchedYield, MapFlag, KeepCore, SetChild, CheckCore, With, Body, Quit, StepOK, Fails, Ends, Births, Task, Child, Pipes, Sems
<1>2. Body("C1", SchedYield.C1, {})
  BY DEF SchedYield, MapFlag, KeepCore, SetChild, CheckCore, With, Body, Quit, StepOK, Fails, Ends, Births, Task, Child, Pipes, Sems
<1>3. SchedYield.C2 = None /\ SchedYield.C3 = None
  BY DEF SchedYield, MapFlag, KeepCore, SetChild, CheckCore, With
<1>4. \A t \in Task : TextOK(t, SchedYield[t])
  BY <1>1, <1>2, <1>3, BodyText, NoProgram DEF Task
<1>5. \A k \in 1..Len(SchedYield.P) : SchedYield.P[k].op \in Births => (k = 3 /\ SchedYield.P[k].who = "C1")
  BY DEF SchedYield, MapFlag, KeepCore, SetChild, CheckCore, With, Births
<1>6. BirthsOK(SchedYield)
  BY <1>1, <1>2, <1>3, <1>5 DEF Body, BirthsOK
<1>7. \A k \in 1..Len(SchedYield.P) : SchedYield.P[k].op \notin {"mark", "use", "print", "kill"}
  BY DEF SchedYield, MapFlag, KeepCore, SetChild, CheckCore, With
<1>8. \A k \in 1..Len(SchedYield.C1) : SchedYield.C1[k].op \notin {"mark", "use", "print", "kill"}
  BY DEF SchedYield, MapFlag, KeepCore, SetChild, CheckCore, With
<1>9. Lacks(SchedYield, {"mark", "use", "print"})
  BY <1>7, <1>8, <1>3, NoProgram DEF Lacks, Task
<1>10. \A k \in 1..Len(SchedYield.P) : SchedYield.P[k].op \in Fails =>
       \A j \in 1..Len(SchedYield.P[k].orelse) : SchedYield.P[k].orelse[j].op # "kill"
  BY <1>1, <1>2, <1>3, BodyNoKill DEF Task
<1>11. \A k \in 1..Len(SchedYield.C1) : SchedYield.C1[k].op \in Fails =>
       \A j \in 1..Len(SchedYield.C1[k].orelse) : SchedYield.C1[k].orelse[j].op # "kill"
  BY <1>1, <1>2, <1>3, BodyNoKill DEF Task
<1>12. NoKill(SchedYield)
  BY <1>7, <1>8, <1>10, <1>11, <1>3, NoProgram DEF NoKill, Task
<1>. QED  BY <1>4, <1>6, <1>9, <1>12 DEF SuiteOK

\* time_sharing 000
LEMMA TimeSharingOK ==
  SuiteOK(TimeSharing) /\ Lacks(TimeSharing, {"mark", "use"}) /\ NoKill(TimeSharing)
<1>1. Body("P", TimeSharing.P, {})
  <2>. DEFINE p == TimeSharing.P
  <2>1. Len(p) = 17
    BY DEF TimeSharing, parent_func, MapFlag, KeepCore, SetChild, With
  <2>2. \A k \in 1..17 : StepOK("P", p[k])
    BY DEF TimeSharing, parent_func, MapFlag, KeepCore, SetChild, With, StepOK, Births, Task, Child, Sems
  <2>3. \A k \in 1..17 : /\ p[k].op \in Fails => p[k].orelse = NG
                         /\ p[k].op \in Ends <=> k = 17
    BY DEF TimeSharing, parent_func, MapFlag, KeepCore, SetChild, With, Fails, Ends
  <2>4. \A k \in 1..17 : p[k].op = "again" => k = 14 /\ p[k].back = 4
    BY DEF TimeSharing, parent_func, MapFlag, KeepCore, SetChild, With
  <2>5. \A k \in 10..14 : p[k].op \notin Births
    BY DEF TimeSharing, parent_func, MapFlag, KeepCore, SetChild, With, Births
  <2>. HIDE DEF p
  <2>. QED  BY <2>1, <2>2, <2>3, <2>4, <2>5 DEF Body, Quit, p
<1>2. Body("C1", TimeSharing.C1, {})
  BY DEF TimeSharing, parent_func, child_func, MapFlag, KeepCore, SetChild, CheckCore, With, Body, Quit, StepOK, Fails, Ends, Births, Task, Child, Pipes, Sems
<1>3. TimeSharing.C2 = None /\ TimeSharing.C3 = None
  BY DEF TimeSharing, parent_func, child_func, MapFlag, KeepCore, SetChild, CheckCore, With
<1>4. \A t \in Task : TextOK(t, TimeSharing[t])
  BY <1>1, <1>2, <1>3, BodyText, NoProgram DEF Task
<1>5. \A k \in 1..Len(TimeSharing.P) : TimeSharing.P[k].op \in Births => (k = 3 /\ TimeSharing.P[k].who = "C1")
  BY DEF TimeSharing, parent_func, child_func, MapFlag, KeepCore, SetChild, CheckCore, With, Births
<1>6. BirthsOK(TimeSharing)
  BY <1>1, <1>2, <1>3, <1>5 DEF Body, BirthsOK
<1>7. \A k \in 1..Len(TimeSharing.P) : TimeSharing.P[k].op \notin {"mark", "use", "kill"}
  BY DEF TimeSharing, parent_func, child_func, MapFlag, KeepCore, SetChild, CheckCore, With
<1>8. \A k \in 1..Len(TimeSharing.C1) : TimeSharing.C1[k].op \notin {"mark", "use", "kill"}
  BY DEF TimeSharing, parent_func, child_func, MapFlag, KeepCore, SetChild, CheckCore, With
<1>9. Lacks(TimeSharing, {"mark", "use"})
  BY <1>7, <1>8, <1>3, NoProgram DEF Lacks, Task
<1>10. \A k \in 1..Len(TimeSharing.P) : TimeSharing.P[k].op \in Fails =>
       \A j \in 1..Len(TimeSharing.P[k].orelse) : TimeSharing.P[k].orelse[j].op # "kill"
  BY <1>1, <1>2, <1>3, BodyNoKill DEF Task
<1>11. \A k \in 1..Len(TimeSharing.C1) : TimeSharing.C1[k].op \in Fails =>
       \A j \in 1..Len(TimeSharing.C1[k].orelse) : TimeSharing.C1[k].orelse[j].op # "kill"
  BY <1>1, <1>2, <1>3, BodyNoKill DEF Task
<1>12. NoKill(TimeSharing)
  BY <1>7, <1>8, <1>10, <1>11, <1>3, NoProgram DEF NoKill, Task
<1>. QED  BY <1>4, <1>6, <1>9, <1>12 DEF SuiteOK

\* cpu_thread_limits 000
LEMMA Threads000OK ==
  SuiteOK(ThreadLimits000) /\ Lacks(ThreadLimits000, {"print", "post", "wait"}) /\ NoKill(ThreadLimits000)
<1>1. Body("P", ThreadLimits000.P, {6})
  BY DEF ThreadLimits000, Threads, Limits, Spinner, Body, Quit, StepOK, Fails, Ends, Births, Task, Child, Pipes, Sems
<1>2. ThreadLimits000.P[6].orelse = << Free, Return("ng") >>
  BY DEF ThreadLimits000, Threads, Limits, Spinner
<1>3. ElseOK("P", ThreadLimits000.P[6]) /\ (\A j \in 1..Len(ThreadLimits000.P[6].orelse) : ThreadLimits000.P[6].orelse[j].op # "kill")
  BY <1>2, Else2 DEF StepOK, Simple, Ends, Births, Task
<1>4. \A k \in {6} : ElseOK("P", ThreadLimits000.P[k])
  BY <1>2, <1>3
<1>5. Body("C1", ThreadLimits000.C1, {})
  BY DEF ThreadLimits000, Threads, Limits, Spinner, Body, Quit, StepOK, Fails, Ends, Births, Task, Child, Pipes, Sems
<1>6. Body("C2", ThreadLimits000.C2, {})
  BY DEF ThreadLimits000, Threads, Limits, Spinner, Body, Quit, StepOK, Fails, Ends, Births, Task, Child, Pipes, Sems
<1>7. ThreadLimits000.C3 = None
  BY DEF ThreadLimits000, Threads, Limits, Spinner
<1>8. \A t \in Task : TextOK(t, ThreadLimits000[t])
  BY <1>1, <1>4, <1>5, <1>6, <1>7, BodyText, NoProgram DEF Task
<1>9. \A k \in 1..Len(ThreadLimits000.P) : ThreadLimits000.P[k].op \in Births => (k = 4 /\ ThreadLimits000.P[k].who = "C1") \/ (k = 5 /\ ThreadLimits000.P[k].who = "C2")
  BY DEF ThreadLimits000, Threads, Limits, Spinner, Births
<1>10. BirthsOK(ThreadLimits000)
  BY <1>1, <1>5, <1>6, <1>7, <1>9 DEF Body, BirthsOK
<1>11. \A k \in 1..Len(ThreadLimits000.P) : ThreadLimits000.P[k].op \notin {"print", "post", "wait", "kill"}
  BY DEF ThreadLimits000, Threads, Limits, Spinner
<1>12. \A k \in 1..Len(ThreadLimits000.C1) : ThreadLimits000.C1[k].op \notin {"print", "post", "wait", "kill"}
  BY DEF ThreadLimits000, Threads, Limits, Spinner
<1>13. \A k \in 1..Len(ThreadLimits000.C2) : ThreadLimits000.C2[k].op \notin {"print", "post", "wait", "kill"}
  BY DEF ThreadLimits000, Threads, Limits, Spinner
<1>14. Lacks(ThreadLimits000, {"print", "post", "wait"})
  BY <1>11, <1>12, <1>13, <1>7, NoProgram DEF Lacks, Task
<1>15. \A k \in {6} : \A j \in 1..Len(ThreadLimits000.P[k].orelse) : ThreadLimits000.P[k].orelse[j].op # "kill"
  BY <1>2, <1>3
<1>16. \A k \in 1..Len(ThreadLimits000.P) : ThreadLimits000.P[k].op \in Fails =>
       \A j \in 1..Len(ThreadLimits000.P[k].orelse) : ThreadLimits000.P[k].orelse[j].op # "kill"
  BY <1>1, <1>4, <1>5, <1>6, <1>7, <1>15, BodyNoKill DEF Task
<1>17. \A k \in 1..Len(ThreadLimits000.C1) : ThreadLimits000.C1[k].op \in Fails =>
       \A j \in 1..Len(ThreadLimits000.C1[k].orelse) : ThreadLimits000.C1[k].orelse[j].op # "kill"
  BY <1>1, <1>4, <1>5, <1>6, <1>7, BodyNoKill DEF Task
<1>18. \A k \in 1..Len(ThreadLimits000.C2) : ThreadLimits000.C2[k].op \in Fails =>
       \A j \in 1..Len(ThreadLimits000.C2[k].orelse) : ThreadLimits000.C2[k].orelse[j].op # "kill"
  BY <1>1, <1>4, <1>5, <1>6, <1>7, BodyNoKill DEF Task
<1>19. NoKill(ThreadLimits000)
  BY <1>11, <1>12, <1>13, <1>16, <1>17, <1>18, <1>7, NoProgram DEF NoKill, Task
<1>. QED  BY <1>8, <1>10, <1>14, <1>19 DEF SuiteOK

\* cpu_thread_limits 001
LEMMA Threads001OK ==
  SuiteOK(ThreadLimits001) /\ Lacks(ThreadLimits001, {"print", "post", "wait"}) /\ NoKill(ThreadLimits001)
<1>1. Body("P", ThreadLimits001.P, {6})
  BY DEF ThreadLimits001, Threads, Limits, Spinner, Body, Quit, StepOK, Fails, Ends, Births, Task, Child, Pipes, Sems
<1>2. ThreadLimits001.P[6].orelse = << Free, Return("ng") >>
  BY DEF ThreadLimits001, Threads, Limits, Spinner
<1>3. ElseOK("P", ThreadLimits001.P[6]) /\ (\A j \in 1..Len(ThreadLimits001.P[6].orelse) : ThreadLimits001.P[6].orelse[j].op # "kill")
  BY <1>2, Else2 DEF StepOK, Simple, Ends, Births, Task
<1>4. \A k \in {6} : ElseOK("P", ThreadLimits001.P[k])
  BY <1>2, <1>3
<1>5. Body("C1", ThreadLimits001.C1, {})
  BY DEF ThreadLimits001, Threads, Limits, Spinner, Body, Quit, StepOK, Fails, Ends, Births, Task, Child, Pipes, Sems
<1>6. Body("C2", ThreadLimits001.C2, {})
  BY DEF ThreadLimits001, Threads, Limits, Spinner, Body, Quit, StepOK, Fails, Ends, Births, Task, Child, Pipes, Sems
<1>7. ThreadLimits001.C3 = None
  BY DEF ThreadLimits001, Threads, Limits, Spinner
<1>8. \A t \in Task : TextOK(t, ThreadLimits001[t])
  BY <1>1, <1>4, <1>5, <1>6, <1>7, BodyText, NoProgram DEF Task
<1>9. \A k \in 1..Len(ThreadLimits001.P) : ThreadLimits001.P[k].op \in Births => (k = 4 /\ ThreadLimits001.P[k].who = "C1") \/ (k = 5 /\ ThreadLimits001.P[k].who = "C2")
  BY DEF ThreadLimits001, Threads, Limits, Spinner, Births
<1>10. BirthsOK(ThreadLimits001)
  BY <1>1, <1>5, <1>6, <1>7, <1>9 DEF Body, BirthsOK
<1>11. \A k \in 1..Len(ThreadLimits001.P) : ThreadLimits001.P[k].op \notin {"print", "post", "wait", "kill"}
  BY DEF ThreadLimits001, Threads, Limits, Spinner
<1>12. \A k \in 1..Len(ThreadLimits001.C1) : ThreadLimits001.C1[k].op \notin {"print", "post", "wait", "kill"}
  BY DEF ThreadLimits001, Threads, Limits, Spinner
<1>13. \A k \in 1..Len(ThreadLimits001.C2) : ThreadLimits001.C2[k].op \notin {"print", "post", "wait", "kill"}
  BY DEF ThreadLimits001, Threads, Limits, Spinner
<1>14. Lacks(ThreadLimits001, {"print", "post", "wait"})
  BY <1>11, <1>12, <1>13, <1>7, NoProgram DEF Lacks, Task
<1>15. \A k \in {6} : \A j \in 1..Len(ThreadLimits001.P[k].orelse) : ThreadLimits001.P[k].orelse[j].op # "kill"
  BY <1>2, <1>3
<1>16. \A k \in 1..Len(ThreadLimits001.P) : ThreadLimits001.P[k].op \in Fails =>
       \A j \in 1..Len(ThreadLimits001.P[k].orelse) : ThreadLimits001.P[k].orelse[j].op # "kill"
  BY <1>1, <1>4, <1>5, <1>6, <1>7, <1>15, BodyNoKill DEF Task
<1>17. \A k \in 1..Len(ThreadLimits001.C1) : ThreadLimits001.C1[k].op \in Fails =>
       \A j \in 1..Len(ThreadLimits001.C1[k].orelse) : ThreadLimits001.C1[k].orelse[j].op # "kill"
  BY <1>1, <1>4, <1>5, <1>6, <1>7, BodyNoKill DEF Task
<1>18. \A k \in 1..Len(ThreadLimits001.C2) : ThreadLimits001.C2[k].op \in Fails =>
       \A j \in 1..Len(ThreadLimits001.C2[k].orelse) : ThreadLimits001.C2[k].orelse[j].op # "kill"
  BY <1>1, <1>4, <1>5, <1>6, <1>7, BodyNoKill DEF Task
<1>19. NoKill(ThreadLimits001)
  BY <1>11, <1>12, <1>13, <1>16, <1>17, <1>18, <1>7, NoProgram DEF NoKill, Task
<1>. QED  BY <1>8, <1>10, <1>14, <1>19 DEF SuiteOK

\* The pipes of cpu_proc_limits
LEMMA PipeNames ==
  /\ Down[1] = "down1" /\ Down[2] = "down2" /\ Down[3] = "down3"
  /\ Up[1] = "up1" /\ Up[2] = "up2" /\ Up[3] = "up3"
  /\ \A k \in 1..3 : Down[k] \in Pipes /\ Up[k] \in Pipes
  BY DEF Down, Up, Pipes

\* The steps its parent takes for each of the three children
LEMMA ProcSteps ==
  ASSUME NEW k \in 1..3, NEW c \in Child
  PROVE  /\ PipeDown(k).op = "pipe" /\ PipeUp(k).op = "pipe" /\ ForkOne(k, c).op = "fork" /\ ForkOne(k, c).who = c
         /\ ChildEnds(k).op = "close" /\ Collect(k).op = "close"
         /\ StepOK("P", PipeDown(k)) /\ StepOK("P", PipeUp(k)) /\ StepOK("P", ForkOne(k, c))
         /\ StepOK("P", ChildEnds(k)) /\ StepOK("P", Collect(k))
         /\ Recovers("P", PipeDown(k)) /\ Recovers("P", PipeUp(k)) /\ Recovers("P", ForkOne(k, c))
<1>1. /\ PipeDown(k).op = "pipe" /\ PipeUp(k).op = "pipe" /\ ForkOne(k, c).op = "fork" /\ ForkOne(k, c).who = c
      /\ PipeDown(k).p \in Pipes /\ PipeUp(k).p \in Pipes
      /\ ChildEnds(k).op = "close" /\ Collect(k).op = "close"
  BY PipeNames DEF PipeDown, PipeUp, ForkOne, ChildEnds, Collect
<1>2. /\ StepOK("P", PipeDown(k)) /\ StepOK("P", PipeUp(k)) /\ StepOK("P", ForkOne(k, c))
      /\ StepOK("P", ChildEnds(k)) /\ StepOK("P", Collect(k))
  BY <1>1 DEF StepOK, Births
<1>3. /\ PipeDown(k).orelse = << Others(k), Return("ng") >> /\ ForkOne(k, c).orelse = << Others(k + 1), Return("ng") >>
      /\ PipeUp(k).orelse = << Others(k), Close({Down[k]}, {Down[k]}), Return("ng") >>
  BY DEF PipeDown, PipeUp, ForkOne
<1>4. \A i : Others(i).op = "close" /\ Others(i).op \in Simple /\ Others(i).op \notin Ends /\ StepOK("P", Others(i))
  BY DEF Others, StepOK, Births, Simple, Ends
<1>5. LET s == Close({Down[k]}, {Down[k]}) IN s.op = "close" /\ s.op \in Simple /\ s.op \notin Ends /\ StepOK("P", s)
  BY DEF StepOK, Births, Simple, Ends
<1>6. LET s == Return("ng") IN s.op \in Ends /\ StepOK("P", s)
  BY DEF StepOK, Births, Ends
<1>7. Recovers("P", PipeDown(k))
  BY <1>3, <1>4, <1>6, Else2 DEF Task, Recovers
<1>8. Recovers("P", ForkOne(k, c))
  BY <1>3, <1>4, <1>6, Else2 DEF Task, Recovers
<1>9. Recovers("P", PipeUp(k))
  <2>1. "P" \in Task
    BY DEF Task
  <2>. QED  BY ONLY <1>3, <1>4, <1>5, <1>6, <2>1, Else3 DEF Recovers
<1>. QED  BY <1>1, <1>2, <1>7, <1>8, <1>9

\* Its children
LEMMA ProcChildren ==
  ASSUME NEW k \in 1..3, NEW c \in Child
  PROVE  /\ TextOK(c, proc_child(k)) /\ Len(proc_child(k)) = 6
         /\ \A l \in 1..6 : proc_child(k)[l].op \notin {"mark", "use", "print", "post", "wait", "kill"}
         /\ \A l \in 1..6 : proc_child(k)[l].op \in Fails =>
              \A j \in 1..Len(proc_child(k)[l].orelse) : proc_child(k)[l].orelse[j].op # "kill"
<1>. DEFINE p == proc_child(k)
<1>1. /\ Len(p) = 6
      /\ p[1] = Close({Up[k]}, {Down[k]}) /\ p[2] = child_fn(k) /\ p[3] = Usleep
      /\ p[4] = Write(Up[k], "cpu") /\ p[5] = Close({Down[k]}, {Up[k]}) /\ p[6] = Exit(0)
  BY DEF proc_child
<1>2. /\ child_fn(k).op = "read" /\ child_fn(k).p \in Pipes /\ child_fn(k).r = "got"
      /\ child_fn(k).orelse = << Close({Down[k]}, {Up[k]}), Exit(0) >>
  BY PipeNames DEF child_fn, Leave
<1>3. /\ p[1].op = "close" /\ p[2].op = "read" /\ p[3].op = "usleep" /\ p[4].op = "write" /\ p[4].p \in Pipes
      /\ p[5].op = "close" /\ p[6].op = "exit" /\ p[6].v = 0
  BY <1>1, <1>2, PipeNames
<1>4. c \in Task /\ c # "P"
  BY DEF Child, Task
<1>5. LET s == Close({Down[k]}, {Up[k]}) IN s.op \in Simple /\ s.op \notin Ends /\ s.op # "kill" /\ StepOK(c, s)
  BY DEF StepOK, Births, Simple, Ends
<1>6. LET s == Exit(0) IN s.op \in Ends /\ StepOK(c, s)
  BY <1>4 DEF StepOK, Births, Ends
<1>7. ElseOK(c, p[2]) /\ \A j \in 1..Len(p[2].orelse) : p[2].orelse[j].op # "kill"
  BY ONLY <1>1, <1>2, <1>4, <1>5, <1>6, Else2
<1>8. \A l \in 1..6 : StepOK(c, p[l])
  BY ONLY <1>1, <1>2, <1>3, <1>4 DEF StepOK, Births
<1>9. \A l \in 1..6 : /\ p[l].op \in Fails => l = 2
                      /\ p[l].op \in Ends <=> l = 6
                      /\ p[l].op \notin {"again", "mark", "use", "print", "post", "wait", "kill"}
  BY ONLY <1>3 DEF Fails, Ends
<1>10. TextOK(c, p)
  BY ONLY <1>1, <1>7, <1>8, <1>9 DEF TextOK, Proper
<1>. QED  BY <1>1, <1>7, <1>9, <1>10

\* cpu_proc_limits 000: three processes
LEMMA ProcLimitsOK ==
  SuiteOK(ProcLimits) /\ Lacks(ProcLimits, {"mark", "use", "print", "post", "wait"}) /\ NoKill(ProcLimits)
<1>. DEFINE p == ProcLimits.P
<1>1. /\ Len(p) = 24 /\ p[1] = Need(1) /\ p[2] = Try("setrlimit") /\ p[3] = Try("calloc")
      /\ p[4] = PipeDown(1) /\ p[5] = PipeUp(1) /\ p[6] = ForkOne(1, "C1") /\ p[7] = ChildEnds(1)
      /\ p[8] = PipeDown(2) /\ p[9] = PipeUp(2) /\ p[10] = ForkOne(2, "C2") /\ p[11] = ChildEnds(2)
      /\ p[12] = PipeDown(3) /\ p[13] = PipeUp(3) /\ p[14] = ForkOne(3, "C3")
      /\ p[15] = Write("down1", "cpu") /\ p[16] = Write("down2", "cpu") /\ p[17] = Write("down3", "cpu")
      /\ p[18] = Read("up1", "got") /\ p[19] = Collect(1) /\ p[20] = Read("up2", "got") /\ p[21] = Collect(2)
      /\ p[22] = Read("up3", "got") /\ p[23] = Collect(3) /\ p[24] = OK
  BY DEF ProcLimits, Limits
<1>2. ProcLimits.C1 = proc_child(1) /\ ProcLimits.C2 = proc_child(2) /\ ProcLimits.C3 = proc_child(3)
  BY DEF ProcLimits
<1>3. "C1" \in Child /\ "C2" \in Child /\ "C3" \in Child
  BY DEF Child, Task
<1>4. /\ p[1].op = "need" /\ p[2].op = "try" /\ p[3].op = "try"
      /\ p[15].op = "write" /\ p[15].p \in Pipes /\ p[16].op = "write" /\ p[16].p \in Pipes /\ p[17].op = "write" /\ p[17].p \in Pipes
      /\ p[18].op = "read" /\ p[18].p \in Pipes /\ p[18].r = "got" /\ p[20].op = "read" /\ p[20].p \in Pipes /\ p[20].r = "got"
      /\ p[22].op = "read" /\ p[22].p \in Pipes /\ p[22].r = "got" /\ p[24].op = "return" /\ p[24].v = "ok"
  BY <1>1 DEF Pipes
<1>5. p[1].orelse = NG /\ p[2].orelse = NG /\ p[3].orelse = NG /\ p[18].orelse = <<>> /\ p[20].orelse = <<>> /\ p[22].orelse = <<>>
  BY <1>1
<1>6. /\ p[4].op = "pipe" /\ p[5].op = "pipe" /\ p[6].op = "fork" /\ p[6].who = "C1" /\ p[7].op = "close"
      /\ p[8].op = "pipe" /\ p[9].op = "pipe" /\ p[10].op = "fork" /\ p[10].who = "C2" /\ p[11].op = "close"
      /\ p[12].op = "pipe" /\ p[13].op = "pipe" /\ p[14].op = "fork" /\ p[14].who = "C3"
      /\ p[19].op = "close" /\ p[21].op = "close" /\ p[23].op = "close"
  BY ONLY <1>1, <1>3, ProcSteps
<1>7. /\ StepOK("P", p[4]) /\ StepOK("P", p[5]) /\ StepOK("P", p[6]) /\ StepOK("P", p[7]) /\ StepOK("P", p[8]) /\ StepOK("P", p[9])
      /\ StepOK("P", p[10]) /\ StepOK("P", p[11]) /\ StepOK("P", p[12]) /\ StepOK("P", p[13]) /\ StepOK("P", p[14]) /\ StepOK("P", p[19])
      /\ StepOK("P", p[21]) /\ StepOK("P", p[23])
  BY ONLY <1>1, <1>3, ProcSteps
<1>8. /\ Recovers("P", p[4]) /\ Recovers("P", p[5]) /\ Recovers("P", p[6]) /\ Recovers("P", p[8]) /\ Recovers("P", p[9]) /\ Recovers("P", p[10])
      /\ Recovers("P", p[12]) /\ Recovers("P", p[13]) /\ Recovers("P", p[14])
  BY ONLY <1>1, <1>3, ProcSteps
<1>9. /\ StepOK("P", p[1]) /\ StepOK("P", p[2]) /\ StepOK("P", p[3]) /\ StepOK("P", p[15]) /\ StepOK("P", p[16]) /\ StepOK("P", p[17])
      /\ StepOK("P", p[18]) /\ StepOK("P", p[20]) /\ StepOK("P", p[22]) /\ StepOK("P", p[24])
  BY ONLY <1>4 DEF StepOK, Births
<1>10. /\ Recovers("P", p[1]) /\ Recovers("P", p[2]) /\ Recovers("P", p[3]) /\ Recovers("P", p[18]) /\ Recovers("P", p[20]) /\ Recovers("P", p[22])
  BY <1>4, <1>5, ElseQuit, NoElse DEF Quit, Task, Recovers
<1>11. \A k \in 1..24 : /\ p[k].op \in Fails => k \in {4, 5, 6, 8, 9, 10, 12, 13, 14} \/ k \in {1, 2, 3, 18, 20, 22}
                        /\ p[k].op \in Ends <=> k = 24
                        /\ p[k].op \notin {"again", "mark", "use", "print", "post", "wait", "kill"}
                        /\ p[k].op \in Births => (k = 6 /\ p[k].who = "C1") \/ (k = 10 /\ p[k].who = "C2") \/ (k = 14 /\ p[k].who = "C3")
  BY ONLY <1>4, <1>6 DEF Fails, Ends, Births
<1>12. \A k \in 1..24 : p[k].op \in Fails => Recovers("P", p[k])
  BY ONLY <1>8, <1>10, <1>11
<1>13. TextOK("P", p)
  <2>1. \A k \in 1..24 : StepOK("P", p[k])
    BY ONLY <1>7, <1>9
  <2>2. Len(p) = 24
    BY <1>1
  <2>3. \A k \in 1..Len(p) : Proper("P", p[k])
    BY ONLY <2>1, <2>2, <1>12 DEF Proper, Recovers
  <2>4. \A k \in 1..Len(p) : (p[k].op \in Ends <=> k = Len(p)) /\ p[k].op # "again"
    BY ONLY <2>2, <1>11
  <2>5. Len(p) \in Nat \ {0}
    BY ONLY <2>2
  <2>. QED  BY ONLY <2>3, <2>4, <2>5, LooplessText
<1>14. \A t \in Task : TextOK(t, ProcLimits[t])
  BY <1>2, <1>3, <1>13, ProcChildren DEF Task
<1>15. ASSUME NEW c \in Child PROVE Len(ProcLimits[c]) = 6
  <2>1. PICK k \in 1..3 : ProcLimits[c] = proc_child(k)
    BY ONLY <1>2, <1>15 DEF Child, Task
  <2>. QED  BY ONLY <2>1, <1>15, ProcChildren
<1>16. BirthsOK(ProcLimits)
  <2>1. Len(p) = 24
    BY <1>1
  <2>2. \A k \in 1..Len(p) : p[k].op \in Births =>
          (k = 6 /\ p[k].who = "C1") \/ (k = 10 /\ p[k].who = "C2") \/ (k = 14 /\ p[k].who = "C3")
    BY ONLY <2>1, <1>11
  <2>3. ASSUME NEW k \in 1..Len(p), p[k].op \in Births
        PROVE  p[k].who \in Child /\ \A l \in 1..Len(p) : p[l].op \in Births /\ p[l].who = p[k].who => l = k
    BY ONLY <2>3, <2>2, <1>3
  <2>4. ASSUME NEW k \in 1..Len(p), p[k].op \in Births
        PROVE  Len(ProcLimits[p[k].who]) > 0
    <3>1. Len(ProcLimits[p[k].who]) = 6
      BY ONLY <2>3, <2>4, <1>15
    <3>. QED  BY ONLY <3>1
  <2>5. Len(p) > 0
    BY ONLY <2>1
  <2>. QED  BY ONLY <2>3, <2>4, <2>5 DEF BirthsOK
<1>17. ASSUME NEW t \in Child, NEW l \in 1..Len(ProcLimits[t])
       PROVE  /\ ProcLimits[t][l].op \notin {"mark", "use", "print", "post", "wait", "kill"}
              /\ ProcLimits[t][l].op \in Fails =>
                   \A j \in 1..Len(ProcLimits[t][l].orelse) : ProcLimits[t][l].orelse[j].op # "kill"
  <2>1. PICK k \in 1..3 : ProcLimits[t] = proc_child(k)
    BY ONLY <1>2, t \in Child DEF Child, Task
  <2>2. l \in 1..6
    BY ONLY <2>1, <1>17, ProcChildren
  <2>. QED  BY ONLY <2>1, <2>2, t \in Child, ProcChildren
<1>18. \A l \in 1..Len(ProcLimits["P"]) :
         /\ ProcLimits["P"][l].op \notin {"mark", "use", "print", "post", "wait", "kill"}
         /\ ProcLimits["P"][l].op \in Fails => \A j \in 1..Len(ProcLimits["P"][l].orelse) : ProcLimits["P"][l].orelse[j].op # "kill"
  <2>1. Len(p) = 24
    BY <1>1
  <2>. QED  BY ONLY <2>1, <1>11, <1>12 DEF Recovers
<1>19. \A t \in Task : t = "P" \/ t \in Child
  BY DEF Child, Task
<1>20. Lacks(ProcLimits, {"mark", "use", "print", "post", "wait"})
  BY ONLY <1>17, <1>18, <1>19 DEF Lacks
<1>21. NoKill(ProcLimits)
  BY ONLY <1>17, <1>18, <1>19 DEF NoKill
<1>. QED  BY <1>14, <1>16, <1>20, <1>21 DEF SuiteOK

\* What makes the test named c well made: of its kinds of steps, most belong to a few tests.
Traits(c, X) ==
  /\ SuiteOK(X)
  /\ c \notin {"threads000", "threads001"} => Lacks(X, {"mark", "use"})
  /\ c # "time_sharing" => Lacks(X, {"print"})
  /\ c \notin {"set011", "sched_yield", "time_sharing"} => Lacks(X, {"post", "wait"})
  /\ c \notin {"set008", "set009", "set010", "get005"} => NoKill(X)

\* A test lacks what is among the steps that it lacks.
LEMMA LacksLess == ASSUME NEW X, NEW ops, NEW less, less \subseteq ops, Lacks(X, ops) PROVE Lacks(X, less)
  BY DEF Lacks

\* Every test of the suite is well made, for every value of -p.
LEMMA SuiteLemma ==
  ASSUME NEW n \in Nat, NEW c \in DOMAIN Suite(0)
  PROVE  Traits(c, Suite(n)[c])
<1>1. c \in {"set000", "set001", "set002", "set003", "set004", "set005", "set006", "set007", "set008", "set009",
            "set010", "set011", "set012", "get000", "get001", "get002", "get003", "get004", "get005", "get006",
            "pthread_set", "pthread_get", "sched_yield", "time_sharing", "threads000", "threads001",
            "procs000"}
  BY DEF Suite
<1>2. /\ Suite(n).set000 = Set000 /\ Suite(n).set001 = Set001 /\ Suite(n).set002 = Set002
      /\ Suite(n).set003 = Set003 /\ Suite(n).set004 = Set004 /\ Suite(n).set005 = Set005
      /\ Suite(n).set006 = Set006 /\ Suite(n).set007 = Set007(n) /\ Suite(n).set008 = Set008
      /\ Suite(n).set009 = Set009 /\ Suite(n).set010 = Set010 /\ Suite(n).set011 = Set011
      /\ Suite(n).set012 = Set012 /\ Suite(n).get000 = Get000 /\ Suite(n).get001 = Get001
      /\ Suite(n).get002 = Get002 /\ Suite(n).get003 = Get003 /\ Suite(n).get004 = Get004(n)
      /\ Suite(n).get005 = Get005 /\ Suite(n).get006 = Get006 /\ Suite(n).pthread_set = PthreadSet
      /\ Suite(n).pthread_get = PthreadGet /\ Suite(n).sched_yield = SchedYield
      /\ Suite(n).time_sharing = TimeSharing /\ Suite(n).threads000 = ThreadLimits000
      /\ Suite(n).threads001 = ThreadLimits001 /\ Suite(n).procs000 = ProcLimits
  BY DEF Suite
<1>3. ASSUME NEW X, SuiteOK(X) /\ Lacks(X, Special) /\ NoKill(X) PROVE \A d : Traits(d, X)
  <2>1. Lacks(X, {"mark", "use"}) /\ Lacks(X, {"print"}) /\ Lacks(X, {"post", "wait"})
    BY <1>3, LacksLess DEF Special
  <2>. QED  BY <1>3, <2>1 DEF Traits
<1>4. \A d \in {"set000", "set001", "set002", "set003", "set004", "set005", "set006", "set007", "set012", "get000", "get001", "get002", "get003", "get004"} : Traits(d, Suite(n)[d])
  BY <1>2, <1>3, AloneTests
<1>5. Traits("set008", Set008)
  <2>1. Lacks(Set008, {"mark", "use"}) /\ Lacks(Set008, {"print"}) /\ Lacks(Set008, {"post", "wait"})
    BY Set008OK, LacksLess
  <2>. QED  BY <2>1, Set008OK DEF Traits
<1>6. Traits("set009", Set009)
  <2>1. Lacks(Set009, {"mark", "use"}) /\ Lacks(Set009, {"print"}) /\ Lacks(Set009, {"post", "wait"})
    BY Set009OK, LacksLess
  <2>. QED  BY <2>1, Set009OK DEF Traits
<1>7. Traits("set010", Set010)
  <2>1. Lacks(Set010, {"mark", "use"}) /\ Lacks(Set010, {"print"}) /\ Lacks(Set010, {"post", "wait"})
    BY Set010OK, LacksLess
  <2>. QED  BY <2>1, Set010OK DEF Traits
<1>8. Traits("set011", Set011)
  <2>1. Lacks(Set011, {"mark", "use"}) /\ Lacks(Set011, {"print"})
    BY Set011OK, LacksLess
  <2>. QED  BY <2>1, Set011OK DEF Traits
<1>9. Traits("get005", Get005)
  <2>1. Lacks(Get005, {"mark", "use"}) /\ Lacks(Get005, {"print"}) /\ Lacks(Get005, {"post", "wait"})
    BY Get005OK, LacksLess
  <2>. QED  BY <2>1, Get005OK DEF Traits
<1>10. Traits("get006", Get006)
  <2>1. Lacks(Get006, {"mark", "use"}) /\ Lacks(Get006, {"print"}) /\ Lacks(Get006, {"post", "wait"})
    BY Get006OK, LacksLess
  <2>. QED  BY <2>1, Get006OK DEF Traits
<1>11. Traits("pthread_set", PthreadSet)
  <2>1. Lacks(PthreadSet, {"mark", "use"}) /\ Lacks(PthreadSet, {"print"}) /\ Lacks(PthreadSet, {"post", "wait"})
    BY PthreadSetOK, LacksLess
  <2>. QED  BY <2>1, PthreadSetOK DEF Traits
<1>12. Traits("pthread_get", PthreadGet)
  <2>1. Lacks(PthreadGet, {"mark", "use"}) /\ Lacks(PthreadGet, {"print"}) /\ Lacks(PthreadGet, {"post", "wait"})
    BY PthreadGetOK, LacksLess
  <2>. QED  BY <2>1, PthreadGetOK DEF Traits
<1>13. Traits("sched_yield", SchedYield)
  <2>1. Lacks(SchedYield, {"mark", "use"}) /\ Lacks(SchedYield, {"print"})
    BY SchedYieldOK, LacksLess
  <2>. QED  BY <2>1, SchedYieldOK DEF Traits
<1>14. Traits("time_sharing", TimeSharing)
  <2>1. Lacks(TimeSharing, {"mark", "use"})
    BY TimeSharingOK, LacksLess
  <2>. QED  BY <2>1, TimeSharingOK DEF Traits
<1>15. Traits("threads000", ThreadLimits000)
  <2>1. Lacks(ThreadLimits000, {"print"}) /\ Lacks(ThreadLimits000, {"post", "wait"})
    BY Threads000OK, LacksLess
  <2>. QED  BY <2>1, Threads000OK DEF Traits
<1>16. Traits("threads001", ThreadLimits001)
  <2>1. Lacks(ThreadLimits001, {"print"}) /\ Lacks(ThreadLimits001, {"post", "wait"})
    BY Threads001OK, LacksLess
  <2>. QED  BY <2>1, Threads001OK DEF Traits
<1>17. Traits("procs000", ProcLimits)
  <2>1. Lacks(ProcLimits, {"mark", "use"}) /\ Lacks(ProcLimits, {"print"}) /\ Lacks(ProcLimits, {"post", "wait"})
    BY ProcLimitsOK, LacksLess
  <2>. QED  BY <2>1, ProcLimitsOK DEF Traits
<1>. QED  BY <1>1, <1>2, <1>4, <1>5, <1>6, <1>7, <1>8, <1>9, <1>10, <1>11, <1>12, <1>13, <1>14, <1>15, <1>16, <1>17

HIDE DEF Return, OK, Exit, Need, TryElse, Try, ForkElse, Fork, Create, Waitpid, Getcpu, Getaff, GetOwn,
         Setaff, SetOwn, CheckElse, Check, Sigaction, Kill, SpinSig, SpinFlag, SpinWaiting, SetFlag, Pipe, Write,
         ReadElse, Read, Close, Post, Wait, Again, Usleep, Yield, InLoop, Mark, Use, Free, Created, None

-----------------------------------------------------------------------------
(* The steps of a task *)

\* Where a step takes its task
Moves(t) ==
  \/ Rest(t)
  \/ Else(t) /\ S(t).op \in Fails /\ S(t).orelse # <<>>
  \/ S(t).op = "again" /\ pc' = [pc EXCEPT ![t] = @ - S(t).back] /\ UNCHANGED alt

\* What each kind of step leaves alone
Frames(t) ==
  LET op == S(t).op IN
  /\ Runs(t) /\ UNCHANGED chosen
  /\ op \notin {"getcpu", "setaff", "getaff", "read", "again"} => UNCHANGED reg
  /\ op \notin {"fork", "create", "exit", "return", "kill", "flag", "usleep"} => UNCHANGED life
  /\ op # "exit" => UNCHANGED val
  /\ op # "create" => UNCHANGED threads
  /\ op \notin {"setaff", "fork", "create"} => UNCHANGED <<aff, cpu>>
  /\ op # "yield" => UNCHANGED run
  /\ op \notin {"sigaction", "fork", "kill"} => UNCHANGED hand
  /\ op \notin {"fork", "kill"} => UNCHANGED sig
  /\ op \notin {"fork", "exit", "return", "kill", "pipe", "write", "read", "close", "flag"} => UNCHANGED pipe
  /\ op \notin {"post", "wait"} => UNCHANGED sem
  /\ op # "flag" => UNCHANGED flag
  /\ op # "mapflag" => UNCHANGED mapped
  /\ op # "core" => UNCHANGED core
  /\ op # "free" => UNCHANGED block
  /\ op \notin {"mark", "use"} => UNCHANGED <<stray, waiting>>
  /\ op # "print" => UNCHANGED log
  /\ op \notin {"return", "kill", "flag"} => UNCHANGED end

\* The action of the steps that matter for more than the place of the task
Acts(t) ==
  LET op == S(t).op IN
  /\ op = "try" => TryCall(t)
  /\ op = "getcpu" => get_cpu_id(t)
  /\ op = "setaff" => sched_setaffinity(t)
  /\ op = "getaff" => sched_getaffinity(t)
  /\ op = "fork" => fork(t)
  /\ op = "create" => pthread_create(t)
  /\ op = "created" => AllCreated(t)
  /\ op = "waitpid" => WaitFor(t)
  /\ op = "exit" => ExitStep(t)
  /\ op = "return" => ReturnStep(t)
  /\ op = "sigaction" => sigaction(t)
  /\ op = "kill" => kill(t)
  /\ op = "spin" => spin(t)
  /\ op = "pipe" => MakePipe(t)
  /\ op = "write" => write(t)
  /\ op = "read" => read(t)
  /\ op = "close" => close(t)
  /\ op = "post" => sem_post(t)
  /\ op = "wait" => sem_wait(t)
  /\ op = "mapflag" => MapFlagStep(t)
  /\ op = "flag" => StoreFlag(t)
  /\ op = "core" => StoreCore(t)
  /\ op = "usleep" => usleep(t)
  /\ op = "yield" => sched_yield(t)
  /\ op = "again" => NextRound(t)
  /\ op = "print" => printf(t)
  /\ op = "free" => free(t)
  /\ op \in {"mark", "use"} => Access(t)

\* Every step of a task moves it and is one of the actions of its kind.
LEMMA StepFrames == ASSUME NEW t \in Task, Step(t) PROVE Frames(t) /\ Acts(t)
<1>1. CASE NeedCpus(t)
  <2>1. S(t).op = "need"
    BY <1>1 DEF NeedCpus, At
  <2>2. Frames(t)
    BY <1>1, <2>1 DEF NeedCpus, Frames, chosen, where, signals, channels, memory, At, Assert, Else, Put, Born, Over
  <2>. QED  BY <1>1, <2>1, <2>2 DEF Acts
<1>2. CASE TryCall(t)
  <2>1. S(t).op = "try"
    BY <1>2 DEF TryCall, At
  <2>2. Frames(t)
    BY <1>2, <2>1 DEF TryCall, Frames, chosen, where, signals, channels, memory, At, Assert, Else, Put, Born, Over
  <2>. QED  BY <1>2, <2>1, <2>2 DEF Acts
<1>3. CASE get_cpu_id(t)
  <2>1. S(t).op = "getcpu"
    BY <1>3 DEF get_cpu_id, At
  <2>2. Frames(t)
    BY <1>3, <2>1 DEF get_cpu_id, Frames, chosen, where, signals, channels, memory, At, Assert, Else, Put, Born, Over
  <2>. QED  BY <1>3, <2>1, <2>2 DEF Acts
<1>4. CASE sched_setaffinity(t)
  <2>1. S(t).op = "setaff"
    BY <1>4 DEF sched_setaffinity, At
  <2>2. Frames(t)
    BY <1>4, <2>1 DEF sched_setaffinity, Frames, chosen, where, signals, channels, memory, At, Assert, Else, Put, Born, Over
  <2>. QED  BY <1>4, <2>1, <2>2 DEF Acts
<1>5. CASE sched_getaffinity(t)
  <2>1. S(t).op = "getaff"
    BY <1>5 DEF sched_getaffinity, At
  <2>2. Frames(t)
    BY <1>5, <2>1 DEF sched_getaffinity, Frames, chosen, where, signals, channels, memory, At, Assert, Else, Put, Born, Over
  <2>. QED  BY <1>5, <2>1, <2>2 DEF Acts
<1>6. CASE CheckStep(t)
  <2>1. S(t).op = "check"
    BY <1>6 DEF CheckStep, At
  <2>2. Frames(t)
    BY <1>6, <2>1 DEF CheckStep, Frames, chosen, where, signals, channels, memory, At, Assert, Else, Put, Born, Over
  <2>. QED  BY <1>6, <2>1, <2>2 DEF Acts
<1>7. CASE fork(t)
  <2>1. S(t).op = "fork"
    BY <1>7 DEF fork, At
  <2>2. Frames(t)
    BY <1>7, <2>1 DEF fork, Frames, chosen, where, signals, channels, memory, At, Assert, Else, Put, Born, Over
  <2>. QED  BY <1>7, <2>1, <2>2 DEF Acts
<1>8. CASE pthread_create(t)
  <2>1. S(t).op = "create"
    BY <1>8 DEF pthread_create, At
  <2>2. Frames(t)
    BY <1>8, <2>1 DEF pthread_create, Frames, chosen, where, signals, channels, memory, At, Assert, Else, Put, Born, Over
  <2>. QED  BY <1>8, <2>1, <2>2 DEF Acts
<1>9. CASE AllCreated(t)
  <2>1. S(t).op = "created"
    BY <1>9 DEF AllCreated, At
  <2>2. Frames(t)
    BY <1>9, <2>1 DEF AllCreated, Frames, chosen, where, signals, channels, memory, At, Assert, Else, Put, Born, Over
  <2>. QED  BY <1>9, <2>1, <2>2 DEF Acts
<1>10. CASE WaitFor(t)
  <2>1. S(t).op = "waitpid"
    BY <1>10 DEF WaitFor, At
  <2>2. Frames(t)
    BY <1>10, <2>1 DEF WaitFor, Frames, chosen, where, signals, channels, memory, At, Assert, Else, Put, Born, Over
  <2>. QED  BY <1>10, <2>1, <2>2 DEF Acts
<1>11. CASE ExitStep(t)
  <2>1. S(t).op = "exit"
    BY <1>11 DEF ExitStep, At
  <2>2. Frames(t)
    BY <1>11, <2>1 DEF ExitStep, Frames, chosen, where, signals, channels, memory, At, Assert, Else, Put, Born, Over
  <2>. QED  BY <1>11, <2>1, <2>2 DEF Acts
<1>12. CASE ReturnStep(t)
  <2>1. S(t).op = "return"
    BY <1>12 DEF ReturnStep, At
  <2>2. Frames(t)
    BY <1>12, <2>1 DEF ReturnStep, Frames, chosen, where, signals, channels, memory, At, Assert, Else, Put, Born, Over
  <2>. QED  BY <1>12, <2>1, <2>2 DEF Acts
<1>13. CASE sigaction(t)
  <2>1. S(t).op = "sigaction"
    BY <1>13 DEF sigaction, At
  <2>2. Frames(t)
    BY <1>13, <2>1 DEF sigaction, Frames, chosen, where, signals, channels, memory, At, Assert, Else, Put, Born, Over
  <2>. QED  BY <1>13, <2>1, <2>2 DEF Acts
<1>14. CASE kill(t)
  <2>1. S(t).op = "kill"
    BY <1>14 DEF kill, At
  <2>2. Frames(t)
    BY <1>14, <2>1 DEF kill, Frames, chosen, where, signals, channels, memory, At, Assert, Else, Put, Born, Over
  <2>. QED  BY <1>14, <2>1, <2>2 DEF Acts
<1>15. CASE spin(t)
  <2>1. S(t).op = "spin"
    BY <1>15 DEF spin, At
  <2>2. Frames(t)
    BY <1>15, <2>1 DEF spin, Frames, chosen, where, signals, channels, memory, At, Assert, Else, Put, Born, Over
  <2>. QED  BY <1>15, <2>1, <2>2 DEF Acts
<1>16. CASE MakePipe(t)
  <2>1. S(t).op = "pipe"
    BY <1>16 DEF MakePipe, At
  <2>2. Frames(t)
    BY <1>16, <2>1 DEF MakePipe, Frames, chosen, where, signals, channels, memory, At, Assert, Else, Put, Born, Over
  <2>. QED  BY <1>16, <2>1, <2>2 DEF Acts
<1>17. CASE write(t)
  <2>1. S(t).op = "write"
    BY <1>17 DEF write, At
  <2>2. Frames(t)
    BY <1>17, <2>1 DEF write, Frames, chosen, where, signals, channels, memory, At, Assert, Else, Put, Born, Over
  <2>. QED  BY <1>17, <2>1, <2>2 DEF Acts
<1>18. CASE read(t)
  <2>1. S(t).op = "read"
    BY <1>18 DEF read, At
  <2>2. Frames(t)
    BY <1>18, <2>1 DEF read, Frames, chosen, where, signals, channels, memory, At, Assert, Else, Put, Born, Over
  <2>. QED  BY <1>18, <2>1, <2>2 DEF Acts
<1>19. CASE close(t)
  <2>1. S(t).op = "close"
    BY <1>19 DEF close, At
  <2>2. Frames(t)
    BY <1>19, <2>1 DEF close, Frames, chosen, where, signals, channels, memory, At, Assert, Else, Put, Born, Over
  <2>. QED  BY <1>19, <2>1, <2>2 DEF Acts
<1>20. CASE sem_post(t)
  <2>1. S(t).op = "post"
    BY <1>20 DEF sem_post, At
  <2>2. Frames(t)
    BY <1>20, <2>1 DEF sem_post, Frames, chosen, where, signals, channels, memory, At, Assert, Else, Put, Born, Over
  <2>. QED  BY <1>20, <2>1, <2>2 DEF Acts
<1>21. CASE sem_wait(t)
  <2>1. S(t).op = "wait"
    BY <1>21 DEF sem_wait, At
  <2>2. Frames(t)
    BY <1>21, <2>1 DEF sem_wait, Frames, chosen, where, signals, channels, memory, At, Assert, Else, Put, Born, Over
  <2>. QED  BY <1>21, <2>1, <2>2 DEF Acts
<1>22. CASE MapFlagStep(t)
  <2>1. S(t).op = "mapflag"
    BY <1>22 DEF MapFlagStep, At
  <2>2. Frames(t)
    BY <1>22, <2>1 DEF MapFlagStep, Frames, chosen, where, signals, channels, memory, At, Assert, Else, Put, Born, Over
  <2>. QED  BY <1>22, <2>1, <2>2 DEF Acts
<1>23. CASE StoreFlag(t)
  <2>1. S(t).op = "flag"
    BY <1>23 DEF StoreFlag, At
  <2>2. Frames(t)
    BY <1>23, <2>1 DEF StoreFlag, Frames, chosen, where, signals, channels, memory, At, Assert, Else, Put, Born, Over
  <2>. QED  BY <1>23, <2>1, <2>2 DEF Acts
<1>24. CASE StoreCore(t)
  <2>1. S(t).op = "core"
    BY <1>24 DEF StoreCore, At
  <2>2. Frames(t)
    BY <1>24, <2>1 DEF StoreCore, Frames, chosen, where, signals, channels, memory, At, Assert, Else, Put, Born, Over
  <2>. QED  BY <1>24, <2>1, <2>2 DEF Acts
<1>25. CASE usleep(t)
  <2>1. S(t).op = "usleep"
    BY <1>25 DEF usleep, At
  <2>2. Frames(t)
    BY <1>25, <2>1 DEF usleep, Frames, chosen, where, signals, channels, memory, At, Assert, Else, Put, Born, Over
  <2>. QED  BY <1>25, <2>1, <2>2 DEF Acts
<1>26. CASE sched_yield(t)
  <2>1. S(t).op = "yield"
    BY <1>26 DEF sched_yield, At
  <2>2. Frames(t)
    BY <1>26, <2>1 DEF sched_yield, Frames, chosen, where, signals, channels, memory, At, Assert, Else, Put, Born, Over
  <2>. QED  BY <1>26, <2>1, <2>2 DEF Acts
<1>27. CASE NextRound(t)
  <2>1. S(t).op = "again"
    BY <1>27 DEF NextRound, At
  <2>2. Frames(t)
    BY <1>27, <2>1 DEF NextRound, Frames, chosen, where, signals, channels, memory, At, Assert, Else, Put, Born, Over
  <2>. QED  BY <1>27, <2>1, <2>2 DEF Acts
<1>28. CASE printf(t)
  <2>1. S(t).op = "print"
    BY <1>28 DEF printf, At
  <2>2. Frames(t)
    BY <1>28, <2>1 DEF printf, Frames, chosen, where, signals, channels, memory, At, Assert, Else, Put, Born, Over
  <2>. QED  BY <1>28, <2>1, <2>2 DEF Acts
<1>29. CASE Access(t)
  <2>1. S(t).op \in {"mark", "use"}
    BY <1>29 DEF Access
  <2>2. Frames(t)
    BY <1>29, <2>1 DEF Access, Frames, chosen, where, signals, channels, memory, At, Assert, Else, Put, Born, Over
  <2>. QED  BY <1>29, <2>1, <2>2 DEF Acts
<1>30. CASE free(t)
  <2>1. S(t).op = "free"
    BY <1>30 DEF free, At
  <2>2. Frames(t)
    BY <1>30, <2>1 DEF free, Frames, chosen, where, signals, channels, memory, At, Assert, Else, Put, Born, Over
  <2>. QED  BY <1>30, <2>1, <2>2 DEF Acts
<1>. QED  BY <1>1, <1>2, <1>3, <1>4, <1>5, <1>6, <1>7, <1>8, <1>9, <1>10, <1>11, <1>12, <1>13, <1>14, <1>15, <1>16, <1>17, <1>18, <1>19, <1>20, <1>21, <1>22, <1>23, <1>24, <1>25, <1>26, <1>27, <1>28, <1>29, <1>30 DEF Step

\* Every step takes its task to the next one, to its orelse, or back to the start of its loop.
LEMMA StepMoves == ASSUME NEW t \in Task, Step(t), \A s \in {S(t)} : s.op \in Fails /\ s.op # "read" => s.orelse # <<>> PROVE Moves(t)
<1>1. CASE NeedCpus(t)
  BY <1>1 DEF Moves, NeedCpus, At, Assert, Born, Fails
<1>2. CASE TryCall(t)
  BY <1>2 DEF Moves, TryCall, At, Assert, Born, Fails
<1>3. CASE get_cpu_id(t)
  BY <1>3 DEF Moves, get_cpu_id, At, Born
<1>4. CASE sched_setaffinity(t)
  BY <1>4 DEF Moves, sched_setaffinity, At, Assert, Born, Fails
<1>5. CASE sched_getaffinity(t)
  BY <1>5 DEF Moves, sched_getaffinity, At, Assert, Born, Fails
<1>6. CASE CheckStep(t)
  BY <1>6 DEF Moves, CheckStep, At, Assert, Born, Fails
<1>7. CASE fork(t)
  BY <1>7 DEF Moves, fork, At, Assert, Born, Fails
<1>8. CASE pthread_create(t)
  BY <1>8 DEF Moves, pthread_create, At, Born
<1>9. CASE AllCreated(t)
  BY <1>9 DEF Moves, AllCreated, At, Assert, Born, Fails
<1>10. CASE WaitFor(t)
  BY <1>10 DEF Moves, WaitFor, At, Born
<1>11. CASE ExitStep(t)
  BY <1>11 DEF Moves, ExitStep, At, Born
<1>12. CASE ReturnStep(t)
  BY <1>12 DEF Moves, ReturnStep, At, Born
<1>13. CASE sigaction(t)
  BY <1>13 DEF Moves, sigaction, At, Born
<1>14. CASE kill(t)
  BY <1>14 DEF Moves, kill, At, Born
<1>15. CASE spin(t)
  BY <1>15 DEF Moves, spin, At, Born
<1>16. CASE MakePipe(t)
  BY <1>16 DEF Moves, MakePipe, At, Assert, Born, Fails
<1>17. CASE write(t)
  BY <1>17 DEF Moves, write, At, Born
<1>18. CASE read(t)
  BY <1>18 DEF Moves, read, At, Assert, Born, Fails
<1>19. CASE close(t)
  BY <1>19 DEF Moves, close, At, Born
<1>20. CASE sem_post(t)
  BY <1>20 DEF Moves, sem_post, At, Born
<1>21. CASE sem_wait(t)
  BY <1>21 DEF Moves, sem_wait, At, Born
<1>22. CASE MapFlagStep(t)
  BY <1>22 DEF Moves, MapFlagStep, At, Born
<1>23. CASE StoreFlag(t)
  BY <1>23 DEF Moves, StoreFlag, At, Born
<1>24. CASE StoreCore(t)
  BY <1>24 DEF Moves, StoreCore, At, Born
<1>25. CASE usleep(t)
  BY <1>25 DEF Moves, usleep, At, Born
<1>26. CASE sched_yield(t)
  BY <1>26 DEF Moves, sched_yield, At, Born
<1>27. CASE NextRound(t)
  BY <1>27 DEF Moves, NextRound, At, Born
<1>28. CASE printf(t)
  BY <1>28 DEF Moves, printf, At, Born
<1>29. CASE Access(t)
  BY <1>29 DEF Moves, Access, At, Born
<1>30. CASE free(t)
  BY <1>30 DEF Moves, free, At, Born
<1>. QED  BY <1>1, <1>2, <1>3, <1>4, <1>5, <1>6, <1>7, <1>8, <1>9, <1>10, <1>11, <1>12, <1>13, <1>14, <1>15, <1>16, <1>17, <1>18, <1>19, <1>20, <1>21, <1>22, <1>23, <1>24, <1>25, <1>26, <1>27, <1>28, <1>29, <1>30 DEF Step

-----------------------------------------------------------------------------
(* Where the tasks are, for every test *)

Living == {"alive", "asleep"}
Lives == Living \union {"unborn", "done", "killed"}

\* A live task is at a step of its program X[t], or of the orelse of that step; one not yet made is at the start.
Placed(X, x, a, l) ==
  /\ x \in [Task -> Nat] /\ a \in [Task -> Nat] /\ l \in [Task -> Lives]
  /\ \A t \in Task :
       /\ x[t] \in 1..(Len(X[t]) + 1)
       /\ l[t] \in Living => x[t] <= Len(X[t])
       /\ l[t] = "unborn" => x[t] = 1 /\ a[t] = 0
       /\ l[t] \in Living /\ a[t] # 0 => X[t][x[t]].op \in Fails /\ a[t] <= Len(X[t][x[t]].orelse)
  /\ l["P"] # "unborn"

\* The children that P has yet to make are not there.
ToCome(X, x, l) ==
  l["P"] \in Living => \A k \in 1..Len(X.P) : x["P"] <= k /\ X.P[k].op \in Births => l[X.P[k].who] = "unborn"

\* The test and its programs
Picked == test \in DOMAIN Suite(0) /\ num_of_cpus \in Nat /\ T = Suite(num_of_cpus)[test]

PlaceInv == Picked /\ Placed(T, pc, alt, life) /\ ToCome(T, pc, life)

\* What there is to know of the step of a task that runs
Known(t) ==
  /\ life[t] \in Living /\ pc[t] \in 1..Len(T[t]) /\ StepOK(t, S(t))
  /\ alt[t] = 0 => S(t) = T[t][pc[t]] /\ Proper(t, S(t)) /\ (S(t).op \in Ends <=> pc[t] = Len(T[t]))
  /\ alt[t] # 0 => /\ T[t][pc[t]].op \in Fails /\ alt[t] \in 1..Len(T[t][pc[t]].orelse) /\ S(t) = T[t][pc[t]].orelse[alt[t]]
                   /\ S(t).op \in Simple /\ (S(t).op \in Ends <=> alt[t] = Len(T[t][pc[t]].orelse))

\* A task that runs is at a step of the text of its test.
LEMMA KnownStep == ASSUME NEW t \in Task, PlaceInv, Runs(t) PROVE Traits(test, T) /\ Known(t)
<1>1. Traits(test, T)
  BY SuiteLemma DEF PlaceInv, Picked
<1>2. TextOK(t, T[t])
  BY <1>1 DEF Traits, SuiteOK
<1>3. life[t] \in Living /\ pc[t] \in 1..Len(T[t])
  BY DEF Runs, PlaceInv, Placed, Living
<1>4. Proper(t, T[t][pc[t]]) /\ (T[t][pc[t]].op \in Ends <=> pc[t] = Len(T[t]))
  BY <1>2, <1>3 DEF TextOK
<1>5. CASE alt[t] = 0
  BY <1>1, <1>3, <1>4, <1>5 DEF Known, S, Proper
<1>6. CASE alt[t] # 0
  <2>1. T[t][pc[t]].op \in Fails /\ alt[t] \in 1..Len(T[t][pc[t]].orelse)
    BY <1>3, <1>6 DEF PlaceInv, Placed
  <2>2. S(t) = T[t][pc[t]].orelse[alt[t]]
    BY <1>6 DEF S
  <2>3. ElseOK(t, T[t][pc[t]])
    BY <1>4, <2>1 DEF Proper
  <2>. QED  BY <1>1, <1>3, <1>6, <2>1, <2>2, <2>3 DEF Known, ElseOK
<1>. QED  BY <1>5, <1>6

\* A task moves on in its program.
LEMMA Moving == ASSUME NEW t \in Task, PlaceInv, Step(t) PROVE Frames(t) /\ Acts(t) /\ Moves(t) /\ Traits(test, T) /\ Known(t)
<1>1. Frames(t) /\ Acts(t)
  BY StepFrames
<1>2. Traits(test, T) /\ Known(t)
  BY <1>1, KnownStep DEF Frames
<1>3. S(t).op \in Fails /\ S(t).op # "read" => S(t).orelse # <<>>
  <2>1. SUFFICES ASSUME S(t).op \in Fails, S(t).op # "read" PROVE S(t).orelse # <<>>
    OBVIOUS
  <2>2. alt[t] = 0
    BY <1>2, <2>1 DEF Known, Simple, Fails
  <2>3. ElseOK(t, S(t))
    BY <1>2, <2>1, <2>2 DEF Known, Proper
  <2>. QED  BY <2>1, <2>3 DEF ElseOK
<1>. QED  BY <1>1, <1>2, <1>3, StepMoves

\* The child that a step makes, if it makes one
Newborn(t, u) == S(t).op \in Births /\ u = S(t).who /\ u \in Child /\ t = "P" /\ alt[t] = 0 /\ Rest(t) /\ life[u] = "unborn"

\* What a step does to the lives of the tasks
LEMMA Living1 ==
  ASSUME NEW t \in Task, PlaceInv, Step(t)
  PROVE  /\ life' \in [Task -> Lives]
         /\ S(t).op \in Ends => life'[t] \notin Living
         /\ \A u \in Task : \/ life'[u] = life[u]
                            \/ life[u] \in Living /\ life'[u] # "unborn"
                            \/ Newborn(t, u) /\ life'[u] = "alive"
<1>. DEFINE Goal == /\ life' \in [Task -> Lives]
                    /\ S(t).op \in Ends => life'[t] \notin Living
                    /\ \A u \in Task : \/ life'[u] = life[u]
                                       \/ life[u] \in Living /\ life'[u] # "unborn"
                                       \/ Newborn(t, u) /\ life'[u] = "alive"
<1>1. Frames(t) /\ Acts(t) /\ Known(t) /\ life \in [Task -> Lives] /\ SuiteOK(T)
  BY Moving DEF PlaceInv, Placed, Traits
<1>2. life[t] \in Living
  BY <1>1 DEF Known
<1>3. CASE S(t).op \notin {"fork", "create", "exit", "return", "kill", "flag", "usleep"}
  BY <1>1, <1>3 DEF Frames, Ends
<1>4. CASE S(t).op \in Births
  <2>1. t = "P" /\ S(t).who \in Child /\ alt[t] = 0
    BY <1>1, <1>4 DEF Known, StepOK, Simple, Births
  <2>2. life[S(t).who] = "unborn"
    <3>1. S(t) = T.P[pc["P"]] /\ pc["P"] \in 1..Len(T.P) /\ life["P"] \in Living
      BY <1>1, <2>1 DEF Known
    <3>. QED  BY <1>4, <3>1 DEF PlaceInv, ToCome
  <2>3. UNCHANGED life \/ (life' = [life EXCEPT ![S(t).who] = "alive"] /\ Rest(t))
    BY <1>1, <1>4 DEF Acts, Births, fork, pthread_create, Born
  <2>4. S(t).op \notin Ends /\ S(t).who \in Task
    BY <1>4, <2>1 DEF Births, Ends, Child
  <2>. QED  BY <1>1, <1>4, <2>1, <2>2, <2>3, <2>4 DEF Lives, Living, Newborn
<1>5. CASE S(t).op = "exit"
  BY <1>1, <1>2, <1>5 DEF Acts, ExitStep, Lives, Living
<1>6. CASE S(t).op = "return"
  <2>1. t = "P" /\ Over(S(t).v)
    BY <1>1, <1>6 DEF Acts, ReturnStep, Known, StepOK
  <2>. QED  BY <1>1, <1>2, <2>1 DEF Over, Lives, Living, Alive
<1>7. CASE S(t).op = "kill"
  BY <1>1, <1>7 DEF Acts, kill, Lives, Living, Alive, Ends, Known, StepOK
<1>8. CASE S(t).op = "flag"
  BY <1>1, <1>2, <1>8 DEF Acts, StoreFlag, Over, Lives, Living, Alive, Ends
<1>9. CASE S(t).op = "usleep"
  BY <1>1, <1>2, <1>9 DEF Acts, usleep, Lives, Living, Ends
<1>. QED  BY <1>3, <1>4, <1>5, <1>6, <1>7, <1>8, <1>9 DEF Births

\* Every step keeps the tasks in their programs.
LEMMA PlaceStep == ASSUME NEW t \in Task, PlaceInv, Step(t) PROVE PlaceInv'
<1>1. Frames(t) /\ Moves(t) /\ Known(t) /\ SuiteOK(T)
  BY Moving DEF Traits
<1>2. Picked'
  BY <1>1 DEF Frames, chosen, PlaceInv, Picked
<1>3. UNCHANGED T
  BY <1>1 DEF Frames, chosen
<1>4. /\ Len(T[t]) \in Nat /\ pc \in [Task -> Nat] /\ alt \in [Task -> Nat]
      /\ pc[t] \in 1..Len(T[t])
  BY <1>1 DEF SuiteOK, TextOK, PlaceInv, Placed, Known
<1>5. /\ pc' \in [Task -> Nat] /\ alt' \in [Task -> Nat]
      /\ \A u \in Task : u # t => pc'[u] = pc[u] /\ alt'[u] = alt[u]
      /\ pc'[t] \in 1..(Len(T[t]) + 1)
      /\ S(t).op \notin Ends => /\ pc'[t] <= Len(T[t])
                                /\ alt'[t] # 0 => T[t][pc'[t]].op \in Fails /\ alt'[t] <= Len(T[t][pc'[t]].orelse)
  <2>1. CASE Rest(t)
    <3>1. CASE alt[t] = 0
      <4>1. pc' = [pc EXCEPT ![t] = pc[t] + 1] /\ alt' = [alt EXCEPT ![t] = 0]
        BY <2>1, <3>1 DEF Rest
      <4>2. S(t).op \notin Ends => pc[t] # Len(T[t])
        BY <1>1, <3>1 DEF Known
      <4>. QED  BY <1>4, <4>1, <4>2
    <3>2. CASE alt[t] # 0
      <4>1. pc' = [pc EXCEPT ![t] = pc[t]] /\ alt' = [alt EXCEPT ![t] = alt[t] + 1]
        BY <2>1, <3>2 DEF Rest
      <4>2. /\ T[t][pc[t]].op \in Fails /\ alt[t] \in 1..Len(T[t][pc[t]].orelse)
            /\ S(t).op \notin Ends => alt[t] # Len(T[t][pc[t]].orelse)
        BY <1>1, <3>2 DEF Known
      <4>3. Len(T[t][pc[t]].orelse) \in Nat
        BY <1>1, <1>4, <4>2 DEF SuiteOK, TextOK, Proper, ElseOK
      <4>. QED  BY <1>4, <4>1, <4>2, <4>3
    <3>. QED  BY <3>1, <3>2
  <2>2. CASE Else(t) /\ S(t).op \in Fails /\ S(t).orelse # <<>>
    <3>1. alt[t] = 0 /\ S(t) = T[t][pc[t]]
      BY <1>1, <2>2 DEF Known, Simple, Fails
    <3>2. ElseOK(t, S(t))
      BY <1>1, <2>2, <3>1 DEF Known, Proper
    <3>3. 1 <= Len(S(t).orelse)
      BY <2>2, <3>2 DEF ElseOK
    <3>. QED  BY <1>4, <2>2, <3>1, <3>3 DEF Else
  <2>3. CASE S(t).op = "again" /\ pc' = [pc EXCEPT ![t] = @ - S(t).back] /\ UNCHANGED alt
    <3>1. alt[t] = 0 /\ S(t) = T[t][pc[t]]
      BY <1>1, <2>3 DEF Known, Simple
    <3>2. S(t).back = 4 /\ 4 < pc[t]
      BY <1>1, <1>4, <2>3, <3>1 DEF SuiteOK, TextOK
    <3>. QED  BY <1>4, <2>3, <3>1, <3>2
  <2>. QED  BY <1>1, <2>1, <2>2, <2>3 DEF Moves
<1>6. /\ life' \in [Task -> Lives]
      /\ S(t).op \in Ends => life'[t] \notin Living
      /\ \A u \in Task : \/ life'[u] = life[u]
                         \/ life[u] \in Living /\ life'[u] # "unborn"
                         \/ Newborn(t, u) /\ life'[u] = "alive"
  BY Living1
<1>7. Placed(T, pc, alt, life)' 
  <2>1. ASSUME NEW u \in Task
        PROVE  /\ pc'[u] \in 1..(Len(T[u]) + 1)
               /\ life'[u] \in Living => pc'[u] <= Len(T[u])
               /\ life'[u] = "unborn" => pc'[u] = 1 /\ alt'[u] = 0
               /\ life'[u] \in Living /\ alt'[u] # 0 => T[u][pc'[u]].op \in Fails /\ alt'[u] <= Len(T[u][pc'[u]].orelse)
    <3>1. CASE u = t
      <4>1. life'[t] # "unborn"
        BY <1>1, <1>6 DEF Known, Living
      <4>. QED  BY <1>5, <1>6, <3>1, <4>1
    <3>2. CASE u # t
      <4>1. pc'[u] = pc[u] /\ alt'[u] = alt[u]
        BY <1>5, <3>2
      <4>2. CASE life'[u] = life[u] \/ (life[u] \in Living /\ life'[u] # "unborn")
        BY <4>1, <4>2 DEF PlaceInv, Placed
      <4>3. CASE Newborn(t, u) /\ life'[u] = "alive"
        <5>1. Len(T[u]) \in Nat /\ Len(T[u]) > 0
          <6>1. t = "P" /\ S(t) = T.P[pc["P"]] /\ S(t).op \in Births /\ u = S(t).who
            BY <1>1, <4>3 DEF Known, Newborn
          <6>. QED  BY <1>1, <1>4, <6>1 DEF SuiteOK, BirthsOK, TextOK
        <5>. QED  BY <4>1, <4>3, <5>1 DEF Newborn, PlaceInv, Placed
      <4>. QED  BY <1>6, <4>2, <4>3
    <3>. QED  BY <3>1, <3>2
  <2>2. life'["P"] # "unborn"
    BY <1>6 DEF Newborn, Child, PlaceInv, Placed, Task
  <2>. QED  BY <1>3, <1>5, <1>6, <2>1, <2>2 DEF Placed
<1>8. ToCome(T, pc, life)'
  <2>1. SUFFICES ASSUME life'["P"] \in Living, NEW k \in 1..Len(T.P), pc'["P"] <= k, T.P[k].op \in Births
                 PROVE  life'[T.P[k].who] = "unborn"
    BY <1>3 DEF ToCome
  <2>2. life["P"] \in Living
    BY <1>6, <2>1 DEF Newborn, Child, Task
  <2>3. Len(T.P) \in Nat /\ T.P[k].who \in Child /\ T.P[k].who \in Task
    BY <1>1, <2>1 DEF SuiteOK, TextOK, Proper, StepOK, Task, Child
  <2>4. pc["P"] <= k /\ ~Newborn(t, T.P[k].who)
    <3>1. CASE t # "P"
      BY <1>5, <2>1, <3>1 DEF Newborn, Task
    <3>2. CASE t = "P"
      <4>1. CASE Rest(t)
        <5>1. CASE alt["P"] = 0
          <6>1. pc'["P"] = pc["P"] + 1 /\ S(t) = T.P[pc["P"]]
            BY <1>1, <1>4, <3>2, <4>1, <5>1 DEF Rest, Known
          <6>2. pc["P"] < k
            BY <1>4, <2>1, <2>3, <3>2, <6>1
          <6>3. S(t).op \in Births => S(t).who # T.P[k].who
            BY <1>1, <1>4, <2>1, <2>3, <3>2, <6>1, <6>2 DEF SuiteOK, BirthsOK
          <6>. QED  BY <1>4, <3>2, <6>2, <6>3, <2>3 DEF Newborn
        <5>2. CASE alt["P"] # 0
          BY <1>4, <2>1, <3>2, <4>1, <5>2 DEF Rest, Newborn
        <5>. QED  BY <5>1, <5>2
      <4>2. CASE Else(t) /\ S(t).op \in Fails /\ S(t).orelse # <<>>
        <5>1. alt[t] = 0
          BY <1>1, <4>2 DEF Known, Simple, Fails
        <5>2. ~Rest(t)
          BY <1>4, <4>2, <5>1 DEF Rest, Else
        <5>. QED  BY <2>1, <3>2, <4>2, <5>2 DEF Else, Newborn
      <4>3. CASE S(t).op = "again" /\ pc' = [pc EXCEPT ![t] = @ - S(t).back] /\ UNCHANGED alt
        <5>1. alt[t] = 0 /\ S(t) = T.P[pc["P"]]
          BY <1>1, <4>3, <3>2 DEF Known, Simple
        <5>2. S(t).back = 4 /\ \A j \in (pc["P"] - 4)..pc["P"] : T.P[j].op \notin Births
          BY <1>1, <1>4, <3>2, <4>3, <5>1 DEF SuiteOK, TextOK
        <5>3. pc'["P"] = pc["P"] - 4
          BY <1>4, <3>2, <4>3, <5>2
        <5>4. ~(k \in (pc["P"] - 4)..pc["P"])
          BY <2>1, <5>2
        <5>. QED  BY <1>4, <2>1, <2>3, <3>2, <4>3, <5>3, <5>4 DEF Newborn, Births
      <4>. QED  BY <1>1, <4>1, <4>2, <4>3 DEF Moves
    <3>. QED  BY <3>1, <3>2
  <2>5. life[T.P[k].who] = "unborn"
    BY <2>1, <2>2, <2>4 DEF PlaceInv, ToCome
  <2>. QED  BY <1>6, <2>3, <2>4, <2>5 DEF Living
<1>. QED  BY <1>2, <1>7, <1>8 DEF PlaceInv

-----------------------------------------------------------------------------
(* The rest of the state, but for the semaphores *)

\* The affinities, the CPUs of the tasks, the tasks of the CPUs cs
Wheres(cs, af, cp, rn) == af \in [Task -> SUBSET cs] /\ cp \in [Task -> cs] /\ rn \in [cs -> Task \union {"idle"}]

\* The locals: the CPU a task noted, and its rounds
Locals(cs, r, co) ==
  /\ DOMAIN r = Task /\ co \in cs \union {-1}
  /\ \A t \in Task : DOMAIN r[t] = Fields /\ r[t].cpu \in cs \union {-1} /\ r[t].i \in Nat

\* The ends of pipes belong to live processes; threads hold none of their own.
Owned(l, th, pp) ==
  /\ th \subseteq Child /\ \A c \in th : l[c] # "unborn"
  /\ DOMAIN pp = Pipes
  /\ \A p \in Pipes : /\ DOMAIN pp[p] = {"q", "r", "w"}
                      /\ \A t \in pp[p].r \union pp[p].w : t \in Task /\ l[t] \in Living /\ t \notin th

\* The result is there when P is gone.
Ended(l, e) == e \in {"none", "ok", "ng", "dead", "order"} /\ (e = "none" <=> l["P"] \in Living)

Shared(f, b, v) == f \in 0..2 /\ b \in {"live", "freed"} /\ v \in [Task -> {0, 1}]

TypeInv ==
  /\ Wheres(CPU, aff, cpu, run) /\ Locals(CPU, reg, core) /\ Owned(life, threads, pipe) /\ Ended(life, end)
  /\ Shared(flag, block, val)

\* The CPUs with the fewest tasks are some of those looked at.
LEMMA LeastLemma == ASSUME NEW cs PROVE Least(cs) \subseteq cs
  BY DEF Least

\* A task is put on CPUs that are there.
LEMMA WheresStep ==
  ASSUME NEW t \in Task, PlaceInv, Step(t), Wheres(CPU, aff, cpu, run)
  PROVE  CPU' = CPU /\ Wheres(CPU, aff, cpu, run)'
<1>1. Frames(t) /\ Acts(t) /\ Known(t)
  BY Moving
<1>2. CPU' = CPU
  BY <1>1 DEF Frames, chosen, CPU, ncpu
<1>3. aff \in [Task -> SUBSET CPU] /\ cpu \in [Task -> CPU] /\ run \in [CPU -> Task \union {"idle"}]
  BY DEF Wheres
<1>4. run' \in [CPU -> Task \union {"idle"}]
  <2>1. CASE S(t).op = "yield"
    <3>1. sched_yield(t)
      BY <1>1, <2>1 DEF Acts
    <3>2. UNCHANGED run \/ \E u \in Task \ {t} : run' = [run EXCEPT ![cpu[t]] = u]
      BY <3>1 DEF sched_yield
    <3>. QED  BY <1>3, <3>2
  <2>. QED  BY <1>1, <1>3, <2>1 DEF Frames
<1>5. aff' \in [Task -> SUBSET CPU] /\ cpu' \in [Task -> CPU]
  <2>1. CASE S(t).op \in Births
    <3>1. t = "P" /\ S(t).who \in Task
      BY <1>1, <2>1 DEF Known, StepOK, Child
    <3>2. UNCHANGED <<aff, cpu>> \/ Born(t, S(t).who)
      BY <1>1, <2>1 DEF Acts, Births, fork, pthread_create, where
    <3>3. CASE Born(t, S(t).who)
      <4>1. PICK d \in Least(aff[t]) : /\ cpu' = [cpu EXCEPT ![S(t).who] = d]
                                       /\ aff' = [aff EXCEPT ![S(t).who] = IF fault = "noinherit" THEN {d} ELSE aff[t]]
        BY <3>3 DEF Born
      <4>2. d \in aff[t] /\ aff[t] \subseteq CPU
        BY <1>3, <4>1, LeastLemma
      <4>. QED  BY <1>3, <3>1, <4>1, <4>2
    <3>. QED  BY <1>3, <3>2, <3>3
  <2>2. CASE S(t).op = "setaff"
    <3>1. sched_setaffinity(t)
      BY <1>1, <2>2 DEF Acts
    <3>2. PICK u : (u = t \/ u = Target(t)) /\ \/ UNCHANGED <<aff, cpu>>
                                               \/ /\ ~Nobody(u) /\ aff' = [aff EXCEPT ![u] = Mask(t) \intersect CPU]
                                                  /\ UNCHANGED cpu \/ \E c \in Least(aff'[u]) : cpu' = [cpu EXCEPT ![u] = c]
      BY <3>1 DEF sched_setaffinity
    <3>3. CASE UNCHANGED <<aff, cpu>>
      BY <1>3, <3>3
    <3>4. CASE ~UNCHANGED <<aff, cpu>>
      <4>1. u \in Task
        BY <1>1, <2>2, <3>2, <3>4 DEF Target, Nobody, Known, StepOK
      <4>2. aff' = [aff EXCEPT ![u] = Mask(t) \intersect CPU]
        BY <3>2, <3>4
      <4>3. aff' \in [Task -> SUBSET CPU] /\ aff'[u] \subseteq CPU
        BY <1>3, <4>1, <4>2
      <4>4. UNCHANGED cpu \/ \E c \in CPU : cpu' = [cpu EXCEPT ![u] = c]
        BY <3>2, <3>4, <4>3, LeastLemma
      <4>. QED  BY <1>3, <4>1, <4>3, <4>4
    <3>. QED  BY <3>3, <3>4
  <2>. QED  BY <1>1, <1>3, <2>1, <2>2 DEF Frames, Births
<1>. QED  BY <1>2, <1>4, <1>5 DEF Wheres

\* The locals keep their types.
LEMMA LocalsStep ==
  ASSUME NEW t \in Task, PlaceInv, Step(t), Wheres(CPU, aff, cpu, run), Locals(CPU, reg, core)
  PROVE  Locals(CPU, reg, core)'
<1>1. Frames(t) /\ Acts(t) /\ Known(t) /\ CPU' = CPU
  BY Moving, WheresStep
<1>2. cpu[t] \in CPU /\ reg[t].i + 1 \in Nat
  BY DEF Wheres, Locals
<1>3. core' \in CPU \union {-1}
  <2>1. CASE S(t).op = "core"
    BY <1>1, <2>1 DEF Acts, StoreCore, Locals
  <2>. QED  BY <1>1, <2>1 DEF Frames, Locals
<1>4. \/ UNCHANGED reg
      \/ \E r \in Fields : \E v : /\ reg' = [reg EXCEPT ![t][r] = v]
                                  /\ r = "cpu" => v \in CPU
                                  /\ r = "i" => v \in Nat
  <2>1. CASE S(t).op = "getcpu"
    BY <1>1, <1>2, <2>1 DEF Acts, get_cpu_id, Put, Known, StepOK, Fields
  <2>2. CASE S(t).op = "setaff"
    BY <1>1, <2>2 DEF Acts, sched_setaffinity, Put, Fields
  <2>3. CASE S(t).op = "getaff"
    <3>1. UNCHANGED reg \/ reg' = [reg EXCEPT ![t][S(t).r] = aff[Target(t)]]
      BY <1>1, <2>3 DEF Acts, sched_getaffinity, Put
    <3>2. S(t).r \in {"own", "its"}
      BY <1>1, <2>3 DEF Known, StepOK
    <3>. QED  BY <3>1, <3>2 DEF Fields
  <2>4. CASE S(t).op = "read"
    <3>1. UNCHANGED reg \/ reg' = [reg EXCEPT ![t][S(t).r] = Head(pipe[S(t).p].q)]
      BY <1>1, <2>4 DEF Acts, read, Put
    <3>2. S(t).r \in {"got", "got2"}
      BY <1>1, <2>4 DEF Known, StepOK
    <3>. QED  BY <3>1, <3>2 DEF Fields
  <2>5. CASE S(t).op = "again"
    BY <1>1, <1>2, <2>5 DEF Acts, NextRound, Put, Fields
  <2>. QED  BY <1>1, <2>1, <2>2, <2>3, <2>4, <2>5 DEF Frames
<1>5. CASE UNCHANGED reg
  BY <1>1, <1>3, <1>5 DEF Locals
<1>6. CASE ~UNCHANGED reg
  <2>1. PICK r, v : /\ r \in Fields /\ reg' = [reg EXCEPT ![t][r] = v]
                    /\ r = "cpu" => v \in CPU
                    /\ r = "i" => v \in Nat
    BY <1>4, <1>6
  <2>2. DOMAIN reg = Task /\ \A u \in Task : DOMAIN reg[u] = Fields /\ reg[u].cpu \in CPU \union {-1} /\ reg[u].i \in Nat
    BY DEF Locals
  <2>3. DOMAIN reg' = Task /\ \A u \in Task : DOMAIN reg'[u] = Fields
    BY <2>1, <2>2
  <2>4. \A u \in Task : reg'[u].cpu = IF u = t /\ r = "cpu" THEN v ELSE reg[u].cpu
    BY <2>1, <2>2 DEF Fields
  <2>5. \A u \in Task : reg'[u].i = IF u = t /\ r = "i" THEN v ELSE reg[u].i
    BY <2>1, <2>2 DEF Fields
  <2>6. \A u \in Task : reg'[u].cpu \in CPU \union {-1} /\ reg'[u].i \in Nat
    BY ONLY <2>1, <2>2, <2>4, <2>5
  <2>. QED  BY <1>1, <1>3, <2>3, <2>6 DEF Locals
<1>. QED  BY <1>5, <1>6

\* Every process lets go of its pipes when it ends.
LEMMA OwnedStep ==
  ASSUME NEW t \in Task, PlaceInv, Step(t), Owned(life, threads, pipe)
  PROVE  Owned(life, threads, pipe)'
<1>1. Frames(t) /\ Acts(t) /\ Known(t) /\ life[t] \in Living
  BY Moving DEF Known
<1>2. /\ life' \in [Task -> Lives] /\ life \in [Task -> Lives]
      /\ \A u \in Task : \/ life'[u] = life[u]
                         \/ life[u] \in Living /\ life'[u] # "unborn"
                         \/ Newborn(t, u) /\ life'[u] = "alive"
  BY Living1 DEF PlaceInv, Placed
<1>3. \A u \in Task : life'[u] = "unborn" => life[u] = "unborn"
  BY <1>2
<1>4. threads' \subseteq Child /\ \A c \in threads' : life'[c] # "unborn"
  <2>1. CASE S(t).op = "create"
    <3>1. S(t).who \in Child
      BY <1>1, <2>1 DEF Known, StepOK, Births
    <3>2. UNCHANGED threads \/ (threads' = threads \union {S(t).who} /\ life' = [life EXCEPT ![S(t).who] = "alive"])
      BY <1>1, <2>1 DEF Acts, pthread_create, Born
    <3>. QED  BY <1>2, <1>3, <3>1, <3>2 DEF Owned, Child
  <2>2. CASE S(t).op # "create"
    BY <1>1, <1>3, <2>2 DEF Frames, Owned, Child
  <2>. QED  BY <2>1, <2>2
<1>. DEFINE Ok(p) == /\ DOMAIN pipe'[p] = {"q", "r", "w"}
                     /\ \A u \in pipe'[p].r \union pipe'[p].w : u \in Task /\ life'[u] \in Living /\ u \notin threads'
<1>5. DOMAIN pipe' = Pipes /\ \A p \in Pipes : Ok(p)
  <2>1. /\ DOMAIN pipe = Pipes
        /\ \A p \in Pipes : DOMAIN pipe[p] = {"q", "r", "w"} /\ \A u \in pipe[p].r \union pipe[p].w : u \in Task /\ life[u] \in Living /\ u \notin threads
    BY DEF Owned
  <2>2. CASE S(t).op \notin {"fork", "create", "exit", "return", "kill", "pipe", "write", "read", "close", "flag", "usleep"}
    BY <1>1, <2>1, <2>2 DEF Frames
  <2>3. CASE S(t).op = "usleep"
    <3>1. UNCHANGED <<pipe, threads>> /\ life' = [life EXCEPT ![t] = "asleep"]
      BY <1>1, <2>3 DEF Acts, usleep, channels
    <3>2. \A u \in Task : life[u] \in Living => life'[u] \in Living
      BY <1>2, <3>1 DEF Living
    <3>. QED  BY <2>1, <3>1, <3>2
  <2>4. CASE S(t).op = "create"
    <3>1. S(t).who \in Child /\ life[S(t).who] = "unborn"
      <4>1. t = "P" /\ S(t).who \in Child /\ alt[t] = 0 /\ S(t) = T.P[pc["P"]] /\ pc["P"] \in 1..Len(T.P)
        BY <1>1, <2>4 DEF Known, StepOK, Births, Simple
      <4>. QED  BY <1>1, <2>4, <4>1 DEF PlaceInv, ToCome, Births
    <3>2. UNCHANGED pipe
      BY <1>1, <2>4 DEF Frames
    <3>3. UNCHANGED <<life, threads>> \/ (threads' = threads \union {S(t).who} /\ life' = [life EXCEPT ![S(t).who] = "alive"])
      BY <1>1, <2>4 DEF Acts, pthread_create, Born
    <3>4. \A u \in Task : life[u] \in Living => life'[u] \in Living /\ u # S(t).who
      BY <1>2, <3>1, <3>3 DEF Living
    <3>. QED  BY <2>1, <3>2, <3>3, <3>4
  <2>5. CASE S(t).op = "fork"
    <3>1. S(t).who \in Child /\ life[S(t).who] = "unborn"
      <4>1. t = "P" /\ S(t).who \in Child /\ alt[t] = 0 /\ S(t) = T.P[pc["P"]] /\ pc["P"] \in 1..Len(T.P)
        BY <1>1, <2>5 DEF Known, StepOK, Births, Simple
      <4>. QED  BY <1>1, <2>5, <4>1 DEF PlaceInv, ToCome, Births
    <3>2. UNCHANGED threads /\ S(t).who \notin threads /\ S(t).who \in Task
      BY <1>1, <2>5, <3>1 DEF Frames, Owned, Child
    <3>3. CASE UNCHANGED <<life, pipe>>
      BY <2>1, <3>2, <3>3
    <3>4. CASE ~UNCHANGED <<life, pipe>>
      <4>. DEFINE c == S(t).who
      <4>1. /\ life' = [life EXCEPT ![c] = "alive"]
            /\ pipe' = [p \in Pipes |-> [pipe[p] EXCEPT !.r = IF t \in @ THEN @ \union {c} ELSE @,
                                                        !.w = IF t \in @ THEN @ \union {c} ELSE @]]
        BY <1>1, <2>5, <3>4 DEF Acts, fork, Born
      <4>2. life'[c] \in Living /\ \A u \in Task : life[u] \in Living => life'[u] \in Living
        BY <1>2, <3>1, <3>2, <4>1 DEF Living
      <4>3. \A p \in Pipes : DOMAIN pipe'[p] = {"q", "r", "w"} /\ pipe'[p].r \subseteq pipe[p].r \union {c} /\ pipe'[p].w \subseteq pipe[p].w \union {c}
        BY <2>1, <4>1
      <4>4. DOMAIN pipe' = Pipes
        BY <4>1
      <4>. QED  BY ONLY <2>1, <3>2, <4>2, <4>3, <4>4
    <3>. QED  BY <3>3, <3>4
  <2>6. CASE S(t).op \in {"write", "read", "close", "pipe"}
    <3>1. UNCHANGED <<life, threads>>
      BY <1>1, <2>6 DEF Frames
    <3>2. S(t).op = "close" \/ S(t).p \in Pipes
      BY <1>1, <2>6 DEF Known, StepOK
    <3>3. /\ DOMAIN pipe' = Pipes
          /\ \A p \in Pipes : /\ DOMAIN pipe'[p] = {"q", "r", "w"}
                              /\ \/ pipe'[p].r \subseteq pipe[p].r /\ pipe'[p].w \subseteq pipe[p].w
                                 \/ S(t).op = "pipe" /\ pipe'[p].r = {t} /\ pipe'[p].w = {t}
      <4>1. CASE S(t).op = "write"
        <5>1. pipe' = [pipe EXCEPT ![S(t).p].q = Append(@, reg[t][S(t).r])]
          BY <1>1, <4>1 DEF Acts, write
        <5>. QED  BY <2>1, <3>2, <4>1, <5>1
      <4>2. CASE S(t).op = "read"
        <5>1. UNCHANGED pipe \/ pipe' = [pipe EXCEPT ![S(t).p].q = Tail(@)]
          BY <1>1, <4>2 DEF Acts, read
        <5>. QED  BY <2>1, <3>2, <4>2, <5>1
      <4>3. CASE S(t).op = "close"
        <5>1. pipe' = [p \in Pipes |-> [pipe[p] EXCEPT !.r = IF p \in S(t).r THEN @ \ {t} ELSE @,
                                                       !.w = IF p \in S(t).w THEN @ \ {t} ELSE @]]
          BY <1>1, <4>3 DEF Acts, close
        <5>. QED  BY <2>1, <5>1
      <4>4. CASE S(t).op = "pipe"
        <5>1. UNCHANGED pipe \/ pipe' = [pipe EXCEPT ![S(t).p] = [q |-> <<>>, r |-> {t}, w |-> {t}]]
          BY <1>1, <4>4 DEF Acts, MakePipe
        <5>. QED  BY <2>1, <3>2, <4>4, <5>1
      <4>. QED  BY <2>6, <4>1, <4>2, <4>3, <4>4
    <3>4. S(t).op = "pipe" => t \notin threads
      BY <1>1 DEF Known, StepOK, Owned, Child
    <3>5. t \in Task /\ life[t] \in Living
      BY <1>1
    <3>. QED  BY ONLY <2>1, <3>1, <3>3, <3>4, <3>5
  <2>7. CASE S(t).op \in {"exit", "return", "kill", "flag"}
    <3>1. UNCHANGED threads
      BY <1>1, <2>7 DEF Frames
    <3>2. \/ UNCHANGED <<life, pipe>>
          \/ S(t).op = "exit" /\ life' = [life EXCEPT ![t] = "done"] /\ pipe' = IF t \in threads THEN pipe ELSE Dropped(t)
          \/ t = "P" /\ (\E v : Over(v))
          \/ S(t).op = "kill" /\ life' = [life EXCEPT ![S(t).who] = "killed"] /\ pipe' = Dropped(S(t).who)
      BY <1>1, <2>7 DEF Acts, ExitStep, ReturnStep, kill, StoreFlag, Known, StepOK
    <3>3. ASSUME NEW x, pipe' = Dropped(x)
          PROVE  DOMAIN pipe' = Pipes /\ \A p \in Pipes : DOMAIN pipe'[p] = {"q", "r", "w"} /\ pipe'[p].r = pipe[p].r \ {x} /\ pipe'[p].w = pipe[p].w \ {x}
      BY <2>1, <3>3 DEF Dropped
    <3>4. CASE UNCHANGED <<life, pipe>>
      BY <2>1, <3>1, <3>4
    <3>5. CASE S(t).op = "exit" /\ life' = [life EXCEPT ![t] = "done"] /\ pipe' = IF t \in threads THEN pipe ELSE Dropped(t)
      <4>1. \A u \in Task : u # t => life'[u] = life[u]
        BY <1>2, <3>5
      <4>2. CASE t \in threads
        <5>1. UNCHANGED pipe
          BY <3>5, <4>2
        <5>. QED  BY ONLY <2>1, <3>1, <4>1, <4>2, <5>1
      <4>3. CASE t \notin threads
        <5>1. DOMAIN pipe' = Pipes /\ \A p \in Pipes : DOMAIN pipe'[p] = {"q", "r", "w"} /\ pipe'[p].r = pipe[p].r \ {t} /\ pipe'[p].w = pipe[p].w \ {t}
          BY <3>3, <3>5, <4>3
        <5>. QED  BY ONLY <2>1, <3>1, <4>1, <4>3, <5>1
      <4>. QED  BY <4>2, <4>3
    <3>6. CASE \E v : Over(v)
      <4>1. \A u \in Task : u # "P" /\ u \notin threads => life'[u] = life[u]
        BY <1>2, <3>6 DEF Over
      <4>2. DOMAIN pipe' = Pipes /\ \A p \in Pipes : DOMAIN pipe'[p] = {"q", "r", "w"} /\ pipe'[p].r = pipe[p].r \ {"P"} /\ pipe'[p].w = pipe[p].w \ {"P"}
        BY <3>3, <3>6 DEF Over
      <4>. QED  BY ONLY <2>1, <3>1, <4>1, <4>2
    <3>7. CASE S(t).op = "kill" /\ life' = [life EXCEPT ![S(t).who] = "killed"] /\ pipe' = Dropped(S(t).who)
      <4>1. \A u \in Task : u # S(t).who => life'[u] = life[u]
        BY <1>2, <3>7
      <4>2. DOMAIN pipe' = Pipes /\ \A p \in Pipes : DOMAIN pipe'[p] = {"q", "r", "w"} /\ pipe'[p].r = pipe[p].r \ {S(t).who} /\ pipe'[p].w = pipe[p].w \ {S(t).who}
        BY <3>3, <3>7
      <4>. QED  BY ONLY <2>1, <3>1, <4>1, <4>2
    <3>. QED  BY <3>2, <3>4, <3>5, <3>6, <3>7
  <2>. QED  BY <2>2, <2>3, <2>4, <2>5, <2>6, <2>7
<1>. QED  BY <1>4, <1>5 DEF Owned

\* The result, the flag, the block and the exit values
LEMMA SharedStep ==
  ASSUME NEW t \in Task, PlaceInv, Step(t), Ended(life, end), Shared(flag, block, val)
  PROVE  Ended(life, end)' /\ Shared(flag, block, val)'
<1>1. Frames(t) /\ Acts(t) /\ Known(t) /\ life[t] \in Living
  BY Moving DEF Known
<1>2. Ended(life, end)'
  <2>1. \/ UNCHANGED end /\ (life'["P"] \in Living <=> life["P"] \in Living)
        \/ end' \in {"ok", "ng", "dead", "order"} /\ life'["P"] \notin Living
    <3>1. CASE S(t).op \notin {"fork", "create", "exit", "return", "kill", "flag", "usleep"}
      BY <1>1, <3>1 DEF Frames
    <3>2. CASE S(t).op \in Births
      <4>1. UNCHANGED end
        BY <1>1, <3>2 DEF Frames, Births
      <4>2. UNCHANGED life \/ life' = [life EXCEPT ![S(t).who] = "alive"]
        BY <1>1, <3>2 DEF Acts, Births, fork, pthread_create, Born
      <4>3. S(t).who # "P"
        BY <1>1, <3>2 DEF Known, StepOK, Child
      <4>4. life \in [Task -> Lives] /\ "P" \in Task
        BY DEF PlaceInv, Placed, Task
      <4>. QED  BY <4>1, <4>2, <4>3, <4>4
    <3>3. CASE S(t).op = "exit"
      <4>1. t # "P"
        BY <1>1, <3>3 DEF Known, StepOK
      <4>2. UNCHANGED end /\ life' = [life EXCEPT ![t] = "done"]
        BY <1>1, <3>3 DEF Acts, ExitStep
      <4>. QED  BY <4>1, <4>2
    <3>4. ASSUME NEW v \in {"ok", "ng", "dead", "order"}, Over(v) PROVE end' \in {"ok", "ng", "dead", "order"} /\ life'["P"] \notin Living
      BY <3>4 DEF Over, Living, Task
    <3>5. CASE S(t).op = "return"
      BY <1>1, <3>4, <3>5 DEF Acts, ReturnStep, Known, StepOK
    <3>6. CASE S(t).op = "flag"
      BY <1>1, <3>4, <3>6 DEF Acts, StoreFlag
    <3>7. CASE S(t).op = "kill"
      <4>1. \/ UNCHANGED <<life, end>>
            \/ life' = [life EXCEPT ![S(t).who] = "killed"] /\ end' = IF S(t).who = "P" THEN "dead" ELSE end
        BY <1>1, <3>7 DEF Acts, kill
      <4>2. life \in [Task -> Lives] /\ "P" \in Task
        BY DEF PlaceInv, Placed, Task
      <4>. QED  BY <4>1, <4>2 DEF Living
    <3>8. CASE S(t).op = "usleep"
      <4>1. UNCHANGED end /\ life' = [life EXCEPT ![t] = "asleep"]
        BY <1>1, <3>8 DEF Acts, usleep
      <4>2. life \in [Task -> Lives] /\ "P" \in Task
        BY DEF PlaceInv, Placed, Task
      <4>. QED  BY <1>1, <4>1, <4>2 DEF Living
    <3>. QED  BY <3>1, <3>2, <3>3, <3>5, <3>6, <3>7, <3>8 DEF Births
  <2>. QED  BY <2>1 DEF Ended
<1>3. flag' \in 0..2
  <2>1. CASE S(t).op = "flag"
    BY <1>1, <2>1 DEF Acts, StoreFlag, Known, StepOK, Shared
  <2>. QED  BY <1>1, <2>1 DEF Frames, Shared
<1>4. block' \in {"live", "freed"}
  <2>1. CASE S(t).op = "free"
    BY <1>1, <2>1 DEF Acts, free
  <2>. QED  BY <1>1, <2>1 DEF Frames, Shared
<1>5. val' \in [Task -> {0, 1}]
  <2>1. CASE S(t).op = "exit"
    BY <1>1, <2>1 DEF Acts, ExitStep, Known, StepOK, Shared
  <2>. QED  BY <1>1, <2>1 DEF Frames, Shared
<1>. QED  BY <1>2, <1>3, <1>4, <1>5 DEF Shared

-----------------------------------------------------------------------------
(* Semaphores *)

\* Semaphore s is posted by t at its step k and waited for by u at its step l, once each.
SemText(X, s, t, k, u, l) ==
  /\ t # u /\ k > 0 /\ l > 0
  /\ \A v \in Task : \A j \in 1..Len(X[v]) :
       /\ X[v][j].op = "post" /\ X[v][j].s = s <=> v = t /\ j = k
       /\ X[v][j].op = "wait" /\ X[v][j].s = s <=> v = u /\ j = l
       /\ X[v][j].op = "again" => (v = t => k + 4 < j) /\ (v = u => l + 4 < j)
Unposted(X, s) == \A v \in Task : \A j \in 1..Len(X[v]) : X[v][j].op \in {"post", "wait"} => X[v][j].s # s

\* Every semaphore of the test is used that way, or not at all.
SemsOK(X) == \A s \in Sems : Unposted(X, s) \/ \E t, u \in Task : \E k, l \in Nat : SemText(X, s, t, k, u, l)

USE DEF Return, OK, Exit, Need, TryElse, Try, ForkElse, Fork, Create, Waitpid, Getcpu, Getaff, GetOwn,
     Setaff, SetOwn, CheckElse, Check, Sigaction, Kill, SpinSig, SpinFlag, SpinWaiting, SetFlag, Pipe, Write,
     ReadElse, Read, Close, Post, Wait, Again, Usleep, Yield, InLoop, Mark, Use, Free, Created, None

\* sched_setaffinity 011: each thread tells it is ready and waits to be released.
LEMMA Set011Sems == SemsOK(Set011)
<1>1. Len(Set011.P) = 19
  BY DEF Set011, child_fn_common
<1>2. \A j \in 1..19 : Set011.P[j].op = "post" <=> j \in {14, 15}
  BY DEF Set011, child_fn_common
<1>3. \A j \in 1..19 : Set011.P[j].op = "wait" <=> j \in {11, 12}
  BY DEF Set011, child_fn_common
<1>4. \A j \in 1..19 : Set011.P[j].op # "again"
  BY DEF Set011, child_fn_common
<1>5. \A j \in 1..19 : Set011.P[j].op \in {"post", "wait"} => Set011.P[j].s \in {"start2", "start1", "sync1", "sync2"}
  BY DEF Set011, child_fn_common
<1>6. Set011.P[11].s = "sync1" /\ Set011.P[12].s = "sync2" /\ Set011.P[14].s = "start2" /\ Set011.P[15].s = "start1"
  BY DEF Set011, child_fn_common
<1>7. Len(Set011.C1) = 5
  BY DEF Set011, child_fn_common
<1>8. \A j \in 1..5 : Set011.C1[j].op = "post" <=> j \in {3}
  BY DEF Set011, child_fn_common
<1>9. \A j \in 1..5 : Set011.C1[j].op = "wait" <=> j \in {4}
  BY DEF Set011, child_fn_common
<1>10. \A j \in 1..5 : Set011.C1[j].op # "again"
  BY DEF Set011, child_fn_common
<1>11. \A j \in 1..5 : Set011.C1[j].op \in {"post", "wait"} => Set011.C1[j].s \in {"sync1", "start1"}
  BY DEF Set011, child_fn_common
<1>12. Set011.C1[3].s = "sync1" /\ Set011.C1[4].s = "start1"
  BY DEF Set011, child_fn_common
<1>13. Len(Set011.C2) = 5
  BY DEF Set011, child_fn_common
<1>14. \A j \in 1..5 : Set011.C2[j].op = "post" <=> j \in {3}
  BY DEF Set011, child_fn_common
<1>15. \A j \in 1..5 : Set011.C2[j].op = "wait" <=> j \in {4}
  BY DEF Set011, child_fn_common
<1>16. \A j \in 1..5 : Set011.C2[j].op # "again"
  BY DEF Set011, child_fn_common
<1>17. \A j \in 1..5 : Set011.C2[j].op \in {"post", "wait"} => Set011.C2[j].s \in {"sync2", "start2"}
  BY DEF Set011, child_fn_common
<1>18. Set011.C2[3].s = "sync2" /\ Set011.C2[4].s = "start2"
  BY DEF Set011, child_fn_common
<1>19. Len(Set011.C3) = 0
  BY DEF Set011, child_fn_common
<1>20. Unposted(Set011, "sem1")
  <2>1. ASSUME NEW v \in Task, NEW j \in 1..Len(Set011[v])
        PROVE  Set011[v][j].op \in {"post", "wait"} => Set011[v][j].s # "sem1"
    <3>1. CASE v = "P"
      BY ONLY <3>1, <2>1, <1>1, <1>5
    <3>2. CASE v = "C1"
      BY ONLY <3>2, <2>1, <1>7, <1>11
    <3>3. CASE v = "C2"
      BY ONLY <3>3, <2>1, <1>13, <1>17
    <3>4. CASE v = "C3"
      BY ONLY <3>4, <2>1, <1>19
    <3>. QED  BY ONLY <3>1, <3>2, <3>3, <3>4, v \in Task DEF Task
  <2>. QED  BY ONLY <2>1 DEF Unposted
<1>21. Unposted(Set011, "sem2")
  <2>1. ASSUME NEW v \in Task, NEW j \in 1..Len(Set011[v])
        PROVE  Set011[v][j].op \in {"post", "wait"} => Set011[v][j].s # "sem2"
    <3>1. CASE v = "P"
      BY ONLY <3>1, <2>1, <1>1, <1>5
    <3>2. CASE v = "C1"
      BY ONLY <3>2, <2>1, <1>7, <1>11
    <3>3. CASE v = "C2"
      BY ONLY <3>3, <2>1, <1>13, <1>17
    <3>4. CASE v = "C3"
      BY ONLY <3>4, <2>1, <1>19
    <3>. QED  BY ONLY <3>1, <3>2, <3>3, <3>4, v \in Task DEF Task
  <2>. QED  BY ONLY <2>1 DEF Unposted
<1>22. SemText(Set011, "sync1", "C1", 3, "P", 11)
  <2>1. ASSUME NEW v \in Task, NEW j \in 1..Len(Set011[v])
        PROVE  /\ Set011[v][j].op = "post" /\ Set011[v][j].s = "sync1" <=> v = "C1" /\ j = 3
               /\ Set011[v][j].op = "wait" /\ Set011[v][j].s = "sync1" <=> v = "P" /\ j = 11
               /\ Set011[v][j].op = "again" => (v = "C1" => 3 + 4 < j) /\ (v = "P" => 11 + 4 < j)
    <3>1. CASE v = "P"
      BY ONLY <3>1, <2>1, <1>1, <1>2, <1>3, <1>4, <1>6
    <3>2. CASE v = "C1"
      BY ONLY <3>2, <2>1, <1>7, <1>8, <1>9, <1>10, <1>12
    <3>3. CASE v = "C2"
      BY ONLY <3>3, <2>1, <1>13, <1>14, <1>15, <1>16, <1>18
    <3>4. CASE v = "C3"
      BY ONLY <3>4, <2>1, <1>19
    <3>. QED  BY ONLY <3>1, <3>2, <3>3, <3>4, v \in Task DEF Task
  <2>. QED  BY ONLY <2>1 DEF SemText
<1>23. SemText(Set011, "sync2", "C2", 3, "P", 12)
  <2>1. ASSUME NEW v \in Task, NEW j \in 1..Len(Set011[v])
        PROVE  /\ Set011[v][j].op = "post" /\ Set011[v][j].s = "sync2" <=> v = "C2" /\ j = 3
               /\ Set011[v][j].op = "wait" /\ Set011[v][j].s = "sync2" <=> v = "P" /\ j = 12
               /\ Set011[v][j].op = "again" => (v = "C2" => 3 + 4 < j) /\ (v = "P" => 12 + 4 < j)
    <3>1. CASE v = "P"
      BY ONLY <3>1, <2>1, <1>1, <1>2, <1>3, <1>4, <1>6
    <3>2. CASE v = "C1"
      BY ONLY <3>2, <2>1, <1>7, <1>8, <1>9, <1>10, <1>12
    <3>3. CASE v = "C2"
      BY ONLY <3>3, <2>1, <1>13, <1>14, <1>15, <1>16, <1>18
    <3>4. CASE v = "C3"
      BY ONLY <3>4, <2>1, <1>19
    <3>. QED  BY ONLY <3>1, <3>2, <3>3, <3>4, v \in Task DEF Task
  <2>. QED  BY ONLY <2>1 DEF SemText
<1>24. SemText(Set011, "start1", "P", 15, "C1", 4)
  <2>1. ASSUME NEW v \in Task, NEW j \in 1..Len(Set011[v])
        PROVE  /\ Set011[v][j].op = "post" /\ Set011[v][j].s = "start1" <=> v = "P" /\ j = 15
               /\ Set011[v][j].op = "wait" /\ Set011[v][j].s = "start1" <=> v = "C1" /\ j = 4
               /\ Set011[v][j].op = "again" => (v = "P" => 15 + 4 < j) /\ (v = "C1" => 4 + 4 < j)
    <3>1. CASE v = "P"
      BY ONLY <3>1, <2>1, <1>1, <1>2, <1>3, <1>4, <1>6
    <3>2. CASE v = "C1"
      BY ONLY <3>2, <2>1, <1>7, <1>8, <1>9, <1>10, <1>12
    <3>3. CASE v = "C2"
      BY ONLY <3>3, <2>1, <1>13, <1>14, <1>15, <1>16, <1>18
    <3>4. CASE v = "C3"
      BY ONLY <3>4, <2>1, <1>19
    <3>. QED  BY ONLY <3>1, <3>2, <3>3, <3>4, v \in Task DEF Task
  <2>. QED  BY ONLY <2>1 DEF SemText
<1>25. SemText(Set011, "start2", "P", 14, "C2", 4)
  <2>1. ASSUME NEW v \in Task, NEW j \in 1..Len(Set011[v])
        PROVE  /\ Set011[v][j].op = "post" /\ Set011[v][j].s = "start2" <=> v = "P" /\ j = 14
               /\ Set011[v][j].op = "wait" /\ Set011[v][j].s = "start2" <=> v = "C2" /\ j = 4
               /\ Set011[v][j].op = "again" => (v = "P" => 14 + 4 < j) /\ (v = "C2" => 4 + 4 < j)
    <3>1. CASE v = "P"
      BY ONLY <3>1, <2>1, <1>1, <1>2, <1>3, <1>4, <1>6
    <3>2. CASE v = "C1"
      BY ONLY <3>2, <2>1, <1>7, <1>8, <1>9, <1>10, <1>12
    <3>3. CASE v = "C2"
      BY ONLY <3>3, <2>1, <1>13, <1>14, <1>15, <1>16, <1>18
    <3>4. CASE v = "C3"
      BY ONLY <3>4, <2>1, <1>19
    <3>. QED  BY ONLY <3>1, <3>2, <3>3, <3>4, v \in Task DEF Task
  <2>. QED  BY ONLY <2>1 DEF SemText
<1>. QED
  <2>1. "P" \in Task /\ "C1" \in Task /\ "C2" \in Task
    BY DEF Task
  <2>. QED  BY ONLY <1>20, <1>21, <1>22, <1>23, <1>24, <1>25, <2>1 DEF SemsOK, Sems

\* sched_yield
LEMMA SchedYieldSems == SemsOK(SchedYield)
<1>1. Len(SchedYield.P) = 16
  BY DEF SchedYield, MapFlag, KeepCore, SetChild, CheckCore, With
<1>2. \A j \in 1..16 : SchedYield.P[j].op = "post" <=> j \in {11}
  BY DEF SchedYield, MapFlag, KeepCore, SetChild, CheckCore, With
<1>3. \A j \in 1..16 : SchedYield.P[j].op = "wait" <=> j \in {4}
  BY DEF SchedYield, MapFlag, KeepCore, SetChild, CheckCore, With
<1>4. \A j \in 1..16 : SchedYield.P[j].op # "again"
  BY DEF SchedYield, MapFlag, KeepCore, SetChild, CheckCore, With
<1>5. \A j \in 1..16 : SchedYield.P[j].op \in {"post", "wait"} => SchedYield.P[j].s \in {"sem2", "sem1"}
  BY DEF SchedYield, MapFlag, KeepCore, SetChild, CheckCore, With
<1>6. SchedYield.P[4].s = "sem1" /\ SchedYield.P[11].s = "sem2"
  BY DEF SchedYield, MapFlag, KeepCore, SetChild, CheckCore, With
<1>7. Len(SchedYield.C1) = 7
  BY DEF SchedYield, MapFlag, KeepCore, SetChild, CheckCore, With
<1>8. \A j \in 1..7 : SchedYield.C1[j].op = "post" <=> j \in {2}
  BY DEF SchedYield, MapFlag, KeepCore, SetChild, CheckCore, With
<1>9. \A j \in 1..7 : SchedYield.C1[j].op = "wait" <=> j \in {3}
  BY DEF SchedYield, MapFlag, KeepCore, SetChild, CheckCore, With
<1>10. \A j \in 1..7 : SchedYield.C1[j].op # "again"
  BY DEF SchedYield, MapFlag, KeepCore, SetChild, CheckCore, With
<1>11. \A j \in 1..7 : SchedYield.C1[j].op \in {"post", "wait"} => SchedYield.C1[j].s \in {"sem1", "sem2"}
  BY DEF SchedYield, MapFlag, KeepCore, SetChild, CheckCore, With
<1>12. SchedYield.C1[2].s = "sem1" /\ SchedYield.C1[3].s = "sem2"
  BY DEF SchedYield, MapFlag, KeepCore, SetChild, CheckCore, With
<1>13. Len(SchedYield.C2) = 0
  BY DEF SchedYield, MapFlag, KeepCore, SetChild, CheckCore, With
<1>14. Len(SchedYield.C3) = 0
  BY DEF SchedYield, MapFlag, KeepCore, SetChild, CheckCore, With
<1>15. SemText(SchedYield, "sem1", "C1", 2, "P", 4)
  <2>1. ASSUME NEW v \in Task, NEW j \in 1..Len(SchedYield[v])
        PROVE  /\ SchedYield[v][j].op = "post" /\ SchedYield[v][j].s = "sem1" <=> v = "C1" /\ j = 2
               /\ SchedYield[v][j].op = "wait" /\ SchedYield[v][j].s = "sem1" <=> v = "P" /\ j = 4
               /\ SchedYield[v][j].op = "again" => (v = "C1" => 2 + 4 < j) /\ (v = "P" => 4 + 4 < j)
    <3>1. CASE v = "P"
      BY ONLY <3>1, <2>1, <1>1, <1>2, <1>3, <1>4, <1>6
    <3>2. CASE v = "C1"
      BY ONLY <3>2, <2>1, <1>7, <1>8, <1>9, <1>10, <1>12
    <3>3. CASE v = "C2"
      BY ONLY <3>3, <2>1, <1>13
    <3>4. CASE v = "C3"
      BY ONLY <3>4, <2>1, <1>14
    <3>. QED  BY ONLY <3>1, <3>2, <3>3, <3>4, v \in Task DEF Task
  <2>. QED  BY ONLY <2>1 DEF SemText
<1>16. SemText(SchedYield, "sem2", "P", 11, "C1", 3)
  <2>1. ASSUME NEW v \in Task, NEW j \in 1..Len(SchedYield[v])
        PROVE  /\ SchedYield[v][j].op = "post" /\ SchedYield[v][j].s = "sem2" <=> v = "P" /\ j = 11
               /\ SchedYield[v][j].op = "wait" /\ SchedYield[v][j].s = "sem2" <=> v = "C1" /\ j = 3
               /\ SchedYield[v][j].op = "again" => (v = "P" => 11 + 4 < j) /\ (v = "C1" => 3 + 4 < j)
    <3>1. CASE v = "P"
      BY ONLY <3>1, <2>1, <1>1, <1>2, <1>3, <1>4, <1>6
    <3>2. CASE v = "C1"
      BY ONLY <3>2, <2>1, <1>7, <1>8, <1>9, <1>10, <1>12
    <3>3. CASE v = "C2"
      BY ONLY <3>3, <2>1, <1>13
    <3>4. CASE v = "C3"
      BY ONLY <3>4, <2>1, <1>14
    <3>. QED  BY ONLY <3>1, <3>2, <3>3, <3>4, v \in Task DEF Task
  <2>. QED  BY ONLY <2>1 DEF SemText
<1>17. Unposted(SchedYield, "sync1")
  <2>1. ASSUME NEW v \in Task, NEW j \in 1..Len(SchedYield[v])
        PROVE  SchedYield[v][j].op \in {"post", "wait"} => SchedYield[v][j].s # "sync1"
    <3>1. CASE v = "P"
      BY ONLY <3>1, <2>1, <1>1, <1>5
    <3>2. CASE v = "C1"
      BY ONLY <3>2, <2>1, <1>7, <1>11
    <3>3. CASE v = "C2"
      BY ONLY <3>3, <2>1, <1>13
    <3>4. CASE v = "C3"
      BY ONLY <3>4, <2>1, <1>14
    <3>. QED  BY ONLY <3>1, <3>2, <3>3, <3>4, v \in Task DEF Task
  <2>. QED  BY ONLY <2>1 DEF Unposted
<1>18. Unposted(SchedYield, "sync2")
  <2>1. ASSUME NEW v \in Task, NEW j \in 1..Len(SchedYield[v])
        PROVE  SchedYield[v][j].op \in {"post", "wait"} => SchedYield[v][j].s # "sync2"
    <3>1. CASE v = "P"
      BY ONLY <3>1, <2>1, <1>1, <1>5
    <3>2. CASE v = "C1"
      BY ONLY <3>2, <2>1, <1>7, <1>11
    <3>3. CASE v = "C2"
      BY ONLY <3>3, <2>1, <1>13
    <3>4. CASE v = "C3"
      BY ONLY <3>4, <2>1, <1>14
    <3>. QED  BY ONLY <3>1, <3>2, <3>3, <3>4, v \in Task DEF Task
  <2>. QED  BY ONLY <2>1 DEF Unposted
<1>19. Unposted(SchedYield, "start1")
  <2>1. ASSUME NEW v \in Task, NEW j \in 1..Len(SchedYield[v])
        PROVE  SchedYield[v][j].op \in {"post", "wait"} => SchedYield[v][j].s # "start1"
    <3>1. CASE v = "P"
      BY ONLY <3>1, <2>1, <1>1, <1>5
    <3>2. CASE v = "C1"
      BY ONLY <3>2, <2>1, <1>7, <1>11
    <3>3. CASE v = "C2"
      BY ONLY <3>3, <2>1, <1>13
    <3>4. CASE v = "C3"
      BY ONLY <3>4, <2>1, <1>14
    <3>. QED  BY ONLY <3>1, <3>2, <3>3, <3>4, v \in Task DEF Task
  <2>. QED  BY ONLY <2>1 DEF Unposted
<1>20. Unposted(SchedYield, "start2")
  <2>1. ASSUME NEW v \in Task, NEW j \in 1..Len(SchedYield[v])
        PROVE  SchedYield[v][j].op \in {"post", "wait"} => SchedYield[v][j].s # "start2"
    <3>1. CASE v = "P"
      BY ONLY <3>1, <2>1, <1>1, <1>5
    <3>2. CASE v = "C1"
      BY ONLY <3>2, <2>1, <1>7, <1>11
    <3>3. CASE v = "C2"
      BY ONLY <3>3, <2>1, <1>13
    <3>4. CASE v = "C3"
      BY ONLY <3>4, <2>1, <1>14
    <3>. QED  BY ONLY <3>1, <3>2, <3>3, <3>4, v \in Task DEF Task
  <2>. QED  BY ONLY <2>1 DEF Unposted
<1>. QED
  <2>1. "P" \in Task /\ "C1" \in Task /\ "C2" \in Task
    BY DEF Task
  <2>. QED  BY ONLY <1>15, <1>16, <1>17, <1>18, <1>19, <1>20, <2>1 DEF SemsOK, Sems

\* time_sharing
LEMMA TimeSharingSems == SemsOK(TimeSharing)
<1>1. Len(TimeSharing.P) = 17
  BY DEF TimeSharing, parent_func, child_func, MapFlag, KeepCore, SetChild, CheckCore, With
<1>2. \A j \in 1..17 : TimeSharing.P[j].op = "post" <=> j \in {9}
  BY DEF TimeSharing, parent_func, child_func, MapFlag, KeepCore, SetChild, CheckCore, With
<1>3. \A j \in 1..17 : TimeSharing.P[j].op = "wait" <=> j \in {4}
  BY DEF TimeSharing, parent_func, child_func, MapFlag, KeepCore, SetChild, CheckCore, With
<1>4. \A j \in 1..17 : TimeSharing.P[j].op = "again" => j = 14
  BY DEF TimeSharing, parent_func, child_func, MapFlag, KeepCore, SetChild, CheckCore, With
<1>5. \A j \in 1..17 : TimeSharing.P[j].op \in {"post", "wait"} => TimeSharing.P[j].s \in {"sem2", "sem1"}
  BY DEF TimeSharing, parent_func, child_func, MapFlag, KeepCore, SetChild, CheckCore, With
<1>6. TimeSharing.P[4].s = "sem1" /\ TimeSharing.P[9].s = "sem2"
  BY DEF TimeSharing, parent_func, child_func, MapFlag, KeepCore, SetChild, CheckCore, With
<1>7. Len(TimeSharing.C1) = 11
  BY DEF TimeSharing, parent_func, child_func, MapFlag, KeepCore, SetChild, CheckCore, With
<1>8. \A j \in 1..11 : TimeSharing.C1[j].op = "post" <=> j \in {2}
  BY DEF TimeSharing, parent_func, child_func, MapFlag, KeepCore, SetChild, CheckCore, With
<1>9. \A j \in 1..11 : TimeSharing.C1[j].op = "wait" <=> j \in {3}
  BY DEF TimeSharing, parent_func, child_func, MapFlag, KeepCore, SetChild, CheckCore, With
<1>10. \A j \in 1..11 : TimeSharing.C1[j].op = "again" => j = 10
  BY DEF TimeSharing, parent_func, child_func, MapFlag, KeepCore, SetChild, CheckCore, With
<1>11. \A j \in 1..11 : TimeSharing.C1[j].op \in {"post", "wait"} => TimeSharing.C1[j].s \in {"sem1", "sem2"}
  BY DEF TimeSharing, parent_func, child_func, MapFlag, KeepCore, SetChild, CheckCore, With
<1>12. TimeSharing.C1[2].s = "sem1" /\ TimeSharing.C1[3].s = "sem2"
  BY DEF TimeSharing, parent_func, child_func, MapFlag, KeepCore, SetChild, CheckCore, With
<1>13. Len(TimeSharing.C2) = 0
  BY DEF TimeSharing, parent_func, child_func, MapFlag, KeepCore, SetChild, CheckCore, With
<1>14. Len(TimeSharing.C3) = 0
  BY DEF TimeSharing, parent_func, child_func, MapFlag, KeepCore, SetChild, CheckCore, With
<1>15. SemText(TimeSharing, "sem1", "C1", 2, "P", 4)
  <2>1. ASSUME NEW v \in Task, NEW j \in 1..Len(TimeSharing[v])
        PROVE  /\ TimeSharing[v][j].op = "post" /\ TimeSharing[v][j].s = "sem1" <=> v = "C1" /\ j = 2
               /\ TimeSharing[v][j].op = "wait" /\ TimeSharing[v][j].s = "sem1" <=> v = "P" /\ j = 4
               /\ TimeSharing[v][j].op = "again" => (v = "C1" => 2 + 4 < j) /\ (v = "P" => 4 + 4 < j)
    <3>1. CASE v = "P"
      <4>1. TimeSharing[v][j].op = "again" => (v = "C1" => 2 + 4 < j) /\ (v = "P" => 4 + 4 < j)
        <5>1. TimeSharing[v][j].op = "again" => j = 14
          BY ONLY <3>1, <2>1, <1>1, <1>4
        <5>. QED  BY ONLY <3>1, <5>1
      <4>2. /\ TimeSharing[v][j].op = "post" /\ TimeSharing[v][j].s = "sem1" <=> v = "C1" /\ j = 2
            /\ TimeSharing[v][j].op = "wait" /\ TimeSharing[v][j].s = "sem1" <=> v = "P" /\ j = 4
        BY ONLY <3>1, <2>1, <1>1, <1>2, <1>3, <1>6
      <4>. QED  BY ONLY <4>1, <4>2
    <3>2. CASE v = "C1"
      <4>1. TimeSharing[v][j].op = "again" => (v = "C1" => 2 + 4 < j) /\ (v = "P" => 4 + 4 < j)
        <5>1. TimeSharing[v][j].op = "again" => j = 10
          BY ONLY <3>2, <2>1, <1>7, <1>10
        <5>. QED  BY ONLY <3>2, <5>1
      <4>2. /\ TimeSharing[v][j].op = "post" /\ TimeSharing[v][j].s = "sem1" <=> v = "C1" /\ j = 2
            /\ TimeSharing[v][j].op = "wait" /\ TimeSharing[v][j].s = "sem1" <=> v = "P" /\ j = 4
        BY ONLY <3>2, <2>1, <1>7, <1>8, <1>9, <1>12
      <4>. QED  BY ONLY <4>1, <4>2
    <3>3. CASE v = "C2"
      BY ONLY <3>3, <2>1, <1>13
    <3>4. CASE v = "C3"
      BY ONLY <3>4, <2>1, <1>14
    <3>. QED  BY ONLY <3>1, <3>2, <3>3, <3>4, v \in Task DEF Task
  <2>. QED  BY ONLY <2>1 DEF SemText
<1>16. SemText(TimeSharing, "sem2", "P", 9, "C1", 3)
  <2>1. ASSUME NEW v \in Task, NEW j \in 1..Len(TimeSharing[v])
        PROVE  /\ TimeSharing[v][j].op = "post" /\ TimeSharing[v][j].s = "sem2" <=> v = "P" /\ j = 9
               /\ TimeSharing[v][j].op = "wait" /\ TimeSharing[v][j].s = "sem2" <=> v = "C1" /\ j = 3
               /\ TimeSharing[v][j].op = "again" => (v = "P" => 9 + 4 < j) /\ (v = "C1" => 3 + 4 < j)
    <3>1. CASE v = "P"
      <4>1. TimeSharing[v][j].op = "again" => (v = "P" => 9 + 4 < j) /\ (v = "C1" => 3 + 4 < j)
        <5>1. TimeSharing[v][j].op = "again" => j = 14
          BY ONLY <3>1, <2>1, <1>1, <1>4
        <5>. QED  BY ONLY <3>1, <5>1
      <4>2. /\ TimeSharing[v][j].op = "post" /\ TimeSharing[v][j].s = "sem2" <=> v = "P" /\ j = 9
            /\ TimeSharing[v][j].op = "wait" /\ TimeSharing[v][j].s = "sem2" <=> v = "C1" /\ j = 3
        BY ONLY <3>1, <2>1, <1>1, <1>2, <1>3, <1>6
      <4>. QED  BY ONLY <4>1, <4>2
    <3>2. CASE v = "C1"
      <4>1. TimeSharing[v][j].op = "again" => (v = "P" => 9 + 4 < j) /\ (v = "C1" => 3 + 4 < j)
        <5>1. TimeSharing[v][j].op = "again" => j = 10
          BY ONLY <3>2, <2>1, <1>7, <1>10
        <5>. QED  BY ONLY <3>2, <5>1
      <4>2. /\ TimeSharing[v][j].op = "post" /\ TimeSharing[v][j].s = "sem2" <=> v = "P" /\ j = 9
            /\ TimeSharing[v][j].op = "wait" /\ TimeSharing[v][j].s = "sem2" <=> v = "C1" /\ j = 3
        BY ONLY <3>2, <2>1, <1>7, <1>8, <1>9, <1>12
      <4>. QED  BY ONLY <4>1, <4>2
    <3>3. CASE v = "C2"
      BY ONLY <3>3, <2>1, <1>13
    <3>4. CASE v = "C3"
      BY ONLY <3>4, <2>1, <1>14
    <3>. QED  BY ONLY <3>1, <3>2, <3>3, <3>4, v \in Task DEF Task
  <2>. QED  BY ONLY <2>1 DEF SemText
<1>17. Unposted(TimeSharing, "sync1")
  <2>1. ASSUME NEW v \in Task, NEW j \in 1..Len(TimeSharing[v])
        PROVE  TimeSharing[v][j].op \in {"post", "wait"} => TimeSharing[v][j].s # "sync1"
    <3>1. CASE v = "P"
      BY ONLY <3>1, <2>1, <1>1, <1>5
    <3>2. CASE v = "C1"
      BY ONLY <3>2, <2>1, <1>7, <1>11
    <3>3. CASE v = "C2"
      BY ONLY <3>3, <2>1, <1>13
    <3>4. CASE v = "C3"
      BY ONLY <3>4, <2>1, <1>14
    <3>. QED  BY ONLY <3>1, <3>2, <3>3, <3>4, v \in Task DEF Task
  <2>. QED  BY ONLY <2>1 DEF Unposted
<1>18. Unposted(TimeSharing, "sync2")
  <2>1. ASSUME NEW v \in Task, NEW j \in 1..Len(TimeSharing[v])
        PROVE  TimeSharing[v][j].op \in {"post", "wait"} => TimeSharing[v][j].s # "sync2"
    <3>1. CASE v = "P"
      BY ONLY <3>1, <2>1, <1>1, <1>5
    <3>2. CASE v = "C1"
      BY ONLY <3>2, <2>1, <1>7, <1>11
    <3>3. CASE v = "C2"
      BY ONLY <3>3, <2>1, <1>13
    <3>4. CASE v = "C3"
      BY ONLY <3>4, <2>1, <1>14
    <3>. QED  BY ONLY <3>1, <3>2, <3>3, <3>4, v \in Task DEF Task
  <2>. QED  BY ONLY <2>1 DEF Unposted
<1>19. Unposted(TimeSharing, "start1")
  <2>1. ASSUME NEW v \in Task, NEW j \in 1..Len(TimeSharing[v])
        PROVE  TimeSharing[v][j].op \in {"post", "wait"} => TimeSharing[v][j].s # "start1"
    <3>1. CASE v = "P"
      BY ONLY <3>1, <2>1, <1>1, <1>5
    <3>2. CASE v = "C1"
      BY ONLY <3>2, <2>1, <1>7, <1>11
    <3>3. CASE v = "C2"
      BY ONLY <3>3, <2>1, <1>13
    <3>4. CASE v = "C3"
      BY ONLY <3>4, <2>1, <1>14
    <3>. QED  BY ONLY <3>1, <3>2, <3>3, <3>4, v \in Task DEF Task
  <2>. QED  BY ONLY <2>1 DEF Unposted
<1>20. Unposted(TimeSharing, "start2")
  <2>1. ASSUME NEW v \in Task, NEW j \in 1..Len(TimeSharing[v])
        PROVE  TimeSharing[v][j].op \in {"post", "wait"} => TimeSharing[v][j].s # "start2"
    <3>1. CASE v = "P"
      BY ONLY <3>1, <2>1, <1>1, <1>5
    <3>2. CASE v = "C1"
      BY ONLY <3>2, <2>1, <1>7, <1>11
    <3>3. CASE v = "C2"
      BY ONLY <3>3, <2>1, <1>13
    <3>4. CASE v = "C3"
      BY ONLY <3>4, <2>1, <1>14
    <3>. QED  BY ONLY <3>1, <3>2, <3>3, <3>4, v \in Task DEF Task
  <2>. QED  BY ONLY <2>1 DEF Unposted
<1>. QED
  <2>1. "P" \in Task /\ "C1" \in Task /\ "C2" \in Task
    BY DEF Task
  <2>. QED  BY ONLY <1>15, <1>16, <1>17, <1>18, <1>19, <1>20, <2>1 DEF SemsOK, Sems

HIDE DEF Return, OK, Exit, Need, TryElse, Try, ForkElse, Fork, Create, Waitpid, Getcpu, Getaff, GetOwn,
     Setaff, SetOwn, CheckElse, Check, Sigaction, Kill, SpinSig, SpinFlag, SpinWaiting, SetFlag, Pipe, Write,
     ReadElse, Read, Close, Post, Wait, Again, Usleep, Yield, InLoop, Mark, Use, Free, Created, None

\* No test posts a semaphore twice.
LEMMA SemLemma == ASSUME Picked PROVE SemsOK(T)
<1>1. CASE test \in {"set011", "sched_yield", "time_sharing"}
  <2>1. T = Set011 \/ T = SchedYield \/ T = TimeSharing
    BY <1>1 DEF Picked, Suite
  <2>. QED  BY <2>1, Set011Sems, SchedYieldSems, TimeSharingSems
<1>2. CASE test \notin {"set011", "sched_yield", "time_sharing"}
  <2>1. Lacks(T, {"post", "wait"})
    BY <1>2, SuiteLemma DEF Picked, Traits
  <2>. QED  BY <2>1 DEF Lacks, SemsOK, Unposted
<1>. QED  BY <1>1, <1>2

\* 1 once a task that is at step a of its program is past step k
Passed(a, k) == IF a > k THEN 1 ELSE 0

SemInv(X, x, sm) ==
  /\ sm \in [Sems -> 0..1]
  /\ \A s \in Sems :
       /\ Unposted(X, s) => sm[s] = 0
       /\ \A t, u \in Task : \A k, l \in Nat : SemText(X, s, t, k, u, l) => sm[s] = Passed(x[t], k) - Passed(x[u], l)

\* A step passes step k of task v only when it is at it, outside of any orelse.
LEMMA Passing ==
  ASSUME NEW t \in Task, PlaceInv, Step(t), NEW v \in Task, NEW k \in Nat,
         \A j \in 1..Len(T[v]) : T[v][j].op = "again" => k + 4 < j
  PROVE  /\ pc[v] \in Nat /\ pc'[v] \in Nat
         /\ Passed(pc'[v], k) # Passed(pc[v], k) => t = v /\ alt[t] = 0 /\ pc[t] = k /\ Passed(pc[v], k) = 0 /\ Passed(pc'[v], k) = 1
         /\ t = v /\ alt[t] = 0 /\ pc[t] = k /\ pc'[v] # k => Passed(pc[v], k) = 0 /\ Passed(pc'[v], k) = 1
<1>1. Moves(t) /\ Known(t) /\ SuiteOK(T) /\ pc \in [Task -> Nat] /\ alt \in [Task -> Nat] /\ pc' \in [Task -> Nat]
  BY Moving, PlaceStep DEF Traits, PlaceInv, Placed
<1>2. \/ pc'[v] = pc[v]
      \/ t = v /\ alt[t] = 0 /\ pc'[v] = pc[v] + 1
      \/ t = v /\ alt[t] = 0 /\ pc'[v] = pc[v] - 4 /\ k + 4 < pc[v]
  <2>1. CASE t # v
    BY <1>1, <2>1 DEF Moves, Rest, Else
  <2>2. CASE Rest(t) /\ t = v
    BY <1>1, <2>2 DEF Rest
  <2>3. CASE Else(t)
    BY <2>3 DEF Else
  <2>4. CASE t = v /\ S(t).op = "again" /\ pc' = [pc EXCEPT ![t] = @ - S(t).back]
    <3>1. alt[t] = 0 /\ S(t) = T[t][pc[t]] /\ pc[t] \in 1..Len(T[t])
      BY <1>1, <2>4 DEF Known, Simple
    <3>2. S(t).back = 4
      BY <1>1, <2>4, <3>1 DEF SuiteOK, TextOK
    <3>3. k + 4 < pc[t]
      BY <2>4, <3>1
    <3>. QED  BY <1>1, <2>4, <3>1, <3>2, <3>3
  <2>. QED  BY <1>1, <2>1, <2>2, <2>3, <2>4 DEF Moves
<1>3. pc[v] \in Nat /\ pc'[v] \in Nat
  BY <1>1
<1>. QED  BY ONLY <1>2, <1>3, k \in Nat DEF Passed

\* A semaphore counts the post that was not waited for.
LEMMA SemStep == ASSUME NEW t \in Task, PlaceInv, Step(t), SemInv(T, pc, sem) PROVE SemInv(T, pc, sem)'
<1>1. Frames(t) /\ Acts(t) /\ Known(t) /\ UNCHANGED T
  BY Moving DEF Frames, chosen
<1>2. sem \in [Sems -> 0..1]
  BY DEF SemInv
<1>3. ASSUME NEW s \in Sems
      PROVE  /\ ~(S(t).op \in {"post", "wait"} /\ S(t).s = s) => sem'[s] = sem[s]
             /\ S(t).op \in {"post", "wait"} => Rest(t) /\ alt[t] = 0 /\ S(t) = T[t][pc[t]] /\ S(t).s \in Sems
             /\ S(t).op = "post" /\ S(t).s = s => sem'[s] = sem[s] + 1
             /\ S(t).op = "wait" /\ S(t).s = s => sem'[s] = sem[s] - 1 /\ sem[s] # 0
  <2>1. CASE S(t).op \notin {"post", "wait"}
    BY <1>1, <2>1 DEF Frames
  <2>2. CASE S(t).op \in {"post", "wait"}
    <3>1. Rest(t) /\ alt[t] = 0 /\ S(t) = T[t][pc[t]] /\ S(t).s \in Sems
      BY <1>1, <2>2 DEF Acts, sem_post, sem_wait, Known, Simple, StepOK
    <3>2. CASE S(t).op = "post"
      BY <1>1, <1>2, <3>1, <3>2 DEF Acts, sem_post
    <3>3. CASE S(t).op = "wait"
      <4>1. sem' = [sem EXCEPT ![S(t).s] = @ - 1] /\ sem[S(t).s] # 0
        BY <1>1, <3>3 DEF Acts, sem_wait, Blocked
      <4>. QED  BY <1>2, <3>1, <3>3, <4>1
    <3>. QED  BY <2>2, <3>2, <3>3
  <2>. QED  BY <2>1, <2>2
<1>4. DOMAIN sem' = Sems /\ sem' = [s \in Sems |-> sem'[s]]
  <2>1. UNCHANGED sem \/ sem' = [sem EXCEPT ![S(t).s] = @ - 1] \/ sem' = [sem EXCEPT ![S(t).s] = @ + 1]
    BY <1>1 DEF Frames, Acts, sem_post, sem_wait
  <2>. QED  BY <1>2, <2>1
<1>5. ASSUME NEW s \in Sems, Unposted(T, s) PROVE sem'[s] = 0
  <2>1. S(t).op \in {"post", "wait"} => S(t).s # s
    BY <1>1, <1>3, <1>5 DEF Unposted, Known
  <2>. QED  BY <1>3, <1>5, <2>1 DEF SemInv
<1>6. ASSUME NEW s \in Sems, NEW v \in Task, NEW u \in Task, NEW k \in Nat, NEW l \in Nat, SemText(T, s, v, k, u, l)
      PROVE  sem'[s] \in 0..1 /\ sem'[s] = Passed(pc'[v], k) - Passed(pc'[u], l)
  <2>1. /\ sem[s] = Passed(pc[v], k) - Passed(pc[u], l) /\ sem[s] \in 0..1 /\ v # u
        /\ \A j \in 1..Len(T[v]) : T[v][j].op = "again" => k + 4 < j
        /\ \A j \in 1..Len(T[u]) : T[u][j].op = "again" => l + 4 < j
    BY <1>2, <1>6 DEF SemInv, SemText
  <2>2. alt[t] = 0 => /\ S(t).op = "post" /\ S(t).s = s <=> t = v /\ pc[t] = k
                      /\ S(t).op = "wait" /\ S(t).s = s <=> t = u /\ pc[t] = l
    BY <1>1, <1>6 DEF SemText, Known
  <2>3. S(t).op \in {"post", "wait"} => pc'[t] = pc[t] + 1 /\ pc[t] \in Nat
    BY <1>1, <1>3 DEF Rest, PlaceInv, Placed
  <2>4. /\ Passed(pc'[v], k) # Passed(pc[v], k) => t = v /\ alt[t] = 0 /\ pc[t] = k /\ Passed(pc[v], k) = 0 /\ Passed(pc'[v], k) = 1
        /\ t = v /\ alt[t] = 0 /\ pc[t] = k /\ pc'[v] # k => Passed(pc[v], k) = 0 /\ Passed(pc'[v], k) = 1
    BY <2>1, Passing
  <2>5. /\ Passed(pc'[u], l) # Passed(pc[u], l) => t = u /\ alt[t] = 0 /\ pc[t] = l /\ Passed(pc[u], l) = 0 /\ Passed(pc'[u], l) = 1
        /\ t = u /\ alt[t] = 0 /\ pc[t] = l /\ pc'[u] # l => Passed(pc[u], l) = 0 /\ Passed(pc'[u], l) = 1
    BY <2>1, Passing
  <2>6. Passed(pc[v], k) \in 0..1 /\ Passed(pc[u], l) \in 0..1
    BY DEF Passed
  <2>7. CASE S(t).op = "post" /\ S(t).s = s
    <3>1. t = v /\ pc[t] = k /\ alt[t] = 0 /\ pc'[t] # k
      BY <1>3, <2>2, <2>3, <2>7
    <3>2. sem'[s] = sem[s] + 1
      BY <1>3, <2>7
    <3>. QED  BY ONLY <2>1, <2>4, <2>5, <2>6, <3>1, <3>2
  <2>8. CASE S(t).op = "wait" /\ S(t).s = s
    <3>1. t = u /\ pc[t] = l /\ alt[t] = 0 /\ pc'[t] # l
      BY <1>3, <2>2, <2>3, <2>8
    <3>2. sem'[s] = sem[s] - 1 /\ sem[s] # 0
      BY <1>3, <2>8
    <3>. QED  BY ONLY <2>1, <2>4, <2>5, <2>6, <3>1, <3>2
  <2>9. CASE ~(S(t).op \in {"post", "wait"} /\ S(t).s = s)
    <3>1. sem'[s] = sem[s]
      BY <1>3, <2>9
    <3>2. Passed(pc'[v], k) = Passed(pc[v], k) /\ Passed(pc'[u], l) = Passed(pc[u], l)
      BY <2>2, <2>4, <2>5, <2>9
    <3>. QED  BY ONLY <2>1, <3>1, <3>2
  <2>. QED  BY <2>7, <2>8, <2>9
<1>7. \A s \in Sems : sem'[s] \in 0..1
  <2>1. SemsOK(T)
    BY SemLemma DEF PlaceInv
  <2>. QED  BY <1>5, <1>6, <2>1 DEF SemsOK
<1>. QED  BY <1>1, <1>4, <1>5, <1>6, <1>7 DEF SemInv

-----------------------------------------------------------------------------
(* cpu_thread_limits: the block of the threads *)

\* What there is to know of the text of 000 and 001
ThreadsText(X) ==
  /\ \A k \in 1..Len(X.P) :
       /\ X.P[k].op = "create" => (k = 4 /\ X.P[k].who = "C1") \/ (k = 5 /\ X.P[k].who = "C2")
       /\ X.P[k].op \notin {"fork", "again"}
       /\ X.P[k].op \in Fails => k \in {1, 2, 3} \/ k = 6
  /\ X.P[4].op = "create" /\ X.P[5].op = "create" /\ X.P[6].op = "created"
  /\ X.P[1].orelse = NG /\ X.P[2].orelse = NG /\ X.P[3].orelse = NG
  /\ X.C1 = Spinner /\ X.C2 = Spinner /\ Len(X.C3) = 0

USE DEF Return, OK, Exit, Need, TryElse, Try, ForkElse, Fork, Create, Waitpid, Getcpu, Getaff, GetOwn,
     Setaff, SetOwn, CheckElse, Check, Sigaction, Kill, SpinSig, SpinFlag, SpinWaiting, SetFlag, Pipe, Write,
     ReadElse, Read, Close, Post, Wait, Again, Usleep, Yield, InLoop, Mark, Use, Free, Created, None

\* The text of cpu_thread_limits 000 and 001, and of their threads
LEMMA ThreadsTexts ==
  /\ ThreadsText(ThreadLimits000) /\ ThreadsText(ThreadLimits001)
  /\ \A k \in 1..Len(ThreadLimits000.P) : ThreadLimits000.P[k].op \notin {"mark", "use"} /\ (ThreadLimits000.P[k].op = "free" => k = 11)
  /\ ThreadLimits000.P[9].op = "waitpid" /\ ThreadLimits000.P[9].who = "C1"
  /\ ThreadLimits000.P[10].op = "waitpid" /\ ThreadLimits000.P[10].who = "C2"
  /\ \A k \in 1..Len(ThreadLimits001.P) : ThreadLimits001.P[k].op # "free"
  /\ \A k \in 1..Len(Spinner) : Spinner[k].op \notin Fails /\ Spinner[k].op \notin {"create", "free", "again"}
<1>1. \A k \in 1..Len(ThreadLimits000.P) : ThreadLimits000.P[k].op = "create" => (k = 4 /\ ThreadLimits000.P[k].who = "C1") \/ (k = 5 /\ ThreadLimits000.P[k].who = "C2")
  BY DEF ThreadLimits000, Threads, Limits, Spinner
<1>2. \A k \in 1..Len(ThreadLimits000.P) : ThreadLimits000.P[k].op \notin {"fork", "again"}
  BY DEF ThreadLimits000, Threads, Limits, Spinner
<1>3. \A k \in 1..Len(ThreadLimits000.P) : ThreadLimits000.P[k].op \in Fails => k \in {1, 2, 3} \/ k = 6
  BY DEF Fails, ThreadLimits000, Threads, Limits, Spinner
<1>4. /\ ThreadLimits000.P[4].op = "create" /\ ThreadLimits000.P[5].op = "create" /\ ThreadLimits000.P[6].op = "created"
      /\ ThreadLimits000.P[1].orelse = NG /\ ThreadLimits000.P[2].orelse = NG /\ ThreadLimits000.P[3].orelse = NG
  BY DEF ThreadLimits000, Threads, Limits, Spinner
<1>5. ThreadLimits000.C1 = Spinner /\ ThreadLimits000.C2 = Spinner /\ Len(ThreadLimits000.C3) = 0
  BY DEF ThreadLimits000, Threads
<1>6. \A k \in 1..Len(ThreadLimits001.P) : ThreadLimits001.P[k].op = "create" => (k = 4 /\ ThreadLimits001.P[k].who = "C1") \/ (k = 5 /\ ThreadLimits001.P[k].who = "C2")
  BY DEF ThreadLimits001, Threads, Limits, Spinner
<1>7. \A k \in 1..Len(ThreadLimits001.P) : ThreadLimits001.P[k].op \notin {"fork", "again"}
  BY DEF ThreadLimits001, Threads, Limits, Spinner
<1>8. \A k \in 1..Len(ThreadLimits001.P) : ThreadLimits001.P[k].op \in Fails => k \in {1, 2, 3} \/ k = 6
  BY DEF Fails, ThreadLimits001, Threads, Limits, Spinner
<1>9. /\ ThreadLimits001.P[4].op = "create" /\ ThreadLimits001.P[5].op = "create" /\ ThreadLimits001.P[6].op = "created"
      /\ ThreadLimits001.P[1].orelse = NG /\ ThreadLimits001.P[2].orelse = NG /\ ThreadLimits001.P[3].orelse = NG
  BY DEF ThreadLimits001, Threads, Limits, Spinner
<1>10. ThreadLimits001.C1 = Spinner /\ ThreadLimits001.C2 = Spinner /\ Len(ThreadLimits001.C3) = 0
  BY DEF ThreadLimits001, Threads
<1>11. \A k \in 1..Len(ThreadLimits000.P) : ThreadLimits000.P[k].op \notin {"mark", "use"} /\ (ThreadLimits000.P[k].op = "free" => k = 11)
  BY DEF ThreadLimits000, Threads, Limits, Spinner
<1>12. /\ ThreadLimits000.P[9].op = "waitpid" /\ ThreadLimits000.P[9].who = "C1"
      /\ ThreadLimits000.P[10].op = "waitpid" /\ ThreadLimits000.P[10].who = "C2"
  BY DEF ThreadLimits000, Threads, Limits, Spinner
<1>13. \A k \in 1..Len(ThreadLimits001.P) : ThreadLimits001.P[k].op # "free"
  BY DEF ThreadLimits001, Threads, Limits, Spinner
<1>14. \A k \in 1..Len(Spinner) : Spinner[k].op \notin Fails /\ Spinner[k].op \notin {"create", "free", "again"}
  BY DEF Fails, Spinner
<1>15. ThreadsText(ThreadLimits000)
  BY ONLY <1>1, <1>2, <1>3, <1>4, <1>5 DEF ThreadsText
<1>16. ThreadsText(ThreadLimits001)
  BY ONLY <1>6, <1>7, <1>8, <1>9, <1>10 DEF ThreadsText
<1>. QED  BY ONLY <1>11, <1>12, <1>13, <1>14, <1>15, <1>16

HIDE DEF Return, OK, Exit, Need, TryElse, Try, ForkElse, Fork, Create, Waitpid, Getcpu, Getaff, GetOwn,
     Setaff, SetOwn, CheckElse, Check, Sigaction, Kill, SpinSig, SpinFlag, SpinWaiting, SetFlag, Pipe, Write,
     ReadElse, Read, Close, Post, Wait, Again, Usleep, Yield, InLoop, Mark, Use, Free, Created, None

\* The threads are there once they are made, and gone when they are joined; only then is the block freed.
ThreadsInv(c, x, a, l, th, b) ==
  c \in {"threads000", "threads001"} =>
    /\ th \subseteq {"C1", "C2"}
    /\ x["P"] >= 5 => "C1" \in th
    /\ x["P"] >= 6 => "C2" \in th
    /\ a["P"] # 0 => x["P"] <= 3
    /\ c = "threads001" => b = "live"
    /\ c = "threads000" => /\ x["P"] >= 10 => l["C1"] \notin Living
                           /\ x["P"] >= 11 => l["C2"] \notin Living
                           /\ b = "freed" => x["P"] >= 12

FreeInv == fault # "create" => ~stray /\ ThreadsInv(test, pc, alt, life, threads, block)

\* The block is not used after it was freed.
LEMMA FreeStep ==
  ASSUME NEW t \in Task, PlaceInv, Step(t), Owned(life, threads, pipe), Shared(flag, block, val), FreeInv
  PROVE  FreeInv'
<1>1. Frames(t) /\ Acts(t) /\ Moves(t) /\ Known(t) /\ Traits(test, T) /\ UNCHANGED <<test, fault, T>>
  BY Moving DEF Frames, chosen
<1>2. CASE fault = "create"
  BY <1>1, <1>2 DEF FreeInv
<1>3. CASE fault # "create" /\ test \notin {"threads000", "threads001"}
  <2>1. S(t).op \notin {"mark", "use"}
    BY <1>1, <1>3 DEF Traits, Lacks, Known, Simple
  <2>. QED  BY <1>1, <1>3, <2>1 DEF Frames, FreeInv, ThreadsInv
<1>4. CASE fault # "create" /\ test \in {"threads000", "threads001"}
  <2>1. /\ T = ThreadLimits000 \/ T = ThreadLimits001
        /\ test = "threads000" => T = ThreadLimits000
        /\ test = "threads001" => T = ThreadLimits001
    BY <1>4 DEF PlaceInv, Picked, Suite
  <2>2. ThreadsText(T)
    BY <2>1, ThreadsTexts
  <2>3. ~stray /\ ThreadsInv(test, pc, alt, life, threads, block)
    BY <1>4 DEF FreeInv
  <2>4. /\ pc \in [Task -> Nat] /\ alt \in [Task -> Nat] /\ life \in [Task -> Lives] /\ pc' \in [Task -> Nat]
        /\ t \in {"P", "C1", "C2"}
    <3>1. pc \in [Task -> Nat] /\ alt \in [Task -> Nat] /\ life \in [Task -> Lives] /\ pc' \in [Task -> Nat]
      BY PlaceStep DEF PlaceInv, Placed
    <3>2. t # "C3"
      BY <1>1, <2>2 DEF Known, ThreadsText
    <3>. QED  BY <3>1, <3>2 DEF Task
  <2>5. \A u \in Task : life'[u] \in Living => life[u] \in Living \/ (Newborn(t, u) /\ t = "P")
    BY Living1 DEF Newborn
  <2>6. CASE t # "P"
    <3>1. T[t] = Spinner
      BY <2>2, <2>4, <2>6 DEF ThreadsText
    <3>2. alt[t] = 0 /\ S(t) = Spinner[pc[t]] /\ pc[t] \in 1..Len(Spinner)
      BY <1>1, <3>1, ThreadsTexts DEF Known
    <3>3. UNCHANGED <<threads, block>>
      BY <1>1, <3>2, ThreadsTexts DEF Frames
    <3>4. pc'["P"] = pc["P"] /\ alt'["P"] = alt["P"]
      BY <1>1, <2>4, <2>6 DEF Moves, Rest, Else, Task
    <3>5. \A u \in Task : life'[u] \in Living => life[u] \in Living
      BY <2>5, <2>6
    <3>6. ThreadsInv(test, pc, alt, life, threads, block)'
      BY <1>1, <2>3, <3>3, <3>4, <3>5 DEF ThreadsInv, Task
    <3>7. block = "live"
      <4>1. life[t] \in Living /\ t \in {"C1", "C2"} /\ pc["P"] \in Nat
        BY <1>1, <2>4, <2>6 DEF Known, Task
      <4>. QED  BY <1>4, <2>3, <4>1 DEF ThreadsInv, Shared
    <3>8. ~stray'
      <4>1. CASE S(t).op \in {"mark", "use"}
        BY <1>1, <2>3, <3>7, <4>1 DEF Acts, Access
      <4>. QED  BY <1>1, <2>3, <4>1 DEF Frames
    <3>. QED  BY <3>6, <3>8 DEF FreeInv
  <2>7. CASE t = "P"
    <3>1. pc["P"] \in 1..Len(T.P) /\ pc["P"] \in Nat
      BY <1>1, <2>4, <2>7 DEF Known
    <3>2. CASE alt["P"] # 0
      <4>1. pc["P"] \in {1, 2, 3} /\ T.P[pc["P"]].orelse = NG
        BY <1>4, <2>2, <2>3, <3>1, <3>2 DEF ThreadsInv, ThreadsText
      <4>2. alt["P"] \in 1..Len(NG) /\ S(t) = NG[alt["P"]]
        BY <1>1, <2>7, <3>2, <4>1 DEF Known
      <4>3. S(t).op = "return"
        BY <4>2 DEF NG, Return
      <4>4. UNCHANGED <<threads, block, stray>>
        BY <1>1, <4>3 DEF Frames
      <4>5. pc'["P"] = pc["P"]
        BY <1>1, <2>4, <2>7, <3>2, <4>3 DEF Acts, ReturnStep, Rest
      <4>. QED  BY <1>1, <2>3, <4>1, <4>4, <4>5 DEF FreeInv, ThreadsInv
    <3>3. CASE alt["P"] = 0
      <4>1. S(t) = T.P[pc["P"]]
        BY <1>1, <2>7, <3>3 DEF Known
      <4>2. \/ pc'["P"] = pc["P"] + 1 /\ alt'["P"] = 0
            \/ pc'["P"] = pc["P"] /\ pc["P"] \in {1, 2, 3}
        <5>1. CASE Rest(t)
          BY <2>4, <2>7, <3>3, <5>1 DEF Rest, Task
        <5>2. CASE Else(t) /\ S(t).op \in Fails
          <6>1. pc["P"] \in {1, 2, 3} \/ pc["P"] = 6
            BY <2>2, <3>1, <4>1, <5>2 DEF ThreadsText
          <6>2. CASE pc["P"] = 6
            <7>1. AllCreated(t)
              BY <1>1, <2>2, <4>1, <6>2 DEF Acts, ThreadsText
            <7>2. threads = {"C1", "C2"}
              BY <1>4, <2>3, <6>2 DEF ThreadsInv
            <7>3. Rest(t)
              BY <7>1, <7>2 DEF AllCreated, Assert
            <7>. QED  BY <2>4, <2>7, <3>3, <7>3 DEF Rest, Task
          <6>3. CASE pc["P"] \in {1, 2, 3}
            BY <5>2, <6>3 DEF Else
          <6>. QED  BY <6>1, <6>2, <6>3
        <5>. QED  BY <1>1, <2>2, <3>1, <4>1, <5>1, <5>2 DEF Moves, ThreadsText
      <4>3. /\ threads' = threads \/ \E c \in {"C1", "C2"} : threads' = threads \union {c}
            /\ pc["P"] = 4 => "C1" \in threads'
            /\ pc["P"] = 5 => "C2" \in threads'
        <5>1. CASE S(t).op = "create"
          <6>1. threads' = threads \union {S(t).who}
            BY <1>1, <1>4, <5>1 DEF Acts, pthread_create
          <6>2. (pc["P"] = 4 /\ S(t).who = "C1") \/ (pc["P"] = 5 /\ S(t).who = "C2")
            BY <2>2, <3>1, <4>1, <5>1 DEF ThreadsText
          <6>. QED  BY <6>1, <6>2
        <5>2. CASE S(t).op # "create"
          BY <1>1, <2>2, <4>1, <5>2 DEF Frames, ThreadsText
        <5>. QED  BY <5>1, <5>2
      <4>4. /\ threads' \subseteq {"C1", "C2"}
            /\ pc'["P"] >= 5 => "C1" \in threads'
            /\ pc'["P"] >= 6 => "C2" \in threads'
        BY <1>4, <2>3, <3>1, <4>2, <4>3 DEF ThreadsInv
      <4>5. alt'["P"] # 0 => pc'["P"] <= 3
        BY <3>1, <4>2
      <4>6. CASE test = "threads001"
        <5>1. S(t).op # "free" /\ block = "live"
          BY <1>4, <2>1, <2>3, <3>1, <4>1, <4>6, ThreadsTexts DEF ThreadsInv
        <5>2. UNCHANGED block
          BY <1>1, <5>1 DEF Frames
        <5>3. ~stray'
          <6>1. CASE S(t).op \in {"mark", "use"}
            BY <1>1, <2>3, <5>1, <6>1 DEF Acts, Access
          <6>. QED  BY <1>1, <2>3, <6>1 DEF Frames
        <5>. QED  BY <1>1, <4>4, <4>5, <4>6, <5>1, <5>2, <5>3 DEF FreeInv, ThreadsInv
      <4>7. CASE test = "threads000"
        <5>1. ~stray'
          BY <1>1, <2>1, <2>3, <3>1, <4>1, <4>7, ThreadsTexts DEF Frames
        <5>2. block' = "freed" => pc'["P"] >= 12
          <6>1. CASE S(t).op = "free"
            <7>1. pc["P"] = 11
              BY <2>1, <3>1, <4>1, <4>7, <6>1, ThreadsTexts
            <7>. QED  BY <4>2, <7>1
          <6>2. CASE S(t).op # "free"
            <7>1. UNCHANGED block
              BY <1>1, <6>2 DEF Frames
            <7>2. block = "freed" => pc["P"] >= 12
              BY <2>3, <4>7 DEF ThreadsInv
            <7>. QED  BY <3>1, <4>2, <7>1, <7>2
          <6>. QED  BY <6>1, <6>2
        <5>3. /\ pc["P"] = 9 => life["C1"] \notin Living
              /\ pc["P"] = 10 => life["C2"] \notin Living
          BY <1>1, <2>1, <4>1, <4>7, ThreadsTexts DEF Acts, WaitFor, Blocked, Alive, Living
        <5>4. /\ pc["P"] >= 10 => life["C1"] \notin Living
              /\ pc["P"] >= 11 => life["C2"] \notin Living
          BY <2>3, <4>7 DEF ThreadsInv
        <5>5. pc["P"] >= 6 => \A u \in Task : life'[u] \in Living => life[u] \in Living
          <6>1. pc["P"] >= 6 => S(t).op \notin Births
            BY <2>2, <3>1, <4>1 DEF Births, ThreadsText
          <6>. QED  BY <2>5, <6>1 DEF Newborn
        <5>6. /\ pc'["P"] >= 10 => life'["C1"] \notin Living
              /\ pc'["P"] >= 11 => life'["C2"] \notin Living
          <6>1. "C1" \in Task /\ "C2" \in Task
            BY DEF Task
          <6>. QED  BY <3>1, <4>2, <5>3, <5>4, <5>5, <6>1
        <5>. QED  BY <1>1, <4>4, <4>5, <4>7, <5>1, <5>2, <5>6 DEF FreeInv, ThreadsInv
      <4>. QED  BY <1>4, <4>6, <4>7
    <3>. QED  BY <3>2, <3>3
  <2>. QED  BY <2>6, <2>7
<1>. QED  BY <1>2, <1>3, <1>4

-----------------------------------------------------------------------------
(* time_sharing: the turns *)

\* The steps of parent_func() and child_func()
TurnsText(X) ==
  /\ Len(X.P) = 17 /\ Len(X.C1) = 11 /\ Len(X.C2) = 0 /\ Len(X.C3) = 0
  /\ X.P[1].op = "mapflag" /\ X.P[2].op = "flag" /\ X.P[3].op = "fork" /\ X.P[4].op = "wait"
  /\ X.P[5].op = "getcpu" /\ X.P[6].op = "core" /\ X.P[7].op = "setaff" /\ X.P[8].op = "setaff"
  /\ X.P[9].op = "post" /\ X.P[10].op = "spin" /\ X.P[11].op = "print" /\ X.P[12].op = "usleep"
  /\ X.P[13].op = "flag" /\ X.P[14].op = "again" /\ X.P[15].op = "waitpid" /\ X.P[16].op = "check"
  /\ X.P[17].op = "return"
  /\ X.C1[1].op = "getcpu" /\ X.C1[2].op = "post" /\ X.C1[3].op = "wait" /\ X.C1[4].op = "getcpu"
  /\ X.C1[5].op = "check" /\ X.C1[6].op = "spin" /\ X.C1[7].op = "print" /\ X.C1[8].op = "usleep"
  /\ X.C1[9].op = "flag" /\ X.C1[10].op = "again" /\ X.C1[11].op = "exit"
  /\ X.P[2].k = 1 /\ X.P[10].on = "flag" /\ X.P[10].k = 2 /\ X.P[13].k = 1 /\ X.P[14].back = 4 /\ X.P[17].v = "order"
  /\ X.C1[6].on = "flag" /\ X.C1[6].k = 1 /\ X.C1[9].k = 2 /\ X.C1[10].back = 4
  /\ \A k \in {3, 7, 8, 16} : X.P[k].orelse = NG
  /\ X.C1[5].orelse = Fail

USE DEF Return, OK, Exit, Need, TryElse, Try, ForkElse, Fork, Create, Waitpid, Getcpu, Getaff, GetOwn,
     Setaff, SetOwn, CheckElse, Check, Sigaction, Kill, SpinSig, SpinFlag, SpinWaiting, SetFlag, Pipe, Write,
     ReadElse, Read, Close, Post, Wait, Again, Usleep, Yield, InLoop, Mark, Use, Free, Created, None

\* The text of time_sharing 000
LEMMA TurnsTexts == TurnsText(TimeSharing)
<1>1. Len(TimeSharing.P) = 17 /\ Len(TimeSharing.C1) = 11 /\ Len(TimeSharing.C2) = 0 /\ Len(TimeSharing.C3) = 0
  BY DEF TimeSharing, parent_func, child_func, MapFlag, KeepCore, SetChild, CheckCore, With
<1>2. TimeSharing.P[1].op = "mapflag" /\ TimeSharing.P[2].op = "flag" /\ TimeSharing.P[3].op = "fork" /\ TimeSharing.P[4].op = "wait"
  BY DEF TimeSharing, parent_func, child_func, MapFlag, KeepCore, SetChild, CheckCore, With
<1>3. TimeSharing.P[5].op = "getcpu" /\ TimeSharing.P[6].op = "core" /\ TimeSharing.P[7].op = "setaff" /\ TimeSharing.P[8].op = "setaff"
  BY DEF TimeSharing, parent_func, child_func, MapFlag, KeepCore, SetChild, CheckCore, With
<1>4. TimeSharing.P[9].op = "post" /\ TimeSharing.P[10].op = "spin" /\ TimeSharing.P[11].op = "print" /\ TimeSharing.P[12].op = "usleep"
  BY DEF TimeSharing, parent_func, child_func, MapFlag, KeepCore, SetChild, CheckCore, With
<1>5. TimeSharing.P[13].op = "flag" /\ TimeSharing.P[14].op = "again" /\ TimeSharing.P[15].op = "waitpid" /\ TimeSharing.P[16].op = "check"
  BY DEF TimeSharing, parent_func, child_func, MapFlag, KeepCore, SetChild, CheckCore, With
<1>6. TimeSharing.P[17].op = "return"
  BY DEF TimeSharing, parent_func, child_func, MapFlag, KeepCore, SetChild, CheckCore, With
<1>7. TimeSharing.C1[1].op = "getcpu" /\ TimeSharing.C1[2].op = "post" /\ TimeSharing.C1[3].op = "wait" /\ TimeSharing.C1[4].op = "getcpu"
  BY DEF TimeSharing, parent_func, child_func, MapFlag, KeepCore, SetChild, CheckCore, With
<1>8. TimeSharing.C1[5].op = "check" /\ TimeSharing.C1[6].op = "spin" /\ TimeSharing.C1[7].op = "print" /\ TimeSharing.C1[8].op = "usleep"
  BY DEF TimeSharing, parent_func, child_func, MapFlag, KeepCore, SetChild, CheckCore, With
<1>9. TimeSharing.C1[9].op = "flag" /\ TimeSharing.C1[10].op = "again" /\ TimeSharing.C1[11].op = "exit"
  BY DEF TimeSharing, parent_func, child_func, MapFlag, KeepCore, SetChild, CheckCore, With
<1>10. /\ TimeSharing.P[2].k = 1 /\ TimeSharing.P[10].on = "flag" /\ TimeSharing.P[10].k = 2 /\ TimeSharing.P[13].k = 1
      /\ TimeSharing.P[14].back = 4 /\ TimeSharing.P[17].v = "order"
  BY DEF TimeSharing, parent_func, child_func, MapFlag, KeepCore, SetChild, CheckCore, With
<1>11. TimeSharing.C1[6].on = "flag" /\ TimeSharing.C1[6].k = 1 /\ TimeSharing.C1[9].k = 2 /\ TimeSharing.C1[10].back = 4
  BY DEF TimeSharing, parent_func, child_func, MapFlag, KeepCore, SetChild, CheckCore, With
<1>12. \A k \in {3, 7, 8, 16} : TimeSharing.P[k].orelse = NG
  BY DEF TimeSharing, parent_func, child_func, MapFlag, KeepCore, SetChild, CheckCore, With
<1>13. TimeSharing.C1[5].orelse = Fail
  BY DEF TimeSharing, parent_func, child_func, MapFlag, KeepCore, SetChild, CheckCore, With
<1>. QED  BY ONLY <1>1, <1>2, <1>3, <1>4, <1>5, <1>6, <1>7, <1>8, <1>9, <1>10, <1>11, <1>12, <1>13 DEF TurnsText

HIDE DEF Return, OK, Exit, Need, TryElse, Try, ForkElse, Fork, Create, Waitpid, Getcpu, Getaff, GetOwn,
     Setaff, SetOwn, CheckElse, Check, Sigaction, Kill, SpinSig, SpinFlag, SpinWaiting, SetFlag, Pipe, Write,
     ReadElse, Read, Close, Post, Wait, Again, Usleep, Yield, InLoop, Mark, Use, Free, Created, None

One(b) == IF b THEN 1 ELSE 0
\* The parent is at its step a in round i, the child at b in round j, the flag is f and there are n lines:
\* the one whose turn it is has printed as often as the other, or once less.
Turns(a, b, i, j, f, n) ==
  /\ a \in 1..18 /\ b \in 1..12 /\ i \in Nat /\ j \in Nat
  /\ (a <= 9 => i = 0) /\ (a \in 10..14 => i < ROUNDS) /\ (a >= 15 => i = ROUNDS)
  /\ (b <= 5 => j = 0) /\ (b \in 6..10 => j < ROUNDS) /\ (b >= 11 => j = ROUNDS)
  /\ a <= 2 => b = 1
  /\ a >= 3 => \/ f = 1 /\ j + One(b = 10) = i + One(a = 14)
               \/ f = 2 /\ j + One(b = 10) = i + One(a = 14) + 1
  /\ (b \in 7..9 => f = 1) /\ (a \in 11..13 => f = 2)
  /\ n = j + One(b \in 8..10) + i + One(a \in 12..14)

\* A step of the parent
LEMMA ParentTurn ==
  ASSUME NEW a, NEW b, NEW i, NEW j, NEW f, NEW n, NEW a1, NEW i1, NEW f1, NEW n1, Turns(a, b, i, j, f, n),
         \/ a1 = a /\ i1 = i /\ f1 = f /\ n1 = n
         \/ a = 2 /\ a1 = 3 /\ i1 = i /\ f1 = 1 /\ n1 = n
         \/ a = 10 /\ f = 2 /\ a1 = 11 /\ i1 = i /\ f1 = f /\ n1 = n
         \/ a = 11 /\ a1 = 12 /\ i1 = i /\ f1 = f /\ n1 = n + 1
         \/ a = 13 /\ a1 = 14 /\ i1 = i /\ f1 = 1 /\ n1 = n
         \/ a = 14 /\ i1 = i + 1 /\ a1 = (IF i + 1 < ROUNDS THEN 10 ELSE 15) /\ f1 = f /\ n1 = n
         \/ a \in 1..17 \ {2, 10, 11, 13, 14} /\ a1 = a + 1 /\ i1 = i /\ f1 = f /\ n1 = n
  PROVE  Turns(a1, b, i1, j, f1, n1)
  BY SizesAssumption DEF Turns, One

\* A step of the child
LEMMA ChildTurn ==
  ASSUME NEW a, NEW b, NEW i, NEW j, NEW f, NEW n, NEW b1, NEW j1, NEW f1, NEW n1, Turns(a, b, i, j, f, n), a >= 3,
         \/ b1 = b /\ j1 = j /\ f1 = f /\ n1 = n
         \/ b = 6 /\ f = 1 /\ b1 = 7 /\ j1 = j /\ f1 = f /\ n1 = n
         \/ b = 7 /\ b1 = 8 /\ j1 = j /\ f1 = f /\ n1 = n + 1
         \/ b = 9 /\ b1 = 10 /\ j1 = j /\ f1 = 2 /\ n1 = n
         \/ b = 10 /\ j1 = j + 1 /\ b1 = (IF j + 1 < ROUNDS THEN 6 ELSE 11) /\ f1 = f /\ n1 = n
         \/ b \in 1..11 \ {6, 7, 9, 10} /\ b1 = b + 1 /\ j1 = j /\ f1 = f /\ n1 = n
  PROVE  Turns(a, b1, i, j1, f1, n1)
<1>1. CASE b1 = b /\ j1 = j /\ f1 = f /\ n1 = n
  BY <1>1, SizesAssumption DEF Turns, One
<1>2. CASE b = 6 /\ f = 1 /\ b1 = 7 /\ j1 = j /\ f1 = f /\ n1 = n
  BY <1>2, SizesAssumption DEF Turns, One
<1>3. CASE b = 7 /\ b1 = 8 /\ j1 = j /\ f1 = f /\ n1 = n + 1
  BY <1>3, SizesAssumption DEF Turns, One
<1>4. CASE b = 9 /\ b1 = 10 /\ j1 = j /\ f1 = 2 /\ n1 = n
  BY <1>4, SizesAssumption DEF Turns, One
<1>5. CASE b = 10 /\ j1 = j + 1 /\ b1 = (IF j + 1 < ROUNDS THEN 6 ELSE 11) /\ f1 = f /\ n1 = n
  BY <1>5, SizesAssumption DEF Turns, One
<1>6. CASE b \in 1..11 \ {6, 7, 9, 10} /\ b1 = b + 1 /\ j1 = j /\ f1 = f /\ n1 = n
  BY <1>6, SizesAssumption DEF Turns, One
<1>. QED  BY <1>1, <1>2, <1>3, <1>4, <1>5, <1>6

\* Who prints, and how much there is in the end
LEMMA TurnsCount ==
  ASSUME NEW a, NEW b, NEW i, NEW j, NEW f, NEW n, Turns(a, b, i, j, f, n)
  PROVE  /\ a <= 2 => n = 0
         /\ a = 11 => n = 2 * i + 1
         /\ b = 7 => n = 2 * j
         /\ a = 18 => n = 2 * ROUNDS
  BY SizesAssumption DEF Turns, One

\* A line of the log is the child's or the parent's, in turns.
Lines(lg) == lg \in Seq(Task) /\ \A k \in 1..Len(lg) : lg[k] = IF k % 2 = 1 THEN "C1" ELSE "P"

\* The child prints after an even number of lines, the parent after an odd one.
LEMMA LinesAppend ==
  ASSUME NEW lg, NEW m \in Nat, NEW t \in Task, Lines(lg), (t = "C1" /\ Len(lg) = 2 * m) \/ (t = "P" /\ Len(lg) = 2 * m + 1)
  PROVE  Lines(Append(lg, t)) /\ Len(Append(lg, t)) = Len(lg) + 1
<1>1. lg \in Seq(Task) /\ Len(lg) \in Nat
  BY DEF Lines
<1>2. /\ Append(lg, t) \in Seq(Task) /\ Len(Append(lg, t)) = Len(lg) + 1
      /\ \A k \in 1..Len(lg) : Append(lg, t)[k] = lg[k]
      /\ Append(lg, t)[Len(lg) + 1] = t
  BY <1>1
<1>3. (t = "C1" /\ (Len(lg) + 1) % 2 = 1) \/ (t = "P" /\ (Len(lg) + 1) % 2 = 0)
  <2>1. (2 * m + 1) % 2 = 1 /\ (2 * m + 1 + 1) % 2 = 0
    BY m \in Nat
  <2>. QED  BY <2>1
<1>4. \A k \in 1..(Len(lg) + 1) : k \in 1..Len(lg) \/ k = Len(lg) + 1
  BY <1>1
<1>. QED  BY <1>1, <1>2, <1>3, <1>4 DEF Lines

\* The rounds are counted at the end of each.
LEMMA RoundStep ==
  ASSUME NEW t \in Task, PlaceInv, Step(t), Locals(CPU, reg, core)
  PROVE  \A u \in Task : reg'[u].i = IF u = t /\ S(t).op = "again" THEN reg[u].i + 1 ELSE reg[u].i
<1>1. Frames(t) /\ Acts(t) /\ Known(t)
  BY Moving
<1>2. DOMAIN reg = Task /\ \A u \in Task : DOMAIN reg[u] = Fields
  BY DEF Locals
<1>3. CASE S(t).op = "again"
  <2>1. reg' = [reg EXCEPT ![t]["i"] = reg[t].i + 1]
    BY <1>1, <1>3 DEF Acts, NextRound, Put
  <2>. QED  BY <1>2, <1>3, <2>1 DEF Fields
<1>4. CASE S(t).op # "again"
  <2>1. UNCHANGED reg \/ \E r \in Fields : \E v : reg' = [reg EXCEPT ![t][r] = v] /\ r # "i"
    <3>1. CASE S(t).op = "getcpu"
      BY <1>1, <3>1 DEF Acts, get_cpu_id, Put, Known, StepOK, Fields
    <3>2. CASE S(t).op = "setaff"
      BY <1>1, <3>2 DEF Acts, sched_setaffinity, Put, Fields
    <3>3. CASE S(t).op = "getaff"
      <4>1. UNCHANGED reg \/ reg' = [reg EXCEPT ![t][S(t).r] = aff[Target(t)]]
        BY <1>1, <3>3 DEF Acts, sched_getaffinity, Put
      <4>2. S(t).r \in {"own", "its"}
        BY <1>1, <3>3 DEF Known, StepOK
      <4>. QED  BY <4>1, <4>2 DEF Fields
    <3>4. CASE S(t).op = "read"
      <4>1. UNCHANGED reg \/ reg' = [reg EXCEPT ![t][S(t).r] = Head(pipe[S(t).p].q)]
        BY <1>1, <3>4 DEF Acts, read, Put
      <4>2. S(t).r \in {"got", "got2"}
        BY <1>1, <3>4 DEF Known, StepOK
      <4>. QED  BY <4>1, <4>2 DEF Fields
    <3>. QED  BY <1>1, <1>4, <3>1, <3>2, <3>3, <3>4 DEF Frames
  <2>. QED  BY <1>2, <1>4, <2>1 DEF Fields
<1>. QED  BY <1>3, <1>4

TurnInv ==
  /\ Lines(log)
  /\ test = "time_sharing" =>
       /\ pc["P"] <= 3 => life["C1"] = "unborn"
       /\ ~mapped => pc["P"] \in {2, 3} /\ log = <<>> /\ (life["P"] \in Living => pc["P"] <= 2)
       /\ mapped => Turns(pc["P"], pc["C1"], reg["P"].i, reg["C1"].i, flag, Len(log))
       /\ end = "order" => pc["P"] = 18 /\ mapped

\* The ops of the parent and of the child
LEMMA TurnsOps ==
  ASSUME NEW X, TurnsText(X)
  PROVE  /\ \A k \in 1..17 : /\ X.P[k].op = "flag" <=> k \in {2, 13}
                             /\ X.P[k].op = "print" <=> k = 11
                             /\ X.P[k].op = "again" <=> k = 14
                             /\ X.P[k].op \in Births <=> k = 3
                             /\ X.P[k].op = "mapflag" <=> k = 1
                             /\ X.P[k].op = "return" <=> k = 17
                             /\ X.P[k].op \in Fails => k \in {3, 7, 8, 16}
                             /\ X.P[k].op # "kill"
         /\ \A k \in 1..11 : /\ X.C1[k].op = "flag" <=> k = 9
                             /\ X.C1[k].op = "print" <=> k = 7
                             /\ X.C1[k].op = "again" <=> k = 10
                             /\ X.C1[k].op \notin {"mapflag", "return", "kill"}
                             /\ X.C1[k].op \in Fails => k = 5
<1>1. /\ X.P[1].op = "mapflag" /\ X.P[2].op = "flag" /\ X.P[3].op = "fork" /\ X.P[4].op = "wait" /\ X.P[5].op = "getcpu"
      /\ X.P[6].op = "core" /\ X.P[7].op = "setaff" /\ X.P[8].op = "setaff" /\ X.P[9].op = "post" /\ X.P[10].op = "spin"
      /\ X.P[11].op = "print" /\ X.P[12].op = "usleep" /\ X.P[13].op = "flag" /\ X.P[14].op = "again" /\ X.P[15].op = "waitpid"
      /\ X.P[16].op = "check" /\ X.P[17].op = "return"
  BY DEF TurnsText
<1>2. /\ X.C1[1].op = "getcpu" /\ X.C1[2].op = "post" /\ X.C1[3].op = "wait" /\ X.C1[4].op = "getcpu" /\ X.C1[5].op = "check"
      /\ X.C1[6].op = "spin" /\ X.C1[7].op = "print" /\ X.C1[8].op = "usleep" /\ X.C1[9].op = "flag" /\ X.C1[10].op = "again"
      /\ X.C1[11].op = "exit"
  BY DEF TurnsText
<1>3. \A k \in 1..17 : X.P[k].op = "flag" <=> k \in {2, 13}
  BY ONLY <1>1
<1>4. \A k \in 1..17 : X.P[k].op = "print" <=> k = 11
  BY ONLY <1>1
<1>5. \A k \in 1..17 : X.P[k].op = "again" <=> k = 14
  BY ONLY <1>1
<1>6. \A k \in 1..17 : X.P[k].op \in Births <=> k = 3
  BY ONLY <1>1 DEF Births
<1>7. \A k \in 1..17 : X.P[k].op = "mapflag" <=> k = 1
  BY ONLY <1>1
<1>8. \A k \in 1..17 : X.P[k].op = "return" <=> k = 17
  BY ONLY <1>1
<1>9. \A k \in 1..17 : X.P[k].op \in Fails => k \in {3, 7, 8, 16}
  BY ONLY <1>1 DEF Fails
<1>10. \A k \in 1..17 : X.P[k].op # "kill"
  BY ONLY <1>1
<1>11. \A k \in 1..11 : X.C1[k].op = "flag" <=> k = 9
  BY ONLY <1>2
<1>12. \A k \in 1..11 : X.C1[k].op = "print" <=> k = 7
  BY ONLY <1>2
<1>13. \A k \in 1..11 : X.C1[k].op = "again" <=> k = 10
  BY ONLY <1>2
<1>14. \A k \in 1..11 : X.C1[k].op \notin {"mapflag", "return", "kill"}
  BY ONLY <1>2
<1>15. \A k \in 1..11 : X.C1[k].op \in Fails => k = 5
  BY ONLY <1>2 DEF Fails
<1>. QED  BY ONLY <1>3, <1>4, <1>5, <1>6, <1>7, <1>8, <1>9, <1>10, <1>11, <1>12, <1>13, <1>14, <1>15

\* A step of time_sharing keeps the turns.
LEMMA TurnStep ==
  ASSUME NEW t \in Task, PlaceInv, Step(t), Locals(CPU, reg, core), Ended(life, end), TurnInv
  PROVE  TurnInv'
<1>1. Frames(t) /\ Acts(t) /\ Moves(t) /\ Known(t) /\ Traits(test, T) /\ UNCHANGED <<test, T>>
  BY Moving DEF Frames, chosen
<1>2. CASE test # "time_sharing"
  <2>1. S(t).op # "print"
    BY <1>1, <1>2 DEF Traits, Lacks, Known, Simple
  <2>. QED  BY <1>1, <1>2, <2>1 DEF Frames, TurnInv
<1>3. CASE test = "time_sharing"
  <2>1. TurnsText(T)
    BY <1>3, TurnsTexts DEF PlaceInv, Picked, Suite
  <2>2. /\ Lines(log)
        /\ pc["P"] <= 3 => life["C1"] = "unborn"
        /\ ~mapped => pc["P"] \in {2, 3} /\ log = <<>> /\ (life["P"] \in Living => pc["P"] <= 2)
        /\ mapped => Turns(pc["P"], pc["C1"], reg["P"].i, reg["C1"].i, flag, Len(log))
        /\ end = "order" => pc["P"] = 18 /\ mapped
    BY <1>3 DEF TurnInv
  <2>3. /\ pc \in [Task -> Nat] /\ alt \in [Task -> Nat] /\ pc' \in [Task -> Nat] /\ "P" \in Task /\ "C1" \in Task
        /\ t \in {"P", "C1"}
    <3>1. pc \in [Task -> Nat] /\ alt \in [Task -> Nat] /\ pc' \in [Task -> Nat]
      BY PlaceStep DEF PlaceInv, Placed
    <3>2. t # "C3" /\ t # "C2"
      BY <1>1, <2>1 DEF Known, TurnsText
    <3>. QED  BY <3>1, <3>2 DEF Task
  <2>4. \A u \in Task : reg'[u].i = IF u = t /\ S(t).op = "again" THEN reg[u].i + 1 ELSE reg[u].i
    BY RoundStep
  <2>5. Lines(log)' /\ Len(log') = IF S(t).op = "print" THEN Len(log) + 1 ELSE Len(log)
    <3>1. CASE S(t).op # "print"
      BY <1>1, <2>2, <3>1 DEF Frames
    <3>2. CASE S(t).op = "print"
      <4>1. log' = Append(log, t) /\ alt[t] = 0
        BY <1>1, <3>2 DEF Acts, printf, Known, Simple
      <4>2. mapped
        <5>1. CASE t = "P"
          <6>1. pc["P"] = 11
            <7>1. pc["P"] \in 1..17 /\ T.P[pc["P"]].op = "print"
              BY <1>1, <2>1, <3>2, <4>1, <5>1 DEF Known, TurnsText
            <7>. QED  BY <2>1, <7>1, TurnsOps
          <6>. QED  BY <2>2, <6>1
        <5>2. CASE t = "C1"
          BY <1>1, <2>2, <5>2 DEF Known, Living
        <5>. QED  BY <2>3, <5>1, <5>2
      <4>3. \E m \in Nat : (t = "C1" /\ Len(log) = 2 * m) \/ (t = "P" /\ Len(log) = 2 * m + 1)
        <5>1. Turns(pc["P"], pc["C1"], reg["P"].i, reg["C1"].i, flag, Len(log)) /\ reg["P"].i \in Nat /\ reg["C1"].i \in Nat
          BY <2>2, <4>2 DEF Turns
        <5>2. (t = "P" => pc["P"] = 11) /\ (t = "C1" => pc["C1"] = 7)
          <6>1. CASE t = "P"
            <7>1. pc["P"] \in 1..17 /\ T.P[pc["P"]].op = "print"
              BY <1>1, <2>1, <3>2, <4>1, <6>1 DEF Known, TurnsText
            <7>. QED  BY <2>1, <6>1, <7>1, TurnsOps
          <6>2. CASE t = "C1"
            <7>1. pc["C1"] \in 1..11 /\ T.C1[pc["C1"]].op = "print"
              BY <1>1, <2>1, <3>2, <4>1, <6>2 DEF Known, TurnsText
            <7>. QED  BY <2>1, <6>2, <7>1, TurnsOps
          <6>. QED  BY <2>3, <6>1, <6>2
        <5>3. (t = "P" => Len(log) = 2 * reg["P"].i + 1) /\ (t = "C1" => Len(log) = 2 * reg["C1"].i)
          BY <5>1, <5>2, TurnsCount
        <5>. QED  BY <2>3, <5>1, <5>3
      <4>. QED  BY <2>2, <3>2, <4>1, <4>3, LinesAppend
    <3>. QED  BY <3>1, <3>2
  <2>6. CASE t = "P" /\ alt["P"] # 0
    <3>1. pc["P"] \in {3, 7, 8, 16} /\ T.P[pc["P"]].orelse = NG
      <4>1. pc["P"] \in 1..17 /\ T.P[pc["P"]].op \in Fails
        BY <1>1, <2>1, <2>6 DEF Known, TurnsText
      <4>2. pc["P"] \in {3, 7, 8, 16}
        BY <2>1, <4>1, TurnsOps
      <4>. QED  BY <2>1, <4>2 DEF TurnsText
    <3>2. alt["P"] \in 1..Len(NG) /\ S(t) = NG[alt["P"]]
      BY <1>1, <2>6, <3>1 DEF Known
    <3>3. S(t).op = "return" /\ S(t).v = "ng"
      BY <3>2 DEF NG, Return
    <3>4. ReturnStep(t) /\ UNCHANGED <<flag, mapped, log>>
      BY <1>1, <3>3 DEF Acts, Frames
    <3>5. pc'["P"] = pc["P"] /\ pc'["C1"] = pc["C1"] /\ end' = "ng" /\ life'["P"] \notin Living
      BY <2>3, <2>6, <3>3, <3>4 DEF ReturnStep, Rest, Over, Living
    <3>6. life["C1"] = "unborn" => life'["C1"] = "unborn"
      BY <2>3, <3>4 DEF ReturnStep, Over, Alive
    <3>7. reg'["P"].i = reg["P"].i /\ reg'["C1"].i = reg["C1"].i
      BY <2>3, <2>4, <3>3
    <3>. QED  BY <1>3, <2>2, <2>5, <3>4, <3>5, <3>6, <3>7 DEF TurnInv
  <2>7. CASE t = "P" /\ alt["P"] = 0
    <3>1. pc["P"] \in 1..17 /\ S(t) = T.P[pc["P"]] /\ life["P"] \in Living
      BY <1>1, <2>1, <2>7 DEF Known, TurnsText
    <3>2. /\ S(t).op = "flag" <=> pc["P"] \in {2, 13}
          /\ S(t).op = "print" <=> pc["P"] = 11
          /\ S(t).op = "again" <=> pc["P"] = 14
          /\ S(t).op \in Births <=> pc["P"] = 3
          /\ S(t).op = "mapflag" <=> pc["P"] = 1
          /\ S(t).op = "return" <=> pc["P"] = 17
          /\ S(t).op # "kill"
      BY <2>1, <3>1, TurnsOps
    <3>3. pc'["C1"] = pc["C1"] /\ reg'["C1"].i = reg["C1"].i
      BY <1>1, <2>3, <2>4, <2>7 DEF Moves, Rest, Else
    <3>4. \/ pc'["P"] = pc["P"] + 1
          \/ pc'["P"] = pc["P"] /\ S(t).op \in Fails /\ Else(t)
          \/ pc["P"] = 14 /\ pc'["P"] = 10
      <4>1. CASE Rest(t)
        BY <2>3, <2>7, <4>1 DEF Rest
      <4>2. CASE Else(t) /\ S(t).op \in Fails
        BY <4>2 DEF Else
      <4>3. CASE S(t).op = "again" /\ pc' = [pc EXCEPT ![t] = @ - S(t).back]
        BY <2>1, <2>3, <2>7, <3>1, <3>2, <4>3 DEF TurnsText
      <4>. QED  BY <1>1, <4>1, <4>2, <4>3 DEF Moves
    <3>5. pc'["P"] <= 3 => life'["C1"] = "unborn"
      <4>1. SUFFICES ASSUME pc'["P"] <= 3 PROVE life'["C1"] = "unborn"
        OBVIOUS
      <4>2. pc["P"] <= 3
        BY <2>3, <3>1, <3>4, <4>1
      <4>3. ~Newborn(t, "C1")
        <5>1. Newborn(t, "C1") => pc["P"] = 3 /\ Rest(t)
          BY <3>2 DEF Newborn
        <5>2. Rest(t) => pc'["P"] = pc["P"] + 1
          BY <2>3, <2>7 DEF Rest
        <5>. QED  BY <4>1, <5>1, <5>2
      <4>. QED  BY <2>2, <2>3, <4>2, <4>3, Living1 DEF Living
    <3>6. CASE ~mapped
      <4>1. pc["P"] = 2 /\ StoreFlag(t)
        BY <1>1, <2>2, <3>1, <3>2, <3>6 DEF Acts
      <4>2. ~mapped' /\ log' = log /\ Over("dead") /\ Rest(t)
        BY <3>6, <4>1 DEF StoreFlag
      <4>3. pc'["P"] = 3 /\ end' = "dead" /\ life'["P"] \notin Living
        BY <2>3, <2>7, <4>1, <4>2 DEF Rest, Over, Living
      <4>. QED  BY <1>3, <2>2, <2>5, <3>5, <3>6, <4>2, <4>3 DEF TurnInv
    <3>7. CASE mapped
      <4>1. Turns(pc["P"], pc["C1"], reg["P"].i, reg["C1"].i, flag, Len(log))
        BY <2>2, <3>7
      <4>2. CASE pc["P"] = 1
        <5>1. pc'["P"] = 2 /\ UNCHANGED <<flag, log, end>> /\ reg'["P"].i = reg["P"].i
          <6>1. MapFlagStep(t)
            BY <1>1, <3>2, <4>2 DEF Acts
          <6>. QED  BY <2>3, <2>4, <2>7, <3>2, <4>2, <6>1 DEF MapFlagStep, Rest
        <5>2. Len(log) = 0
          BY <4>1, <4>2, TurnsCount
        <5>3. log = <<>>
          BY <2>2, <5>2 DEF Lines
        <5>4. Turns(pc'["P"], pc["C1"], reg["P"].i, reg["C1"].i, flag, Len(log))
          BY <4>1, <4>2, <5>1, ParentTurn
        <5>. QED  BY <1>3, <2>2, <2>5, <3>3, <3>5, <4>2, <5>1, <5>3, <5>4 DEF TurnInv
      <4>3. CASE pc["P"] # 1
        <5>1. mapped'
          BY <1>1, <3>2, <3>7, <4>3 DEF Frames
        <5>2. /\ pc["P"] \in {2, 13} => flag' = 1 /\ pc'["P"] = pc["P"] + 1 /\ UNCHANGED end
              /\ pc["P"] \notin {2, 13} => UNCHANGED flag
          <6>1. CASE pc["P"] \in {2, 13}
            <7>1. StoreFlag(t) /\ S(t).k = 1
              BY <1>1, <2>1, <3>1, <3>2, <6>1 DEF Acts, TurnsText
            <7>. QED  BY <2>3, <2>7, <3>7, <6>1, <7>1 DEF StoreFlag, Rest
          <6>. QED  BY <1>1, <3>2, <6>1 DEF Frames
        <5>3. pc["P"] = 10 => flag = 2 /\ pc'["P"] = 11
          <6>1. SUFFICES ASSUME pc["P"] = 10 PROVE flag = 2 /\ pc'["P"] = 11
            OBVIOUS
          <6>2. spin(t) /\ S(t).on = "flag" /\ S(t).k = 2
            BY <1>1, <2>1, <3>1, <6>1 DEF Acts, TurnsText
          <6>3. flag = 2 /\ Rest(t)
            BY <6>2 DEF spin
          <6>. QED  BY <2>3, <2>7, <6>1, <6>3 DEF Rest
        <5>4. pc["P"] = 11 => pc'["P"] = 12
          BY <1>1, <2>3, <2>7, <3>2 DEF Acts, printf, Rest
        <5>5. pc["P"] = 14 => pc'["P"] = IF reg["P"].i + 1 < ROUNDS THEN 10 ELSE 15
          <6>1. ASSUME pc["P"] = 14 PROVE NextRound(t) /\ S(t).back = 4
            BY <1>1, <2>1, <3>1, <6>1 DEF Acts, TurnsText
          <6>. QED  BY <2>3, <2>7, <6>1 DEF NextRound, Rest
        <5>6. reg'["P"].i = IF pc["P"] = 14 THEN reg["P"].i + 1 ELSE reg["P"].i
          BY <2>3, <2>4, <2>7, <3>2
        <5>7. Len(log') = IF pc["P"] = 11 THEN Len(log) + 1 ELSE Len(log)
          BY <2>5, <3>2
        <5>8. Turns(pc'["P"], pc["C1"], reg'["P"].i, reg["C1"].i, flag', Len(log'))
          <6>1. CASE pc["P"] \in {2, 10, 11, 13, 14}
            BY ONLY <4>1, <5>2, <5>3, <5>4, <5>5, <5>6, <5>7, <6>1, ParentTurn
          <6>2. CASE pc["P"] \notin {2, 10, 11, 13, 14}
            <7>1. pc["P"] \in 1..17 \ {2, 10, 11, 13, 14} /\ (pc'["P"] = pc["P"] + 1 \/ pc'["P"] = pc["P"])
              BY ONLY <3>1, <3>4, <6>2
            <7>2. flag' = flag /\ reg'["P"].i = reg["P"].i /\ Len(log') = Len(log)
              BY ONLY <5>2, <5>6, <5>7, <6>2
            <7>. QED  BY ONLY <4>1, <7>1, <7>2, ParentTurn
          <6>. QED  BY <6>1, <6>2
        <5>9. end' = "order" => pc'["P"] = 18
          <6>1. end # "order"
            BY <3>1, <2>2
          <6>2. CASE pc["P"] = 17
            <7>1. ReturnStep(t)
              BY <1>1, <3>2, <6>2 DEF Acts
            <7>. QED  BY <2>3, <2>7, <6>2, <7>1 DEF ReturnStep, Rest
          <6>3. CASE pc["P"] # 17
            <7>1. UNCHANGED end
              BY <1>1, <3>2, <5>2, <6>3 DEF Frames
            <7>. QED  BY <6>1, <7>1
          <6>. QED  BY <6>2, <6>3
        <5>. QED  BY <1>3, <2>5, <3>3, <3>5, <5>1, <5>8, <5>9 DEF TurnInv
      <4>. QED  BY <4>2, <4>3
    <3>. QED  BY <3>6, <3>7
  <2>8. CASE t = "C1"
    <3>1. life["C1"] \in Living /\ life["C1"] # "unborn" /\ pc["C1"] \in 1..11
      BY <1>1, <2>1, <2>8 DEF Known, TurnsText, Living
    <3>2. pc["P"] >= 4 /\ mapped
      BY <2>2, <2>3, <3>1
    <3>3. Turns(pc["P"], pc["C1"], reg["P"].i, reg["C1"].i, flag, Len(log))
      BY <2>2, <3>2
    <3>4. pc'["P"] = pc["P"] /\ reg'["P"].i = reg["P"].i
      BY <1>1, <2>3, <2>4, <2>8 DEF Moves, Rest, Else
    <3>5. CASE alt["C1"] # 0
      <4>1. T.C1[pc["C1"]].orelse = Fail
        BY <1>1, <2>1, <2>8, <3>1, <3>5, TurnsOps DEF Known, TurnsText
      <4>2. alt["C1"] \in 1..Len(Fail) /\ S(t) = Fail[alt["C1"]]
        BY <1>1, <2>8, <3>5, <4>1 DEF Known
      <4>3. S(t).op = "exit"
        BY <4>2 DEF Fail, Exit
      <4>4. ExitStep(t) /\ UNCHANGED <<flag, mapped, log, end>>
        BY <1>1, <4>3 DEF Acts, Frames
      <4>5. pc'["C1"] = pc["C1"] /\ reg'["C1"].i = reg["C1"].i
        BY <2>3, <2>4, <2>8, <3>5, <4>3, <4>4 DEF ExitStep, Rest
      <4>6. ~(pc["P"] <= 3)
        BY <2>3, <3>2
      <4>. QED  BY <1>3, <2>2, <2>5, <3>2, <3>3, <3>4, <4>4, <4>5, <4>6 DEF TurnInv
    <3>6. CASE alt["C1"] = 0
      <4>1. S(t) = T.C1[pc["C1"]]
        BY <1>1, <2>8, <3>6 DEF Known
      <4>2. /\ S(t).op = "flag" <=> pc["C1"] = 9
            /\ S(t).op = "print" <=> pc["C1"] = 7
            /\ S(t).op = "again" <=> pc["C1"] = 10
            /\ S(t).op \notin {"mapflag", "return", "kill"}
        BY <2>1, <3>1, <4>1, TurnsOps
      <4>3. mapped' /\ UNCHANGED end
        <5>1. CASE S(t).op = "flag"
          BY <1>1, <3>2, <5>1 DEF Acts, StoreFlag
        <5>. QED  BY <1>1, <3>2, <4>2, <5>1 DEF Frames
      <4>4. \/ pc'["C1"] = pc["C1"] + 1
            \/ pc'["C1"] = pc["C1"] /\ S(t).op \in Fails
            \/ pc["C1"] = 10 /\ pc'["C1"] = 6
        <5>1. CASE Rest(t)
          BY <2>3, <2>8, <3>6, <5>1 DEF Rest
        <5>2. CASE Else(t) /\ S(t).op \in Fails
          BY <5>2 DEF Else
        <5>3. CASE S(t).op = "again" /\ pc' = [pc EXCEPT ![t] = @ - S(t).back]
          BY <2>1, <2>3, <2>8, <4>1, <4>2, <5>3 DEF TurnsText
        <5>. QED  BY <1>1, <5>1, <5>2, <5>3 DEF Moves
      <4>5. /\ pc["C1"] = 9 => flag' = 2 /\ pc'["C1"] = 10
            /\ pc["C1"] # 9 => UNCHANGED flag
        <5>1. CASE pc["C1"] = 9
          <6>1. StoreFlag(t) /\ S(t).k = 2
            BY <1>1, <2>1, <4>1, <4>2, <5>1 DEF Acts, TurnsText
          <6>. QED  BY <2>3, <2>8, <3>2, <3>6, <5>1, <6>1 DEF StoreFlag, Rest
        <5>. QED  BY <1>1, <4>2, <5>1 DEF Frames
      <4>6. pc["C1"] = 6 => flag = 1 /\ pc'["C1"] = 7
        <5>1. SUFFICES ASSUME pc["C1"] = 6 PROVE flag = 1 /\ pc'["C1"] = 7
          OBVIOUS
        <5>2. spin(t) /\ S(t).on = "flag" /\ S(t).k = 1
          BY <1>1, <2>1, <4>1, <5>1 DEF Acts, TurnsText
        <5>3. flag = 1 /\ Rest(t)
          BY <5>2 DEF spin
        <5>. QED  BY <2>3, <2>8, <3>6, <5>1, <5>3 DEF Rest
      <4>7. pc["C1"] = 7 => pc'["C1"] = 8
        BY <1>1, <2>3, <2>8, <3>6, <4>2 DEF Acts, printf, Rest
      <4>8. pc["C1"] = 10 => pc'["C1"] = IF reg["C1"].i + 1 < ROUNDS THEN 6 ELSE 11
        <5>1. ASSUME pc["C1"] = 10 PROVE NextRound(t) /\ S(t).back = 4
          BY <1>1, <2>1, <4>1, <5>1 DEF Acts, TurnsText
        <5>. QED  BY <2>3, <2>8, <3>6, <5>1 DEF NextRound, Rest
      <4>9. reg'["C1"].i = IF pc["C1"] = 10 THEN reg["C1"].i + 1 ELSE reg["C1"].i
        BY <2>3, <2>4, <2>8, <4>2
      <4>10. Len(log') = IF pc["C1"] = 7 THEN Len(log) + 1 ELSE Len(log)
        BY <2>5, <4>2
      <4>11. Turns(pc["P"], pc'["C1"], reg["P"].i, reg'["C1"].i, flag', Len(log'))
        <5>1. pc["P"] >= 3
          BY <2>3, <3>2
        <5>2. CASE pc["C1"] \in {6, 7, 9, 10}
          BY ONLY <3>3, <4>5, <4>6, <4>7, <4>8, <4>9, <4>10, <5>1, <5>2, ChildTurn
        <5>3. CASE pc["C1"] \notin {6, 7, 9, 10}
          <6>1. pc["C1"] \in 1..11 \ {6, 7, 9, 10} /\ (pc'["C1"] = pc["C1"] + 1 \/ pc'["C1"] = pc["C1"])
            BY ONLY <3>1, <4>4, <5>3
          <6>2. flag' = flag /\ reg'["C1"].i = reg["C1"].i /\ Len(log') = Len(log)
            BY ONLY <4>5, <4>9, <4>10, <5>3
          <6>. QED  BY ONLY <3>3, <5>1, <6>1, <6>2, ChildTurn
        <5>. QED  BY <5>2, <5>3
      <4>. QED  BY <1>3, <2>2, <2>3, <2>5, <3>2, <3>4, <4>3, <4>11 DEF TurnInv
    <3>. QED  BY <3>5, <3>6
  <2>. QED  BY <2>3, <2>6, <2>7, <2>8
<1>. QED  BY <1>2, <1>3

-----------------------------------------------------------------------------
(* Signals *)

\* The steps of sched_setaffinity 008 and 009, and those of 010
MigrateText(X) ==
  /\ Len(X.P) = 17 /\ Len(X.C1) = 8 /\ Len(X.C2) = 0 /\ Len(X.C3) = 0
  /\ X.P[1].op = "need" /\ X.P[2].op = "sigaction" /\ X.P[3].op = "pipe" /\ X.P[4].op = "fork"
  /\ X.P[5].op = "getcpu" /\ X.P[6].op = "spin" /\ X.P[7].op = "read" /\ X.P[8].op = "try"
  /\ X.P[9].op = "check" /\ X.P[10].op = "setaff" /\ X.P[11].op = "kill" /\ X.P[12].op = "read"
  /\ X.P[13].op = "waitpid" /\ X.P[14].op = "close" /\ X.P[15].op = "check" /\ X.P[16].op = "check"
  /\ X.P[17].op = "return"
  /\ X.C1[1].op = "sigaction" /\ X.C1[2].op = "getcpu" /\ X.C1[3].op = "write" /\ X.C1[4].op = "kill"
  /\ X.C1[5].op = "spin" /\ X.C1[6].op = "getcpu" /\ X.C1[7].op = "write" /\ X.C1[8].op = "exit"
  /\ X.P[2].sig = "USR2" /\ X.P[2].once = TRUE /\ X.P[4].who = "C1" /\ X.P[6].on = "sig"
  /\ X.P[11].who = "C1" /\ X.P[11].sig = "USR1"
  /\ X.C1[1].sig = "USR1" /\ X.C1[1].once = TRUE /\ X.C1[4].who = "P" /\ X.C1[4].sig = "USR2"
  /\ \A k \in 1..17 : X.P[k].op \in Fails => X.P[k].orelse = NG \/ (X.P[k].op = "read" /\ X.P[k].orelse = <<>>)

PairText(X) ==
  /\ Len(X.P) = 17 /\ Len(X.C1) = 6 /\ Len(X.C2) = 4 /\ Len(X.C3) = 0
  /\ X.P[1].op = "need" /\ X.P[2].op = "sigaction" /\ X.P[3].op = "pipe" /\ X.P[4].op = "fork"
  /\ X.P[5].op = "read" /\ X.P[6].op = "close" /\ X.P[7].op = "fork" /\ X.P[8].op = "try"
  /\ X.P[9].op = "try" /\ X.P[10].op = "try" /\ X.P[11].op = "spin" /\ X.P[12].op = "setaff"
  /\ X.P[13].op = "kill" /\ X.P[14].op = "kill" /\ X.P[15].op = "waitpid" /\ X.P[16].op = "waitpid"
  /\ X.P[17].op = "return"
  /\ X.C1[1].op = "sigaction" /\ X.C1[2].op = "getcpu" /\ X.C1[3].op = "write" /\ X.C1[4].op = "spin"
  /\ X.C1[5].op = "close" /\ X.C1[6].op = "exit"
  /\ X.C2[1].op = "sigaction" /\ X.C2[2].op = "kill" /\ X.C2[3].op = "spin" /\ X.C2[4].op = "exit"
  /\ X.P[2].sig = "USR2" /\ X.P[2].once = FALSE /\ X.P[3].p = "c2p" /\ X.P[4].who = "C1" /\ X.P[5].p = "c2p"
  /\ X.P[7].who = "C2" /\ X.P[8].what = "setpgid" /\ X.P[9].what = "setpgid" /\ X.P[11].on = "sig" /\ X.P[13].who = "C2" /\ X.P[13].sig = "USR1"
  /\ X.P[14].who = "C1" /\ X.P[14].sig = "USR1"
  /\ X.C1[1].sig = "USR1" /\ X.C1[1].once = TRUE
  /\ X.C2[1].sig = "USR1" /\ X.C2[1].once = TRUE /\ X.C2[2].who = "P" /\ X.C2[2].sig = "USR2"
  /\ \A k \in {1, 3, 4, 10} : X.P[k].orelse = NG
  /\ X.P[5].orelse = <<>> /\ X.P[12].orelse = << Kill("nobody", "USR1"), Return("ng") >>

USE DEF Return, OK, Exit, Need, TryElse, Try, ForkElse, Fork, Create, Waitpid, Getcpu, Getaff, GetOwn,
     Setaff, SetOwn, CheckElse, Check, Sigaction, Kill, SpinSig, SpinFlag, SpinWaiting, SetFlag, Pipe, Write,
     ReadElse, Read, Close, Post, Wait, Again, Usleep, Yield, InLoop, Mark, Use, Free, Created, None

\* The text of sched_setaffinity 008
LEMMA Set008Text == MigrateText(Set008)
<1>1. /\ Len(Set008.P) = 17 /\ Len(Set008.C1) = 8 /\ Len(Set008.C2) = 0 /\ Len(Set008.C3) = 0
  BY DEF Set008, With, Migrate, Migrated
<1>2. /\ Set008.P[1].op = "need" /\ Set008.P[2].op = "sigaction" /\ Set008.P[3].op = "pipe" /\ Set008.P[4].op = "fork"
      /\ Set008.P[5].op = "getcpu" /\ Set008.P[6].op = "spin" /\ Set008.P[7].op = "read" /\ Set008.P[8].op = "try"
      /\ Set008.P[9].op = "check" /\ Set008.P[10].op = "setaff" /\ Set008.P[11].op = "kill" /\ Set008.P[12].op = "read"
      /\ Set008.P[13].op = "waitpid" /\ Set008.P[14].op = "close" /\ Set008.P[15].op = "check" /\ Set008.P[16].op = "check"
      /\ Set008.P[17].op = "return"
  BY DEF Set008, With, Migrate, Migrated
<1>3. /\ Set008.C1[1].op = "sigaction" /\ Set008.C1[2].op = "getcpu" /\ Set008.C1[3].op = "write" /\ Set008.C1[4].op = "kill"
      /\ Set008.C1[5].op = "spin" /\ Set008.C1[6].op = "getcpu" /\ Set008.C1[7].op = "write" /\ Set008.C1[8].op = "exit"
  BY DEF Set008, With, Migrate, Migrated
<1>4. /\ Set008.P[2].sig = "USR2" /\ Set008.P[2].once = TRUE /\ Set008.P[4].who = "C1" /\ Set008.P[6].on = "sig"
      /\ Set008.P[11].who = "C1" /\ Set008.P[11].sig = "USR1"
  BY DEF Set008, With, Migrate, Migrated
<1>5. /\ Set008.C1[1].sig = "USR1" /\ Set008.C1[1].once = TRUE /\ Set008.C1[4].who = "P" /\ Set008.C1[4].sig = "USR2"
  BY DEF Set008, With, Migrate, Migrated
<1>6. /\ \A k \in 1..17 : Set008.P[k].op \in Fails => Set008.P[k].orelse = NG \/ (Set008.P[k].op = "read" /\ Set008.P[k].orelse = <<>>)
  BY DEF Set008, With, Migrate, Migrated, Fails
<1>. QED  BY ONLY <1>1, <1>2, <1>3, <1>4, <1>5, <1>6 DEF MigrateText

\* The text of sched_setaffinity 009
LEMMA Set009Text == MigrateText(Set009)
<1>1. /\ Len(Set009.P) = 17 /\ Len(Set009.C1) = 8 /\ Len(Set009.C2) = 0 /\ Len(Set009.C3) = 0
  BY DEF Set009, With, Migrate, Migrated
<1>2. /\ Set009.P[1].op = "need" /\ Set009.P[2].op = "sigaction" /\ Set009.P[3].op = "pipe" /\ Set009.P[4].op = "fork"
      /\ Set009.P[5].op = "getcpu" /\ Set009.P[6].op = "spin" /\ Set009.P[7].op = "read" /\ Set009.P[8].op = "try"
      /\ Set009.P[9].op = "check" /\ Set009.P[10].op = "setaff" /\ Set009.P[11].op = "kill" /\ Set009.P[12].op = "read"
      /\ Set009.P[13].op = "waitpid" /\ Set009.P[14].op = "close" /\ Set009.P[15].op = "check" /\ Set009.P[16].op = "check"
      /\ Set009.P[17].op = "return"
  BY DEF Set009, With, Migrate, Migrated
<1>3. /\ Set009.C1[1].op = "sigaction" /\ Set009.C1[2].op = "getcpu" /\ Set009.C1[3].op = "write" /\ Set009.C1[4].op = "kill"
      /\ Set009.C1[5].op = "spin" /\ Set009.C1[6].op = "getcpu" /\ Set009.C1[7].op = "write" /\ Set009.C1[8].op = "exit"
  BY DEF Set009, With, Migrate, Migrated
<1>4. /\ Set009.P[2].sig = "USR2" /\ Set009.P[2].once = TRUE /\ Set009.P[4].who = "C1" /\ Set009.P[6].on = "sig"
      /\ Set009.P[11].who = "C1" /\ Set009.P[11].sig = "USR1"
  BY DEF Set009, With, Migrate, Migrated
<1>5. /\ Set009.C1[1].sig = "USR1" /\ Set009.C1[1].once = TRUE /\ Set009.C1[4].who = "P" /\ Set009.C1[4].sig = "USR2"
  BY DEF Set009, With, Migrate, Migrated
<1>6. /\ \A k \in 1..17 : Set009.P[k].op \in Fails => Set009.P[k].orelse = NG \/ (Set009.P[k].op = "read" /\ Set009.P[k].orelse = <<>>)
  BY DEF Set009, With, Migrate, Migrated, Fails
<1>. QED  BY ONLY <1>1, <1>2, <1>3, <1>4, <1>5, <1>6 DEF MigrateText

\* The text of sched_setaffinity 010
LEMMA Set010Text == PairText(Set010)
<1>1. /\ Len(Set010.P) = 17 /\ Len(Set010.C1) = 6 /\ Len(Set010.C2) = 4 /\ Len(Set010.C3) = 0
  BY DEF Set010, child1_fn, child2_fn
<1>2. /\ Set010.P[1].op = "need" /\ Set010.P[2].op = "sigaction" /\ Set010.P[3].op = "pipe" /\ Set010.P[4].op = "fork"
      /\ Set010.P[5].op = "read" /\ Set010.P[6].op = "close" /\ Set010.P[7].op = "fork" /\ Set010.P[8].op = "try"
      /\ Set010.P[9].op = "try" /\ Set010.P[10].op = "try" /\ Set010.P[11].op = "spin" /\ Set010.P[12].op = "setaff"
      /\ Set010.P[13].op = "kill" /\ Set010.P[14].op = "kill" /\ Set010.P[15].op = "waitpid" /\ Set010.P[16].op = "waitpid"
      /\ Set010.P[17].op = "return"
  BY DEF Set010, child1_fn, child2_fn
<1>3. /\ Set010.C1[1].op = "sigaction" /\ Set010.C1[2].op = "getcpu" /\ Set010.C1[3].op = "write" /\ Set010.C1[4].op = "spin"
      /\ Set010.C1[5].op = "close" /\ Set010.C1[6].op = "exit"
  BY DEF Set010, child1_fn, child2_fn
<1>4. /\ Set010.C2[1].op = "sigaction" /\ Set010.C2[2].op = "kill" /\ Set010.C2[3].op = "spin" /\ Set010.C2[4].op = "exit"
  BY DEF Set010, child1_fn, child2_fn
<1>5. /\ Set010.P[2].sig = "USR2" /\ Set010.P[2].once = FALSE /\ Set010.P[3].p = "c2p" /\ Set010.P[4].who = "C1" /\ Set010.P[5].p = "c2p"
      /\ Set010.P[7].who = "C2" /\ Set010.P[8].what = "setpgid" /\ Set010.P[9].what = "setpgid" /\ Set010.P[11].on = "sig" /\ Set010.P[13].who = "C2" /\ Set010.P[13].sig = "USR1"
      /\ Set010.P[14].who = "C1" /\ Set010.P[14].sig = "USR1"
  BY DEF Set010, child1_fn, child2_fn
<1>6. /\ Set010.C1[1].sig = "USR1" /\ Set010.C1[1].once = TRUE
      /\ Set010.C2[1].sig = "USR1" /\ Set010.C2[1].once = TRUE /\ Set010.C2[2].who = "P" /\ Set010.C2[2].sig = "USR2"
  BY DEF Set010, child1_fn, child2_fn
<1>7. /\ \A k \in {1, 3, 4, 10} : Set010.P[k].orelse = NG
      /\ Set010.P[5].orelse = <<>> /\ Set010.P[12].orelse = << Kill("nobody", "USR1"), Return("ng") >>
  BY DEF Set010, child1_fn, child2_fn
<1>. QED  BY ONLY <1>1, <1>2, <1>3, <1>4, <1>5, <1>6, <1>7 DEF PairText

HIDE DEF Return, OK, Exit, Need, TryElse, Try, ForkElse, Fork, Create, Waitpid, Getcpu, Getaff, GetOwn,
     Setaff, SetOwn, CheckElse, Check, Sigaction, Kill, SpinSig, SpinFlag, SpinWaiting, SetFlag, Pipe, Write,
     ReadElse, Read, Close, Post, Wait, Again, Usleep, Yield, InLoop, Mark, Use, Free, Created, None


Sigs == {"USR1", "USR2"}
HandOK(h, s) == h \in [Task -> [Sigs -> {"none", "once", "always"}]] /\ DOMAIN s = Task

\* Sched_setaffinity 008 and 009: P at step a and C1 at step b have handlers hp for USR2 and hc for USR1 whenever the other may signal.
MigrateInv(a, b, hp, hc, s, l) ==
  /\ a >= 3 /\ b <= 4 => hp = "once"
  /\ s => b >= 5
  /\ a >= 7 => b >= 5
  /\ b >= 2 /\ a <= 11 => hc = "once"
  /\ l # "unborn" => a >= 5

\* Sched_setaffinity 010: the number in pipe q tells P, at a, that C1, at b, is ready, and the signal s that C2, at c, is.
PairInv(a, b, c, e, hp, hb, hc, s, q, lp, lb, lc) ==
  /\ a >= 3 => hp = "always"
  /\ q.q # <<>> => b >= 4
  /\ a \in {4, 5, 6} /\ lp \in Living => "P" \in q.w
  /\ a >= 6 => b >= 4
  /\ b >= 2 /\ a <= 14 => hb = "once"
  /\ s => c >= 3
  /\ a >= 12 => c >= 3
  /\ c >= 2 /\ a <= 13 => hc = "once"
  /\ lb # "unborn" => a >= 5
  /\ lc # "unborn" => a >= 8
  /\ e # 0 => a \notin {7, 8, 9}

Unkilled == fault = "none" /\ test # "get005" => \A u \in Task : life[u] # "killed"

SigInv ==
  /\ HandOK(hand, sig) /\ (fault # "mmap" => mapped) /\ Unkilled
  /\ test \in {"set008", "set009"} => MigrateInv(pc["P"], pc["C1"], hand["P"]["USR2"], hand["C1"]["USR1"], sig["P"], life["C1"])
  /\ test = "set010" /\ fault = "none" =>
       PairInv(pc["P"], pc["C1"], pc["C2"], alt["P"], hand["P"]["USR2"], hand["C1"]["USR1"], hand["C2"]["USR1"], sig["P"],
               pipe["c2p"], life["P"], life["C1"], life["C2"])

\* Without a loop a task goes to the next step, to its orelse, or on in it; without a fault it does not fail.
LEMMA Walk ==
  ASSUME NEW t \in Task, PlaceInv, Step(t), S(t).op # "again"
  PROVE  /\ \A u \in Task : u # t => pc'[u] = pc[u] /\ alt'[u] = alt[u]
         /\ \/ alt[t] = 0 /\ alt'[t] = 0 /\ pc'[t] = pc[t] + 1
            \/ alt[t] = 0 /\ alt'[t] = 1 /\ pc'[t] = pc[t] /\ S(t).op \in Fails
            \/ alt[t] # 0 /\ pc'[t] = pc[t]
         /\ S(t).op \in {"fork", "pipe"} \/ (S(t).op = "try" /\ S(t).what # "none") =>
              (fault = "none" => alt[t] = 0 /\ alt'[t] = 0 /\ pc'[t] = pc[t] + 1)
<1>1. Acts(t) /\ Moves(t) /\ Known(t) /\ pc \in [Task -> Nat] /\ alt \in [Task -> Nat]
  BY Moving DEF PlaceInv, Placed
<1>2. S(t).op \in Fails => alt[t] = 0
  BY <1>1 DEF Known, Simple, Fails
<1>3. \A u \in Task : u # t => pc'[u] = pc[u] /\ alt'[u] = alt[u]
  BY <1>1 DEF Moves, Rest, Else
<1>4. Rest(t) /\ alt[t] = 0 => alt'[t] = 0 /\ pc'[t] = pc[t] + 1
  BY <1>1 DEF Rest
<1>5. Rest(t) /\ alt[t] # 0 => pc'[t] = pc[t]
  BY <1>1 DEF Rest
<1>6. Else(t) => alt'[t] = 1 /\ pc'[t] = pc[t]
  BY <1>1 DEF Else
<1>7. Rest(t) \/ (Else(t) /\ S(t).op \in Fails)
  BY <1>1 DEF Moves
<1>8. S(t).op \in {"fork", "pipe"} \/ (S(t).op = "try" /\ S(t).what # "none") => (fault = "none" => alt[t] = 0 /\ Rest(t))
  <2>1. S(t).op \in {"try", "fork", "pipe"} => S(t).op \in Fails
    BY DEF Fails
  <2>2. ASSUME S(t).op = "try", S(t).what # "none", fault = "none" PROVE Rest(t)
    BY <1>1, <2>2 DEF Acts, TryCall
  <2>3. ASSUME S(t).op \in {"fork", "pipe"}, fault = "none" PROVE Rest(t)
    BY <1>1, <2>3 DEF Acts, fork, MakePipe, Born
  <2>. QED  BY <1>2, <2>1, <2>2, <2>3
<1>. QED  BY <1>2, <1>3, <1>4, <1>5, <1>6, <1>7, <1>8

\* What a step does to the handlers and to the signals counted, and which steps end a task by a signal
LEMMA Fates ==
  ASSUME NEW t \in Task, PlaceInv, Step(t), HandOK(hand, sig)
  PROVE  /\ HandOK(hand, sig)'
         /\ \A u \in Task : \A s \in Sigs :
              \/ hand'[u][s] = hand[u][s]
              \/ S(t).op = "sigaction" /\ u = t /\ s = S(t).sig
              \/ Newborn(t, u)
              \/ S(t).op = "kill" /\ u = S(t).who /\ s = S(t).sig /\ hand[u][s] = "once"
         /\ S(t).op = "sigaction" => hand'[t][S(t).sig] = IF S(t).once THEN "once" ELSE "always"
         /\ \A u \in Task : sig'[u] = sig[u] \/ Newborn(t, u) \/ (S(t).op = "kill" /\ u = S(t).who)
         /\ \A u \in Task : life'[u] = "killed" =>
              \/ life[u] = "killed"
              \/ S(t).op = "flag" /\ ~mapped
              \/ S(t).op = "kill" /\ u = S(t).who /\ life[u] \in Living /\ (S(t).sig \in Sigs => hand[u][S(t).sig] = "none")
<1>. DEFINE A == \A u \in Task : \A s \in Sigs :
                   \/ hand'[u][s] = hand[u][s]
                   \/ S(t).op = "sigaction" /\ u = t /\ s = S(t).sig
                   \/ Newborn(t, u)
                   \/ S(t).op = "kill" /\ u = S(t).who /\ s = S(t).sig /\ hand[u][s] = "once"
            B == \A u \in Task : sig'[u] = sig[u] \/ Newborn(t, u) \/ (S(t).op = "kill" /\ u = S(t).who)
            C == \A u \in Task : life'[u] = "killed" =>
                   \/ life[u] = "killed"
                   \/ S(t).op = "flag" /\ ~mapped
                   \/ S(t).op = "kill" /\ u = S(t).who /\ life[u] \in Living /\ (S(t).sig \in Sigs => hand[u][S(t).sig] = "none")
<1>1. /\ Frames(t) /\ Acts(t) /\ Known(t) /\ life \in [Task -> Lives]
      /\ hand \in [Task -> [Sigs -> {"none", "once", "always"}]] /\ DOMAIN sig = Task
  BY Moving DEF PlaceInv, Placed, HandOK
<1>2. CASE S(t).op = "sigaction"
  <2>1. S(t).sig \in Sigs
    BY <1>1, <1>2 DEF Known, StepOK, Sigs
  <2>2. hand' = [hand EXCEPT ![t][S(t).sig] = IF S(t).once THEN "once" ELSE "always"]
    BY <1>1, <1>2 DEF Acts, sigaction
  <2>3. UNCHANGED <<sig, life>>
    BY <1>1, <1>2 DEF Frames
  <2>4. HandOK(hand, sig)' /\ A /\ hand'[t][S(t).sig] = IF S(t).once THEN "once" ELSE "always"
    BY <1>1, <1>2, <2>1, <2>2, <2>3 DEF HandOK
  <2>. QED  BY <2>3, <2>4
<1>3. CASE S(t).op = "fork"
  <2>1. t = "P" /\ S(t).who \in Task /\ life[S(t).who] = "unborn" /\ alt[t] = 0 /\ S(t).who \in Child
    <3>1. t = "P" /\ S(t).who \in Child /\ alt[t] = 0
      BY <1>1, <1>3 DEF Known, StepOK, Simple, Births
    <3>2. S(t) = T.P[pc["P"]] /\ pc["P"] \in 1..Len(T.P) /\ life["P"] \in Living
      BY <1>1, <3>1 DEF Known
    <3>. QED  BY <1>1, <1>3, <3>1, <3>2 DEF PlaceInv, ToCome, Births, Child
  <2>2. fork(t)
    BY <1>1, <1>3 DEF Acts
  <2>3. \/ UNCHANGED <<hand, sig, life>>
        \/ /\ hand' = [hand EXCEPT ![S(t).who] = hand[t]] /\ sig' = [sig EXCEPT ![S(t).who] = sig[t]]
           /\ life' = [life EXCEPT ![S(t).who] = "alive"] /\ Newborn(t, S(t).who)
    BY <1>3, <2>1, <2>2 DEF fork, Born, Newborn, Births, signals
  <2>4. HandOK(hand, sig)'
    BY <1>1, <2>1, <2>3 DEF HandOK
  <2>5. A /\ B /\ C
    BY <1>1, <2>1, <2>3
  <2>. QED  BY <1>3, <2>4, <2>5
<1>4. CASE S(t).op = "kill"
  <2>. DEFINE v == S(t).who
              k == S(t).sig
  <2>1. kill(t) /\ k \in Sigs \union {"KILL"} /\ v \in Task \union {"nobody"}
    BY <1>1, <1>4 DEF Acts, Known, StepOK, Sigs
  <2>2. \/ UNCHANGED <<hand, sig, life>>
        \/ /\ v \in Task /\ k \in Sigs /\ sig' = [sig EXCEPT ![v] = TRUE] /\ UNCHANGED life
           /\ UNCHANGED hand \/ (hand[v][k] = "once" /\ hand' = [hand EXCEPT ![v][k] = "none"])
        \/ /\ v \in Task /\ life[v] \in Living /\ (k \in Sigs => hand[v][k] = "none")
           /\ life' = [life EXCEPT ![v] = "killed"] /\ UNCHANGED <<hand, sig>>
    <3>1. CASE v = "nobody" \/ ~Alive(v)
      BY <2>1, <3>1 DEF kill, signals
    <3>2. CASE ~(v = "nobody" \/ ~Alive(v)) /\ k # "KILL" /\ hand[v][k] # "none"
      BY <2>1, <3>2 DEF kill
    <3>3. CASE ~(v = "nobody" \/ ~Alive(v)) /\ ~(k # "KILL" /\ hand[v][k] # "none")
      <4>1. v \in Task /\ life[v] \in Living
        BY <2>1, <3>3 DEF Alive, Living
      <4>2. k \in Sigs => hand[v][k] = "none"
        BY <3>3 DEF Sigs
      <4>3. life' = [life EXCEPT ![v] = "killed"] /\ UNCHANGED <<hand, sig>>
        BY <2>1, <3>3 DEF kill, signals
      <4>. QED  BY <4>1, <4>2, <4>3
    <3>. QED  BY <3>1, <3>2, <3>3
  <2>3. HandOK(hand, sig)'
    BY <1>1, <2>2 DEF HandOK
  <2>4. A
    BY <1>1, <1>4, <2>2
  <2>5. B
    BY <1>1, <1>4, <2>2
  <2>6. C
    BY <1>1, <1>4, <2>2
  <2>. QED  BY <1>4, <2>3, <2>4, <2>5, <2>6
<1>5. CASE S(t).op \notin {"sigaction", "fork", "kill"}
  <2>1. UNCHANGED <<hand, sig>>
    BY <1>1, <1>5 DEF Frames
  <2>2. C
    <3>1. CASE S(t).op \notin {"create", "exit", "return", "flag", "usleep"}
      BY <1>1, <1>5, <3>1 DEF Frames
    <3>2. CASE S(t).op = "create"
      BY <1>1, <3>2 DEF Acts, pthread_create, Born
    <3>3. CASE S(t).op = "exit"
      BY <1>1, <3>3 DEF Acts, ExitStep
    <3>4. CASE S(t).op = "return"
      <4>1. Over(S(t).v) /\ S(t).v # "dead"
        BY <1>1, <3>4 DEF Acts, ReturnStep, Known, StepOK
      <4>. QED  BY <4>1 DEF Over
    <3>5. CASE S(t).op = "flag"
      BY <1>1, <3>5 DEF Acts, StoreFlag
    <3>6. CASE S(t).op = "usleep"
      BY <1>1, <3>6 DEF Acts, usleep
    <3>. QED  BY <3>1, <3>2, <3>3, <3>4, <3>5, <3>6
  <2>. QED  BY <1>1, <1>5, <2>1, <2>2 DEF HandOK
<1>. QED  BY <1>2, <1>3, <1>4, <1>5

\* What a step does to a pipe: only write() fills it, and P holds its write end until it closes it or ends.
LEMMA PipeFates ==
  ASSUME NEW t \in Task, PlaceInv, Step(t), Owned(life, threads, pipe), NEW p \in Pipes
  PROVE  /\ pipe'[p].q # <<>> => pipe[p].q # <<>> \/ S(t).op = "write"
         /\ "P" \in pipe[p].w /\ life'["P"] \in Living => "P" \in pipe'[p].w \/ (S(t).op = "close" /\ t = "P")
         /\ S(t).op = "pipe" /\ fault = "none" /\ p = S(t).p => "P" \in pipe'[p].w
<1>. DEFINE A == pipe'[p].q # <<>> => pipe[p].q # <<>> \/ S(t).op = "write"
            B == "P" \in pipe[p].w /\ life'["P"] \in Living => "P" \in pipe'[p].w \/ (S(t).op = "close" /\ t = "P")
<1>1. /\ Frames(t) /\ Acts(t) /\ Known(t) /\ life \in [Task -> Lives] /\ DOMAIN pipe = Pipes /\ DOMAIN pipe[p] = {"q", "r", "w"}
  BY Moving DEF PlaceInv, Placed, Owned
<1>2. ASSUME NEW u, u # "P", pipe' = Dropped(u) PROVE A /\ B
  <2>1. pipe'[p] = [pipe[p] EXCEPT !.r = @ \ {u}, !.w = @ \ {u}]
    BY <1>2 DEF Dropped
  <2>2. pipe'[p].q = pipe[p].q /\ pipe'[p].w = pipe[p].w \ {u}
    BY <1>1, <2>1
  <2>. QED  BY <1>2, <2>2
<1>3. ASSUME pipe' = Dropped("P"), life'["P"] \notin Living PROVE A /\ B
  <2>1. pipe'[p] = [pipe[p] EXCEPT !.r = @ \ {"P"}, !.w = @ \ {"P"}]
    BY <1>3 DEF Dropped
  <2>2. pipe'[p].q = pipe[p].q
    BY <1>1, <2>1
  <2>. QED  BY <1>3, <2>2
<1>4. ASSUME Over("dead") \/ Over("ok") \/ Over("ng") \/ Over("order") PROVE A /\ B
  <2>1. "P" \in Task
    BY DEF Task
  <2>2. pipe' = Dropped("P") /\ life'["P"] \notin Living
    BY <1>4, <2>1 DEF Over, Living
  <2>. QED  BY <1>3, <2>2
<1>5. CASE S(t).op \notin {"fork", "exit", "return", "kill", "pipe", "write", "read", "close", "flag"}
  BY <1>1, <1>5 DEF Frames
<1>6. CASE S(t).op = "fork"
  <2>1. \/ UNCHANGED pipe
        \/ pipe'[p] = [pipe[p] EXCEPT !.r = IF t \in @ THEN @ \union {S(t).who} ELSE @, !.w = IF t \in @ THEN @ \union {S(t).who} ELSE @]
    BY <1>1, <1>6 DEF Acts, fork
  <2>2. pipe'[p].q = pipe[p].q /\ pipe[p].w \subseteq pipe'[p].w
    BY <1>1, <2>1
  <2>. QED  BY <1>6, <2>2
<1>7. CASE S(t).op = "exit"
  <2>1. t # "P" /\ (UNCHANGED pipe \/ pipe' = Dropped(t))
    BY <1>1, <1>7 DEF Acts, ExitStep, Known, StepOK
  <2>. QED  BY <1>2, <1>7, <2>1
<1>8. CASE S(t).op = "return"
  BY <1>1, <1>4, <1>8 DEF Acts, ReturnStep, Known, StepOK
<1>9. CASE S(t).op = "kill"
  <2>1. kill(t) /\ "P" \in Task
    BY <1>1, <1>9 DEF Acts, Task
  <2>2. UNCHANGED pipe \/ (pipe' = Dropped(S(t).who) /\ life' = [life EXCEPT ![S(t).who] = "killed"])
    BY <2>1 DEF kill
  <2>3. CASE UNCHANGED pipe
    BY <1>9, <2>3
  <2>4. CASE pipe' = Dropped(S(t).who) /\ life' = [life EXCEPT ![S(t).who] = "killed"] /\ S(t).who = "P"
    <3>1. life'["P"] \notin Living
      BY <1>1, <2>1, <2>4 DEF Living
    <3>. QED  BY <1>3, <1>9, <2>4, <3>1
  <2>5. CASE pipe' = Dropped(S(t).who) /\ S(t).who # "P"
    BY <1>2, <1>9, <2>5
  <2>. QED  BY <2>2, <2>3, <2>4, <2>5
<1>10. CASE S(t).op = "pipe"
  <2>1. t = "P" /\ S(t).p \in Pipes
    BY <1>1, <1>10 DEF Known, StepOK
  <2>2. (UNCHANGED pipe /\ fault = "pipe") \/ pipe' = [pipe EXCEPT ![S(t).p] = [q |-> <<>>, r |-> {t}, w |-> {t}]]
    BY <1>1, <1>10 DEF Acts, MakePipe
  <2>3. CASE UNCHANGED pipe /\ fault = "pipe"
    BY <2>3
  <2>4. CASE pipe' = [pipe EXCEPT ![S(t).p] = [q |-> <<>>, r |-> {t}, w |-> {t}]]
    <3>1. CASE p = S(t).p
      BY <1>1, <2>1, <2>4, <3>1
    <3>2. CASE p # S(t).p
      <4>1. pipe'[p] = pipe[p]
        BY <1>1, <2>4, <3>2
      <4>. QED  BY <3>2, <4>1
    <3>. QED  BY <3>1, <3>2
  <2>. QED  BY <2>2, <2>3, <2>4
<1>11. CASE S(t).op = "write"
  <2>1. pipe'[p].w = pipe[p].w
    BY <1>1, <1>11 DEF Acts, write
  <2>. QED  BY <1>11, <2>1
<1>12. CASE S(t).op = "read"
  <2>1. UNCHANGED pipe \/ (pipe[S(t).p].q # <<>> /\ pipe' = [pipe EXCEPT ![S(t).p].q = Tail(@)])
    BY <1>1, <1>12 DEF Acts, read
  <2>2. pipe'[p].w = pipe[p].w /\ (pipe'[p].q = pipe[p].q \/ pipe[p].q # <<>>)
    BY <1>1, <2>1
  <2>. QED  BY <1>12, <2>2
<1>13. CASE S(t).op = "close"
  <2>1. pipe'[p] = [pipe[p] EXCEPT !.r = IF p \in S(t).r THEN @ \ {t} ELSE @, !.w = IF p \in S(t).w THEN @ \ {t} ELSE @]
    BY <1>1, <1>13 DEF Acts, close
  <2>2. pipe'[p].q = pipe[p].q /\ (pipe'[p].w = pipe[p].w \/ pipe'[p].w = pipe[p].w \ {t})
    BY <1>1, <2>1
  <2>. QED  BY <1>13, <2>2
<1>14. CASE S(t).op = "flag"
  BY <1>1, <1>4, <1>14 DEF Acts, StoreFlag
<1>. QED  BY <1>5, <1>6, <1>7, <1>8, <1>9, <1>10, <1>11, <1>12, <1>13, <1>14

\* The ops of sched_setaffinity 008 and 009
LEMMA MigrateOps ==
  ASSUME NEW X, MigrateText(X)
  PROVE  /\ \A k \in 1..17 : /\ X.P[k].op = "sigaction" <=> k = 2
                             /\ X.P[k].op = "fork" <=> k = 4
                             /\ X.P[k].op = "kill" <=> k = 11
                             /\ X.P[k].op \notin {"again", "create", "exit"}
         /\ \A k \in 1..8 : /\ X.C1[k].op = "sigaction" <=> k = 1
                            /\ X.C1[k].op = "kill" <=> k = 4
                            /\ X.C1[k].op \notin {"again", "create", "fork"}
                            /\ X.C1[k].op \notin Fails
<1>1. /\ X.P[1].op = "need" /\ X.P[2].op = "sigaction" /\ X.P[3].op = "pipe" /\ X.P[4].op = "fork"
      /\ X.P[5].op = "getcpu" /\ X.P[6].op = "spin" /\ X.P[7].op = "read" /\ X.P[8].op = "try"
      /\ X.P[9].op = "check" /\ X.P[10].op = "setaff" /\ X.P[11].op = "kill" /\ X.P[12].op = "read"
      /\ X.P[13].op = "waitpid" /\ X.P[14].op = "close" /\ X.P[15].op = "check" /\ X.P[16].op = "check"
      /\ X.P[17].op = "return"
  BY DEF MigrateText
<1>2. /\ X.C1[1].op = "sigaction" /\ X.C1[2].op = "getcpu" /\ X.C1[3].op = "write" /\ X.C1[4].op = "kill"
      /\ X.C1[5].op = "spin" /\ X.C1[6].op = "getcpu" /\ X.C1[7].op = "write" /\ X.C1[8].op = "exit"
  BY DEF MigrateText
<1>3. \A k \in 1..17 : X.P[k].op = "sigaction" <=> k = 2
  BY ONLY <1>1
<1>4. \A k \in 1..17 : X.P[k].op = "fork" <=> k = 4
  BY ONLY <1>1
<1>5. \A k \in 1..17 : X.P[k].op = "kill" <=> k = 11
  BY ONLY <1>1
<1>6. \A k \in 1..17 : X.P[k].op \notin {"again", "create", "exit"}
  BY ONLY <1>1
<1>7. \A k \in 1..8 : X.C1[k].op = "sigaction" <=> k = 1
  BY ONLY <1>2
<1>8. \A k \in 1..8 : X.C1[k].op = "kill" <=> k = 4
  BY ONLY <1>2
<1>9. \A k \in 1..8 : X.C1[k].op \notin {"again", "create", "fork"}
  BY ONLY <1>2
<1>10. \A k \in 1..8 : X.C1[k].op \notin Fails
  BY ONLY <1>2 DEF Fails
<1>. QED  BY ONLY <1>3, <1>4, <1>5, <1>6, <1>7, <1>8, <1>9, <1>10

\* The ops of sched_setaffinity 010
LEMMA PairOps ==
  ASSUME NEW X, PairText(X)
  PROVE  /\ \A k \in 1..17 : /\ X.P[k].op = "sigaction" <=> k = 2
                             /\ X.P[k].op = "fork" <=> k \in {4, 7}
                             /\ X.P[k].op = "kill" <=> k \in {13, 14}
                             /\ X.P[k].op = "close" <=> k = 6
                             /\ X.P[k].op = "pipe" <=> k = 3
                             /\ X.P[k].op \notin {"again", "create", "exit", "write"}
                             /\ X.P[k].op \in Fails <=> k \in {1, 3, 4, 5, 7, 8, 9, 10, 12}
         /\ \A k \in 1..6 : /\ X.C1[k].op = "sigaction" <=> k = 1
                            /\ X.C1[k].op = "write" <=> k = 3
                            /\ X.C1[k].op \notin {"again", "create", "fork", "kill", "pipe"}
                            /\ X.C1[k].op \notin Fails
         /\ \A k \in 1..4 : /\ X.C2[k].op = "sigaction" <=> k = 1
                            /\ X.C2[k].op = "kill" <=> k = 2
                            /\ X.C2[k].op \notin {"again", "create", "fork", "write", "pipe"}
                            /\ X.C2[k].op \notin Fails
<1>1. /\ X.P[1].op = "need" /\ X.P[2].op = "sigaction" /\ X.P[3].op = "pipe" /\ X.P[4].op = "fork"
      /\ X.P[5].op = "read" /\ X.P[6].op = "close" /\ X.P[7].op = "fork" /\ X.P[8].op = "try"
      /\ X.P[9].op = "try" /\ X.P[10].op = "try" /\ X.P[11].op = "spin" /\ X.P[12].op = "setaff"
      /\ X.P[13].op = "kill" /\ X.P[14].op = "kill" /\ X.P[15].op = "waitpid" /\ X.P[16].op = "waitpid"
      /\ X.P[17].op = "return"
  BY DEF PairText
<1>2. /\ X.C1[1].op = "sigaction" /\ X.C1[2].op = "getcpu" /\ X.C1[3].op = "write" /\ X.C1[4].op = "spin"
      /\ X.C1[5].op = "close" /\ X.C1[6].op = "exit"
  BY DEF PairText
<1>3. /\ X.C2[1].op = "sigaction" /\ X.C2[2].op = "kill" /\ X.C2[3].op = "spin" /\ X.C2[4].op = "exit"
  BY DEF PairText
<1>4. \A k \in 1..17 : X.P[k].op = "sigaction" <=> k = 2
  BY ONLY <1>1
<1>5. \A k \in 1..17 : X.P[k].op = "fork" <=> k \in {4, 7}
  BY ONLY <1>1
<1>6. \A k \in 1..17 : X.P[k].op = "kill" <=> k \in {13, 14}
  BY ONLY <1>1
<1>7. \A k \in 1..17 : X.P[k].op = "close" <=> k = 6
  BY ONLY <1>1
<1>8. \A k \in 1..17 : X.P[k].op = "pipe" <=> k = 3
  BY ONLY <1>1
<1>9. \A k \in 1..17 : X.P[k].op \notin {"again", "create", "exit", "write"}
  BY ONLY <1>1
<1>10. \A k \in 1..17 : X.P[k].op \in Fails <=> k \in {1, 3, 4, 5, 7, 8, 9, 10, 12}
  BY ONLY <1>1 DEF Fails
<1>11. \A k \in 1..6 : X.C1[k].op = "sigaction" <=> k = 1
  BY ONLY <1>2
<1>12. \A k \in 1..6 : X.C1[k].op = "write" <=> k = 3
  BY ONLY <1>2
<1>13. \A k \in 1..6 : X.C1[k].op \notin {"again", "create", "fork", "kill", "pipe"}
  BY ONLY <1>2
<1>14. \A k \in 1..6 : X.C1[k].op \notin Fails
  BY ONLY <1>2 DEF Fails
<1>15. \A k \in 1..4 : X.C2[k].op = "sigaction" <=> k = 1
  BY ONLY <1>3
<1>16. \A k \in 1..4 : X.C2[k].op = "kill" <=> k = 2
  BY ONLY <1>3
<1>17. \A k \in 1..4 : X.C2[k].op \notin {"again", "create", "fork", "write", "pipe"}
  BY ONLY <1>3
<1>18. \A k \in 1..4 : X.C2[k].op \notin Fails
  BY ONLY <1>3 DEF Fails
<1>. QED  BY ONLY <1>4, <1>5, <1>6, <1>7, <1>8, <1>9, <1>10, <1>11, <1>12, <1>13, <1>14, <1>15, <1>16, <1>17, <1>18

\* A step that makes no task leaves the unborn unborn.
LEMMA StillUnborn ==
  ASSUME NEW t \in Task, PlaceInv, Step(t), NEW u \in Task, ~Newborn(t, u)
  PROVE  life'[u] # "unborn" => life[u] # "unborn"
<1>1. \/ life'[u] = life[u]
      \/ life[u] \in Living /\ life'[u] # "unborn"
      \/ Newborn(t, u) /\ life'[u] = "alive"
  BY Living1
<1>. QED  BY <1>1 DEF Living

\* A step of sched_setaffinity 008 or 009 keeps the handlers in time, and ends no task by a signal.
LEMMA MigrateStep ==
  ASSUME NEW t \in Task, PlaceInv, Step(t), MigrateText(T), HandOK(hand, sig),
         MigrateInv(pc["P"], pc["C1"], hand["P"]["USR2"], hand["C1"]["USR1"], sig["P"], life["C1"])
  PROVE  /\ MigrateInv(pc["P"], pc["C1"], hand["P"]["USR2"], hand["C1"]["USR1"], sig["P"], life["C1"])'
         /\ \A u \in Task : life'[u] = "killed" => life[u] = "killed" \/ (S(t).op = "flag" /\ ~mapped)
<1>1. /\ Acts(t) /\ Known(t) /\ "P" \in Task /\ "C1" \in Task /\ "USR1" \in Sigs /\ "USR2" \in Sigs
      /\ pc \in [Task -> Nat] /\ UNCHANGED T
  BY Moving DEF Task, Sigs, PlaceInv, Placed, Frames, chosen
<1>2. pc["P"] \in Nat /\ pc["C1"] \in Nat
  BY <1>1
<1>3. /\ pc["P"] >= 3 /\ pc["C1"] <= 4 => hand["P"]["USR2"] = "once"
      /\ sig["P"] => pc["C1"] >= 5
      /\ pc["P"] >= 7 => pc["C1"] >= 5
      /\ pc["C1"] >= 2 /\ pc["P"] <= 11 => hand["C1"]["USR1"] = "once"
      /\ life["C1"] # "unborn" => pc["P"] >= 5
  BY DEF MigrateInv
<1>4. t = "P" \/ t = "C1"
  <2>1. Len(T.C2) = 0 /\ Len(T.C3) = 0 /\ pc[t] \in 1..Len(T[t])
    BY <1>1 DEF MigrateText, Known
  <2>. QED  BY <2>1 DEF Task
<1>5. /\ ~Newborn(t, "P")
      /\ life["C1"] = "unborn" => pc["C1"] = 1
  BY <1>1 DEF Newborn, Child, PlaceInv, Placed
<1>6. CASE t = "P" /\ alt["P"] # 0
  <2>1. S(t).op \in Ends
    <3>1. /\ T.P[pc["P"]].op \in Fails /\ alt["P"] \in 1..Len(T.P[pc["P"]].orelse) /\ pc["P"] \in 1..17
          /\ S(t).op \in Ends <=> alt["P"] = Len(T.P[pc["P"]].orelse)
      BY <1>1, <1>6 DEF Known, MigrateText
    <3>2. T.P[pc["P"]].orelse = NG \/ T.P[pc["P"]].orelse = <<>>
      BY <3>1 DEF MigrateText
    <3>3. Len(NG) = 1
      BY DEF NG
    <3>4. CASE T.P[pc["P"]].orelse = NG
      <4>1. Len(T.P[pc["P"]].orelse) = 1
        BY <3>3, <3>4
      <4>2. alt["P"] = 1
        BY ONLY <3>1, <4>1
      <4>. QED  BY ONLY <3>1, <4>1, <4>2
    <3>5. CASE T.P[pc["P"]].orelse = <<>>
      <4>1. Len(T.P[pc["P"]].orelse) = 0
        BY <3>5
      <4>. QED  BY <3>1, <4>1
    <3>. QED  BY <3>2, <3>4, <3>5
  <2>2. S(t).op \notin {"again", "sigaction", "kill", "fork", "create"}
    BY <2>1 DEF Ends
  <2>3. ~Newborn(t, "C1")
    BY <2>2 DEF Newborn, Births
  <2>4. pc'["P"] = pc["P"] /\ pc'["C1"] = pc["C1"]
    BY <1>1, <1>6, <2>2, Walk
  <2>5. hand'["P"]["USR2"] = hand["P"]["USR2"] /\ hand'["C1"]["USR1"] = hand["C1"]["USR1"] /\ sig'["P"] = sig["P"]
    BY <1>1, <1>5, <2>2, <2>3, Fates
  <2>6. life'["C1"] # "unborn" => life["C1"] # "unborn"
    BY <1>1, <2>3, StillUnborn
  <2>7. \A u \in Task : life'[u] = "killed" => life[u] = "killed" \/ (S(t).op = "flag" /\ ~mapped)
    BY <2>2, Fates
  <2>. QED  BY <1>3, <2>4, <2>5, <2>6, <2>7 DEF MigrateInv
<1>7. CASE t = "P" /\ alt["P"] = 0
  <2>1. S(t) = T.P[pc["P"]] /\ pc["P"] \in 1..17
    BY <1>1, <1>7 DEF Known, MigrateText
  <2>2. /\ S(t).op = "sigaction" <=> pc["P"] = 2
        /\ S(t).op = "fork" <=> pc["P"] = 4
        /\ S(t).op = "kill" <=> pc["P"] = 11
        /\ S(t).op \notin {"again", "create", "exit"}
    BY <2>1, MigrateOps
  <2>3. pc'["C1"] = pc["C1"] /\ (pc'["P"] = pc["P"] + 1 \/ pc'["P"] = pc["P"])
    BY <1>1, <1>7, <2>2, Walk
  <2>4. pc["P"] = 11 => S(t).who = "C1" /\ S(t).sig = "USR1"
    BY <2>1 DEF MigrateText
  <2>5. pc["P"] # 2 => hand'["P"]["USR2"] = hand["P"]["USR2"]
    <3>1. ~(S(t).op = "kill" /\ "P" = S(t).who)
      BY <2>2, <2>4
    <3>. QED  BY <1>1, <1>5, <2>2, <3>1, Fates
  <2>6. pc["P"] = 2 => hand'["P"]["USR2"] = "once"
    <3>1. pc["P"] = 2 => S(t).sig = "USR2" /\ S(t).once = TRUE
      BY <2>1 DEF MigrateText
    <3>. QED  BY <1>7, <2>2, <3>1, Fates
  <2>7. Newborn(t, "C1") => pc["C1"] = 1 /\ pc["P"] = 4 /\ pc'["P"] = 5
    <3>1. ASSUME Newborn(t, "C1") PROVE pc["C1"] = 1 /\ pc["P"] = 4 /\ Rest(t)
      BY <1>5, <2>2, <3>1 DEF Newborn, Births
    <3>. QED  BY <1>1, <1>7, <3>1 DEF Rest
  <2>8. pc["P"] # 11 => hand'["C1"]["USR1"] = hand["C1"]["USR1"] \/ pc["C1"] = 1
    <3>1. ~(S(t).op = "sigaction" /\ "C1" = t)
      BY <1>7
    <3>. QED  BY <1>1, <2>2, <2>7, <3>1, Fates
  <2>9. pc["P"] = 11 => pc'["P"] = 12
    <3>1. pc["P"] = 11 => S(t).op \notin Fails
      BY <2>2 DEF Fails
    <3>. QED  BY <1>1, <1>7, <2>2, <3>1, Walk
  <2>10. sig'["P"] = sig["P"]
    <3>1. ~(S(t).op = "kill" /\ "P" = S(t).who)
      BY <2>2, <2>4
    <3>. QED  BY <1>1, <1>5, <3>1, Fates
  <2>11. pc["P"] = 6 => sig["P"]
    <3>1. pc["P"] = 6 => S(t).op = "spin" /\ S(t).on = "sig"
      BY <2>1 DEF MigrateText
    <3>. QED  BY <1>1, <1>7, <3>1 DEF Acts, spin
  <2>12. life'["C1"] # "unborn" => life["C1"] # "unborn" \/ pc'["P"] = 5
    BY <1>1, <2>7, StillUnborn
  <2>13. \A u \in Task : life'[u] = "killed" => life[u] = "killed" \/ (S(t).op = "flag" /\ ~mapped)
    <3>1. S(t).op = "kill" => S(t).sig \in Sigs /\ hand[S(t).who][S(t).sig] = "once"
      BY <1>1, <1>3, <2>2, <2>4
    <3>. QED  BY <3>1, Fates
  <2>14. MigrateInv(pc'["P"], pc'["C1"], hand'["P"]["USR2"], hand'["C1"]["USR1"], sig'["P"], life'["C1"])
    BY ONLY <1>2, <1>3, <2>3, <2>5, <2>6, <2>8, <2>9, <2>10, <2>11, <2>12 DEF MigrateInv
  <2>. QED  BY <2>13, <2>14
<1>8. CASE t = "C1"
  <2>1. S(t) = T.C1[pc["C1"]] /\ pc["C1"] \in 1..8 /\ alt[t] = 0
    <3>1. pc["C1"] \in 1..8
      BY <1>1, <1>8 DEF Known, MigrateText
    <3>. QED  BY <1>1, <1>8, <3>1, MigrateOps DEF Known
  <2>2. /\ S(t).op = "sigaction" <=> pc["C1"] = 1
        /\ S(t).op = "kill" <=> pc["C1"] = 4
        /\ S(t).op \notin {"again", "create", "fork"}
        /\ S(t).op \notin Fails
    BY <2>1, MigrateOps
  <2>3. pc'["P"] = pc["P"] /\ pc'["C1"] = pc["C1"] + 1
    BY <1>1, <1>8, <2>1, <2>2, Walk
  <2>4. pc["C1"] = 4 => S(t).who = "P" /\ S(t).sig = "USR2"
    BY <2>1 DEF MigrateText
  <2>5. ~Newborn(t, "C1")
    BY <1>8 DEF Newborn
  <2>6. pc["C1"] # 4 => hand'["P"]["USR2"] = hand["P"]["USR2"] /\ sig'["P"] = sig["P"]
    BY <1>1, <1>5, <1>8, <2>2, Fates
  <2>7. pc["C1"] # 1 => hand'["C1"]["USR1"] = hand["C1"]["USR1"]
    <3>1. ~(S(t).op = "kill" /\ "C1" = S(t).who)
      BY <2>2, <2>4
    <3>. QED  BY <1>1, <2>2, <2>5, <3>1, Fates
  <2>8. pc["C1"] = 1 => hand'["C1"]["USR1"] = "once"
    <3>1. pc["C1"] = 1 => S(t).sig = "USR1" /\ S(t).once = TRUE
      BY <2>1 DEF MigrateText
    <3>. QED  BY <1>8, <2>2, <3>1, Fates
  <2>9. life["C1"] # "unborn"
    BY <1>1, <1>8 DEF Known, Living
  <2>10. \A u \in Task : life'[u] = "killed" => life[u] = "killed" \/ (S(t).op = "flag" /\ ~mapped)
    <3>1. S(t).op = "kill" => S(t).sig \in Sigs /\ hand[S(t).who][S(t).sig] = "once"
      BY <1>1, <1>2, <1>3, <2>2, <2>4, <2>9
    <3>. QED  BY <3>1, Fates
  <2>11. MigrateInv(pc'["P"], pc'["C1"], hand'["P"]["USR2"], hand'["C1"]["USR1"], sig'["P"], life'["C1"])
    BY ONLY <1>2, <1>3, <2>3, <2>6, <2>7, <2>8, <2>9 DEF MigrateInv
  <2>. QED  BY <2>10, <2>11
<1>. QED  BY <1>4, <1>6, <1>7, <1>8

\* A step of sched_setaffinity 010 without faults keeps the handlers in time, and ends no task by a signal.
LEMMA PairStep ==
  ASSUME NEW t \in Task, PlaceInv, Step(t), PairText(T), HandOK(hand, sig), fault = "none", Owned(life, threads, pipe),
         PairInv(pc["P"], pc["C1"], pc["C2"], alt["P"], hand["P"]["USR2"], hand["C1"]["USR1"], hand["C2"]["USR1"], sig["P"],
                 pipe["c2p"], life["P"], life["C1"], life["C2"])
  PROVE  /\ PairInv(pc["P"], pc["C1"], pc["C2"], alt["P"], hand["P"]["USR2"], hand["C1"]["USR1"], hand["C2"]["USR1"], sig["P"],
                    pipe["c2p"], life["P"], life["C1"], life["C2"])'
         /\ \A u \in Task : life'[u] = "killed" => life[u] = "killed" \/ (S(t).op = "flag" /\ ~mapped)
<1>. DEFINE a == pc["P"]
            b == pc["C1"]
            c == pc["C2"]
            q == pipe["c2p"].q
            w == pipe["c2p"].w
            hp == hand["P"]["USR2"]
            hb == hand["C1"]["USR1"]
            hc == hand["C2"]["USR1"]
<1>1. /\ Acts(t) /\ Known(t) /\ "P" \in Task /\ "C1" \in Task /\ "C2" \in Task /\ "USR1" \in Sigs /\ "USR2" \in Sigs
      /\ pc \in [Task -> Nat] /\ "c2p" \in Pipes
  BY Moving DEF Task, Sigs, Pipes, PlaceInv, Placed
<1>2. a \in Nat /\ b \in Nat /\ c \in Nat
  BY <1>1
<1>3. /\ a >= 3 => hp = "always"
      /\ q # <<>> => b >= 4
      /\ a \in {4, 5, 6} /\ life["P"] \in Living => "P" \in w
      /\ a >= 6 => b >= 4
      /\ b >= 2 /\ a <= 14 => hb = "once"
      /\ sig["P"] => c >= 3
      /\ a >= 12 => c >= 3
      /\ c >= 2 /\ a <= 13 => hc = "once"
      /\ life["C1"] # "unborn" => a >= 5
      /\ life["C2"] # "unborn" => a >= 8
      /\ alt["P"] # 0 => a \notin {7, 8, 9}
  BY DEF PairInv
<1>4. t = "P" \/ t = "C1" \/ t = "C2"
  <2>1. Len(T.C3) = 0 /\ pc[t] \in 1..Len(T[t])
    BY <1>1 DEF PairText, Known
  <2>. QED  BY <2>1 DEF Task
<1>5. /\ ~Newborn(t, "P")
      /\ life["C1"] = "unborn" => b = 1
      /\ life["C2"] = "unborn" => c = 1
      /\ t # "P" => ~Newborn(t, "C1") /\ ~Newborn(t, "C2")
  BY <1>1 DEF Newborn, Child, PlaceInv, Placed
<1>6. /\ pipe'["c2p"].q # <<>> => q # <<>> \/ S(t).op = "write"
      /\ "P" \in w /\ life'["P"] \in Living => "P" \in pipe'["c2p"].w \/ (S(t).op = "close" /\ t = "P")
      /\ S(t).op = "pipe" /\ S(t).p = "c2p" => "P" \in pipe'["c2p"].w
  BY <1>1, PipeFates
<1>7. life'["P"] \in Living => life["P"] \in Living
  BY <1>1, <1>5, Living1
<1>8. CASE t = "P" /\ alt["P"] # 0
  <2>1. S(t).op \in Ends \/ (S(t).op = "kill" /\ S(t).who = "nobody")
    <3>1. /\ T.P[a].op \in Fails /\ alt["P"] \in 1..Len(T.P[a].orelse) /\ a \in 1..17
          /\ S(t).op \in Ends <=> alt["P"] = Len(T.P[a].orelse)
          /\ S(t) = T.P[a].orelse[alt["P"]]
      <4>1. Len(T.P) = 17
        BY DEF PairText
      <4>. QED  BY <1>1, <1>8, <4>1 DEF Known
    <3>2. a \in {1, 3, 4, 5, 7, 8, 9, 10, 12}
      BY <3>1, PairOps
    <3>3. a \in {1, 3, 4, 5, 10, 12}
      BY ONLY <1>3, <1>8, <3>2
    <3>4. CASE a \in {1, 3, 4, 10}
      <4>1. T.P[a].orelse = NG
        BY <3>4 DEF PairText
      <4>2. Len(T.P[a].orelse) = 1
        BY <4>1 DEF NG
      <4>3. alt["P"] = 1
        BY ONLY <3>1, <4>2
      <4>. QED  BY ONLY <3>1, <4>2, <4>3
    <3>5. CASE a = 5
      <4>1. T.P[a].orelse = <<>>
        BY <3>5 DEF PairText
      <4>2. Len(T.P[a].orelse) = 0
        BY <4>1
      <4>. QED  BY ONLY <3>1, <4>2
    <3>6. CASE a = 12
      <4>1. T.P[a].orelse = << Kill("nobody", "USR1"), Return("ng") >>
        BY <3>6 DEF PairText
      <4>2. /\ Len(T.P[a].orelse) = 2
            /\ T.P[a].orelse[1].op = "kill" /\ T.P[a].orelse[1].who = "nobody"
        BY <4>1 DEF Kill, Return
      <4>3. alt["P"] = 1 \/ alt["P"] = 2
        BY ONLY <3>1, <4>2
      <4>4. CASE alt["P"] = 1
        BY <3>1, <4>2, <4>4
      <4>5. CASE alt["P"] = 2
        BY ONLY <3>1, <4>2, <4>5
      <4>. QED  BY <4>3, <4>4, <4>5
    <3>. QED  BY <3>3, <3>4, <3>5, <3>6
  <2>2. S(t).op \notin {"again", "sigaction", "fork", "create", "write", "close"} /\ (S(t).op = "kill" => S(t).who = "nobody")
    BY <2>1 DEF Ends
  <2>3. ~Newborn(t, "C1") /\ ~Newborn(t, "C2")
    BY <2>2 DEF Newborn, Births
  <2>4. pc'["P"] = a /\ pc'["C1"] = b /\ pc'["C2"] = c
    BY <1>1, <1>8, <2>2, Walk
  <2>5. "nobody" \notin Task
    BY DEF Task
  <2>6. hand'["P"]["USR2"] = hp /\ hand'["C1"]["USR1"] = hb /\ hand'["C2"]["USR1"] = hc /\ sig'["P"] = sig["P"]
    BY <1>1, <1>5, <2>2, <2>3, <2>5, Fates
  <2>7. (life'["C1"] # "unborn" => life["C1"] # "unborn") /\ (life'["C2"] # "unborn" => life["C2"] # "unborn")
    BY <1>1, <2>3, StillUnborn
  <2>8. \A u \in Task : life'[u] = "killed" => life[u] = "killed" \/ (S(t).op = "flag" /\ ~mapped)
    BY <2>2, <2>5, Fates
  <2>9. /\ pipe'["c2p"].q # <<>> => q # <<>>
        /\ "P" \in w /\ life'["P"] \in Living => "P" \in pipe'["c2p"].w
    BY <1>6, <2>2
  <2>. QED  BY <1>3, <1>7, <1>8, <2>4, <2>6, <2>7, <2>8, <2>9 DEF PairInv
<1>9. CASE t = "P" /\ alt["P"] = 0
  <2>1. S(t) = T.P[a] /\ a \in 1..17
    BY <1>1, <1>9 DEF Known, PairText
  <2>2. /\ S(t).op = "sigaction" <=> a = 2
        /\ S(t).op = "fork" <=> a \in {4, 7}
        /\ S(t).op = "kill" <=> a \in {13, 14}
        /\ S(t).op = "close" <=> a = 6
        /\ S(t).op = "pipe" <=> a = 3
        /\ S(t).op \notin {"again", "create", "exit", "write"}
        /\ S(t).op \in Fails <=> a \in {1, 3, 4, 5, 7, 8, 9, 10, 12}
    BY <2>1, PairOps
  <2>3. pc'["C1"] = b /\ pc'["C2"] = c /\ ((pc'["P"] = a + 1 /\ alt'["P"] = 0) \/ (pc'["P"] = a /\ S(t).op \in Fails))
    BY <1>1, <1>9, <2>2, Walk
  <2>4. a \in {3, 4, 7, 8, 9} => pc'["P"] = a + 1 /\ alt'["P"] = 0
    <3>1. a \in {3, 4, 7} => S(t).op \in {"fork", "pipe"}
      BY <2>2
    <3>2. a \in {8, 9} => S(t).op = "try" /\ S(t).what # "none"
      BY <2>1 DEF PairText
    <3>. QED  BY <1>9, <2>2, <3>1, <3>2, Walk
  <2>5. /\ a = 13 => S(t).who = "C2" /\ S(t).sig = "USR1"
        /\ a = 14 => S(t).who = "C1" /\ S(t).sig = "USR1"
    BY <2>1 DEF PairText
  <2>6. /\ a # 2 => hand'["P"]["USR2"] = hp
        /\ sig'["P"] = sig["P"]
    <3>1. ~(S(t).op = "kill" /\ "P" = S(t).who)
      BY <2>2, <2>5
    <3>. QED  BY <1>1, <1>5, <2>2, <3>1, Fates
  <2>7. a = 2 => hand'["P"]["USR2"] = "always"
    <3>1. a = 2 => S(t).sig = "USR2" /\ S(t).once = FALSE
      BY <2>1 DEF PairText
    <3>. QED  BY <1>9, <2>2, <3>1, Fates
  <2>8. /\ Newborn(t, "C1") => b = 1 /\ a = 4
        /\ Newborn(t, "C2") => c = 1 /\ a = 7
    <3>1. a = 4 => S(t).who = "C1"
      BY <2>1 DEF PairText
    <3>2. a = 7 => S(t).who = "C2"
      BY <2>1 DEF PairText
    <3>. QED  BY <1>5, <2>2, <3>1, <3>2 DEF Newborn, Births
  <2>9. a # 14 => hand'["C1"]["USR1"] = hb \/ b = 1
    <3>1. ~(S(t).op = "sigaction" /\ "C1" = t) /\ (a # 14 => ~(S(t).op = "kill" /\ "C1" = S(t).who))
      BY <1>9, <2>2, <2>5
    <3>. QED  BY <1>1, <2>8, <3>1, Fates
  <2>10. a # 13 => hand'["C2"]["USR1"] = hc \/ c = 1
    <3>1. ~(S(t).op = "sigaction" /\ "C2" = t) /\ (a # 13 => ~(S(t).op = "kill" /\ "C2" = S(t).who))
      BY <1>9, <2>2, <2>5
    <3>. QED  BY <1>1, <2>8, <3>1, Fates
  <2>11. a \in {2, 6, 11, 13, 14} => pc'["P"] = a + 1
    BY <2>2, <2>3
  <2>12. a = 11 => sig["P"]
    <3>1. a = 11 => S(t).op = "spin" /\ S(t).on = "sig"
      BY <2>1 DEF PairText
    <3>. QED  BY <1>1, <1>9, <3>1 DEF Acts, spin
  <2>13. a = 5 => q # <<>>
    <3>1. SUFFICES ASSUME a = 5 PROVE q # <<>>
      OBVIOUS
    <3>2. S(t).op = "read" /\ S(t).p = "c2p"
      BY <2>1, <3>1 DEF PairText
    <3>3. "P" \in w
      BY <1>1, <1>3, <1>9, <3>1 DEF Known
    <3>4. ~Blocked(t)
      BY <1>1, <3>2 DEF Acts, read
    <3>. QED  BY <3>2, <3>3, <3>4 DEF Blocked
  <2>14. /\ life'["C1"] # "unborn" => life["C1"] # "unborn" \/ a = 4
         /\ life'["C2"] # "unborn" => life["C2"] # "unborn" \/ a = 7
    BY <1>1, <2>8, StillUnborn
  <2>15. /\ pipe'["c2p"].q # <<>> => q # <<>>
         /\ a # 6 /\ "P" \in w /\ life'["P"] \in Living => "P" \in pipe'["c2p"].w
         /\ a = 3 => "P" \in pipe'["c2p"].w
    <3>1. a = 3 => S(t).op = "pipe" /\ S(t).p = "c2p"
      BY <2>1 DEF PairText
    <3>. QED  BY <1>6, <2>2, <3>1
  <2>16. \A u \in Task : life'[u] = "killed" => life[u] = "killed" \/ (S(t).op = "flag" /\ ~mapped)
    <3>1. S(t).op = "kill" => S(t).sig \in Sigs /\ hand[S(t).who][S(t).sig] = "once"
      BY <1>1, <1>2, <1>3, <2>2, <2>5
    <3>. QED  BY <3>1, Fates
  <2>17. (pc'["P"] = a + 1 /\ alt'["P"] = 0) \/ (pc'["P"] = a /\ a \in {1, 5, 10, 12})
    BY <2>2, <2>3, <2>4
  <2>18. PairInv(pc'["P"], pc'["C1"], pc'["C2"], alt'["P"], hand'["P"]["USR2"], hand'["C1"]["USR1"], hand'["C2"]["USR1"], sig'["P"],
                 pipe'["c2p"], life'["P"], life'["C1"], life'["C2"])
    <3>1. /\ pc'["P"] >= 3 => hand'["P"]["USR2"] = "always"
          /\ pipe'["c2p"].q # <<>> => pc'["C1"] >= 4
          /\ pc'["P"] \in {4, 5, 6} /\ life'["P"] \in Living => "P" \in pipe'["c2p"].w
      BY ONLY <1>2, <1>3, <1>7, <2>3, <2>6, <2>7, <2>15, <2>17
    <3>2. /\ pc'["P"] >= 6 => pc'["C1"] >= 4
          /\ pc'["C1"] >= 2 /\ pc'["P"] <= 14 => hand'["C1"]["USR1"] = "once"
          /\ sig'["P"] => pc'["C2"] >= 3
          /\ pc'["P"] >= 12 => pc'["C2"] >= 3
          /\ pc'["C2"] >= 2 /\ pc'["P"] <= 13 => hand'["C2"]["USR1"] = "once"
      BY ONLY <1>2, <1>3, <2>3, <2>6, <2>9, <2>10, <2>11, <2>12, <2>13, <2>17
    <3>3. /\ life'["C1"] # "unborn" => pc'["P"] >= 5
          /\ life'["C2"] # "unborn" => pc'["P"] >= 8
          /\ alt'["P"] # 0 => pc'["P"] \notin {7, 8, 9}
      BY ONLY <1>2, <1>3, <2>14, <2>17
    <3>. QED  BY ONLY <3>1, <3>2, <3>3 DEF PairInv
  <2>. QED  BY <2>16, <2>18
<1>10. CASE t = "C1"
  <2>1. S(t) = T.C1[b] /\ b \in 1..6 /\ alt[t] = 0
    <3>1. b \in 1..6
      BY <1>1, <1>10 DEF Known, PairText
    <3>. QED  BY <1>1, <1>10, <3>1, PairOps DEF Known
  <2>2. /\ S(t).op = "sigaction" <=> b = 1
        /\ S(t).op = "write" <=> b = 3
        /\ S(t).op \notin {"again", "create", "fork", "kill", "pipe"}
        /\ S(t).op \notin Fails
    BY <2>1, PairOps
  <2>3. pc'["P"] = a /\ pc'["C1"] = b + 1 /\ pc'["C2"] = c /\ alt'["P"] = alt["P"]
    BY <1>1, <1>10, <2>1, <2>2, Walk
  <2>4. hand'["P"]["USR2"] = hp /\ hand'["C2"]["USR1"] = hc /\ sig'["P"] = sig["P"]
    BY <1>1, <1>5, <1>10, <2>2, Fates
  <2>5. b # 1 => hand'["C1"]["USR1"] = hb
    BY <1>1, <1>5, <1>10, <2>2, Fates
  <2>6. b = 1 => hand'["C1"]["USR1"] = "once"
    <3>1. b = 1 => S(t).sig = "USR1" /\ S(t).once = TRUE
      BY <2>1 DEF PairText
    <3>. QED  BY <1>10, <2>2, <3>1, Fates
  <2>7. (life'["C1"] # "unborn" => life["C1"] # "unborn") /\ (life'["C2"] # "unborn" => life["C2"] # "unborn")
    BY <1>1, <1>5, <1>10, StillUnborn
  <2>8. /\ pipe'["c2p"].q # <<>> => q # <<>> \/ b = 3
        /\ "P" \in w /\ life'["P"] \in Living => "P" \in pipe'["c2p"].w
    BY <1>6, <1>10, <2>2
  <2>9. \A u \in Task : life'[u] = "killed" => life[u] = "killed" \/ (S(t).op = "flag" /\ ~mapped)
    BY <2>2, Fates
  <2>10. PairInv(pc'["P"], pc'["C1"], pc'["C2"], alt'["P"], hand'["P"]["USR2"], hand'["C1"]["USR1"], hand'["C2"]["USR1"], sig'["P"],
                 pipe'["c2p"], life'["P"], life'["C1"], life'["C2"])
    BY ONLY <1>2, <1>3, <1>7, <2>3, <2>4, <2>5, <2>6, <2>7, <2>8 DEF PairInv
  <2>. QED  BY <2>9, <2>10
<1>11. CASE t = "C2"
  <2>1. S(t) = T.C2[c] /\ c \in 1..4 /\ alt[t] = 0
    <3>1. c \in 1..4
      BY <1>1, <1>11 DEF Known, PairText
    <3>. QED  BY <1>1, <1>11, <3>1, PairOps DEF Known
  <2>2. /\ S(t).op = "sigaction" <=> c = 1
        /\ S(t).op = "kill" <=> c = 2
        /\ S(t).op \notin {"again", "create", "fork", "write", "pipe"}
        /\ S(t).op \notin Fails
    BY <2>1, PairOps
  <2>3. pc'["P"] = a /\ pc'["C2"] = c + 1 /\ pc'["C1"] = b /\ alt'["P"] = alt["P"]
    BY <1>1, <1>11, <2>1, <2>2, Walk
  <2>4. c = 2 => S(t).who = "P" /\ S(t).sig = "USR2"
    BY <2>1 DEF PairText
  <2>5. life["C2"] # "unborn"
    BY <1>1, <1>11 DEF Known, Living
  <2>6. hp = "always"
    BY <1>2, <1>3, <2>5
  <2>7. hand'["P"]["USR2"] = hp
    BY <1>1, <1>5, <1>11, <2>6, Fates
  <2>8. hand'["C1"]["USR1"] = hb
    <3>1. ~(S(t).op = "kill" /\ "C1" = S(t).who)
      BY <2>2, <2>4
    <3>. QED  BY <1>1, <1>5, <1>11, <3>1, Fates
  <2>9. c # 1 => hand'["C2"]["USR1"] = hc
    <3>1. ~(S(t).op = "kill" /\ "C2" = S(t).who)
      BY <2>2, <2>4
    <3>. QED  BY <1>1, <1>5, <1>11, <2>2, <3>1, Fates
  <2>10. c = 1 => hand'["C2"]["USR1"] = "once"
    <3>1. c = 1 => S(t).sig = "USR1" /\ S(t).once = TRUE
      BY <2>1 DEF PairText
    <3>. QED  BY <1>11, <2>2, <3>1, Fates
  <2>11. c # 2 => sig'["P"] = sig["P"]
    BY <1>1, <1>5, <2>2, Fates
  <2>12. (life'["C1"] # "unborn" => life["C1"] # "unborn") /\ (life'["C2"] # "unborn" => life["C2"] # "unborn")
    BY <1>1, <1>5, <1>11, StillUnborn
  <2>13. /\ pipe'["c2p"].q # <<>> => q # <<>>
         /\ "P" \in w /\ life'["P"] \in Living => "P" \in pipe'["c2p"].w
    BY <1>6, <1>11, <2>2
  <2>14. \A u \in Task : life'[u] = "killed" => life[u] = "killed" \/ (S(t).op = "flag" /\ ~mapped)
    <3>1. S(t).op = "kill" => S(t).sig \in Sigs /\ hand[S(t).who][S(t).sig] = "always"
      BY <1>1, <2>2, <2>4, <2>6
    <3>. QED  BY <3>1, Fates
  <2>15. PairInv(pc'["P"], pc'["C1"], pc'["C2"], alt'["P"], hand'["P"]["USR2"], hand'["C1"]["USR1"], hand'["C2"]["USR1"], sig'["P"],
                 pipe'["c2p"], life'["P"], life'["C1"], life'["C2"])
    BY ONLY <1>2, <1>3, <1>7, <2>3, <2>7, <2>8, <2>9, <2>10, <2>11, <2>12, <2>13 DEF PairInv
  <2>. QED  BY <2>14, <2>15
<1>. QED  BY <1>4, <1>8, <1>9, <1>10, <1>11

\* A step keeps the signals in order.
LEMMA SigStep ==
  ASSUME NEW t \in Task, PlaceInv, Step(t), Owned(life, threads, pipe), SigInv
  PROVE  SigInv'
<1>1. Frames(t) /\ Acts(t) /\ Known(t) /\ Traits(test, T) /\ UNCHANGED <<test, T, fault>> /\ Picked
  BY Moving DEF Frames, chosen, PlaceInv
<1>2. HandOK(hand, sig) /\ HandOK(hand, sig)'
  BY Fates DEF SigInv
<1>3. fault # "mmap" => mapped /\ mapped'
  <2>. SUFFICES ASSUME fault # "mmap" PROVE mapped /\ mapped'
    OBVIOUS
  <2>0. mapped
    BY DEF SigInv
  <2>1. CASE S(t).op = "mapflag"
    BY <1>1, <2>0, <2>1 DEF Acts, MapFlagStep
  <2>2. CASE S(t).op # "mapflag"
    <3>1. mapped' = mapped
      BY <1>1, <2>2 DEF Frames
    <3>. QED  BY <2>0, <3>1
  <2>. QED  BY <2>1, <2>2
<1>4. ASSUME test \in {"set008", "set009"}
      PROVE  /\ MigrateInv(pc["P"], pc["C1"], hand["P"]["USR2"], hand["C1"]["USR1"], sig["P"], life["C1"])'
             /\ \A u \in Task : life'[u] = "killed" => life[u] = "killed" \/ (S(t).op = "flag" /\ ~mapped)
  <2>1. MigrateText(T)
    BY <1>1, <1>4, Set008Text, Set009Text DEF Picked, Suite
  <2>. QED  BY <1>2, <1>4, <2>1, MigrateStep DEF SigInv
<1>5. ASSUME test = "set010", fault = "none"
      PROVE  /\ PairInv(pc["P"], pc["C1"], pc["C2"], alt["P"], hand["P"]["USR2"], hand["C1"]["USR1"], hand["C2"]["USR1"], sig["P"],
                        pipe["c2p"], life["P"], life["C1"], life["C2"])'
             /\ \A u \in Task : life'[u] = "killed" => life[u] = "killed" \/ (S(t).op = "flag" /\ ~mapped)
  <2>1. PairText(T)
    BY <1>1, <1>5, Set010Text DEF Picked, Suite
  <2>. QED  BY <1>2, <1>5, <2>1, PairStep DEF SigInv
<1>6. ASSUME test \notin {"set008", "set009", "set010", "get005"}
      PROVE  \A u \in Task : life'[u] = "killed" => life[u] = "killed" \/ (S(t).op = "flag" /\ ~mapped)
  <2>1. NoKill(T)
    BY <1>1, <1>6 DEF Traits
  <2>2. S(t).op # "kill"
    <3>1. CASE alt[t] = 0
      BY <1>1, <2>1, <3>1 DEF Known, NoKill
    <3>2. CASE alt[t] # 0
      <4>1. /\ pc[t] \in 1..Len(T[t]) /\ T[t][pc[t]].op \in Fails /\ alt[t] \in 1..Len(T[t][pc[t]].orelse)
            /\ S(t) = T[t][pc[t]].orelse[alt[t]]
        BY <1>1, <3>2 DEF Known
      <4>. QED  BY <2>1, <4>1 DEF NoKill
    <3>. QED  BY <3>1, <3>2
  <2>. QED  BY <1>2, <2>2, Fates
<1>7. Unkilled'
  <2>1. SUFFICES ASSUME fault = "none", test # "get005" PROVE \A u \in Task : life'[u] # "killed"
    BY <1>1 DEF Unkilled
  <2>2. \A u \in Task : life'[u] = "killed" => life[u] = "killed" \/ (S(t).op = "flag" /\ ~mapped)
    BY <1>4, <1>5, <1>6, <2>1
  <2>. QED  BY <1>3, <2>1, <2>2 DEF SigInv, Unkilled
<1>. QED  BY <1>1, <1>2, <1>3, <1>4, <1>5, <1>7 DEF SigInv

-----------------------------------------------------------------------------
(* The whole *)

IInv == PlaceInv /\ TypeInv /\ SemInv(T, pc, sem) /\ FreeInv /\ TurnInv /\ SigInv

\* It holds before the test starts.
LEMMA InitIInv == Init => IInv
<1>. SUFFICES ASSUME Init PROVE IInv
  OBVIOUS
<1>1. Picked /\ Traits(test, T)
  <2>1. PICK c \in Cases : test = c.test /\ fault = c.fault /\ kind = c.kind /\ num_of_cpus = c.n /\ T = Suite(c.n)[c.test]
    BY DEF Init
  <2>2. c.n \in 0..MaxCpus /\ c.test \in DOMAIN Suite(0) /\ MaxCpus \in Nat
    BY CasesAssumption
  <2>. QED  BY <2>1, <2>2, SuiteLemma DEF Picked
<1>2. /\ pc = [t \in Task |-> 1] /\ alt = [t \in Task |-> 0]
      /\ life = [t \in Task |-> IF t = "P" THEN "alive" ELSE "unborn"]
  BY DEF Init
<1>3. "P" \in Task /\ "C1" \in Task /\ "C2" \in Task
  BY DEF Task
<1>4. SuiteOK(T)
  BY <1>1 DEF Traits
<1>5. PlaceInv
  <2>1. \A t \in Task : Len(T[t]) \in Nat
    BY <1>4 DEF SuiteOK, TextOK
  <2>2. Len(T.P) > 0
    BY <1>4 DEF SuiteOK, BirthsOK
  <2>3. Placed(T, pc, alt, life)
    <3>1. life \in [Task -> Lives] /\ life["P"] # "unborn" /\ \A t \in Task : life[t] \in Living => t = "P"
      BY <1>2, <1>3 DEF Lives, Living
    <3>2. pc \in [Task -> Nat] /\ alt \in [Task -> Nat] /\ \A t \in Task : pc[t] = 1 /\ alt[t] = 0
      BY <1>2
    <3>. QED  BY <2>1, <2>2, <3>1, <3>2 DEF Placed
  <2>4. ToCome(T, pc, life)
    <3>1. \A k \in 1..Len(T.P) : T.P[k].op \in Births => T.P[k].who \in Child
      BY <1>3, <1>4 DEF SuiteOK, TextOK, Proper, StepOK
    <3>. QED  BY <1>2, <3>1 DEF ToCome, Child
  <2>. QED  BY <1>1, <2>3, <2>4 DEF PlaceInv
<1>6. TypeInv
  <2>1. Wheres(CPU, aff, cpu, run)
    <3>1. PICK c \in CPU : cpu = [t \in Task |-> c]
      BY DEF Init
    <3>2. aff = [t \in Task |-> CPU] /\ run = [d \in CPU |-> IF d = cpu["P"] THEN "P" ELSE "idle"]
      BY DEF Init
    <3>. QED  BY <1>3, <3>1, <3>2 DEF Wheres
  <2>2. Locals(CPU, reg, core)
    <3>1. /\ core = -1
          /\ reg = [t \in Task |-> [cpu |-> -1, new |-> -1, got |-> -1, got2 |-> -1, own |-> {}, its |-> {}, result |-> "none", i |-> 0]]
      BY DEF Init
    <3>. QED  BY <3>1 DEF Locals, Fields
  <2>3. Owned(life, threads, pipe)
    <3>1. threads = {} /\ pipe = [p \in Pipes |-> [q |-> <<>>, r |-> {}, w |-> {}]]
      BY DEF Init
    <3>. QED  BY <3>1 DEF Owned
  <2>4. Ended(life, end)
    BY <1>2, <1>3 DEF Init, Ended, Living
  <2>5. Shared(flag, block, val)
    BY DEF Init, Shared
  <2>. QED  BY <2>1, <2>2, <2>3, <2>4, <2>5 DEF TypeInv
<1>7. SemInv(T, pc, sem)
  <2>1. sem = [s \in Sems |-> 0]
    BY DEF Init
  <2>2. \A s \in Sems : sem[s] = 0
    BY <2>1
  <2>3. ASSUME NEW t \in Task, NEW k \in Nat, k > 0 PROVE Passed(pc[t], k) = 0
    BY <1>2, <2>3 DEF Passed
  <2>4. ASSUME NEW s \in Sems, NEW t \in Task, NEW u \in Task, NEW k \in Nat, NEW l \in Nat, SemText(T, s, t, k, u, l)
        PROVE  sem[s] = Passed(pc[t], k) - Passed(pc[u], l)
    <3>1. k > 0 /\ l > 0
      BY <2>4 DEF SemText
    <3>2. Passed(pc[t], k) = 0 /\ Passed(pc[u], l) = 0
      BY <2>3, <3>1
    <3>. QED  BY <2>2, <3>2
  <2>5. sem \in [Sems -> 0..1]
    BY <2>1
  <2>. QED  BY <2>2, <2>4, <2>5 DEF SemInv
<1>8. FreeInv
  <2>1. ~stray /\ threads = {} /\ block = "live" /\ pc["P"] = 1 /\ alt["P"] = 0
    BY <1>2, <1>3 DEF Init
  <2>. QED  BY <2>1 DEF FreeInv, ThreadsInv
<1>9. TurnInv
  <2>1. log = <<>> /\ mapped = TRUE /\ end = "none" /\ flag = 0
    BY DEF Init
  <2>2. pc["P"] = 1 /\ pc["C1"] = 1 /\ life["C1"] = "unborn"
    BY <1>2, <1>3
  <2>3. reg["P"].i = 0 /\ reg["C1"].i = 0
    BY <1>3 DEF Init
  <2>4. Lines(log) /\ Len(log) = 0
    BY <2>1 DEF Lines
  <2>5. Turns(1, 1, 0, 0, 0, 0)
    BY SizesAssumption DEF Turns, One
  <2>. QED  BY <2>1, <2>2, <2>3, <2>4, <2>5 DEF TurnInv
<1>10. SigInv
  <2>1. hand = [t \in Task |-> [s \in Sigs |-> "none"]] /\ sig = [t \in Task |-> FALSE] /\ mapped = TRUE
    BY DEF Init, Sigs
  <2>2. HandOK(hand, sig) /\ sig["P"] = FALSE
    BY <1>3, <2>1 DEF HandOK
  <2>3. Unkilled
    BY <1>2 DEF Unkilled
  <2>4. pc["P"] = 1 /\ pc["C1"] = 1 /\ pc["C2"] = 1 /\ alt["P"] = 0 /\ life["C1"] = "unborn" /\ life["C2"] = "unborn"
    BY <1>2, <1>3
  <2>5. pipe["c2p"].q = <<>>
    BY DEF Init, Pipes
  <2>. QED  BY <2>1, <2>2, <2>3, <2>4, <2>5 DEF SigInv, MigrateInv, PairInv
<1>. QED  BY <1>5, <1>6, <1>7, <1>8, <1>9, <1>10 DEF IInv

\* Every step of a task keeps it.
LEMMA StepIInv == ASSUME NEW t \in Task, IInv, Step(t) PROVE IInv'
<1>1. /\ PlaceInv /\ SemInv(T, pc, sem) /\ FreeInv /\ TurnInv /\ SigInv
      /\ Wheres(CPU, aff, cpu, run) /\ Locals(CPU, reg, core) /\ Owned(life, threads, pipe) /\ Ended(life, end) /\ Shared(flag, block, val)
  BY DEF IInv, TypeInv
<1>2. PlaceInv' /\ SemInv(T, pc, sem)'
  BY <1>1, PlaceStep, SemStep
<1>3. Wheres(CPU, aff, cpu, run)' /\ Locals(CPU, reg, core)'
  BY <1>1, WheresStep, LocalsStep
<1>4. Owned(life, threads, pipe)' /\ Ended(life, end)' /\ Shared(flag, block, val)'
  BY <1>1, OwnedStep, SharedStep
<1>5. FreeInv' /\ TurnInv' /\ SigInv'
  BY <1>1, FreeStep, TurnStep, SigStep
<1>. QED  BY <1>2, <1>3, <1>4, <1>5 DEF IInv, TypeInv

\* A task that the kernel gives its CPU to, or wakes up, has not moved.
LEMMA KernelIInv == ASSUME NEW t \in Task, IInv, Dispatch(t) \/ Wake(t) PROVE IInv'
<1>1. /\ UNCHANGED <<test, T, num_of_cpus, kind, fault, pc, alt, reg, val, threads, aff, cpu, hand, sig, pipe, sem>>
      /\ UNCHANGED <<flag, mapped, core, waiting, block, stray, log, end>>
  BY DEF Dispatch, Wake, chosen, where, signals, channels, memory
<1>2. /\ PlaceInv /\ SemInv(T, pc, sem) /\ FreeInv /\ TurnInv /\ SigInv
      /\ Wheres(CPU, aff, cpu, run) /\ Locals(CPU, reg, core) /\ Owned(life, threads, pipe) /\ Ended(life, end) /\ Shared(flag, block, val)
      /\ Picked /\ Placed(T, pc, alt, life) /\ ToCome(T, pc, life)
  BY DEF IInv, TypeInv, PlaceInv
<1>3. life \in [Task -> Lives]
  BY <1>2 DEF Placed
<1>4. \/ UNCHANGED life
      \/ life[t] = "asleep" /\ life' = [life EXCEPT ![t] = "alive"]
  BY DEF Dispatch, Wake
<1>5. /\ life' \in [Task -> Lives]
      /\ \A u \in Task : life'[u] = life[u] \/ (life[u] = "asleep" /\ life'[u] = "alive")
  BY <1>3, <1>4 DEF Lives, Living
<1>6. \A u \in Task : /\ life'[u] \in Living <=> life[u] \in Living
                      /\ life'[u] = "unborn" <=> life[u] = "unborn"
                      /\ life'[u] = "killed" <=> life[u] = "killed"
  BY <1>5 DEF Living
<1>7. "P" \in Task /\ "C1" \in Task /\ "C2" \in Task /\ Child \subseteq Task
  BY DEF Task, Child
<1>8. PlaceInv'
  <2>1. Placed(T, pc, alt, life)'
    BY <1>1, <1>2, <1>5, <1>6, <1>7 DEF Placed
  <2>2. ToCome(T, pc, life)'
    <3>1. \A k \in 1..Len(T.P) : T.P[k].op \in Births => T.P[k].who \in Task
      <4>1. SuiteOK(T)
        BY <1>2, SuiteLemma DEF Picked, Traits
      <4>. QED  BY <1>7, <4>1 DEF SuiteOK, TextOK, Proper, StepOK
    <3>. QED  BY <1>1, <1>2, <1>6, <1>7, <3>1 DEF ToCome
  <2>3. Picked'
    BY <1>1, <1>2 DEF Picked
  <2>. QED  BY <2>1, <2>2, <2>3 DEF PlaceInv
<1>9. SemInv(T, pc, sem)'
  BY <1>1, <1>2
<1>10. CPU' = CPU
  BY <1>1 DEF CPU, ncpu
<1>11. Wheres(CPU, aff, cpu, run)'
  <2>1. run \in [CPU -> Task \union {"idle"}] /\ cpu \in [Task -> CPU]
    BY <1>2 DEF Wheres
  <2>2. UNCHANGED run \/ run' = [run EXCEPT ![cpu[t]] = t]
    BY DEF Dispatch, Wake, where
  <2>3. run' \in [CPU -> Task \union {"idle"}]
    BY <2>1, <2>2
  <2>. QED  BY <1>1, <1>2, <1>10, <2>3 DEF Wheres
<1>12. Locals(CPU, reg, core)' /\ Shared(flag, block, val)'
  BY <1>1, <1>2, <1>10
<1>13. Owned(life, threads, pipe)'
  BY <1>1, <1>2, <1>6, <1>7 DEF Owned
<1>14. Ended(life, end)'
  BY <1>1, <1>2, <1>6, <1>7 DEF Ended
<1>15. FreeInv'
  <2>1. SUFFICES ASSUME fault # "create" PROVE ~stray' /\ ThreadsInv(test, pc, alt, life', threads, block)
    BY <1>1 DEF FreeInv
  <2>2. ~stray /\ ThreadsInv(test, pc, alt, life, threads, block)
    BY <1>2, <2>1 DEF FreeInv
  <2>3. ThreadsInv(test, pc, alt, life', threads, block)
    BY <1>6, <1>7, <2>2 DEF ThreadsInv
  <2>. QED  BY <1>1, <2>2, <2>3
<1>16. TurnInv'
  <2>1. /\ Lines(log)
        /\ test = "time_sharing" =>
             /\ pc["P"] <= 3 => life'["C1"] = "unborn"
             /\ ~mapped => pc["P"] \in {2, 3} /\ log = <<>> /\ (life'["P"] \in Living => pc["P"] <= 2)
             /\ mapped => Turns(pc["P"], pc["C1"], reg["P"].i, reg["C1"].i, flag, Len(log))
             /\ end = "order" => pc["P"] = 18 /\ mapped
    BY <1>2, <1>6, <1>7 DEF TurnInv
  <2>. QED  BY <1>1, <2>1 DEF TurnInv
<1>17. SigInv'
  <2>1. HandOK(hand, sig)' /\ (fault # "mmap" => mapped)'
    BY <1>1, <1>2 DEF SigInv
  <2>2. Unkilled'
    BY <1>1, <1>2, <1>6 DEF SigInv, Unkilled
  <2>3. ASSUME test \in {"set008", "set009"}
        PROVE  MigrateInv(pc["P"], pc["C1"], hand["P"]["USR2"], hand["C1"]["USR1"], sig["P"], life'["C1"])
    <3>1. MigrateInv(pc["P"], pc["C1"], hand["P"]["USR2"], hand["C1"]["USR1"], sig["P"], life["C1"])
      BY <1>2, <2>3 DEF SigInv
    <3>. QED  BY <1>6, <1>7, <3>1 DEF MigrateInv
  <2>4. ASSUME test = "set010", fault = "none"
        PROVE  PairInv(pc["P"], pc["C1"], pc["C2"], alt["P"], hand["P"]["USR2"], hand["C1"]["USR1"], hand["C2"]["USR1"], sig["P"],
                       pipe["c2p"], life'["P"], life'["C1"], life'["C2"])
    <3>1. PairInv(pc["P"], pc["C1"], pc["C2"], alt["P"], hand["P"]["USR2"], hand["C1"]["USR1"], hand["C2"]["USR1"], sig["P"],
                  pipe["c2p"], life["P"], life["C1"], life["C2"])
      BY <1>2, <2>4 DEF SigInv
    <3>. QED  BY <1>6, <1>7, <3>1 DEF PairInv
  <2>. QED  BY <1>1, <2>1, <2>2, <2>3, <2>4 DEF SigInv
<1>. QED  BY <1>8, <1>9, <1>11, <1>12, <1>13, <1>14, <1>15, <1>16, <1>17 DEF IInv, TypeInv

\* Whatever happens keeps it.
LEMMA NextIInv == IInv /\ [Next]_vars => IInv'
<1>. SUFFICES ASSUME IInv, [Next]_vars PROVE IInv'
  OBVIOUS
<1>1. CASE UNCHANGED vars
  <2>1. /\ UNCHANGED <<test, T, num_of_cpus, kind, fault, pc, alt, reg, life, val, threads, aff, cpu, run, hand, sig, pipe, sem>>
        /\ UNCHANGED <<flag, mapped, core, waiting, block, stray, log, end>>
    BY <1>1 DEF vars, chosen, where, signals, channels, memory
  <2>2. CPU' = CPU
    BY <2>1 DEF CPU, ncpu
  <2>3. PlaceInv' /\ TypeInv' /\ SemInv(T, pc, sem)'
    BY <2>1, <2>2 DEF IInv, PlaceInv, Picked, TypeInv
  <2>4. FreeInv' /\ TurnInv'
    BY <2>1 DEF IInv, FreeInv, TurnInv
  <2>5. SigInv'
    BY <2>1 DEF IInv, SigInv, Unkilled
  <2>. QED  BY <2>3, <2>4, <2>5 DEF IInv
<1>2. CASE \E t \in Task : Step(t) \/ Dispatch(t) \/ Wake(t)
  BY <1>2, StepIInv, KernelIInv
<1>. QED  BY <1>1, <1>2 DEF Next, Stays

\* The tasks of every test stay in their programs, with the types of their state, the semaphores, the block of
\* cpu_thread_limits, the turns of time_sharing and the signals of sched_setaffinity 008 to 010 in order.
THEOREM Invariance == Spec => []IInv
<1>1. Init => IInv
  BY InitIInv
<1>2. IInv /\ [Next]_vars => IInv'
  BY NextIInv
<1>. QED  BY <1>1, <1>2, PTL DEF Spec

\* Every variable keeps its type: no task runs past the end of its program, no semaphore is above 1 or below 0, and an
\* end of a pipe is held by a live process only.
THEOREM TypeCorrect == Spec => []TypeOK
<1>1. IInv => TypeOK
  <2>. SUFFICES ASSUME IInv PROVE TypeOK
    OBVIOUS
  <2>1. /\ SemInv(T, pc, sem) /\ Placed(T, pc, alt, life)
        /\ Wheres(CPU, aff, cpu, run) /\ Locals(CPU, reg, core) /\ Owned(life, threads, pipe) /\ Ended(life, end) /\ Shared(flag, block, val)
    BY DEF IInv, TypeInv, PlaceInv
  <2>2. \A t \in Task : Alive(t) <=> life[t] \in Living
    BY DEF Alive, Living
  <2>3. \A t \in Task : /\ life[t] \in {"unborn", "alive", "asleep", "done", "killed"} /\ val[t] \in {0, 1}
                        /\ aff[t] \subseteq CPU /\ cpu[t] \in CPU
                        /\ pc[t] \in 1..(Len(T[t]) + 1) /\ (Alive(t) => pc[t] <= Len(T[t]))
    BY <2>1, <2>2 DEF Placed, Wheres, Shared, Lives, Living
  <2>4. (\A c \in CPU : run[c] \in Task \union {"idle"}) /\ core \in CPU \union {-1}
    BY <2>1 DEF Wheres, Locals
  <2>5. \A s \in Sems : sem[s] \in 0..1
    BY <2>1 DEF SemInv
  <2>6. \A p \in Pipes : pipe[p].r \union pipe[p].w \subseteq {t \in Task : Alive(t)}
    BY <2>1, <2>2 DEF Owned
  <2>7. flag \in 0..2 /\ block \in {"live", "freed"}
    BY <2>1 DEF Shared
  <2>8. end \in {"none", "ok", "ng", "dead", "order"} /\ (end = "none" <=> Alive("P"))
    BY <2>1, <2>2 DEF Ended, Task
  <2>. QED  BY <2>3, <2>4, <2>5, <2>6, <2>7, <2>8 DEF TypeOK
<1>. QED  BY <1>1, Invariance, PTL

\* As long as pthread_create() works, cpu_thread_limits frees the block of its threads when none uses it any more.
THEOREM BlockFreedLast == Spec => []FreedLast
<1>1. IInv => FreedLast
  BY DEF IInv, FreeInv, FreedLast
<1>. QED  BY <1>1, Invariance, PTL

\* For every number of rounds, time_sharing prints the lines of its child and its parent in turns, and all of them by
\* the time it returns.
THEOREM TurnsAlternate == Spec => []Alternates
<1>1. IInv => Alternates
  <2>. SUFFICES ASSUME IInv PROVE Alternates
    OBVIOUS
  <2>1. TurnInv /\ Lines(log)
    BY DEF IInv, TurnInv
  <2>2. \A k \in DOMAIN log : log[k] = IF k % 2 = 1 THEN "C1" ELSE "P"
    BY <2>1 DEF Lines
  <2>3. ASSUME test = "time_sharing", end = "order" PROVE Len(log) = 2 * ROUNDS
    <3>1. pc["P"] = 18 /\ Turns(pc["P"], pc["C1"], reg["P"].i, reg["C1"].i, flag, Len(log))
      BY <2>1, <2>3 DEF TurnInv
    <3>. QED  BY <3>1, TurnsCount
  <2>. QED  BY <2>2, <2>3 DEF Alternates
<1>. QED  BY <1>1, Invariance, PTL

\* On a good kernel every signal that a test sends to wake a task finds its handler, in whatever order the tasks run.
THEOREM SignalsReachHandlers == Spec => []SignalsAreCaught
<1>1. IInv => SignalsAreCaught
  BY DEF IInv, SigInv, Unkilled, SignalsAreCaught, Good
<1>. QED  BY <1>1, Invariance, PTL
=============================================================================
