------------------------------ MODULE MCSched ------------------------------
(* The scheduling tests on up to three CPUs, with and without time sharing, on a good kernel and on kernels with one fault. *)
EXTENDS Sched

\* The faults a test can meet
Ops(c) == UNION {{s.op : s \in Range(Suite(c.n)[c.test][t])} : t \in Task}
Tries(c) == UNION {{s.what : s \in {r \in Range(Suite(c.n)[c.test][t]) : r.op = "try"}} : t \in Task}
CanMeet(c) ==
  \/ c.fault = "none" \/ c.fault \in Tries(c)
  \/ c.fault \in {"fork", "create", "pipe"} \intersect Ops(c)
  \/ c.fault = "mmap" /\ "mapflag" \in Ops(c)
  \/ c.fault \in {"refuse", "lax", "nomove", "wrongtask"} /\ "setaff" \in Ops(c)
  \/ c.fault \in {"getrefuse", "lax"} /\ "getaff" \in Ops(c)
  \/ c.fault = "noinherit" /\ "fork" \in Ops(c)
  \/ c.fault = "badyield" /\ "yield" \in Ops(c)

\* One CPU is enough where the tasks of a CPU interleave freely and the test does not look at CPUs,
\* two are where it does and asks for no more.
Worthwhile(c) ==
  /\ c.kind = "share" => \/ c.n <= 1
                         \/ c.n = 2 /\ c.test \notin {"procs000", "threads000", "threads001"}
                         \/ c.n = 3 /\ c.test \in {"set008", "set009"}
  /\ c.test = "procs000" => c.n <= 2
  /\ c.kind = "share" => \E t \in Child : Suite(c.n)[c.test][t] # None

MCCases ==
  {c \in [test : DOMAIN Suite(0), fault : {"none"} \union Faults, kind : {"coop", "share"}, n : 0..MaxCpus] :
     ~Undefined(c) /\ CanMeet(c) /\ Worthwhile(c)}
=============================================================================
