------------------------------- MODULE Mremap -------------------------------
(***************************************************************************)
(* A test of mremap_mmap_anon at work: mremap_mmap_anon() lays the ranges  *)
(* out in the address space, RUN_FUNC() calls mremap() and looks at the    *)
(* result, and util/run.sh gives the verdict (check/page_fault.sh for the  *)
(* tests that end in a fault, result_is_ok.sh for the others).             *)
(*                                                                         *)
(* The kernel is external: it follows mremap(2), placing what it may place *)
(* anywhere, except for the one thing named by `fault', which it refuses   *)
(* or does wrongly.                                                        *)
(***************************************************************************)
EXTENDS MremapProgs, FiniteSets

CONSTANT Cases   \* pairs of a test and a fault of the kernel

\* Calls that may fail, and ways to get mremap() wrong.
CallFaults == {"mmap", "munmap", "sigaction"}
MremapFaults == {"refuse", "nodata", "keepold", "keeptail", "overlap", "grab", "short", "clobber",
                 "elsewhere", "zerofill", "lost"}

ASSUME CasesAssumption ==
  \A c \in Cases : c.test \in DOMAIN Suite /\ c.fault \in {"none"} \union CallFaults \union MremapFaults

VARIABLES
  test,      \* the number of the test
  T,         \* what it is made of: Suite[test]
  fault,     \* what this kernel gets wrong, or "none"
  vm,        \* the address space, page by page
  addr,      \* params[].addr, by index from 0; -1 is MAP_FAILED
  pc,        \* "reserve", "format", "remap", "check", "judge", "over"
  i,         \* index of the loop of mremap_mmap_anon(), then of the next check
  cur,       \* the local variable addr of mremap_mmap_anon()
  remap,     \* what mremap() returned; -1 is MAP_FAILED
  handler,   \* signals with a handler
  end,       \* how the test program ended
  kmsg,      \* the kernel log has a page_fault_handler line
  verdict,   \* of run.sh
  before,    \* history: the address space when mremap() was called
  after      \* history: and when it returned

chosen == <<test, T, fault>>
vars == <<chosen, vm, addr, pc, i, cur, remap, handler, end, kmsg, verdict, before, after>>

Space == 0..(SPACE - 1)
Zero == -1                  \* the content of a fresh page; i is the fill of range i
Pages(a, n) == {(a + k) % SPACE : k \in 0..(n - 1)}
Within(p, a, n) == (p - a) % SPACE < n       \* p \in Pages(a, n)

NoPage == [prot |-> "free", shared |-> FALSE, val |-> 0]
Free(v, a, n) == a + n <= SPACE /\ \A p \in Pages(a, n) : v[p] = NoPage
Fresh(prot, shared) == [prot |-> prot, shared |-> shared, val |-> Zero]
MapPages(v, a, n, page) == [p \in Space |-> IF Within(p, a, n) THEN page ELSE v[p]]

C == T.call

Init ==
  /\ \E c \in Cases : test = c.test /\ T = Suite[c.test] /\ fault = c.fault
  /\ vm = [p \in Space |-> NoPage] /\ before = vm /\ after = vm
  /\ addr = [k \in 0..(Len(T.params) - 1) |-> -1]
  /\ pc = "reserve" /\ i = 0 /\ cur = -1 /\ remap = -1
  /\ handler = {} /\ end = "none" /\ kmsg = FALSE /\ verdict = "none"

Ended(how) == end' = how /\ pc' = "judge"

-----------------------------------------------------------------------------
(* mremap_mmap_anon() *)

total_size == Offset(T.params, Len(T.params))

\* Each params[].addr is MAP_FAILED until its turn comes; a reservation that fails returns 0.
Reserve ==
  /\ pc = "reserve"
  /\ \/ \E a \in Space :
          /\ Free(vm, a, total_size)
          /\ vm' = MapPages(vm, a, total_size, Fresh("none", TRUE))
          /\ cur' = a /\ pc' = "format" /\ UNCHANGED end
     \/ fault = "mmap" /\ Ended("ng") /\ UNCHANGED <<vm, cur>>
  /\ UNCHANGED <<chosen, addr, i, remap, handler, kmsg, verdict, before, after>>

\* '0' + i over a range that is writable
Fill(v, a, k) ==
  IF T.params[k + 1].prot = "rw"
  THEN [p \in Space |-> IF Within(p, a, T.params[k + 1].size) THEN [v[p] EXCEPT !.val = k] ELSE v[p]]
  ELSE v

\* Mutant: a range that is left free does not move addr on.
FormatStands ==
  LET q == T.params[i + 1] IN
  /\ pc = "format"
  /\ addr' = [addr EXCEPT ![i] = cur]
  /\ IF q.nopage
     THEN vm' = MapPages(vm, cur, q.size, NoPage) /\ UNCHANGED cur
     ELSE /\ vm' = Fill(MapPages(vm, cur, q.size, Fresh(q.prot, q.shared)), cur, i)
          /\ cur' = cur + q.size
  /\ i' = IF i + 1 = Len(T.params) THEN 1 ELSE i + 1
  /\ pc' = IF i + 1 = Len(T.params) THEN "remap" ELSE pc
  /\ UNCHANGED <<chosen, remap, handler, end, kmsg, verdict, before, after>>

\* Mutant: for (i = 0; i <= count; i++)
FormatOverruns ==
  LET q == T.params[i + 1] IN
  /\ pc = "format"
  /\ addr' = [addr EXCEPT ![i] = cur]
  /\ vm' = IF q.nopage THEN MapPages(vm, cur, q.size, NoPage)
           ELSE Fill(MapPages(vm, cur, q.size, Fresh(q.prot, q.shared)), cur, i)
  /\ cur' = cur + q.size /\ i' = i + 1
  /\ UNCHANGED <<chosen, pc, remap, handler, end, kmsg, verdict, before, after>>

\* One turn of the loop: munmap(), or mmap(MAP_FIXED) and memset(); a failing call returns
\* i, and the tp_assert(maps == pcount) of the test ends it.
Format ==
  LET q == T.params[i + 1] IN
  /\ pc = "format"
  /\ addr' = [addr EXCEPT ![i] = cur]
  /\ \/ /\ vm' = IF q.nopage THEN MapPages(vm, cur, q.size, NoPage)
                 ELSE Fill(MapPages(vm, cur, q.size, Fresh(q.prot, q.shared)), cur, i)
        /\ cur' = cur + q.size
        /\ i' = IF i + 1 = Len(T.params) THEN 1 ELSE i + 1
        /\ pc' = IF i + 1 = Len(T.params) THEN "remap" ELSE pc
        /\ UNCHANGED end
     \/ fault = (IF q.nopage THEN "munmap" ELSE "mmap") /\ Ended("ng") /\ UNCHANGED <<vm, cur, i>>
  /\ UNCHANGED <<chosen, remap, handler, kmsg, verdict, before, after>>

-----------------------------------------------------------------------------
(* mremap(2), external *)

From == addr[C.from]
To == addr[C.to] + C.off
Overlap == C.flags = "FIXED" /\ Pages(From, C.old) \intersect Pages(To, C.new) # {}

\* A page the block gains: zero, or beyond the end of the shared object.
Gained(v) == [prot |-> IF v[From].shared /\ fault # "zerofill" THEN "bus" ELSE v[From].prot,
              shared |-> v[From].shared, val |-> Zero]

\* The block of old pages at From, in new pages at b.
Moved(v, b) ==
  [p \in Space |->
     IF Within(p, b, C.new)
     THEN CASE fault = "lost" -> NoPage
            [] fault # "lost" /\ (p - b) < C.old ->
                 IF fault = "nodata" /\ b # From /\ p - b = C.old - 1 THEN Fresh("rw", v[From].shared) ELSE v[(From + p - b) % SPACE]
            [] fault # "lost" /\ (p - b) >= C.old -> IF fault = "short" THEN NoPage ELSE Gained(v)
     ELSE IF Within(p, From, C.old)
     THEN IF fault = (IF b = From THEN "keeptail" ELSE "keepold") THEN v[p] ELSE NoPage
     ELSE IF fault = "clobber" /\ C.flags = "FIXED" /\ p = b + C.new THEN [v[p] EXCEPT !.val = Zero]
     ELSE v[p]]

\* A FIXED move unmaps what was in its way.
Failed(errno) == [ret |-> -1, errno |-> errno, vm |-> vm]
Result(v, b) == [ret |-> b, errno |-> "0", vm |-> v]
Grows == C.new > C.old
Room == fault = "grab" \/ Free(vm, From + C.old, C.new - C.old)
Places == {b \in Space : Free(vm, b, C.new)}
Anywhere == IF Places = {} THEN {Failed("ENOMEM")} ELSE {Result(Moved(vm, b), b) : b \in Places}

Outcomes ==
  CASE fault = "refuse" -> {Failed("EPERM")}
    [] fault # "refuse" /\ Overlap /\ fault # "overlap" -> {Failed("EINVAL")}
    [] fault # "refuse" /\ C.flags = "FIXED" /\ (Overlap => fault = "overlap") ->
         IF fault = "elsewhere" THEN Anywhere ELSE {Result(Moved(vm, To), To)}
    [] fault # "refuse" /\ C.flags # "FIXED" /\ C.old = C.new ->
         {Result(IF fault = "lost" THEN MapPages(vm, From, 1, NoPage) ELSE vm, From)}
    [] fault # "refuse" /\ C.flags # "FIXED" /\ C.old # C.new /\ (Grows => Room) -> {Result(Moved(vm, From), From)}
    [] fault # "refuse" /\ C.flags = "MAYMOVE" /\ Grows /\ ~Room -> Anywhere
    [] fault # "refuse" /\ C.flags = "0" /\ Grows /\ ~Room -> {Failed("ENOMEM")}

-----------------------------------------------------------------------------
(* RUN_FUNC() *)

\* tp_assert() on the result: an address, naddr itself for MREMAP_FIXED, or the errno.
AsExpected(r) ==
  IF T.expect = "ok" THEN IF C.flags = "FIXED" THEN r.ret = To ELSE r.ret # -1
  ELSE r.ret = -1 /\ r.errno = T.expect

CallMremap ==
  /\ pc = "remap"
  /\ \E r \in Outcomes :
       /\ vm' = r.vm /\ remap' = r.ret /\ before' = vm /\ after' = r.vm
       /\ IF ~AsExpected(r) THEN Ended("ng")
          ELSE IF T.checks = << >> THEN Ended("ok")
          ELSE pc' = "check" /\ UNCHANGED end
  /\ UNCHANGED <<chosen, addr, i, cur, handler, kmsg, verdict>>

At(x) == (IF x.base = -1 THEN remap ELSE addr[x.base]) + x.off
Check == T.checks[i]
First == At(Check.at)

\* The end of a check that went well; a probe that did not fault is an error.
Passed ==
  IF i < Len(T.checks) THEN i' = i + 1 /\ UNCHANGED <<pc, end>>
  ELSE Ended(IF Check.op = "touch" THEN "ng" ELSE "ok") /\ UNCHANGED i

\* A bad access: the handler calls exit(0), the default action kills.
Faults(p) ==
  /\ kmsg' = TRUE
  /\ Ended(IF (IF vm[p].prot = "bus" THEN "BUS" ELSE "SEGV") \in handler THEN "handled" ELSE "killed")
  /\ UNCHANGED i

Readable(p) == vm[p].prot \in {"r", "rw"}

\* Mutant: the comparison stops a page short.
DataOkShort(k) == k = Check.len - 1 \/ vm[(First + k) % SPACE].val = Check.exp
DataOk(k) == vm[(First + k) % SPACE].val = Check.exp

\* mremap_mmap_anon_data_check(): byte by byte up to the first that differs or faults
DataCheck ==
  LET page(k) == (First + k) % SPACE
      stops(k) == ~Readable(page(k)) \/ ~DataOk(k)
  IN
  /\ pc = "check" /\ Check.op = "data"
  /\ \/ (\A k \in 0..(Check.len - 1) : ~stops(k)) /\ Passed /\ UNCHANGED kmsg
     \/ \E k \in 0..(Check.len - 1) :
          /\ stops(k) /\ \A j \in 0..(k - 1) : ~stops(j)
          /\ IF Readable(page(k)) THEN Ended("ng") /\ UNCHANGED <<i, kmsg>> ELSE Faults(page(k))
  /\ UNCHANGED <<chosen, vm, addr, cur, remap, handler, verdict, before, after>>

\* mremap_mmap_anon_access_check(): first byte, last byte, then all of them
AccessCheck ==
  LET page(k) == (First + k) % SPACE
      bad(k) == vm[page(k)].prot # "rw"
      ks == 0..(Check.len - 1)
  IN
  /\ pc = "check" /\ Check.op = "access"
  /\ \/ /\ \A k \in ks : ~bad(k)
        /\ vm' = [p \in Space |-> IF Within(p, First, Check.len) THEN [vm[p] EXCEPT !.val = 0] ELSE vm[p]]
        /\ Passed /\ UNCHANGED kmsg
     \/ \E k \in ks :
          /\ bad(k) /\ k = (IF bad(0) THEN 0 ELSE IF bad(Check.len - 1) THEN Check.len - 1 ELSE k)
          /\ Faults(page(k)) /\ UNCHANGED vm
  /\ UNCHANGED <<chosen, addr, cur, remap, handler, verdict, before, after>>

\* mremap_mmap_anon_setup_signal_handler()
SetHandler ==
  /\ pc = "check" /\ Check.op = "handler"
  /\ \/ handler' = handler \union {Check.exp} /\ Passed
     \/ fault = "sigaction" /\ Ended("ng") /\ UNCHANGED <<handler, i>>
  /\ UNCHANGED <<chosen, vm, addr, cur, remap, kmsg, verdict, before, after>>

\* ch = *addr
TouchPage ==
  /\ pc = "check" /\ Check.op = "touch"
  /\ IF Readable(First) THEN Passed /\ UNCHANGED kmsg ELSE Faults(First)
  /\ UNCHANGED <<chosen, vm, addr, cur, remap, handler, verdict, before, after>>

-----------------------------------------------------------------------------
(* run.sh: the scripts mremap_mmap_anon.NNN.sh of check/ source page_fault.sh for the  *)
(* tests that end in a probe.                                                          *)

Probes == \E k \in DOMAIN T.checks : T.checks[k].op = "touch"

GoodRun == IF Probes THEN kmsg ELSE end = "ok"

Judge ==
  /\ pc = "judge" /\ pc' = "over"
  /\ verdict' = IF GoodRun THEN "ok" ELSE "ng"
  /\ UNCHANGED <<chosen, vm, addr, i, cur, remap, handler, end, kmsg, before, after>>

Over == pc = "over" /\ UNCHANGED vars

Next == Reserve \/ Format \/ CallMremap \/ DataCheck \/ AccessCheck \/ SetHandler \/ TouchPage \/ Judge \/ Over
Spec == Init /\ [][Next]_vars

-----------------------------------------------------------------------------
(* Correctness *)

\* Every variable keeps its type, and the loops stay inside their arrays.
TypeOK ==
  /\ test \in DOMAIN Suite /\ DOMAIN addr = 0..(Len(T.params) - 1)
  /\ pc \in {"reserve", "format", "remap", "check", "judge", "over"}
  /\ pc = "format" => i \in 0..(Len(T.params) - 1)
  /\ pc = "check" => i \in 1..Len(T.checks)
  /\ \A k \in DOMAIN addr : addr[k] \in {-1} \union Space
  /\ remap \in {-1} \union Space /\ cur \in -1..SPACE
  /\ \A p \in Space : vm[p].prot \in {"free", "none", "r", "rw", "bus"}
  /\ end \in {"none", "ok", "ng", "handled", "killed"} /\ verdict \in {"none", "ok", "ng"}

\* When mremap() is called the address space is the one the test has described: the ranges lie
\* one after the other, each with its protection and its fill, and the free ones are free.
LayoutHolds ==
  pc = "remap" =>
    \A k \in DOMAIN addr :
      LET q == T.params[k + 1] IN
      /\ addr[k] = addr[0] + Offset(T.params, k)
      /\ \A p \in Pages(addr[k], q.size) :
           IF q.nopage THEN vm[p] = NoPage
           ELSE vm[p].prot = q.prot /\ vm[p].shared = q.shared /\ (q.prot = "rw" => vm[p].val = k)

\* On a kernel that follows mremap(2) every test passes, in its own eyes and in those of run.sh,
\* wherever the kernel places the reservation and a block that may move.
NoFlake == fault = "none" => end \notin {"ng", "killed"} /\ verdict # "ng"

\* What a passing test has shown of the state mremap() left behind.
BlockMoved == \A k \in 0..(IF Grows THEN C.old - 1 ELSE C.new - 1) :
                after[(remap + k) % SPACE] = before[(From + k) % SPACE]
GainedIsThere == Grows /\ "SEGV" \notin handler => after[remap + C.new - 1].prot = IF before[From].shared THEN "bus" ELSE "rw"
LostIsGone ==
  /\ Probes /\ C.new < C.old => after[remap + C.new] = NoPage
  /\ Probes /\ (C.flags = "FIXED" \/ (C.flags = "MAYMOVE" /\ "SEGV" \in handler)) => after[From] = NoPage
RestIsThere == C.flags = "FIXED" /\ before[To].prot = "rw" => after[To + C.new] = before[To + C.new]

Shown ==
  IF T.expect = "ok" THEN BlockMoved /\ GainedIsThere /\ LostIsGone /\ RestIsThere
  ELSE remap = -1 /\ fault # "refuse"

\* A test that passes has seen mremap() do its work, whatever the kernel gets wrong: the block
\* arrived whole, the pages it gained are there, the pages the test probes are gone, the rest
\* of a mapping that was partly replaced is intact; and a call that had to fail did so with
\* its errno.  So has a test that run.sh passes, except one that ends in a probe and was killed
\* by an earlier fault, since check/page_fault.sh takes any.
PassIsEarned ==
  /\ end \in {"ok", "handled"} => Shown
  /\ verdict = "ok" => Shown \/ (Probes /\ end = "killed")

\* A test that ends in its signal handler was at its probe: nothing that goes wrong
\* earlier in the test is taken for the fault it is waiting for.
HandledAtProbe == end = "handled" => T.checks[i].op = "touch"
=============================================================================
