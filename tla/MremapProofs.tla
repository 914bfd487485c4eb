---------------------------- MODULE MremapProofs ----------------------------
(***************************************************************************)
(* Proofs about a test of mremap_mmap_anon at work (module Mremap), for    *)
(* every test of the suite, every size of the ranges and of the address    *)
(* space, every place the kernel may choose and every fault of Mremap.     *)
(*                                                                         *)
(* The argument follows the test: the loop lays out the ranges (Layout),   *)
(* mremap() with the result the test expects leaves one of a few states    *)
(* behind (Delivery), each check that goes well rules some of them out     *)
(* (Seen), and what is left at the end is what the test stands for         *)
(* (Earned).                                                               *)
(*                                                                         *)
(* The first part is about the 68 tests alone: each is well made           *)
(* (WellMade), that is, its call is one of five kinds that must succeed or *)
(* one of two that must fail, and its checks are the ones that kind of     *)
(* call calls for.  The rest needs no more of the tests than that.         *)
(***************************************************************************)
EXTENDS Mremap, TLAPS

-----------------------------------------------------------------------------
(* Arithmetic of the address space *)

\* The pages are numbered from 0.
LEMMA SpacePos == SPACE \in Nat /\ SPACE > 0 /\ Space = 0..(SPACE - 1)
  BY SizesAssumption DEF Space

\* The remainder of an address that is inside the space, a turn below it, a turn above it.
LEMMA ModLaws ==
  ASSUME NEW x \in Int
  PROVE  /\ x % SPACE \in Space
         /\ 0 <= x /\ x < SPACE => x % SPACE = x
         /\ -SPACE <= x /\ x < 0 => x % SPACE = x + SPACE
<1>1. x % SPACE \in Space
  BY SpacePos
<1>2. 0 <= x /\ x < SPACE => x % SPACE = x
  BY SpacePos
<1>3. -SPACE <= x /\ x < 0 => x % SPACE = x + SPACE
  BY SpacePos
<1>. QED  BY <1>1, <1>2, <1>3

\* A run of pages that does not wrap holds the pages between its ends.
LEMMA WithinLaw ==
  ASSUME NEW p \in Space, NEW a \in Space, NEW n \in Nat, a + n <= SPACE
  PROVE  Within(p, a, n) <=> a <= p /\ p < a + n
<1>1. CASE a <= p
  <2>1. (p - a) % SPACE = p - a
    BY <1>1, ModLaws, SpacePos
  <2>. QED  BY <1>1, <2>1, SpacePos DEF Within
<1>2. CASE p < a
  <2>1. (p - a) % SPACE = p - a + SPACE
    BY <1>2, ModLaws, SpacePos
  <2>. QED  BY <1>2, <2>1, SpacePos DEF Within
<1>. QED  BY <1>1, <1>2, SpacePos

\* The pages of a range that does not wrap, as an interval.
LEMMA PagesLaw ==
  ASSUME NEW a \in Space, NEW n \in Nat, a + n <= SPACE
  PROVE  Pages(a, n) = a..(a + n - 1)
<1>1. ASSUME NEW k \in 0..(n - 1)
      PROVE  (a + k) % SPACE = a + k
  BY ModLaws, SpacePos
<1>2. Pages(a, n) = {a + k : k \in 0..(n - 1)}
  BY <1>1 DEF Pages
<1>3. ASSUME NEW p \in a..(a + n - 1)
      PROVE  p \in {a + k : k \in 0..(n - 1)}
  <2>1. p - a \in 0..(n - 1) /\ p = a + (p - a)
    BY SpacePos
  <2>. QED  BY <2>1
<1>. QED  BY <1>2, <1>3, SpacePos

\* Offset() without recursion, for as many ranges as a test may have.
Sum(q, k) ==
  CASE k = 0 -> 0
    [] k = 1 -> q[1].size
    [] k = 2 -> q[1].size + q[2].size
    [] k = 3 -> q[1].size + q[2].size + q[3].size
    [] k = 4 -> q[1].size + q[2].size + q[3].size + q[4].size
    [] k = 5 -> q[1].size + q[2].size + q[3].size + q[4].size + q[5].size

\* One more range is one more size.
LEMMA SumStep ==
  ASSUME NEW q, NEW n \in 0..5, \A k \in 1..n : q[k].size \in Nat
  PROVE  /\ \A k \in 0..n : Sum(q, k) \in Nat
         /\ \A k \in 1..n : Sum(q, k) = Sum(q, k - 1) + q[k].size
<1>1. \A k \in 0..n : Sum(q, k) \in Nat
  BY DEF Sum
<1>2. ASSUME NEW k \in 1..n
      PROVE  Sum(q, k) = Sum(q, k - 1) + q[k].size
  <2>1. k \in {1, 2, 3, 4, 5} /\ \A j \in 1..k : q[j].size \in Nat
    OBVIOUS
  <2>. QED  BY <2>1 DEF Sum
<1>. QED  BY <1>1, <1>2

\* The recursive function of Offset() computes the sum.
LEMMA OffsetIsSum ==
  ASSUME NEW q, NEW n \in 0..5, \A k \in 1..n : q[k].size \in Nat
  PROVE  Offset(q, n) = Sum(q, n)
<1>. DEFINE f == [k \in 0..n |-> Sum(q, k)]
            sum[k \in 0..n] == IF k = 0 THEN 0 ELSE sum[k - 1] + q[k].size
<1>1. f = [k \in 0..n |-> IF k = 0 THEN 0 ELSE f[k - 1] + q[k].size]
  <2>1. \A k \in 0..n : k # 0 => k - 1 \in 0..n /\ f[k - 1] = Sum(q, k - 1)
    OBVIOUS
  <2>2. \A k \in 0..n : Sum(q, k) = IF k = 0 THEN 0 ELSE f[k - 1] + q[k].size
    <3>1. Sum(q, 0) = 0
      BY DEF Sum
    <3>2. \A k \in 1..n : Sum(q, k) = Sum(q, k - 1) + q[k].size
      BY SumStep
    <3>. QED  BY <2>1, <3>1, <3>2
  <2>. QED  BY <2>2
<1>2. sum = [k \in 0..n |-> IF k = 0 THEN 0 ELSE sum[k - 1] + q[k].size]
  BY <1>1
<1>. HIDE DEF sum, f
<1>3. sum[n] = Sum(q, n)
  <2>1. sum[0] = 0 /\ \A k \in 1..n : sum[k] = sum[k - 1] + q[k].size
    BY <1>2
  <2>2. /\ n >= 1 => sum[1] = q[1].size
        /\ n >= 2 => sum[2] = sum[1] + q[2].size
        /\ n >= 3 => sum[3] = sum[2] + q[3].size
        /\ n >= 4 => sum[4] = sum[3] + q[4].size
        /\ n >= 5 => sum[5] = sum[4] + q[5].size
    BY <2>1
  <2>. QED  BY <2>1, <2>2 DEF Sum
<1>. QED  BY <1>3 DEF Offset, sum

\* The ranges follow one another without a gap.
LEMMA OffsetSteps ==
  ASSUME NEW q, NEW n \in 0..5, \A k \in 1..n : q[k].size \in Nat
  PROVE  /\ Offset(q, 0) = 0
         /\ \A k \in 0..n : Offset(q, k) \in Nat
         /\ \A k \in 0..(n - 1) : Offset(q, k + 1) = Offset(q, k) + q[k + 1].size
         /\ \A j, k \in 0..n : j < k => Offset(q, j) + q[j + 1].size <= Offset(q, k)
<1>1. ASSUME NEW k \in 0..n
      PROVE  Offset(q, k) = Sum(q, k)
  <2>1. k \in 0..5 /\ \A j \in 1..k : q[j].size \in Nat
    OBVIOUS
  <2>. QED  BY <2>1, OffsetIsSum
<1>2. \A k \in 0..(n - 1) : Sum(q, k + 1) = Sum(q, k) + q[k + 1].size
  <2>1. \A k \in 0..(n - 1) : k + 1 \in 1..n /\ (k + 1) - 1 = k
    OBVIOUS
  <2>. QED  BY <2>1, SumStep
<1>3. \A j, k \in 0..n : j < k => Sum(q, j) + q[j + 1].size <= Sum(q, k)
  BY DEF Sum
<1>4. Sum(q, 0) = 0
  BY DEF Sum
<1>. QED  BY <1>1, <1>2, <1>3, <1>4, SumStep

-----------------------------------------------------------------------------
(* What the tests of the suite have in common *)

\* The range a call starts from, the one after it, and where the call goes, from params[0].addr.
Source(t) == t.params[t.call.from + 1]
Neighbour(t) == t.params[t.call.from + 2]
Start(t) == Offset(t.params, t.call.from)
Dest(t) == Offset(t.params, t.call.to) + t.call.off
Whole(t) == Offset(t.params, Len(t.params))

\* Tests lay out one to five ranges and give mremap() addresses inside of them.
Described(t) ==
  /\ DOMAIN t = {"params", "call", "expect", "checks"}
  /\ Len(t.params) \in 1..5 /\ DOMAIN t.params = 1..Len(t.params)
  /\ \A k \in 1..Len(t.params) :
       /\ DOMAIN t.params[k] = {"size", "nopage", "prot", "shared"}
       /\ t.params[k].size \in Nat \ {0} /\ t.params[k].prot \in {"none", "r", "rw"}
  /\ t.call.from \in 0..(Len(t.params) - 1) /\ t.call.to \in 0..(Len(t.params) - 1)
  /\ t.call.old \in Nat \ {0} /\ t.call.new \in Nat \ {0}
  /\ t.call.off \in Nat /\ t.call.off < t.params[t.call.to + 1].size
  /\ t.call.flags \in {"0", "MAYMOVE", "FIXED"}

\* The five kinds of calls, and the two that must fail.
SameSize(t) == t.call.flags = "0" /\ t.call.new = t.call.old
Shrinks(t) == t.call.flags = "0" /\ t.call.old = Source(t).size /\ t.call.new < t.call.old
GrowsInPlace(t) ==
  /\ t.call.flags = "0" /\ t.call.old = Source(t).size /\ t.call.new > t.call.old
  /\ t.call.from + 1 < Len(t.params) /\ Neighbour(t).nopage
  /\ t.call.new - t.call.old <= Neighbour(t).size
HemmedIn(t) ==
  /\ t.call.old = Source(t).size /\ t.call.new > t.call.old
  /\ t.call.from + 1 < Len(t.params) /\ ~Neighbour(t).nopage
MustMove(t) ==
  /\ t.call.flags = "MAYMOVE" /\ HemmedIn(t)
  /\ Start(t) + t.call.new <= Whole(t) /\ Whole(t) + 2 * t.call.new <= SPACE
MovesTo(t) ==
  /\ t.call.flags = "FIXED" /\ t.call.new = t.call.old /\ t.call.old = Source(t).size
  /\ Dest(t) + t.call.new <= Whole(t)
  /\ Dest(t) + t.call.new <= Start(t) \/ Start(t) + t.call.old <= Dest(t)
Collides(t) ==
  /\ t.call.flags = "FIXED"
  /\ Start(t) < Dest(t) + t.call.new /\ Dest(t) < Start(t) + t.call.old

CallFits(t) ==
  /\ t.expect \in {"ok", "ENOMEM", "EINVAL"}
  /\ t.expect = "ENOMEM" => t.call.flags = "0" /\ HemmedIn(t)
  /\ t.expect = "EINVAL" => Collides(t)
  /\ t.expect = "ok" =>
       /\ Source(t).prot = "rw" /\ ~Source(t).nopage
       /\ SameSize(t) \/ Shrinks(t) \/ GrowsInPlace(t) \/ MustMove(t) \/ MovesTo(t)

\* What each check may be, in a test whose ranges are shared or not.
AtRemap(x, off) == x.at.base = -1 /\ x.at.off = off
BlockLen(t) == IF t.call.old = t.call.new THEN Source(t).size
               ELSE IF t.call.old < t.call.new THEN t.call.old ELSE t.call.new
DataFits(t, x, k) ==
  \/ k = 1 /\ AtRemap(x, 0) /\ x.len = BlockLen(t) /\ x.exp = t.call.from
  \/ /\ k = 2 /\ MovesTo(t) /\ x.at.base = t.call.to /\ x.exp = t.call.to
     /\ Start(t) + t.call.old <= Dest(t) /\ t.call.off = 0 /\ x.at.off = t.call.new
     /\ x.len \in Nat \ {0} /\ x.at.off + x.len <= t.params[t.call.to + 1].size
     /\ t.params[t.call.to + 1].prot = "rw" /\ ~t.params[t.call.to + 1].nopage
AccessFits(t, x, k, shared) ==
  /\ k = Len(t.checks) /\ AtRemap(x, 0)
  /\ x.len = (IF t.call.old < t.call.new THEN t.call.new ELSE BlockLen(t))
  /\ t.call.old < t.call.new => ~shared
ProbeFits(t, x, sig, shared) ==
  \/ AtRemap(x, t.call.new) /\ Shrinks(t) /\ sig = "SEGV"
  \/ AtRemap(x, t.call.old) /\ (GrowsInPlace(t) \/ MustMove(t)) /\ shared /\ sig = "BUS"
  \/ /\ x.at.base = t.call.from /\ x.at.off = 0 /\ sig = "SEGV"
     /\ MustMove(t) \/ (MovesTo(t) /\ t.params[t.call.to + 1].nopage)

CheckFits(t, k, shared) ==
  LET x == t.checks[k] IN
  /\ x.op \in {"data", "access", "handler", "touch"}
  /\ x.op = "data" => DataFits(t, x, k)
  /\ x.op = "access" => AccessFits(t, x, k, shared)
  /\ x.op = "handler" => k + 1 = Len(t.checks) /\ t.checks[k + 1].op = "touch"
  /\ x.op = "touch" =>
       /\ k = Len(t.checks) /\ k > 1 /\ t.checks[k - 1].op = "handler"
       /\ ProbeFits(t, x, t.checks[k - 1].exp, shared)

\* A test of a call that must fail has no checks; the others look at the block first, and at
\* the end use all of it or probe a page that has gone.
ChecksFit(t, shared) ==
  /\ DOMAIN t.checks = 1..Len(t.checks)
  /\ IF t.expect = "ok" THEN Len(t.checks) \in 2..3 ELSE t.checks = << >>
  /\ t.expect = "ok" => t.checks[1].op = "data" /\ t.checks[Len(t.checks)].op \in {"access", "touch"}
  /\ t.expect = "ok" /\ t.call.flags = "FIXED" => t.params[t.call.to + 1].nopage \/ t.checks[2].op = "data"
  /\ \A k \in 1..Len(t.checks) : CheckFits(t, k, shared)

Fits(t, shared) == Described(t) /\ CallFits(t) /\ ChecksFit(t, shared)
WellMade(t) == Fits(t, Source(t).shared)

-----------------------------------------------------------------------------
(* Every test of the suite is one of these *)

\* Where the ranges lie in a list of two to five.
LEMMA Two ==
  ASSUME NEW q, q[1].size \in Nat, q[2].size \in Nat
  PROVE  /\ Offset(q, 0) = 0
         /\ Offset(q, 1) = q[1].size
         /\ Offset(q, 2) = q[1].size + q[2].size
<1>1. \A k \in 1..2 : q[k].size \in Nat
  OBVIOUS
<1>2. ASSUME NEW k \in 0..2
      PROVE  Offset(q, k) = Sum(q, k)
  <2>1. k \in 0..5 /\ \A j \in 1..k : q[j].size \in Nat
    BY <1>1
  <2>. QED  BY <2>1, OffsetIsSum
<1>. QED  BY <1>2 DEF Sum

\* ... of three ranges
LEMMA Three ==
  ASSUME NEW q, q[1].size \in Nat, q[2].size \in Nat, q[3].size \in Nat
  PROVE  /\ Offset(q, 0) = 0
         /\ Offset(q, 1) = q[1].size
         /\ Offset(q, 2) = q[1].size + q[2].size
         /\ Offset(q, 3) = q[1].size + q[2].size + q[3].size
<1>1. \A k \in 1..3 : q[k].size \in Nat
  OBVIOUS
<1>2. ASSUME NEW k \in 0..3
      PROVE  Offset(q, k) = Sum(q, k)
  <2>1. k \in 0..5 /\ \A j \in 1..k : q[j].size \in Nat
    BY <1>1
  <2>. QED  BY <2>1, OffsetIsSum
<1>. QED  BY <1>2 DEF Sum

\* ... of four ranges
LEMMA Four ==
  ASSUME NEW q, q[1].size \in Nat, q[2].size \in Nat, q[3].size \in Nat, q[4].size \in Nat
  PROVE  /\ Offset(q, 0) = 0
         /\ Offset(q, 1) = q[1].size
         /\ Offset(q, 2) = q[1].size + q[2].size
         /\ Offset(q, 3) = q[1].size + q[2].size + q[3].size
         /\ Offset(q, 4) = q[1].size + q[2].size + q[3].size + q[4].size
<1>1. \A k \in 1..4 : q[k].size \in Nat
  OBVIOUS
<1>2. ASSUME NEW k \in 0..4
      PROVE  Offset(q, k) = Sum(q, k)
  <2>1. k \in 0..5 /\ \A j \in 1..k : q[j].size \in Nat
    BY <1>1
  <2>. QED  BY <2>1, OffsetIsSum
<1>. QED  BY <1>2 DEF Sum

\* ... of five ranges
LEMMA Five ==
  ASSUME NEW q, q[1].size \in Nat, q[2].size \in Nat, q[3].size \in Nat, q[4].size \in Nat, q[5].size \in Nat
  PROVE  /\ Offset(q, 0) = 0
         /\ Offset(q, 1) = q[1].size
         /\ Offset(q, 2) = q[1].size + q[2].size
         /\ Offset(q, 3) = q[1].size + q[2].size + q[3].size
         /\ Offset(q, 4) = q[1].size + q[2].size + q[3].size + q[4].size
         /\ Offset(q, 5) = q[1].size + q[2].size + q[3].size + q[4].size + q[5].size
<1>1. \A k \in 1..5 : q[k].size \in Nat
  OBVIOUS
<1>2. ASSUME NEW k \in 0..5
      PROVE  Offset(q, k) = Sum(q, k)
  <2>1. k \in 0..5 /\ \A j \in 1..k : q[j].size \in Nat
    BY <1>1
  <2>. QED  BY <2>1, OffsetIsSum
<1>. QED  BY <1>2 DEF Sum

\* The data of the block, then an access to all of it.
LEMMA DataAccess ==
  ASSUME NEW t, NEW shared, NEW m, t.expect = "ok",
         t.checks = << Data(Remap(0), BlockLen(t), t.call.from), Access(m) >>,
         m = (IF t.call.old < t.call.new THEN t.call.new ELSE BlockLen(t)),
         t.call.old < t.call.new => ~shared,
         t.call.flags = "FIXED" => t.params[t.call.to + 1].nopage
  PROVE  ChecksFit(t, shared)
<1>1. /\ Len(t.checks) = 2 /\ DOMAIN t.checks = 1..2
      /\ t.checks[1] = Data(Remap(0), BlockLen(t), t.call.from) /\ t.checks[2] = Access(m)
  OBVIOUS
<1>2. CheckFits(t, 1, shared) /\ t.checks[1].op = "data"
  BY <1>1 DEF CheckFits, DataFits, AtRemap, Data, Remap
<1>3. CheckFits(t, 2, shared) /\ t.checks[2].op = "access"
  BY <1>1 DEF CheckFits, AccessFits, AtRemap, Access, Remap
<1>. QED  BY <1>1, <1>2, <1>3 DEF ChecksFit

\* The data of the block, then the {//signal} block.
LEMMA DataProbe ==
  ASSUME NEW t, NEW shared, NEW sig, NEW at, t.expect = "ok",
         t.checks = << Data(Remap(0), BlockLen(t), t.call.from) >> \o Probe(sig, at),
         ProbeFits(t, Touch(at), sig, shared),
         t.call.flags = "FIXED" => t.params[t.call.to + 1].nopage
  PROVE  ChecksFit(t, shared)
<1>1. /\ Len(t.checks) = 3 /\ DOMAIN t.checks = 1..3
      /\ t.checks[1] = Data(Remap(0), BlockLen(t), t.call.from)
      /\ t.checks[2] = Handler(sig) /\ t.checks[3] = Touch(at)
  BY DEF Probe
<1>2. CheckFits(t, 1, shared) /\ t.checks[1].op = "data"
  BY <1>1 DEF CheckFits, DataFits, AtRemap, Data, Remap
<1>3. t.checks[2].op = "handler" /\ t.checks[2].exp = sig /\ t.checks[3].op = "touch"
  BY <1>1 DEF Handler, Touch
<1>4. CheckFits(t, 2, shared)
  BY <1>1, <1>3 DEF CheckFits
<1>5. CheckFits(t, 3, shared)
  BY <1>1, <1>3 DEF CheckFits
<1>. QED  BY <1>1, <1>2, <1>3, <1>4, <1>5 DEF ChecksFit


\* 000: the same size again
LEMMA Made000 ==
  ASSUME NEW r \in Nat, r >= 2, 6 * r <= SPACE, NEW shared
  PROVE  Fits(Test000(r), shared)
<1>. DEFINE t == Test000(r)
<1>1. /\ DOMAIN t = {"params", "call", "expect", "checks"} /\ t.expect = "ok"
      /\ t.params = <<RW(r), NONE(r)>>
      /\ t.call = InPlace(0, r, r)
      /\ t.checks = << Data(Remap(0), r, 0), Access(r) >>
  BY DEF Test000, Case
<1>. HIDE DEF t
<1>2. /\ t.call.from = 0 /\ t.call.old = r /\ t.call.new = r /\ t.call.flags = "0"
      /\ t.call.to = 0 /\ t.call.off = 0
  BY <1>1 DEF InPlace
<1>3. /\ RW(r).size = r /\ RW(r).prot = "rw" /\ ~RW(r).nopage
      /\ DOMAIN RW(r) = {"size", "nopage", "prot", "shared"}
      /\ NONE(r).size = r /\ NONE(r).prot = "none" /\ ~NONE(r).nopage
      /\ DOMAIN NONE(r) = {"size", "nopage", "prot", "shared"}
  BY DEF NONE, RW
<1>4. /\ Len(t.params) = 2 /\ DOMAIN t.params = 1..2
      /\ t.params[1] = RW(r) /\ t.params[2] = NONE(r)
  BY <1>1
<1>5. /\ Offset(t.params, 0) = 0 /\ Offset(t.params, 1) = r /\ Offset(t.params, 2) = 2 * r
  <2>1. t.params[1].size = r /\ t.params[2].size = r
    BY <1>3, <1>4
  <2>. QED  BY <2>1, Two
<1>6. Described(t)
  BY <1>1, <1>2, <1>3, <1>4 DEF Described
<1>7. SameSize(t)
  BY <1>2, <1>3, <1>4 DEF SameSize
<1>8. CallFits(t)
  BY <1>1, <1>2, <1>3, <1>4, <1>7 DEF CallFits, Source
<1>9. BlockLen(t) = r
  BY <1>2, <1>3, <1>4 DEF BlockLen, Source
<1>10. ChecksFit(t, shared)
  <2>1. t.checks = << Data(Remap(0), BlockLen(t), t.call.from), Access(r) >>
    BY <1>1, <1>2, <1>9
  <2>2. r = (IF t.call.old < t.call.new THEN t.call.new ELSE BlockLen(t))
    BY <1>2, <1>9, SizesAssumption
  <2>3. /\ ~(t.call.old < t.call.new)
        /\ t.call.flags = "FIXED" => t.params[t.call.to + 1].nopage
    BY <1>2, <1>3, <1>4, SizesAssumption
  <2>. QED  BY <1>1, <2>1, <2>2, <2>3, DataAccess
<1>. QED  BY <1>6, <1>8, <1>10 DEF Fits, t

\* 001: the same size, two pages short of the whole space
LEMMA Made001 ==
  ASSUME NEW r \in Nat, r >= 2, 6 * r <= SPACE, NEW shared
  PROVE  Fits(Test001(r), shared)
<1>. DEFINE t == Test001(r)
<1>1. /\ DOMAIN t = {"params", "call", "expect", "checks"} /\ t.expect = "ok"
      /\ t.params = <<RW(r), NONE(r)>>
      /\ t.call = InPlace(0, SPACE - 2, SPACE - 2)
      /\ t.checks = << Data(Remap(0), r, 0), Access(r) >>
  BY DEF Test001, Case
<1>. HIDE DEF t
<1>2. /\ t.call.from = 0 /\ t.call.old = SPACE - 2 /\ t.call.new = SPACE - 2 /\ t.call.flags = "0"
      /\ t.call.to = 0 /\ t.call.off = 0
  BY <1>1 DEF InPlace
<1>3. /\ RW(r).size = r /\ RW(r).prot = "rw" /\ ~RW(r).nopage
      /\ DOMAIN RW(r) = {"size", "nopage", "prot", "shared"}
      /\ NONE(r).size = r /\ NONE(r).prot = "none" /\ ~NONE(r).nopage
      /\ DOMAIN NONE(r) = {"size", "nopage", "prot", "shared"}
  BY DEF NONE, RW
<1>4. /\ Len(t.params) = 2 /\ DOMAIN t.params = 1..2
      /\ t.params[1] = RW(r) /\ t.params[2] = NONE(r)
  BY <1>1
<1>5. /\ Offset(t.params, 0) = 0 /\ Offset(t.params, 1) = r /\ Offset(t.params, 2) = 2 * r
  <2>1. t.params[1].size = r /\ t.params[2].size = r
    BY <1>3, <1>4
  <2>. QED  BY <2>1, Two
<1>6. Described(t)
  BY <1>1, <1>2, <1>3, <1>4, SizesAssumption DEF Described
<1>7. SameSize(t)
  BY <1>2, <1>3, <1>4 DEF SameSize
<1>8. CallFits(t)
  BY <1>1, <1>2, <1>3, <1>4, <1>7 DEF CallFits, Source
<1>9. BlockLen(t) = r
  BY <1>2, <1>3, <1>4 DEF BlockLen, Source
<1>10. ChecksFit(t, shared)
  <2>1. t.checks = << Data(Remap(0), BlockLen(t), t.call.from), Access(r) >>
    BY <1>1, <1>2, <1>9
  <2>2. r = (IF t.call.old < t.call.new THEN t.call.new ELSE BlockLen(t))
    BY <1>2, <1>9, SizesAssumption
  <2>3. /\ ~(t.call.old < t.call.new)
        /\ t.call.flags = "FIXED" => t.params[t.call.to + 1].nopage
    BY <1>2, <1>3, <1>4, SizesAssumption
  <2>. QED  BY <1>1, <2>1, <2>2, <2>3, DataAccess
<1>. QED  BY <1>6, <1>8, <1>10 DEF Fits, t

\* 002: one page less
LEMMA Made002 ==
  ASSUME NEW r \in Nat, r >= 2, 6 * r <= SPACE, NEW shared
  PROVE  Fits(Test002(r), shared)
<1>. DEFINE t == Test002(r)
<1>1. /\ DOMAIN t = {"params", "call", "expect", "checks"} /\ t.expect = "ok"
      /\ t.params = <<RW(2 * r), NONE(r)>>
      /\ t.call = InPlace(0, 2 * r, 2 * r - 1)
      /\ t.checks = << Data(Remap(0), 2 * r - 1, 0), Access(2 * r - 1) >>
  BY DEF Test002, Case
<1>. HIDE DEF t
<1>2. /\ t.call.from = 0 /\ t.call.old = 2 * r /\ t.call.new = 2 * r - 1 /\ t.call.flags = "0"
      /\ t.call.to = 0 /\ t.call.off = 0
  BY <1>1 DEF InPlace
<1>3. /\ RW(2 * r).size = 2 * r /\ RW(2 * r).prot = "rw" /\ ~RW(2 * r).nopage
      /\ DOMAIN RW(2 * r) = {"size", "nopage", "prot", "shared"}
      /\ NONE(r).size = r /\ NONE(r).prot = "none" /\ ~NONE(r).nopage
      /\ DOMAIN NONE(r) = {"size", "nopage", "prot", "shared"}
  BY DEF NONE, RW
<1>4. /\ Len(t.params) = 2 /\ DOMAIN t.params = 1..2
      /\ t.params[1] = RW(2 * r) /\ t.params[2] = NONE(r)
  BY <1>1
<1>5. /\ Offset(t.params, 0) = 0 /\ Offset(t.params, 1) = 2 * r /\ Offset(t.params, 2) = 3 * r
  <2>1. t.params[1].size = 2 * r /\ t.params[2].size = r
    BY <1>3, <1>4
  <2>. QED  BY <2>1, Two
<1>6. Described(t)
  BY <1>1, <1>2, <1>3, <1>4 DEF Described
<1>7. Shrinks(t)
  BY <1>2, <1>3, <1>4 DEF Shrinks, Source
<1>8. CallFits(t)
  BY <1>1, <1>2, <1>3, <1>4, <1>7 DEF CallFits, Source
<1>9. BlockLen(t) = 2 * r - 1
  BY <1>2, <1>3, <1>4 DEF BlockLen, Source
<1>10. ChecksFit(t, shared)
  <2>1. t.checks = << Data(Remap(0), BlockLen(t), t.call.from), Access(2 * r - 1) >>
    BY <1>1, <1>2, <1>9
  <2>2. 2 * r - 1 = (IF t.call.old < t.call.new THEN t.call.new ELSE BlockLen(t))
    BY <1>2, <1>9, SizesAssumption
  <2>3. /\ ~(t.call.old < t.call.new)
        /\ t.call.flags = "FIXED" => t.params[t.call.to + 1].nopage
    BY <1>2, <1>3, <1>4, SizesAssumption
  <2>. QED  BY <1>1, <2>1, <2>2, <2>3, DataAccess
<1>. QED  BY <1>6, <1>8, <1>10 DEF Fits, t

\* 003: growing into a free range
LEMMA Made003 ==
  ASSUME NEW r \in Nat, r >= 2, 6 * r <= SPACE
  PROVE  Fits(Test003(r), FALSE)
<1>. DEFINE t == Test003(r)
<1>1. /\ DOMAIN t = {"params", "call", "expect", "checks"} /\ t.expect = "ok"
      /\ t.params = <<RW(r), FREE(r), NONE(r)>>
      /\ t.call = InPlace(0, r, 2 * r)
      /\ t.checks = << Data(Remap(0), r, 0), Access(2 * r) >>
  BY DEF Test003, Case
<1>. HIDE DEF t
<1>2. /\ t.call.from = 0 /\ t.call.old = r /\ t.call.new = 2 * r /\ t.call.flags = "0"
      /\ t.call.to = 0 /\ t.call.off = 0
  BY <1>1 DEF InPlace
<1>3. /\ RW(r).size = r /\ RW(r).prot = "rw" /\ ~RW(r).nopage
      /\ DOMAIN RW(r) = {"size", "nopage", "prot", "shared"}
      /\ FREE(r).size = r /\ FREE(r).prot = "rw" /\ FREE(r).nopage
      /\ DOMAIN FREE(r) = {"size", "nopage", "prot", "shared"}
      /\ NONE(r).size = r /\ NONE(r).prot = "none" /\ ~NONE(r).nopage
      /\ DOMAIN NONE(r) = {"size", "nopage", "prot", "shared"}
  BY DEF FREE, NONE, RW
<1>4. /\ Len(t.params) = 3 /\ DOMAIN t.params = 1..3
      /\ t.params[1] = RW(r) /\ t.params[2] = FREE(r) /\ t.params[3] = NONE(r)
  BY <1>1
<1>5. /\ Offset(t.params, 0) = 0 /\ Offset(t.params, 1) = r /\ Offset(t.params, 2) = 2 * r /\ Offset(t.params, 3) = 3 * r
  <2>1. t.params[1].size = r /\ t.params[2].size = r /\ t.params[3].size = r
    BY <1>3, <1>4
  <2>. QED  BY <2>1, Three
<1>6. Described(t)
  BY <1>1, <1>2, <1>3, <1>4 DEF Described
<1>7. GrowsInPlace(t)
  BY <1>2, <1>3, <1>4 DEF GrowsInPlace, Source, Neighbour
<1>8. CallFits(t)
  BY <1>1, <1>2, <1>3, <1>4, <1>7 DEF CallFits, Source
<1>9. BlockLen(t) = r
  BY <1>2, <1>3, <1>4 DEF BlockLen, Source
<1>10. ChecksFit(t, FALSE)
  <2>1. t.checks = << Data(Remap(0), BlockLen(t), t.call.from), Access(2 * r) >>
    BY <1>1, <1>2, <1>9
  <2>2. 2 * r = (IF t.call.old < t.call.new THEN t.call.new ELSE BlockLen(t))
    BY <1>2, <1>9, SizesAssumption
  <2>3. /\ t.call.flags = "FIXED" => t.params[t.call.to + 1].nopage
    BY <1>2, <1>3, <1>4, SizesAssumption
  <2>. QED  BY <1>1, <2>1, <2>2, <2>3, DataAccess
<1>. QED  BY <1>6, <1>8, <1>10 DEF Fits, t

\* 004: no room to grow
LEMMA Made004 ==
  ASSUME NEW r \in Nat, r >= 2, 6 * r <= SPACE, NEW shared
  PROVE  Fits(Test004(r), shared)
<1>. DEFINE t == Test004(r)
<1>1. /\ DOMAIN t = {"params", "call", "expect", "checks"} /\ t.expect = "ENOMEM"
      /\ t.params = <<RW(r), NONE(r)>>
      /\ t.call = InPlace(0, r, 2 * r)
      /\ t.checks = << >>
  BY DEF Test004, MustFail
<1>. HIDE DEF t
<1>2. /\ t.call.from = 0 /\ t.call.old = r /\ t.call.new = 2 * r /\ t.call.flags = "0"
      /\ t.call.to = 0 /\ t.call.off = 0
  BY <1>1 DEF InPlace
<1>3. /\ RW(r).size = r /\ RW(r).prot = "rw" /\ ~RW(r).nopage
      /\ DOMAIN RW(r) = {"size", "nopage", "prot", "shared"}
      /\ NONE(r).size = r /\ NONE(r).prot = "none" /\ ~NONE(r).nopage
      /\ DOMAIN NONE(r) = {"size", "nopage", "prot", "shared"}
  BY DEF NONE, RW
<1>4. /\ Len(t.params) = 2 /\ DOMAIN t.params = 1..2
      /\ t.params[1] = RW(r) /\ t.params[2] = NONE(r)
  BY <1>1
<1>5. /\ Offset(t.params, 0) = 0 /\ Offset(t.params, 1) = r /\ Offset(t.params, 2) = 2 * r
  <2>1. t.params[1].size = r /\ t.params[2].size = r
    BY <1>3, <1>4
  <2>. QED  BY <2>1, Two
<1>6. Described(t)
  BY <1>1, <1>2, <1>3, <1>4 DEF Described
<1>7. HemmedIn(t)
  BY <1>2, <1>3, <1>4 DEF HemmedIn, Source, Neighbour
<1>8. CallFits(t)
  BY <1>1, <1>2, <1>3, <1>4, <1>7 DEF CallFits, Source
<1>9. ChecksFit(t, shared)
  BY <1>1 DEF ChecksFit
<1>. QED  BY <1>6, <1>8, <1>9 DEF Fits, t

\* 005: no room to grow, may move
LEMMA Made005 ==
  ASSUME NEW r \in Nat, r >= 2, 6 * r <= SPACE
  PROVE  Fits(Test005(r), FALSE)
<1>. DEFINE t == Test005(r)
<1>1. /\ DOMAIN t = {"params", "call", "expect", "checks"} /\ t.expect = "ok"
      /\ t.params = <<RW(r), NONE(r)>>
      /\ t.call = MayMove(0, r, 2 * r)
      /\ t.checks = << Data(Remap(0), r, 0), Access(2 * r) >>
  BY DEF Test005, Case
<1>. HIDE DEF t
<1>2. /\ t.call.from = 0 /\ t.call.old = r /\ t.call.new = 2 * r /\ t.call.flags = "MAYMOVE"
      /\ t.call.to = 0 /\ t.call.off = 0
  BY <1>1 DEF MayMove, InPlace
<1>3. /\ RW(r).size = r /\ RW(r).prot = "rw" /\ ~RW(r).nopage
      /\ DOMAIN RW(r) = {"size", "nopage", "prot", "shared"}
      /\ NONE(r).size = r /\ NONE(r).prot = "none" /\ ~NONE(r).nopage
      /\ DOMAIN NONE(r) = {"size", "nopage", "prot", "shared"}
  BY DEF NONE, RW
<1>4. /\ Len(t.params) = 2 /\ DOMAIN t.params = 1..2
      /\ t.params[1] = RW(r) /\ t.params[2] = NONE(r)
  BY <1>1
<1>5. /\ Offset(t.params, 0) = 0 /\ Offset(t.params, 1) = r /\ Offset(t.params, 2) = 2 * r
  <2>1. t.params[1].size = r /\ t.params[2].size = r
    BY <1>3, <1>4
  <2>. QED  BY <2>1, Two
<1>6. Described(t)
  BY <1>1, <1>2, <1>3, <1>4 DEF Described
<1>7. MustMove(t)
  BY <1>2, <1>3, <1>4, <1>5 DEF MustMove, HemmedIn, Source, Neighbour, Start, Whole
<1>8. CallFits(t)
  BY <1>1, <1>2, <1>3, <1>4, <1>7 DEF CallFits, Source
<1>9. BlockLen(t) = r
  BY <1>2, <1>3, <1>4 DEF BlockLen, Source
<1>10. ChecksFit(t, FALSE)
  <2>1. t.checks = << Data(Remap(0), BlockLen(t), t.call.from), Access(2 * r) >>
    BY <1>1, <1>2, <1>9
  <2>2. 2 * r = (IF t.call.old < t.call.new THEN t.call.new ELSE BlockLen(t))
    BY <1>2, <1>9, SizesAssumption
  <2>3. /\ t.call.flags = "FIXED" => t.params[t.call.to + 1].nopage
    BY <1>2, <1>3, <1>4, SizesAssumption
  <2>. QED  BY <1>1, <2>1, <2>2, <2>3, DataAccess
<1>. QED  BY <1>6, <1>8, <1>10 DEF Fits, t

\* 006: to a free range above
LEMMA Made006 ==
  ASSUME NEW r \in Nat, r >= 2, 6 * r <= SPACE, NEW shared
  PROVE  Fits(Test006(r), shared)
<1>. DEFINE t == Test006(r)
<1>1. /\ DOMAIN t = {"params", "call", "expect", "checks"} /\ t.expect = "ok"
      /\ t.params = <<RW(r), FREE(r), NONE(r)>>
      /\ t.call = Fixed(0, r, r, 1, 0)
      /\ t.checks = << Data(Remap(0), r, 0), Access(r) >>
  BY DEF Test006, Case
<1>. HIDE DEF t
<1>2. /\ t.call.from = 0 /\ t.call.old = r /\ t.call.new = r /\ t.call.flags = "FIXED"
      /\ t.call.to = 1 /\ t.call.off = 0
  BY <1>1 DEF Fixed, InPlace
<1>3. /\ RW(r).size = r /\ RW(r).prot = "rw" /\ ~RW(r).nopage
      /\ DOMAIN RW(r) = {"size", "nopage", "prot", "shared"}
      /\ FREE(r).size = r /\ FREE(r).prot = "rw" /\ FREE(r).nopage
      /\ DOMAIN FREE(r) = {"size", "nopage", "prot", "shared"}
      /\ NONE(r).size = r /\ NONE(r).prot = "none" /\ ~NONE(r).nopage
      /\ DOMAIN NONE(r) = {"size", "nopage", "prot", "shared"}
  BY DEF FREE, NONE, RW
<1>4. /\ Len(t.params) = 3 /\ DOMAIN t.params = 1..3
      /\ t.params[1] = RW(r) /\ t.params[2] = FREE(r) /\ t.params[3] = NONE(r)
  BY <1>1
<1>5. /\ Offset(t.params, 0) = 0 /\ Offset(t.params, 1) = r /\ Offset(t.params, 2) = 2 * r /\ Offset(t.params, 3) = 3 * r
  <2>1. t.params[1].size = r /\ t.params[2].size = r /\ t.params[3].size = r
    BY <1>3, <1>4
  <2>. QED  BY <2>1, Three
<1>6. Described(t)
  BY <1>1, <1>2, <1>3, <1>4 DEF Described
<1>7. MovesTo(t)
  BY <1>2, <1>3, <1>4, <1>5 DEF MovesTo, Start, Dest, Source, Whole
<1>8. CallFits(t)
  BY <1>1, <1>2, <1>3, <1>4, <1>7 DEF CallFits, Source
<1>9. BlockLen(t) = r
  BY <1>2, <1>3, <1>4 DEF BlockLen, Source
<1>10. ChecksFit(t, shared)
  <2>1. t.checks = << Data(Remap(0), BlockLen(t), t.call.from), Access(r) >>
    BY <1>1, <1>2, <1>9
  <2>2. r = (IF t.call.old < t.call.new THEN t.call.new ELSE BlockLen(t))
    BY <1>2, <1>9, SizesAssumption
  <2>3. /\ ~(t.call.old < t.call.new)
        /\ t.call.flags = "FIXED" => t.params[t.call.to + 1].nopage
    BY <1>2, <1>3, <1>4, SizesAssumption
  <2>. QED  BY <1>1, <2>1, <2>2, <2>3, DataAccess
<1>. QED  BY <1>6, <1>8, <1>10 DEF Fits, t

\* 007: over the lower half of a mapping
LEMMA Made007 ==
  ASSUME NEW r \in Nat, r >= 2, 6 * r <= SPACE, NEW shared
  PROVE  Fits(Test007(r), shared)
<1>. DEFINE t == Test007(r)
<1>1. /\ DOMAIN t = {"params", "call", "expect", "checks"} /\ t.expect = "ok"
      /\ t.params = <<RW(r), NONE(r), RW(2 * r), NONE(r)>>
      /\ t.call = Fixed(0, r, r, 2, 0)
      /\ t.checks = << Data(Remap(0), r, 0), Data(Param(2, r), r, 2), Access(r) >>
  BY DEF Test007, Case
<1>. HIDE DEF t
<1>2. /\ t.call.from = 0 /\ t.call.old = r /\ t.call.new = r /\ t.call.flags = "FIXED"
      /\ t.call.to = 2 /\ t.call.off = 0
  BY <1>1 DEF Fixed, InPlace
<1>3. /\ RW(r).size = r /\ RW(r).prot = "rw" /\ ~RW(r).nopage
      /\ DOMAIN RW(r) = {"size", "nopage", "prot", "shared"}
      /\ NONE(r).size = r /\ NONE(r).prot = "none" /\ ~NONE(r).nopage
      /\ DOMAIN NONE(r) = {"size", "nopage", "prot", "shared"}
      /\ RW(2 * r).size = 2 * r /\ RW(2 * r).prot = "rw" /\ ~RW(2 * r).nopage
      /\ DOMAIN RW(2 * r) = {"size", "nopage", "prot", "shared"}
  BY DEF NONE, RW
<1>4. /\ Len(t.params) = 4 /\ DOMAIN t.params = 1..4
      /\ t.params[1] = RW(r) /\ t.params[2] = NONE(r) /\ t.params[3] = RW(2 * r) /\ t.params[4] = NONE(r)
  BY <1>1
<1>5. /\ Offset(t.params, 0) = 0 /\ Offset(t.params, 1) = r /\ Offset(t.params, 2) = 2 * r /\ Offset(t.params, 3) = 4 * r
      /\ Offset(t.params, 4) = 5 * r
  <2>1. t.params[1].size = r /\ t.params[2].size = r /\ t.params[3].size = 2 * r /\ t.params[4].size = r
    BY <1>3, <1>4
  <2>. QED  BY <2>1, Four
<1>6. Described(t)
  BY <1>1, <1>2, <1>3, <1>4 DEF Described
<1>7. MovesTo(t)
  BY <1>2, <1>3, <1>4, <1>5 DEF MovesTo, Start, Dest, Source, Whole
<1>8. CallFits(t)
  BY <1>1, <1>2, <1>3, <1>4, <1>7 DEF CallFits, Source
<1>9. BlockLen(t) = r
  BY <1>2, <1>3, <1>4 DEF BlockLen, Source
<1>10. ChecksFit(t, shared)
  <2>1. /\ Len(t.checks) = 3 /\ DOMAIN t.checks = 1..3 /\ t.checks[1] = Data(Remap(0), r, 0)
        /\ t.checks[2] = Data(Param(2, r), r, 2) /\ t.checks[3] = Access(r)
    BY <1>1
  <2>2. CheckFits(t, 1, shared) /\ t.checks[1].op = "data"
    BY <2>1, <1>2, <1>9 DEF CheckFits, DataFits, AtRemap, Data, Remap
  <2>3. Start(t) + t.call.old <= Dest(t)
    BY <1>2, <1>4, <1>5 DEF Start, Dest
  <2>4. CheckFits(t, 2, shared) /\ t.checks[2].op = "data"
    BY <2>1, <2>3, <1>2, <1>3, <1>4, <1>7 DEF CheckFits, DataFits, Data, Param
  <2>5. CheckFits(t, 3, shared) /\ t.checks[3].op = "access"
    BY <2>1, <1>2, <1>9 DEF CheckFits, AccessFits, AtRemap, Access, Remap
  <2>. QED  BY <1>1, <2>1, <2>2, <2>4, <2>5 DEF ChecksFit
<1>. QED  BY <1>6, <1>8, <1>10 DEF Fits, t

\* 008: over both neighbours and itself
LEMMA Made008 ==
  ASSUME NEW r \in Nat, r >= 2, 6 * r <= SPACE, NEW shared
  PROVE  Fits(Test008(r), shared)
<1>. DEFINE t == Test008(r)
<1>1. /\ DOMAIN t = {"params", "call", "expect", "checks"} /\ t.expect = "EINVAL"
      /\ t.params = <<NONE(r), R(r), RW(r), R(r), NONE(r)>>
      /\ t.call = Fixed(2, r, 3 * r, 1, 0)
      /\ t.checks = << >>
  BY DEF Test008, MustFail
<1>. HIDE DEF t
<1>2. /\ t.call.from = 2 /\ t.call.old = r /\ t.call.new = 3 * r /\ t.call.flags = "FIXED"
      /\ t.call.to = 1 /\ t.call.off = 0
  BY <1>1 DEF Fixed, InPlace
<1>3. /\ NONE(r).size = r /\ NONE(r).prot = "none" /\ ~NONE(r).nopage
      /\ DOMAIN NONE(r) = {"size", "nopage", "prot", "shared"}
      /\ R(r).size = r /\ R(r).prot = "r" /\ ~R(r).nopage
      /\ DOMAIN R(r) = {"size", "nopage", "prot", "shared"}
      /\ RW(r).size = r /\ RW(r).prot = "rw" /\ ~RW(r).nopage
      /\ DOMAIN RW(r) = {"size", "nopage", "prot", "shared"}
  BY DEF NONE, R, RW
<1>4. /\ Len(t.params) = 5 /\ DOMAIN t.params = 1..5
      /\ t.params[1] = NONE(r) /\ t.params[2] = R(r) /\ t.params[3] = RW(r) /\ t.params[4] = R(r) /\ t.params[5] = NONE(r)
  BY <1>1
<1>5. /\ Offset(t.params, 0) = 0 /\ Offset(t.params, 1) = r /\ Offset(t.params, 2) = 2 * r /\ Offset(t.params, 3) = 3 * r
      /\ Offset(t.params, 4) = 4 * r /\ Offset(t.params, 5) = 5 * r
  <2>1. t.params[1].size = r /\ t.params[2].size = r /\ t.params[3].size = r /\ t.params[4].size = r /\ t.params[5].size = r
    BY <1>3, <1>4
  <2>. QED  BY <2>1, Five
<1>6. Described(t)
  BY <1>1, <1>2, <1>3, <1>4 DEF Described
<1>7. Collides(t)
  BY <1>2, <1>3, <1>4, <1>5 DEF Collides, Start, Dest
<1>8. CallFits(t)
  BY <1>1, <1>2, <1>3, <1>4, <1>7 DEF CallFits, Source
<1>9. ChecksFit(t, shared)
  BY <1>1 DEF ChecksFit
<1>. QED  BY <1>6, <1>8, <1>9 DEF Fits, t

\* 009: into itself
LEMMA Made009 ==
  ASSUME NEW r \in Nat, r >= 2, 6 * r <= SPACE, NEW shared
  PROVE  Fits(Test009(r), shared)
<1>. DEFINE t == Test009(r)
<1>1. /\ DOMAIN t = {"params", "call", "expect", "checks"} /\ t.expect = "EINVAL"
      /\ t.params = <<NONE(r), RW(2 * r), NONE(r)>>
      /\ t.call = Fixed(1, 2 * r, 1, 1, 1)
      /\ t.checks = << >>
  BY DEF Test009, MustFail
<1>. HIDE DEF t
<1>2. /\ t.call.from = 1 /\ t.call.old = 2 * r /\ t.call.new = 1 /\ t.call.flags = "FIXED"
      /\ t.call.to = 1 /\ t.call.off = 1
  BY <1>1 DEF Fixed, InPlace
<1>3. /\ NONE(r).size = r /\ NONE(r).prot = "none" /\ ~NONE(r).nopage
      /\ DOMAIN NONE(r) = {"size", "nopage", "prot", "shared"}
      /\ RW(2 * r).size = 2 * r /\ RW(2 * r).prot = "rw" /\ ~RW(2 * r).nopage
      /\ DOMAIN RW(2 * r) = {"size", "nopage", "prot", "shared"}
  BY DEF NONE, RW
<1>4. /\ Len(t.params) = 3 /\ DOMAIN t.params = 1..3
      /\ t.params[1] = NONE(r) /\ t.params[2] = RW(2 * r) /\ t.params[3] = NONE(r)
  BY <1>1
<1>5. /\ Offset(t.params, 0) = 0 /\ Offset(t.params, 1) = r /\ Offset(t.params, 2) = 3 * r /\ Offset(t.params, 3) = 4 * r
  <2>1. t.params[1].size = r /\ t.params[2].size = 2 * r /\ t.params[3].size = r
    BY <1>3, <1>4
  <2>. QED  BY <2>1, Three
<1>6. Described(t)
  BY <1>1, <1>2, <1>3, <1>4 DEF Described
<1>7. Collides(t)
  BY <1>2, <1>3, <1>4, <1>5 DEF Collides, Start, Dest
<1>8. CallFits(t)
  BY <1>1, <1>2, <1>3, <1>4, <1>7 DEF CallFits, Source
<1>9. ChecksFit(t, shared)
  BY <1>1 DEF ChecksFit
<1>. QED  BY <1>6, <1>8, <1>9 DEF Fits, t

\* 010: down, over its own lower end
LEMMA Made010 ==
  ASSUME NEW r \in Nat, r >= 2, 6 * r <= SPACE, NEW shared
  PROVE  Fits(Test010(r), shared)
<1>. DEFINE t == Test010(r)
<1>1. /\ DOMAIN t = {"params", "call", "expect", "checks"} /\ t.expect = "EINVAL"
      /\ t.params = <<NONE(r), FREE(r), RW(2 * r), NONE(r)>>
      /\ t.call = Fixed(2, 2 * r, 2 * r, 1, 0)
      /\ t.checks = << >>
  BY DEF Test010, MustFail
<1>. HIDE DEF t
<1>2. /\ t.call.from = 2 /\ t.call.old = 2 * r /\ t.call.new = 2 * r /\ t.call.flags = "FIXED"
      /\ t.call.to = 1 /\ t.call.off = 0
  BY <1>1 DEF Fixed, InPlace
<1>3. /\ NONE(r).size = r /\ NONE(r).prot = "none" /\ ~NONE(r).nopage
      /\ DOMAIN NONE(r) = {"size", "nopage", "prot", "shared"}
      /\ FREE(r).size = r /\ FREE(r).prot = "rw" /\ FREE(r).nopage
      /\ DOMAIN FREE(r) = {"size", "nopage", "prot", "shared"}
      /\ RW(2 * r).size = 2 * r /\ RW(2 * r).prot = "rw" /\ ~RW(2 * r).nopage
      /\ DOMAIN RW(2 * r) = {"size", "nopage", "prot", "shared"}
  BY DEF FREE, NONE, RW
<1>4. /\ Len(t.params) = 4 /\ DOMAIN t.params = 1..4
      /\ t.params[1] = NONE(r) /\ t.params[2] = FREE(r) /\ t.params[3] = RW(2 * r) /\ t.params[4] = NONE(r)
  BY <1>1
<1>5. /\ Offset(t.params, 0) = 0 /\ Offset(t.params, 1) = r /\ Offset(t.params, 2) = 2 * r /\ Offset(t.params, 3) = 4 * r
      /\ Offset(t.params, 4) = 5 * r
  <2>1. t.params[1].size = r /\ t.params[2].size = r /\ t.params[3].size = 2 * r /\ t.params[4].size = r
    BY <1>3, <1>4
  <2>. QED  BY <2>1, Four
<1>6. Described(t)
  BY <1>1, <1>2, <1>3, <1>4 DEF Described
<1>7. Collides(t)
  BY <1>2, <1>3, <1>4, <1>5 DEF Collides, Start, Dest
<1>8. CallFits(t)
  BY <1>1, <1>2, <1>3, <1>4, <1>7 DEF CallFits, Source
<1>9. ChecksFit(t, shared)
  BY <1>1 DEF ChecksFit
<1>. QED  BY <1>6, <1>8, <1>9 DEF Fits, t

\* 011: up by a page, over itself
LEMMA Made011 ==
  ASSUME NEW r \in Nat, r >= 2, 6 * r <= SPACE, NEW shared
  PROVE  Fits(Test011(r), shared)
<1>. DEFINE t == Test011(r)
<1>1. /\ DOMAIN t = {"params", "call", "expect", "checks"} /\ t.expect = "EINVAL"
      /\ t.params = <<NONE(r), RW(2 * r), FREE(r), NONE(r)>>
      /\ t.call = Fixed(1, 2 * r, 2 * r, 1, 1)
      /\ t.checks = << >>
  BY DEF Test011, MustFail
<1>. HIDE DEF t
<1>2. /\ t.call.from = 1 /\ t.call.old = 2 * r /\ t.call.new = 2 * r /\ t.call.flags = "FIXED"
      /\ t.call.to = 1 /\ t.call.off = 1
  BY <1>1 DEF Fixed, InPlace
<1>3. /\ NONE(r).size = r /\ NONE(r).prot = "none" /\ ~NONE(r).nopage
      /\ DOMAIN NONE(r) = {"size", "nopage", "prot", "shared"}
      /\ RW(2 * r).size = 2 * r /\ RW(2 * r).prot = "rw" /\ ~RW(2 * r).nopage
      /\ DOMAIN RW(2 * r) = {"size", "nopage", "prot", "shared"}
      /\ FREE(r).size = r /\ FREE(r).prot = "rw" /\ FREE(r).nopage
      /\ DOMAIN FREE(r) = {"size", "nopage", "prot", "shared"}
  BY DEF FREE, NONE, RW
<1>4. /\ Len(t.params) = 4 /\ DOMAIN t.params = 1..4
      /\ t.params[1] = NONE(r) /\ t.params[2] = RW(2 * r) /\ t.params[3] = FREE(r) /\ t.params[4] = NONE(r)
  BY <1>1
<1>5. /\ Offset(t.params, 0) = 0 /\ Offset(t.params, 1) = r /\ Offset(t.params, 2) = 3 * r /\ Offset(t.params, 3) = 4 * r
      /\ Offset(t.params, 4) = 5 * r
  <2>1. t.params[1].size = r /\ t.params[2].size = 2 * r /\ t.params[3].size = r /\ t.params[4].size = r
    BY <1>3, <1>4
  <2>. QED  BY <2>1, Four
<1>6. Described(t)
  BY <1>1, <1>2, <1>3, <1>4 DEF Described
<1>7. Collides(t)
  BY <1>2, <1>3, <1>4, <1>5 DEF Collides, Start, Dest
<1>8. CallFits(t)
  BY <1>1, <1>2, <1>3, <1>4, <1>7 DEF CallFits, Source
<1>9. ChecksFit(t, shared)
  BY <1>1 DEF ChecksFit
<1>. QED  BY <1>6, <1>8, <1>9 DEF Fits, t

\* 012: to a free range below
LEMMA Made012 ==
  ASSUME NEW r \in Nat, r >= 2, 6 * r <= SPACE, NEW shared
  PROVE  Fits(Test012(r), shared)
<1>. DEFINE t == Test012(r)
<1>1. /\ DOMAIN t = {"params", "call", "expect", "checks"} /\ t.expect = "ok"
      /\ t.params = <<NONE(r), FREE(r), RW(r), NONE(r)>>
      /\ t.call = Fixed(2, r, r, 1, 0)
      /\ t.checks = << Data(Remap(0), r, 2), Access(r) >>
  BY DEF Test012, Case
<1>. HIDE DEF t
<1>2. /\ t.call.from = 2 /\ t.call.old = r /\ t.call.new = r /\ t.call.flags = "FIXED"
      /\ t.call.to = 1 /\ t.call.off = 0
  BY <1>1 DEF Fixed, InPlace
<1>3. /\ NONE(r).size = r /\ NONE(r).prot = "none" /\ ~NONE(r).nopage
      /\ DOMAIN NONE(r) = {"size", "nopage", "prot", "shared"}
      /\ FREE(r).size = r /\ FREE(r).prot = "rw" /\ FREE(r).nopage
      /\ DOMAIN FREE(r) = {"size", "nopage", "prot", "shared"}
      /\ RW(r).size = r /\ RW(r).prot = "rw" /\ ~RW(r).nopage
      /\ DOMAIN RW(r) = {"size", "nopage", "prot", "shared"}
  BY DEF FREE, NONE, RW
<1>4. /\ Len(t.params) = 4 /\ DOMAIN t.params = 1..4
      /\ t.params[1] = NONE(r) /\ t.params[2] = FREE(r) /\ t.params[3] = RW(r) /\ t.params[4] = NONE(r)
  BY <1>1
<1>5. /\ Offset(t.params, 0) = 0 /\ Offset(t.params, 1) = r /\ Offset(t.params, 2) = 2 * r /\ Offset(t.params, 3) = 3 * r
      /\ Offset(t.params, 4) = 4 * r
  <2>1. t.params[1].size = r /\ t.params[2].size = r /\ t.params[3].size = r /\ t.params[4].size = r
    BY <1>3, <1>4
  <2>. QED  BY <2>1, Four
<1>6. Described(t)
  BY <1>1, <1>2, <1>3, <1>4 DEF Described
<1>7. MovesTo(t)
  BY <1>2, <1>3, <1>4, <1>5 DEF MovesTo, Start, Dest, Source, Whole
<1>8. CallFits(t)
  BY <1>1, <1>2, <1>3, <1>4, <1>7 DEF CallFits, Source
<1>9. BlockLen(t) = r
  BY <1>2, <1>3, <1>4 DEF BlockLen, Source
<1>10. ChecksFit(t, shared)
  <2>1. t.checks = << Data(Remap(0), BlockLen(t), t.call.from), Access(r) >>
    BY <1>1, <1>2, <1>9
  <2>2. r = (IF t.call.old < t.call.new THEN t.call.new ELSE BlockLen(t))
    BY <1>2, <1>9, SizesAssumption
  <2>3. /\ ~(t.call.old < t.call.new)
        /\ t.call.flags = "FIXED" => t.params[t.call.to + 1].nopage
    BY <1>2, <1>3, <1>4, SizesAssumption
  <2>. QED  BY <1>1, <2>1, <2>2, <2>3, DataAccess
<1>. QED  BY <1>6, <1>8, <1>10 DEF Fits, t

\* 013: to a free range above, from the middle
LEMMA Made013 ==
  ASSUME NEW r \in Nat, r >= 2, 6 * r <= SPACE, NEW shared
  PROVE  Fits(Test013(r), shared)
<1>. DEFINE t == Test013(r)
<1>1. /\ DOMAIN t = {"params", "call", "expect", "checks"} /\ t.expect = "ok"
      /\ t.params = <<NONE(r), RW(r), FREE(r), NONE(r)>>
      /\ t.call = Fixed(1, r, r, 2, 0)
      /\ t.checks = << Data(Remap(0), r, 1), Access(r) >>
  BY DEF Test013, Case
<1>. HIDE DEF t
<1>2. /\ t.call.from = 1 /\ t.call.old = r /\ t.call.new = r /\ t.call.flags = "FIXED"
      /\ t.call.to = 2 /\ t.call.off = 0
  BY <1>1 DEF Fixed, InPlace
<1>3. /\ NONE(r).size = r /\ NONE(r).prot = "none" /\ ~NONE(r).nopage
      /\ DOMAIN NONE(r) = {"size", "nopage", "prot", "shared"}
      /\ RW(r).size = r /\ RW(r).prot = "rw" /\ ~RW(r).nopage
      /\ DOMAIN RW(r) = {"size", "nopage", "prot", "shared"}
      /\ FREE(r).size = r /\ FREE(r).prot = "rw" /\ FREE(r).nopage
      /\ DOMAIN FREE(r) = {"size", "nopage", "prot", "shared"}
  BY DEF FREE, NONE, RW
<1>4. /\ Len(t.params) = 4 /\ DOMAIN t.params = 1..4
      /\ t.params[1] = NONE(r) /\ t.params[2] = RW(r) /\ t.params[3] = FREE(r) /\ t.params[4] = NONE(r)
  BY <1>1
<1>5. /\ Offset(t.params, 0) = 0 /\ Offset(t.params, 1) = r /\ Offset(t.params, 2) = 2 * r /\ Offset(t.params, 3) = 3 * r
      /\ Offset(t.params, 4) = 4 * r
  <2>1. t.params[1].size = r /\ t.params[2].size = r /\ t.params[3].size = r /\ t.params[4].size = r
    BY <1>3, <1>4
  <2>. QED  BY <2>1, Four
<1>6. Described(t)
  BY <1>1, <1>2, <1>3, <1>4 DEF Described
<1>7. MovesTo(t)
  BY <1>2, <1>3, <1>4, <1>5 DEF MovesTo, Start, Dest, Source, Whole
<1>8. CallFits(t)
  BY <1>1, <1>2, <1>3, <1>4, <1>7 DEF CallFits, Source
<1>9. BlockLen(t) = r
  BY <1>2, <1>3, <1>4 DEF BlockLen, Source
<1>10. ChecksFit(t, shared)
  <2>1. t.checks = << Data(Remap(0), BlockLen(t), t.call.from), Access(r) >>
    BY <1>1, <1>2, <1>9
  <2>2. r = (IF t.call.old < t.call.new THEN t.call.new ELSE BlockLen(t))
    BY <1>2, <1>9, SizesAssumption
  <2>3. /\ ~(t.call.old < t.call.new)
        /\ t.call.flags = "FIXED" => t.params[t.call.to + 1].nopage
    BY <1>2, <1>3, <1>4, SizesAssumption
  <2>. QED  BY <1>1, <2>1, <2>2, <2>3, DataAccess
<1>. QED  BY <1>6, <1>8, <1>10 DEF Fits, t

\* 014: one page less, and a probe of it
LEMMA Made014 ==
  ASSUME NEW r \in Nat, r >= 2, 6 * r <= SPACE, NEW shared
  PROVE  Fits(Test014(r), shared)
<1>. DEFINE t == Test014(r)
<1>1. /\ DOMAIN t = {"params", "call", "expect", "checks"} /\ t.expect = "ok"
      /\ t.params = <<RW(2 * r), NONE(r)>>
      /\ t.call = InPlace(0, 2 * r, 2 * r - 1)
      /\ t.checks = << Data(Remap(0), 2 * r - 1, 0) >> \o Probe("SEGV", Remap(2 * r - 1))
  BY DEF Test014, Case
<1>. HIDE DEF t
<1>2. /\ t.call.from = 0 /\ t.call.old = 2 * r /\ t.call.new = 2 * r - 1 /\ t.call.flags = "0"
      /\ t.call.to = 0 /\ t.call.off = 0
  BY <1>1 DEF InPlace
<1>3. /\ RW(2 * r).size = 2 * r /\ RW(2 * r).prot = "rw" /\ ~RW(2 * r).nopage
      /\ DOMAIN RW(2 * r) = {"size", "nopage", "prot", "shared"}
      /\ NONE(r).size = r /\ NONE(r).prot = "none" /\ ~NONE(r).nopage
      /\ DOMAIN NONE(r) = {"size", "nopage", "prot", "shared"}
  BY DEF NONE, RW
<1>4. /\ Len(t.params) = 2 /\ DOMAIN t.params = 1..2
      /\ t.params[1] = RW(2 * r) /\ t.params[2] = NONE(r)
  BY <1>1
<1>5. /\ Offset(t.params, 0) = 0 /\ Offset(t.params, 1) = 2 * r /\ Offset(t.params, 2) = 3 * r
  <2>1. t.params[1].size = 2 * r /\ t.params[2].size = r
    BY <1>3, <1>4
  <2>. QED  BY <2>1, Two
<1>6. Described(t)
  BY <1>1, <1>2, <1>3, <1>4 DEF Described
<1>7. Shrinks(t)
  BY <1>2, <1>3, <1>4 DEF Shrinks, Source
<1>8. CallFits(t)
  BY <1>1, <1>2, <1>3, <1>4, <1>7 DEF CallFits, Source
<1>9. BlockLen(t) = 2 * r - 1
  BY <1>2, <1>3, <1>4 DEF BlockLen, Source
<1>10. ChecksFit(t, shared)
  <2>1. t.checks = << Data(Remap(0), BlockLen(t), t.call.from) >> \o Probe("SEGV", Remap(2 * r - 1))
    BY <1>1, <1>2, <1>9
  <2>2. Touch(Remap(2 * r - 1)).at.base = -1 /\ Touch(Remap(2 * r - 1)).at.off = 2 * r - 1
    BY DEF Touch, Remap, Param
  <2>3. ProbeFits(t, Touch(Remap(2 * r - 1)), "SEGV", shared)
    BY <2>2, <1>2, <1>3, <1>4, <1>7 DEF ProbeFits, AtRemap
  <2>. QED  BY <2>1, <2>3, <1>1, <1>2, <1>3, <1>4, DataProbe
<1>. QED  BY <1>6, <1>8, <1>10 DEF Fits, t

\* 015: may move, and a probe of the old place
LEMMA Made015 ==
  ASSUME NEW r \in Nat, r >= 2, 6 * r <= SPACE, NEW shared
  PROVE  Fits(Test015(r), shared)
<1>. DEFINE t == Test015(r)
<1>1. /\ DOMAIN t = {"params", "call", "expect", "checks"} /\ t.expect = "ok"
      /\ t.params = <<RW(r), NONE(r)>>
      /\ t.call = MayMove(0, r, 2 * r)
      /\ t.checks = << Data(Remap(0), r, 0) >> \o Probe("SEGV", Param(0, 0))
  BY DEF Test015, Case
<1>. HIDE DEF t
<1>2. /\ t.call.from = 0 /\ t.call.old = r /\ t.call.new = 2 * r /\ t.call.flags = "MAYMOVE"
      /\ t.call.to = 0 /\ t.call.off = 0
  BY <1>1 DEF MayMove, InPlace
<1>3. /\ RW(r).size = r /\ RW(r).prot = "rw" /\ ~RW(r).nopage
      /\ DOMAIN RW(r) = {"size", "nopage", "prot", "shared"}
      /\ NONE(r).size = r /\ NONE(r).prot = "none" /\ ~NONE(r).nopage
      /\ DOMAIN NONE(r) = {"size", "nopage", "prot", "shared"}
  BY DEF NONE, RW
<1>4. /\ Len(t.params) = 2 /\ DOMAIN t.params = 1..2
      /\ t.params[1] = RW(r) /\ t.params[2] = NONE(r)
  BY <1>1
<1>5. /\ Offset(t.params, 0) = 0 /\ Offset(t.params, 1) = r /\ Offset(t.params, 2) = 2 * r
  <2>1. t.params[1].size = r /\ t.params[2].size = r
    BY <1>3, <1>4
  <2>. QED  BY <2>1, Two
<1>6. Described(t)
  BY <1>1, <1>2, <1>3, <1>4 DEF Described
<1>7. MustMove(t)
  BY <1>2, <1>3, <1>4, <1>5 DEF MustMove, HemmedIn, Source, Neighbour, Start, Whole
<1>8. CallFits(t)
  BY <1>1, <1>2, <1>3, <1>4, <1>7 DEF CallFits, Source
<1>9. BlockLen(t) = r
  BY <1>2, <1>3, <1>4 DEF BlockLen, Source
<1>10. ChecksFit(t, shared)
  <2>1. t.checks = << Data(Remap(0), BlockLen(t), t.call.from) >> \o Probe("SEGV", Param(0, 0))
    BY <1>1, <1>2, <1>9
  <2>2. Touch(Param(0, 0)).at.base = 0 /\ Touch(Param(0, 0)).at.off = 0
    BY DEF Touch, Remap, Param
  <2>3. ProbeFits(t, Touch(Param(0, 0)), "SEGV", shared)
    BY <2>2, <1>2, <1>3, <1>4, <1>7 DEF ProbeFits, AtRemap
  <2>. QED  BY <2>1, <2>3, <1>1, <1>2, <1>3, <1>4, DataProbe
<1>. QED  BY <1>6, <1>8, <1>10 DEF Fits, t

\* 016: to a free range, and a probe of the old place
LEMMA Made016 ==
  ASSUME NEW r \in Nat, r >= 2, 6 * r <= SPACE, NEW shared
  PROVE  Fits(Test016(r), shared)
<1>. DEFINE t == Test016(r)
<1>1. /\ DOMAIN t = {"params", "call", "expect", "checks"} /\ t.expect = "ok"
      /\ t.params = <<RW(r), FREE(r), NONE(r)>>
      /\ t.call = Fixed(0, r, r, 1, 0)
      /\ t.checks = << Data(Remap(0), r, 0) >> \o Probe("SEGV", Param(0, 0))
  BY DEF Test016, Case
<1>. HIDE DEF t
<1>2. /\ t.call.from = 0 /\ t.call.old = r /\ t.call.new = r /\ t.call.flags = "FIXED"
      /\ t.call.to = 1 /\ t.call.off = 0
  BY <1>1 DEF Fixed, InPlace
<1>3. /\ RW(r).size = r /\ RW(r).prot = "rw" /\ ~RW(r).nopage
      /\ DOMAIN RW(r) = {"size", "nopage", "prot", "shared"}
      /\ FREE(r).size = r /\ FREE(r).prot = "rw" /\ FREE(r).nopage
      /\ DOMAIN FREE(r) = {"size", "nopage", "prot", "shared"}
      /\ NONE(r).size = r /\ NONE(r).prot = "none" /\ ~NONE(r).nopage
      /\ DOMAIN NONE(r) = {"size", "nopage", "prot", "shared"}
  BY DEF FREE, NONE, RW
<1>4. /\ Len(t.params) = 3 /\ DOMAIN t.params = 1..3
      /\ t.params[1] = RW(r) /\ t.params[2] = FREE(r) /\ t.params[3] = NONE(r)
  BY <1>1
<1>5. /\ Offset(t.params, 0) = 0 /\ Offset(t.params, 1) = r /\ Offset(t.params, 2) = 2 * r /\ Offset(t.params, 3) = 3 * r
  <2>1. t.params[1].size = r /\ t.params[2].size = r /\ t.params[3].size = r
    BY <1>3, <1>4
  <2>. QED  BY <2>1, Three
<1>6. Described(t)
  BY <1>1, <1>2, <1>3, <1>4 DEF Described
<1>7. MovesTo(t)
  BY <1>2, <1>3, <1>4, <1>5 DEF MovesTo, Start, Dest, Source, Whole
<1>8. CallFits(t)
  BY <1>1, <1>2, <1>3, <1>4, <1>7 DEF CallFits, Source
<1>9. BlockLen(t) = r
  BY <1>2, <1>3, <1>4 DEF BlockLen, Source
<1>10. ChecksFit(t, shared)
  <2>1. t.checks = << Data(Remap(0), BlockLen(t), t.call.from) >> \o Probe("SEGV", Param(0, 0))
    BY <1>1, <1>2, <1>9
  <2>2. Touch(Param(0, 0)).at.base = 0 /\ Touch(Param(0, 0)).at.off = 0
    BY DEF Touch, Remap, Param
  <2>3. ProbeFits(t, Touch(Param(0, 0)), "SEGV", shared)
    <3>1. t.params[t.call.to + 1].nopage
      BY <1>2, <1>3, <1>4
    <3>2. Touch(Param(0, 0)).at.base = t.call.from
      BY <2>2, <1>2
    <3>. QED  BY <2>2, <3>1, <3>2, <1>7 DEF ProbeFits
  <2>. QED  BY <2>1, <2>3, <1>1, <1>2, <1>3, <1>4, DataProbe
<1>. QED  BY <1>6, <1>8, <1>10 DEF Fits, t

\* 103: a shared object grows into a free range, and a probe beyond its end
LEMMA Made103 ==
  ASSUME NEW r \in Nat, r >= 2, 6 * r <= SPACE
  PROVE  \E t : Test103(r) = Shared(t) /\ Fits(t, TRUE)
<1>. DEFINE t == Case(<<RW(r), FREE(r), NONE(r)>>, InPlace(0, r, 2 * r), << Data(Remap(0), r, 0) >> \o Probe("BUS", Remap(r)))
<1>1. /\ DOMAIN t = {"params", "call", "expect", "checks"} /\ t.expect = "ok"
      /\ t.params = <<RW(r), FREE(r), NONE(r)>>
      /\ t.call = InPlace(0, r, 2 * r)
      /\ t.checks = << Data(Remap(0), r, 0) >> \o Probe("BUS", Remap(r))
  BY DEF Case
<1>2. Test103(r) = Shared(t)
  BY DEF Test103
<1>. HIDE DEF t
<1>3. /\ t.call.from = 0 /\ t.call.old = r /\ t.call.new = 2 * r /\ t.call.flags = "0"
      /\ t.call.to = 0 /\ t.call.off = 0
  BY <1>1 DEF InPlace
<1>4. /\ RW(r).size = r /\ RW(r).prot = "rw" /\ ~RW(r).nopage
      /\ DOMAIN RW(r) = {"size", "nopage", "prot", "shared"}
      /\ FREE(r).size = r /\ FREE(r).prot = "rw" /\ FREE(r).nopage
      /\ DOMAIN FREE(r) = {"size", "nopage", "prot", "shared"}
      /\ NONE(r).size = r /\ NONE(r).prot = "none" /\ ~NONE(r).nopage
      /\ DOMAIN NONE(r) = {"size", "nopage", "prot", "shared"}
  BY DEF FREE, NONE, RW
<1>5. /\ Len(t.params) = 3 /\ DOMAIN t.params = 1..3
      /\ t.params[1] = RW(r) /\ t.params[2] = FREE(r) /\ t.params[3] = NONE(r)
  BY <1>1
<1>6. /\ Offset(t.params, 0) = 0 /\ Offset(t.params, 1) = r /\ Offset(t.params, 2) = 2 * r /\ Offset(t.params, 3) = 3 * r
  <2>1. t.params[1].size = r /\ t.params[2].size = r /\ t.params[3].size = r
    BY <1>4, <1>5
  <2>. QED  BY <2>1, Three
<1>7. Described(t)
  BY <1>1, <1>3, <1>4, <1>5 DEF Described
<1>8. GrowsInPlace(t)
  BY <1>3, <1>4, <1>5 DEF GrowsInPlace, Source, Neighbour
<1>9. CallFits(t)
  BY <1>1, <1>3, <1>4, <1>5, <1>8 DEF CallFits, Source
<1>10. BlockLen(t) = r
  BY <1>3, <1>4, <1>5 DEF BlockLen, Source
<1>11. ChecksFit(t, TRUE)
  <2>1. t.checks = << Data(Remap(0), BlockLen(t), t.call.from) >> \o Probe("BUS", Remap(r))
    BY <1>1, <1>3, <1>10
  <2>2. Touch(Remap(r)).at.base = -1 /\ Touch(Remap(r)).at.off = r
    BY DEF Touch, Remap, Param
  <2>3. ProbeFits(t, Touch(Remap(r)), "BUS", TRUE)
    BY <2>2, <1>3, <1>4, <1>5, <1>8 DEF ProbeFits, AtRemap
  <2>. QED  BY <2>1, <2>3, <1>1, <1>3, <1>4, <1>5, DataProbe
<1>. QED  BY <1>2, <1>7, <1>9, <1>11 DEF Fits

\* 105: a shared object that may move grows, and a probe beyond its end
LEMMA Made105 ==
  ASSUME NEW r \in Nat, r >= 2, 6 * r <= SPACE
  PROVE  \E t : Test105(r) = Shared(t) /\ Fits(t, TRUE)
<1>. DEFINE t == Case(<<RW(r), NONE(r)>>, MayMove(0, r, 2 * r), << Data(Remap(0), r, 0) >> \o Probe("BUS", Remap(r)))
<1>1. /\ DOMAIN t = {"params", "call", "expect", "checks"} /\ t.expect = "ok"
      /\ t.params = <<RW(r), NONE(r)>>
      /\ t.call = MayMove(0, r, 2 * r)
      /\ t.checks = << Data(Remap(0), r, 0) >> \o Probe("BUS", Remap(r))
  BY DEF Case
<1>2. Test105(r) = Shared(t)
  BY DEF Test105
<1>. HIDE DEF t
<1>3. /\ t.call.from = 0 /\ t.call.old = r /\ t.call.new = 2 * r /\ t.call.flags = "MAYMOVE"
      /\ t.call.to = 0 /\ t.call.off = 0
  BY <1>1 DEF MayMove, InPlace
<1>4. /\ RW(r).size = r /\ RW(r).prot = "rw" /\ ~RW(r).nopage
      /\ DOMAIN RW(r) = {"size", "nopage", "prot", "shared"}
      /\ NONE(r).size = r /\ NONE(r).prot = "none" /\ ~NONE(r).nopage
      /\ DOMAIN NONE(r) = {"size", "nopage", "prot", "shared"}
  BY DEF NONE, RW
<1>5. /\ Len(t.params) = 2 /\ DOMAIN t.params = 1..2
      /\ t.params[1] = RW(r) /\ t.params[2] = NONE(r)
  BY <1>1
<1>6. /\ Offset(t.params, 0) = 0 /\ Offset(t.params, 1) = r /\ Offset(t.params, 2) = 2 * r
  <2>1. t.params[1].size = r /\ t.params[2].size = r
    BY <1>4, <1>5
  <2>. QED  BY <2>1, Two
<1>7. Described(t)
  BY <1>1, <1>3, <1>4, <1>5 DEF Described
<1>8. MustMove(t)
  BY <1>3, <1>4, <1>5, <1>6 DEF MustMove, HemmedIn, Source, Neighbour, Start, Whole
<1>9. CallFits(t)
  BY <1>1, <1>3, <1>4, <1>5, <1>8 DEF CallFits, Source
<1>10. BlockLen(t) = r
  BY <1>3, <1>4, <1>5 DEF BlockLen, Source
<1>11. ChecksFit(t, TRUE)
  <2>1. t.checks = << Data(Remap(0), BlockLen(t), t.call.from) >> \o Probe("BUS", Remap(r))
    BY <1>1, <1>3, <1>10
  <2>2. Touch(Remap(r)).at.base = -1 /\ Touch(Remap(r)).at.off = r
    BY DEF Touch, Remap, Param
  <2>3. ProbeFits(t, Touch(Remap(r)), "BUS", TRUE)
    BY <2>2, <1>3, <1>4, <1>5, <1>8 DEF ProbeFits, AtRemap
  <2>. QED  BY <2>1, <2>3, <1>1, <1>3, <1>4, <1>5, DataProbe
<1>. QED  BY <1>2, <1>7, <1>9, <1>11 DEF Fits

\* Sharing the ranges of a test changes nothing else of it.
LEMMA SharedFits ==
  ASSUME NEW t, Fits(t, TRUE)
  PROVE  WellMade(Shared(t))
<1>. DEFINE u == Shared(t)
<1>1. /\ DOMAIN u = {"params", "call", "expect", "checks"}
      /\ u.call = t.call /\ u.expect = t.expect /\ u.checks = t.checks
      /\ u.params = [k \in DOMAIN t.params |-> [t.params[k] EXCEPT !.shared = TRUE]]
  BY DEF Shared, Fits, Described
<1>2. ASSUME NEW k \in 1..Len(t.params)
      PROVE  /\ DOMAIN u.params[k] = {"size", "nopage", "prot", "shared"} /\ u.params[k].shared = TRUE
             /\ u.params[k].size = t.params[k].size /\ u.params[k].prot = t.params[k].prot
             /\ u.params[k].nopage = t.params[k].nopage
  BY <1>1 DEF Fits, Described
<1>3. DOMAIN u.params = 1..Len(t.params) /\ Len(u.params) = Len(t.params)
  BY <1>1 DEF Fits, Described
<1>. HIDE DEF u
<1>4. PICK n \in 1..5 : n = Len(t.params)
  BY DEF Fits, Described
<1>5. \A j \in 1..n : t.params[j].size \in Nat
  BY <1>4 DEF Fits, Described
<1>6. t.call.from \in 0..(n - 1) /\ t.call.to \in 0..(n - 1)
  BY <1>4 DEF Fits, Described
<1>7. \A j \in 1..n : u.params[j].size = t.params[j].size
  BY <1>4, <1>2
<1>8. ASSUME NEW k \in 0..n
      PROVE  Offset(u.params, k) = Offset(t.params, k)
  <2>1. \A j \in 1..k : u.params[j].size = t.params[j].size /\ t.params[j].size \in Nat
    BY <1>5, <1>7
  <2>2. k \in 0..5
    OBVIOUS
  <2>3. Offset(u.params, k) = Sum(u.params, k) /\ Offset(t.params, k) = Sum(t.params, k)
    BY <2>1, <2>2, OffsetIsSum
  <2>4. Sum(u.params, k) = Sum(t.params, k)
    BY <2>1, <2>2 DEF Sum
  <2>. QED  BY <2>3, <2>4
<1>9. Described(u)
  BY <1>1, <1>2, <1>3 DEF Fits, Described
<1>10. /\ Start(u) = Start(t) /\ Dest(u) = Dest(t) /\ Whole(u) = Whole(t)
  <2>1. t.call.from \in 0..n /\ t.call.to \in 0..n /\ n \in 0..n
    BY <1>6
  <2>. QED  BY <2>1, <1>4, <1>1, <1>3, <1>8 DEF Start, Dest, Whole
<1>11. t.call.from + 1 \in 1..n /\ t.call.to + 1 \in 1..n /\ (t.call.from + 1 < n => t.call.from + 2 \in 1..n)
  BY <1>6
<1>12. /\ Source(u).size = Source(t).size /\ Source(u).prot = Source(t).prot
       /\ Source(u).nopage = Source(t).nopage /\ Source(u).shared = TRUE
       /\ t.call.from + 1 < Len(t.params) =>
            Neighbour(u).size = Neighbour(t).size /\ Neighbour(u).nopage = Neighbour(t).nopage
       /\ u.params[t.call.to + 1].nopage = t.params[t.call.to + 1].nopage
       /\ u.params[t.call.to + 1].size = t.params[t.call.to + 1].size
       /\ u.params[t.call.to + 1].prot = t.params[t.call.to + 1].prot
  BY <1>4, <1>1, <1>2, <1>11 DEF Source, Neighbour
<1>13. /\ SameSize(u) = SameSize(t) /\ Shrinks(u) = Shrinks(t) /\ GrowsInPlace(u) = GrowsInPlace(t)
       /\ HemmedIn(u) = HemmedIn(t) /\ Collides(u) = Collides(t)
  BY <1>1, <1>3, <1>10, <1>12 DEF SameSize, Shrinks, GrowsInPlace, HemmedIn, Collides
<1>14. MustMove(u) = MustMove(t) /\ MovesTo(u) = MovesTo(t) /\ BlockLen(u) = BlockLen(t)
  BY <1>1, <1>10, <1>12, <1>13 DEF MustMove, MovesTo, BlockLen
<1>15. CallFits(u)
  BY <1>1, <1>12, <1>13, <1>14 DEF Fits, CallFits
<1>16. ASSUME NEW k \in 1..Len(t.checks)
       PROVE  CheckFits(u, k, TRUE)
  <2>1. CheckFits(t, k, TRUE)
    BY DEF Fits, ChecksFit
  <2>. DEFINE x == t.checks[k]
  <2>2. DataFits(t, x, k) => DataFits(u, x, k)
    BY <1>1, <1>10, <1>12, <1>14 DEF DataFits
  <2>3. AccessFits(t, x, k, TRUE) => AccessFits(u, x, k, TRUE)
    BY <1>1, <1>14 DEF AccessFits
  <2>4. ASSUME NEW sig, ProbeFits(t, x, sig, TRUE)
        PROVE  ProbeFits(u, x, sig, TRUE)
    BY <2>4, <1>1, <1>12, <1>13, <1>14 DEF ProbeFits
  <2>. QED  BY <1>1, <2>1, <2>2, <2>3, <2>4 DEF CheckFits
<1>17. ChecksFit(u, TRUE)
  BY <1>1, <1>12, <1>16 DEF Fits, ChecksFit
<1>. QED  BY <1>9, <1>12, <1>15, <1>17 DEF WellMade, Fits, u

\* The tests with the ranges of one size.
LEMMA GroupFits ==
  ASSUME NEW r \in Nat, r >= 2, 6 * r <= SPACE
  PROVE  /\ WellMade(Test000(r)) /\ WellMade(Test001(r)) /\ WellMade(Test002(r)) /\ WellMade(Test003(r))
         /\ WellMade(Test004(r)) /\ WellMade(Test005(r)) /\ WellMade(Test006(r)) /\ WellMade(Test007(r))
         /\ WellMade(Test008(r)) /\ WellMade(Test009(r)) /\ WellMade(Test010(r)) /\ WellMade(Test011(r))
         /\ WellMade(Test012(r)) /\ WellMade(Test013(r)) /\ WellMade(Test014(r)) /\ WellMade(Test015(r))
         /\ WellMade(Test016(r)) /\ WellMade(Test100(r)) /\ WellMade(Test101(r)) /\ WellMade(Test102(r))
         /\ WellMade(Test103(r)) /\ WellMade(Test104(r)) /\ WellMade(Test105(r)) /\ WellMade(Test106(r))
         /\ WellMade(Test107(r)) /\ WellMade(Test108(r)) /\ WellMade(Test109(r)) /\ WellMade(Test110(r))
         /\ WellMade(Test111(r)) /\ WellMade(Test112(r)) /\ WellMade(Test113(r)) /\ WellMade(Test114(r))
         /\ WellMade(Test115(r)) /\ WellMade(Test116(r))
<1>1. WellMade(Test000(r))
  BY Made000 DEF WellMade
<1>2. WellMade(Test001(r))
  BY Made001 DEF WellMade
<1>3. WellMade(Test002(r))
  BY Made002 DEF WellMade
<1>4. WellMade(Test003(r))
  <2>1. Test003(r).params[1] = RW(r) /\ Test003(r).call.from = 0
    BY DEF Test003, Case, InPlace
  <2>2. Source(Test003(r)).shared = FALSE
    BY <2>1 DEF Source, RW
  <2>. QED  BY <2>2, Made003 DEF WellMade
<1>5. WellMade(Test004(r))
  BY Made004 DEF WellMade
<1>6. WellMade(Test005(r))
  <2>1. Test005(r).params[1] = RW(r) /\ Test005(r).call.from = 0
    BY DEF Test005, Case, MayMove, InPlace
  <2>2. Source(Test005(r)).shared = FALSE
    BY <2>1 DEF Source, RW
  <2>. QED  BY <2>2, Made005 DEF WellMade
<1>7. WellMade(Test006(r))
  BY Made006 DEF WellMade
<1>8. WellMade(Test007(r))
  BY Made007 DEF WellMade
<1>9. WellMade(Test008(r))
  BY Made008 DEF WellMade
<1>10. WellMade(Test009(r))
  BY Made009 DEF WellMade
<1>11. WellMade(Test010(r))
  BY Made010 DEF WellMade
<1>12. WellMade(Test011(r))
  BY Made011 DEF WellMade
<1>13. WellMade(Test012(r))
  BY Made012 DEF WellMade
<1>14. WellMade(Test013(r))
  BY Made013 DEF WellMade
<1>15. WellMade(Test014(r))
  BY Made014 DEF WellMade
<1>16. WellMade(Test015(r))
  BY Made015 DEF WellMade
<1>17. WellMade(Test016(r))
  BY Made016 DEF WellMade
<1>18. WellMade(Test100(r))
  BY Made000, SharedFits DEF Test100
<1>19. WellMade(Test101(r))
  BY Made001, SharedFits DEF Test101
<1>20. WellMade(Test102(r))
  BY Made002, SharedFits DEF Test102
<1>21. WellMade(Test103(r))
  BY Made103, SharedFits
<1>22. WellMade(Test104(r))
  BY Made004, SharedFits DEF Test104
<1>23. WellMade(Test105(r))
  BY Made105, SharedFits
<1>24. WellMade(Test106(r))
  BY Made006, SharedFits DEF Test106
<1>25. WellMade(Test107(r))
  BY Made007, SharedFits DEF Test107
<1>26. WellMade(Test108(r))
  BY Made008, SharedFits DEF Test108
<1>27. WellMade(Test109(r))
  BY Made009, SharedFits DEF Test109
<1>28. WellMade(Test110(r))
  BY Made010, SharedFits DEF Test110
<1>29. WellMade(Test111(r))
  BY Made011, SharedFits DEF Test111
<1>30. WellMade(Test112(r))
  BY Made012, SharedFits DEF Test112
<1>31. WellMade(Test113(r))
  BY Made013, SharedFits DEF Test113
<1>32. WellMade(Test114(r))
  BY Made014, SharedFits DEF Test114
<1>33. WellMade(Test115(r))
  BY Made015, SharedFits DEF Test115
<1>34. WellMade(Test116(r))
  BY Made016, SharedFits DEF Test116
<1>. QED
  BY <1>1, <1>2, <1>3, <1>4, <1>5, <1>6, <1>7, <1>8, <1>9, <1>10, <1>11, <1>12,
     <1>13, <1>14, <1>15, <1>16, <1>17, <1>18, <1>19, <1>20, <1>21, <1>22, <1>23, <1>24,
     <1>25, <1>26, <1>27, <1>28, <1>29, <1>30, <1>31, <1>32, <1>33, <1>34

\* Both groups of sizes, and with them the whole suite.
LEMMA SuiteFits == \A n \in DOMAIN Suite : WellMade(Suite[n])
<1>. DEFINE r == MREMAP_RANGE_SIZE
            l == MREMAP_RANGE_LARGE_SIZE
<1>1. r \in Nat /\ r >= 2 /\ 6 * r <= SPACE /\ l \in Nat /\ l >= 2 /\ 6 * l <= SPACE
  BY SizesAssumption
<1>2. /\ WellMade(Test000(r)) /\ WellMade(Test001(r)) /\ WellMade(Test002(r)) /\ WellMade(Test003(r))
      /\ WellMade(Test004(r)) /\ WellMade(Test005(r)) /\ WellMade(Test006(r)) /\ WellMade(Test007(r))
      /\ WellMade(Test008(r)) /\ WellMade(Test009(r)) /\ WellMade(Test010(r)) /\ WellMade(Test011(r))
      /\ WellMade(Test012(r)) /\ WellMade(Test013(r)) /\ WellMade(Test014(r)) /\ WellMade(Test015(r))
      /\ WellMade(Test016(r)) /\ WellMade(Test100(r)) /\ WellMade(Test101(r)) /\ WellMade(Test102(r))
      /\ WellMade(Test103(r)) /\ WellMade(Test104(r)) /\ WellMade(Test105(r)) /\ WellMade(Test106(r))
      /\ WellMade(Test107(r)) /\ WellMade(Test108(r)) /\ WellMade(Test109(r)) /\ WellMade(Test110(r))
      /\ WellMade(Test111(r)) /\ WellMade(Test112(r)) /\ WellMade(Test113(r)) /\ WellMade(Test114(r))
      /\ WellMade(Test115(r)) /\ WellMade(Test116(r))
  BY <1>1, GroupFits
<1>3. /\ WellMade(Test200) /\ WellMade(Test201) /\ WellMade(Test202) /\ WellMade(Test203)
      /\ WellMade(Test204) /\ WellMade(Test205) /\ WellMade(Test206) /\ WellMade(Test207)
      /\ WellMade(Test208) /\ WellMade(Test209) /\ WellMade(Test210) /\ WellMade(Test211)
      /\ WellMade(Test212) /\ WellMade(Test213) /\ WellMade(Test214) /\ WellMade(Test215)
      /\ WellMade(Test216)
  BY <1>1, GroupFits
     DEF Test200, Test201, Test202, Test203, Test204, Test205, Test206, Test207, Test208, Test209, Test210, Test211,
     Test212, Test213, Test214, Test215, Test216
<1>4. /\ WellMade(Test300) /\ WellMade(Test301) /\ WellMade(Test302) /\ WellMade(Test303)
      /\ WellMade(Test304) /\ WellMade(Test305) /\ WellMade(Test306) /\ WellMade(Test307)
      /\ WellMade(Test308) /\ WellMade(Test309) /\ WellMade(Test310) /\ WellMade(Test311)
      /\ WellMade(Test312) /\ WellMade(Test313) /\ WellMade(Test314) /\ WellMade(Test315)
      /\ WellMade(Test316)
  BY <1>1, GroupFits
     DEF Test300, Test301, Test302, Test303, Test304, Test305, Test306, Test307, Test308, Test309, Test310, Test311,
     Test312, Test313, Test314, Test315, Test316
<1>. HIDE DEF r, l
<1>5. ASSUME NEW n \in DOMAIN Numbered(r)
      PROVE  WellMade(Numbered(r)[n])
  BY <1>2, <1>3, <1>4 DEF Numbered
<1>. QED  BY <1>5 DEF Suite, r

-----------------------------------------------------------------------------
(* The inductive invariant *)

\* Page g is one of range k of test t.
RangePage(t, g, k) ==
  LET q == t.params[k + 1] IN
  IF q.nopage THEN g = NoPage ELSE g.prot = q.prot /\ g.shared = q.shared /\ (q.prot = "rw" => g.val = k)

\* The address space v holds the first n ranges of t at the addresses a, from base on, and
\* nothing outside of the reservation.
LaidOut(t, v, a, base, n) ==
  \A k \in 0..(n - 1) :
    /\ a[k] = base + Offset(t.params, k)
    /\ \A p \in Space : a[k] <= p /\ p < a[k] + t.params[k + 1].size => RangePage(t, v[p], k)
Clear(t, v, base) == \A p \in Space : p < base \/ p >= base + Whole(t) => v[p] = NoPage
Layout(t, v, a, base, n) ==
  base \in Space /\ base + Whole(t) <= SPACE /\ LaidOut(t, v, a, base, n) /\ Clear(t, v, base)

PageOK(g) == DOMAIN g = {"prot", "shared", "val"} /\ g.prot \in {"free", "none", "r", "rw", "bus"}

\* The test is one of the suite; each loop is inside its array.

BasicInv ==
  /\ test \in DOMAIN Suite /\ T = Suite[test]
  /\ DOMAIN addr = 0..(Len(T.params) - 1) /\ \A k \in DOMAIN addr : addr[k] \in {-1} \union Space
  /\ pc \in {"reserve", "format", "remap", "check", "judge", "over"} /\ cur \in -1..SPACE /\ remap \in {-1} \union Space
  /\ \A p \in Space : PageOK(vm[p])
  /\ pc = "reserve" => i = 0 /\ \A p \in Space : vm[p] = NoPage
  /\ end \in {"none", "ok", "ng", "handled", "killed"} /\ verdict \in {"none", "ok", "ng"}

\* The ranges that are there, while the others are laid out.
FormatInv ==
  /\ pc = "format" => /\ i \in 0..(Len(T.params) - 1)
                      /\ \E base \in Space : cur = base + Offset(T.params, i) /\ Layout(T, vm, addr, base, i)
  /\ pc = "remap" => i = 1 /\ Layout(T, vm, addr, addr[0], Len(T.params))

\* What mremap() may have left behind when its result was the expected one, as far as the
\* checks can tell.  v and w are the address space before and after, from and b where the block
\* was and where it is now, f what the kernel gets wrong.

\* The block arrived, or a page of it lost its content.
Same(v, w, from, b, n) == \A k \in 0..(n - 1) : w[b + k] = v[from + k]
Carried(f, v, w, from, b, n) ==
  \A k \in 0..(n - 1) : w[b + k] = v[from + k] \/ (f # "none" /\ (w[b + k] = NoPage \/ w[b + k].val = Zero))

\* The pages the block gained.
Gains(t, f, w, b) ==
  t.call.new > t.call.old =>
    /\ b + t.call.new <= SPACE
    /\ \A k \in t.call.old..(t.call.new - 1) :
         IF f \in {"lost", "short"} THEN w[b + k] = NoPage
         ELSE w[b + k].prot = IF Source(t).shared /\ f # "zerofill" THEN "bus" ELSE "rw"

\* A page the block gave up is free, unless it was forgotten.
Leaves(f, v, w, p) == w[p] = NoPage \/ (f # "none" /\ w[p] = v[p])
GivesUp(t, f, v, w, from, b) ==
  /\ SameSize(t) => b = from /\ (w[from] = NoPage \/ \A p \in Space : w[p] = v[p])
  /\ Shrinks(t) => b = from /\ Leaves(f, v, w, from + t.call.new)
  /\ MustMove(t) \/ MovesTo(t) => Leaves(f, v, w, from)

\* What lies above the place a block moved to is as it was, but for one page.
Spares(f, v, w, p0) ==
  \A p \in Space : p >= p0 => w[p] = v[p] \/ (f # "none" /\ p = p0 /\ w[p].val = Zero)

Delivery(t, f, a, v, w, b) ==
  LET from == a[t.call.from]
      to == a[t.call.to] + t.call.off
  IN
  /\ t.expect = "ok" /\ Layout(t, v, a, a[0], Len(t.params)) /\ \A p \in Space : PageOK(w[p])
  /\ b \in Space /\ b + BlockLen(t) <= SPACE
  /\ Carried(f, v, w, from, b, BlockLen(t)) /\ Gains(t, f, w, b) /\ GivesUp(t, f, v, w, from, b)
  /\ MovesTo(t) => b = to
  /\ MovesTo(t) /\ Start(t) + t.call.old <= Dest(t) => Spares(f, v, w, to + t.call.new)

\* The checks so far: the first has seen the whole block, the second of 007 the rest of the
\* mapping; a handler is there for the last check only.
Seen(t, a, v, w, b, n) ==
  /\ n > 1 => /\ Same(v, w, a[t.call.from], b, BlockLen(t))
              /\ SameSize(t) => \A p \in Space : w[p] = v[p]
  /\ n > 2 /\ t.checks[2].op = "data" => LET p == a[t.call.to] + t.call.off + t.call.new IN w[p] = v[p]
Handlers(t, n) == IF n > 1 /\ t.checks[n - 1].op = "handler" THEN {t.checks[n - 1].exp} ELSE {}
CheckInv ==
  /\ pc \in {"reserve", "format", "remap"} => handler = {} /\ kmsg = FALSE
  /\ pc = "check" =>
       /\ i \in 1..Len(T.checks) /\ vm = after /\ kmsg = FALSE /\ handler = Handlers(T, i)
       /\ Delivery(T, fault, addr, before, after, remap) /\ Seen(T, addr, before, after, remap, i)

\* PassIsEarned, of a call that had to succeed.
EndsInProbe(t) == \E k \in DOMAIN t.checks : t.checks[k].op = "touch"
Earned(t, a, v, w, b, h) ==
  LET from == a[t.call.from]
      to == a[t.call.to] + t.call.off
      old == t.call.old
      new == t.call.new
  IN
  /\ \A k \in 0..(IF new > old THEN old - 1 ELSE new - 1) : w[(b + k) % SPACE] = v[(from + k) % SPACE]
  /\ new > old /\ "SEGV" \notin h => w[b + new - 1].prot = IF v[from].shared THEN "bus" ELSE "rw"
  /\ EndsInProbe(t) /\ new < old => w[b + new] = NoPage
  /\ EndsInProbe(t) /\ (t.call.flags = "FIXED" \/ (t.call.flags = "MAYMOVE" /\ "SEGV" \in h)) => w[from] = NoPage
  /\ t.call.flags = "FIXED" /\ v[to].prot = "rw" => w[to + new] = v[to + new]

\* A test that is over has earned its result, and on a good kernel the result is the good one.
EndInv ==
  /\ pc \in {"judge", "over"} <=> end # "none"
  /\ verdict # "none" => pc = "over"
  /\ end \in {"ok", "handled"} => IF T.expect = "ok" THEN Earned(T, addr, before, after, remap, handler)
                                  ELSE remap = -1 /\ fault # "refuse"
  /\ end = "handled" => kmsg /\ T.checks[i].op = "touch"
  /\ fault = "none" /\ end # "none" => end = IF EndsInProbe(T) THEN "handled" ELSE "ok"
  /\ fault = "none" => verdict # "ng"

IInv == BasicInv /\ FormatInv /\ CheckInv /\ EndInv

\* The test at work is well made.
LEMMA WellMadeT == BasicInv => WellMade(T)
  BY SuiteFits DEF BasicInv

\* What MapPages() and Fill() do to a page, where the range does not wrap.
LEMMA FormatPages ==
  ASSUME NEW v, NEW a \in Space, NEW k, NEW q, q = T.params[k + 1], q.size \in Nat, a + q.size <= SPACE,
         q.prot \in {"none", "r", "rw"}, \A p \in Space : PageOK(v[p]),
         NEW w, w = IF q.nopage THEN MapPages(v, a, q.size, NoPage)
                    ELSE Fill(MapPages(v, a, q.size, Fresh(q.prot, q.shared)), a, k)
  PROVE  \A p \in Space :
           /\ PageOK(w[p])
           /\ a <= p /\ p < a + q.size => RangePage(T, w[p], k)
           /\ ~(a <= p /\ p < a + q.size) => w[p] = v[p]
<1>. SUFFICES ASSUME NEW p \in Space
              PROVE  /\ PageOK(w[p])
                     /\ a <= p /\ p < a + q.size => RangePage(T, w[p], k)
                     /\ ~(a <= p /\ p < a + q.size) => w[p] = v[p]
  OBVIOUS
<1>1. Within(p, a, q.size) <=> a <= p /\ p < a + q.size
  BY WithinLaw
<1>2. CASE q.nopage
  <2>1. w[p] = IF Within(p, a, q.size) THEN NoPage ELSE v[p]
    BY <1>2 DEF MapPages
  <2>2. PageOK(NoPage)
    BY DEF PageOK, NoPage
  <2>. QED  BY <1>1, <1>2, <2>1, <2>2 DEF RangePage
<1>3. CASE ~q.nopage
  <2>. DEFINE g == Fresh(q.prot, q.shared)
              m == MapPages(v, a, q.size, g)
  <2>1. m[p] = IF Within(p, a, q.size) THEN g ELSE v[p]
    BY DEF MapPages
  <2>2. w = Fill(m, a, k)
    BY <1>3
  <2>3. PageOK(g) /\ g.prot = q.prot /\ g.shared = q.shared
    BY DEF Fresh, PageOK
  <2>4. w[p] = IF q.prot = "rw" /\ Within(p, a, q.size) THEN [m[p] EXCEPT !.val = k] ELSE m[p]
    BY <2>2 DEF Fill
  <2>. HIDE DEF g, m
  <2>5. CASE Within(p, a, q.size) /\ q.prot = "rw"
    <3>1. w[p] = [g EXCEPT !.val = k]
      BY <2>1, <2>4, <2>5
    <3>2. PageOK(w[p]) /\ w[p].prot = q.prot /\ w[p].shared = q.shared /\ w[p].val = k
      BY <3>1, <2>3 DEF PageOK
    <3>. QED  BY <3>2, <1>1, <1>3, <2>5 DEF RangePage
  <2>6. CASE Within(p, a, q.size) /\ q.prot # "rw"
    <3>1. w[p] = g
      BY <2>1, <2>4, <2>6
    <3>. QED  BY <3>1, <2>3, <1>1, <1>3, <2>6 DEF RangePage
  <2>7. CASE ~Within(p, a, q.size)
    BY <2>1, <2>4, <2>7, <1>1
  <2>. QED  BY <2>5, <2>6, <2>7
<1>. QED  BY <1>2, <1>3

\* One turn of the loop: the range at cur is laid out, the ranges below it and the pages outside
\* stay as they are.
LEMMA FormatLays ==
  ASSUME BasicInv, FormatInv, Format, pc' # "judge"
  PROVE  \E base \in Space :
           /\ cur' = base + Offset(T.params, i + 1) /\ Layout(T, vm', addr', base, i + 1)
           /\ cur \in Space /\ cur' \in -1..SPACE /\ addr'[i] = cur
           /\ \A p \in Space : PageOK(vm'[p])
<1>1. WellMade(T) /\ Described(T)
  BY WellMadeT DEF WellMade, Fits
<1>2. PICK n \in 1..5 : n = Len(T.params)
  BY <1>1 DEF Described
<1>3. i \in 0..(n - 1) /\ \A k \in 1..n : T.params[k].size \in Nat \ {0} /\ T.params[k].prot \in {"none", "r", "rw"}
  BY <1>1, <1>2 DEF Format, FormatInv, Described
<1>4. PICK base \in Space : cur = base + Offset(T.params, i) /\ Layout(T, vm, addr, base, i)
  BY DEF Format, FormatInv
<1>. DEFINE q == T.params[i + 1]
<1>5. /\ addr' = [addr EXCEPT ![i] = cur] /\ cur' = cur + q.size
      /\ vm' = IF q.nopage THEN MapPages(vm, cur, q.size, NoPage)
               ELSE Fill(MapPages(vm, cur, q.size, Fresh(q.prot, q.shared)), cur, i)
  BY DEF Format, Ended
<1>6. /\ q.size \in Nat \ {0} /\ q.prot \in {"none", "r", "rw"} /\ i \in Nat
      /\ i \in DOMAIN addr
  BY <1>2, <1>3 DEF BasicInv
<1>7. \A k \in 1..n : T.params[k].size \in Nat
  BY <1>3
<1>8. /\ \A k \in 0..n : Offset(T.params, k) \in Nat
      /\ \A j \in 0..(i - 1) : Offset(T.params, j) + T.params[j + 1].size <= Offset(T.params, i)
      /\ Offset(T.params, i + 1) = Offset(T.params, i) + q.size
      /\ Offset(T.params, i) + q.size <= Offset(T.params, n)
  <2>1. n \in 0..5 /\ i \in 0..n /\ n \in 0..n /\ i < n /\ \A j \in 0..(i - 1) : j \in 0..n /\ j < i
    BY <1>3
  <2>2. /\ \A k \in 0..n : Offset(T.params, k) \in Nat
        /\ \A k \in 0..(n - 1) : Offset(T.params, k + 1) = Offset(T.params, k) + T.params[k + 1].size
        /\ \A j, k \in 0..n : j < k => Offset(T.params, j) + T.params[j + 1].size <= Offset(T.params, k)
    BY <2>1, <1>7, OffsetSteps
  <2>. QED  BY <2>1, <2>2, <1>3
<1>9. /\ Offset(T.params, i + 1) = Offset(T.params, i) + q.size
      /\ Offset(T.params, i) + q.size <= Offset(T.params, n)
  BY <1>8
<1>. HIDE DEF q
<1>10. base + Offset(T.params, n) <= SPACE /\ base \in Nat /\ Offset(T.params, n) \in Nat /\ Offset(T.params, i) \in Nat
  BY <1>2, <1>3, <1>4, <1>8, SpacePos DEF Layout, Whole
<1>11. cur \in Space /\ cur + q.size <= SPACE /\ cur' \in -1..SPACE
  <2>1. cur = base + Offset(T.params, i) /\ cur' = cur + q.size
    BY <1>4, <1>5
  <2>2. q.size \in Nat /\ q.size >= 1
    BY <1>6
  <2>3. cur \in Nat /\ cur + q.size <= SPACE
    BY <2>1, <2>2, <1>9, <1>10, SpacePos
  <2>. QED  BY <2>1, <2>2, <2>3, SpacePos
<1>12. \A p \in Space :
         /\ PageOK(vm'[p])
         /\ cur <= p /\ p < cur + q.size => RangePage(T, vm'[p], i)
         /\ ~(cur <= p /\ p < cur + q.size) => vm'[p] = vm[p]
  <2>1. \A p \in Space : PageOK(vm[p])
    BY DEF BasicInv
  <2>2. q = T.params[i + 1] /\ q.size \in Nat
    BY <1>6 DEF q
  <2>3. q.prot \in {"none", "r", "rw"}
    BY <1>6
  <2>. HIDE DEF q
  <2>. QED  BY ONLY <1>5, <1>11, <2>1, <2>2, <2>3, FormatPages
<1>13. addr'[i] = cur /\ \A k \in 0..(i - 1) : addr'[k] = addr[k]
  BY <1>5, <1>6, <1>2, <1>3 DEF BasicInv
<1>14. LaidOut(T, vm', addr', base, i + 1)
  <2>. SUFFICES ASSUME NEW k \in 0..i
                PROVE  /\ addr'[k] = base + Offset(T.params, k)
                       /\ \A p \in Space : addr'[k] <= p /\ p < addr'[k] + T.params[k + 1].size => RangePage(T, vm'[p], k)
    BY <1>6 DEF LaidOut
  <2>1. CASE k = i
    BY <2>1, <1>4, <1>12, <1>13 DEF q
  <2>2. CASE k # i
    <3>1. k \in 0..(i - 1)
      BY <2>2, <1>6
    <3>2. /\ addr[k] = base + Offset(T.params, k) /\ addr'[k] = addr[k]
          /\ \A p \in Space : addr[k] <= p /\ p < addr[k] + T.params[k + 1].size => RangePage(T, vm[p], k)
      BY <3>1, <1>4, <1>13 DEF Layout, LaidOut
    <3>3. addr[k] + T.params[k + 1].size <= cur /\ addr[k] \in Int /\ T.params[k + 1].size \in Nat
      <4>1. k + 1 \in 1..n /\ k \in 0..n
        BY <3>1, <1>3
      <4>2. T.params[k + 1].size \in Nat /\ Offset(T.params, k) \in Nat
        BY <4>1, <1>7, <1>8
      <4>. QED  BY <3>1, <3>2, <4>2, <1>4, <1>8, <1>10
    <3>4. \A p \in Space : p < cur => vm'[p] = vm[p]
      BY <1>12, <1>11, SpacePos
    <3>. QED  BY <3>2, <3>3, <3>4, <1>11, SpacePos
  <2>. QED  BY <2>1, <2>2
<1>15. Clear(T, vm', base)
  <2>. SUFFICES ASSUME NEW p \in Space, p < base \/ p >= base + Whole(T)
                PROVE  vm'[p] = NoPage
    BY DEF Clear
  <2>1. vm[p] = NoPage
    BY <1>4 DEF Layout, Clear
  <2>2. ~(cur <= p /\ p < cur + q.size)
    <3>1. Whole(T) = Offset(T.params, n)
      BY <1>2 DEF Whole
    <3>2. cur = base + Offset(T.params, i)
      BY <1>4
    <3>. QED  BY <3>1, <3>2, <1>6, <1>9, <1>10, SpacePos
  <2>. QED  BY <2>1, <2>2, <1>12
<1>16. cur' = base + Offset(T.params, i + 1)
  BY <1>4, <1>5, <1>6, <1>8, <1>10
<1>. QED  BY <1>4, <1>11, <1>12, <1>13, <1>14, <1>15, <1>16 DEF Layout

-----------------------------------------------------------------------------
(* mremap() on the layout of a test *)

\* Where the call starts from and where it goes.
LEMMA Where ==
  ASSUME BasicInv, NEW v, Layout(T, v, addr, addr[0], Len(T.params))
  PROVE  /\ WellMade(T) /\ Described(T) /\ CallFits(T)
         /\ addr[0] \in Nat /\ Start(T) \in Nat /\ Dest(T) \in Nat /\ Whole(T) \in Nat
         /\ addr[0] + Whole(T) <= SPACE
         /\ From = addr[0] + Start(T) /\ To = addr[0] + Dest(T) /\ From \in Space /\ To \in Space
         /\ Source(T).size \in Nat \ {0} /\ C.old \in Nat \ {0} /\ C.new \in Nat \ {0}
         /\ Start(T) + Source(T).size <= Whole(T)
         /\ \A p \in Space : From <= p /\ p < From + Source(T).size => RangePage(T, v[p], C.from)
         /\ C.from + 1 < Len(T.params) =>
              /\ Neighbour(T).size \in Nat \ {0} /\ Neighbour(T).prot \in {"none", "r", "rw"}
              /\ Start(T) + Source(T).size + Neighbour(T).size <= Whole(T)
              /\ \A p \in Space : /\ From + Source(T).size <= p
                                  /\ p < From + Source(T).size + Neighbour(T).size
                                  => RangePage(T, v[p], C.from + 1)
<1>1. WellMade(T) /\ Described(T) /\ CallFits(T)
  BY WellMadeT DEF WellMade, Fits
<1>2. PICK n \in 1..5 : n = Len(T.params)
  BY <1>1 DEF Described
<1>3. C.from \in 0..(n - 1) /\ C.to \in 0..(n - 1)
  BY <1>1, <1>2 DEF Described, C
<1>4. C.off \in Nat /\ C.off < T.params[C.to + 1].size
  BY <1>1 DEF Described, C
<1>5. C.old \in Nat \ {0} /\ C.new \in Nat \ {0}
  BY <1>1 DEF Described, C
<1>6. \A k \in 1..n : T.params[k].size \in Nat \ {0} /\ T.params[k].prot \in {"none", "r", "rw"}
  BY <1>1, <1>2 DEF Described
<1>7. /\ \A k \in 0..n : Offset(T.params, k) \in Nat
      /\ \A k \in 0..(n - 1) : Offset(T.params, k + 1) = Offset(T.params, k) + T.params[k + 1].size
      /\ \A j, k \in 0..n : j < k => Offset(T.params, j) + T.params[j + 1].size <= Offset(T.params, k)
  <2>1. n \in 0..5 /\ \A k \in 1..n : T.params[k].size \in Nat
    BY <1>6
  <2>. QED  BY <2>1, OffsetSteps
<1>8. addr[0] \in Nat /\ addr[0] + Whole(T) <= SPACE
  BY SpacePos DEF Layout
<1>9. /\ \A k \in 0..(n - 1) :
           /\ addr[k] = addr[0] + Offset(T.params, k)
           /\ \A p \in Space : addr[k] <= p /\ p < addr[k] + T.params[k + 1].size => RangePage(T, v[p], k)
  BY <1>2 DEF Layout, LaidOut
<1>10. /\ Start(T) = Offset(T.params, C.from) /\ Dest(T) = Offset(T.params, C.to) + C.off
       /\ Whole(T) = Offset(T.params, n) /\ Source(T) = T.params[C.from + 1] /\ Neighbour(T) = T.params[C.from + 2]
  BY <1>2 DEF Start, Dest, Whole, Source, Neighbour, C
<1>11. /\ Start(T) \in Nat /\ Dest(T) \in Nat /\ Whole(T) \in Nat
       /\ Source(T).size \in Nat \ {0} /\ Start(T) + Source(T).size <= Whole(T)
       /\ Dest(T) < Whole(T)
  <2>1. C.from \in 0..n /\ C.to \in 0..n /\ n \in 0..n /\ C.from < n /\ C.to < n /\ C.from + 1 \in 1..n /\ C.to + 1 \in 1..n
    BY <1>3
  <2>2. /\ Offset(T.params, C.from) \in Nat /\ Offset(T.params, C.to) \in Nat /\ Offset(T.params, n) \in Nat
        /\ T.params[C.from + 1].size \in Nat \ {0} /\ T.params[C.to + 1].size \in Nat \ {0}
        /\ Offset(T.params, C.from) + T.params[C.from + 1].size <= Offset(T.params, n)
        /\ Offset(T.params, C.to) + T.params[C.to + 1].size <= Offset(T.params, n)
    BY <2>1, <1>6, <1>7
  <2>3. /\ Start(T) \in Nat /\ Whole(T) \in Nat /\ Source(T).size \in Nat \ {0}
        /\ Start(T) + Source(T).size <= Whole(T)
    BY <2>2, <1>10
  <2>4. Dest(T) \in Nat /\ Dest(T) < Whole(T)
    <3>1. Dest(T) = Offset(T.params, C.to) + C.off /\ Whole(T) = Offset(T.params, n)
      BY <1>10
    <3>. QED  BY <3>1, <2>2, <1>4
  <2>. QED  BY <2>3, <2>4
<1>12. From = addr[0] + Start(T) /\ To = addr[0] + Dest(T)
  <2>1. addr[C.to] = addr[0] + Offset(T.params, C.to) /\ Offset(T.params, C.to) \in Nat
    BY <1>3, <1>7, <1>9
  <2>2. addr[C.from] = addr[0] + Offset(T.params, C.from)
    BY <1>3, <1>9
  <2>3. From = addr[0] + Start(T)
    BY <2>2, <1>10 DEF From
  <2>4. To = addr[0] + Dest(T)
    <3>1. To = (addr[0] + Offset(T.params, C.to)) + C.off /\ Dest(T) = Offset(T.params, C.to) + C.off
      BY <2>1, <1>10 DEF To
    <3>. QED  BY <3>1, <2>1, <1>4, <1>8
  <2>. QED  BY <2>3, <2>4
<1>13. From \in Space /\ To \in Space
  <2>1. From \in Nat /\ From < SPACE
    <3>1. Start(T) \in Nat /\ Whole(T) \in Nat /\ Start(T) < Whole(T)
      BY <1>11
    <3>. QED  BY <3>1, <1>8, <1>12, SpacePos
  <2>2. To \in Nat /\ To < SPACE
    <3>1. Dest(T) \in Nat /\ Whole(T) \in Nat /\ Dest(T) < Whole(T)
      BY <1>11
    <3>. QED  BY <3>1, <1>8, <1>12, SpacePos
  <2>. QED  BY <2>1, <2>2, SpacePos
<1>14. \A p \in Space : From <= p /\ p < From + Source(T).size => RangePage(T, v[p], C.from)
  BY <1>3, <1>9, <1>10 DEF From
<1>15. ASSUME C.from + 1 < n
       PROVE  /\ Neighbour(T).size \in Nat \ {0} /\ Neighbour(T).prot \in {"none", "r", "rw"}
              /\ Start(T) + Source(T).size + Neighbour(T).size <= Whole(T)
              /\ \A p \in Space : /\ From + Source(T).size <= p
                                  /\ p < From + Source(T).size + Neighbour(T).size
                                  => RangePage(T, v[p], C.from + 1)
  <2>. DEFINE k == C.from + 1
  <2>1. k \in 0..(n - 1) /\ k \in 0..n /\ n \in 0..n /\ k < n /\ k + 1 \in 1..n /\ k + 1 = C.from + 2 /\ C.from \in 0..(n - 1)
    <3>1. C.from \in Int /\ 0 <= C.from /\ C.from + 1 < n /\ n \in Nat
      BY <1>3, <1>15
    <3>. QED  BY <3>1
  <2>2. /\ Neighbour(T) = T.params[k + 1] /\ Neighbour(T).size \in Nat \ {0}
        /\ Neighbour(T).prot \in {"none", "r", "rw"}
    BY <2>1, <1>6, <1>10
  <2>3. Offset(T.params, k) = Start(T) + Source(T).size
    BY <2>1, <1>7, <1>10
  <2>4. Offset(T.params, k) + T.params[k + 1].size <= Offset(T.params, n)
    BY <2>1, <1>7
  <2>5. addr[k] = From + Source(T).size
    <3>1. addr[k] = addr[0] + Offset(T.params, k)
      BY <2>1, <1>9
    <3>. QED  BY <3>1, <2>3, <1>11, <1>12, <1>8
  <2>6. \A p \in Space : addr[k] <= p /\ p < addr[k] + T.params[k + 1].size => RangePage(T, v[p], k)
    BY <2>1, <1>9
  <2>. HIDE DEF k
  <2>7. Start(T) + Source(T).size + Neighbour(T).size <= Whole(T)
    BY <2>2, <2>3, <2>4, <1>10
  <2>. QED  BY <2>2, <2>5, <2>6, <2>7 DEF k
<1>. QED  BY <1>1, <1>2, <1>5, <1>8, <1>11, <1>12, <1>13, <1>14, <1>15

\* The pages of Moved(), where neither block wraps.
LEMMA MovedPages ==
  ASSUME NEW v, NEW b \in Space, b + C.new <= SPACE, From \in Space, From + C.old <= SPACE,
         C.old \in Nat \ {0}, C.new \in Nat \ {0}, NEW p \in Space
  PROVE  /\ b <= p /\ p < b + C.new /\ p - b < C.old =>
              Moved(v, b)[p] = IF fault = "lost" THEN NoPage
                               ELSE IF fault = "nodata" /\ b # From /\ p - b = C.old - 1
                               THEN Fresh("rw", v[From].shared) ELSE v[From + (p - b)]
         /\ b <= p /\ p < b + C.new /\ p - b >= C.old =>
              Moved(v, b)[p] = IF fault \in {"lost", "short"} THEN NoPage ELSE Gained(v)
         /\ ~(b <= p /\ p < b + C.new) /\ From <= p /\ p < From + C.old =>
              Moved(v, b)[p] = IF fault = (IF b = From THEN "keeptail" ELSE "keepold") THEN v[p] ELSE NoPage
         /\ ~(b <= p /\ p < b + C.new) /\ ~(From <= p /\ p < From + C.old) =>
              Moved(v, b)[p] = IF fault = "clobber" /\ C.flags = "FIXED" /\ p = b + C.new
                               THEN [v[p] EXCEPT !.val = Zero] ELSE v[p]
<1>1. Within(p, b, C.new) <=> b <= p /\ p < b + C.new
  BY WithinLaw
<1>2. Within(p, From, C.old) <=> From <= p /\ p < From + C.old
  BY WithinLaw
<1>3. ASSUME b <= p, p - b < C.old
      PROVE  (From + p - b) % SPACE = From + (p - b)
  <2>1. From + p - b \in Int /\ 0 <= From + p - b /\ From + p - b < SPACE /\ From + p - b = From + (p - b)
    BY <1>3, SpacePos
  <2>. QED  BY <2>1, ModLaws
<1>4. Moved(v, b)[p] =
        IF Within(p, b, C.new)
        THEN CASE fault = "lost" -> NoPage
               [] fault # "lost" /\ (p - b) < C.old ->
                    IF fault = "nodata" /\ b # From /\ p - b = C.old - 1 THEN Fresh("rw", v[From].shared)
                    ELSE v[(From + p - b) % SPACE]
               [] fault # "lost" /\ (p - b) >= C.old -> IF fault = "short" THEN NoPage ELSE Gained(v)
        ELSE IF Within(p, From, C.old)
        THEN IF fault = (IF b = From THEN "keeptail" ELSE "keepold") THEN v[p] ELSE NoPage
        ELSE IF fault = "clobber" /\ C.flags = "FIXED" /\ p = b + C.new THEN [v[p] EXCEPT !.val = Zero]
        ELSE v[p]
  BY DEF Moved
<1>. DEFINE m == Moved(v, b)[p]
<1>5. m = Moved(v, b)[p]
  OBVIOUS
<1>. HIDE DEF m
<1>6. ASSUME b <= p, p < b + C.new, p - b < C.old
      PROVE  m = IF fault = "lost" THEN NoPage
                 ELSE IF fault = "nodata" /\ b # From /\ p - b = C.old - 1
                 THEN Fresh("rw", v[From].shared) ELSE v[From + (p - b)]
  <2>1. Within(p, b, C.new) /\ (From + p - b) % SPACE = From + (p - b)
    BY <1>1, <1>3, <1>6
  <2>2. CASE fault = "lost"
    BY <2>1, <2>2, <1>4, <1>5
  <2>3. CASE fault # "lost"
    <3>1. (p - b) < C.old /\ ~((p - b) >= C.old)
      BY <1>6, SpacePos
    <3>2. m = IF fault = "nodata" /\ b # From /\ p - b = C.old - 1 THEN Fresh("rw", v[From].shared)
              ELSE v[(From + p - b) % SPACE]
      BY <2>1, <2>3, <3>1, <1>4, <1>5
    <3>. QED  BY <2>1, <2>3, <3>2
  <2>. QED  BY <2>2, <2>3
<1>7. ASSUME b <= p, p < b + C.new, p - b >= C.old
      PROVE  m = IF fault \in {"lost", "short"} THEN NoPage ELSE Gained(v)
  BY <1>1, <1>4, <1>5, <1>7, SpacePos
<1>8. ASSUME ~(b <= p /\ p < b + C.new), From <= p, p < From + C.old
      PROVE  m = IF fault = (IF b = From THEN "keeptail" ELSE "keepold") THEN v[p] ELSE NoPage
  BY <1>1, <1>2, <1>4, <1>5, <1>8
<1>9. ASSUME ~(b <= p /\ p < b + C.new), ~(From <= p /\ p < From + C.old)
      PROVE  m = IF fault = "clobber" /\ C.flags = "FIXED" /\ p = b + C.new
                 THEN [v[p] EXCEPT !.val = Zero] ELSE v[p]
  BY <1>1, <1>2, <1>4, <1>5, <1>9
<1>. QED  BY <1>5, <1>6, <1>7, <1>8, <1>9

\* The reservation leaves room for a block that has to move.
LEMMA PlaceFound ==
  ASSUME BasicInv, Layout(T, vm, addr, addr[0], Len(T.params)), MustMove(T)
  PROVE  Places # {}
<1>. DEFINE b == IF addr[0] >= C.new THEN 0 ELSE addr[0] + Whole(T)
<1>1. /\ addr[0] \in Nat /\ Whole(T) \in Nat /\ C.new \in Nat \ {0}
      /\ addr[0] + Whole(T) <= SPACE /\ Whole(T) + 2 * C.new <= SPACE
  BY Where DEF MustMove, C
<1>2. b \in Space /\ b + C.new <= SPACE /\ (b + C.new <= addr[0] \/ b >= addr[0] + Whole(T))
  BY <1>1, SpacePos
<1>. HIDE DEF b
<1>3. ASSUME NEW p \in Pages(b, C.new)
      PROVE  vm[p] = NoPage
  <2>1. p \in b..(b + C.new - 1)
    BY <1>1, <1>2, PagesLaw
  <2>2. p \in Space /\ (p < addr[0] \/ p >= addr[0] + Whole(T))
    BY <2>1, <1>1, <1>2, SpacePos
  <2>. QED  BY <2>2 DEF Layout, Clear
<1>4. Free(vm, b, C.new)
  BY <1>2, <1>3 DEF Free
<1>. QED  BY <1>2, <1>4 DEF Places

\* A place that is free holds none of the pages of the block.
LEMMA FreePlace ==
  ASSUME BasicInv, NEW b \in Places, C.new \in Nat
  PROVE  /\ b \in Space /\ b + C.new <= SPACE
         /\ \A p \in Space : b <= p /\ p < b + C.new => vm[p] = NoPage
<1>1. b \in Space /\ b + C.new <= SPACE /\ \A p \in Pages(b, C.new) : vm[p] = NoPage
  BY DEF Places, Free
<1>2. Pages(b, C.new) = b..(b + C.new - 1)
  BY <1>1, PagesLaw
<1>. QED  BY <1>1, <1>2, SpacePos

\* What the call can come to, kind by kind.
LEMMA OutcomeOf ==
  ASSUME BasicInv, Layout(T, vm, addr, addr[0], Len(T.params)), NEW r \in Outcomes
  PROVE  /\ fault = "refuse" => r = Failed("EPERM")
         /\ fault # "refuse" /\ SameSize(T) =>
              r = Result(IF fault = "lost" THEN MapPages(vm, From, 1, NoPage) ELSE vm, From)
         /\ fault # "refuse" /\ (Shrinks(T) \/ GrowsInPlace(T)) => r = Result(Moved(vm, From), From)
         /\ fault # "refuse" /\ HemmedIn(T) /\ C.flags # "FIXED" /\ fault = "grab" => r = Result(Moved(vm, From), From)
         /\ fault # "refuse" /\ HemmedIn(T) /\ C.flags = "0" /\ fault # "grab" => r = Failed("ENOMEM")
         /\ fault # "refuse" /\ HemmedIn(T) /\ C.flags = "MAYMOVE" /\ fault # "grab" => r \in Anywhere
         /\ fault # "refuse" /\ MovesTo(T) => r = Result(Moved(vm, To), To) \/ (fault = "elsewhere" /\ r \in Anywhere)
         /\ fault # "refuse" /\ Collides(T) /\ fault # "overlap" => r = Failed("EINVAL")
         /\ fault # "refuse" /\ Collides(T) /\ fault = "overlap" => r = Result(Moved(vm, To), To)
<1>1. /\ WellMade(T) /\ Described(T) /\ CallFits(T)
      /\ From = addr[0] + Start(T) /\ To = addr[0] + Dest(T) /\ From \in Space /\ To \in Space
  BY Where
<1>2. From = addr[0] + Start(T) /\ To = addr[0] + Dest(T) /\ From \in 0..(SPACE - 1) /\ To \in 0..(SPACE - 1) /\ SPACE \in Nat
  BY <1>1, SpacePos
<1>3. /\ addr[0] \in Nat /\ Start(T) \in Nat /\ Dest(T) \in Nat /\ Whole(T) \in Nat /\ addr[0] + Whole(T) <= SPACE
      /\ Source(T).size \in Nat /\ Start(T) + Source(T).size <= Whole(T)
      /\ C.old \in Nat /\ C.new \in Nat /\ C.old > 0 /\ C.new > 0
  BY Where
<1>4. C.flags \in {"0", "MAYMOVE", "FIXED"}
  BY <1>1 DEF Described, C
<1>5. Outcomes =
        CASE fault = "refuse" -> {Failed("EPERM")}
          [] fault # "refuse" /\ Overlap /\ fault # "overlap" -> {Failed("EINVAL")}
          [] fault # "refuse" /\ C.flags = "FIXED" /\ (Overlap => fault = "overlap") ->
               IF fault = "elsewhere" THEN Anywhere ELSE {Result(Moved(vm, To), To)}
          [] fault # "refuse" /\ C.flags # "FIXED" /\ C.old = C.new ->
               {Result(IF fault = "lost" THEN MapPages(vm, From, 1, NoPage) ELSE vm, From)}
          [] fault # "refuse" /\ C.flags # "FIXED" /\ C.old # C.new /\ (Grows => Room) -> {Result(Moved(vm, From), From)}
          [] fault # "refuse" /\ C.flags = "MAYMOVE" /\ Grows /\ ~Room -> Anywhere
          [] fault # "refuse" /\ C.flags = "0" /\ Grows /\ ~Room -> {Failed("ENOMEM")}
  BY DEF Outcomes
<1>6. Overlap => C.flags = "FIXED"
  BY DEF Overlap
<1>. DEFINE same == Result(IF fault = "lost" THEN MapPages(vm, From, 1, NoPage) ELSE vm, From)
            stays == Result(Moved(vm, From), From)
            goes == Result(Moved(vm, To), To)
            o == Outcomes
<1>7. Grows <=> C.new > C.old
  BY DEF Grows
<1>. HIDE DEF same, stays, goes, o
<1>8. fault = "refuse" => o = {Failed("EPERM")}
  BY <1>5 DEF o
<1>9. ASSUME fault # "refuse", C.flags # "FIXED", C.old = C.new
      PROVE  o = {same}
  BY <1>3, <1>4, <1>5, <1>6, <1>7, <1>9 DEF o, same
<1>10. ASSUME fault # "refuse", C.flags # "FIXED", C.old # C.new, Grows => Room
       PROVE  o = {stays}
  BY <1>4, <1>5, <1>6, <1>10 DEF o, stays
<1>11. ASSUME fault # "refuse", C.flags # "FIXED", C.old # C.new, Grows, ~Room
       PROVE  o = IF C.flags = "MAYMOVE" THEN Anywhere ELSE {Failed("ENOMEM")}
  BY <1>4, <1>5, <1>6, <1>11 DEF o
<1>12. ASSUME fault # "refuse", C.flags = "FIXED", Overlap, fault # "overlap"
       PROVE  o = {Failed("EINVAL")}
  BY <1>5, <1>12 DEF o
<1>13. ASSUME fault # "refuse", C.flags = "FIXED", Overlap => fault = "overlap"
       PROVE  o = IF fault = "elsewhere" THEN Anywhere ELSE {goes}
  BY <1>5, <1>13 DEF o, goes
<1>14. ASSUME fault # "refuse", SameSize(T)
       PROVE  o = {same}
  BY <1>9, <1>14 DEF SameSize, C
<1>15. ASSUME fault # "refuse", Shrinks(T)
       PROVE  o = {stays}
  <2>1. C.flags # "FIXED" /\ C.old # C.new /\ ~Grows
    BY <1>15, <1>3, <1>7 DEF Shrinks, C
  <2>. QED  BY <2>1, <1>10, <1>15
<1>16. ASSUME fault # "refuse", GrowsInPlace(T)
       PROVE  o = {stays}
  <2>1. C.flags # "FIXED" /\ C.old # C.new /\ C.old = Source(T).size /\ C.new > C.old
    BY <1>16, <1>3 DEF GrowsInPlace, C
  <2>2. Room
    <3>1. /\ C.from + 1 < Len(T.params) /\ Neighbour(T).nopage /\ C.new - C.old <= Neighbour(T).size
      BY <1>16 DEF GrowsInPlace, C
    <3>2. /\ Neighbour(T).size \in Nat /\ Start(T) + Source(T).size + Neighbour(T).size <= Whole(T)
          /\ \A p \in Space : /\ From + Source(T).size <= p
                              /\ p < From + Source(T).size + Neighbour(T).size
                              => RangePage(T, vm[p], C.from + 1)
      BY <3>1, Where
    <3>3. \A g : RangePage(T, g, C.from + 1) => g = NoPage
      <4>1. C.from \in Nat /\ (C.from + 1) + 1 = C.from + 2
        BY <1>1 DEF Described, C
      <4>2. Neighbour(T) = T.params[(C.from + 1) + 1]
        BY <4>1 DEF Neighbour, C
      <4>. QED  BY <4>2, <3>1 DEF RangePage
    <3>4. /\ C.old = Source(T).size /\ C.new > C.old /\ C.new - C.old <= Neighbour(T).size
          /\ Neighbour(T).size \in Nat /\ Start(T) + Source(T).size + Neighbour(T).size <= Whole(T)
      BY <2>1, <3>1, <3>2
    <3>. DEFINE a == From + C.old
                n == C.new - C.old
    <3>5. a \in Space /\ n \in Nat /\ a + n <= SPACE
      <4>1. From + C.old >= 0 /\ From + C.old < SPACE /\ From + C.old \in Int
        BY ONLY <1>2, <1>3, <3>4
      <4>2. From + C.new <= SPACE /\ C.new - C.old \in Nat /\ (From + C.old) + (C.new - C.old) = From + C.new
        BY ONLY <1>2, <1>3, <3>4
      <4>. QED  BY <4>1, <4>2, SpacePos
    <3>6. Pages(a, n) = a..(a + n - 1)
      BY <3>5, PagesLaw
    <3>7. \A p \in Pages(a, n) : vm[p] = NoPage
      <4>. SUFFICES ASSUME NEW p \in Pages(a, n)
                    PROVE  vm[p] = NoPage
        OBVIOUS
      <4>1. p \in a..(a + n - 1)
        BY <3>6
      <4>2. p \in Space /\ From + Source(T).size <= p /\ p < From + Source(T).size + Neighbour(T).size
        <5>1. p \in Int /\ p >= From + C.old /\ p <= From + C.old + (C.new - C.old) - 1 /\ p < SPACE
          BY ONLY <4>1, <3>5, <1>2, <1>3 DEF a, n
        <5>2. p \in Space
          BY <5>1, <1>2, <1>3, SpacePos
        <5>3. From + Source(T).size <= p /\ p < From + Source(T).size + Neighbour(T).size
          BY ONLY <5>1, <1>2, <1>3, <3>4
        <5>. QED  BY <5>2, <5>3
      <4>. QED  BY <4>2, <3>2, <3>3
    <3>. QED  BY <3>5, <3>7 DEF Room, Free
  <2>. QED  BY <2>1, <2>2, <1>10, <1>16
<1>17. ASSUME HemmedIn(T)
       PROVE  C.old # C.new /\ Grows /\ (Room <=> fault = "grab")
  <2>1. C.old # C.new /\ C.old = Source(T).size /\ C.new > C.old /\ C.from + 1 < Len(T.params) /\ ~Neighbour(T).nopage
    BY <1>17, <1>3 DEF HemmedIn, C
  <2>2. /\ Neighbour(T).size \in Nat /\ Neighbour(T).size > 0 /\ Neighbour(T).prot \in {"none", "r", "rw"}
        /\ Start(T) + Source(T).size + Neighbour(T).size <= Whole(T)
        /\ \A p \in Space : /\ From + Source(T).size <= p
                            /\ p < From + Source(T).size + Neighbour(T).size
                            => RangePage(T, vm[p], C.from + 1)
    BY <2>1, Where
  <2>. DEFINE a == From + C.old
  <2>3. a \in Space /\ From + Source(T).size <= a /\ a < From + Source(T).size + Neighbour(T).size
    <3>1. /\ Neighbour(T).size \in Nat /\ Neighbour(T).size > 0 /\ Start(T) + Source(T).size + Neighbour(T).size <= Whole(T)
          /\ C.old = Source(T).size
      BY <2>1, <2>2
    <3>2. From + C.old \in Int /\ From + C.old >= 0 /\ From + C.old < SPACE
      BY ONLY <1>2, <1>3, <3>1
    <3>3. From + Source(T).size <= From + C.old /\ From + C.old < From + Source(T).size + Neighbour(T).size
      BY ONLY <1>2, <1>3, <3>1
    <3>. QED  BY <3>2, <3>3, SpacePos
  <2>4. vm[a] # NoPage
    <3>1. RangePage(T, vm[a], C.from + 1)
      BY <2>2, <2>3
    <3>2. C.from \in Nat /\ (C.from + 1) + 1 = C.from + 2
      BY <1>1 DEF Described, C
    <3>3. Neighbour(T) = T.params[(C.from + 1) + 1]
      BY <3>2 DEF Neighbour, C
    <3>4. vm[a].prot = Neighbour(T).prot
      BY <3>1, <3>3, <2>1 DEF RangePage
    <3>. QED  BY <3>4, <2>2 DEF NoPage
  <2>5. a \in Pages(a, C.new - C.old)
    <3>1. 0 \in 0..((C.new - C.old) - 1) /\ (a + 0) % SPACE = a
      <4>1. a \in Int /\ 0 <= a /\ a < SPACE /\ a + 0 = a
        BY ONLY <2>3, SpacePos
      <4>2. 0 \in 0..((C.new - C.old) - 1)
        BY ONLY <1>3, <2>1
      <4>. HIDE DEF a
      <4>. QED  BY ONLY <4>1, <4>2, ModLaws
    <3>. QED  BY <3>1 DEF Pages
  <2>6. ~Free(vm, a, C.new - C.old)
    BY <2>4, <2>5 DEF Free
  <2>. QED  BY <2>1, <2>6, <1>7 DEF Room
<1>18. ASSUME Collides(T)
       PROVE  C.flags = "FIXED" /\ Overlap
  <2>1. C.flags = "FIXED" /\ Start(T) < Dest(T) + C.new /\ Dest(T) < Start(T) + C.old
    BY <1>18 DEF Collides, C
  <2>. DEFINE p == IF From <= To THEN To ELSE From
  <2>2. /\ p - From \in 0..(C.old - 1) /\ p - To \in 0..(C.new - 1)
        /\ From + (p - From) = p /\ To + (p - To) = p /\ p \in Space
    <3>1. From - To \in Int /\ From - To < C.new /\ To - From < C.old
      BY ONLY <2>1, <1>2, <1>3
    <3>2. CASE From <= To
      <4>1. p = To
        BY <3>2
      <4>2. To - From \in 0..(C.old - 1) /\ To - To \in 0..(C.new - 1) /\ From + (To - From) = To /\ To + (To - To) = To
        <5>1. From \in Int /\ To \in Int /\ C.old \in Int /\ C.new \in Int /\ C.new > 0
          BY <1>2, <1>3
        <5>. QED  BY ONLY <5>1, <3>1, <3>2
      <4>. QED  BY ONLY <4>1, <4>2, <1>1
    <3>3. CASE ~(From <= To)
      <4>1. p = From
        BY <3>3
      <4>2. From - From \in 0..(C.old - 1) /\ From - To \in 0..(C.new - 1) /\ From + (From - From) = From /\ To + (From - To) = From
        <5>1. From \in Int /\ To \in Int /\ C.old \in Int /\ C.new \in Int /\ C.old > 0
          BY <1>2, <1>3
        <5>. QED  BY ONLY <5>1, <3>1, <3>3
      <4>. QED  BY ONLY <4>1, <4>2, <1>1
    <3>. QED  BY <3>2, <3>3
  <2>3. p % SPACE = p
    <3>1. p \in Int /\ 0 <= p /\ p < SPACE
      BY <2>2, SpacePos DEF p
    <3>. HIDE DEF p
    <3>. QED  BY ONLY <3>1, ModLaws
  <2>. HIDE DEF p
  <2>4. p \in Pages(From, C.old) /\ p \in Pages(To, C.new)
    BY <2>2, <2>3 DEF Pages
  <2>. QED  BY <2>1, <2>4 DEF Overlap
<1>19. ASSUME MovesTo(T)
       PROVE  C.flags = "FIXED" /\ ~Overlap
  <2>1. /\ C.flags = "FIXED" /\ C.new = C.old /\ C.old = Source(T).size /\ Dest(T) + C.new <= Whole(T)
        /\ Dest(T) + C.new <= Start(T) \/ Start(T) + C.old <= Dest(T)
    BY <1>19 DEF MovesTo, C
  <2>2. /\ From + C.old <= SPACE /\ To + C.new <= SPACE
        /\ To + C.new <= From \/ From + C.old <= To
    BY ONLY <2>1, <1>2, <1>3
  <2>3. Pages(From, C.old) = From..(From + C.old - 1) /\ Pages(To, C.new) = To..(To + C.new - 1)
    <3>1. From + C.old <= SPACE /\ To + C.new <= SPACE
      BY <2>2
    <3>2. From \in Space /\ To \in Space /\ C.old \in Nat /\ C.new \in Nat
      BY <1>1, <1>3
    <3>. QED  BY ONLY <3>1, <3>2, PagesLaw
  <2>4. Pages(From, C.old) \intersect Pages(To, C.new) = {}
    <3>1. \A p \in Int : ~(p >= From /\ p <= From + C.old - 1 /\ p >= To /\ p <= To + C.new - 1)
      BY ONLY <2>2, <1>2, <1>3
    <3>. QED  BY ONLY <3>1, <2>3, <1>2, <1>3
  <2>. QED  BY <2>1, <2>4 DEF Overlap
<1>20. r \in o
  BY DEF o
<1>21. fault = "refuse" => r = Failed("EPERM")
  BY <1>8, <1>20
<1>22. fault # "refuse" /\ SameSize(T) => r = same
  BY <1>14, <1>20
<1>23. fault # "refuse" /\ (Shrinks(T) \/ GrowsInPlace(T)) => r = stays
  BY <1>15, <1>16, <1>20
<1>24. fault # "refuse" /\ HemmedIn(T) /\ C.flags # "FIXED" /\ fault = "grab" => r = stays
  BY <1>10, <1>17, <1>20
<1>25. fault # "refuse" /\ HemmedIn(T) /\ C.flags = "0" /\ fault # "grab" => r = Failed("ENOMEM")
  BY <1>11, <1>17, <1>20
<1>26. fault # "refuse" /\ HemmedIn(T) /\ C.flags = "MAYMOVE" /\ fault # "grab" => r \in Anywhere
  BY <1>11, <1>17, <1>20
<1>27. fault # "refuse" /\ MovesTo(T) => r = goes \/ (fault = "elsewhere" /\ r \in Anywhere)
  BY <1>13, <1>19, <1>20
<1>28. fault # "refuse" /\ Collides(T) => IF fault = "overlap" THEN r = goes ELSE r = Failed("EINVAL")
  BY <1>12, <1>13, <1>18, <1>20
<1>. QED  BY <1>21, <1>22, <1>23, <1>24, <1>25, <1>26, <1>27, <1>28 DEF same, stays, goes

\* What Moved() leaves of a block that stays where it is or goes where it does not overlap itself.
LEMMA MovedWell ==
  ASSUME BasicInv, Layout(T, vm, addr, addr[0], Len(T.params)), T.expect = "ok", C.old = Source(T).size,
         NEW b \in Space, b + C.new <= SPACE, b = From \/ b + C.new <= From \/ From + C.old <= b,
         NEW w, w = Moved(vm, b), NEW len \in Nat, len <= C.old, len <= C.new
  PROVE  /\ \A p \in Space : PageOK(w[p])
         /\ Carried(fault, vm, w, From, b, len) /\ Gains(T, fault, w, b)
         /\ b = From /\ C.new < C.old => Leaves(fault, vm, w, From + C.new)
         /\ b # From => Leaves(fault, vm, w, From)
         /\ From + C.old <= b => Spares(fault, vm, w, b + C.new)
<1>1. /\ From \in Space /\ C.old \in Nat \ {0} /\ C.new \in Nat \ {0} /\ From + C.old <= SPACE
  <2>1. /\ addr[0] \in Nat /\ Start(T) \in Nat /\ Whole(T) \in Nat /\ addr[0] + Whole(T) <= SPACE
        /\ From = addr[0] + Start(T) /\ Source(T).size \in Nat /\ Start(T) + Source(T).size <= Whole(T)
    BY Where
  <2>2. From + C.old <= SPACE
    <3>1. C.old = Source(T).size /\ SPACE \in Nat
      BY SpacePos
    <3>. QED  BY ONLY <2>1, <3>1
  <2>. QED  BY <2>2, Where
<1>2. From \in Nat /\ b \in Nat /\ SPACE \in Nat /\ C.old \in Nat /\ C.new \in Nat /\ C.old > 0 /\ C.new > 0
  BY <1>1, SpacePos
<1>3. ASSUME NEW p \in Space
      PROVE  /\ b <= p /\ p < b + C.new /\ p - b < C.old =>
                  w[p] = IF fault = "lost" THEN NoPage
                         ELSE IF fault = "nodata" /\ b # From /\ p - b = C.old - 1
                         THEN Fresh("rw", vm[From].shared) ELSE vm[From + (p - b)]
             /\ b <= p /\ p < b + C.new /\ p - b >= C.old =>
                  w[p] = IF fault \in {"lost", "short"} THEN NoPage ELSE Gained(vm)
             /\ ~(b <= p /\ p < b + C.new) /\ From <= p /\ p < From + C.old =>
                  w[p] = IF fault = (IF b = From THEN "keeptail" ELSE "keepold") THEN vm[p] ELSE NoPage
             /\ ~(b <= p /\ p < b + C.new) /\ ~(From <= p /\ p < From + C.old) =>
                  w[p] = IF fault = "clobber" /\ C.flags = "FIXED" /\ p = b + C.new
                         THEN [vm[p] EXCEPT !.val = Zero] ELSE vm[p]
  BY <1>1, <1>3, MovedPages
<1>4. vm[From].prot = "rw" /\ vm[From].shared = Source(T).shared
  <2>1. CallFits(T) /\ Source(T).size \in Nat \ {0}
        /\ \A p \in Space : From <= p /\ p < From + Source(T).size => RangePage(T, vm[p], C.from)
    BY Where
  <2>2. Source(T).prot = "rw" /\ ~Source(T).nopage
    BY <2>1 DEF CallFits
  <2>3. RangePage(T, vm[From], C.from)
    <3>1. From <= From /\ From < From + Source(T).size
      BY <1>2, <2>1
    <3>. QED  BY <3>1, <2>1, <1>1
  <2>4. Source(T) = T.params[C.from + 1]
    BY DEF Source, C
  <2>. QED  BY <2>2, <2>3, <2>4 DEF RangePage
<1>5. /\ PageOK(NoPage) /\ PageOK(Gained(vm)) /\ \A s : PageOK(Fresh("rw", s)) /\ Fresh("rw", s).val = Zero
      /\ Gained(vm).prot = IF Source(T).shared /\ fault # "zerofill" THEN "bus" ELSE "rw"
  BY <1>4 DEF PageOK, NoPage, Gained, Fresh
<1>6. \A p \in Space : PageOK([vm[p] EXCEPT !.val = Zero]) /\ [vm[p] EXCEPT !.val = Zero].val = Zero
  <2>1. \A p \in Space : PageOK(vm[p])
    BY DEF BasicInv
  <2>. QED  BY <2>1 DEF PageOK
<1>7. \A p \in Space : PageOK(w[p])
  <2>. SUFFICES ASSUME NEW p \in Space
                PROVE  PageOK(w[p])
    OBVIOUS
  <2>1. PageOK(vm[p])
    BY DEF BasicInv
  <2>2. CASE b <= p /\ p < b + C.new /\ p - b < C.old
    <3>1. From + (p - b) \in Space
      <4>1. p \in Int /\ SPACE \in Int /\ From + C.old <= SPACE
        BY <1>1, SpacePos
      <4>. QED  BY <4>1, <2>2, <1>2, SpacePos
    <3>2. PageOK(vm[From + (p - b)])
      BY <3>1 DEF BasicInv
    <3>. QED  BY <3>2, <2>2, <1>3, <1>5
  <2>3. CASE b <= p /\ p < b + C.new /\ p - b >= C.old
    BY <2>3, <1>3, <1>5
  <2>4. CASE ~(b <= p /\ p < b + C.new) /\ From <= p /\ p < From + C.old
    BY <2>1, <2>4, <1>3, <1>5
  <2>5. CASE ~(b <= p /\ p < b + C.new) /\ ~(From <= p /\ p < From + C.old)
    BY <2>1, <2>5, <1>3, <1>6
  <2>6. p - b < C.old \/ p - b >= C.old
    BY <1>2, SpacePos
  <2>. QED  BY <2>2, <2>3, <2>4, <2>5, <2>6
<1>8. Carried(fault, vm, w, From, b, len)
  <2>. SUFFICES ASSUME NEW k \in 0..(len - 1)
                PROVE  w[b + k] = vm[From + k] \/ (fault # "none" /\ (w[b + k] = NoPage \/ w[b + k].val = Zero))
    BY DEF Carried
  <2>1. PICK p \in Int : p = b + k
    BY <1>2
  <2>2. p \in Space /\ b <= p /\ p < b + C.new /\ p - b < C.old /\ p - b = k
    <3>1. k \in Int /\ k >= 0 /\ k < C.old /\ k < C.new
      BY <1>2
    <3>. QED  BY <3>1, <2>1, <1>2, SpacePos
  <2>3. w[p] = IF fault = "lost" THEN NoPage
               ELSE IF fault = "nodata" /\ b # From /\ p - b = C.old - 1
               THEN Fresh("rw", vm[From].shared) ELSE vm[From + (p - b)]
    BY <2>2, <1>3
  <2>. QED  BY <2>1, <2>2, <2>3, <1>5
<1>9. Gains(T, fault, w, b)
  <2>. SUFFICES ASSUME NEW k \in C.old..(C.new - 1)
                PROVE  IF fault \in {"lost", "short"} THEN w[b + k] = NoPage
                       ELSE w[b + k].prot = IF Source(T).shared /\ fault # "zerofill" THEN "bus" ELSE "rw"
    BY DEF Gains, C
  <2>1. PICK p \in Int : p = b + k
    BY <1>2
  <2>2. p \in Space /\ b <= p /\ p < b + C.new /\ p - b >= C.old
    <3>1. k \in Int /\ k >= C.old /\ k < C.new
      BY <1>2
    <3>. QED  BY <3>1, <2>1, <1>2, SpacePos
  <2>3. w[p] = IF fault \in {"lost", "short"} THEN NoPage ELSE Gained(vm)
    BY <2>2, <1>3
  <2>. QED  BY <2>1, <2>3, <1>5
<1>10. ASSUME b = From, C.new < C.old
       PROVE  Leaves(fault, vm, w, From + C.new)
  <2>1. PICK p \in Int : p = From + C.new
    BY <1>2
  <2>2. p \in Space /\ ~(b <= p /\ p < b + C.new) /\ From <= p /\ p < From + C.old
    BY <2>1, <1>1, <1>2, <1>10, SpacePos
  <2>3. w[p] = IF fault = (IF b = From THEN "keeptail" ELSE "keepold") THEN vm[p] ELSE NoPage
    BY <2>2, <1>3
  <2>. QED  BY <2>1, <2>3, <1>10 DEF Leaves
<1>11. ASSUME b # From
       PROVE  Leaves(fault, vm, w, From)
  <2>1. ~(b <= From /\ From < b + C.new) /\ From <= From /\ From < From + C.old
    BY <1>2, <1>11
  <2>2. w[From] = IF fault = (IF b = From THEN "keeptail" ELSE "keepold") THEN vm[From] ELSE NoPage
    BY <2>1, <1>1, <1>3
  <2>. QED  BY <2>2, <1>11 DEF Leaves
<1>12. ASSUME From + C.old <= b
       PROVE  Spares(fault, vm, w, b + C.new)
  <2>. SUFFICES ASSUME NEW p \in Space, p >= b + C.new
                PROVE  w[p] = vm[p] \/ (fault # "none" /\ p = b + C.new /\ w[p].val = Zero)
    BY DEF Spares
  <2>1. ~(b <= p /\ p < b + C.new) /\ ~(From <= p /\ p < From + C.old)
    BY <1>2, <1>12, SpacePos
  <2>2. w[p] = IF fault = "clobber" /\ C.flags = "FIXED" /\ p = b + C.new
               THEN [vm[p] EXCEPT !.val = Zero] ELSE vm[p]
    BY <2>1, <1>3
  <2>. QED  BY <2>2, <1>6
<1>. QED  BY <1>7, <1>8, <1>9, <1>10, <1>11, <1>12

\* The fields of what mremap() gives back.
LEMMA ResultFields ==
  /\ \A v, b : Result(v, b).vm = v /\ Result(v, b).ret = b
  /\ \A e : Failed(e).ret = -1 /\ Failed(e).errno = e
  BY DEF Result, Failed

\* A test whose call must succeed and does has one of five calls, and got what the call is for
\* or what its kernel makes of it.
LEMMA Delivers ==
  ASSUME BasicInv, Layout(T, vm, addr, addr[0], Len(T.params)), T.expect = "ok", NEW r \in Outcomes, AsExpected(r)
  PROVE  Delivery(T, fault, addr, vm, r.vm, r.ret)
<1>1. /\ CallFits(T) /\ From \in Space /\ To \in Space
      /\ \A p \in Space : From <= p /\ p < From + Source(T).size => RangePage(T, vm[p], C.from)
  BY Where
<1>2. /\ addr[0] \in Nat /\ Start(T) \in Nat /\ Dest(T) \in Nat /\ Whole(T) \in Nat /\ addr[0] + Whole(T) <= SPACE
      /\ From = addr[0] + Start(T) /\ To = addr[0] + Dest(T)
      /\ Source(T).size \in Nat \ {0} /\ C.old \in Nat \ {0} /\ C.new \in Nat \ {0}
      /\ Start(T) + Source(T).size <= Whole(T)
  BY Where
<1>3. From \in Nat /\ To \in Nat /\ SPACE \in Nat /\ From < SPACE /\ To < SPACE /\ From + Source(T).size <= SPACE
  <2>1. From \in Nat /\ To \in Nat /\ SPACE \in Nat /\ From < SPACE /\ To < SPACE
    BY <1>1, SpacePos
  <2>2. Source(T).size \in Nat
    BY <1>2
  <2>. QED  BY ONLY <1>2, <2>1, <2>2
<1>4. fault # "refuse"
  <2>1. r.ret # -1
    BY <1>3 DEF AsExpected
  <2>2. fault = "refuse" => r = Failed("EPERM")
    BY OutcomeOf
  <2>. QED  BY <2>1, <2>2, ResultFields
<1>5. /\ SameSize(T) \/ Shrinks(T) \/ GrowsInPlace(T) \/ MustMove(T) \/ MovesTo(T)
      /\ Source(T).prot = "rw" /\ ~Source(T).nopage
  BY <1>1 DEF CallFits
<1>6. ASSUME NEW p \in Space, From <= p, p < From + Source(T).size
      PROVE  vm[p] # NoPage
  <2>1. RangePage(T, vm[p], C.from) /\ Source(T) = T.params[C.from + 1]
    BY <1>1, <1>6 DEF Source, C
  <2>. QED  BY <2>1, <1>5 DEF RangePage, NoPage
<1>7. Delivery(T, fault, addr, vm, r.vm, r.ret) <=>
        /\ \A p \in Space : PageOK(r.vm[p])
        /\ r.ret \in Space /\ r.ret + BlockLen(T) <= SPACE
        /\ Carried(fault, vm, r.vm, From, r.ret, BlockLen(T)) /\ Gains(T, fault, r.vm, r.ret)
        /\ GivesUp(T, fault, vm, r.vm, From, r.ret)
        /\ MovesTo(T) => r.ret = To
        /\ MovesTo(T) /\ Start(T) + C.old <= Dest(T) => Spares(fault, vm, r.vm, To + C.new)
  BY DEF Delivery, From, To, C
\* A call that keeps the size
<1>8. CASE SameSize(T)
  <2>1. r = Result(IF fault = "lost" THEN MapPages(vm, From, 1, NoPage) ELSE vm, From)
    BY <1>4, <1>8, OutcomeOf
  <2>2. r.ret = From /\ r.vm = (IF fault = "lost" THEN MapPages(vm, From, 1, NoPage) ELSE vm)
    BY <2>1, ResultFields
  <2>3. \A p \in Space : r.vm[p] = IF fault = "lost" /\ p = From THEN NoPage ELSE vm[p]
    <3>. SUFFICES ASSUME NEW p \in Space
                  PROVE  r.vm[p] = IF fault = "lost" /\ p = From THEN NoPage ELSE vm[p]
      OBVIOUS
    <3>1. Within(p, From, 1) <=> p = From
      <4>1. From \in Space /\ From + 1 <= SPACE /\ 1 \in Nat
        BY <1>1, <1>3
      <4>2. Within(p, From, 1) <=> From <= p /\ p < From + 1
        BY <4>1, WithinLaw
      <4>. QED  BY <4>2, <1>3, SpacePos
    <3>. QED  BY <2>2, <3>1 DEF MapPages
  <2>4. \A p \in Space : PageOK(r.vm[p])
    <3>1. PageOK(NoPage) /\ \A p \in Space : PageOK(vm[p])
      BY DEF PageOK, NoPage, BasicInv
    <3>. QED  BY <2>3, <3>1
  <2>5. C.flags = "0" /\ C.new = C.old /\ BlockLen(T) = Source(T).size
    BY <1>8 DEF SameSize, C, BlockLen
  <2>6. Carried(fault, vm, r.vm, From, From, BlockLen(T))
    <3>. SUFFICES ASSUME NEW k \in 0..(BlockLen(T) - 1)
                  PROVE  \/ r.vm[From + k] = vm[From + k]
                         \/ fault # "none" /\ (r.vm[From + k] = NoPage \/ r.vm[From + k].val = Zero)
      BY DEF Carried
    <3>1. From + k \in Space
      <4>1. k \in Int /\ k >= 0 /\ k < Source(T).size
        BY <1>2, <2>5
      <4>2. From + k \in Int /\ From + k >= 0 /\ From + k < SPACE
        BY ONLY <4>1, <1>2, <1>3
      <4>. QED  BY <4>2, <1>3, SpacePos
    <3>. QED  BY <3>1, <2>3
  <2>7. Gains(T, fault, r.vm, From)
    BY <2>5, <1>2 DEF Gains, C
  <2>8. ~Shrinks(T) /\ ~MustMove(T) /\ ~MovesTo(T)
    <3>1. C.flags = "0" /\ ~(C.new < C.old)
      BY <2>5, <1>2
    <3>. QED  BY <3>1 DEF Shrinks, MustMove, MovesTo, C
  <2>9. GivesUp(T, fault, vm, r.vm, From, From)
    BY <2>3, <2>8, <1>1 DEF GivesUp
  <2>. QED  BY <1>1, <1>3, <1>7, <2>2, <2>4, <2>5, <2>6, <2>7, <2>8, <2>9
\* What the other calls have in common: the block is in new pages at b.
<1>9. ASSUME ~SameSize(T), C.old = Source(T).size, NEW b \in Space, b + C.new <= SPACE,
             b = From \/ b + C.new <= From \/ From + C.old <= b, r = Result(Moved(vm, b), b),
             Shrinks(T) => b = From,
             MustMove(T) /\ b = From => fault = "grab",
             MovesTo(T) => b = To /\ b # From
      PROVE  Delivery(T, fault, addr, vm, r.vm, r.ret)
  <2>1. r.ret = b /\ r.vm = Moved(vm, b)
    BY <1>9, ResultFields
  <2>2. BlockLen(T) \in Nat /\ BlockLen(T) <= C.old /\ BlockLen(T) <= C.new
    <3>1. BlockLen(T) = IF C.old = C.new THEN C.old ELSE IF C.old < C.new THEN C.old ELSE C.new
      BY <1>9 DEF BlockLen, C
    <3>. QED  BY <3>1, <1>2
  <2>3. /\ \A p \in Space : PageOK(r.vm[p])
        /\ Carried(fault, vm, r.vm, From, b, BlockLen(T)) /\ Gains(T, fault, r.vm, b)
        /\ b = From /\ C.new < C.old => Leaves(fault, vm, r.vm, From + C.new)
        /\ b # From => Leaves(fault, vm, r.vm, From)
        /\ From + C.old <= b => Spares(fault, vm, r.vm, b + C.new)
    BY <1>9, <2>1, <2>2, MovedWell
  <2>4. b + BlockLen(T) <= SPACE
    <3>1. b \in Nat
      BY SpacePos
    <3>2. b + C.new <= SPACE
      BY <1>9
    <3>. QED  BY ONLY <3>1, <3>2, <2>2, <1>2, <1>3
  <2>5. Shrinks(T) => C.new < C.old
    BY DEF Shrinks, C
  <2>6. MustMove(T) => Leaves(fault, vm, r.vm, From)
    <3>1. SUFFICES ASSUME MustMove(T), b = From
                   PROVE  Leaves(fault, vm, r.vm, From)
      BY <2>3
    <3>2. fault = "grab" /\ C.new > C.old
      BY <1>9, <3>1 DEF MustMove, HemmedIn, C
    <3>3. From <= From /\ From < From + C.new /\ From - From < C.old /\ From + (From - From) = From
      BY ONLY <1>2, <1>3
    <3>4. Moved(vm, b)[From] = vm[From]
      <4>1. From \in Space /\ From + C.old <= SPACE /\ From + C.new <= SPACE
        BY <1>1, <1>3, <1>9, <3>1
      <4>2. fault # "lost" /\ fault # "nodata"
        BY <3>2
      <4>3. Moved(vm, From)[From] = IF fault = "lost" THEN NoPage
                               ELSE IF fault = "nodata" /\ From # From /\ From - From = C.old - 1
                               THEN Fresh("rw", vm[From].shared) ELSE vm[From + (From - From)]
        <5>1. C.old \in Nat \ {0} /\ C.new \in Nat \ {0}
          BY <1>2
        <5>. QED  BY ONLY <4>1, <3>3, <5>1, MovedPages
      <4>. QED  BY <4>2, <4>3, <3>1, <3>3
    <3>. QED  BY <2>1, <3>2, <3>4 DEF Leaves
  <2>7. GivesUp(T, fault, vm, r.vm, From, b)
    BY <1>9, <2>3, <2>5, <2>6 DEF GivesUp, C
  <2>8. MovesTo(T) /\ Start(T) + C.old <= Dest(T) => Spares(fault, vm, r.vm, To + C.new)
    <3>1. SUFFICES ASSUME MovesTo(T), Start(T) + C.old <= Dest(T)
                   PROVE  Spares(fault, vm, r.vm, To + C.new)
      OBVIOUS
    <3>2. b = To /\ From + C.old <= To
      BY <1>2, <1>9, <3>1
    <3>. QED  BY <2>3, <3>2
  <2>. QED  BY <1>7, <1>9, <2>1, <2>3, <2>4, <2>7, <2>8
<1>10. ASSUME NEW b \in Places, C.old = Source(T).size
       PROVE  /\ b \in Space /\ b + C.new <= SPACE /\ b # From
              /\ b + C.new <= From \/ From + C.old <= b
  <2>1. /\ b \in Space /\ b + C.new <= SPACE
        /\ \A p \in Space : b <= p /\ p < b + C.new => vm[p] = NoPage
    BY <1>2, FreePlace
  <2>2. ~(b <= From /\ From < b + C.new)
    <3>1. From <= From /\ From < From + Source(T).size
      BY <1>2, <1>3
    <3>2. vm[From] # NoPage
      BY <1>1, <1>6, <3>1
    <3>. QED  BY <2>1, <3>2, <1>1
  <2>3. ~(From <= b /\ b < From + Source(T).size)
    <3>1. b <= b /\ b < b + C.new
      BY <1>2, <2>1, SpacePos
    <3>2. vm[b] = NoPage
      BY <2>1, <3>1
    <3>. QED  BY <2>1, <3>2, <1>6
  <2>4. b \in Nat
    BY <2>1, SpacePos
  <2>5. b + C.new <= From \/ From + C.old <= b
    <3>1. C.old = Source(T).size
      BY <1>10
    <3>. QED  BY ONLY <2>2, <2>3, <2>4, <3>1, <1>2, <1>3
  <2>6. b # From
    BY ONLY <2>3, <2>4, <1>2, <1>3
  <2>. QED  BY <2>1, <2>5, <2>6
<1>11. CASE Shrinks(T) \/ GrowsInPlace(T)
  <2>1. r = Result(Moved(vm, From), From)
    BY <1>4, <1>11, OutcomeOf
  <2>2. /\ C.old = Source(T).size /\ C.flags = "0" /\ C.new # C.old /\ ~SameSize(T) /\ ~MustMove(T) /\ ~MovesTo(T)
    BY <1>2, <1>11 DEF Shrinks, GrowsInPlace, SameSize, MustMove, MovesTo, C
  <2>3. From + C.new <= SPACE
    <3>1. CASE Shrinks(T)
      <4>1. C.new < C.old /\ C.old = Source(T).size
        BY <3>1, <2>2 DEF Shrinks, C
      <4>. QED  BY ONLY <4>1, <1>2, <1>3
    <3>2. CASE GrowsInPlace(T)
      <4>1. C.from + 1 < Len(T.params) /\ C.new - C.old <= Neighbour(T).size
        BY <3>2 DEF GrowsInPlace, C
      <4>2. Neighbour(T).size \in Nat /\ Start(T) + Source(T).size + Neighbour(T).size <= Whole(T)
        BY <4>1, Where
      <4>3. C.new - C.old <= Neighbour(T).size /\ C.old = Source(T).size
        BY <4>1, <2>2
      <4>. QED  BY ONLY <4>2, <4>3, <1>2, <1>3
    <3>. QED  BY <1>11, <3>1, <3>2
  <2>. QED  BY <1>1, <1>9, <2>1, <2>2, <2>3
<1>12. CASE MustMove(T)
  <2>1. /\ C.old = Source(T).size /\ C.flags = "MAYMOVE" /\ ~SameSize(T) /\ ~Shrinks(T) /\ ~MovesTo(T) /\ HemmedIn(T)
        /\ Start(T) + C.new <= Whole(T)
    BY <1>12 DEF MustMove, HemmedIn, SameSize, Shrinks, MovesTo, C
  <2>2. CASE fault = "grab"
    <3>1. r = Result(Moved(vm, From), From)
      BY <1>4, <2>1, <2>2, OutcomeOf
    <3>2. From + C.new <= SPACE
      BY ONLY <2>1, <1>2, <1>3
    <3>. QED  BY <1>1, <1>9, <2>1, <2>2, <3>1, <3>2
  <2>3. CASE fault # "grab"
    <3>1. r \in Anywhere
      BY <1>4, <2>1, <2>3, OutcomeOf
    <3>2. PICK b \in Places : r = Result(Moved(vm, b), b)
      BY <3>1, <1>12, PlaceFound DEF Anywhere
    <3>3. /\ b \in Space /\ b + C.new <= SPACE /\ b # From
          /\ b + C.new <= From \/ From + C.old <= b
      BY <1>10, <2>1
    <3>. QED  BY <1>9, <2>1, <3>2, <3>3
  <2>. QED  BY <2>2, <2>3
<1>13. CASE MovesTo(T)
  <2>1. /\ C.old = Source(T).size /\ C.flags = "FIXED" /\ ~SameSize(T) /\ ~Shrinks(T) /\ ~MustMove(T)
        /\ Dest(T) + C.new <= Whole(T) /\ C.new = C.old
        /\ Dest(T) + C.new <= Start(T) \/ Start(T) + C.old <= Dest(T)
    BY <1>13 DEF MovesTo, SameSize, Shrinks, MustMove, C
  <2>2. To + C.new <= SPACE /\ (To + C.new <= From \/ From + C.old <= To)
    <3>1. /\ Dest(T) + C.new <= Whole(T)
          /\ Dest(T) + C.new <= Start(T) \/ Start(T) + C.old <= Dest(T)
      BY <2>1
    <3>. QED  BY ONLY <3>1, <1>2, <1>3
  <2>3. To # From
    BY ONLY <2>2, <1>2, <1>3
  <2>4. r.ret = To
    BY <2>1 DEF AsExpected
  <2>5. r = Result(Moved(vm, To), To)
    <3>1. CASE r \in Anywhere
      <4>1. r.ret # -1
        BY <2>4, <1>3
      <4>2. PICK b \in Places : r = Result(Moved(vm, b), b)
        BY <3>1, <4>1, ResultFields DEF Anywhere
      <4>. QED  BY <4>2, <2>4, ResultFields
    <3>. QED  BY <3>1, <1>4, <1>13, OutcomeOf
  <2>. QED  BY <1>1, <1>9, <2>1, <2>2, <2>3, <2>5
<1>. QED  BY <1>5, <1>8, <1>11, <1>12, <1>13

\* A kernel without a fault gives every call the result its test expects.
LEMMA GoodCall ==
  ASSUME BasicInv, Layout(T, vm, addr, addr[0], Len(T.params)), NEW r \in Outcomes, fault = "none"
  PROVE  AsExpected(r)
<1>1. CallFits(T) /\ From \in Space /\ To \in Space
  BY Where
<1>2. -1 \notin Space
  BY SpacePos
<1>3. fault # "refuse" /\ fault # "grab" /\ fault # "elsewhere" /\ fault # "overlap"
  OBVIOUS
<1>4. CASE T.expect = "ok"
  <2>1. SameSize(T) \/ Shrinks(T) \/ GrowsInPlace(T) \/ MustMove(T) \/ MovesTo(T)
    BY <1>1, <1>4 DEF CallFits
  <2>2. CASE SameSize(T) \/ Shrinks(T) \/ GrowsInPlace(T)
    <3>1. C.flags # "FIXED"
      BY <2>2 DEF SameSize, Shrinks, GrowsInPlace, C
    <3>2. r.ret = From
      BY <2>2, <1>3, OutcomeOf, ResultFields
    <3>. QED  BY <3>1, <3>2, <1>1, <1>2, <1>4 DEF AsExpected
  <2>3. CASE MustMove(T)
    <3>1. C.flags = "MAYMOVE" /\ HemmedIn(T)
      BY <2>3 DEF MustMove, C
    <3>2. r \in Anywhere
      BY <3>1, <1>3, OutcomeOf
    <3>3. PICK b \in Places : r = Result(Moved(vm, b), b)
      BY <3>2, <2>3, PlaceFound DEF Anywhere
    <3>4. r.ret \in Space
      BY <3>3, ResultFields DEF Places
    <3>. QED  BY <3>1, <3>4, <1>2, <1>4 DEF AsExpected
  <2>4. CASE MovesTo(T)
    <3>1. C.flags = "FIXED"
      BY <2>4 DEF MovesTo, C
    <3>2. r.ret = To
      BY <2>4, <1>3, OutcomeOf, ResultFields
    <3>. QED  BY <3>1, <3>2, <1>4 DEF AsExpected
  <2>. QED  BY <2>1, <2>2, <2>3, <2>4
<1>5. CASE T.expect = "ENOMEM"
  <2>1. C.flags = "0" /\ HemmedIn(T)
    BY <1>1, <1>5 DEF CallFits, C
  <2>2. r = Failed("ENOMEM")
    BY <2>1, <1>3, OutcomeOf
  <2>. QED  BY <2>2, <1>5, ResultFields DEF AsExpected
<1>6. CASE T.expect = "EINVAL"
  <2>1. Collides(T)
    BY <1>1, <1>6 DEF CallFits
  <2>2. r = Failed("EINVAL")
    BY <2>1, <1>3, OutcomeOf
  <2>. QED  BY <2>2, <1>6, ResultFields DEF AsExpected
<1>. QED  BY <1>1, <1>4, <1>5, <1>6 DEF CallFits

\* A refusal is never taken for the error a test waits for.
LEMMA NotRefused ==
  ASSUME BasicInv, Layout(T, vm, addr, addr[0], Len(T.params)), NEW r \in Outcomes, T.expect # "ok", AsExpected(r)
  PROVE  r.ret = -1 /\ fault # "refuse"
<1>1. CallFits(T)
  BY Where
<1>2. T.expect # "EPERM"
  BY <1>1 DEF CallFits
<1>3. r.ret = -1 /\ r.errno = T.expect
  BY DEF AsExpected
<1>4. fault = "refuse" => r = Failed("EPERM")
  BY OutcomeOf
<1>. QED  BY <1>2, <1>3, <1>4, ResultFields

\* Whatever it does, mremap() leaves pages behind and returns an address of the space or -1.
LEMMA OutcomeTypes ==
  ASSUME BasicInv, Layout(T, vm, addr, addr[0], Len(T.params)), NEW r \in Outcomes
  PROVE  r.ret \in {-1} \union Space /\ \A p \in Space : PageOK(r.vm[p])
<1>1. /\ From \in Space /\ To \in Space /\ C.old \in Nat \ {0} /\ C.new \in Nat \ {0} /\ Described(T)
  BY Where
<1>2. C.flags \in {"0", "MAYMOVE", "FIXED"}
  BY <1>1 DEF Described, C
<1>3. \A p \in Space : PageOK(vm[p])
  BY DEF BasicInv
<1>4. /\ PageOK(NoPage) /\ PageOK(Gained(vm)) /\ PageOK(Fresh("rw", vm[From].shared))
      /\ \A p \in Space : PageOK([vm[p] EXCEPT !.val = Zero])
  BY <1>1, <1>3 DEF PageOK, NoPage, Gained, Fresh
<1>5. ASSUME NEW b \in Space, NEW p \in Space
      PROVE  PageOK(Moved(vm, b)[p])
  <2>1. (p - b) < C.old \/ (p - b) >= C.old
    BY <1>1, SpacePos
  <2>2. PageOK(vm[(From + p - b) % SPACE])
    <3>1. From + p - b \in Int
      BY <1>1, SpacePos
    <3>. QED  BY <3>1, <1>3, ModLaws
  <2>. DEFINE x == CASE fault = "lost" -> NoPage
                     [] fault # "lost" /\ (p - b) < C.old ->
                          IF fault = "nodata" /\ b # From /\ p - b = C.old - 1 THEN Fresh("rw", vm[From].shared)
                          ELSE vm[(From + p - b) % SPACE]
                     [] fault # "lost" /\ (p - b) >= C.old -> IF fault = "short" THEN NoPage ELSE Gained(vm)
              y == IF fault = (IF b = From THEN "keeptail" ELSE "keepold") THEN vm[p] ELSE NoPage
              z == IF fault = "clobber" /\ C.flags = "FIXED" /\ p = b + C.new THEN [vm[p] EXCEPT !.val = Zero] ELSE vm[p]
  <2>3. Moved(vm, b)[p] = IF Within(p, b, C.new) THEN x ELSE IF Within(p, From, C.old) THEN y ELSE z
    BY DEF Moved
  <2>4. PageOK(y) /\ PageOK(z)
    BY <1>3, <1>4
  <2>5. PageOK(x)
    <3>1. CASE fault = "lost"
      BY <3>1, <1>4
    <3>2. CASE fault # "lost" /\ (p - b) < C.old
      <4>1. ~((p - b) >= C.old)
        BY <3>2, <1>1, SpacePos
      <4>2. x = IF fault = "nodata" /\ b # From /\ p - b = C.old - 1 THEN Fresh("rw", vm[From].shared)
                ELSE vm[(From + p - b) % SPACE]
        BY <3>2, <4>1
      <4>. HIDE DEF x
      <4>. QED  BY <4>2, <1>4, <2>2
    <3>3. CASE fault # "lost" /\ (p - b) >= C.old
      <4>1. ~((p - b) < C.old)
        BY <3>3, <1>1, SpacePos
      <4>2. x = IF fault = "short" THEN NoPage ELSE Gained(vm)
        BY <3>3, <4>1
      <4>. HIDE DEF x
      <4>. QED  BY <4>2, <1>4
    <3>. QED  BY <2>1, <3>1, <3>2, <3>3
  <2>. HIDE DEF x, y, z
  <2>. QED  BY <2>3, <2>4, <2>5
<1>6. \/ \E e : r = Failed(e)
      \/ \E b \in Space : r = Result(Moved(vm, b), b)
      \/ r = Result(IF fault = "lost" THEN MapPages(vm, From, 1, NoPage) ELSE vm, From)
  <2>1. ASSUME NEW x \in Anywhere
        PROVE  (\E e : x = Failed(e)) \/ \E b \in Space : x = Result(Moved(vm, b), b)
    BY DEF Anywhere, Places
  <2>2. Grows \/ ~Grows
    OBVIOUS
  <2>. DEFINE same == Result(IF fault = "lost" THEN MapPages(vm, From, 1, NoPage) ELSE vm, From)
              stays == Result(Moved(vm, From), From)
              goes == Result(Moved(vm, To), To)
              none == Failed("EPERM")
              inval == Failed("EINVAL")
              nomem == Failed("ENOMEM")
  <2>3. /\ Overlap => C.flags = "FIXED"
        /\ Outcomes =
             CASE fault = "refuse" -> {none}
               [] fault # "refuse" /\ Overlap /\ fault # "overlap" -> {inval}
               [] fault # "refuse" /\ C.flags = "FIXED" /\ (Overlap => fault = "overlap") ->
                    IF fault = "elsewhere" THEN Anywhere ELSE {goes}
               [] fault # "refuse" /\ C.flags # "FIXED" /\ C.old = C.new -> {same}
               [] fault # "refuse" /\ C.flags # "FIXED" /\ C.old # C.new /\ (Grows => Room) -> {stays}
               [] fault # "refuse" /\ C.flags = "MAYMOVE" /\ Grows /\ ~Room -> Anywhere
               [] fault # "refuse" /\ C.flags = "0" /\ Grows /\ ~Room -> {nomem}
    BY DEF Outcomes, Overlap
  <2>4. Grows <=> C.new > C.old
    BY DEF Grows
  <2>. HIDE DEF same, stays, goes, none, inval, nomem
  <2>5. r \in {none, inval, nomem, goes, same, stays} \/ r \in Anywhere
    <3>1. CASE fault = "refuse"
      <4>1. Outcomes = {none}
        BY <2>3, <3>1
      <4>. QED  BY <4>1
    <3>2. CASE fault # "refuse" /\ C.flags = "FIXED"
      <4>1. CASE Overlap /\ fault # "overlap"
        <5>1. Outcomes = {inval}
          BY <2>3, <3>2, <4>1
        <5>. QED  BY <5>1
      <4>2. CASE Overlap => fault = "overlap"
        <5>1. Outcomes = IF fault = "elsewhere" THEN Anywhere ELSE {goes}
          BY <2>3, <3>2, <4>2
        <5>. QED  BY <5>1
      <4>. QED  BY <4>1, <4>2
    <3>3. CASE fault # "refuse" /\ C.flags # "FIXED"
      <4>1. ~Overlap
        BY <2>3, <3>3
      <4>2. CASE C.old = C.new
        <5>1. ~Grows
          BY <2>4, <4>2, <1>1
        <5>2. Outcomes = {same}
          BY <2>3, <3>3, <4>1, <4>2, <5>1
        <5>. QED  BY <5>2
      <4>3. CASE C.old # C.new /\ (Grows => Room)
        <5>1. Outcomes = {stays}
          BY <2>3, <3>3, <4>1, <4>3
        <5>. QED  BY <5>1
      <4>4. CASE C.old # C.new /\ Grows /\ ~Room
        <5>1. Outcomes = IF C.flags = "MAYMOVE" THEN Anywhere ELSE {nomem}
          BY <1>2, <2>3, <3>3, <4>1, <4>4
        <5>. QED  BY <5>1
      <4>. QED  BY <4>2, <4>3, <4>4
    <3>. QED  BY <3>1, <3>2, <3>3
  <2>6. /\ r = same => r = Result(IF fault = "lost" THEN MapPages(vm, From, 1, NoPage) ELSE vm, From)
        /\ r \in {goes, stays} => \E b \in Space : r = Result(Moved(vm, b), b)
        /\ r \in {none, inval, nomem} => \E e : r = Failed(e)
    BY <1>1 DEF same, stays, goes, none, inval, nomem
  <2>. QED  BY <2>1, <2>5, <2>6
<1>7. CASE \E e : r = Failed(e)
  <2>1. r.ret = -1 /\ r.vm = vm
    BY <1>7 DEF Failed
  <2>. QED  BY <2>1, <1>3
<1>8. CASE \E b \in Space : r = Result(Moved(vm, b), b)
  <2>1. PICK b \in Space : r.ret = b /\ r.vm = Moved(vm, b)
    BY <1>8, ResultFields
  <2>. QED  BY <2>1, <1>5
<1>9. CASE r = Result(IF fault = "lost" THEN MapPages(vm, From, 1, NoPage) ELSE vm, From)
  <2>1. r.ret = From /\ r.vm = IF fault = "lost" THEN MapPages(vm, From, 1, NoPage) ELSE vm
    BY <1>9, ResultFields
  <2>2. \A p \in Space : r.vm[p] = NoPage \/ r.vm[p] = vm[p]
    BY <2>1 DEF MapPages
  <2>. QED  BY <1>1, <1>3, <1>4, <2>1, <2>2
<1>. QED  BY <1>6, <1>7, <1>8, <1>9

-----------------------------------------------------------------------------
(* The steps, one by one *)

\* A step that does not end the test leaves EndInv with nothing to say.
LEMMA GoesOn ==
  ASSUME EndInv, pc \notin {"judge", "over"}, pc' \notin {"judge", "over"}, UNCHANGED <<chosen, end, verdict>>
  PROVE  EndInv'
<1>1. end = "none" /\ verdict = "none"
  BY DEF EndInv
<1>2. end' = "none" /\ verdict' = "none" /\ fault' = fault /\ T' = T
  BY <1>1 DEF chosen
<1>. QED  BY <1>2 DEF EndInv

\* What a step that ends the test has to show.
LEMMA Ends ==
  ASSUME EndInv, pc \notin {"judge", "over"}, pc' = "judge", UNCHANGED <<chosen, verdict>>,
         end' \in {"ok", "ng", "handled", "killed"},
         end' \in {"ok", "handled"} =>
           IF T.expect = "ok" THEN Earned(T, addr', before', after', remap', handler')
           ELSE remap' = -1 /\ fault # "refuse",
         end' = "handled" => kmsg' /\ T.checks[i'].op = "touch",
         fault = "none" => end' = IF EndsInProbe(T) THEN "handled" ELSE "ok"
  PROVE  EndInv'
<1>1. verdict' = "none" /\ fault' = fault /\ T' = T /\ end' # "none"
  BY DEF EndInv, chosen
<1>. QED  BY <1>1 DEF EndInv

\* The test starts with an empty address space.
LEMMA InitIInv == Init => IInv
<1>. SUFFICES ASSUME Init
              PROVE  IInv
  OBVIOUS
<1>1. PICK c \in Cases : test = c.test /\ T = Suite[c.test] /\ fault = c.fault
  BY DEF Init
<1>2. /\ test \in DOMAIN Suite /\ T = Suite[test]
  BY <1>1, CasesAssumption
<1>3. BasicInv
  <2>1. \A p \in Space : vm[p] = NoPage /\ PageOK(vm[p])
    BY DEF Init, PageOK, NoPage
  <2>2. DOMAIN addr = 0..(Len(T.params) - 1) /\ \A k \in DOMAIN addr : addr[k] \in {-1} \union Space
    BY DEF Init
  <2>3. cur \in -1..SPACE /\ remap \in {-1} \union Space
    BY SpacePos DEF Init
  <2>. QED  BY <1>2, <2>1, <2>2, <2>3 DEF Init, BasicInv
<1>4. FormatInv /\ CheckInv
  BY DEF Init, FormatInv, CheckInv
<1>5. EndInv
  BY DEF Init, EndInv
<1>. QED  BY <1>3, <1>4, <1>5 DEF IInv

\* The reservation: every page of it is there, nothing else is.
LEMMA ReserveStep == IInv /\ Reserve => IInv'
<1>. SUFFICES ASSUME IInv, Reserve
              PROVE  IInv'
  OBVIOUS
<1>1. /\ pc = "reserve" /\ i = 0 /\ \A p \in Space : vm[p] = NoPage
      /\ T' = T /\ test' = test /\ fault' = fault /\ addr' = addr /\ i' = i /\ remap' = remap /\ handler' = handler
      /\ kmsg' = kmsg /\ verdict' = verdict /\ before' = before /\ after' = after /\ UNCHANGED chosen
  BY DEF Reserve, IInv, BasicInv, chosen
<1>2. CASE fault = "mmap" /\ Ended("ng") /\ UNCHANGED <<vm, cur>>
  <2>1. pc' = "judge" /\ end' = "ng" /\ vm' = vm /\ cur' = cur
    BY <1>2 DEF Ended
  <2>2. BasicInv'
    BY <1>1, <2>1 DEF IInv, BasicInv
  <2>3. FormatInv' /\ CheckInv'
    BY <2>1 DEF FormatInv, CheckInv
  <2>4. EndInv'
    BY <1>1, <1>2, <2>1, Ends DEF IInv
  <2>. QED  BY <2>2, <2>3, <2>4 DEF IInv
<1>3. ASSUME NEW a \in Space, Free(vm, a, total_size), vm' = MapPages(vm, a, total_size, Fresh("none", TRUE)),
             cur' = a, pc' = "format", end' = end
      PROVE  IInv'
  <2>1. total_size = Whole(T)
    BY DEF total_size, Whole
  <2>2. PICK n \in 1..5 : n = Len(T.params)
    BY WellMadeT DEF IInv, WellMade, Fits, Described
  <2>3. Whole(T) \in Nat /\ Offset(T.params, 0) = 0
    <3>1. \A k \in 1..n : T.params[k].size \in Nat
      BY <2>2, WellMadeT DEF IInv, WellMade, Fits, Described
    <3>2. n \in 0..5 /\ n \in 0..n
      OBVIOUS
    <3>3. Offset(T.params, 0) = 0 /\ \A k \in 0..n : Offset(T.params, k) \in Nat
      BY <3>1, <3>2, OffsetSteps
    <3>. QED  BY <3>2, <3>3, <2>2 DEF Whole
  <2>4. a + Whole(T) <= SPACE
    BY <1>3, <2>1 DEF Free
  <2>5. \A p \in Space : vm'[p] = IF a <= p /\ p < a + Whole(T) THEN Fresh("none", TRUE) ELSE vm[p]
    <3>. SUFFICES ASSUME NEW p \in Space
                  PROVE  vm'[p] = IF a <= p /\ p < a + Whole(T) THEN Fresh("none", TRUE) ELSE vm[p]
      OBVIOUS
    <3>1. Within(p, a, Whole(T)) <=> a <= p /\ p < a + Whole(T)
      BY <2>3, <2>4, WithinLaw
    <3>. QED  BY <1>3, <2>1, <3>1 DEF MapPages
  <2>6. \A p \in Space : PageOK(vm'[p])
    <3>1. PageOK(Fresh("none", TRUE)) /\ \A p \in Space : PageOK(vm[p])
      BY DEF PageOK, Fresh, IInv, BasicInv
    <3>. QED  BY <2>5, <3>1
  <2>7. BasicInv'
    <3>1. cur' \in -1..SPACE
      BY <1>3, SpacePos
    <3>. QED  BY <1>1, <1>3, <2>6, <3>1 DEF IInv, BasicInv
  <2>8. FormatInv'
    <3>1. Layout(T, vm', addr', a, 0)
      <4>1. LaidOut(T, vm', addr', a, 0)
        BY DEF LaidOut
      <4>2. Clear(T, vm', a)
        <5>. SUFFICES ASSUME NEW p \in Space, p < a \/ p >= a + Whole(T)
                      PROVE  vm'[p] = NoPage
          BY DEF Clear
        <5>1. ~(a <= p /\ p < a + Whole(T))
          BY <2>3, SpacePos
        <5>. QED  BY <5>1, <2>5, <1>1
      <4>. QED  BY <2>4, <4>1, <4>2 DEF Layout
    <3>2. i' \in 0..(Len(T.params) - 1) /\ i' = 0
      <4>1. i' = 0
        BY <1>1
      <4>2. n \in Int /\ n >= 1
        OBVIOUS
      <4>3. 0 \in 0..(n - 1)
        BY ONLY <4>2
      <4>. QED  BY ONLY <4>1, <4>3, <2>2
    <3>3. cur' = a + Offset(T.params, i')
      BY <1>3, <2>3, <3>2, SpacePos
    <3>. QED  BY <1>1, <1>3, <3>1, <3>2, <3>3 DEF FormatInv
  <2>9. CheckInv'
    BY <1>1, <1>3 DEF IInv, CheckInv
  <2>10. EndInv'
    BY <1>1, <1>3, GoesOn DEF IInv
  <2>. QED  BY <2>7, <2>8, <2>9, <2>10 DEF IInv
<1>. QED  BY <1>2, <1>3 DEF Reserve

\* The loop goes on, is done, or stops at a call that fails.
LEMMA FormatStep == IInv /\ Format => IInv'
<1>. SUFFICES ASSUME IInv, Format
              PROVE  IInv'
  OBVIOUS
<1>1. /\ pc = "format" /\ T' = T /\ test' = test /\ fault' = fault /\ remap' = remap /\ handler' = handler
      /\ kmsg' = kmsg /\ verdict' = verdict /\ before' = before /\ after' = after /\ UNCHANGED chosen
      /\ addr' = [addr EXCEPT ![i] = cur]
  BY DEF Format, chosen
<1>2. PICK n \in 1..5 : n = Len(T.params)
  BY WellMadeT DEF IInv, WellMade, Fits, Described
<1>3. i \in 0..(n - 1) /\ DOMAIN addr = 0..(n - 1)
  BY <1>1, <1>2 DEF IInv, FormatInv, BasicInv
<1>4. PICK base \in Space : cur = base + Offset(T.params, i) /\ Layout(T, vm, addr, base, i)
  BY <1>1 DEF IInv, FormatInv
<1>5. CASE pc' = "judge"
  <2>1. end' = "ng" /\ fault # "none" /\ vm' = vm /\ cur' = cur /\ i' = i
    BY <1>1, <1>5 DEF Format, Ended
  <2>2. cur \in Space
    <3>1. \A k \in 1..n : T.params[k].size \in Nat \ {0}
      BY <1>2, WellMadeT DEF IInv, WellMade, Fits, Described
    <3>2. /\ \A k \in 0..n : Offset(T.params, k) \in Nat
          /\ \A k \in 0..(n - 1) : Offset(T.params, k + 1) = Offset(T.params, k) + T.params[k + 1].size
          /\ \A j, k \in 0..n : j < k => Offset(T.params, j) + T.params[j + 1].size <= Offset(T.params, k)
      <4>1. n \in 0..5 /\ \A k \in 1..n : T.params[k].size \in Nat
        BY <3>1
      <4>. QED  BY <4>1, OffsetSteps
    <3>3. /\ Offset(T.params, i) \in Nat /\ Offset(T.params, n) \in Nat /\ T.params[i + 1].size \in Nat
          /\ T.params[i + 1].size > 0 /\ Offset(T.params, i) + T.params[i + 1].size <= Offset(T.params, n)
      <4>1. i \in 0..n /\ n \in 0..n /\ i < n /\ i + 1 \in 1..n
        BY <1>3
      <4>. QED  BY <4>1, <3>1, <3>2
    <3>4. base \in Nat /\ base + Offset(T.params, n) <= SPACE /\ SPACE \in Nat
      BY <1>2, <1>4, SpacePos DEF Layout, Whole
    <3>5. cur \in Nat /\ cur < SPACE
      <4>1. cur = base + Offset(T.params, i)
        BY <1>4
      <4>. QED  BY ONLY <3>3, <3>4, <4>1
    <3>. QED  BY <3>5, SpacePos
  <2>3. DOMAIN addr' = DOMAIN addr /\ \A k \in DOMAIN addr : addr'[k] \in {-1} \union Space
    BY <1>1, <1>3, <2>2 DEF IInv, BasicInv
  <2>4. BasicInv'
    BY <1>1, <1>5, <2>1, <2>3 DEF IInv, BasicInv
  <2>5. FormatInv' /\ CheckInv'
    BY <1>5 DEF FormatInv, CheckInv
  <2>6. EndInv'
    BY <1>1, <1>5, <2>1, Ends DEF IInv
  <2>. QED  BY <2>4, <2>5, <2>6 DEF IInv
<1>6. CASE pc' # "judge"
  <2>1. PICK b0 \in Space :
           /\ cur' = b0 + Offset(T.params, i + 1) /\ Layout(T, vm', addr', b0, i + 1)
           /\ cur \in Space /\ cur' \in -1..SPACE /\ addr'[i] = cur
           /\ \A p \in Space : PageOK(vm'[p])
    BY <1>6, FormatLays DEF IInv
  <2>2. /\ i' = (IF i + 1 = n THEN 1 ELSE i + 1) /\ pc' = (IF i + 1 = n THEN "remap" ELSE "format") /\ end' = end
    BY <1>1, <1>2, <1>6 DEF Format, Ended
  <2>3. DOMAIN addr' = DOMAIN addr /\ \A k \in DOMAIN addr : addr'[k] \in {-1} \union Space
    BY <1>1, <1>3, <2>1 DEF IInv, BasicInv
  <2>4. BasicInv'
    BY <1>1, <2>1, <2>2, <2>3 DEF IInv, BasicInv
  <2>5. FormatInv'
    <3>1. CASE i + 1 = n
      <4>1. pc' = "remap" /\ i' = 1 /\ i + 1 = Len(T.params)
        BY <1>2, <2>2, <3>1
      <4>2. addr'[0] = b0
        <5>1. 0 \in 0..(i + 1 - 1) /\ n \in 0..5
          BY <1>3
        <5>2. addr'[0] = b0 + Offset(T.params, 0)
          <6>1. LaidOut(T, vm', addr', b0, i + 1)
            BY <2>1 DEF Layout
          <6>2. i \in Nat /\ 0..((i + 1) - 1) = 0..i
            BY <1>3
          <6>3. \A k \in 0..i : addr'[k] = b0 + Offset(T.params, k)
            BY ONLY <6>1, <6>2 DEF LaidOut
          <6>. QED  BY ONLY <6>2, <6>3
        <5>3. Offset(T.params, 0) = 0
          <6>1. \A k \in 1..n : T.params[k].size \in Nat
            BY <1>2, WellMadeT DEF IInv, WellMade, Fits, Described
          <6>. QED  BY <5>1, <6>1, OffsetSteps
        <5>. QED  BY <5>2, <5>3, SpacePos
      <4>3. Layout(T, vm', addr', addr'[0], Len(T.params))
        BY <4>1, <4>2, <2>1
      <4>. QED  BY <1>1, <4>1, <4>3 DEF FormatInv
    <3>2. CASE i + 1 # n
      <4>1. pc' = "format" /\ i' = i + 1 /\ i + 1 \in 0..(Len(T.params) - 1)
        BY <1>2, <1>3, <2>2, <3>2
      <4>. QED  BY <1>1, <4>1, <2>1 DEF FormatInv
    <3>. QED  BY <3>1, <3>2
  <2>6. CheckInv'
    BY <1>1, <2>2 DEF IInv, CheckInv
  <2>7. EndInv'
    BY <1>1, <2>2, GoesOn DEF IInv
  <2>. QED  BY <2>4, <2>5, <2>6, <2>7 DEF IInv
<1>. QED  BY <1>5, <1>6

\* mremap() and the tp_assert() on its result.
LEMMA CallStep == IInv /\ CallMremap => IInv'
<1>. SUFFICES ASSUME IInv, CallMremap
              PROVE  IInv'
  OBVIOUS
<1>1. /\ pc = "remap" /\ T' = T /\ test' = test /\ fault' = fault /\ addr' = addr /\ i' = i /\ cur' = cur
      /\ handler' = handler /\ kmsg' = kmsg /\ verdict' = verdict /\ UNCHANGED chosen /\ before' = vm
  BY DEF CallMremap, chosen
<1>2. i = 1 /\ Layout(T, vm, addr, addr[0], Len(T.params)) /\ BasicInv
  BY <1>1 DEF IInv, FormatInv
<1>3. PICK r \in Outcomes :
        /\ vm' = r.vm /\ remap' = r.ret /\ after' = r.vm
        /\ IF ~AsExpected(r) THEN Ended("ng")
           ELSE IF T.checks = << >> THEN Ended("ok")
           ELSE pc' = "check" /\ UNCHANGED end
  BY DEF CallMremap
<1>4. CallFits(T) /\ ChecksFit(T, Source(T).shared)
  BY <1>2, WellMadeT DEF WellMade, Fits
<1>5. /\ T.expect # "ok" <=> T.checks = << >>
      /\ T.expect = "ok" => Len(T.checks) \in 2..3
      /\ T.expect # "ok" => ~EndsInProbe(T)
  <2>1. T.expect = "ok" => Len(T.checks) \in 2..3
    BY <1>4 DEF ChecksFit
  <2>2. T.expect # "ok" => T.checks = << >>
    BY <1>4 DEF ChecksFit
  <2>3. T.expect = "ok" => T.checks # << >>
    BY <2>1
  <2>4. T.checks = << >> => ~EndsInProbe(T)
    BY DEF EndsInProbe
  <2>. QED  BY <2>1, <2>2, <2>3, <2>4
<1>6. ASSUME T.expect = "ok", AsExpected(r)
      PROVE  Delivery(T, fault, addr, vm, r.vm, r.ret)
  BY <1>2, <1>6, Delivers
<1>7. r.ret \in {-1} \union Space /\ \A p \in Space : PageOK(r.vm[p])
  BY <1>2, OutcomeTypes
<1>8. BasicInv'
  BY <1>1, <1>2, <1>3, <1>7 DEF BasicInv, Ended
<1>9. FormatInv'
  BY <1>3 DEF FormatInv, Ended
<1>10. CASE ~AsExpected(r)
  <2>1. pc' = "judge" /\ end' = "ng"
    BY <1>3, <1>10 DEF Ended
  <2>2. fault # "none"
    BY <1>2, <1>10, GoodCall
  <2>3. CheckInv'
    BY <2>1 DEF CheckInv
  <2>4. EndInv'
    BY <1>1, <2>1, <2>2, Ends DEF IInv
  <2>. QED  BY <1>8, <1>9, <2>3, <2>4 DEF IInv
<1>11. CASE AsExpected(r) /\ T.expect # "ok"
  <2>1. pc' = "judge" /\ end' = "ok"
    BY <1>3, <1>5, <1>11 DEF Ended
  <2>2. remap' = -1 /\ fault # "refuse"
    BY <1>2, <1>3, <1>11, NotRefused
  <2>3. CheckInv'
    BY <2>1 DEF CheckInv
  <2>4. EndInv'
    BY <1>1, <1>5, <1>11, <2>1, <2>2, Ends DEF IInv
  <2>. QED  BY <1>8, <1>9, <2>3, <2>4 DEF IInv
<1>12. CASE AsExpected(r) /\ T.expect = "ok"
  <2>1. pc' = "check" /\ end' = end
    BY <1>3, <1>5, <1>12
  <2>2. Delivery(T', fault', addr', before', after', remap')
    BY <1>1, <1>3, <1>6, <1>12
  <2>3. i' \in 1..Len(T'.checks)
    BY <1>1, <1>2, <1>5, <1>12
  <2>4. Seen(T', addr', before', after', remap', i') /\ Handlers(T', i') = {}
    <3>1. i' = 1
      BY <1>1, <1>2
    <3>. QED  BY <3>1 DEF Seen, Handlers
  <2>5. handler' = {} /\ kmsg' = FALSE
    BY <1>1 DEF IInv, CheckInv
  <2>6. CheckInv'
    BY <1>3, <2>1, <2>2, <2>3, <2>4, <2>5 DEF CheckInv
  <2>7. EndInv'
    BY <1>1, <2>1, GoesOn DEF IInv
  <2>. QED  BY <1>8, <1>9, <2>6, <2>7 DEF IInv
<1>. QED  BY <1>10, <1>11, <1>12

-----------------------------------------------------------------------------
(* The checks *)

\* A check that goes well is followed by the next one.
LEMMA NextCheck ==
  ASSUME IInv, pc = "check", i < Len(T.checks), i' = i + 1,
         UNCHANGED <<chosen, vm, addr, cur, remap, kmsg, verdict, before, after, pc, end>>,
         Seen(T, addr, before, after, remap, i + 1), handler' = Handlers(T, i + 1)
  PROVE  IInv'
<1>1. /\ T' = T /\ test' = test /\ fault' = fault /\ vm' = vm /\ addr' = addr /\ cur' = cur /\ remap' = remap
      /\ kmsg' = kmsg /\ verdict' = verdict /\ before' = before /\ after' = after /\ pc' = "check" /\ end' = end
  BY DEF chosen
<1>2. BasicInv'
  BY <1>1 DEF IInv, BasicInv
<1>3. FormatInv'
  BY <1>1 DEF FormatInv
<1>4. CheckInv'
  <2>1. i \in 1..Len(T.checks) /\ vm = after /\ kmsg = FALSE /\ Delivery(T, fault, addr, before, after, remap)
    BY DEF IInv, CheckInv
  <2>2. Len(T.checks) \in 2..3
    BY <2>1, WellMadeT DEF IInv, WellMade, Fits, ChecksFit, Delivery
  <2>3. i + 1 \in 1..Len(T.checks)
    BY <2>1, <2>2
  <2>. QED  BY <1>1, <2>1, <2>3 DEF CheckInv
<1>5. EndInv'
  BY <1>1, GoesOn DEF IInv
<1>. QED  BY <1>2, <1>3, <1>4, <1>5 DEF IInv

\* What a check that ends the test has to show.
LEMMA LastCheck ==
  ASSUME IInv, pc = "check", pc' = "judge", UNCHANGED <<chosen, addr, i, cur, remap, handler, verdict, before, after>>,
         \A p \in Space : PageOK(vm'[p]),
         end' \in {"ok", "ng", "handled", "killed"},
         end' \in {"ok", "handled"} => Earned(T, addr, before, after, remap, handler),
         end' = "handled" => kmsg' /\ T.checks[i].op = "touch",
         fault = "none" => end' = IF EndsInProbe(T) THEN "handled" ELSE "ok"
  PROVE  IInv'
<1>1. /\ T' = T /\ test' = test /\ fault' = fault /\ addr' = addr /\ cur' = cur /\ remap' = remap /\ i' = i
      /\ handler' = handler /\ verdict' = verdict /\ before' = before /\ after' = after
  BY DEF chosen
<1>2. BasicInv'
  BY <1>1 DEF IInv, BasicInv
<1>3. FormatInv' /\ CheckInv'
  BY DEF FormatInv, CheckInv
<1>4. T.expect = "ok"
  BY DEF IInv, CheckInv, Delivery
<1>5. EndInv'
  BY <1>1, <1>4, Ends DEF IInv
<1>. QED  BY <1>2, <1>3, <1>5 DEF IInv

\* The block, before and after, while the checks look at it.
LEMMA AtCheck ==
  ASSUME IInv, pc = "check"
  PROVE  /\ BasicInv /\ CallFits(T) /\ T.expect = "ok" /\ ChecksFit(T, Source(T).shared) /\ CheckFits(T, i, Source(T).shared)
         /\ i \in 1..Len(T.checks) /\ Len(T.checks) \in 2..3 /\ Layout(T, before, addr, addr[0], Len(T.params))
         /\ vm = after /\ kmsg = FALSE /\ handler = Handlers(T, i)
         /\ Delivery(T, fault, addr, before, after, remap) /\ Seen(T, addr, before, after, remap, i)
<1>1. BasicInv /\ CallFits(T) /\ ChecksFit(T, Source(T).shared)
  BY WellMadeT DEF IInv, WellMade, Fits
<1>2. i \in 1..Len(T.checks) /\ vm = after /\ kmsg = FALSE /\ handler = Handlers(T, i)
      /\ Delivery(T, fault, addr, before, after, remap) /\ Seen(T, addr, before, after, remap, i)
  BY DEF IInv, CheckInv
<1>3. T.expect = "ok" /\ Layout(T, before, addr, addr[0], Len(T.params))
  BY <1>2 DEF Delivery
<1>4. Len(T.checks) \in 2..3 /\ CheckFits(T, i, Source(T).shared)
  BY <1>1, <1>2, <1>3 DEF ChecksFit
<1>. QED  BY <1>1, <1>2, <1>3, <1>4

\* Where the block was, where it is and what its pages hold.
LEMMA BlockIs ==
  ASSUME IInv, pc = "check"
  PROVE  /\ From \in Nat /\ remap \in Nat /\ BlockLen(T) \in Nat /\ BlockLen(T) > 0 /\ SPACE \in Nat
         /\ BlockLen(T) <= Source(T).size
         /\ From + BlockLen(T) <= SPACE /\ remap + BlockLen(T) <= SPACE /\ C.from \in Nat
         /\ C.old \in Nat /\ C.new \in Nat /\ C.old > 0 /\ C.new > 0
         /\ ~SameSize(T) => BlockLen(T) = IF C.new > C.old THEN C.old ELSE C.new
         /\ \A k \in 0..(Source(T).size - 1) :
              before[From + k].prot = "rw" /\ before[From + k].val = C.from /\ before[From + k].shared = Source(T).shared
         /\ \A k \in 0..(BlockLen(T) - 1) :
              \/ after[remap + k] = before[From + k]
              \/ fault # "none" /\ (after[remap + k] = NoPage \/ after[remap + k].val = Zero)
<1>1. /\ BasicInv /\ CallFits(T) /\ T.expect = "ok" /\ Layout(T, before, addr, addr[0], Len(T.params))
      /\ Delivery(T, fault, addr, before, after, remap)
  BY AtCheck
<1>2. /\ addr[0] \in Nat /\ Start(T) \in Nat /\ Whole(T) \in Nat /\ addr[0] + Whole(T) <= SPACE
      /\ From = addr[0] + Start(T)
      /\ Source(T).size \in Nat \ {0} /\ C.old \in Nat \ {0} /\ C.new \in Nat \ {0}
      /\ Start(T) + Source(T).size <= Whole(T)
  BY <1>1, Where
<1>3. /\ Described(T) /\ From \in Space
      /\ \A p \in Space : From <= p /\ p < From + Source(T).size => RangePage(T, before[p], C.from)
  BY <1>1, Where
<1>4. SPACE \in Nat /\ From \in Nat /\ From + Source(T).size <= SPACE
  <2>1. SPACE \in Nat
    BY SpacePos
  <2>. QED  BY ONLY <2>1, <1>2
<1>5. /\ Source(T).prot = "rw" /\ ~Source(T).nopage
      /\ SameSize(T) \/ Shrinks(T) \/ GrowsInPlace(T) \/ MustMove(T) \/ MovesTo(T)
  BY <1>1 DEF CallFits
<1>6. /\ ~SameSize(T) => C.old = Source(T).size
      /\ SameSize(T) => C.old = C.new
  BY <1>5 DEF SameSize, Shrinks, GrowsInPlace, MustMove, MovesTo, HemmedIn, C
<1>7. BlockLen(T) = IF C.old = C.new THEN Source(T).size ELSE IF C.old < C.new THEN C.old ELSE C.new
  BY DEF BlockLen, C
<1>8. BlockLen(T) \in Nat /\ BlockLen(T) > 0 /\ BlockLen(T) <= Source(T).size
  <2>1. CASE SameSize(T)
    BY ONLY <1>2, <1>6, <1>7, <2>1
  <2>2. CASE ~SameSize(T)
    BY ONLY <1>2, <1>6, <1>7, <2>2
  <2>. QED  BY <2>1, <2>2
<1>9. ~SameSize(T) => BlockLen(T) = IF C.new > C.old THEN C.old ELSE C.new
  BY <1>2, <1>6, <1>7
<1>10. From + BlockLen(T) <= SPACE
  BY ONLY <1>2, <1>4, <1>8
<1>11. remap \in Nat /\ remap + BlockLen(T) <= SPACE
  BY <1>1, SpacePos DEF Delivery
<1>12. C.from \in Nat
  BY <1>3 DEF Described, C
<1>13. ASSUME NEW k \in 0..(Source(T).size - 1)
       PROVE  before[From + k].prot = "rw" /\ before[From + k].val = C.from /\ before[From + k].shared = Source(T).shared
  <2>1. PICK p \in Int : p = From + k
    BY <1>4
  <2>2. p \in Space /\ From <= p /\ p < From + Source(T).size
    <3>1. k \in Int /\ k >= 0 /\ k < Source(T).size
      BY <1>2
    <3>2. Source(T).size \in Nat
      BY <1>2
    <3>3. p >= 0 /\ p < SPACE /\ From <= p /\ p < From + Source(T).size
      BY ONLY <3>1, <3>2, <2>1, <1>4
    <3>. QED  BY <3>3, SpacePos
  <2>3. RangePage(T, before[p], C.from) /\ Source(T) = T.params[C.from + 1]
    BY <1>3, <2>2 DEF Source, C
  <2>. QED  BY <2>1, <2>3, <1>5 DEF RangePage
<1>14. Carried(fault, before, after, From, remap, BlockLen(T))
  BY <1>1 DEF Delivery, From, C
<1>. QED  BY <1>2, <1>4, <1>8, <1>9, <1>10, <1>11, <1>12, <1>13, <1>14 DEF Carried

\* The data check of the block, and that of the rest of the mapping it went into.
LEMMA DataStep == IInv /\ DataCheck => IInv'
<1>. SUFFICES ASSUME IInv, DataCheck
              PROVE  IInv'
  OBVIOUS
<1>. DEFINE page(k) == (First + k) % SPACE
            stops(k) == ~Readable(page(k)) \/ ~DataOk(k)
            V == before
            W == after
<1>1. /\ pc = "check" /\ Check.op = "data"
      /\ \/ (\A k \in 0..(Check.len - 1) : ~stops(k)) /\ Passed /\ UNCHANGED kmsg
         \/ \E k \in 0..(Check.len - 1) :
              /\ stops(k)
              /\ IF Readable(page(k)) THEN Ended("ng") /\ UNCHANGED <<i, kmsg>> ELSE Faults(page(k))
      /\ UNCHANGED <<chosen, vm, addr, cur, remap, handler, verdict, before, after>>
  BY DEF DataCheck
<1>2. /\ BasicInv /\ CallFits(T) /\ T.expect = "ok" /\ ChecksFit(T, Source(T).shared) /\ CheckFits(T, i, Source(T).shared)
      /\ i \in 1..Len(T.checks) /\ Len(T.checks) \in 2..3 /\ Layout(T, before, addr, addr[0], Len(T.params))
      /\ vm = after /\ kmsg = FALSE /\ handler = Handlers(T, i)
      /\ Delivery(T, fault, addr, before, after, remap) /\ Seen(T, addr, before, after, remap, i)
  BY <1>1, AtCheck
<1>3. Check = T.checks[i]
  BY DEF Check
<1>4. DataFits(T, Check, i)
  BY <1>1, <1>2, <1>3 DEF CheckFits
<1>5. i < Len(T.checks)
  <2>1. T.checks[Len(T.checks)].op \in {"access", "touch"}
    BY <1>2 DEF ChecksFit
  <2>2. i # Len(T.checks)
    BY <1>1, <1>3, <2>1
  <2>. QED  BY <1>2, <2>2
<1>6. handler = {} /\ Handlers(T, i + 1) = {}
  <2>1. i \in Nat /\ (i > 1 => i - 1 \in 1..Len(T.checks) /\ (i - 1) + 1 = i)
    BY <1>2
  <2>2. ~(i > 1 /\ T.checks[i - 1].op = "handler")
    <3>1. SUFFICES ASSUME i > 1, T.checks[i - 1].op = "handler"
                   PROVE  FALSE
      OBVIOUS
    <3>2. CheckFits(T, i - 1, Source(T).shared)
      BY <1>2, <2>1, <3>1 DEF ChecksFit
    <3>3. T.checks[(i - 1) + 1].op = "touch"
      BY <3>1, <3>2 DEF CheckFits
    <3>. QED  BY <1>1, <1>3, <2>1, <3>1, <3>3
  <2>3. (i + 1) - 1 = i
    BY <2>1
  <2>. QED  BY <1>1, <1>2, <1>3, <2>2, <2>3 DEF Handlers
\* Whatever page stops the check, the kernel is to blame.
<1>7. ASSUME Seen(T, addr, before, after, remap, i + 1) \/ \E k \in 0..(Check.len - 1) : stops(k),
             (\E k \in 0..(Check.len - 1) : stops(k)) => fault # "none"
      PROVE  IInv'
  <2>1. CASE (\A k \in 0..(Check.len - 1) : ~stops(k)) /\ Passed /\ UNCHANGED kmsg
    <3>1. i' = i + 1 /\ UNCHANGED <<pc, end>>
      BY <1>5, <2>1 DEF Passed
    <3>2. Seen(T, addr, before, after, remap, i + 1)
      BY <1>7, <2>1
    <3>. QED  BY <1>1, <1>5, <1>6, <2>1, <3>1, <3>2, NextCheck
  <2>2. ASSUME NEW k \in 0..(Check.len - 1), stops(k),
               IF Readable(page(k)) THEN Ended("ng") /\ UNCHANGED <<i, kmsg>> ELSE Faults(page(k))
        PROVE  IInv'
    <3>1. fault # "none"
      BY <1>7, <2>2
    <3>2. pc' = "judge" /\ end' \in {"ng", "killed"} /\ i' = i
      BY <2>2, <1>6 DEF Faults, Ended
    <3>3. \A p \in Space : PageOK(vm'[p])
      BY <1>1, <1>2 DEF BasicInv
    <3>. QED  BY <1>1, <3>1, <3>2, <3>3, LastCheck
  <2>. HIDE DEF stops, page
  <2>. QED  BY <1>1, <2>1, <2>2
<1>8. CASE i = 1 /\ AtRemap(Check, 0) /\ Check.len = BlockLen(T) /\ Check.exp = C.from
  <2>1. /\ From \in Nat /\ remap \in Nat /\ BlockLen(T) \in Nat /\ BlockLen(T) > 0 /\ SPACE \in Nat
        /\ BlockLen(T) <= Source(T).size
        /\ From + BlockLen(T) <= SPACE /\ remap + BlockLen(T) <= SPACE /\ C.from \in Nat
    BY <1>1, BlockIs
  <2>2. /\ \A k \in 0..(Source(T).size - 1) : V[From + k].prot = "rw" /\ V[From + k].val = C.from
        /\ \A k \in 0..(BlockLen(T) - 1) :
             W[remap + k] = V[From + k] \/ (fault # "none" /\ (W[remap + k] = NoPage \/ W[remap + k].val = Zero))
    BY <1>1, BlockIs
  <2>3. First = remap
    BY <1>8, <2>1 DEF First, At, AtRemap
  <2>4. ASSUME NEW k \in 0..(BlockLen(T) - 1)
        PROVE  page(k) = remap + k /\ k \in 0..(Source(T).size - 1) /\ k \in Nat
    <3>1. k \in Int /\ k >= 0 /\ k < BlockLen(T)
      BY <2>1
    <3>2. remap + k \in Int /\ 0 <= remap + k /\ remap + k < SPACE
      BY ONLY <2>1, <3>1
    <3>3. (remap + k) % SPACE = remap + k
      BY <3>2, ModLaws
    <3>4. Source(T).size \in Nat
      BY <1>2, Where
    <3>. QED  BY <2>1, <2>3, <3>1, <3>3, <3>4
  <2>5. ASSUME NEW k \in 0..(BlockLen(T) - 1)
        PROVE  stops(k) <=> ~(W[remap + k].prot \in {"r", "rw"}) \/ W[remap + k].val # C.from
    BY <1>2, <1>8, <2>4 DEF Readable, DataOk
  <2>. HIDE DEF stops, page
  <2>6. (\E k \in 0..(Check.len - 1) : stops(k)) => fault # "none"
    <3>. SUFFICES ASSUME NEW k \in 0..(BlockLen(T) - 1), stops(k), fault = "none"
                  PROVE  FALSE
      BY <1>8
    <3>1. W[remap + k] = V[From + k] /\ V[From + k].prot = "rw" /\ V[From + k].val = C.from
      BY <2>2, <2>4
    <3>. QED  BY <2>5, <3>1
  <2>7. SUFFICES ASSUME \A k \in 0..(BlockLen(T) - 1) : ~stops(k)
                 PROVE  Seen(T, addr, V, W, remap, i + 1)
    BY <1>7, <1>8, <2>6
  <2>8. \A k \in 0..(BlockLen(T) - 1) : W[remap + k] # NoPage /\ W[remap + k].val # Zero
    <3>1. NoPage.prot = "free" /\ C.from # Zero
      BY <2>1 DEF NoPage, Zero
    <3>. QED  BY <2>5, <2>7, <3>1
  <2>9. Same(V, W, From, remap, BlockLen(T))
    BY <2>2, <2>8 DEF Same
  <2>10. SameSize(T) => \A p \in Space : W[p] = V[p]
    <3>1. SUFFICES ASSUME SameSize(T)
                   PROVE  \A p \in Space : W[p] = V[p]
      OBVIOUS
    <3>2. GivesUp(T, fault, V, W, From, remap)
      BY <1>2 DEF Delivery, From, C
    <3>3. remap = From /\ (W[From] = NoPage \/ \A p \in Space : W[p] = V[p])
      BY <3>1, <3>2 DEF GivesUp
    <3>4. 0 \in 0..(BlockLen(T) - 1) /\ remap + 0 = remap
      BY ONLY <2>1
    <3>. QED  BY <2>8, <3>3, <3>4
  <2>11. i + 1 = 2
    BY <1>8
  <2>. QED  BY <2>9, <2>10, <2>11 DEF Seen, From, C
<1>9. CASE /\ i = 2 /\ MovesTo(T) /\ Check.at.base = C.to /\ Check.exp = C.to
           /\ Start(T) + C.old <= Dest(T) /\ C.off = 0 /\ Check.at.off = C.new
           /\ Check.len \in Nat \ {0} /\ Check.at.off + Check.len <= T.params[C.to + 1].size
           /\ T.params[C.to + 1].prot = "rw" /\ ~T.params[C.to + 1].nopage
  <2>1. /\ C.to \in Nat /\ C.new \in Nat /\ C.to \in 0..(Len(T.params) - 1) /\ Len(T.params) \in 1..5
        /\ T.params[C.to + 1].size \in Nat
    <3>1. Described(T)
      BY <1>2, Where
    <3>2. C.to \in 0..(Len(T.params) - 1) /\ C.new \in Nat /\ Len(T.params) \in 1..5
      BY <3>1 DEF Described, C
    <3>3. PICK n \in 1..5 : n = Len(T.params)
      BY <3>2
    <3>4. C.to + 1 \in 1..n /\ C.to \in Nat
      BY <3>2, <3>3
    <3>5. T.params[C.to + 1].size \in Nat
      BY <3>1, <3>3, <3>4 DEF Described
    <3>. QED  BY <3>2, <3>4, <3>5
  <2>2. /\ To \in Space /\ To = addr[C.to] /\ To \in Nat
    <3>1. To \in Space /\ To = addr[0] + Dest(T)
      BY <1>2, Where
    <3>2. addr[C.to] \in {-1} \union Space
      BY <1>2, <2>1 DEF BasicInv
    <3>3. To = addr[C.to] + 0
      BY <1>9 DEF To
    <3>. QED  BY <3>1, <3>2, <3>3, SpacePos
  <2>3. \A p \in Space : To <= p /\ p < To + T.params[C.to + 1].size => V[p].prot = "rw" /\ V[p].val = C.to
    <3>1. \A p \in Space : addr[C.to] <= p /\ p < addr[C.to] + T.params[C.to + 1].size => RangePage(T, V[p], C.to)
      BY <1>2, <2>1 DEF Layout, LaidOut
    <3>. QED  BY <1>9, <2>2, <3>1 DEF RangePage
  <2>4. To + T.params[C.to + 1].size <= SPACE /\ SPACE \in Nat
    <3>1. PICK n \in 1..5 : n = Len(T.params)
      BY <2>1
    <3>2. \A k \in 1..n : T.params[k].size \in Nat
      BY <1>2, <3>1, Where DEF Described
    <3>3. /\ Offset(T.params, C.to) \in Nat /\ Offset(T.params, n) \in Nat
          /\ Offset(T.params, C.to) + T.params[C.to + 1].size <= Offset(T.params, n)
      <4>1. n \in 0..5 /\ C.to \in 0..n /\ n \in 0..n /\ C.to < n
        BY <2>1, <3>1
      <4>2. /\ \A k \in 0..n : Offset(T.params, k) \in Nat
            /\ \A j, k \in 0..n : j < k => Offset(T.params, j) + T.params[j + 1].size <= Offset(T.params, k)
        BY <4>1, <3>2, OffsetSteps
      <4>. QED  BY <4>1, <4>2
    <3>4. Whole(T) = Offset(T.params, n) /\ addr[0] + Whole(T) <= SPACE /\ addr[0] \in Nat
      BY <1>2, <3>1, Where DEF Whole
    <3>5. To = addr[0] + Offset(T.params, C.to)
      <4>1. addr[C.to] = addr[0] + Offset(T.params, C.to)
        BY <1>2, <2>1 DEF Layout, LaidOut
      <4>. QED  BY <2>2, <4>1
    <3>6. SPACE \in Nat
      BY SpacePos
    <3>7. T.params[C.to + 1].size \in Nat
      BY <2>1
    <3>. QED  BY ONLY <3>3, <3>4, <3>5, <3>6, <3>7
  <2>5. First = To + C.new
    BY <1>9, <2>1, <2>2 DEF First, At
  <2>6. ASSUME NEW k \in 0..(Check.len - 1)
        PROVE  /\ page(k) = To + C.new + k /\ page(k) \in Space /\ page(k) >= To + C.new
               /\ V[page(k)].prot = "rw" /\ V[page(k)].val = C.to
    <3>1. k \in Int /\ k >= 0 /\ k < Check.len /\ Check.len \in Nat /\ C.new + Check.len <= T.params[C.to + 1].size
      BY <1>9
    <3>2. PICK p \in Int : p = To + C.new + k
      BY <2>1, <2>2, <3>1
    <3>3. 0 <= p /\ p < SPACE /\ To <= p /\ p < To + T.params[C.to + 1].size /\ p >= To + C.new
      <4>1. To \in Nat /\ C.new \in Nat /\ T.params[C.to + 1].size \in Nat
        BY <2>1, <2>2
      <4>2. To + T.params[C.to + 1].size <= SPACE /\ SPACE \in Nat
        BY <2>4
      <4>. QED  BY ONLY <4>1, <4>2, <3>1, <3>2
    <3>4. p % SPACE = p /\ p \in Space
      BY <3>3, ModLaws, SpacePos
    <3>5. page(k) = p
      BY <2>5, <3>2, <3>4
    <3>. HIDE DEF page
    <3>. QED  BY <2>3, <3>2, <3>3, <3>4, <3>5
  <2>7. ASSUME NEW k \in 0..(Check.len - 1)
        PROVE  stops(k) <=> ~(W[page(k)].prot \in {"r", "rw"}) \/ W[page(k)].val # C.to
    BY <1>2, <1>9 DEF Readable, DataOk
  <2>. HIDE DEF stops, page
  <2>8. \A p \in Space : p >= To + C.new =>
          W[p] = V[p] \/ (fault # "none" /\ p = To + C.new /\ W[p].val = Zero)
    <3>1. Spares(fault, V, W, To + C.new)
      BY <1>2, <1>9 DEF Delivery, To, C
    <3>. QED  BY <3>1 DEF Spares
  <2>9. (\E k \in 0..(Check.len - 1) : stops(k)) => fault # "none"
    <3>. SUFFICES ASSUME NEW k \in 0..(Check.len - 1), stops(k), fault = "none"
                  PROVE  FALSE
      OBVIOUS
    <3>1. W[page(k)] = V[page(k)]
      BY <2>6, <2>8
    <3>. QED  BY <2>6, <2>7, <3>1
  <2>10. SUFFICES ASSUME \A k \in 0..(Check.len - 1) : ~stops(k)
                  PROVE  Seen(T, addr, V, W, remap, i + 1)
    BY <1>7, <2>9
  <2>11. W[To + C.new] = V[To + C.new]
    <3>1. 0 \in 0..(Check.len - 1)
      BY <1>9
    <3>2. page(0) = To + C.new
      <4>1. page(0) = To + C.new + 0
        BY <2>6, <3>1
      <4>. QED  BY <4>1, <2>1, <2>2
    <3>3. W[page(0)].val = C.to
      BY <2>7, <2>10, <3>1
    <3>4. C.to # Zero
      BY <2>1 DEF Zero
    <3>. QED  BY <2>6, <2>8, <3>1, <3>2, <3>3, <3>4
  <2>12. Seen(T, addr, V, W, remap, 2) /\ i + 1 = 3
    BY <1>2, <1>9
  <2>. QED  BY <2>11, <2>12 DEF Seen, To, C
<1>. QED  BY <1>4, <1>8, <1>9 DEF DataFits, C

\* What the last check has left to show of a block that has arrived.
LEMMA EarnedBlock ==
  ASSUME IInv, pc = "check", i > 1
  PROVE  \A k \in 0..(IF C.new > C.old THEN C.old - 1 ELSE C.new - 1) :
           after[(remap + k) % SPACE] = before[(From + k) % SPACE]
<1>1. /\ From \in Nat /\ remap \in Nat /\ BlockLen(T) \in Nat /\ SPACE \in Nat
      /\ From + BlockLen(T) <= SPACE /\ remap + BlockLen(T) <= SPACE
      /\ C.old \in Nat /\ C.new \in Nat
  BY BlockIs
<1>2. ~SameSize(T) => BlockLen(T) = IF C.new > C.old THEN C.old ELSE C.new
  BY BlockIs
<1>3. /\ Same(before, after, From, remap, BlockLen(T)) /\ (SameSize(T) => \A p \in Space : after[p] = before[p])
      /\ GivesUp(T, fault, before, after, From, remap)
  BY AtCheck DEF Seen, Delivery, From, C
<1>4. CASE SameSize(T)
  <2>1. remap = From
    BY <1>3, <1>4 DEF GivesUp
  <2>. SUFFICES ASSUME NEW k \in 0..(IF C.new > C.old THEN C.old - 1 ELSE C.new - 1)
                PROVE  after[(From + k) % SPACE] = before[(From + k) % SPACE]
    BY <2>1
  <2>2. From + k \in Int
    BY <1>1
  <2>3. (From + k) % SPACE \in Space
    BY <2>2, ModLaws
  <2>. QED  BY <1>3, <1>4, <2>3
<1>5. CASE ~SameSize(T)
  <2>. SUFFICES ASSUME NEW k \in 0..(BlockLen(T) - 1)
                PROVE  after[(remap + k) % SPACE] = before[(From + k) % SPACE]
    BY <1>1, <1>2, <1>5
  <2>1. k \in Int /\ k >= 0 /\ k < BlockLen(T)
    BY <1>1
  <2>2. remap + k \in Int /\ 0 <= remap + k /\ remap + k < SPACE /\ From + k \in Int /\ 0 <= From + k /\ From + k < SPACE
    BY ONLY <1>1, <2>1
  <2>3. (remap + k) % SPACE = remap + k /\ (From + k) % SPACE = From + k
    BY <2>2, ModLaws
  <2>. QED  BY <1>3, <2>3 DEF Same
<1>. QED  BY <1>4, <1>5

\* The destination of a FIXED call that succeeds: free before it, or a mapping of which the second
\* data check sees the rest.
LEMMA EarnedRest ==
  ASSUME IInv, pc = "check", i = Len(T.checks), Check.op # "data"
  PROVE  C.flags = "FIXED" /\ before[To].prot = "rw" => after[To + C.new] = before[To + C.new]
<1>1. /\ BasicInv /\ T.expect = "ok" /\ ChecksFit(T, Source(T).shared) /\ Len(T.checks) \in 2..3
      /\ Layout(T, before, addr, addr[0], Len(T.params)) /\ Seen(T, addr, before, after, remap, i)
  BY AtCheck
<1>. SUFFICES ASSUME C.flags = "FIXED", before[To].prot = "rw"
              PROVE  after[To + C.new] = before[To + C.new]
  OBVIOUS
<1>2. ~T.params[C.to + 1].nopage
  <2>1. Described(T) /\ To \in Space
    BY <1>1, Where
  <2>2. C.off \in Nat /\ C.off < T.params[C.to + 1].size /\ C.to \in 0..(Len(T.params) - 1)
    BY <2>1 DEF Described, C
  <2>3. PICK n \in 1..5 : n = Len(T.params)
    BY <2>1 DEF Described
  <2>4. C.to + 1 \in 1..n
    BY <2>2, <2>3
  <2>5. T.params[C.to + 1].size \in Nat
    BY <2>1, <2>3, <2>4 DEF Described
  <2>6. \A p \in Space : addr[C.to] <= p /\ p < addr[C.to] + T.params[C.to + 1].size => RangePage(T, before[p], C.to)
    BY <1>1, <2>2 DEF Layout, LaidOut
  <2>7. addr[C.to] \in Int /\ To = addr[C.to] + C.off
    <3>1. addr[C.to] \in {-1} \union Space
      BY <1>1, <2>2 DEF BasicInv
    <3>. QED  BY <3>1, SpacePos DEF To
  <2>8. addr[C.to] <= To /\ To < addr[C.to] + T.params[C.to + 1].size
    BY <2>2, <2>5, <2>7
  <2>9. RangePage(T, before[To], C.to)
    BY <2>1, <2>6, <2>8
  <2>. QED  BY <2>9 DEF RangePage, NoPage
<1>3. T.checks[2].op = "data"
  BY <1>1, <1>2 DEF ChecksFit, C
<1>4. i # 2
  BY <1>3 DEF Check
<1>5. i > 2
  <2>1. PICK n \in {2, 3} : n = Len(T.checks)
    BY <1>1
  <2>2. i = n /\ (n = 2 \/ n = 3)
    BY <2>1
  <2>. QED  BY ONLY <1>4, <2>2
<1>. QED  BY <1>1, <1>3, <1>5 DEF Seen, To, C

\* The access check
LEMMA AccessStep == IInv /\ AccessCheck => IInv'
<1>. SUFFICES ASSUME IInv, AccessCheck
              PROVE  IInv'
  OBVIOUS
<1>. DEFINE page(k) == (First + k) % SPACE
            bad(k) == vm[page(k)].prot # "rw"
<1>1. /\ pc = "check" /\ Check.op = "access"
      /\ \/ /\ \A k \in 0..(Check.len - 1) : ~bad(k)
            /\ vm' = [p \in Space |-> IF Within(p, First, Check.len) THEN [vm[p] EXCEPT !.val = 0] ELSE vm[p]]
            /\ Passed /\ UNCHANGED kmsg
         \/ \E k \in 0..(Check.len - 1) : bad(k) /\ Faults(page(k)) /\ UNCHANGED vm
      /\ UNCHANGED <<chosen, addr, cur, remap, handler, verdict, before, after>>
  BY DEF AccessCheck
<1>2. /\ BasicInv /\ CallFits(T) /\ T.expect = "ok" /\ ChecksFit(T, Source(T).shared) /\ CheckFits(T, i, Source(T).shared)
      /\ i \in 1..Len(T.checks) /\ Len(T.checks) \in 2..3 /\ Layout(T, before, addr, addr[0], Len(T.params))
      /\ vm = after /\ kmsg = FALSE /\ handler = Handlers(T, i)
      /\ Delivery(T, fault, addr, before, after, remap) /\ Seen(T, addr, before, after, remap, i)
  BY <1>1, AtCheck
<1>3. Check = T.checks[i]
  BY DEF Check
<1>4. /\ i = Len(T.checks) /\ AtRemap(Check, 0)
      /\ Check.len = (IF C.old < C.new THEN C.new ELSE BlockLen(T))
      /\ C.old < C.new => ~Source(T).shared
  BY <1>1, <1>2, <1>3 DEF CheckFits, AccessFits, C
<1>5. i > 1 /\ i \in Nat
  <2>1. PICK n \in {2, 3} : n = Len(T.checks)
    BY <1>2
  <2>2. i = n /\ (n = 2 \/ n = 3)
    BY <1>4, <2>1
  <2>. QED  BY ONLY <2>2
<1>6. handler = {}
  <2>1. i - 1 \in 1..Len(T.checks) /\ (i - 1) + 1 = i
    BY <1>2, <1>5
  <2>2. T.checks[i - 1].op # "handler"
    <3>1. SUFFICES ASSUME T.checks[i - 1].op = "handler"
                   PROVE  FALSE
      OBVIOUS
    <3>2. CheckFits(T, i - 1, Source(T).shared)
      BY <1>2, <2>1 DEF ChecksFit
    <3>3. T.checks[(i - 1) + 1].op = "touch"
      BY <3>1, <3>2 DEF CheckFits
    <3>. QED  BY <1>1, <1>3, <2>1, <3>3
  <2>. QED  BY <1>2, <2>2 DEF Handlers
<1>7. ~EndsInProbe(T)
  <2>1. ASSUME NEW k \in DOMAIN T.checks, T.checks[k].op = "touch"
        PROVE  FALSE
    <3>1. k \in 1..Len(T.checks)
      BY <1>2, <2>1 DEF ChecksFit
    <3>2. CheckFits(T, k, Source(T).shared)
      BY <1>2, <3>1 DEF ChecksFit
    <3>3. k = Len(T.checks)
      BY <2>1, <3>2 DEF CheckFits
    <3>. QED  BY <1>1, <1>3, <1>4, <2>1, <3>3
  <2>. QED  BY <2>1 DEF EndsInProbe
<1>8. /\ From \in Nat /\ remap \in Nat /\ BlockLen(T) \in Nat /\ BlockLen(T) > 0 /\ SPACE \in Nat
      /\ remap + BlockLen(T) <= SPACE /\ C.old \in Nat /\ C.new \in Nat /\ C.old > 0 /\ C.new > 0
  BY <1>1, BlockIs
<1>9. /\ ~SameSize(T) => BlockLen(T) = IF C.new > C.old THEN C.old ELSE C.new
      /\ \A k \in 0..(BlockLen(T) - 1) : after[remap + k] = before[From + k] /\ before[From + k].prot = "rw"
  <2>1. /\ ~SameSize(T) => BlockLen(T) = IF C.new > C.old THEN C.old ELSE C.new
        /\ \A k \in 0..(Source(T).size - 1) : before[From + k].prot = "rw"
        /\ BlockLen(T) <= Source(T).size
    BY <1>1, BlockIs
  <2>2. Same(before, after, From, remap, BlockLen(T))
    BY <1>2, <1>5 DEF Seen, From, C
  <2>3. \A k \in 0..(BlockLen(T) - 1) : k \in 0..(Source(T).size - 1)
    <3>1. Source(T).size \in Nat
      BY <1>2, Where
    <3>. QED  BY <1>8, <2>1, <3>1
  <2>. QED  BY <2>1, <2>2, <2>3 DEF Same
<1>10. Gains(T, fault, after, remap)
  BY <1>2 DEF Delivery
<1>11. ASSUME C.new > C.old
       PROVE  /\ remap + C.new <= SPACE /\ BlockLen(T) = C.old /\ Check.len = C.new
              /\ \A k \in C.old..(C.new - 1) : fault = "none" => after[remap + k].prot = "rw"
  <2>1. ~SameSize(T)
    BY <1>8, <1>11 DEF SameSize, C
  <2>2. BlockLen(T) = C.old
    BY <1>9, <1>11, <2>1
  <2>3. Check.len = C.new /\ ~Source(T).shared
    BY <1>4, <1>8, <1>11
  <2>. QED  BY <1>10, <1>11, <2>2, <2>3 DEF Gains, C
<1>12. First = remap
  BY <1>4, <1>8 DEF First, At, AtRemap
<1>13. Check.len \in Nat /\ Check.len > 0 /\ remap + Check.len <= SPACE
  <2>1. CASE C.new > C.old
    BY <1>8, <1>11, <2>1
  <2>2. CASE ~(C.new > C.old)
    <3>1. Check.len = BlockLen(T)
      BY <1>4, <1>8, <2>2
    <3>. QED  BY <1>8, <3>1
  <2>. QED  BY <2>1, <2>2
<1>14. ASSUME NEW k \in 0..(Check.len - 1)
       PROVE  page(k) = remap + k
  <2>1. k \in Int /\ k >= 0 /\ k < Check.len
    BY <1>13
  <2>2. remap + k \in Int /\ 0 <= remap + k /\ remap + k < SPACE
    BY ONLY <1>8, <1>13, <2>1
  <2>. QED  BY <1>12, <2>2, ModLaws
<1>. HIDE DEF page
<1>15. CASE /\ \A k \in 0..(Check.len - 1) : ~bad(k)
            /\ vm' = [p \in Space |-> IF Within(p, First, Check.len) THEN [vm[p] EXCEPT !.val = 0] ELSE vm[p]]
            /\ Passed /\ UNCHANGED kmsg
  <2>1. pc' = "judge" /\ end' = "ok" /\ i' = i
    BY <1>1, <1>2, <1>4, <1>15 DEF Passed, Ended
  <2>2. \A p \in Space : PageOK(vm'[p])
    <3>1. \A p \in Space : PageOK(vm[p])
      BY <1>2 DEF BasicInv
    <3>. SUFFICES ASSUME NEW p \in Space
                  PROVE  PageOK(vm'[p])
      OBVIOUS
    <3>2. vm'[p] = IF Within(p, First, Check.len) THEN [vm[p] EXCEPT !.val = 0] ELSE vm[p]
      BY <1>15
    <3>3. PageOK([vm[p] EXCEPT !.val = 0])
      BY <3>1 DEF PageOK
    <3>. QED  BY <3>1, <3>2, <3>3
  <2>3. C.new > C.old => after[remap + C.new - 1].prot = IF before[From].shared THEN "bus" ELSE "rw"
    <3>1. SUFFICES ASSUME C.new > C.old
                   PROVE  after[remap + C.new - 1].prot = IF before[From].shared THEN "bus" ELSE "rw"
      OBVIOUS
    <3>2. C.new - 1 \in 0..(Check.len - 1) /\ remap + (C.new - 1) = remap + C.new - 1
      BY <1>8, <1>11, <3>1
    <3>3. after[remap + C.new - 1].prot = "rw"
      <4>1. page(C.new - 1) = remap + C.new - 1
        BY <1>14, <3>2
      <4>2. ~bad(C.new - 1)
        BY <1>15, <3>2
      <4>. QED  BY <1>2, <4>1, <4>2
    <3>4. before[From].shared = Source(T).shared
      <4>1. \A k \in 0..(Source(T).size - 1) : before[From + k].shared = Source(T).shared
        BY <1>1, BlockIs
      <4>2. 0 \in 0..(Source(T).size - 1) /\ From + 0 = From
        <5>1. Source(T).size \in Nat \ {0}
          BY <1>2, Where
        <5>. QED  BY <5>1, <1>8
      <4>. QED  BY <4>1, <4>2
    <3>5. ~Source(T).shared
      BY <1>4, <1>8, <3>1
    <3>. QED  BY <3>3, <3>4, <3>5
  <2>4. Earned(T, addr, before, after, remap, handler)
    <3>1. \A k \in 0..(IF C.new > C.old THEN C.old - 1 ELSE C.new - 1) :
            after[(remap + k) % SPACE] = before[(From + k) % SPACE]
      BY <1>1, <1>5, EarnedBlock
    <3>2. C.flags = "FIXED" /\ before[To].prot = "rw" => after[To + C.new] = before[To + C.new]
      BY <1>1, <1>4, EarnedRest
    <3>. QED  BY <1>7, <2>3, <3>1, <3>2 DEF Earned, From, To, C
  <2>. QED  BY <1>1, <1>7, <2>1, <2>2, <2>4, LastCheck
<1>16. ASSUME NEW k \in 0..(Check.len - 1), bad(k), Faults(page(k)), vm' = vm
       PROVE  IInv'
  <2>1. pc' = "judge" /\ end' = "killed" /\ i' = i
    BY <1>6, <1>16 DEF Faults, Ended
  <2>2. fault # "none"
    <3>1. after[remap + k].prot # "rw"
      BY <1>2, <1>14, <1>16
    <3>2. ~(k \in 0..(BlockLen(T) - 1))
      BY <1>9, <3>1
    <3>3. k \in Int /\ k >= 0 /\ k < Check.len /\ k >= BlockLen(T)
      BY <1>8, <1>13, <3>2
    <3>4. C.new > C.old
      BY <1>4, <1>8, <3>3
    <3>5. k \in C.old..(C.new - 1)
      BY <1>8, <1>11, <3>3, <3>4
    <3>. QED  BY <1>11, <3>1, <3>4, <3>5
  <2>3. \A p \in Space : PageOK(vm'[p])
    BY <1>2, <1>16 DEF BasicInv
  <2>. QED  BY <1>1, <2>1, <2>2, <2>3, LastCheck
<1>. HIDE DEF bad
<1>. QED  BY <1>1, <1>15, <1>16

\* The handler goes in between the data check and the probe.
LEMMA HandlerStep == IInv /\ SetHandler => IInv'
<1>. SUFFICES ASSUME IInv, SetHandler
              PROVE  IInv'
  OBVIOUS
<1>1. /\ pc = "check" /\ Check.op = "handler"
      /\ \/ handler' = handler \union {Check.exp} /\ Passed
         \/ fault = "sigaction" /\ Ended("ng") /\ UNCHANGED <<handler, i>>
      /\ UNCHANGED <<chosen, vm, addr, cur, remap, kmsg, verdict, before, after>>
  BY DEF SetHandler
<1>2. /\ BasicInv /\ T.expect = "ok" /\ ChecksFit(T, Source(T).shared) /\ CheckFits(T, i, Source(T).shared)
      /\ i \in 1..Len(T.checks) /\ Len(T.checks) \in 2..3 /\ handler = Handlers(T, i)
      /\ Seen(T, addr, before, after, remap, i)
  BY <1>1, AtCheck
<1>3. Check = T.checks[i] /\ i \in Nat
  BY <1>2 DEF Check
<1>4. i + 1 = Len(T.checks)
  BY <1>1, <1>2, <1>3 DEF CheckFits
<1>5. i = 2
  <2>1. i # 1
    BY <1>1, <1>2, <1>3 DEF ChecksFit
  <2>2. PICK n \in {2, 3} : n = Len(T.checks)
    BY <1>2
  <2>3. i + 1 = n /\ (n = 2 \/ n = 3)
    BY <1>4, <2>2
  <2>. QED  BY ONLY <1>3, <2>1, <2>3
<1>6. handler = {} /\ Handlers(T, i + 1) = {Check.exp}
  <2>1. T.checks[1].op = "data"
    BY <1>2 DEF ChecksFit
  <2>2. Handlers(T, 2) = {} /\ Handlers(T, 3) = {T.checks[2].exp}
    BY <1>1, <1>3, <1>5, <2>1 DEF Handlers
  <2>. QED  BY <1>2, <1>3, <1>5, <2>2
<1>7. CASE handler' = handler \union {Check.exp} /\ Passed
  <2>1. i < Len(T.checks)
    BY <1>3, <1>4
  <2>2. i' = i + 1 /\ UNCHANGED <<pc, end>>
    BY <1>7, <2>1 DEF Passed
  <2>3. Seen(T, addr, before, after, remap, i + 1)
    <3>1. T.checks[2].op # "data"
      BY <1>1, <1>3, <1>5
    <3>2. i > 1 /\ i + 1 > 1
      BY <1>5
    <3>. QED  BY <1>2, <3>1, <3>2 DEF Seen
  <2>4. handler' = Handlers(T, i + 1)
    BY <1>6, <1>7
  <2>. QED  BY <1>1, <2>1, <2>2, <2>3, <2>4, NextCheck
<1>8. CASE fault = "sigaction" /\ Ended("ng") /\ UNCHANGED <<handler, i>>
  <2>1. pc' = "judge" /\ end' = "ng" /\ fault # "none" /\ UNCHANGED <<handler, i>>
    BY <1>8 DEF Ended
  <2>2. \A p \in Space : PageOK(vm'[p])
    BY <1>1, <1>2 DEF BasicInv
  <2>. QED  BY <1>1, <2>1, <2>2, LastCheck
<1>. QED  BY <1>1, <1>7, <1>8

\* The probe: what has gone, or lies beyond the object, raises the signal the test waits for.
LEMMA TouchStep == IInv /\ TouchPage => IInv'
<1>. SUFFICES ASSUME IInv, TouchPage
              PROVE  IInv'
  OBVIOUS
<1>1. /\ pc = "check" /\ Check.op = "touch"
      /\ IF Readable(First) THEN Passed /\ UNCHANGED kmsg ELSE Faults(First)
      /\ UNCHANGED <<chosen, vm, addr, cur, remap, handler, verdict, before, after>>
  BY DEF TouchPage
<1>2. /\ BasicInv /\ CallFits(T) /\ T.expect = "ok" /\ ChecksFit(T, Source(T).shared) /\ CheckFits(T, i, Source(T).shared)
      /\ i \in 1..Len(T.checks) /\ Len(T.checks) \in 2..3 /\ Layout(T, before, addr, addr[0], Len(T.params))
      /\ vm = after /\ handler = Handlers(T, i)
      /\ Delivery(T, fault, addr, before, after, remap)
  BY <1>1, AtCheck
<1>3. Check = T.checks[i]
  BY DEF Check
<1>4. /\ i = Len(T.checks) /\ i > 1 /\ T.checks[i - 1].op = "handler"
      /\ ProbeFits(T, Check, T.checks[i - 1].exp, Source(T).shared)
  BY <1>1, <1>2, <1>3 DEF CheckFits
<1>5. handler = {T.checks[i - 1].exp}
  BY <1>2, <1>4 DEF Handlers
<1>6. EndsInProbe(T)
  <2>1. i \in DOMAIN T.checks
    BY <1>2 DEF ChecksFit
  <2>. QED  BY <1>1, <1>3, <2>1 DEF EndsInProbe
<1>7. \A p \in Space : PageOK(vm'[p])
  BY <1>1, <1>2 DEF BasicInv
<1>8. /\ From \in Nat /\ remap \in Nat /\ BlockLen(T) \in Nat /\ BlockLen(T) > 0 /\ SPACE \in Nat
      /\ remap + BlockLen(T) <= SPACE /\ C.old \in Nat /\ C.new \in Nat /\ C.old > 0 /\ C.new > 0
  BY <1>1, BlockIs
<1>9. /\ \A k \in 0..(Source(T).size - 1) : before[From + k].prot = "rw" /\ before[From + k].shared = Source(T).shared
      /\ Source(T).size \in Nat \ {0}
  BY <1>1, <1>2, BlockIs, Where
<1>10. before[From].prot = "rw" /\ before[From].shared = Source(T).shared
  <2>1. 0 \in 0..(Source(T).size - 1) /\ From + 0 = From
    BY <1>8, <1>9
  <2>. QED  BY <1>9, <2>1
<1>11. /\ Gains(T, fault, after, remap) /\ GivesUp(T, fault, before, after, From, remap)
  BY <1>2 DEF Delivery, From, C
<1>12. NoPage.prot = "free"
  BY DEF NoPage
\* The page is readable: the kernel is to blame, and the test fails.
<1>13. ASSUME Readable(First), fault # "none"
       PROVE  IInv'
  <2>1. pc' = "judge" /\ end' = "ng" /\ i' = i
    BY <1>1, <1>2, <1>4, <1>13 DEF Passed, Ended
  <2>. QED  BY <1>1, <1>7, <1>13, <2>1, LastCheck
\* The other signal: the kernel is to blame, and the test is killed.
<1>14. ASSUME ~Readable(First), fault # "none", (IF vm[First].prot = "bus" THEN "BUS" ELSE "SEGV") \notin handler
       PROVE  IInv'
  <2>1. pc' = "judge" /\ end' = "killed" /\ i' = i
    BY <1>1, <1>14 DEF Faults, Ended
  <2>. QED  BY <1>1, <1>7, <1>14, <2>1, LastCheck
\* The signal the test waits for.
<1>15. ASSUME ~Readable(First), (IF vm[First].prot = "bus" THEN "BUS" ELSE "SEGV") \in handler,
              C.new > C.old /\ "SEGV" \notin handler => after[remap + C.new - 1].prot = IF before[From].shared THEN "bus" ELSE "rw",
              C.new < C.old => after[remap + C.new] = NoPage,
              C.flags = "FIXED" \/ (C.flags = "MAYMOVE" /\ "SEGV" \in handler) => after[From] = NoPage
       PROVE  IInv'
  <2>1. pc' = "judge" /\ end' = "handled" /\ i' = i /\ kmsg' = TRUE
    BY <1>1, <1>15 DEF Faults, Ended
  <2>2. Earned(T, addr, before, after, remap, handler)
    <3>1. \A k \in 0..(IF C.new > C.old THEN C.old - 1 ELSE C.new - 1) :
            after[(remap + k) % SPACE] = before[(From + k) % SPACE]
      BY <1>1, <1>4, EarnedBlock
    <3>2. C.flags = "FIXED" /\ before[To].prot = "rw" => after[To + C.new] = before[To + C.new]
      BY <1>1, <1>4, EarnedRest
    <3>. QED  BY <1>15, <3>1, <3>2 DEF Earned, From, To, C
  <2>. QED  BY <1>1, <1>3, <1>6, <1>7, <2>1, <2>2, LastCheck
\* The tail of a block that shrank
<1>16. CASE AtRemap(Check, C.new) /\ Shrinks(T) /\ T.checks[i - 1].exp = "SEGV"
  <2>1. C.flags = "0" /\ C.old = Source(T).size /\ C.new < C.old /\ ~(C.new > C.old)
    BY <1>8, <1>16 DEF Shrinks, C
  <2>2. First = remap + C.new
    BY <1>16, <2>1 DEF First, At, AtRemap
  <2>3. remap = From /\ Leaves(fault, before, after, From + C.new)
    BY <1>11, <1>16 DEF GivesUp, C
  <2>4. before[From + C.new].prot = "rw"
    <3>1. C.new \in 0..(Source(T).size - 1)
      BY <1>8, <2>1
    <3>. QED  BY <1>9, <3>1
  <2>5. Readable(First) <=> after[From + C.new].prot \in {"r", "rw"}
    BY <1>2, <2>2, <2>3 DEF Readable
  <2>6. CASE after[From + C.new] = NoPage
    <3>1. ~Readable(First) /\ vm[First].prot = "free" /\ handler = {"SEGV"}
      BY <1>2, <1>5, <1>12, <1>16, <2>2, <2>3, <2>5, <2>6
    <3>2. after[remap + C.new] = NoPage /\ ~(C.flags = "FIXED" \/ (C.flags = "MAYMOVE" /\ "SEGV" \in handler))
      BY <2>1, <2>3, <2>6
    <3>. QED  BY <1>15, <2>1, <3>1, <3>2
  <2>7. CASE fault # "none" /\ after[From + C.new] = before[From + C.new]
    BY <1>13, <2>4, <2>5, <2>7
  <2>. QED  BY <2>3, <2>6, <2>7 DEF Leaves
\* A page gained beyond the end of a shared object
<1>17. CASE /\ AtRemap(Check, C.old) /\ (GrowsInPlace(T) \/ MustMove(T)) /\ Source(T).shared
            /\ T.checks[i - 1].exp = "BUS"
  <2>1. C.flags # "FIXED" /\ C.new > C.old /\ ~(C.new < C.old)
    <3>1. C.flags # "FIXED" /\ C.new > C.old
      BY <1>17 DEF GrowsInPlace, MustMove, HemmedIn, C
    <3>. QED  BY <1>8, <3>1
  <2>2. First = remap + C.old
    BY <1>17 DEF First, At, AtRemap
  <2>3. handler = {"BUS"}
    BY <1>5, <1>17
  <2>4. \A k \in C.old..(C.new - 1) :
          IF fault \in {"lost", "short"} THEN after[remap + k] = NoPage
          ELSE after[remap + k].prot = IF fault # "zerofill" THEN "bus" ELSE "rw"
    BY <1>11, <1>17, <2>1 DEF Gains, C
  <2>5. C.old \in C.old..(C.new - 1) /\ C.new - 1 \in C.old..(C.new - 1) /\ remap + (C.new - 1) = remap + C.new - 1
    BY <1>8, <2>1
  <2>6. CASE fault \in {"lost", "short"}
    <3>1. vm[First] = NoPage
      BY <1>2, <2>2, <2>4, <2>5, <2>6
    <3>2. ~Readable(First) /\ vm[First].prot = "free"
      BY <3>1, <1>12 DEF Readable
    <3>. QED  BY <1>14, <2>3, <2>6, <3>2
  <2>7. CASE fault = "zerofill"
    <3>1. Readable(First)
      BY <1>2, <2>2, <2>4, <2>5, <2>7 DEF Readable
    <3>. QED  BY <1>13, <2>7, <3>1
  <2>8. CASE fault \notin {"lost", "short", "zerofill"}
    <3>1. vm[First].prot = "bus" /\ after[remap + C.new - 1].prot = "bus"
      BY <1>2, <2>2, <2>4, <2>5, <2>8
    <3>2. ~Readable(First) /\ "SEGV" \notin handler /\ before[From].shared
      BY <1>10, <1>17, <2>3, <3>1 DEF Readable
    <3>. QED  BY <1>15, <2>1, <2>3, <3>1, <3>2
  <2>. QED  BY <2>6, <2>7, <2>8
\* The place a block has left
<1>18. CASE /\ Check.at.base = C.from /\ Check.at.off = 0 /\ T.checks[i - 1].exp = "SEGV"
            /\ MustMove(T) \/ (MovesTo(T) /\ T.params[C.to + 1].nopage)
  <2>1. ~(C.new < C.old)
    BY <1>8, <1>18 DEF MustMove, MovesTo, HemmedIn, C
  <2>2. First = From
    <3>1. C.from \in Nat
      BY <1>1, BlockIs
    <3>2. C.from # -1
      BY <3>1
    <3>3. First = From + 0
      BY <1>18, <3>2 DEF First, At, From
    <3>. QED  BY <1>8, <3>3
  <2>3. Leaves(fault, before, after, From)
    BY <1>11, <1>18 DEF GivesUp
  <2>4. CASE after[From] = NoPage
    <3>1. ~Readable(First) /\ vm[First].prot = "free" /\ handler = {"SEGV"}
      BY <1>2, <1>5, <1>12, <1>18, <2>2, <2>4 DEF Readable
    <3>. QED  BY <1>15, <2>1, <2>4, <3>1
  <2>5. CASE fault # "none" /\ after[From] = before[From]
    <3>1. Readable(First)
      BY <1>2, <1>10, <2>2, <2>5 DEF Readable
    <3>. QED  BY <1>13, <2>5, <3>1
  <2>. QED  BY <2>3, <2>4, <2>5 DEF Leaves
<1>. QED  BY <1>4, <1>16, <1>17, <1>18 DEF ProbeFits, C

\* run.sh agrees with the test program.
LEMMA JudgeStep == IInv /\ Judge => IInv'
<1>. SUFFICES ASSUME IInv, Judge
              PROVE  IInv'
  OBVIOUS
<1>1. /\ pc = "judge" /\ pc' = "over" /\ verdict' = (IF GoodRun THEN "ok" ELSE "ng")
      /\ T' = T /\ test' = test /\ fault' = fault /\ vm' = vm /\ addr' = addr /\ i' = i /\ cur' = cur /\ remap' = remap
      /\ handler' = handler /\ end' = end /\ kmsg' = kmsg /\ before' = before /\ after' = after
  BY DEF Judge, chosen
<1>2. BasicInv'
  BY <1>1 DEF IInv, BasicInv
<1>3. FormatInv' /\ CheckInv'
  BY <1>1 DEF FormatInv, CheckInv
<1>4. fault = "none" => verdict' = "ok"
  <2>1. SUFFICES ASSUME fault = "none"
                 PROVE  GoodRun
    BY <1>1
  <2>2. end = (IF EndsInProbe(T) THEN "handled" ELSE "ok") /\ (end = "handled" => kmsg)
    BY <1>1, <2>1 DEF IInv, EndInv
  <2>. QED  BY <2>2 DEF GoodRun, Probes, EndsInProbe
<1>5. EndInv'
  BY <1>1, <1>4 DEF IInv, EndInv
<1>. QED  BY <1>2, <1>3, <1>5 DEF IInv

\* IInv is a state predicate of the variables of the module.
LEMMA IInvStays ==
  ASSUME IInv, UNCHANGED vars
  PROVE  IInv'
<1>1. /\ T' = T /\ test' = test /\ fault' = fault /\ vm' = vm /\ addr' = addr /\ pc' = pc /\ i' = i /\ cur' = cur
      /\ remap' = remap /\ handler' = handler /\ end' = end /\ kmsg' = kmsg /\ verdict' = verdict
      /\ before' = before /\ after' = after
  BY DEF vars, chosen
<1>2. BasicInv'
  BY <1>1 DEF IInv, BasicInv
<1>3. FormatInv'
  BY <1>1 DEF IInv, FormatInv
<1>4. CheckInv'
  BY <1>1 DEF IInv, CheckInv
<1>5. EndInv'
  BY <1>1 DEF IInv, EndInv
<1>. QED  BY <1>2, <1>3, <1>4, <1>5 DEF IInv

-----------------------------------------------------------------------------
(* The theorems *)

\* IInv is an invariant: the test at work is well made, its ranges are laid out, mremap() left what
\* Delivery says, the checks have seen what Seen says, and the end was earned.
THEOREM Invariance == Spec => []IInv
<1>1. Init => IInv
  BY InitIInv
<1>2. IInv /\ [Next]_vars => IInv'
  BY ReserveStep, FormatStep, CallStep, DataStep, AccessStep, HandlerStep, TouchStep, JudgeStep, IInvStays
     DEF Next, Over
<1>. QED  BY <1>1, <1>2, PTL DEF Spec

\* TypeOK: the variables keep their types and the loops of mremap_mmap_anon() and RUN_FUNC() stay
\* inside their arrays, for every size of the ranges.
THEOREM TypeCorrect == Spec => []TypeOK
<1>1. IInv => TypeOK
  <2>. SUFFICES ASSUME IInv
                PROVE  TypeOK
    OBVIOUS
  <2>1. \A p \in Space : vm[p].prot \in {"free", "none", "r", "rw", "bus"}
    BY DEF IInv, BasicInv, PageOK
  <2>2. pc = "format" => i \in 0..(Len(T.params) - 1)
    BY DEF IInv, FormatInv
  <2>3. pc = "check" => i \in 1..Len(T.checks)
    BY DEF IInv, CheckInv
  <2>. QED  BY <2>1, <2>2, <2>3 DEF IInv, BasicInv, TypeOK
<1>. QED  BY <1>1, Invariance, PTL

\* LayoutHolds: the loop of mremap_mmap_anon() lays out what the test has described, wherever
\* the kernel puts the reservation.
THEOREM LayoutIsDescribed == Spec => []LayoutHolds
<1>1. IInv => LayoutHolds
  <2>. SUFFICES ASSUME IInv, pc = "remap", NEW k \in DOMAIN addr
                PROVE  /\ addr[k] = addr[0] + Offset(T.params, k)
                       /\ \A p \in Pages(addr[k], T.params[k + 1].size) : RangePage(T, vm[p], k)
    BY DEF LayoutHolds, RangePage
  <2>1. PICK n \in 1..5 : n = Len(T.params)
    BY WellMadeT DEF IInv, WellMade, Fits, Described
  <2>2. k \in 0..(n - 1) /\ Layout(T, vm, addr, addr[0], n)
    BY <2>1 DEF IInv, BasicInv, FormatInv
  <2>3. \A j \in 1..n : T.params[j].size \in Nat \ {0}
    BY <2>1, WellMadeT DEF IInv, WellMade, Fits, Described
  <2>4. /\ addr[k] = addr[0] + Offset(T.params, k) /\ addr[0] \in Space /\ addr[0] + Offset(T.params, n) <= SPACE
        /\ \A p \in Space : addr[k] <= p /\ p < addr[k] + T.params[k + 1].size => RangePage(T, vm[p], k)
    BY <2>1, <2>2 DEF Layout, LaidOut, Whole
  <2>5. T.params[k + 1].size \in Nat \ {0} /\ k \in 0..n /\ n \in 0..n /\ k < n /\ n \in 0..5
    BY <2>2, <2>3
  <2>6. /\ Offset(T.params, k) \in Nat /\ Offset(T.params, n) \in Nat
        /\ Offset(T.params, k) + T.params[k + 1].size <= Offset(T.params, n)
    <3>1. \A j \in 1..n : T.params[j].size \in Nat
      BY <2>3
    <3>2. /\ \A j \in 0..n : Offset(T.params, j) \in Nat
          /\ \A j, m \in 0..n : j < m => Offset(T.params, j) + T.params[j + 1].size <= Offset(T.params, m)
      BY <3>1, <2>5, OffsetSteps
    <3>. QED  BY <2>5, <3>2
  <2>7. addr[k] \in Space /\ addr[k] \in Nat /\ addr[k] + T.params[k + 1].size <= SPACE /\ SPACE \in Nat
    <3>1. addr[0] \in Nat /\ SPACE \in Nat /\ addr[k] = addr[0] + Offset(T.params, k)
          /\ addr[0] + Offset(T.params, n) <= SPACE /\ T.params[k + 1].size \in Nat /\ T.params[k + 1].size > 0
      BY <2>4, <2>5, SpacePos
    <3>2. addr[k] \in Nat /\ addr[k] < SPACE /\ addr[k] + T.params[k + 1].size <= SPACE
      BY ONLY <2>6, <3>1
    <3>. QED  BY <3>1, <3>2, SpacePos
  <2>8. ASSUME NEW p \in Pages(addr[k], T.params[k + 1].size)
        PROVE  RangePage(T, vm[p], k)
    <3>1. T.params[k + 1].size \in Nat
      BY <2>5
    <3>2. p \in addr[k]..(addr[k] + T.params[k + 1].size - 1)
      BY <2>7, <3>1, PagesLaw
    <3>3. p \in Int /\ addr[k] <= p /\ p < addr[k] + T.params[k + 1].size /\ p >= 0 /\ p < SPACE
      BY ONLY <2>7, <3>1, <3>2
    <3>. QED  BY <2>4, <3>3, SpacePos
  <2>. QED  BY <2>4, <2>8
<1>. QED  BY <1>1, Invariance, PTL

\* NoFlake: on a kernel that follows mremap(2) all 68 tests pass, for every size of the ranges
\* and wherever the kernel places the reservation and a block that may move.
THEOREM TestsPassOnAGoodKernel == Spec => []NoFlake
<1>1. IInv => NoFlake
  BY DEF IInv, EndInv, NoFlake
<1>. QED  BY <1>1, Invariance, PTL

\* What run.sh finds: a line in the kernel log comes from the fault that ended the program.
JudgeInv ==
  /\ kmsg => end \in {"handled", "killed"}
  /\ verdict = "ok" => IF Probes THEN kmsg ELSE end = "ok"

\* The log, the end of the program and the verdict come in this order, and none is changed later.
LEMMA JudgeInvStep == IInv /\ JudgeInv /\ [Next]_vars => JudgeInv'
<1>. SUFFICES ASSUME IInv, JudgeInv, [Next]_vars
              PROVE  JudgeInv'
  OBVIOUS
<1>1. pc \in {"reserve", "format", "remap", "check"} => kmsg = FALSE /\ verdict = "none"
  BY DEF IInv, CheckInv, EndInv
<1>2. CASE Reserve \/ Format \/ CallMremap
  <2>1. UNCHANGED <<kmsg, verdict>> /\ pc \in {"reserve", "format", "remap"}
    <3>1. CASE Reserve
      BY <3>1 DEF Reserve
    <3>2. CASE Format
      BY <3>2 DEF Format
    <3>3. CASE CallMremap
      BY <3>3 DEF CallMremap
    <3>. QED  BY <1>2, <3>1, <3>2, <3>3
  <2>. QED  BY <1>1, <2>1 DEF JudgeInv
<1>3. CASE DataCheck
  <2>1. UNCHANGED verdict /\ (UNCHANGED kmsg \/ end' \in {"handled", "killed"}) /\ pc = "check"
    BY <1>3 DEF DataCheck, Faults, Ended
  <2>. QED  BY <1>1, <2>1 DEF JudgeInv
<1>4. CASE AccessCheck
  <2>1. UNCHANGED verdict /\ (UNCHANGED kmsg \/ end' \in {"handled", "killed"}) /\ pc = "check"
    BY <1>4 DEF AccessCheck, Faults, Ended
  <2>. QED  BY <1>1, <2>1 DEF JudgeInv
<1>5. CASE SetHandler
  BY <1>1, <1>5 DEF SetHandler, JudgeInv
<1>6. CASE TouchPage
  <2>1. UNCHANGED verdict /\ (UNCHANGED kmsg \/ end' \in {"handled", "killed"}) /\ pc = "check"
    BY <1>6 DEF TouchPage, Faults, Ended
  <2>. QED  BY <1>1, <2>1 DEF JudgeInv
<1>7. CASE Judge
  <2>1. verdict' = (IF GoodRun THEN "ok" ELSE "ng") /\ UNCHANGED <<T, end, kmsg>>
    BY <1>7 DEF Judge, chosen
  <2>. QED  BY <2>1 DEF JudgeInv, GoodRun, Probes
<1>8. CASE Over \/ UNCHANGED vars
  BY <1>8 DEF Over, vars, chosen, JudgeInv, Probes
<1>. QED
  BY <1>2, <1>3, <1>4, <1>5, <1>6, <1>7, <1>8 DEF Next

\* PassIsEarned: a test that passes, in its own eyes or in those of run.sh, has seen mremap() do its work,
\* whatever the kernel gets wrong, unless it ends in a probe and an earlier fault has killed it.
THEOREM PassesAreEarned == Spec => []PassIsEarned
<1>1. IInv /\ JudgeInv => PassIsEarned
  <2>1. Probes <=> EndsInProbe(T)
    BY DEF Probes, EndsInProbe
  <2>2. Earned(T, addr, before, after, remap, handler) => BlockMoved /\ GainedIsThere /\ LostIsGone /\ RestIsThere
    BY <2>1 DEF Earned, BlockMoved, GainedIsThere, LostIsGone, RestIsThere, Grows, From, To, C
  <2>3. IInv => (end \in {"ok", "handled"} => Shown)
    BY <2>2 DEF IInv, EndInv, Shown
  <2>. QED  BY <2>3 DEF JudgeInv, PassIsEarned
<1>2. Init => JudgeInv
  BY DEF Init, JudgeInv
<1>. QED  BY <1>1, <1>2, JudgeInvStep, Invariance, PTL DEF Spec

\* HandledAtProbe: a signal that ends a test well was raised by its probe.
THEOREM HandledOnlyAtProbe == Spec => []HandledAtProbe
<1>1. IInv => HandledAtProbe
  BY DEF IInv, EndInv, HandledAtProbe
<1>. QED  BY <1>1, Invariance, PTL
=============================================================================
