---------------------------- MODULE MremapProgs ----------------------------
(***************************************************************************)
(* The tests of test_mck/src/mremap_mmap_anon as data: the ranges a test   *)
(* lays out, its mremap() call and what it looks at afterwards.  Module    *)
(* Mremap runs them.                                                       *)
(*                                                                         *)
(* Sizes and offsets count pages.  The tests come in four groups of 17:    *)
(* 0xx private, 1xx shared, 2xx and 3xx the same with large ranges.        *)
(***************************************************************************)
EXTENDS Integers, Sequences

CONSTANTS
  MREMAP_RANGE_SIZE,         \* four pages in the source
  MREMAP_RANGE_LARGE_SIZE,   \* a multiple of it that holds a large page
  SPACE                      \* pages of the address space; sizes wrap at it

ASSUME SizesAssumption ==
  /\ MREMAP_RANGE_SIZE \in Nat /\ MREMAP_RANGE_SIZE >= 2
  /\ MREMAP_RANGE_LARGE_SIZE \in Nat /\ MREMAP_RANGE_LARGE_SIZE > MREMAP_RANGE_SIZE
  /\ SPACE \in Nat /\ SPACE >= 6 * MREMAP_RANGE_LARGE_SIZE

(* struct mremap_mmap_anon_param *)

RW(n) == [size |-> n, nopage |-> FALSE, prot |-> "rw", shared |-> FALSE]
R(n) == [RW(n) EXCEPT !.prot = "r"]
NONE(n) == [RW(n) EXCEPT !.prot = "none"]
FREE(n) == [RW(n) EXCEPT !.nopage = TRUE]

\* params[i].addr, from the address of params[0]; i counts from 0 as in the source.
Offset(params, i) ==
  LET sum[k \in 0..i] == IF k = 0 THEN 0 ELSE sum[k - 1] + params[k].size IN sum[i]

(* The call: mremap(params[i].addr, old_size, new_size, flags, params[j].addr + off). *)

InPlace(i, old, new) == [from |-> i, old |-> old, new |-> new, flags |-> "0", to |-> i, off |-> 0]
MayMove(i, old, new) == [InPlace(i, old, new) EXCEPT !.flags = "MAYMOVE"]
Fixed(i, old, new, j, off) == [InPlace(i, old, new) EXCEPT !.flags = "FIXED", !.to = j, !.off = off]

(* What follows a call that must succeed; at remap, or at params[i].addr. *)

Remap(off) == [base |-> -1, off |-> off]
Param(i, off) == [base |-> i, off |-> off]
Data(at, len, exp) == [op |-> "data", at |-> at, len |-> len, exp |-> exp]
Access(len) == [op |-> "access", at |-> Remap(0), len |-> len, exp |-> 0]
Handler(sig) == [op |-> "handler", at |-> Remap(0), len |-> 0, exp |-> sig]
Touch(at) == [op |-> "touch", at |-> at, len |-> 1, exp |-> 0]
Probe(sig, at) == << Handler(sig), Touch(at) >>          \* the {//signal} block

Case(params, call, checks) == [params |-> params, call |-> call, expect |-> "ok", checks |-> checks]
MustFail(params, call, errno) == [params |-> params, call |-> call, expect |-> errno, checks |-> << >>]

\* .shared = 1 on every range that is mapped
Shared(t) == [t EXCEPT !.params = [i \in DOMAIN t.params |-> [t.params[i] EXCEPT !.shared = TRUE]]]

-----------------------------------------------------------------------------
(* Private mappings.  r is MREMAP_RANGE_SIZE. *)

Test000(r) == Case(<<RW(r), NONE(r)>>, InPlace(0, r, r), << Data(Remap(0), r, 0), Access(r) >>)

\* old_size = new_size = (size_t)(page_size * -2)
Test001(r) ==
  Case(<<RW(r), NONE(r)>>, InPlace(0, SPACE - 2, SPACE - 2), << Data(Remap(0), r, 0), Access(r) >>)

Test002(r) ==
  Case(<<RW(2 * r), NONE(r)>>, InPlace(0, 2 * r, 2 * r - 1), << Data(Remap(0), 2 * r - 1, 0), Access(2 * r - 1) >>)

Test003(r) ==
  Case(<<RW(r), FREE(r), NONE(r)>>, InPlace(0, r, 2 * r), << Data(Remap(0), r, 0), Access(2 * r) >>)

Test004(r) == MustFail(<<RW(r), NONE(r)>>, InPlace(0, r, 2 * r), "ENOMEM")

Test005(r) == Case(<<RW(r), NONE(r)>>, MayMove(0, r, 2 * r), << Data(Remap(0), r, 0), Access(2 * r) >>)

Test006(r) == Case(<<RW(r), FREE(r), NONE(r)>>, Fixed(0, r, r, 1, 0), << Data(Remap(0), r, 0), Access(r) >>)

Test007(r) ==
  Case(<<RW(r), NONE(r), RW(2 * r), NONE(r)>>, Fixed(0, r, r, 2, 0),
       << Data(Remap(0), r, 0), Data(Param(2, r), r, 2), Access(r) >>)

Test008(r) == MustFail(<<NONE(r), R(r), RW(r), R(r), NONE(r)>>, Fixed(2, r, 3 * r, 1, 0), "EINVAL")

Test009(r) == MustFail(<<NONE(r), RW(2 * r), NONE(r)>>, Fixed(1, 2 * r, 1, 1, 1), "EINVAL")

Test010(r) == MustFail(<<NONE(r), FREE(r), RW(2 * r), NONE(r)>>, Fixed(2, 2 * r, 2 * r, 1, 0), "EINVAL")

Test011(r) == MustFail(<<NONE(r), RW(2 * r), FREE(r), NONE(r)>>, Fixed(1, 2 * r, 2 * r, 1, 1), "EINVAL")

Test012(r) ==
  Case(<<NONE(r), FREE(r), RW(r), NONE(r)>>, Fixed(2, r, r, 1, 0), << Data(Remap(0), r, 2), Access(r) >>)

Test013(r) ==
  Case(<<NONE(r), RW(r), FREE(r), NONE(r)>>, Fixed(1, r, r, 2, 0), << Data(Remap(0), r, 1), Access(r) >>)

Test014(r) ==
  Case(<<RW(2 * r), NONE(r)>>, InPlace(0, 2 * r, 2 * r - 1),
       << Data(Remap(0), 2 * r - 1, 0) >> \o Probe("SEGV", Remap(2 * r - 1)))

Test015(r) ==
  Case(<<RW(r), NONE(r)>>, MayMove(0, r, 2 * r), << Data(Remap(0), r, 0) >> \o Probe("SEGV", Param(0, 0)))

\* Mutant: the handler is in place while the data are still being checked.
Test016Early(r) ==
  Case(<<RW(r), FREE(r), NONE(r)>>, Fixed(0, r, r, 1, 0),
       << Handler("SEGV"), Data(Remap(0), r, 0), Touch(Param(0, 0)) >>)

Test016(r) ==
  Case(<<RW(r), FREE(r), NONE(r)>>, Fixed(0, r, r, 1, 0),
       << Data(Remap(0), r, 0) >> \o Probe("SEGV", Param(0, 0)))

-----------------------------------------------------------------------------
(* Shared mappings: the same, except that what 103 and 105 gain lies beyond *)
(* the end of the shared object.                                             *)

Test100(r) == Shared(Test000(r))
Test101(r) == Shared(Test001(r))
Test102(r) == Shared(Test002(r))
Test103(r) ==
  Shared(Case(<<RW(r), FREE(r), NONE(r)>>, InPlace(0, r, 2 * r),
              << Data(Remap(0), r, 0) >> \o Probe("BUS", Remap(r))))
Test104(r) == Shared(Test004(r))
\* Mutant: the handler of 015, which waits for the other signal.
Test105Segv(r) ==
  Shared(Case(<<RW(r), NONE(r)>>, MayMove(0, r, 2 * r), << Data(Remap(0), r, 0) >> \o Probe("SEGV", Remap(r))))
Test105(r) ==
  Shared(Case(<<RW(r), NONE(r)>>, MayMove(0, r, 2 * r), << Data(Remap(0), r, 0) >> \o Probe("BUS", Remap(r))))
Test106(r) == Shared(Test006(r))
Test107(r) == Shared(Test007(r))
Test108(r) == Shared(Test008(r))
Test109(r) == Shared(Test009(r))
Test110(r) == Shared(Test010(r))
Test111(r) == Shared(Test011(r))
Test112(r) == Shared(Test012(r))
Test113(r) == Shared(Test013(r))
Test114(r) == Shared(Test014(r))
Test115(r) == Shared(Test015(r))
Test116(r) == Shared(Test016(r))

-----------------------------------------------------------------------------
(* The same two groups with MREMAP_RANGE_LARGE_SIZE *)

Test200 == Test000(MREMAP_RANGE_LARGE_SIZE)
Test201 == Test001(MREMAP_RANGE_LARGE_SIZE)
Test202 == Test002(MREMAP_RANGE_LARGE_SIZE)
Test203 == Test003(MREMAP_RANGE_LARGE_SIZE)
Test204 == Test004(MREMAP_RANGE_LARGE_SIZE)
Test205 == Test005(MREMAP_RANGE_LARGE_SIZE)
Test206 == Test006(MREMAP_RANGE_LARGE_SIZE)
Test207 == Test007(MREMAP_RANGE_LARGE_SIZE)
Test208 == Test008(MREMAP_RANGE_LARGE_SIZE)
Test209 == Test009(MREMAP_RANGE_LARGE_SIZE)
Test210 == Test010(MREMAP_RANGE_LARGE_SIZE)
Test211 == Test011(MREMAP_RANGE_LARGE_SIZE)
Test212 == Test012(MREMAP_RANGE_LARGE_SIZE)
Test213 == Test013(MREMAP_RANGE_LARGE_SIZE)
Test214 == Test014(MREMAP_RANGE_LARGE_SIZE)
Test215 == Test015(MREMAP_RANGE_LARGE_SIZE)
Test216 == Test016(MREMAP_RANGE_LARGE_SIZE)

Test300 == Test100(MREMAP_RANGE_LARGE_SIZE)
Test301 == Test101(MREMAP_RANGE_LARGE_SIZE)
Test302 == Test102(MREMAP_RANGE_LARGE_SIZE)
Test303 == Test103(MREMAP_RANGE_LARGE_SIZE)
Test304 == Test104(MREMAP_RANGE_LARGE_SIZE)
Test305 == Test105(MREMAP_RANGE_LARGE_SIZE)
Test306 == Test106(MREMAP_RANGE_LARGE_SIZE)
Test307 == Test107(MREMAP_RANGE_LARGE_SIZE)
Test308 == Test108(MREMAP_RANGE_LARGE_SIZE)
Test309 == Test109(MREMAP_RANGE_LARGE_SIZE)
Test310 == Test110(MREMAP_RANGE_LARGE_SIZE)
Test311 == Test111(MREMAP_RANGE_LARGE_SIZE)
Test312 == Test112(MREMAP_RANGE_LARGE_SIZE)
Test313 == Test113(MREMAP_RANGE_LARGE_SIZE)
Test314 == Test114(MREMAP_RANGE_LARGE_SIZE)
Test315 == Test115(MREMAP_RANGE_LARGE_SIZE)
Test316 == Test116(MREMAP_RANGE_LARGE_SIZE)

\* The test cases of the suite, by number
Numbered(r) ==
  [t000 |-> Test000(r), t001 |-> Test001(r), t002 |-> Test002(r), t003 |-> Test003(r), t004 |-> Test004(r),
   t005 |-> Test005(r), t006 |-> Test006(r), t007 |-> Test007(r), t008 |-> Test008(r), t009 |-> Test009(r),
   t010 |-> Test010(r), t011 |-> Test011(r), t012 |-> Test012(r), t013 |-> Test013(r), t014 |-> Test014(r),
   t015 |-> Test015(r), t016 |-> Test016(r), t100 |-> Test100(r), t101 |-> Test101(r), t102 |-> Test102(r),
   t103 |-> Test103(r), t104 |-> Test104(r), t105 |-> Test105(r), t106 |-> Test106(r), t107 |-> Test107(r),
   t108 |-> Test108(r), t109 |-> Test109(r), t110 |-> Test110(r), t111 |-> Test111(r), t112 |-> Test112(r),
   t113 |-> Test113(r), t114 |-> Test114(r), t115 |-> Test115(r), t116 |-> Test116(r), t200 |-> Test200,
   t201 |-> Test201, t202 |-> Test202, t203 |-> Test203, t204 |-> Test204, t205 |-> Test205,
   t206 |-> Test206, t207 |-> Test207, t208 |-> Test208, t209 |-> Test209, t210 |-> Test210,
   t211 |-> Test211, t212 |-> Test212, t213 |-> Test213, t214 |-> Test214, t215 |-> Test215,
   t216 |-> Test216, t300 |-> Test300, t301 |-> Test301, t302 |-> Test302, t303 |-> Test303,
   t304 |-> Test304, t305 |-> Test305, t306 |-> Test306, t307 |-> Test307, t308 |-> Test308,
   t309 |-> Test309, t310 |-> Test310, t311 |-> Test311, t312 |-> Test312, t313 |-> Test313,
   t314 |-> Test314, t315 |-> Test315, t316 |-> Test316]
Suite == Numbered(MREMAP_RANGE_SIZE)
=============================================================================
