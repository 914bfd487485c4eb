----------------------------- MODULE NumaProgs -----------------------------
(***************************************************************************)
(* The tests of test_mck/src/mbind, get_mempolicy and set_mempolicy as     *)
(* data: the steps of RUN_FUNC(), for a machine of n nodes (the max_node   *)
(* given by -n).  Module Numa runs them.                                   *)
(*                                                                         *)
(* A node mask is the set of its bits, numbered across its words.  A mode  *)
(* is the set of the constants that are or'ed together.                    *)
(***************************************************************************)
EXTENDS Integers, Sequences

CONSTANTS
  BITS_PER_LONG,   \* 64 in the build
  BITS_PER_INT,    \* 32
  SYS_MAX_NODE     \* PAGE_SIZE * BITS_PER_BYTE

ASSUME WidthsAssumption ==
  /\ BITS_PER_LONG \in Nat /\ BITS_PER_INT \in Nat /\ SYS_MAX_NODE \in Nat
  /\ 5 <= BITS_PER_INT /\ BITS_PER_INT < BITS_PER_LONG /\ BITS_PER_LONG < SYS_MAX_NODE

NUM_REGION == 7
MAX_COUNT == 3
NULL == {-1}               \* no mask
NOADDR == -1               \* a null address
WILDADDR == -2             \* 0xFFFFFFFF00000000

\* (1 << k) - 1 in an int: the shift of the build takes its count modulo the width.
LowBits(k) == 0..((k % BITS_PER_INT) - 1)

\* Mutant: only full words are counted.
WordsFloor(bits) == IF bits < BITS_PER_LONG THEN 1 ELSE bits \div BITS_PER_LONG
\* *p_nr_node_mask of create_node_mask()
Words(bits) == IF bits = 0 THEN 1 ELSE (bits + BITS_PER_LONG - 1) \div BITS_PER_LONG
Word(mask, w) == {b - w * BITS_PER_LONG : b \in {c \in mask : c \div BITS_PER_LONG = w}}
AllOnes == 0..(BITS_PER_LONG - 1)

\* The mask one node too wide: ones in all words but the last, whose ones come from a shift.
OneTooMany(n) ==
  LET last == Words(n + 1) - 1 IN
  0..(last * BITS_PER_LONG - 1) \union {last * BITS_PER_LONG + b : b \in LowBits((n % BITS_PER_LONG) + 1)}

(* Steps *)

Need(k) == << [op |-> "need", k |-> k] >>                            \* max_node < k fails the test
Alloc(name, bits) == << [op |-> "alloc", name |-> name, bits |-> bits] >>
MapBuf == << [op |-> "map"] >>                                       \* mmap() of buf, not looked at
MapChecked == << [op |-> "map"], [op |-> "mapped"] >>                \* and the same with tp_assert()
UnmapBuf == << [op |-> "unmap"] >>
Preset(bits) == << [op |-> "preset", bits |-> bits] >>               \* node_mask[0] = bits
Touch == << [op |-> "touch"] >>                                      \* *buf = 0

Mbind(at, len, mode, mask, maxnode, flags, want) ==
  << [op |-> "mbind", at |-> at, len |-> len, mode |-> mode, mask |-> mask, maxnode |-> maxnode,
      flags |-> flags, want |-> want] >>
Set(mode, mask, maxnode, want) ==
  << [op |-> "set", mode |-> mode, mask |-> mask, maxnode |-> maxnode, want |-> want] >>
\* mode = -1 and get_mempolicy(m ? &mode : NULL, nm ? node_mask : NULL, maxnode, at, flags)
Get(m, nm, maxnode, at, flags, want) ==
  << [op |-> "get", m |-> m, nm |-> nm, maxnode |-> maxnode, at |-> at, flags |-> flags, want |-> want] >>

ModeIs(mode) == << [op |-> "mode", mode |-> mode] >>
MaskIs(bits) == << [op |-> "word0", bits |-> bits] >>
MaskIsZero == << [op |-> "zero"] >>                                  \* every word of node_mask
MaskIsFull(bits) == << [op |-> "full", bits |-> bits] >>             \* node_mask_check()
NodeExists == << [op |-> "node"] >>

\* The pair most tests end with: the policy of page 0, or of the process.
Shows(n, mode, bits) == Get(TRUE, TRUE, n, 0, {"ADDR"}, "ok") \o ModeIs(mode) \o MaskIs(bits)
ShowsProc(n, mode, bits) == Get(TRUE, TRUE, n, NOADDR, {}, "ok") \o ModeIs(mode) \o MaskIs(bits)
Mask(n) == Alloc("node_mask", n)

-----------------------------------------------------------------------------
(* mbind *)

Mbind000(n) ==
  Need(2) \o Mask(n) \o Mbind(0, 1, {"BIND"}, {0, 1}, BITS_PER_LONG, {}, "ok") \o Shows(n, {"BIND"}, {0, 1})
  \o Preset({}) \o Mbind(0, 1, {"DEFAULT"}, NULL, 0, {}, "ok")
  \o Preset({0}) \o Get(TRUE, TRUE, n, 0, {"ADDR"}, "ok") \o ModeIs({"DEFAULT"}) \o MaskIsZero
Mbind001(n) == Mbind(0, 1, {"DEFAULT"}, NULL, 0, {"UNALIGNED"}, "EINVAL")     \* buf++
Mbind002(n) == Mbind(0, 0, {"DEFAULT"}, NULL, 0, {}, "ok")
Mbind003(n) == Mbind(0, -1, {"DEFAULT"}, NULL, 0, {}, "EINVAL")               \* ULLONG_MAX & ~(PAGE_SIZE - 1)
Mbind004(n) == Need(2) \o Mbind(0, 1, {"DEFAULT"}, {0, 1}, 0, {}, "EINVAL")

Mbind005(n) ==
  Need(2) \o Mask(n) \o Mbind(0, 1, {"BIND"}, {0, 1}, BITS_PER_LONG, {}, "ok") \o Shows(n, {"BIND"}, {0, 1})
Mbind006(n) == Need(1) \o Mbind(0, 1, {"BIND"}, NULL, n, {}, "EINVAL")
Mbind007(n) ==
  Need(4) \o Mask(n) \o Mbind(0, 1, {"BIND"}, 0..3, 2, {}, "ok") \o Shows(n, {"BIND"}, {0})
Mbind008(n) == Need(4) \o Mbind(0, 1, {"BIND"}, {2, 3}, 2, {}, "EINVAL")
Mbind009(n) == Need(2) \o Mbind(0, 1, {"BIND"}, {0, 1}, 0, {}, "EINVAL")
Mbind010(n) ==
  Need(2) \o Mask(n) \o Mbind(0, 1, {"BIND", "STATIC"}, {0, 1}, BITS_PER_LONG, {}, "ok")
  \o Shows(n, {"BIND", "STATIC"}, {0, 1})
Mbind011(n) ==
  Need(2) \o Mask(n) \o Mbind(0, 1, {"BIND", "RELATIVE"}, {0, 1}, BITS_PER_LONG, {}, "ok")
  \o Shows(n, {"BIND", "RELATIVE"}, {0, 1})
Mbind012(n) == Need(2) \o Mbind(0, 1, {"BIND", "STATIC", "RELATIVE"}, {0, 1}, BITS_PER_LONG, {}, "EINVAL")
Mbind013(n) ==
  Need(1) \o Mask(n + 1) \o Alloc("arg_mask", n + 1) \o Mbind(0, 1, {"BIND"}, OneTooMany(n), n + 1, {}, "ok")
  \o Get(TRUE, TRUE, n + 1, 0, {"ADDR"}, "ok") \o ModeIs({"BIND"}) \o MaskIsFull(n)
Mbind014(n) ==
  Alloc("arg_mask", SYS_MAX_NODE + 1) \o Mbind(0, 1, {"BIND"}, {0}, SYS_MAX_NODE + 2, {}, "EINVAL")

\* 015 to 023: m_args[] applied in turn, each followed by a look at its first page; then
\* mbind_check() with m_expect[].
Arg(n, mode, mask, at, len) ==
  Mbind(at, len, {mode}, mask, BITS_PER_LONG, {}, "ok") \o Preset({}) \o Get(TRUE, TRUE, n, at, {"ADDR"}, "ok")
Interleave(n) == Arg(n, "INTERLEAVE", {0, 1}, 1, 3)
D == [mode |-> {"DEFAULT"}, mask |-> {}]
B == [mode |-> {"BIND"}, mask |-> {0}]
I == [mode |-> {"INTERLEAVE"}, mask |-> {0, 1}]
P == [mode |-> {"PREFERRED"}, mask |-> {1}]
\* mbind_check()
mbind_check(n, expect) ==
  LET region(k) == Preset({}) \o Get(TRUE, TRUE, n, k - 1, {"ADDR"}, "ok") \o ModeIs(expect[k].mode) \o MaskIs(expect[k].mask)
  IN region(1) \o region(2) \o region(3) \o region(4) \o region(5) \o region(6) \o region(7)
Regions(n, args, expect) == MapBuf \o Need(2) \o Mask(n) \o args \o mbind_check(n, expect) \o UnmapBuf

Mbind015(n) == Regions(n, Arg(n, "INTERLEAVE", {0, 1}, 2, 3) \o Arg(n, "BIND", {0}, 0, 1), <<B, D, I, I, I, D, D>>)
Mbind016(n) == Regions(n, Interleave(n) \o Arg(n, "BIND", {0}, 1, 3), <<D, B, B, B, D, D, D>>)
Mbind017(n) == Regions(n, Interleave(n) \o Arg(n, "BIND", {0}, 0, 5), <<B, B, B, B, B, D, D>>)
Mbind018(n) == Regions(n, Interleave(n) \o Arg(n, "BIND", {0}, 0, 2), <<B, B, I, I, D, D, D>>)
\* Mutant: the second range is two pages long.
Mbind019Wide(n) == Regions(n, Interleave(n) \o Arg(n, "BIND", {0}, 2, 2), <<D, I, B, I, D, D, D>>)
Mbind019(n) == Regions(n, Interleave(n) \o Arg(n, "BIND", {0}, 2, 1), <<D, I, B, I, D, D, D>>)
Mbind020(n) == Regions(n, Interleave(n) \o Arg(n, "BIND", {0}, 3, 2), <<D, I, I, B, B, D, D>>)
Mbind021(n) ==
  Regions(n, Interleave(n) \o Arg(n, "PREFERRED", {1}, 4, 2) \o Arg(n, "BIND", {0}, 3, 2), <<D, I, I, B, B, P, D>>)
Mbind022(n) ==
  Regions(n, Interleave(n) \o Arg(n, "PREFERRED", {1}, 4, 1) \o Arg(n, "BIND", {0}, 3, 3), <<D, I, I, B, B, B, D>>)
Mbind023(n) ==
  Regions(n, Interleave(n) \o Arg(n, "PREFERRED", {1}, 5, 2) \o Arg(n, "BIND", {0}, 3, 3), <<D, I, I, B, B, B, P>>)

Mbind024(n) ==
  Need(2) \o Mask(n) \o Mbind(0, 1, {"INTERLEAVE"}, {0, 1}, BITS_PER_LONG, {}, "ok") \o Shows(n, {"INTERLEAVE"}, {0, 1})
Mbind025(n) ==
  Need(2) \o Mask(n) \o Mbind(0, 1, {"PREFERRED"}, {0, 1}, BITS_PER_LONG, {}, "ok") \o Shows(n, {"PREFERRED"}, {0})
Mbind026(n) ==
  Need(1) \o Mask(n) \o Mbind(0, 1, {"PREFERRED"}, NULL, 0, {}, "ok")
  \o Get(TRUE, TRUE, n, 0, {"ADDR"}, "ok") \o ModeIs({"PREFERRED"}) \o MaskIsZero
Mbind027(n) ==
  MapBuf \o Need(2) \o Mask(n) \o Mbind(0, 1, {"BIND"}, {1}, BITS_PER_LONG, {}, "ok") \o Touch
  \o Mbind(0, 1, {"BIND"}, {0}, BITS_PER_LONG, {"STRICT"}, "notEIO") \o UnmapBuf
Mbind028(n) ==
  Need(2) \o Mask(n) \o Mbind(0, 1, {"BIND"}, {0, 1}, BITS_PER_LONG, {"MOVE"}, "ok") \o Shows(n, {"BIND"}, {0, 1})
Mbind029(n) == Mbind(0, 1, {"DEFAULT"}, NULL, 0, {"MOVE_ALL"}, "EPERM")
Mbind030(n) == Mbind(0, 1, {"UNKNOWN"}, NULL, 0, {}, "EINVAL")

-----------------------------------------------------------------------------
(* get_mempolicy *)

Get000(n) == Get(TRUE, FALSE, 0, NOADDR, {}, "ok") \o ModeIs({"DEFAULT"})
Get001(n) == Need(1) \o Mask(n) \o Preset({0}) \o Get(FALSE, TRUE, n, NOADDR, {}, "ok") \o MaskIsZero
Get002(n) == Get(FALSE, FALSE, 0, NOADDR, {}, "ok")
Get003(n) ==
  Need(1) \o Mask(n) \o Preset({0}) \o Get(TRUE, TRUE, n, NOADDR, {}, "ok") \o ModeIs({"DEFAULT"}) \o MaskIsZero
Get004(n) == Need(1) \o Mask(n) \o Get(TRUE, TRUE, 0, NOADDR, {}, "EINVAL")
Get005(n) == Need(1) \o Mask(n) \o Get(TRUE, TRUE, n - 1, NOADDR, {}, "EINVAL")
Get006(n) == Need(1) \o Mask(n) \o Get(FALSE, TRUE, n, NOADDR, {"MEMS_ALLOWED"}, "ok") \o MaskIsFull(n)
Get007(n) == Need(1) \o Mask(n) \o Get(TRUE, TRUE, n, NOADDR, {"MEMS_ALLOWED"}, "ok") \o MaskIsFull(n)
Get008(n) == Get(FALSE, FALSE, 0, NOADDR, {"MEMS_ALLOWED"}, "ok")
Get009(n) == Need(1) \o Mask(n) \o Get(FALSE, TRUE, n, 0, {"MEMS_ALLOWED", "ADDR"}, "EINVAL")
Get010(n) == Need(1) \o Mask(n) \o Get(FALSE, TRUE, n, NOADDR, {"MEMS_ALLOWED", "NODE"}, "EINVAL")
Get011(n) ==
  Need(2) \o Mbind(0, 1, {"BIND", "STATIC"}, {1}, BITS_PER_LONG, {}, "ok")
  \o Get(TRUE, FALSE, 0, 0, {"ADDR"}, "ok") \o ModeIs({"BIND", "STATIC"})
Get012(n) ==
  Need(1) \o Mask(n) \o Preset({0}) \o Get(TRUE, TRUE, n, 0, {"ADDR"}, "ok") \o ModeIs({"DEFAULT"}) \o MaskIsZero
Get013(n) == Get(TRUE, FALSE, 0, WILDADDR, {"ADDR"}, "EFAULT")
Get014(n) == MapChecked \o Get(TRUE, FALSE, 0, 0, {"ADDR"}, "ok")
Get015(n) == Get(TRUE, FALSE, 0, NOADDR, {"ADDR"}, "EFAULT")
Get016(n) == Get(TRUE, FALSE, 0, 0, {}, "EINVAL")
Get017(n) == Need(1) \o Get(TRUE, FALSE, 0, 0, {"ADDR", "NODE"}, "ok") \o NodeExists

\* A round of 018: a large page is mapped inside a reservation and touched, and the next node
\* of the process must be another one than before.
Round ==
  << [op |-> "reserve"], [op |-> "large"], [op |-> "next"] >>
  \o Get(TRUE, FALSE, 0, NOADDR, {"NODE"}, "ok") \o << [op |-> "other"], [op |-> "release"] >>
Get018(n) ==
  Need(2) \o Mask(n) \o Set({"INTERLEAVE"}, {0, 1}, BITS_PER_LONG, "ok") \o ShowsProc(n, {"INTERLEAVE"}, {0, 1})
  \o Get(TRUE, FALSE, 0, NOADDR, {"NODE"}, "ok") \o << [op |-> "old"] >> \o Round \o Round \o Round
Get019(n) == Get(TRUE, FALSE, 0, NOADDR, {"NODE"}, "EINVAL")
Get020(n) == Get(TRUE, FALSE, 0, NOADDR, {"UNKNOWN"}, "EINVAL")

-----------------------------------------------------------------------------
(* set_mempolicy *)

Set000(n) ==
  Need(2) \o Mask(n) \o Set({"BIND"}, {0, 1}, BITS_PER_LONG, "ok") \o ShowsProc(n, {"BIND"}, {0, 1})
  \o Set({"DEFAULT"}, NULL, 0, "ok")
  \o Preset({0}) \o Get(TRUE, TRUE, n, NOADDR, {}, "ok") \o ModeIs({"DEFAULT"}) \o MaskIsZero
Set001(n) ==
  Need(1) \o Set({"DEFAULT"}, NULL, n, "ok") \o Get(TRUE, FALSE, 0, NOADDR, {}, "ok") \o ModeIs({"DEFAULT"})
Set002(n) == Need(1) \o Mask(n) \o Set({"DEFAULT"}, {}, 0, "EINVAL")
Set003(n) == Need(2) \o Mask(n) \o Set({"BIND"}, {0, 1}, BITS_PER_LONG, "ok") \o ShowsProc(n, {"BIND"}, {0, 1})
Set004(n) == Need(4) \o Mask(n) \o Set({"BIND"}, 0..3, 2, "ok") \o ShowsProc(n, {"BIND"}, {0})
Set005(n) == Need(4) \o Set({"BIND"}, {2, 3}, 2, "EINVAL")
Set006(n) == Need(2) \o Set({"BIND"}, {0, 1}, 0, "EINVAL")
Set007(n) == Need(1) \o Mask(n) \o Set({"BIND"}, {0}, 1, "fails")
Set008(n) == Set({"BIND"}, NULL, 0, "EINVAL")
Set009(n) ==
  Need(2) \o Mask(n) \o Set({"BIND", "STATIC"}, {0, 1}, BITS_PER_LONG, "ok") \o ShowsProc(n, {"BIND", "STATIC"}, {0, 1})
Set010(n) ==
  Need(2) \o Mask(n) \o Set({"BIND", "RELATIVE"}, {0, 1}, BITS_PER_LONG, "ok") \o ShowsProc(n, {"BIND", "RELATIVE"}, {0, 1})
Set011(n) == Need(2) \o Set({"BIND", "STATIC", "RELATIVE"}, {0, 1}, BITS_PER_LONG, "EINVAL")
Set012(n) ==
  Need(1) \o Mask(n + 1) \o Alloc("arg_mask", n + 1) \o Set({"BIND"}, OneTooMany(n), n + 1, "ok")
  \o Get(TRUE, TRUE, n + 1, NOADDR, {}, "ok") \o ModeIs({"BIND"}) \o MaskIsFull(n)
Set013(n) == Alloc("arg_mask", SYS_MAX_NODE + 1) \o Set({"BIND"}, {0}, SYS_MAX_NODE + 2, "EINVAL")
Set014(n) == Need(2) \o Mask(n) \o Set({"INTERLEAVE"}, {0, 1}, BITS_PER_LONG, "ok") \o ShowsProc(n, {"INTERLEAVE"}, {0, 1})
Set015(n) == Need(2) \o Mask(n) \o Set({"PREFERRED"}, {0, 1}, BITS_PER_LONG, "ok") \o ShowsProc(n, {"PREFERRED"}, {0})
Set016(n) == Need(1) \o Mask(n) \o Set({"PREFERRED"}, NULL, 0, "ok") \o ShowsProc(n, {"PREFERRED"}, {})
Set017(n) == Set({"UNKNOWN"}, NULL, 0, "EINVAL")

-----------------------------------------------------------------------------
Suite(n) ==
  [mbind000 |-> Mbind000(n), mbind001 |-> Mbind001(n), mbind002 |-> Mbind002(n),
   mbind003 |-> Mbind003(n), mbind004 |-> Mbind004(n), mbind005 |-> Mbind005(n),
   mbind006 |-> Mbind006(n), mbind007 |-> Mbind007(n), mbind008 |-> Mbind008(n),
   mbind009 |-> Mbind009(n), mbind010 |-> Mbind010(n), mbind011 |-> Mbind011(n),
   mbind012 |-> Mbind012(n), mbind013 |-> Mbind013(n), mbind014 |-> Mbind014(n),
   mbind015 |-> Mbind015(n), mbind016 |-> Mbind016(n), mbind017 |-> Mbind017(n),
   mbind018 |-> Mbind018(n), mbind019 |-> Mbind019(n), mbind020 |-> Mbind020(n),
   mbind021 |-> Mbind021(n), mbind022 |-> Mbind022(n), mbind023 |-> Mbind023(n),
   mbind024 |-> Mbind024(n), mbind025 |-> Mbind025(n), mbind026 |-> Mbind026(n),
   mbind027 |-> Mbind027(n), mbind028 |-> Mbind028(n), mbind029 |-> Mbind029(n),
   mbind030 |-> Mbind030(n), get000 |-> Get000(n), get001 |-> Get001(n), get002 |-> Get002(n),
   get003 |-> Get003(n), get004 |-> Get004(n), get005 |-> Get005(n), get006 |-> Get006(n),
   get007 |-> Get007(n), get008 |-> Get008(n), get009 |-> Get009(n), get010 |-> Get010(n),
   get011 |-> Get011(n), get012 |-> Get012(n), get013 |-> Get013(n), get014 |-> Get014(n),
   get015 |-> Get015(n), get016 |-> Get016(n), get017 |-> Get017(n), get018 |-> Get018(n),
   get019 |-> Get019(n), get020 |-> Get020(n), set000 |-> Set000(n), set001 |-> Set001(n),
   set002 |-> Set002(n), set003 |-> Set003(n), set004 |-> Set004(n), set005 |-> Set005(n),
   set006 |-> Set006(n), set007 |-> Set007(n), set008 |-> Set008(n), set009 |-> Set009(n),
   set010 |-> Set010(n), set011 |-> Set011(n), set012 |-> Set012(n), set013 |-> Set013(n),
   set014 |-> Set014(n), set015 |-> Set015(n), set016 |-> Set016(n), set017 |-> Set017(n)]
=============================================================================
