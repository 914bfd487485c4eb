----------------------------- MODULE NumaProofs -----------------------------
(***************************************************************************)
(* Proofs about a test of mbind, get_mempolicy or set_mempolicy at work    *)
(* (module Numa), for all 70 tests, every number of nodes and every width  *)
(* of the words that the suites work with, and every fault of Numa.  Where *)
(* a test counts nodes by a shift in an int, what it finds is right for    *)
(* the numbers that the shift can count (ShiftsFit).                       *)
(*                                                                         *)
(* What the 70 tests have in common is said about their text (TestOK): the *)
(* order of their steps, which result a call must have, and which policy a *)
(* check must find, the one of the last call before it that covers the     *)
(* page.  The invariant then speaks of "the steps so far" and not of one   *)
(* test or another.                                                        *)
(***************************************************************************)
EXTENDS Numa, FiniteSetTheorems, TLAPS

-----------------------------------------------------------------------------
(* The text of a test *)

Checks == {"mapped", "mode", "word0", "zero", "full", "node", "other"}
Setters == {"mbind", "set"}
Ops == {"need", "alloc", "map", "unmap", "preset", "touch", "get", "old", "reserve", "large", "next", "release"}
       \union Checks \union Setters
Modes == {"DEFAULT", "BIND", "INTERLEAVE", "PREFERRED", "STATIC", "RELATIVE", "UNKNOWN"}
Slots == Page \union {PROC}
Wants == {"ok", "fails", "notEIO", "EINVAL", "EPERM", "EFAULT"}
LoopOps == {"old", "reserve", "large", "next", "other", "release"}

\* A get_mempolicy() that reads a policy back; the others ask for nodes.
Looks(s) == s.op = "get" /\ s.flags \subseteq {"ADDR"} /\ (s.m \/ s.nm)

\* Fields of a step
PolicyStep(s) ==
  /\ s.mode \subseteq Modes /\ s.maxnode \in Nat
  /\ s.mode = {"PREFERRED"} => s.mask = NULL \/ s.mask \subseteq {0, 1}
StepOK(s) ==
  /\ s.op \in Ops
  /\ s.op = "need" => s.k \in Nat
  /\ s.op = "alloc" => s.name \in {"node_mask", "arg_mask"} /\ s.bits \in Nat
  /\ s.op = "preset" => s.bits \subseteq {0}
  /\ s.op \in Setters => PolicyStep(s)
  /\ s.op \in Setters \union {"get"} => s.want \in Wants
  /\ s.op = "mbind" => s.at \in Page /\ s.len \in -1..NUM_REGION /\ s.at + s.len <= NUM_REGION
  /\ s.op = "get" => s.maxnode \in Int /\ s.at \in Slots \union {WILDADDR} /\ (s.at = WILDADDR => "ADDR" \in s.flags)
  /\ Looks(s) /\ s.want = "ok" => s.at \in Slots /\ (s.flags = {"ADDR"} <=> s.at \in Page)

\* A call covers a page, or the process, when it must give it a policy.
Covers(s, p) ==
  /\ s.op \in Setters /\ s.want = "ok"
  /\ IF s.op = "set" THEN p = PROC ELSE p \in s.at..(s.at + s.len - 1)

\* The policy that a good kernel keeps for the call s.
Policy(s) ==
  [mode |-> s.mode,
   mask |-> LET eff == Effective(s, "none") IN IF s.mode = {"PREFERRED"} /\ eff # {} THEN {Min(eff)} ELSE eff]

\* In front of step k, the policy of p is still the default, or that of call j.
Untouched(k, p) == \A j \in 1..(k - 1) : ~Covers(T[j], p)
LastCover(k, p, j) == Covers(T[j], p) /\ \A l \in (j + 1)..(k - 1) : ~Covers(T[l], p)

\* The max_node checks and the mmap() of buf come first, the munmap() last; a mask is allocated
\* once and before its use, wide enough for it.
OrderOK ==
  /\ \A k \in 1..Len(T) :
       /\ T[k].op = "map" => k = 1
       /\ T[k].op = "unmap" => k = Len(T)
       /\ T[k].op \in {"full", "node"} => k = Len(T)
       /\ T[k].op = "need" => \A l \in 1..(k - 1) : T[l].op = "map"
UsesMask(s) == s.op \in {"preset", "word0", "zero", "full"} \/ (s.op = "get" /\ s.nm)
MaskAt(k, a) ==
  /\ T[a].op = "alloc" /\ T[a].name = "node_mask"
  /\ T[k].op = "get" /\ Suitable => T[k].maxnode <= T[a].bits
  /\ T[k].op = "get" /\ Suitable /\ T[k].want = "ok" => T[k].maxnode = T[a].bits /\ T[k].maxnode > 0 /\ T[k].maxnode >= max_node
  /\ T[k].op = "full" /\ Suitable => max_node > 0 /\ T[k].bits = max_node /\ T[a].bits \in max_node..(max_node + 1)
ArgFits(k) ==
  \/ T[k].maxnode - 1 <= BITS_PER_LONG
  \/ \E a \in 1..(k - 1) : T[a].op = "alloc" /\ T[a].name = "arg_mask" /\ T[k].maxnode - 1 <= T[a].bits
MasksOK ==
  /\ \A k, l \in 1..Len(T) : T[k].op = "alloc" /\ T[l].op = "alloc" /\ T[k].name = T[l].name => k = l
  /\ \A k \in 1..Len(T) : UsesMask(T[k]) => \E a \in 1..(k - 1) : MaskAt(k, a)
  /\ \A k \in 1..Len(T) : T[k].op \in Setters /\ T[k].mask # NULL => ArgFits(k)

\* Every call asks for what a good kernel does, whatever the state of buf that it meets.
Promised(s, err) == IF s.want = "fails" THEN err # "0" ELSE err = s.want
CallOK(k) ==
  LET s == T[k] IN
  /\ s.op = "mbind" /\ s.want = "ok" /\ buf # "failed" => MbindError(s, "none") = "0"
  /\ s.op = "mbind" /\ s.want # "ok" /\ test # "mbind027" => Promised(s, MbindError(s, "none")) /\ s.want # "notEIO"
  /\ s.op = "set" => s.want # "notEIO" /\ IF s.want = "ok" THEN PolicyError(s, "none") = "0" ELSE Promised(s, PolicyError(s, "none"))
  /\ s.op = "get" =>
       LET d == [proc |-> [mode |-> IF s.want = "ok" THEN {"INTERLEAVE"} ELSE {"DEFAULT"}]] IN
       /\ s.flags = {"NODE"} =>
            IF s.want = "ok" THEN \E j \in 1..(k - 1) : LastCover(k, PROC, j) /\ T[j].mode = {"INTERLEAVE"}
            ELSE Untouched(k, PROC)
       /\ s.want = "ok" /\ ("ADDR" \in s.flags => buf # "failed") => GetError(d, s, "none") = "0"
       /\ s.want # "ok" => s.want \notin {"notEIO", "fails"} /\ GetError(d, s, "none") = s.want

\* A check comes right behind the get_mempolicy() it is about, or behind the check of the mode.
Finds(s, e) ==
  /\ s.op = "mode" => s.mode = e.mode
  /\ s.op = "word0" => s.bits = e.mask
  /\ s.op = "zero" => e.mask = {}
  /\ s.op = "full" => e.mask = Nodes
GetOf(k) == IF T[k - 1].op = "get" THEN k - 1 ELSE k - 2
CheckOK(k) ==
  LET s == T[k]
      g == T[GetOf(k)]
  IN
  s.op \in {"mode", "word0", "zero", "full"} =>
    /\ k > 1 /\ (T[k - 1].op = "get" \/ (k > 2 /\ T[k - 1].op = "mode" /\ T[k - 2].op = "get"))
    /\ g.want = "ok" /\ (s.op = "mode" => g.m) /\ (s.op # "mode" => g.nm)
    /\ IF s.op = "full" /\ g.flags = {"MEMS_ALLOWED"} THEN TRUE
       ELSE /\ Looks(g)
            /\ \/ Untouched(k, g.at) /\ Finds(s, D)
               \/ \E j \in 1..(k - 1) : LastCover(k, g.at, j) /\ Finds(s, Policy(T[j]))

\* What a test has read it compares, after the last call that changes a policy.
Confirmed(k) ==
  Looks(T[k]) /\ test \notin {"get011", "set001"} =>
    \/ \A l \in 1..Len(T) : T[l].op \notin Setters
    \/ \E c, b \in 1..Len(T) :
         /\ T[c].op = "mode" /\ T[GetOf(c)].at = T[k].at
         /\ T[b].op \in {"word0", "zero", "full"} /\ T[GetOf(b)].at = T[k].at /\ Looks(T[GetOf(b)])
         /\ \A l \in 1..Len(T) : T[l].op \in Setters => l < c /\ l < b

SmallMasks ==
  test \notin {"mbind013", "set012"} =>
    \A k \in 1..Len(T) : T[k].op \in Setters => T[k].mask = NULL \/ T[k].mask \subseteq 0..3

\* What only some tests do: the loop, checks of a first word, checks of a node.
ScopeOK ==
  \A k \in 1..Len(T) :
    /\ T[k].op \in LoopOps => test = "get018"
    /\ T[k].op \in {"mbind", "mapped"} \/ (T[k].op = "get" /\ "ADDR" \in T[k].flags) => test # "get018"
    /\ T[k].op = "word0" => test \notin {"mbind013", "set012"}
    /\ T[k].op = "node" => /\ k > 1 /\ T[k - 1].op = "get" /\ T[k - 1].flags = {"ADDR", "NODE"} /\ T[k - 1].want = "ok"
                           /\ Suitable => max_node > 0

TestOK ==
  /\ Len(T) \in Nat \ {0} /\ DOMAIN T = 1..Len(T)
  /\ \A k \in 1..Len(T) : StepOK(T[k])
  /\ OrderOK /\ MasksOK /\ SmallMasks /\ ScopeOK
  /\ Suitable /\ ShiftsFit => \A k \in 1..Len(T) : CallOK(k) /\ CheckOK(k)
  /\ \A k \in 1..Len(T) : Confirmed(k)

-----------------------------------------------------------------------------
(* The inductive invariant *)

\* What the kernel gets wrong when it keeps a policy; the other faults are in what it reports.
StoreFaults == {"refuse", "noop", "wide", "narrow", "split", "untruncated", "lax", "dropflags", "keepmask", "allpreferred"}

\* The steps so far are those in front of Now.
Now == IF end = "ok" THEN Len(T) + 1 ELSE i
Policies == [mode : SUBSET Modes, mask : SUBSET Nodes]
Slot(k, p) == IF p = PROC THEN k.proc ELSE k.pol[p]

BasicInv ==
  /\ max_node \in MaxNodes /\ fault \in {"none"} \union Faults
  /\ test \in DOMAIN Suite(0) /\ T = Suite(max_node)[test]
  /\ i \in 1..Len(T) /\ pc \in {"run", "teardown", "over"} /\ end \in {"none", "ok", "ng"}
  /\ pc = "run" <=> end = "none"
KernelInv ==
  /\ kern \in [pol : [Page -> Policies], proc : Policies]
  /\ due \in [pol : [Page -> Policies], proc : Policies]
  /\ test \notin {"mbind013", "set012"} => \A p \in Slots : Slot(kern, p).mask \subseteq 0..3
  /\ fault \notin StoreFaults => kern = due

\* The masks have the words that create_node_mask() gave them.
MaskInv ==
  /\ DOMAIN words = {"node_mask", "arg_mask"} /\ words.node_mask \in Nat /\ words.arg_mask \in Nat \ {0}
  /\ \A a \in 1..(Now - 1) : T[a].op = "alloc" => words[T[a].name] = Words(T[a].bits)
  /\ node_mask \subseteq 0..(words.node_mask * BITS_PER_LONG - 1)
  /\ nxt \in Nodes /\ node \in -1..Cardinality(Nodes)

\* What is mapped, and what is held.
HeldInv ==
  /\ buf \in {"stack", "mapped", "failed"} /\ reserve \in {"mapped", "failed"}
  /\ fault = "none" /\ test # "get018" /\ Now <= Len(T) /\ (Now = 1 => T[1].op # "map") => buf # "failed"
  /\ Now = 1 => held = {}
  /\ held \subseteq {"node_mask", "arg_mask", "buf", "head", "tail"}
  /\ test # "get018" /\ pc # "over" => held \subseteq {"node_mask", "arg_mask", "buf"} /\ ("buf" \in held => buf = "mapped")
  /\ test = "get018" /\ end = "ok" => held \subseteq {"node_mask", "arg_mask"}
  /\ pc = "over" => Released

\* The steps so far asked for no more nodes than there are, and gave a good kernel its policies.
NeedInv == \A k \in 1..(Now - 1) : T[k].op = "need" => max_node >= T[k].k
DueInv ==
  end # "ng" => \A p \in Slots :
    /\ Untouched(Now, p) => Slot(due, p) = D
    /\ \A j \in 1..(Now - 1) : LastCover(Now, p, j) => Slot(due, p) = Policy(T[j])

\* What the last get_mempolicy() has left in mode, node_mask and node.
Got(s) ==
  s.want = "ok" =>
    LET ans == Answer(kern, s, fault) IN
    /\ s.m /\ "NODE" \notin s.flags => mode = IF fault = "nomode" THEN {} ELSE ans.mode
    /\ s.nm /\ fault # "nomask" => node_mask \intersect Written(s, fault) = ans.mask \intersect Written(s, fault)
    /\ s.flags = {"NODE"} => node = nxt
    /\ fault = "none" /\ s.flags = {"ADDR", "NODE"} => node \in Nodes
ReadInv ==
  /\ Now > 1 /\ T[Now - 1].op = "get" /\ end # "ng" => Got(T[Now - 1])
  /\ Now > 2 /\ T[Now - 2].op = "get" /\ T[Now - 1].op = "mode" /\ end # "ng" => Got(T[Now - 2])

\* Where the kernel reports well what it keeps, a check that went well shows what it keeps, until
\* the next call.
Shown(c) ==
  LET s == T[c]
      e == Slot(kern, T[GetOf(c)].at)
  IN s.op \in {"mode", "word0", "zero", "full"} /\ Looks(T[GetOf(c)]) => Finds(s, e)
Quiet(c) == \A l \in c..(Now - 1) : T[l].op \notin Setters
SeenInv ==
  end # "ng" =>
    /\ fault \in StoreFaults => \A c \in 1..(Now - 1) : Quiet(c) => Shown(c)
    /\ fault = "refuse" => \A j \in 1..(Now - 1) : T[j].op \in Setters => T[j].want # "ok"
    /\ Quiet(1) => \A p \in Slots : Slot(kern, p) = D
    /\ \A p \in looked : \E g \in 1..(Now - 1) : Looks(T[g]) /\ T[g].want = "ok" /\ T[g].at = p
    /\ test = "get011" /\ Now > 2 /\ kern.pol[0].mode = {"BIND", "STATIC"} => kern.pol[0].mask = {1}
    /\ test = "set001" => kern.proc.mask = {}
    /\ Now = Len(T) + 1 /\ T[Len(T)].op = "full" => node_mask = Nodes
    /\ Now = Len(T) + 1 /\ T[Len(T)].op = "node" => node \in Nodes

\* The loop of get_mempolicy 018: node and old_mode against the next node of the process.
Pending == test = "get018" /\ Now \in {12, 13, 18, 19, 24, 25}
LoopInv ==
  end # "ng" =>
    /\ honest \/ (Pending /\ nxt = old_mode)
    /\ Pending /\ fault = "none" => nxt # old_mode
    /\ test = "get018" /\ Now > 6 => kern.proc.mask = {0, 1}
    /\ test = "get018" /\ Now \in (9..11) \union (14..17) \union (20..23) => old_mode = nxt

\* On a good kernel only a check of max_node stops a test; mbind 027 is the exception.
FlakeInv == fault = "none" /\ end = "ng" /\ test # "mbind027" => ~Suitable

\* Only pages of buf and the process are looked at.
LookedInv == looked \subseteq Slots

\* Where the shifts of the test can count the nodes, the calls and the checks go as they should.
SureInv == DueInv /\ SeenInv /\ LoopInv /\ FlakeInv

IInv == /\ BasicInv /\ KernelInv /\ MaskInv /\ HeldInv /\ NeedInv /\ ReadInv /\ LookedInv
        /\ ShiftsFit => SureInv

-----------------------------------------------------------------------------
(* Words, masks and nodes *)

\* The widths are those of the code, in order.
LEMMA Widths == /\ BITS_PER_LONG \in Nat /\ BITS_PER_LONG > 5 /\ BITS_PER_INT \in Nat /\ BITS_PER_INT > 4
                /\ BITS_PER_INT < BITS_PER_LONG /\ SYS_MAX_NODE \in Nat /\ BITS_PER_LONG < SYS_MAX_NODE
  BY WidthsAssumption

\* create_node_mask() makes room for all of its bits, in one word or more.
LEMMA WordsLaw ==
  ASSUME NEW bits \in Nat
  PROVE  /\ Words(bits) \in Nat \ {0} /\ bits <= Words(bits) * BITS_PER_LONG
         /\ BITS_PER_LONG <= Words(bits) * BITS_PER_LONG
         /\ bits > 0 => Words(bits) = (bits + BITS_PER_LONG - 1) \div BITS_PER_LONG
<1>1. CASE bits = 0
  BY <1>1, Widths DEF Words
<1>2. CASE bits > 0
  <2>. DEFINE q == (bits + BITS_PER_LONG - 1) \div BITS_PER_LONG
  <2>1. q \in Nat /\ bits <= q * BITS_PER_LONG
    BY Widths
  <2>2. q # 0
    BY ONLY <2>1, <1>2, Widths
  <2>3. BITS_PER_LONG <= q * BITS_PER_LONG
    <3>. HIDE DEF q
    <3>. QED  BY ONLY <2>1, <2>2, Widths
  <2>. QED  BY <1>2, <2>1, <2>2, <2>3 DEF Words
<1>. QED  BY <1>1, <1>2

\* The nodes of the machine
LEMMA NodesLaw ==
  ASSUME max_node \in Nat
  PROVE  /\ Nodes = 0..(Cardinality(Nodes) - 1) /\ 0 \in Nodes
         /\ Cardinality(Nodes) = IF max_node = 0 THEN 1 ELSE max_node
<1>. DEFINE m == IF max_node = 0 THEN 1 ELSE max_node
<1>1. m \in Nat \ {0} /\ Nodes = 0..(m - 1)
  BY DEF Nodes
<1>2. Cardinality(0..(m - 1)) = m
  BY <1>1, FS_Interval
<1>. QED  BY <1>1, <1>2

\* Masks of few nodes, cut to a number of bits
LEMMA MaskCuts ==
  ASSUME max_node \in Nat
  PROVE  /\ max_node >= 2 => /\ Nodes \intersect ({0, 1} \intersect 0..(BITS_PER_LONG - 2)) = {0, 1}
                             /\ Nodes \intersect ({1} \intersect 0..(BITS_PER_LONG - 2)) = {1}
                             /\ Nodes \intersect {1} = {1} /\ Nodes \intersect {0, 1} = {0, 1}
         /\ Nodes \intersect ({0} \intersect 0..(BITS_PER_LONG - 2)) = {0}
         /\ Nodes \intersect ((0..3) \intersect 0..0) = {0}
         /\ Nodes \intersect ({2, 3} \intersect 0..0) = {}
         /\ \A m : Nodes \intersect (m \intersect 0..(0 - 2)) = {}
         /\ \A m : Nodes \intersect (m \intersect 0..(1 - 2)) = {}
  BY Widths, NodesLaw

\* The lowest node of a mask of one or two
LEMMA MinLaw == Min({0, 1}) = 0 /\ Min({0}) = 0 /\ Min({1}) = 1
  BY DEF Min

\* A number of bits in words: full ones, and a rest of r bits in one more
LEMMA Division ==
  ASSUME NEW a \in Nat
  PROVE  /\ a \div BITS_PER_LONG \in Nat /\ a % BITS_PER_LONG \in 0..(BITS_PER_LONG - 1)
         /\ a = (a \div BITS_PER_LONG) * BITS_PER_LONG + (a % BITS_PER_LONG)
<1>. DEFINE b == BITS_PER_LONG
<1>0. b \in Nat /\ b > 0
  BY Widths
<1>. HIDE DEF b
<1>1. a = b * (a \div b) + (a % b)
  BY ONLY <1>0, a \in Nat, SMTT(20)
<1>2. a % b \in 0..(b - 1) /\ a \div b \in Nat
  BY ONLY <1>0, a \in Nat
<1>3. b * (a \div b) = (a \div b) * b
  BY ONLY <1>0, <1>2
<1>. QED  BY ONLY <1>1, <1>2, <1>3 DEF b

\* The word that a bit is in
LEMMA Quotient ==
  ASSUME NEW a \in Nat, NEW q \in Nat, q * BITS_PER_LONG <= a, a < q * BITS_PER_LONG + BITS_PER_LONG
  PROVE  a \div BITS_PER_LONG = q
<1>. DEFINE b == BITS_PER_LONG
<1>0. b \in Nat /\ b > 0
  BY Widths
<1>. HIDE DEF b
<1>1. q * b <= a /\ a < q * b + b
  BY DEF b
<1>. DEFINE r == a - q * b
<1>2. r \in 0..(b - 1) /\ a = q * b + r
  BY ONLY <1>0, <1>1, a \in Nat, q \in Nat
<1>. HIDE DEF r
<1>3. a \div b = q
  BY ONLY <1>0, <1>2, a \in Nat, q \in Nat
<1>. QED  BY <1>3 DEF b

\* n nodes fill full words, and a rest of the next one that an int can count; one bit more needs
\* no other word.
LEMMA Parts ==
  ASSUME NEW n \in Nat, n > 0, ShiftFits(n)
  PROVE  \E q \in Nat, r \in 1..(BITS_PER_INT - 2) :
           n = q * BITS_PER_LONG + r /\ n % BITS_PER_LONG = r /\ Words(n) = q + 1 /\ Words(n + 1) = q + 1
<1>. DEFINE q == n \div BITS_PER_LONG
            r == n % BITS_PER_LONG
<1>1. r \in 1..(BITS_PER_INT - 2)
  BY DEF ShiftFits
<1>2. q \in Nat /\ n = q * BITS_PER_LONG + r
  BY Division
<1>. DEFINE c == q * BITS_PER_LONG
<1>3. c \in Nat /\ (q + 1) * BITS_PER_LONG = c + BITS_PER_LONG
  <2>. HIDE DEF q
  <2>. QED  BY ONLY <1>2, Widths
<1>. HIDE DEF q, r
<1>4. n + BITS_PER_LONG - 1 \in Nat /\ n + BITS_PER_LONG \in Nat
  BY ONLY Widths, n \in Nat
<1>5. (n + BITS_PER_LONG - 1) \div BITS_PER_LONG = q + 1
  <2>1. (q + 1) * BITS_PER_LONG <= n + BITS_PER_LONG - 1 /\ n + BITS_PER_LONG - 1 < (q + 1) * BITS_PER_LONG + BITS_PER_LONG
    BY ONLY <1>1, <1>2, <1>3, Widths
  <2>. QED  BY ONLY <2>1, <1>2, <1>4, Quotient
<1>6. (n + BITS_PER_LONG) \div BITS_PER_LONG = q + 1
  <2>1. (q + 1) * BITS_PER_LONG <= n + BITS_PER_LONG /\ n + BITS_PER_LONG < (q + 1) * BITS_PER_LONG + BITS_PER_LONG
    BY ONLY <1>1, <1>2, <1>3, Widths
  <2>. QED  BY ONLY <2>1, <1>2, <1>4, Quotient
<1>7. Words(n) = q + 1
  BY ONLY <1>5, n > 0, n \in Nat DEF Words
<1>8. Words(n + 1) = q + 1
  <2>1. (n + 1) + BITS_PER_LONG - 1 = n + BITS_PER_LONG /\ n + 1 # 0
    BY ONLY Widths, n \in Nat
  <2>. QED  BY ONLY <2>1, <1>6 DEF Words
<1>9. n % BITS_PER_LONG = r
  BY DEF r
<1>. QED  BY ONLY <1>1, <1>2, <1>7, <1>8, <1>9

\* The mask one node too wide, cut to its maxnode - 1 bits, is the mask of all nodes.
LEMMA OneTooManyLaw ==
  ASSUME max_node \in Nat, max_node > 0, ShiftFits(max_node)
  PROVE  /\ Nodes = 0..(max_node - 1)
         /\ Nodes \intersect (OneTooMany(max_node) \intersect 0..(max_node + 1 - 2)) = Nodes
         /\ OneTooMany(max_node) # NULL
<1>1. PICK q \in Nat, r \in 1..(BITS_PER_INT - 2) :
        /\ max_node = q * BITS_PER_LONG + r /\ max_node % BITS_PER_LONG = r
        /\ Words(max_node) = q + 1 /\ Words(max_node + 1) = q + 1
  BY Parts
<1>. DEFINE c == q * BITS_PER_LONG
<1>2. c \in Nat
  BY ONLY Widths, q \in Nat
<1>3. (r + 1) % BITS_PER_INT = r + 1
  BY ONLY Widths, r \in 1..(BITS_PER_INT - 2)
<1>4. LowBits((max_node % BITS_PER_LONG) + 1) = 0..r
  BY ONLY <1>1, <1>3, r \in 1..(BITS_PER_INT - 2), Widths DEF LowBits
<1>5. Words(max_node + 1) - 1 = q
  BY ONLY <1>1, q \in Nat
<1>6. OneTooMany(max_node) = 0..(c - 1) \union {c + b : b \in 0..r}
  BY ONLY <1>4, <1>5 DEF OneTooMany
<1>. HIDE DEF c
<1>7. max_node = c + r
  BY ONLY <1>1 DEF c
<1>8. \A x \in 0..(max_node - 1) : x \in OneTooMany(max_node)
  <2>. SUFFICES ASSUME NEW x \in 0..(max_node - 1) PROVE x \in OneTooMany(max_node)
    OBVIOUS
  <2>1. CASE x < c
    BY ONLY <2>1, <1>2, <1>6, x \in 0..(max_node - 1)
  <2>2. CASE x >= c
    <3>1. x - c \in 0..r /\ x = c + (x - c)
      BY ONLY <2>2, <1>2, <1>7, x \in 0..(max_node - 1), max_node \in Nat, r \in 1..(BITS_PER_INT - 2), Widths
    <3>. QED  BY ONLY <3>1, <1>6
  <2>. QED  BY ONLY <2>1, <2>2, <1>2, x \in 0..(max_node - 1)
<1>9. Nodes = 0..(max_node - 1) /\ max_node + 1 - 2 = max_node - 1 /\ 0 \in 0..(max_node - 1)
  BY DEF Nodes
<1>10. OneTooMany(max_node) # NULL
  BY ONLY <1>8, <1>9 DEF NULL
<1>. QED  BY ONLY <1>8, <1>9, <1>10

-----------------------------------------------------------------------------
(* What single steps of a text must be like *)

\* Fields of each kind of step
LEMMA PlainStep == ASSUME NEW s, s.op \in Ops \ ({"need", "alloc", "preset", "get"} \union Setters) PROVE StepOK(s)
  BY DEF StepOK, Looks, Setters

\* A check of max_node
LEMMA NeedStep == ASSUME NEW s, s.op = "need", s.k \in Nat PROVE StepOK(s)
  BY DEF StepOK, Looks, Ops, Setters

\* create_node_mask()
LEMMA AllocStep == ASSUME NEW s, s.op = "alloc", s.name \in {"node_mask", "arg_mask"}, s.bits \in Nat PROVE StepOK(s)
  BY DEF StepOK, Looks, Ops, Setters

\* A first word that is set
LEMMA PresetStep == ASSUME NEW s, s.op = "preset", s.bits = {} \/ s.bits = {0} PROVE StepOK(s)
  BY DEF StepOK, Looks, Ops, Setters

\* set_mempolicy()
LEMMA SetStep == ASSUME NEW s, s.op = "set", PolicyStep(s), s.want \in Wants PROVE StepOK(s)
  BY DEF StepOK, Looks, Ops, Setters

\* mbind(), within buf
LEMMA MbindStep ==
  ASSUME NEW s, s.op = "mbind", PolicyStep(s), s.want \in Wants, s.at \in 0..6, s.len \in -1..7, s.at + s.len <= 7 PROVE StepOK(s)
  BY DEF StepOK, Looks, Ops, Setters, Page, NUM_REGION

\* get_mempolicy()
LEMMA GetStep ==
  ASSUME NEW s, s.op = "get", s.maxnode \in Int, s.want \in Wants,
         \/ s.at = NOADDR /\ (s.want = "ok" => s.flags # {"ADDR"})
         \/ s.at \in 0..6 /\ (s.want = "ok" => "ADDR" \in s.flags)
         \/ s.at = WILDADDR /\ s.want # "ok" /\ "ADDR" \in s.flags
  PROVE  StepOK(s)
<1>1. s.at \in Slots \union {WILDADDR}
  BY DEF Slots, Page, PROC, NUM_REGION, WILDADDR, NOADDR
<1>2. Looks(s) /\ s.want = "ok" => s.at \in Slots /\ (s.flags = {"ADDR"} <=> s.at \in Page)
  BY DEF Looks, Slots, Page, PROC, NUM_REGION, WILDADDR, NOADDR
<1>3. s.op \in Ops /\ s.op \notin Setters
  BY DEF Ops, Setters
<1>4. s.at = WILDADDR => "ADDR" \in s.flags
  BY DEF WILDADDR, NOADDR
<1>. QED  BY <1>1, <1>2, <1>3, <1>4 DEF StepOK

\* A policy that the kernel must take, or must refuse
LEMMA GoodPolicy ==
  ASSUME NEW s, \/ s.mode \in {{"DEFAULT"}, {"PREFERRED"}} /\ s.mask = NULL
                \/ /\ s.mode \in {{"BIND"}, {"BIND", "STATIC"}, {"BIND", "RELATIVE"}, {"INTERLEAVE"}, {"PREFERRED"}}
                   /\ Effective(s, "none") # {} /\ s.maxnode \in 1..(SYS_MAX_NODE + 1)
  PROVE  PolicyError(s, "none") = "0"
<1>1. s.mask = NULL => Effective(s, "none") = {}
  BY DEF Effective
<1>2. ~BadPolicy(s, "none")
  BY <1>1, Widths DEF BadPolicy
<1>. QED  BY <1>2 DEF PolicyError

\* Policies that must be refused
LEMMA BadPolicies ==
  ASSUME NEW s, \/ s.mode = {"UNKNOWN"} \/ s.mode = {"BIND", "STATIC", "RELATIVE"}
                \/ s.mask # NULL /\ (s.maxnode = 0 \/ (s.maxnode \in Nat /\ s.maxnode > SYS_MAX_NODE + 1))
                \/ s.mode = {"BIND"} /\ Effective(s, "none") = {}
  PROVE  PolicyError(s, "none") = "EINVAL"
<1>1. BadPolicy(s, "none")
  BY DEF BadPolicy
<1>. QED  BY <1>1 DEF PolicyError

\* Calls that go as the test says
LEMMA NoCall == ASSUME NEW k, T[k].op \notin Setters \union {"get"} PROVE CallOK(k)
  BY DEF CallOK, Setters

\* mbind()
LEMMA MbindCall ==
  ASSUME NEW k, T[k].op = "mbind",
         \/ T[k].want = "ok" /\ PolicyError(T[k], "none") = "0" /\ T[k].flags \in {{}, {"MOVE"}} /\ T[k].len \in Nat
         \/ T[k].want = "EINVAL" /\ PolicyError(T[k], "none") = "EINVAL"
         \/ T[k].want = "EINVAL" /\ PolicyError(T[k], "none") = "0" /\ T[k].flags = {"UNALIGNED"}
         \/ T[k].want = "EINVAL" /\ PolicyError(T[k], "none") = "0" /\ T[k].len = -1
         \/ T[k].want = "EPERM" /\ PolicyError(T[k], "none") = "0" /\ T[k].flags = {"MOVE_ALL"} /\ T[k].len \in Nat
  PROVE  CallOK(k)
<1>. DEFINE s == T[k]
<1>1. s.want = "ok" /\ buf # "failed" => MbindError(s, "none") = "0"
  BY DEF MbindError
<1>2. s.want # "ok" => MbindError(s, "none") = s.want /\ s.want \in {"EINVAL", "EPERM"}
  BY DEF MbindError
<1>. QED  BY <1>1, <1>2 DEF CallOK, Promised

\* set_mempolicy()
LEMMA SetCall ==
  ASSUME NEW k, T[k].op = "set",
         \/ T[k].want = "ok" /\ PolicyError(T[k], "none") = "0"
         \/ T[k].want \in {"EINVAL", "fails"} /\ PolicyError(T[k], "none") = "EINVAL"
  PROVE  CallOK(k)
  BY DEF CallOK, Promised

\* get_mempolicy() for a policy or for the nodes allowed
LEMMA GetCall ==
  ASSUME max_node \in Nat, NEW k, T[k].op = "get",
         \/ /\ T[k].want = "ok" /\ (T[k].nm => T[k].maxnode \in Nat /\ T[k].maxnode >= Cardinality(Nodes))
            /\ \/ T[k].at = NOADDR /\ T[k].flags \in {{}, {"MEMS_ALLOWED"}}
               \/ T[k].at \in 0..6 /\ T[k].flags \in {{"ADDR"}, {"ADDR", "NODE"}}
         \/ T[k].want = "EINVAL" /\ T[k].nm /\ T[k].maxnode \in Int /\ T[k].maxnode < Cardinality(Nodes) /\ T[k].flags = {}
         \/ T[k].want = "EINVAL" /\ T[k].flags \in {{"MEMS_ALLOWED", "ADDR"}, {"MEMS_ALLOWED", "NODE"}, {"UNKNOWN"}}
         \/ T[k].want = "EINVAL" /\ T[k].flags = {} /\ T[k].at = 0
         \/ T[k].want = "EFAULT" /\ T[k].flags = {"ADDR"} /\ T[k].at \in {NOADDR, WILDADDR} /\ ~T[k].nm
  PROVE  CallOK(k)
<1>. DEFINE s == T[k]
            d == [proc |-> [mode |-> IF s.want = "ok" THEN {"INTERLEAVE"} ELSE {"DEFAULT"}]]
<1>1. s.flags # {"NODE"}
  OBVIOUS
<1>2. Cardinality(Nodes) \in Nat
  BY NodesLaw
<1>3. s.want = "ok" /\ ("ADDR" \in s.flags => buf # "failed") => GetError(d, s, "none") = "0"
  BY <1>1, <1>2 DEF GetError, NOADDR
<1>4. s.want # "ok" => GetError(d, s, "none") = s.want /\ s.want \in {"EINVAL", "EFAULT"}
  BY <1>1, <1>2 DEF GetError, NOADDR, WILDADDR
<1>. QED  BY <1>1, <1>3, <1>4 DEF CallOK

\* get_mempolicy() for the next node
LEMMA NodeCall ==
  ASSUME max_node \in Nat, NEW k, T[k].op = "get", T[k].flags = {"NODE"}, T[k].at = NOADDR, ~T[k].nm,
         \/ T[k].want = "ok" /\ \E j \in 1..(k - 1) : LastCover(k, PROC, j) /\ T[j].mode = {"INTERLEAVE"}
         \/ T[k].want = "EINVAL" /\ Untouched(k, PROC)
  PROVE  CallOK(k)
<1>. DEFINE s == T[k]
            d == [proc |-> [mode |-> IF s.want = "ok" THEN {"INTERLEAVE"} ELSE {"DEFAULT"}]]
<1>1. s.want = "ok" => GetError(d, s, "none") = "0"
  BY DEF GetError, NOADDR
<1>2. s.want # "ok" => GetError(d, s, "none") = s.want /\ s.want = "EINVAL"
  BY DEF GetError, NOADDR
<1>. QED  BY <1>1, <1>2 DEF CallOK

\* Checks, of the mode right behind the get_mempolicy() and of the mask one step later at most
LEMMA NoCheck == ASSUME NEW k, T[k].op \notin {"mode", "word0", "zero", "full"} PROVE CheckOK(k)
  BY DEF CheckOK

\* A check behind its get_mempolicy()
LEMMA CheckAfter ==
  ASSUME NEW k \in Nat, NEW g \in 1..(k - 1), g = k - 1 \/ (g = k - 2 /\ T[k - 1].op = "mode"),
         T[k].op \in {"mode", "word0", "zero", "full"}, T[k].op = "mode" => g = k - 1,
         T[g].op = "get", T[g].want = "ok", T[k].op = "mode" => T[g].m, T[k].op # "mode" => T[g].nm,
         T[g].flags \in {{}, {"ADDR"}},
         \/ Untouched(k, T[g].at) /\ Finds(T[k], D)
         \/ \E j \in 1..(k - 1) : LastCover(k, T[g].at, j) /\ Finds(T[k], Policy(T[j]))
  PROVE  CheckOK(k)
<1>1. GetOf(k) = g
  BY DEF GetOf
<1>2. Looks(T[g])
  BY DEF Looks
<1>. QED  BY <1>1, <1>2 DEF CheckOK

\* One mode check and one mask check behind the last call confirm every look at the same page.
LEMMA ConfirmedBy ==
  ASSUME NEW c \in 1..Len(T), NEW b \in 1..Len(T), NEW g, GetOf(c) = g, GetOf(b) = g, Looks(T[g]),
         T[c].op = "mode", T[b].op \in {"word0", "zero", "full"},
         \A k \in 1..Len(T) : Looks(T[k]) => T[k].at = T[g].at,
         \A l \in 1..Len(T) : T[l].op \in Setters => l < c /\ l < b
  PROVE  \A k \in 1..Len(T) : Confirmed(k)
  BY DEF Confirmed

\* Many tests make one call, behind the max_node check and the allocation of a mask.
LEMMA OneCall ==
  ASSUME test \notin {"get018", "mbind013", "set012"}, max_node \in Nat, NEW n \in 1..3, Len(T) = n, DOMAIN T = 1..n,
         \A k \in 1..(n - 1) : \/ T[k].op = "need" /\ T[k].k \in Nat /\ k = 1
                               \/ T[k].op = "alloc" /\ T[k].name \in {"node_mask", "arg_mask"} /\ T[k].bits \in Nat /\ k = n - 1,
         T[n].op \in {"mbind", "set", "get"}, StepOK(T[n]),
         T[n].op = "get" /\ UsesMask(T[n]) => n > 1 /\ MaskAt(n, n - 1),
         T[n].op \in Setters => T[n].mask = NULL \/ (ArgFits(n) /\ T[n].mask \subseteq 0..3),
         Suitable => CallOK(n)
  PROVE  TestOK
<1>1. \A k \in 1..n : k = n \/ T[k].op \in {"need", "alloc"}
  OBVIOUS
<1>2. ASSUME NEW k \in 1..n PROVE StepOK(T[k])
  BY NeedStep, AllocStep
<1>3. OrderOK
  BY <1>1 DEF OrderOK
<1>4. MasksOK
  <2>1. \A k, l \in 1..n : T[k].op = "alloc" /\ T[l].op = "alloc" /\ T[k].name = T[l].name => k = l
    OBVIOUS
  <2>2. ASSUME NEW k \in 1..n, UsesMask(T[k]) PROVE \E a \in 1..(k - 1) : MaskAt(k, a)
    <3>1. k = n /\ T[n].op = "get"
      BY <1>1, <2>2 DEF UsesMask
    <3>. QED  BY <3>1, <2>2
  <2>3. \A k \in 1..n : T[k].op \in Setters /\ T[k].mask # NULL => ArgFits(k)
    BY <1>1 DEF Setters
  <2>. QED  BY <2>1, <2>2, <2>3 DEF MasksOK
<1>5. SmallMasks
  BY <1>1 DEF SmallMasks, Setters
<1>6. ASSUME Suitable, NEW k \in 1..n PROVE CallOK(k) /\ CheckOK(k)
  <2>1. CASE k = n
    BY <1>6, <2>1, NoCheck
  <2>2. CASE k # n
    BY <1>1, <2>2, NoCall, NoCheck DEF Setters
  <2>. QED  BY <2>1, <2>2
<1>7. \A k \in 1..n : Confirmed(k)
  BY <1>1 DEF Confirmed, Looks, Setters
<1>8. ScopeOK
  BY <1>1 DEF ScopeOK, LoopOps
<1>. QED  BY ONLY <1>2, <1>3, <1>4, <1>5, <1>6, <1>7, <1>8, Len(T) = n, DOMAIN T = 1..n, n \in 1..3 DEF TestOK

\* Many others set a policy, read it back, and compare its mode and its mask.
LEMMA SetAndShown ==
  ASSUME test \notin {"get018", "mbind013", "set012"}, max_node \in Nat, Len(T) = 6, DOMAIN T = 1..6,
         T[1].op = "need", T[1].k \in Nat \ {0},
         T[2].op = "alloc", T[2].name = "node_mask", T[2].bits = max_node,
         T[3].op \in Setters, T[3].want = "ok", StepOK(T[3]),
         T[3].mask = NULL \/ (T[3].mask \subseteq 0..3 /\ T[3].maxnode - 1 <= BITS_PER_LONG),
         T[4].op = "get", T[4].m = TRUE, T[4].nm = TRUE, T[4].maxnode = max_node, T[4].want = "ok",
         \/ T[3].op = "set" /\ T[4].at = NOADDR /\ T[4].flags = {}
         \/ T[3].op = "mbind" /\ T[3].at = 0 /\ T[3].len = 1 /\ T[4].at = 0 /\ T[4].flags = {"ADDR"},
         T[5].op = "mode", T[6].op \in {"word0", "zero"},
         Suitable => CallOK(3) /\ Finds(T[5], Policy(T[3])) /\ Finds(T[6], Policy(T[3]))
  PROVE  TestOK
<1>1. T[3].op \notin {"need", "alloc", "get", "mode", "word0", "zero", "full", "map", "unmap", "node", "preset"}
  BY DEF Setters
<1>2. \A l \in 1..6 : T[l].op \in Setters <=> l = 3
  BY DEF Setters
<1>3. \A k \in 1..6 : StepOK(T[k])
  <2>1. StepOK(T[1]) /\ StepOK(T[2])
    BY NeedStep, AllocStep
  <2>2. StepOK(T[4])
    BY GetStep DEF Wants
  <2>3. StepOK(T[5]) /\ StepOK(T[6])
    BY PlainStep DEF Ops, Checks, Setters
  <2>. QED  BY <2>1, <2>2, <2>3
<1>4. OrderOK
  BY <1>1 DEF OrderOK
<1>5. Suitable => max_node > 0
  BY DEF Suitable
<1>6. MasksOK
  <2>1. \A k, l \in 1..6 : T[k].op = "alloc" /\ T[l].op = "alloc" /\ T[k].name = T[l].name => k = l
    BY <1>1
  <2>2. ASSUME NEW k \in 1..6, UsesMask(T[k]) PROVE \E a \in 1..(k - 1) : MaskAt(k, a)
    <3>1. k = 4 \/ k = 6
      BY <1>1, <2>2 DEF UsesMask
    <3>2. MaskAt(4, 2) /\ MaskAt(6, 2)
      BY <1>5 DEF MaskAt
    <3>. QED  BY <3>1, <3>2
  <2>3. \A k \in 1..6 : T[k].op \in Setters /\ T[k].mask # NULL => ArgFits(k)
    BY <1>2 DEF ArgFits
  <2>. QED  BY <2>1, <2>2, <2>3 DEF MasksOK
<1>7. SmallMasks
  BY <1>2 DEF SmallMasks
<1>8. ASSUME Suitable, NEW k \in 1..6 PROVE CallOK(k)
  <2>1. CallOK(4)
    BY <1>5, <1>8, NodesLaw, GetCall
  <2>2. k \notin {3, 4} => CallOK(k)
    BY ONLY <1>2, k \in 1..6, T[1].op = "need", T[2].op = "alloc", T[5].op = "mode", T[6].op \in {"word0", "zero"}, NoCall DEF Setters
  <2>. QED  BY <1>8, <2>1, <2>2
<1>9. ASSUME Suitable, NEW k \in 1..6 PROVE CheckOK(k)
  <2>1. \A l \in {5, 6} : LastCover(l, T[4].at, 3)
    BY <1>2 DEF LastCover, Covers, Setters, PROC, NOADDR
  <2>2. CheckOK(5) /\ CheckOK(6)
    BY <1>9, <2>1, CheckAfter
  <2>3. k \notin {5, 6} => CheckOK(k)
    BY <1>1, NoCheck
  <2>. QED  BY <2>2, <2>3
<1>10. \A k \in 1..6 : Confirmed(k)
  <2>1. GetOf(5) = 4 /\ GetOf(6) = 4 /\ Looks(T[4])
    BY DEF GetOf, Looks
  <2>2. \A k \in 1..Len(T) : Looks(T[k]) => T[k].at = T[4].at
    BY <1>1 DEF Looks
  <2>3. \A l \in 1..Len(T) : T[l].op \in Setters => l < 5 /\ l < 6
    BY <1>2
  <2>4. T[5].op = "mode" /\ T[6].op \in {"word0", "zero", "full"} /\ 5 \in 1..Len(T) /\ 6 \in 1..Len(T)
    OBVIOUS
  <2>. QED  BY ONLY <2>1, <2>2, <2>3, <2>4, Len(T) = 6, ConfirmedBy
<1>11. ScopeOK
  BY <1>1 DEF ScopeOK, LoopOps, Setters
<1>. QED  BY ONLY <1>3, <1>4, <1>6, <1>7, <1>8, <1>9, <1>10, <1>11, Len(T) = 6, DOMAIN T = 1..6 DEF TestOK

-----------------------------------------------------------------------------
(* mbind 015 to 023: some calls, each followed by a look at its first page, then mbind_check() *)

\* A call of m_args[], and the pages it covers
ArgStep(s) ==
  /\ s.op = "mbind" /\ s.want = "ok" /\ s.flags = {} /\ s.maxnode = BITS_PER_LONG
  /\ s.at \in 0..6 /\ s.len \in 1..7 /\ s.at + s.len <= 7
  /\ \/ s.mode = {"INTERLEAVE"} /\ s.mask = {0, 1}
     \/ s.mode = {"BIND"} /\ s.mask = {0}
     \/ s.mode = {"PREFERRED"} /\ s.mask = {1}
In(p, s) == s.at <= p /\ p < s.at + s.len
LookAt(s, p) ==
  /\ s.op = "get" /\ s.m = TRUE /\ s.nm = TRUE /\ s.maxnode = max_node /\ s.at = p /\ s.flags = {"ADDR"} /\ s.want = "ok"

\* The text for c calls, and m_expect[]
RegionText(c, expect) ==
  /\ Len(T) = 3 * c + 32 /\ DOMAIN T = 1..(3 * c + 32)
  /\ T[1].op = "map" /\ T[2].op = "need" /\ T[2].k = 2
  /\ T[3].op = "alloc" /\ T[3].name = "node_mask" /\ T[3].bits = max_node
  /\ \A a \in 1..c : /\ ArgStep(T[3 * a + 1])
                     /\ T[3 * a + 2].op = "preset" /\ T[3 * a + 2].bits = {}
                     /\ LookAt(T[3 * a + 3], T[3 * a + 1].at)
  /\ \A p \in 0..6 : /\ T[3 * c + 4 * p + 4].op = "preset" /\ T[3 * c + 4 * p + 4].bits = {}
                     /\ LookAt(T[3 * c + 4 * p + 5], p)
                     /\ T[3 * c + 4 * p + 6].op = "mode" /\ T[3 * c + 4 * p + 6].mode = expect[p + 1].mode
                     /\ T[3 * c + 4 * p + 7].op = "word0" /\ T[3 * c + 4 * p + 7].bits = expect[p + 1].mask
  /\ T[3 * c + 32].op = "unmap"

\* m_expect[] says what the last call that covers a page makes of it.
Expected(c, expect) ==
  \A p \in 0..6 :
    \/ expect[p + 1] = D /\ \A a \in 1..c : ~In(p, T[3 * a + 1])
    \/ \E a \in 1..c : /\ In(p, T[3 * a + 1]) /\ \A b \in (a + 1)..c : ~In(p, T[3 * b + 1])
                       /\ expect[p + 1] = [mode |-> T[3 * a + 1].mode, mask |-> T[3 * a + 1].mask]

\* Every step is one of the three at the front, of a call, of the check of a page, or the last.
LEMMA RegionPlaces ==
  ASSUME NEW c \in {2, 3}, NEW k \in 1..(3 * c + 32)
  PROVE  \/ k \in 1..3 \/ k = 3 * c + 32
         \/ \E a \in 1..c : k \in {3 * a + 1, 3 * a + 2, 3 * a + 3}
         \/ \E p \in 0..6 : k \in {3 * c + 4 * p + 4, 3 * c + 4 * p + 5, 3 * c + 4 * p + 6, 3 * c + 4 * p + 7}
<1>1. CASE k \in 4..(3 * c + 3)
  <2>. DEFINE a == (k - 1) \div 3
  <2>1. a \in 1..c /\ k \in {3 * a + 1, 3 * a + 2, 3 * a + 3}
    BY <1>1
  <2>. QED  BY <2>1
<1>2. CASE k \in (3 * c + 4)..(3 * c + 31)
  <2>. DEFINE p == (k - 3 * c - 4) \div 4
  <2>1. p \in 0..6 /\ k \in {3 * c + 4 * p + 4, 3 * c + 4 * p + 5, 3 * c + 4 * p + 6, 3 * c + 4 * p + 7}
    BY <1>2
  <2>. QED  BY <2>1
<1>. QED  BY <1>1, <1>2

\* Its kinds of steps, by place
RegionOp(c, k) ==
  \/ k = 1 /\ T[k].op = "map"
  \/ k = 2 /\ T[k].op = "need"
  \/ k = 3 /\ T[k].op = "alloc"
  \/ k = 3 * c + 32 /\ T[k].op = "unmap"
  \/ \E a \in 1..c : \/ k = 3 * a + 1 /\ T[k].op = "mbind"
                     \/ k = 3 * a + 2 /\ T[k].op = "preset"
                     \/ k = 3 * a + 3 /\ T[k].op = "get"
  \/ \E p \in 0..6 : \/ k = 3 * c + 4 * p + 4 /\ T[k].op = "preset"
                     \/ k = 3 * c + 4 * p + 5 /\ T[k].op = "get"
                     \/ k = 3 * c + 4 * p + 6 /\ T[k].op = "mode"
                     \/ k = 3 * c + 4 * p + 7 /\ T[k].op = "word0"
\* They are the only ones.
LEMMA RegionOps ==
  ASSUME NEW c \in {2, 3}, NEW e, RegionText(c, e), NEW k \in 1..(3 * c + 32)
  PROVE  RegionOp(c, k)
<1>1. ASSUME NEW a \in 1..c
      PROVE  T[3 * a + 1].op = "mbind" /\ T[3 * a + 2].op = "preset" /\ T[3 * a + 3].op = "get"
  BY DEF RegionText, ArgStep, LookAt
<1>2. ASSUME NEW p \in 0..6
      PROVE  /\ T[3 * c + 4 * p + 4].op = "preset" /\ T[3 * c + 4 * p + 5].op = "get"
             /\ T[3 * c + 4 * p + 6].op = "mode" /\ T[3 * c + 4 * p + 7].op = "word0"
  BY DEF RegionText, LookAt
<1>3. T[1].op = "map" /\ T[2].op = "need" /\ T[3].op = "alloc" /\ T[3 * c + 32].op = "unmap"
  BY DEF RegionText
<1>4. k \in 1..3 \/ k = 3 * c + 32 => RegionOp(c, k)
  BY ONLY <1>3 DEF RegionOp
<1>5. ASSUME NEW a \in 1..c, k \in {3 * a + 1, 3 * a + 2, 3 * a + 3} PROVE RegionOp(c, k)
  <2>1. \/ k = 3 * a + 1 /\ T[k].op = "mbind"
        \/ k = 3 * a + 2 /\ T[k].op = "preset"
        \/ k = 3 * a + 3 /\ T[k].op = "get"
    BY ONLY <1>1, <1>5, c \in {2, 3}
  <2>. QED  BY ONLY <2>1, a \in 1..c DEF RegionOp
<1>6. ASSUME NEW p \in 0..6, k \in {3 * c + 4 * p + 4, 3 * c + 4 * p + 5, 3 * c + 4 * p + 6, 3 * c + 4 * p + 7}
      PROVE  RegionOp(c, k)
  <2>1. \/ k = 3 * c + 4 * p + 4 /\ T[k].op = "preset"
        \/ k = 3 * c + 4 * p + 5 /\ T[k].op = "get"
        \/ k = 3 * c + 4 * p + 6 /\ T[k].op = "mode"
        \/ k = 3 * c + 4 * p + 7 /\ T[k].op = "word0"
    BY ONLY <1>2, <1>6, c \in {2, 3}
  <2>. QED  BY ONLY <2>1, p \in 0..6 DEF RegionOp
<1>. QED  BY ONLY <1>4, <1>5, <1>6, RegionPlaces, c \in {2, 3}, k \in 1..(3 * c + 32)

\* What is asked of a policy is met by each call.
LEMMA ArgLaw ==
  ASSUME max_node \in Nat, NEW s, ArgStep(s)
  PROVE  /\ StepOK(s) /\ s.mask # NULL /\ s.mask \subseteq 0..3
         /\ max_node >= 2 => /\ Effective(s, "none") = s.mask /\ PolicyError(s, "none") = "0"
                             /\ Policy(s) = [mode |-> s.mode, mask |-> s.mask]
<1>1. PolicyStep(s)
  BY Widths DEF ArgStep, PolicyStep, Modes
<1>2. StepOK(s)
  BY <1>1, MbindStep DEF ArgStep, Wants
<1>3. s.mask # NULL /\ s.mask \subseteq 0..3
  BY DEF ArgStep, NULL
<1>. SUFFICES ASSUME max_node >= 2 PROVE /\ Effective(s, "none") = s.mask /\ PolicyError(s, "none") = "0"
                                         /\ Policy(s) = [mode |-> s.mode, mask |-> s.mask]
  BY <1>2, <1>3
<1>4. Effective(s, "none") = s.mask
  BY <1>3, MaskCuts DEF Effective, ArgStep
<1>5. PolicyError(s, "none") = "0"
  BY <1>4, GoodPolicy, Widths DEF ArgStep
<1>6. Policy(s) = [mode |-> s.mode, mask |-> s.mask]
  BY <1>4, MinLaw DEF Policy, ArgStep
<1>. QED  BY <1>4, <1>5, <1>6

\* The tests 015 to 023 are as TestOK says.
LEMMA RegionsOK ==
  ASSUME test \notin {"get018", "mbind013", "set012"}, max_node \in Nat,
         NEW c \in {2, 3}, NEW e, RegionText(c, e), Expected(c, e)
  PROVE  TestOK
<1>1. Len(T) = 3 * c + 32 /\ DOMAIN T = 1..(3 * c + 32) /\ Len(T) \in Nat
  BY DEF RegionText
<1>2. ASSUME NEW a \in 1..c
      PROVE  /\ 3 * a + 1 \in 1..Len(T) /\ ArgStep(T[3 * a + 1])
             /\ 3 * a + 2 \in 1..Len(T) /\ T[3 * a + 2].op = "preset" /\ T[3 * a + 2].bits = {}
             /\ 3 * a + 3 \in 1..Len(T) /\ LookAt(T[3 * a + 3], T[3 * a + 1].at)
  <2>1. 3 * a + 1 \in 1..Len(T) /\ 3 * a + 2 \in 1..Len(T) /\ 3 * a + 3 \in 1..Len(T)
    BY ONLY <1>1, c \in {2, 3}, a \in 1..c
  <2>. QED  BY ONLY <2>1, RegionText(c, e), a \in 1..c DEF RegionText
<1>3. ASSUME NEW p \in 0..6
      PROVE  /\ 3 * c + 4 * p + 4 \in 1..Len(T) /\ T[3 * c + 4 * p + 4].op = "preset" /\ T[3 * c + 4 * p + 4].bits = {}
             /\ 3 * c + 4 * p + 5 \in 1..Len(T) /\ LookAt(T[3 * c + 4 * p + 5], p)
             /\ T[3 * c + 4 * p + 6].op = "mode" /\ T[3 * c + 4 * p + 6].mode = e[p + 1].mode
             /\ T[3 * c + 4 * p + 7].op = "word0" /\ T[3 * c + 4 * p + 7].bits = e[p + 1].mask
             /\ 3 * c + 4 * p + 6 \in 1..Len(T) /\ 3 * c + 4 * p + 7 \in 1..Len(T)
  <2>1. /\ 3 * c + 4 * p + 4 \in 1..Len(T) /\ 3 * c + 4 * p + 5 \in 1..Len(T)
        /\ 3 * c + 4 * p + 6 \in 1..Len(T) /\ 3 * c + 4 * p + 7 \in 1..Len(T)
    BY ONLY <1>1, c \in {2, 3}, p \in 0..6
  <2>. QED  BY ONLY <2>1, RegionText(c, e), p \in 0..6 DEF RegionText
<1>4. /\ T[1].op = "map" /\ T[2].op = "need" /\ T[2].k = 2
      /\ T[3].op = "alloc" /\ T[3].name = "node_mask" /\ T[3].bits = max_node
      /\ T[3 * c + 32].op = "unmap"
  BY DEF RegionText
<1>5. Suitable => max_node >= 2
  BY <1>1, <1>4 DEF Suitable
<1>6. \A k \in 1..Len(T) : T[k].op \in Setters => \E a \in 1..c : k = 3 * a + 1
  BY <1>1, RegionOps DEF Setters, RegionOp
<1>7. ASSUME NEW s, NEW p \in 0..6, LookAt(s, p) PROVE StepOK(s) /\ Looks(s)
  BY <1>7, GetStep DEF LookAt, Looks, Wants
<1>8. ASSUME NEW k \in 1..Len(T), T[k].op = "get"
      PROVE  \E p \in 0..6 : LookAt(T[k], p)
  <2>1. (\E a \in 1..c : k = 3 * a + 3) \/ (\E p \in 0..6 : k = 3 * c + 4 * p + 5)
    BY ONLY <1>1, <1>8, RegionOps, RegionText(c, e), c \in {2, 3} DEF RegionOp
  <2>2. ASSUME NEW a \in 1..c, k = 3 * a + 3 PROVE LookAt(T[k], T[3 * a + 1].at) /\ T[3 * a + 1].at \in 0..6
    BY ONLY <1>2, <2>2 DEF ArgStep
  <2>. QED  BY ONLY <2>1, <2>2, <1>3
<1>9. ASSUME NEW k \in 1..Len(T) PROVE StepOK(T[k])
  <2>1. CASE T[k].op = "get"
    BY ONLY <2>1, <1>7, <1>8
  <2>2. CASE T[k].op = "mbind"
    BY ONLY <2>2, <1>2, <1>6, max_node \in Nat, k \in 1..Len(T), ArgLaw DEF Setters
  <2>3. CASE T[k].op = "preset"
    <3>1. T[k].bits = {}
      BY ONLY <2>3, <1>1, <1>2, <1>3, RegionOps, RegionText(c, e), c \in {2, 3}, k \in 1..Len(T) DEF RegionOp
    <3>. QED  BY ONLY <2>3, <3>1, PresetStep
  <2>4. CASE T[k].op \in {"need", "alloc"}
    <3>1. k \in {2, 3}
      BY ONLY <2>4, <1>1, RegionOps, RegionText(c, e), c \in {2, 3}, k \in 1..Len(T) DEF RegionOp
    <3>. QED  BY ONLY <2>4, <3>1, <1>4, max_node \in Nat, NeedStep, AllocStep
  <2>5. CASE T[k].op \in {"map", "mode", "word0", "unmap"}
    BY ONLY <2>5, PlainStep DEF Ops, Checks, Setters
  <2>. QED  BY ONLY <2>1, <2>2, <2>3, <2>4, <2>5, <1>1, RegionOps, RegionText(c, e), c \in {2, 3}, k \in 1..Len(T) DEF RegionOp
<1>10. OrderOK
  <2>1. ASSUME NEW k \in 1..Len(T)
        PROVE  /\ T[k].op = "map" => k = 1
               /\ T[k].op = "unmap" => k = Len(T)
               /\ T[k].op \notin {"full", "node"}
               /\ T[k].op = "need" => k = 2
    BY ONLY <1>1, RegionOps, RegionText(c, e), c \in {2, 3}, k \in 1..Len(T) DEF RegionOp
  <2>2. \A k \in 1..Len(T) : T[k].op = "need" => \A l \in 1..(k - 1) : T[l].op = "map"
    <3>1. \A l \in 1..(2 - 1) : l = 1
      OBVIOUS
    <3>. QED  BY ONLY <2>1, <3>1, <1>4
  <2>. QED  BY ONLY <2>1, <2>2 DEF OrderOK
<1>11. MasksOK
  <2>1. \A k, l \in 1..Len(T) : T[k].op = "alloc" /\ T[l].op = "alloc" /\ T[k].name = T[l].name => k = l
    BY ONLY <1>1, RegionOps, RegionText(c, e), c \in {2, 3} DEF RegionOp
  <2>2. ASSUME NEW k \in 1..Len(T), UsesMask(T[k]) PROVE \E a \in 1..(k - 1) : MaskAt(k, a)
    <3>1. T[k].op \in {"preset", "word0", "get"} /\ k > 3
      <4>1. T[k].op \in {"preset", "word0", "zero", "full", "get"}
        BY ONLY <2>2 DEF UsesMask
      <4>2. RegionOp(c, k)
        BY ONLY <1>1, <2>2, RegionOps, RegionText(c, e), c \in {2, 3}
      <4>. QED  BY ONLY <4>1, <4>2, c \in {2, 3} DEF RegionOp
    <3>2. T[k].op = "get" => T[k].maxnode = max_node
      BY ONLY <1>8, <2>2 DEF LookAt
    <3>3. MaskAt(k, 3)
      BY ONLY <3>1, <3>2, <1>4, <1>5, max_node \in Nat DEF MaskAt
    <3>. QED  BY ONLY <3>1, <3>3, <2>2, <1>1
  <2>3. \A k \in 1..Len(T) : T[k].op \in Setters /\ T[k].mask # NULL => ArgFits(k)
    <3>1. ASSUME NEW a \in 1..c PROVE T[3 * a + 1].maxnode - 1 <= BITS_PER_LONG
      BY ONLY <1>2, <3>1, Widths DEF ArgStep
    <3>. QED  BY ONLY <3>1, <1>6 DEF ArgFits
  <2>. QED  BY ONLY <2>1, <2>2, <2>3 DEF MasksOK
<1>12. SmallMasks
  BY ONLY <1>2, <1>6, max_node \in Nat, ArgLaw DEF SmallMasks
<1>13. ASSUME Suitable, NEW k \in 1..Len(T) PROVE CallOK(k)
  <2>1. CASE T[k].op = "get"
    <3>1. PICK p \in 0..6 : LookAt(T[k], p)
      BY ONLY <2>1, <1>8, <1>13
    <3>2. T[k].maxnode \in Nat /\ T[k].maxnode >= Cardinality(Nodes) /\ T[k].want = "ok" /\ T[k].at \in 0..6 /\ T[k].flags = {"ADDR"}
      BY ONLY <3>1, <1>5, <1>13, max_node \in Nat, NodesLaw DEF LookAt
    <3>. QED  BY ONLY <2>1, <3>2, max_node \in Nat, GetCall
  <2>2. CASE T[k].op = "mbind"
    <3>1. ArgStep(T[k])
      BY ONLY <2>2, <1>2, <1>6, <1>13 DEF Setters
    <3>2. PolicyError(T[k], "none") = "0"
      BY ONLY <3>1, <1>5, <1>13, max_node \in Nat, ArgLaw
    <3>. QED  BY ONLY <3>1, <3>2, MbindCall DEF ArgStep
  <2>3. CASE T[k].op \notin {"get", "mbind", "set"}
    BY ONLY <2>3, NoCall DEF Setters
  <2>. QED  BY ONLY <2>1, <2>2, <2>3, <1>1, <1>6, <1>13, <1>2 DEF Setters, ArgStep
<1>14. ASSUME Suitable, NEW k \in 1..Len(T) PROVE CheckOK(k)
  <2>1. CASE T[k].op \notin {"mode", "word0", "zero", "full"}
    BY ONLY <2>1, NoCheck
  <2>2. CASE T[k].op \in {"mode", "word0", "zero", "full"}
    <3>1. PICK p \in 0..6 : \/ k = 3 * c + 4 * p + 6 /\ T[k].op = "mode"
                            \/ k = 3 * c + 4 * p + 7 /\ T[k].op = "word0"
      BY ONLY <2>2, <1>1, <1>14, RegionOps, RegionText(c, e), c \in {2, 3}, ZenonT(60) DEF RegionOp
    <3>. DEFINE g == 3 * c + 4 * p + 5
    <3>2. LookAt(T[g], p) /\ T[g].at = p /\ g \in 1..(k - 1) /\ g > 3 * c
      <4>1. LookAt(T[g], p)
        BY ONLY <1>3, p \in 0..6
      <4>2. g \in 1..(k - 1) /\ g > 3 * c
        BY ONLY <3>1, c \in {2, 3}, p \in 0..6
      <4>. QED  BY ONLY <4>1, <4>2 DEF LookAt
    <3>3. T[k].op = "mode" => T[k].mode = e[p + 1].mode
      <4>1. CASE k = 3 * c + 4 * p + 6
        BY ONLY <4>1, <1>3, p \in 0..6
      <4>. QED  BY ONLY <3>1, <4>1
    <3>4. T[k].op = "word0" => T[k].bits = e[p + 1].mask
      BY ONLY <1>3, <3>1, p \in 0..6
    <3>6. ASSUME NEW a \in 1..c PROVE In(p, T[3 * a + 1]) <=> Covers(T[3 * a + 1], p)
      <4>1. ArgStep(T[3 * a + 1])
        BY ONLY <1>2, <3>6
      <4>. DEFINE s == T[3 * a + 1]
      <4>2. s.at \in 0..6 /\ s.len \in 1..7 /\ s.op = "mbind" /\ s.want = "ok"
        BY ONLY <4>1 DEF ArgStep
      <4>. HIDE DEF s
      <4>3. p \in s.at..(s.at + s.len - 1) <=> s.at <= p /\ p < s.at + s.len
        <5>1. \A x \in 0..6, y \in 1..7 : p \in x..(x + y - 1) <=> x <= p /\ p < x + y
          BY ONLY p \in 0..6
        <5>. QED  BY ONLY <4>2, <5>1
      <4>4. In(p, s) <=> Covers(s, p)
        BY ONLY <4>2, <4>3 DEF Covers, Setters, In
      <4>. QED  BY ONLY <4>4 DEF s
    <3>5. \A l \in 1..Len(T) : Covers(T[l], p) => \E a \in 1..c : l = 3 * a + 1 /\ In(p, T[3 * a + 1])
      <4>1. \A l \in 1..Len(T) : Covers(T[l], p) => T[l].op \in Setters
        BY ONLY DEF Covers
      <4>. QED  BY ONLY <4>1, <3>6, <1>6
    <3>7. \/ Untouched(k, p) /\ Finds(T[k], D)
          \/ \E j \in 1..(k - 1) : LastCover(k, p, j) /\ Finds(T[k], Policy(T[j]))
      <4>1. CASE e[p + 1] = D /\ \A a \in 1..c : ~In(p, T[3 * a + 1])
        <5>1. Untouched(k, p)
          BY ONLY <4>1, <3>5, <1>14, <1>1 DEF Untouched
        <5>2. Finds(T[k], D)
          BY ONLY <4>1, <3>1, <3>3, <3>4 DEF Finds
        <5>. QED  BY ONLY <5>1, <5>2
      <4>2. ASSUME NEW a \in 1..c, In(p, T[3 * a + 1]), \A b \in (a + 1)..c : ~In(p, T[3 * b + 1]),
                   e[p + 1] = [mode |-> T[3 * a + 1].mode, mask |-> T[3 * a + 1].mask]
            PROVE  \E j \in 1..(k - 1) : LastCover(k, p, j) /\ Finds(T[k], Policy(T[j]))
        <5>. DEFINE j == 3 * a + 1
        <5>1. j \in 1..(k - 1)
          BY ONLY <3>1, c \in {2, 3}, a \in 1..c, p \in 0..6
        <5>2. LastCover(k, p, j)
          <6>1. ASSUME NEW l \in (j + 1)..(k - 1), Covers(T[l], p) PROVE FALSE
            <7>1. PICK b \in 1..c : l = 3 * b + 1 /\ In(p, T[3 * b + 1])
              BY ONLY <6>1, <3>5, <1>14, <1>1, <5>1, c \in {2, 3}
            <7>2. b \in (a + 1)..c
              BY ONLY <7>1, l \in (j + 1)..(k - 1), a \in 1..c, c \in {2, 3}
            <7>. QED  BY ONLY <7>1, <7>2, <4>2
          <6>. QED  BY ONLY <6>1, <3>6, <4>2 DEF LastCover
        <5>3. Policy(T[j]) = e[p + 1]
          BY ONLY <1>2, <1>5, <1>14, <4>2, max_node \in Nat, ArgLaw
        <5>4. Finds(T[k], Policy(T[j]))
          BY ONLY <5>3, <3>1, <3>3, <3>4 DEF Finds
        <5>. QED  BY ONLY <5>1, <5>2, <5>4
      <4>. QED  BY ONLY <4>1, <4>2, Expected(c, e), p \in 0..6 DEF Expected
    <3>8. (g = k - 1 /\ T[k].op = "mode") \/ (g = k - 2 /\ T[k - 1].op = "mode" /\ T[k].op = "word0")
      <4>1. T[3 * c + 4 * p + 6].op = "mode"
        BY ONLY <1>3, p \in 0..6
      <4>2. k = 3 * c + 4 * p + 7 => k - 1 = 3 * c + 4 * p + 6
        BY ONLY c \in {2, 3}, p \in 0..6
      <4>. QED  BY ONLY <3>1, <4>1, <4>2, c \in {2, 3}, p \in 0..6
    <3>9. k \in Nat /\ T[g].op = "get" /\ T[g].want = "ok" /\ T[g].m /\ T[g].nm /\ T[g].flags = {"ADDR"}
      BY ONLY <3>2, <1>14, <1>1 DEF LookAt
    <3>. HIDE DEF g
    <3>. QED  BY ONLY <2>2, <3>2, <3>7, <3>8, <3>9, CheckAfter
  <2>. QED  BY ONLY <2>1, <2>2
<1>15. ASSUME NEW k \in 1..Len(T) PROVE Confirmed(k)
  <2>. SUFFICES ASSUME Looks(T[k])
                PROVE  \E m, b \in 1..Len(T) :
                         /\ T[m].op = "mode" /\ T[GetOf(m)].at = T[k].at
                         /\ T[b].op \in {"word0", "zero", "full"} /\ T[GetOf(b)].at = T[k].at /\ Looks(T[GetOf(b)])
                         /\ \A l \in 1..Len(T) : T[l].op \in Setters => l < m /\ l < b
    BY DEF Confirmed
  <2>1. PICK p \in 0..6 : LookAt(T[k], p)
    BY ONLY <1>8, Looks(T[k]), k \in 1..Len(T) DEF Looks
  <2>. DEFINE g == 3 * c + 4 * p + 5
              m == 3 * c + 4 * p + 6
              b == 3 * c + 4 * p + 7
  <2>2. /\ LookAt(T[g], p) /\ T[m].op = "mode" /\ T[b].op = "word0" /\ m \in 1..Len(T) /\ b \in 1..Len(T)
        /\ m - 1 = g /\ b - 1 = m /\ b - 2 = g
    <3>1. LookAt(T[g], p) /\ T[m].op = "mode" /\ T[b].op = "word0" /\ m \in 1..Len(T) /\ b \in 1..Len(T)
      BY ONLY <1>3, p \in 0..6
    <3>2. m - 1 = g /\ b - 1 = m /\ b - 2 = g
      BY ONLY p \in 0..6, c \in {2, 3}
    <3>. QED  BY ONLY <3>1, <3>2
  <2>3. GetOf(m) = g /\ GetOf(b) = g
    BY ONLY <2>2 DEF GetOf, LookAt
  <2>4. Looks(T[g]) /\ T[g].at = T[k].at
    BY ONLY <2>1, <2>2, <1>7, p \in 0..6 DEF LookAt
  <2>5. \A l \in 1..Len(T) : T[l].op \in Setters => l < m /\ l < b
    BY ONLY <1>6, c \in {2, 3}, p \in 0..6
  <2>. QED  BY ONLY <2>2, <2>3, <2>4, <2>5
<1>16. ScopeOK
  <2>1. ASSUME NEW k \in 1..Len(T) PROVE T[k].op \in {"map", "need", "alloc", "mbind", "preset", "get", "mode", "word0", "unmap"}
    BY ONLY <1>1, RegionOps, RegionText(c, e), c \in {2, 3}, k \in 1..Len(T) DEF RegionOp
  <2>. QED  BY ONLY <2>1, test \notin {"get018", "mbind013", "set012"} DEF ScopeOK, LoopOps
<1>. QED  BY ONLY <1>1, <1>9, <1>10, <1>11, <1>12, <1>13, <1>14, <1>15, <1>16, c \in {2, 3} DEF TestOK

\* The step of one call, and the texts with two calls and with three
Call(m, k, a, l) ==
  [op |-> "mbind", at |-> a, len |-> l, mode |-> {m}, mask |-> k, maxnode |-> BITS_PER_LONG, flags |-> {}, want |-> "ok"]
TwoText(e, m1, k1, a1, l1, m2, k2, a2, l2) ==
  T = Regions(max_node, Arg(max_node, m1, k1, a1, l1) \o Arg(max_node, m2, k2, a2, l2), e)
ThreeText(e, m1, k1, a1, l1, m2, k2, a2, l2, m3, k3, a3, l3) ==
  T = Regions(max_node, Arg(max_node, m1, k1, a1, l1) \o Arg(max_node, m2, k2, a2, l2)
                        \o Arg(max_node, m3, k3, a3, l3), e)
\* They are region texts.
LEMMA TwoArgs ==
  ASSUME NEW e, NEW m1, NEW k1, NEW a1, NEW l1, NEW m2, NEW k2, NEW a2, NEW l2,
         TwoText(e, m1, k1, a1, l1, m2, k2, a2, l2),
         ArgStep(Call(m1, k1, a1, l1)), ArgStep(Call(m2, k2, a2, l2))
  PROVE  RegionText(2, e) /\ T[4] = Call(m1, k1, a1, l1) /\ T[7] = Call(m2, k2, a2, l2)
<1>1. Len(T) = 38 /\ DOMAIN T = 1..38
  BY DEF TwoText, Regions, mbind_check, Arg, MapBuf, Need, Mask, Alloc, Mbind, Preset, Get, ModeIs, MaskIs, UnmapBuf
<1>2. /\ T[1].op = "map" /\ T[2].op = "need" /\ T[2].k = 2
      /\ T[3].op = "alloc" /\ T[3].name = "node_mask" /\ T[3].bits = max_node /\ T[38].op = "unmap"
  BY DEF TwoText, Regions, mbind_check, Arg, MapBuf, Need, Mask, Alloc, Mbind, Preset, Get, ModeIs, MaskIs, UnmapBuf
<1>3. T[4] = Call(m1, k1, a1, l1)
  BY DEF TwoText, Regions, mbind_check, Arg, MapBuf, Need, Mask, Alloc, Mbind, Preset, Get, ModeIs, MaskIs, UnmapBuf, Call
<1>4. T[5].op = "preset" /\ T[5].bits = {} /\ LookAt(T[6], a1)
  BY DEF TwoText, Regions, mbind_check, Arg, MapBuf, Need, Mask, Alloc, Mbind, Preset, Get, ModeIs, MaskIs, UnmapBuf, LookAt
<1>5. T[7] = Call(m2, k2, a2, l2)
  BY DEF TwoText, Regions, mbind_check, Arg, MapBuf, Need, Mask, Alloc, Mbind, Preset, Get, ModeIs, MaskIs, UnmapBuf, Call
<1>6. T[8].op = "preset" /\ T[8].bits = {} /\ LookAt(T[9], a2)
  BY DEF TwoText, Regions, mbind_check, Arg, MapBuf, Need, Mask, Alloc, Mbind, Preset, Get, ModeIs, MaskIs, UnmapBuf, LookAt
<1>7. /\ T[10].op = "preset" /\ T[10].bits = {} /\ LookAt(T[11], 0)
      /\ T[12].op = "mode" /\ T[12].mode = e[1].mode /\ T[13].op = "word0" /\ T[13].bits = e[1].mask
  <2>1. T[10].op = "preset" /\ T[10].bits = {} /\ LookAt(T[11], 0)
    BY SMTT(30) DEF TwoText, Regions, mbind_check, Arg, MapBuf, Need, Mask, Alloc, Mbind, Preset, Get, ModeIs, MaskIs, UnmapBuf, LookAt
  <2>2. T[12].op = "mode" /\ T[12].mode = e[1].mode /\ T[13].op = "word0" /\ T[13].bits = e[1].mask
    BY SMTT(30) DEF TwoText, Regions, mbind_check, Arg, MapBuf, Need, Mask, Alloc, Mbind, Preset, Get, ModeIs, MaskIs, UnmapBuf, LookAt
  <2>. QED  BY <2>1, <2>2
<1>8. /\ T[14].op = "preset" /\ T[14].bits = {} /\ LookAt(T[15], 1)
      /\ T[16].op = "mode" /\ T[16].mode = e[2].mode /\ T[17].op = "word0" /\ T[17].bits = e[2].mask
  <2>1. T[14].op = "preset" /\ T[14].bits = {} /\ LookAt(T[15], 1)
    BY SMTT(30) DEF TwoText, Regions, mbind_check, Arg, MapBuf, Need, Mask, Alloc, Mbind, Preset, Get, ModeIs, MaskIs, UnmapBuf, LookAt
  <2>2. T[16].op = "mode" /\ T[16].mode = e[2].mode /\ T[17].op = "word0" /\ T[17].bits = e[2].mask
    BY SMTT(30) DEF TwoText, Regions, mbind_check, Arg, MapBuf, Need, Mask, Alloc, Mbind, Preset, Get, ModeIs, MaskIs, UnmapBuf, LookAt
  <2>. QED  BY <2>1, <2>2
<1>9. /\ T[18].op = "preset" /\ T[18].bits = {} /\ LookAt(T[19], 2)
      /\ T[20].op = "mode" /\ T[20].mode = e[3].mode /\ T[21].op = "word0" /\ T[21].bits = e[3].mask
  <2>1. T[18].op = "preset" /\ T[18].bits = {} /\ LookAt(T[19], 2)
    BY SMTT(30) DEF TwoText, Regions, mbind_check, Arg, MapBuf, Need, Mask, Alloc, Mbind, Preset, Get, ModeIs, MaskIs, UnmapBuf, LookAt
  <2>2. T[20].op = "mode" /\ T[20].mode = e[3].mode /\ T[21].op = "word0" /\ T[21].bits = e[3].mask
    BY SMTT(30) DEF TwoText, Regions, mbind_check, Arg, MapBuf, Need, Mask, Alloc, Mbind, Preset, Get, ModeIs, MaskIs, UnmapBuf, LookAt
  <2>. QED  BY <2>1, <2>2
<1>10. /\ T[22].op = "preset" /\ T[22].bits = {} /\ LookAt(T[23], 3)
      /\ T[24].op = "mode" /\ T[24].mode = e[4].mode /\ T[25].op = "word0" /\ T[25].bits = e[4].mask
  <2>1. T[22].op = "preset" /\ T[22].bits = {} /\ LookAt(T[23], 3)
    BY SMTT(30) DEF TwoText, Regions, mbind_check, Arg, MapBuf, Need, Mask, Alloc, Mbind, Preset, Get, ModeIs, MaskIs, UnmapBuf, LookAt
  <2>2. T[24].op = "mode" /\ T[24].mode = e[4].mode /\ T[25].op = "word0" /\ T[25].bits = e[4].mask
    BY SMTT(30) DEF TwoText, Regions, mbind_check, Arg, MapBuf, Need, Mask, Alloc, Mbind, Preset, Get, ModeIs, MaskIs, UnmapBuf, LookAt
  <2>. QED  BY <2>1, <2>2
<1>11. /\ T[26].op = "preset" /\ T[26].bits = {} /\ LookAt(T[27], 4)
      /\ T[28].op = "mode" /\ T[28].mode = e[5].mode /\ T[29].op = "word0" /\ T[29].bits = e[5].mask
  <2>1. T[26].op = "preset" /\ T[26].bits = {} /\ LookAt(T[27], 4)
    BY SMTT(30) DEF TwoText, Regions, mbind_check, Arg, MapBuf, Need, Mask, Alloc, Mbind, Preset, Get, ModeIs, MaskIs, UnmapBuf, LookAt
  <2>2. T[28].op = "mode" /\ T[28].mode = e[5].mode /\ T[29].op = "word0" /\ T[29].bits = e[5].mask
    BY SMTT(30) DEF TwoText, Regions, mbind_check, Arg, MapBuf, Need, Mask, Alloc, Mbind, Preset, Get, ModeIs, MaskIs, UnmapBuf, LookAt
  <2>. QED  BY <2>1, <2>2
<1>12. /\ T[30].op = "preset" /\ T[30].bits = {} /\ LookAt(T[31], 5)
      /\ T[32].op = "mode" /\ T[32].mode = e[6].mode /\ T[33].op = "word0" /\ T[33].bits = e[6].mask
  <2>1. T[30].op = "preset" /\ T[30].bits = {} /\ LookAt(T[31], 5)
    BY SMTT(30) DEF TwoText, Regions, mbind_check, Arg, MapBuf, Need, Mask, Alloc, Mbind, Preset, Get, ModeIs, MaskIs, UnmapBuf, LookAt
  <2>2. T[32].op = "mode" /\ T[32].mode = e[6].mode /\ T[33].op = "word0" /\ T[33].bits = e[6].mask
    BY SMTT(30) DEF TwoText, Regions, mbind_check, Arg, MapBuf, Need, Mask, Alloc, Mbind, Preset, Get, ModeIs, MaskIs, UnmapBuf, LookAt
  <2>. QED  BY <2>1, <2>2
<1>13. /\ T[34].op = "preset" /\ T[34].bits = {} /\ LookAt(T[35], 6)
      /\ T[36].op = "mode" /\ T[36].mode = e[7].mode /\ T[37].op = "word0" /\ T[37].bits = e[7].mask
  <2>1. T[34].op = "preset" /\ T[34].bits = {} /\ LookAt(T[35], 6)
    BY SMTT(30) DEF TwoText, Regions, mbind_check, Arg, MapBuf, Need, Mask, Alloc, Mbind, Preset, Get, ModeIs, MaskIs, UnmapBuf, LookAt
  <2>2. T[36].op = "mode" /\ T[36].mode = e[7].mode /\ T[37].op = "word0" /\ T[37].bits = e[7].mask
    BY SMTT(30) DEF TwoText, Regions, mbind_check, Arg, MapBuf, Need, Mask, Alloc, Mbind, Preset, Get, ModeIs, MaskIs, UnmapBuf, LookAt
  <2>. QED  BY <2>1, <2>2
<1>14. \A a \in 1..2 : /\ ArgStep(T[3 * a + 1])
                     /\ T[3 * a + 2].op = "preset" /\ T[3 * a + 2].bits = {}
                     /\ LookAt(T[3 * a + 3], T[3 * a + 1].at)
  <2>1. ArgStep(T[4]) /\ T[4].at = a1
    BY <1>3 DEF Call
  <2>2. ArgStep(T[7]) /\ T[7].at = a2
    BY <1>5 DEF Call
  <2>. QED  BY ONLY <2>1, <2>2, <1>4, <1>6
<1>15. \A p \in 0..6 : /\ T[6 + 4 * p + 4].op = "preset" /\ T[6 + 4 * p + 4].bits = {}
                       /\ LookAt(T[6 + 4 * p + 5], p)
                       /\ T[6 + 4 * p + 6].op = "mode" /\ T[6 + 4 * p + 6].mode = e[p + 1].mode
                       /\ T[6 + 4 * p + 7].op = "word0" /\ T[6 + 4 * p + 7].bits = e[p + 1].mask
  BY ONLY <1>7, <1>8, <1>9, <1>10, <1>11, <1>12, <1>13
<1>. QED  BY ONLY <1>1, <1>2, <1>3, <1>5, <1>14, <1>15 DEF RegionText

\* The same for three calls
LEMMA ThreeArgs ==
  ASSUME NEW e, NEW m1, NEW k1, NEW a1, NEW l1, NEW m2, NEW k2, NEW a2, NEW l2, NEW m3, NEW k3, NEW a3, NEW l3,
         ThreeText(e, m1, k1, a1, l1, m2, k2, a2, l2, m3, k3, a3, l3),
         ArgStep(Call(m1, k1, a1, l1)), ArgStep(Call(m2, k2, a2, l2)), ArgStep(Call(m3, k3, a3, l3))
  PROVE  RegionText(3, e) /\ T[4] = Call(m1, k1, a1, l1) /\ T[7] = Call(m2, k2, a2, l2) /\ T[10] = Call(m3, k3, a3, l3)
<1>1. Len(T) = 41 /\ DOMAIN T = 1..41
  BY DEF ThreeText, Regions, mbind_check, Arg, MapBuf, Need, Mask, Alloc, Mbind, Preset, Get, ModeIs, MaskIs, UnmapBuf
<1>2. /\ T[1].op = "map" /\ T[2].op = "need" /\ T[2].k = 2
      /\ T[3].op = "alloc" /\ T[3].name = "node_mask" /\ T[3].bits = max_node /\ T[41].op = "unmap"
  BY DEF ThreeText, Regions, mbind_check, Arg, MapBuf, Need, Mask, Alloc, Mbind, Preset, Get, ModeIs, MaskIs, UnmapBuf
<1>3. T[4] = Call(m1, k1, a1, l1)
  BY DEF ThreeText, Regions, mbind_check, Arg, MapBuf, Need, Mask, Alloc, Mbind, Preset, Get, ModeIs, MaskIs, UnmapBuf, Call
<1>4. T[5].op = "preset" /\ T[5].bits = {} /\ LookAt(T[6], a1)
  BY DEF ThreeText, Regions, mbind_check, Arg, MapBuf, Need, Mask, Alloc, Mbind, Preset, Get, ModeIs, MaskIs, UnmapBuf, LookAt
<1>5. T[7] = Call(m2, k2, a2, l2)
  BY DEF ThreeText, Regions, mbind_check, Arg, MapBuf, Need, Mask, Alloc, Mbind, Preset, Get, ModeIs, MaskIs, UnmapBuf, Call
<1>6. T[8].op = "preset" /\ T[8].bits = {} /\ LookAt(T[9], a2)
  BY DEF ThreeText, Regions, mbind_check, Arg, MapBuf, Need, Mask, Alloc, Mbind, Preset, Get, ModeIs, MaskIs, UnmapBuf, LookAt
<1>7. T[10] = Call(m3, k3, a3, l3)
  BY DEF ThreeText, Regions, mbind_check, Arg, MapBuf, Need, Mask, Alloc, Mbind, Preset, Get, ModeIs, MaskIs, UnmapBuf, Call
<1>8. T[11].op = "preset" /\ T[11].bits = {} /\ LookAt(T[12], a3)
  BY DEF ThreeText, Regions, mbind_check, Arg, MapBuf, Need, Mask, Alloc, Mbind, Preset, Get, ModeIs, MaskIs, UnmapBuf, LookAt
<1>9. /\ T[13].op = "preset" /\ T[13].bits = {} /\ LookAt(T[14], 0)
      /\ T[15].op = "mode" /\ T[15].mode = e[1].mode /\ T[16].op = "word0" /\ T[16].bits = e[1].mask
  <2>1. T[13].op = "preset" /\ T[13].bits = {} /\ LookAt(T[14], 0)
    BY SMTT(30) DEF ThreeText, Regions, mbind_check, Arg, MapBuf, Need, Mask, Alloc, Mbind, Preset, Get, ModeIs, MaskIs, UnmapBuf, LookAt
  <2>2. T[15].op = "mode" /\ T[15].mode = e[1].mode /\ T[16].op = "word0" /\ T[16].bits = e[1].mask
    BY SMTT(30) DEF ThreeText, Regions, mbind_check, Arg, MapBuf, Need, Mask, Alloc, Mbind, Preset, Get, ModeIs, MaskIs, UnmapBuf, LookAt
  <2>. QED  BY <2>1, <2>2
<1>10. /\ T[17].op = "preset" /\ T[17].bits = {} /\ LookAt(T[18], 1)
      /\ T[19].op = "mode" /\ T[19].mode = e[2].mode /\ T[20].op = "word0" /\ T[20].bits = e[2].mask
  <2>1. T[17].op = "preset" /\ T[17].bits = {} /\ LookAt(T[18], 1)
    BY SMTT(30) DEF ThreeText, Regions, mbind_check, Arg, MapBuf, Need, Mask, Alloc, Mbind, Preset, Get, ModeIs, MaskIs, UnmapBuf, LookAt
  <2>2. T[19].op = "mode" /\ T[19].mode = e[2].mode /\ T[20].op = "word0" /\ T[20].bits = e[2].mask
    BY SMTT(30) DEF ThreeText, Regions, mbind_check, Arg, MapBuf, Need, Mask, Alloc, Mbind, Preset, Get, ModeIs, MaskIs, UnmapBuf, LookAt
  <2>. QED  BY <2>1, <2>2
<1>11. /\ T[21].op = "preset" /\ T[21].bits = {} /\ LookAt(T[22], 2)
      /\ T[23].op = "mode" /\ T[23].mode = e[3].mode /\ T[24].op = "word0" /\ T[24].bits = e[3].mask
  <2>1. T[21].op = "preset" /\ T[21].bits = {} /\ LookAt(T[22], 2)
    BY SMTT(30) DEF ThreeText, Regions, mbind_check, Arg, MapBuf, Need, Mask, Alloc, Mbind, Preset, Get, ModeIs, MaskIs, UnmapBuf, LookAt
  <2>2. T[23].op = "mode" /\ T[23].mode = e[3].mode /\ T[24].op = "word0" /\ T[24].bits = e[3].mask
    BY SMTT(30) DEF ThreeText, Regions, mbind_check, Arg, MapBuf, Need, Mask, Alloc, Mbind, Preset, Get, ModeIs, MaskIs, UnmapBuf, LookAt
  <2>. QED  BY <2>1, <2>2
<1>12. /\ T[25].op = "preset" /\ T[25].bits = {} /\ LookAt(T[26], 3)
      /\ T[27].op = "mode" /\ T[27].mode = e[4].mode /\ T[28].op = "word0" /\ T[28].bits = e[4].mask
  <2>1. T[25].op = "preset" /\ T[25].bits = {} /\ LookAt(T[26], 3)
    BY SMTT(30) DEF ThreeText, Regions, mbind_check, Arg, MapBuf, Need, Mask, Alloc, Mbind, Preset, Get, ModeIs, MaskIs, UnmapBuf, LookAt
  <2>2. T[27].op = "mode" /\ T[27].mode = e[4].mode /\ T[28].op = "word0" /\ T[28].bits = e[4].mask
    BY SMTT(30) DEF ThreeText, Regions, mbind_check, Arg, MapBuf, Need, Mask, Alloc, Mbind, Preset, Get, ModeIs, MaskIs, UnmapBuf, LookAt
  <2>. QED  BY <2>1, <2>2
<1>13. /\ T[29].op = "preset" /\ T[29].bits = {} /\ LookAt(T[30], 4)
      /\ T[31].op = "mode" /\ T[31].mode = e[5].mode /\ T[32].op = "word0" /\ T[32].bits = e[5].mask
  <2>1. T[29].op = "preset" /\ T[29].bits = {} /\ LookAt(T[30], 4)
    BY SMTT(30) DEF ThreeText, Regions, mbind_check, Arg, MapBuf, Need, Mask, Alloc, Mbind, Preset, Get, ModeIs, MaskIs, UnmapBuf, LookAt
  <2>2. T[31].op = "mode" /\ T[31].mode = e[5].mode /\ T[32].op = "word0" /\ T[32].bits = e[5].mask
    BY SMTT(30) DEF ThreeText, Regions, mbind_check, Arg, MapBuf, Need, Mask, Alloc, Mbind, Preset, Get, ModeIs, MaskIs, UnmapBuf, LookAt
  <2>. QED  BY <2>1, <2>2
<1>14. /\ T[33].op = "preset" /\ T[33].bits = {} /\ LookAt(T[34], 5)
      /\ T[35].op = "mode" /\ T[35].mode = e[6].mode /\ T[36].op = "word0" /\ T[36].bits = e[6].mask
  <2>1. T[33].op = "preset" /\ T[33].bits = {} /\ LookAt(T[34], 5)
    BY SMTT(30) DEF ThreeText, Regions, mbind_check, Arg, MapBuf, Need, Mask, Alloc, Mbind, Preset, Get, ModeIs, MaskIs, UnmapBuf, LookAt
  <2>2. T[35].op = "mode" /\ T[35].mode = e[6].mode /\ T[36].op = "word0" /\ T[36].bits = e[6].mask
    BY SMTT(30) DEF ThreeText, Regions, mbind_check, Arg, MapBuf, Need, Mask, Alloc, Mbind, Preset, Get, ModeIs, MaskIs, UnmapBuf, LookAt
  <2>. QED  BY <2>1, <2>2
<1>15. /\ T[37].op = "preset" /\ T[37].bits = {} /\ LookAt(T[38], 6)
      /\ T[39].op = "mode" /\ T[39].mode = e[7].mode /\ T[40].op = "word0" /\ T[40].bits = e[7].mask
  <2>1. T[37].op = "preset" /\ T[37].bits = {} /\ LookAt(T[38], 6)
    BY SMTT(30) DEF ThreeText, Regions, mbind_check, Arg, MapBuf, Need, Mask, Alloc, Mbind, Preset, Get, ModeIs, MaskIs, UnmapBuf, LookAt
  <2>2. T[39].op = "mode" /\ T[39].mode = e[7].mode /\ T[40].op = "word0" /\ T[40].bits = e[7].mask
    BY SMTT(30) DEF ThreeText, Regions, mbind_check, Arg, MapBuf, Need, Mask, Alloc, Mbind, Preset, Get, ModeIs, MaskIs, UnmapBuf, LookAt
  <2>. QED  BY <2>1, <2>2
<1>16. \A a \in 1..3 : /\ ArgStep(T[3 * a + 1])
                     /\ T[3 * a + 2].op = "preset" /\ T[3 * a + 2].bits = {}
                     /\ LookAt(T[3 * a + 3], T[3 * a + 1].at)
  <2>1. ArgStep(T[4]) /\ T[4].at = a1
    BY <1>3 DEF Call
  <2>2. ArgStep(T[7]) /\ T[7].at = a2
    BY <1>5 DEF Call
  <2>3. ArgStep(T[10]) /\ T[10].at = a3
    BY <1>7 DEF Call
  <2>. QED  BY ONLY <2>1, <2>2, <2>3, <1>4, <1>6, <1>8
<1>17. \A p \in 0..6 : /\ T[9 + 4 * p + 4].op = "preset" /\ T[9 + 4 * p + 4].bits = {}
                       /\ LookAt(T[9 + 4 * p + 5], p)
                       /\ T[9 + 4 * p + 6].op = "mode" /\ T[9 + 4 * p + 6].mode = e[p + 1].mode
                       /\ T[9 + 4 * p + 7].op = "word0" /\ T[9 + 4 * p + 7].bits = e[p + 1].mask
  BY ONLY <1>9, <1>10, <1>11, <1>12, <1>13, <1>14, <1>15
<1>. QED  BY ONLY <1>1, <1>2, <1>3, <1>5, <1>7, <1>16, <1>17 DEF RegionText

\* mbind 015
LEMMA Mbind015OK == ASSUME max_node \in Nat, test = "mbind015", T = Mbind015(max_node) PROVE TestOK
<1>. DEFINE e == <<B, D, I, I, I, D, D>>
<1>1. TwoText(e, "INTERLEAVE", {0, 1}, 2, 3, "BIND", {0}, 0, 1)
  BY DEF Mbind015, TwoText
<1>2. ArgStep(Call("INTERLEAVE", {0, 1}, 2, 3)) /\ ArgStep(Call("BIND", {0}, 0, 1))
  BY DEF ArgStep, Call
<1>3. e[1] = B /\ e[2] = D /\ e[3] = I /\ e[4] = I /\ e[5] = I /\ e[6] = D /\ e[7] = D
  OBVIOUS
<1>. HIDE DEF e
<1>4. RegionText(2, e) /\ T[4] = Call("INTERLEAVE", {0, 1}, 2, 3) /\ T[7] = Call("BIND", {0}, 0, 1)
  BY ONLY <1>1, <1>2, TwoArgs
<1>5. /\ T[4].at = 2 /\ T[4].len = 3 /\ I = [mode |-> T[4].mode, mask |-> T[4].mask]
      /\ T[7].at = 0 /\ T[7].len = 1 /\ B = [mode |-> T[7].mode, mask |-> T[7].mask]
  BY ONLY <1>4 DEF Call, B, I
<1>6. Expected(2, e)
  <2>1. In(0, T[7]) /\ e[1] = [mode |-> T[7].mode, mask |-> T[7].mask]
    BY ONLY <1>3, <1>5 DEF In
  <2>2. e[2] = D /\ ~In(1, T[4]) /\ ~In(1, T[7])
    BY ONLY <1>3, <1>5 DEF In
  <2>3. In(2, T[4]) /\ ~In(2, T[7]) /\ e[3] = [mode |-> T[4].mode, mask |-> T[4].mask]
    BY ONLY <1>3, <1>5 DEF In
  <2>4. In(3, T[4]) /\ ~In(3, T[7]) /\ e[4] = [mode |-> T[4].mode, mask |-> T[4].mask]
    BY ONLY <1>3, <1>5 DEF In
  <2>5. In(4, T[4]) /\ ~In(4, T[7]) /\ e[5] = [mode |-> T[4].mode, mask |-> T[4].mask]
    BY ONLY <1>3, <1>5 DEF In
  <2>6. e[6] = D /\ ~In(5, T[4]) /\ ~In(5, T[7])
    BY ONLY <1>3, <1>5 DEF In
  <2>7. e[7] = D /\ ~In(6, T[4]) /\ ~In(6, T[7])
    BY ONLY <1>3, <1>5 DEF In
  <2>8. /\ In(0, T[3 * 2 + 1]) /\ \A b \in (2 + 1)..2 : ~In(0, T[3 * b + 1])
        /\ e[0 + 1] = [mode |-> T[3 * 2 + 1].mode, mask |-> T[3 * 2 + 1].mask]
    BY ONLY <2>1
  <2>9. e[1 + 1] = D /\ \A a \in 1..2 : ~In(1, T[3 * a + 1])
    BY ONLY <2>2
  <2>10. /\ In(2, T[3 * 1 + 1]) /\ \A b \in (1 + 1)..2 : ~In(2, T[3 * b + 1])
        /\ e[2 + 1] = [mode |-> T[3 * 1 + 1].mode, mask |-> T[3 * 1 + 1].mask]
    BY ONLY <2>3
  <2>11. /\ In(3, T[3 * 1 + 1]) /\ \A b \in (1 + 1)..2 : ~In(3, T[3 * b + 1])
        /\ e[3 + 1] = [mode |-> T[3 * 1 + 1].mode, mask |-> T[3 * 1 + 1].mask]
    BY ONLY <2>4
  <2>12. /\ In(4, T[3 * 1 + 1]) /\ \A b \in (1 + 1)..2 : ~In(4, T[3 * b + 1])
        /\ e[4 + 1] = [mode |-> T[3 * 1 + 1].mode, mask |-> T[3 * 1 + 1].mask]
    BY ONLY <2>5
  <2>13. e[5 + 1] = D /\ \A a \in 1..2 : ~In(5, T[3 * a + 1])
    BY ONLY <2>6
  <2>14. e[6 + 1] = D /\ \A a \in 1..2 : ~In(6, T[3 * a + 1])
    BY ONLY <2>7
  <2>. QED  BY ONLY <2>8, <2>9, <2>10, <2>11, <2>12, <2>13, <2>14 DEF Expected
<1>. QED  BY ONLY <1>4, <1>6, max_node \in Nat, test = "mbind015", RegionsOK

\* mbind 016
LEMMA Mbind016OK == ASSUME max_node \in Nat, test = "mbind016", T = Mbind016(max_node) PROVE TestOK
<1>. DEFINE e == <<D, B, B, B, D, D, D>>
<1>1. TwoText(e, "INTERLEAVE", {0, 1}, 1, 3, "BIND", {0}, 1, 3)
  BY DEF Mbind016, TwoText, Interleave
<1>2. ArgStep(Call("INTERLEAVE", {0, 1}, 1, 3)) /\ ArgStep(Call("BIND", {0}, 1, 3))
  BY DEF ArgStep, Call
<1>3. e[1] = D /\ e[2] = B /\ e[3] = B /\ e[4] = B /\ e[5] = D /\ e[6] = D /\ e[7] = D
  OBVIOUS
<1>. HIDE DEF e
<1>4. RegionText(2, e) /\ T[4] = Call("INTERLEAVE", {0, 1}, 1, 3) /\ T[7] = Call("BIND", {0}, 1, 3)
  BY ONLY <1>1, <1>2, TwoArgs
<1>5. /\ T[4].at = 1 /\ T[4].len = 3 /\ I = [mode |-> T[4].mode, mask |-> T[4].mask]
      /\ T[7].at = 1 /\ T[7].len = 3 /\ B = [mode |-> T[7].mode, mask |-> T[7].mask]
  BY ONLY <1>4 DEF Call, B, I
<1>6. Expected(2, e)
  <2>1. e[1] = D /\ ~In(0, T[4]) /\ ~In(0, T[7])
    BY ONLY <1>3, <1>5 DEF In
  <2>2. In(1, T[7]) /\ e[2] = [mode |-> T[7].mode, mask |-> T[7].mask]
    BY ONLY <1>3, <1>5 DEF In
  <2>3. In(2, T[7]) /\ e[3] = [mode |-> T[7].mode, mask |-> T[7].mask]
    BY ONLY <1>3, <1>5 DEF In
  <2>4. In(3, T[7]) /\ e[4] = [mode |-> T[7].mode, mask |-> T[7].mask]
    BY ONLY <1>3, <1>5 DEF In
  <2>5. e[5] = D /\ ~In(4, T[4]) /\ ~In(4, T[7])
    BY ONLY <1>3, <1>5 DEF In
  <2>6. e[6] = D /\ ~In(5, T[4]) /\ ~In(5, T[7])
    BY ONLY <1>3, <1>5 DEF In
  <2>7. e[7] = D /\ ~In(6, T[4]) /\ ~In(6, T[7])
    BY ONLY <1>3, <1>5 DEF In
  <2>8. e[0 + 1] = D /\ \A a \in 1..2 : ~In(0, T[3 * a + 1])
    BY ONLY <2>1
  <2>9. /\ In(1, T[3 * 2 + 1]) /\ \A b \in (2 + 1)..2 : ~In(1, T[3 * b + 1])
        /\ e[1 + 1] = [mode |-> T[3 * 2 + 1].mode, mask |-> T[3 * 2 + 1].mask]
    BY ONLY <2>2
  <2>10. /\ In(2, T[3 * 2 + 1]) /\ \A b \in (2 + 1)..2 : ~In(2, T[3 * b + 1])
        /\ e[2 + 1] = [mode |-> T[3 * 2 + 1].mode, mask |-> T[3 * 2 + 1].mask]
    BY ONLY <2>3
  <2>11. /\ In(3, T[3 * 2 + 1]) /\ \A b \in (2 + 1)..2 : ~In(3, T[3 * b + 1])
        /\ e[3 + 1] = [mode |-> T[3 * 2 + 1].mode, mask |-> T[3 * 2 + 1].mask]
    BY ONLY <2>4
  <2>12. e[4 + 1] = D /\ \A a \in 1..2 : ~In(4, T[3 * a + 1])
    BY ONLY <2>5
  <2>13. e[5 + 1] = D /\ \A a \in 1..2 : ~In(5, T[3 * a + 1])
    BY ONLY <2>6
  <2>14. e[6 + 1] = D /\ \A a \in 1..2 : ~In(6, T[3 * a + 1])
    BY ONLY <2>7
  <2>. QED  BY ONLY <2>8, <2>9, <2>10, <2>11, <2>12, <2>13, <2>14 DEF Expected
<1>. QED  BY ONLY <1>4, <1>6, max_node \in Nat, test = "mbind016", RegionsOK

\* mbind 017
LEMMA Mbind017OK == ASSUME max_node \in Nat, test = "mbind017", T = Mbind017(max_node) PROVE TestOK
<1>. DEFINE e == <<B, B, B, B, B, D, D>>
<1>1. TwoText(e, "INTERLEAVE", {0, 1}, 1, 3, "BIND", {0}, 0, 5)
  BY DEF Mbind017, TwoText, Interleave
<1>2. ArgStep(Call("INTERLEAVE", {0, 1}, 1, 3)) /\ ArgStep(Call("BIND", {0}, 0, 5))
  BY DEF ArgStep, Call
<1>3. e[1] = B /\ e[2] = B /\ e[3] = B /\ e[4] = B /\ e[5] = B /\ e[6] = D /\ e[7] = D
  OBVIOUS
<1>. HIDE DEF e
<1>4. RegionText(2, e) /\ T[4] = Call("INTERLEAVE", {0, 1}, 1, 3) /\ T[7] = Call("BIND", {0}, 0, 5)
  BY ONLY <1>1, <1>2, TwoArgs
<1>5. /\ T[4].at = 1 /\ T[4].len = 3 /\ I = [mode |-> T[4].mode, mask |-> T[4].mask]
      /\ T[7].at = 0 /\ T[7].len = 5 /\ B = [mode |-> T[7].mode, mask |-> T[7].mask]
  BY ONLY <1>4 DEF Call, B, I
<1>6. Expected(2, e)
  <2>1. In(0, T[7]) /\ e[1] = [mode |-> T[7].mode, mask |-> T[7].mask]
    BY ONLY <1>3, <1>5 DEF In
  <2>2. In(1, T[7]) /\ e[2] = [mode |-> T[7].mode, mask |-> T[7].mask]
    BY ONLY <1>3, <1>5 DEF In
  <2>3. In(2, T[7]) /\ e[3] = [mode |-> T[7].mode, mask |-> T[7].mask]
    BY ONLY <1>3, <1>5 DEF In
  <2>4. In(3, T[7]) /\ e[4] = [mode |-> T[7].mode, mask |-> T[7].mask]
    BY ONLY <1>3, <1>5 DEF In
  <2>5. In(4, T[7]) /\ e[5] = [mode |-> T[7].mode, mask |-> T[7].mask]
    BY ONLY <1>3, <1>5 DEF In
  <2>6. e[6] = D /\ ~In(5, T[4]) /\ ~In(5, T[7])
    BY ONLY <1>3, <1>5 DEF In
  <2>7. e[7] = D /\ ~In(6, T[4]) /\ ~In(6, T[7])
    BY ONLY <1>3, <1>5 DEF In
  <2>8. /\ In(0, T[3 * 2 + 1]) /\ \A b \in (2 + 1)..2 : ~In(0, T[3 * b + 1])
        /\ e[0 + 1] = [mode |-> T[3 * 2 + 1].mode, mask |-> T[3 * 2 + 1].mask]
    BY ONLY <2>1
  <2>9. /\ In(1, T[3 * 2 + 1]) /\ \A b \in (2 + 1)..2 : ~In(1, T[3 * b + 1])
        /\ e[1 + 1] = [mode |-> T[3 * 2 + 1].mode, mask |-> T[3 * 2 + 1].mask]
    BY ONLY <2>2
  <2>10. /\ In(2, T[3 * 2 + 1]) /\ \A b \in (2 + 1)..2 : ~In(2, T[3 * b + 1])
        /\ e[2 + 1] = [mode |-> T[3 * 2 + 1].mode, mask |-> T[3 * 2 + 1].mask]
    BY ONLY <2>3
  <2>11. /\ In(3, T[3 * 2 + 1]) /\ \A b \in (2 + 1)..2 : ~In(3, T[3 * b + 1])
        /\ e[3 + 1] = [mode |-> T[3 * 2 + 1].mode, mask |-> T[3 * 2 + 1].mask]
    BY ONLY <2>4
  <2>12. /\ In(4, T[3 * 2 + 1]) /\ \A b \in (2 + 1)..2 : ~In(4, T[3 * b + 1])
        /\ e[4 + 1] = [mode |-> T[3 * 2 + 1].mode, mask |-> T[3 * 2 + 1].mask]
    BY ONLY <2>5
  <2>13. e[5 + 1] = D /\ \A a \in 1..2 : ~In(5, T[3 * a + 1])
    BY ONLY <2>6
  <2>14. e[6 + 1] = D /\ \A a \in 1..2 : ~In(6, T[3 * a + 1])
    BY ONLY <2>7
  <2>. QED  BY ONLY <2>8, <2>9, <2>10, <2>11, <2>12, <2>13, <2>14 DEF Expected
<1>. QED  BY ONLY <1>4, <1>6, max_node \in Nat, test = "mbind017", RegionsOK

\* mbind 018
LEMMA Mbind018OK == ASSUME max_node \in Nat, test = "mbind018", T = Mbind018(max_node) PROVE TestOK
<1>. DEFINE e == <<B, B, I, I, D, D, D>>
<1>1. TwoText(e, "INTERLEAVE", {0, 1}, 1, 3, "BIND", {0}, 0, 2)
  BY DEF Mbind018, TwoText, Interleave
<1>2. ArgStep(Call("INTERLEAVE", {0, 1}, 1, 3)) /\ ArgStep(Call("BIND", {0}, 0, 2))
  BY DEF ArgStep, Call
<1>3. e[1] = B /\ e[2] = B /\ e[3] = I /\ e[4] = I /\ e[5] = D /\ e[6] = D /\ e[7] = D
  OBVIOUS
<1>. HIDE DEF e
<1>4. RegionText(2, e) /\ T[4] = Call("INTERLEAVE", {0, 1}, 1, 3) /\ T[7] = Call("BIND", {0}, 0, 2)
  BY ONLY <1>1, <1>2, TwoArgs
<1>5. /\ T[4].at = 1 /\ T[4].len = 3 /\ I = [mode |-> T[4].mode, mask |-> T[4].mask]
      /\ T[7].at = 0 /\ T[7].len = 2 /\ B = [mode |-> T[7].mode, mask |-> T[7].mask]
  BY ONLY <1>4 DEF Call, B, I
<1>6. Expected(2, e)
  <2>1. In(0, T[7]) /\ e[1] = [mode |-> T[7].mode, mask |-> T[7].mask]
    BY ONLY <1>3, <1>5 DEF In
  <2>2. In(1, T[7]) /\ e[2] = [mode |-> T[7].mode, mask |-> T[7].mask]
    BY ONLY <1>3, <1>5 DEF In
  <2>3. In(2, T[4]) /\ ~In(2, T[7]) /\ e[3] = [mode |-> T[4].mode, mask |-> T[4].mask]
    BY ONLY <1>3, <1>5 DEF In
  <2>4. In(3, T[4]) /\ ~In(3, T[7]) /\ e[4] = [mode |-> T[4].mode, mask |-> T[4].mask]
    BY ONLY <1>3, <1>5 DEF In
  <2>5. e[5] = D /\ ~In(4, T[4]) /\ ~In(4, T[7])
    BY ONLY <1>3, <1>5 DEF In
  <2>6. e[6] = D /\ ~In(5, T[4]) /\ ~In(5, T[7])
    BY ONLY <1>3, <1>5 DEF In
  <2>7. e[7] = D /\ ~In(6, T[4]) /\ ~In(6, T[7])
    BY ONLY <1>3, <1>5 DEF In
  <2>8. /\ In(0, T[3 * 2 + 1]) /\ \A b \in (2 + 1)..2 : ~In(0, T[3 * b + 1])
        /\ e[0 + 1] = [mode |-> T[3 * 2 + 1].mode, mask |-> T[3 * 2 + 1].mask]
    BY ONLY <2>1
  <2>9. /\ In(1, T[3 * 2 + 1]) /\ \A b \in (2 + 1)..2 : ~In(1, T[3 * b + 1])
        /\ e[1 + 1] = [mode |-> T[3 * 2 + 1].mode, mask |-> T[3 * 2 + 1].mask]
    BY ONLY <2>2
  <2>10. /\ In(2, T[3 * 1 + 1]) /\ \A b \in (1 + 1)..2 : ~In(2, T[3 * b + 1])
        /\ e[2 + 1] = [mode |-> T[3 * 1 + 1].mode, mask |-> T[3 * 1 + 1].mask]
    BY ONLY <2>3
  <2>11. /\ In(3, T[3 * 1 + 1]) /\ \A b \in (1 + 1)..2 : ~In(3, T[3 * b + 1])
        /\ e[3 + 1] = [mode |-> T[3 * 1 + 1].mode, mask |-> T[3 * 1 + 1].mask]
    BY ONLY <2>4
  <2>12. e[4 + 1] = D /\ \A a \in 1..2 : ~In(4, T[3 * a + 1])
    BY ONLY <2>5
  <2>13. e[5 + 1] = D /\ \A a \in 1..2 : ~In(5, T[3 * a + 1])
    BY ONLY <2>6
  <2>14. e[6 + 1] = D /\ \A a \in 1..2 : ~In(6, T[3 * a + 1])
    BY ONLY <2>7
  <2>. QED  BY ONLY <2>8, <2>9, <2>10, <2>11, <2>12, <2>13, <2>14 DEF Expected
<1>. QED  BY ONLY <1>4, <1>6, max_node \in Nat, test = "mbind018", RegionsOK

\* mbind 019
LEMMA Mbind019OK == ASSUME max_node \in Nat, test = "mbind019", T = Mbind019(max_node) PROVE TestOK
<1>. DEFINE e == <<D, I, B, I, D, D, D>>
<1>1. TwoText(e, "INTERLEAVE", {0, 1}, 1, 3, "BIND", {0}, 2, 1)
  BY DEF Mbind019, TwoText, Interleave
<1>2. ArgStep(Call("INTERLEAVE", {0, 1}, 1, 3)) /\ ArgStep(Call("BIND", {0}, 2, 1))
  BY DEF ArgStep, Call
<1>3. e[1] = D /\ e[2] = I /\ e[3] = B /\ e[4] = I /\ e[5] = D /\ e[6] = D /\ e[7] = D
  OBVIOUS
<1>. HIDE DEF e
<1>4. RegionText(2, e) /\ T[4] = Call("INTERLEAVE", {0, 1}, 1, 3) /\ T[7] = Call("BIND", {0}, 2, 1)
  BY ONLY <1>1, <1>2, TwoArgs
<1>5. /\ T[4].at = 1 /\ T[4].len = 3 /\ I = [mode |-> T[4].mode, mask |-> T[4].mask]
      /\ T[7].at = 2 /\ T[7].len = 1 /\ B = [mode |-> T[7].mode, mask |-> T[7].mask]
  BY ONLY <1>4 DEF Call, B, I
<1>6. Expected(2, e)
  <2>1. e[1] = D /\ ~In(0, T[4]) /\ ~In(0, T[7])
    BY ONLY <1>3, <1>5 DEF In
  <2>2. In(1, T[4]) /\ ~In(1, T[7]) /\ e[2] = [mode |-> T[4].mode, mask |-> T[4].mask]
    BY ONLY <1>3, <1>5 DEF In
  <2>3. In(2, T[7]) /\ e[3] = [mode |-> T[7].mode, mask |-> T[7].mask]
    BY ONLY <1>3, <1>5 DEF In
  <2>4. In(3, T[4]) /\ ~In(3, T[7]) /\ e[4] = [mode |-> T[4].mode, mask |-> T[4].mask]
    BY ONLY <1>3, <1>5 DEF In
  <2>5. e[5] = D /\ ~In(4, T[4]) /\ ~In(4, T[7])
    BY ONLY <1>3, <1>5 DEF In
  <2>6. e[6] = D /\ ~In(5, T[4]) /\ ~In(5, T[7])
    BY ONLY <1>3, <1>5 DEF In
  <2>7. e[7] = D /\ ~In(6, T[4]) /\ ~In(6, T[7])
    BY ONLY <1>3, <1>5 DEF In
  <2>8. e[0 + 1] = D /\ \A a \in 1..2 : ~In(0, T[3 * a + 1])
    BY ONLY <2>1
  <2>9. /\ In(1, T[3 * 1 + 1]) /\ \A b \in (1 + 1)..2 : ~In(1, T[3 * b + 1])
        /\ e[1 + 1] = [mode |-> T[3 * 1 + 1].mode, mask |-> T[3 * 1 + 1].mask]
    BY ONLY <2>2
  <2>10. /\ In(2, T[3 * 2 + 1]) /\ \A b \in (2 + 1)..2 : ~In(2, T[3 * b + 1])
        /\ e[2 + 1] = [mode |-> T[3 * 2 + 1].mode, mask |-> T[3 * 2 + 1].mask]
    BY ONLY <2>3
  <2>11. /\ In(3, T[3 * 1 + 1]) /\ \A b \in (1 + 1)..2 : ~In(3, T[3 * b + 1])
        /\ e[3 + 1] = [mode |-> T[3 * 1 + 1].mode, mask |-> T[3 * 1 + 1].mask]
    BY ONLY <2>4
  <2>12. e[4 + 1] = D /\ \A a \in 1..2 : ~In(4, T[3 * a + 1])
    BY ONLY <2>5
  <2>13. e[5 + 1] = D /\ \A a \in 1..2 : ~In(5, T[3 * a + 1])
    BY ONLY <2>6
  <2>14. e[6 + 1] = D /\ \A a \in 1..2 : ~In(6, T[3 * a + 1])
    BY ONLY <2>7
  <2>. QED  BY ONLY <2>8, <2>9, <2>10, <2>11, <2>12, <2>13, <2>14 DEF Expected
<1>. QED  BY ONLY <1>4, <1>6, max_node \in Nat, test = "mbind019", RegionsOK

\* mbind 020
LEMMA Mbind020OK == ASSUME max_node \in Nat, test = "mbind020", T = Mbind020(max_node) PROVE TestOK
<1>. DEFINE e == <<D, I, I, B, B, D, D>>
<1>1. TwoText(e, "INTERLEAVE", {0, 1}, 1, 3, "BIND", {0}, 3, 2)
  BY DEF Mbind020, TwoText, Interleave
<1>2. ArgStep(Call("INTERLEAVE", {0, 1}, 1, 3)) /\ ArgStep(Call("BIND", {0}, 3, 2))
  BY DEF ArgStep, Call
<1>3. e[1] = D /\ e[2] = I /\ e[3] = I /\ e[4] = B /\ e[5] = B /\ e[6] = D /\ e[7] = D
  OBVIOUS
<1>. HIDE DEF e
<1>4. RegionText(2, e) /\ T[4] = Call("INTERLEAVE", {0, 1}, 1, 3) /\ T[7] = Call("BIND", {0}, 3, 2)
  BY ONLY <1>1, <1>2, TwoArgs
<1>5. /\ T[4].at = 1 /\ T[4].len = 3 /\ I = [mode |-> T[4].mode, mask |-> T[4].mask]
      /\ T[7].at = 3 /\ T[7].len = 2 /\ B = [mode |-> T[7].mode, mask |-> T[7].mask]
  BY ONLY <1>4 DEF Call, B, I
<1>6. Expected(2, e)
  <2>1. e[1] = D /\ ~In(0, T[4]) /\ ~In(0, T[7])
    BY ONLY <1>3, <1>5 DEF In
  <2>2. In(1, T[4]) /\ ~In(1, T[7]) /\ e[2] = [mode |-> T[4].mode, mask |-> T[4].mask]
    BY ONLY <1>3, <1>5 DEF In
  <2>3. In(2, T[4]) /\ ~In(2, T[7]) /\ e[3] = [mode |-> T[4].mode, mask |-> T[4].mask]
    BY ONLY <1>3, <1>5 DEF In
  <2>4. In(3, T[7]) /\ e[4] = [mode |-> T[7].mode, mask |-> T[7].mask]
    BY ONLY <1>3, <1>5 DEF In
  <2>5. In(4, T[7]) /\ e[5] = [mode |-> T[7].mode, mask |-> T[7].mask]
    BY ONLY <1>3, <1>5 DEF In
  <2>6. e[6] = D /\ ~In(5, T[4]) /\ ~In(5, T[7])
    BY ONLY <1>3, <1>5 DEF In
  <2>7. e[7] = D /\ ~In(6, T[4]) /\ ~In(6, T[7])
    BY ONLY <1>3, <1>5 DEF In
  <2>8. e[0 + 1] = D /\ \A a \in 1..2 : ~In(0, T[3 * a + 1])
    BY ONLY <2>1
  <2>9. /\ In(1, T[3 * 1 + 1]) /\ \A b \in (1 + 1)..2 : ~In(1, T[3 * b + 1])
        /\ e[1 + 1] = [mode |-> T[3 * 1 + 1].mode, mask |-> T[3 * 1 + 1].mask]
    BY ONLY <2>2
  <2>10. /\ In(2, T[3 * 1 + 1]) /\ \A b \in (1 + 1)..2 : ~In(2, T[3 * b + 1])
        /\ e[2 + 1] = [mode |-> T[3 * 1 + 1].mode, mask |-> T[3 * 1 + 1].mask]
    BY ONLY <2>3
  <2>11. /\ In(3, T[3 * 2 + 1]) /\ \A b \in (2 + 1)..2 : ~In(3, T[3 * b + 1])
        /\ e[3 + 1] = [mode |-> T[3 * 2 + 1].mode, mask |-> T[3 * 2 + 1].mask]
    BY ONLY <2>4
  <2>12. /\ In(4, T[3 * 2 + 1]) /\ \A b \in (2 + 1)..2 : ~In(4, T[3 * b + 1])
        /\ e[4 + 1] = [mode |-> T[3 * 2 + 1].mode, mask |-> T[3 * 2 + 1].mask]
    BY ONLY <2>5
  <2>13. e[5 + 1] = D /\ \A a \in 1..2 : ~In(5, T[3 * a + 1])
    BY ONLY <2>6
  <2>14. e[6 + 1] = D /\ \A a \in 1..2 : ~In(6, T[3 * a + 1])
    BY ONLY <2>7
  <2>. QED  BY ONLY <2>8, <2>9, <2>10, <2>11, <2>12, <2>13, <2>14 DEF Expected
<1>. QED  BY ONLY <1>4, <1>6, max_node \in Nat, test = "mbind020", RegionsOK

\* mbind 021
LEMMA Mbind021OK == ASSUME max_node \in Nat, test = "mbind021", T = Mbind021(max_node) PROVE TestOK
<1>. DEFINE e == <<D, I, I, B, B, P, D>>
<1>1. ThreeText(e, "INTERLEAVE", {0, 1}, 1, 3, "PREFERRED", {1}, 4, 2, "BIND", {0}, 3, 2)
  BY DEF Mbind021, ThreeText, Interleave
<1>2. ArgStep(Call("INTERLEAVE", {0, 1}, 1, 3)) /\ ArgStep(Call("PREFERRED", {1}, 4, 2)) /\ ArgStep(Call("BIND", {0}, 3, 2))
  BY DEF ArgStep, Call
<1>3. e[1] = D /\ e[2] = I /\ e[3] = I /\ e[4] = B /\ e[5] = B /\ e[6] = P /\ e[7] = D
  OBVIOUS
<1>. HIDE DEF e
<1>4. RegionText(3, e) /\ T[4] = Call("INTERLEAVE", {0, 1}, 1, 3) /\ T[7] = Call("PREFERRED", {1}, 4, 2) /\ T[10] = Call("BIND", {0}, 3, 2)
  BY ONLY <1>1, <1>2, ThreeArgs
<1>5. /\ T[4].at = 1 /\ T[4].len = 3 /\ I = [mode |-> T[4].mode, mask |-> T[4].mask]
      /\ T[7].at = 4 /\ T[7].len = 2 /\ P = [mode |-> T[7].mode, mask |-> T[7].mask]
      /\ T[10].at = 3 /\ T[10].len = 2 /\ B = [mode |-> T[10].mode, mask |-> T[10].mask]
  BY ONLY <1>4 DEF Call, B, I, P
<1>6. Expected(3, e)
  <2>1. e[1] = D /\ ~In(0, T[4]) /\ ~In(0, T[7]) /\ ~In(0, T[10])
    BY ONLY <1>3, <1>5 DEF In
  <2>2. In(1, T[4]) /\ ~In(1, T[7]) /\ ~In(1, T[10]) /\ e[2] = [mode |-> T[4].mode, mask |-> T[4].mask]
    BY ONLY <1>3, <1>5 DEF In
  <2>3. In(2, T[4]) /\ ~In(2, T[7]) /\ ~In(2, T[10]) /\ e[3] = [mode |-> T[4].mode, mask |-> T[4].mask]
    BY ONLY <1>3, <1>5 DEF In
  <2>4. In(3, T[10]) /\ e[4] = [mode |-> T[10].mode, mask |-> T[10].mask]
    BY ONLY <1>3, <1>5 DEF In
  <2>5. In(4, T[10]) /\ e[5] = [mode |-> T[10].mode, mask |-> T[10].mask]
    BY ONLY <1>3, <1>5 DEF In
  <2>6. In(5, T[7]) /\ ~In(5, T[10]) /\ e[6] = [mode |-> T[7].mode, mask |-> T[7].mask]
    BY ONLY <1>3, <1>5 DEF In
  <2>7. e[7] = D /\ ~In(6, T[4]) /\ ~In(6, T[7]) /\ ~In(6, T[10])
    BY ONLY <1>3, <1>5 DEF In
  <2>8. e[0 + 1] = D /\ \A a \in 1..3 : ~In(0, T[3 * a + 1])
    BY ONLY <2>1
  <2>9. /\ In(1, T[3 * 1 + 1]) /\ \A b \in (1 + 1)..3 : ~In(1, T[3 * b + 1])
        /\ e[1 + 1] = [mode |-> T[3 * 1 + 1].mode, mask |-> T[3 * 1 + 1].mask]
    BY ONLY <2>2
  <2>10. /\ In(2, T[3 * 1 + 1]) /\ \A b \in (1 + 1)..3 : ~In(2, T[3 * b + 1])
        /\ e[2 + 1] = [mode |-> T[3 * 1 + 1].mode, mask |-> T[3 * 1 + 1].mask]
    BY ONLY <2>3
  <2>11. /\ In(3, T[3 * 3 + 1]) /\ \A b \in (3 + 1)..3 : ~In(3, T[3 * b + 1])
        /\ e[3 + 1] = [mode |-> T[3 * 3 + 1].mode, mask |-> T[3 * 3 + 1].mask]
    BY ONLY <2>4
  <2>12. /\ In(4, T[3 * 3 + 1]) /\ \A b \in (3 + 1)..3 : ~In(4, T[3 * b + 1])
        /\ e[4 + 1] = [mode |-> T[3 * 3 + 1].mode, mask |-> T[3 * 3 + 1].mask]
    BY ONLY <2>5
  <2>13. /\ In(5, T[3 * 2 + 1]) /\ \A b \in (2 + 1)..3 : ~In(5, T[3 * b + 1])
        /\ e[5 + 1] = [mode |-> T[3 * 2 + 1].mode, mask |-> T[3 * 2 + 1].mask]
    BY ONLY <2>6
  <2>14. e[6 + 1] = D /\ \A a \in 1..3 : ~In(6, T[3 * a + 1])
    BY ONLY <2>7
  <2>. QED  BY ONLY <2>8, <2>9, <2>10, <2>11, <2>12, <2>13, <2>14 DEF Expected
<1>. QED  BY ONLY <1>4, <1>6, max_node \in Nat, test = "mbind021", RegionsOK

\* mbind 022
LEMMA Mbind022OK == ASSUME max_node \in Nat, test = "mbind022", T = Mbind022(max_node) PROVE TestOK
<1>. DEFINE e == <<D, I, I, B, B, B, D>>
<1>1. ThreeText(e, "INTERLEAVE", {0, 1}, 1, 3, "PREFERRED", {1}, 4, 1, "BIND", {0}, 3, 3)
  BY DEF Mbind022, ThreeText, Interleave
<1>2. ArgStep(Call("INTERLEAVE", {0, 1}, 1, 3)) /\ ArgStep(Call("PREFERRED", {1}, 4, 1)) /\ ArgStep(Call("BIND", {0}, 3, 3))
  BY DEF ArgStep, Call
<1>3. e[1] = D /\ e[2] = I /\ e[3] = I /\ e[4] = B /\ e[5] = B /\ e[6] = B /\ e[7] = D
  OBVIOUS
<1>. HIDE DEF e
<1>4. RegionText(3, e) /\ T[4] = Call("INTERLEAVE", {0, 1}, 1, 3) /\ T[7] = Call("PREFERRED", {1}, 4, 1) /\ T[10] = Call("BIND", {0}, 3, 3)
  BY ONLY <1>1, <1>2, ThreeArgs
<1>5. /\ T[4].at = 1 /\ T[4].len = 3 /\ I = [mode |-> T[4].mode, mask |-> T[4].mask]
      /\ T[7].at = 4 /\ T[7].len = 1 /\ P = [mode |-> T[7].mode, mask |-> T[7].mask]
      /\ T[10].at = 3 /\ T[10].len = 3 /\ B = [mode |-> T[10].mode, mask |-> T[10].mask]
  BY ONLY <1>4 DEF Call, B, I, P
<1>6. Expected(3, e)
  <2>1. e[1] = D /\ ~In(0, T[4]) /\ ~In(0, T[7]) /\ ~In(0, T[10])
    BY ONLY <1>3, <1>5 DEF In
  <2>2. In(1, T[4]) /\ ~In(1, T[7]) /\ ~In(1, T[10]) /\ e[2] = [mode |-> T[4].mode, mask |-> T[4].mask]
    BY ONLY <1>3, <1>5 DEF In
  <2>3. In(2, T[4]) /\ ~In(2, T[7]) /\ ~In(2, T[10]) /\ e[3] = [mode |-> T[4].mode, mask |-> T[4].mask]
    BY ONLY <1>3, <1>5 DEF In
  <2>4. In(3, T[10]) /\ e[4] = [mode |-> T[10].mode, mask |-> T[10].mask]
    BY ONLY <1>3, <1>5 DEF In
  <2>5. In(4, T[10]) /\ e[5] = [mode |-> T[10].mode, mask |-> T[10].mask]
    BY ONLY <1>3, <1>5 DEF In
  <2>6. In(5, T[10]) /\ e[6] = [mode |-> T[10].mode, mask |-> T[10].mask]
    BY ONLY <1>3, <1>5 DEF In
  <2>7. e[7] = D /\ ~In(6, T[4]) /\ ~In(6, T[7]) /\ ~In(6, T[10])
    BY ONLY <1>3, <1>5 DEF In
  <2>8. e[0 + 1] = D /\ \A a \in 1..3 : ~In(0, T[3 * a + 1])
    BY ONLY <2>1
  <2>9. /\ In(1, T[3 * 1 + 1]) /\ \A b \in (1 + 1)..3 : ~In(1, T[3 * b + 1])
        /\ e[1 + 1] = [mode |-> T[3 * 1 + 1].mode, mask |-> T[3 * 1 + 1].mask]
    BY ONLY <2>2
  <2>10. /\ In(2, T[3 * 1 + 1]) /\ \A b \in (1 + 1)..3 : ~In(2, T[3 * b + 1])
        /\ e[2 + 1] = [mode |-> T[3 * 1 + 1].mode, mask |-> T[3 * 1 + 1].mask]
    BY ONLY <2>3
  <2>11. /\ In(3, T[3 * 3 + 1]) /\ \A b \in (3 + 1)..3 : ~In(3, T[3 * b + 1])
        /\ e[3 + 1] = [mode |-> T[3 * 3 + 1].mode, mask |-> T[3 * 3 + 1].mask]
    BY ONLY <2>4
  <2>12. /\ In(4, T[3 * 3 + 1]) /\ \A b \in (3 + 1)..3 : ~In(4, T[3 * b + 1])
        /\ e[4 + 1] = [mode |-> T[3 * 3 + 1].mode, mask |-> T[3 * 3 + 1].mask]
    BY ONLY <2>5
  <2>13. /\ In(5, T[3 * 3 + 1]) /\ \A b \in (3 + 1)..3 : ~In(5, T[3 * b + 1])
        /\ e[5 + 1] = [mode |-> T[3 * 3 + 1].mode, mask |-> T[3 * 3 + 1].mask]
    BY ONLY <2>6
  <2>14. e[6 + 1] = D /\ \A a \in 1..3 : ~In(6, T[3 * a + 1])
    BY ONLY <2>7
  <2>. QED  BY ONLY <2>8, <2>9, <2>10, <2>11, <2>12, <2>13, <2>14 DEF Expected
<1>. QED  BY ONLY <1>4, <1>6, max_node \in Nat, test = "mbind022", RegionsOK

\* mbind 023
LEMMA Mbind023OK == ASSUME max_node \in Nat, test = "mbind023", T = Mbind023(max_node) PROVE TestOK
<1>. DEFINE e == <<D, I, I, B, B, B, P>>
<1>1. ThreeText(e, "INTERLEAVE", {0, 1}, 1, 3, "PREFERRED", {1}, 5, 2, "BIND", {0}, 3, 3)
  BY DEF Mbind023, ThreeText, Interleave
<1>2. ArgStep(Call("INTERLEAVE", {0, 1}, 1, 3)) /\ ArgStep(Call("PREFERRED", {1}, 5, 2)) /\ ArgStep(Call("BIND", {0}, 3, 3))
  BY DEF ArgStep, Call
<1>3. e[1] = D /\ e[2] = I /\ e[3] = I /\ e[4] = B /\ e[5] = B /\ e[6] = B /\ e[7] = P
  OBVIOUS
<1>. HIDE DEF e
<1>4. RegionText(3, e) /\ T[4] = Call("INTERLEAVE", {0, 1}, 1, 3) /\ T[7] = Call("PREFERRED", {1}, 5, 2) /\ T[10] = Call("BIND", {0}, 3, 3)
  BY ONLY <1>1, <1>2, ThreeArgs
<1>5. /\ T[4].at = 1 /\ T[4].len = 3 /\ I = [mode |-> T[4].mode, mask |-> T[4].mask]
      /\ T[7].at = 5 /\ T[7].len = 2 /\ P = [mode |-> T[7].mode, mask |-> T[7].mask]
      /\ T[10].at = 3 /\ T[10].len = 3 /\ B = [mode |-> T[10].mode, mask |-> T[10].mask]
  BY ONLY <1>4 DEF Call, B, I, P
<1>6. Expected(3, e)
  <2>1. e[1] = D /\ ~In(0, T[4]) /\ ~In(0, T[7]) /\ ~In(0, T[10])
    BY ONLY <1>3, <1>5 DEF In
  <2>2. In(1, T[4]) /\ ~In(1, T[7]) /\ ~In(1, T[10]) /\ e[2] = [mode |-> T[4].mode, mask |-> T[4].mask]
    BY ONLY <1>3, <1>5 DEF In
  <2>3. In(2, T[4]) /\ ~In(2, T[7]) /\ ~In(2, T[10]) /\ e[3] = [mode |-> T[4].mode, mask |-> T[4].mask]
    BY ONLY <1>3, <1>5 DEF In
  <2>4. In(3, T[10]) /\ e[4] = [mode |-> T[10].mode, mask |-> T[10].mask]
    BY ONLY <1>3, <1>5 DEF In
  <2>5. In(4, T[10]) /\ e[5] = [mode |-> T[10].mode, mask |-> T[10].mask]
    BY ONLY <1>3, <1>5 DEF In
  <2>6. In(5, T[10]) /\ e[6] = [mode |-> T[10].mode, mask |-> T[10].mask]
    BY ONLY <1>3, <1>5 DEF In
  <2>7. In(6, T[7]) /\ ~In(6, T[10]) /\ e[7] = [mode |-> T[7].mode, mask |-> T[7].mask]
    BY ONLY <1>3, <1>5 DEF In
  <2>8. e[0 + 1] = D /\ \A a \in 1..3 : ~In(0, T[3 * a + 1])
    BY ONLY <2>1
  <2>9. /\ In(1, T[3 * 1 + 1]) /\ \A b \in (1 + 1)..3 : ~In(1, T[3 * b + 1])
        /\ e[1 + 1] = [mode |-> T[3 * 1 + 1].mode, mask |-> T[3 * 1 + 1].mask]
    BY ONLY <2>2
  <2>10. /\ In(2, T[3 * 1 + 1]) /\ \A b \in (1 + 1)..3 : ~In(2, T[3 * b + 1])
        /\ e[2 + 1] = [mode |-> T[3 * 1 + 1].mode, mask |-> T[3 * 1 + 1].mask]
    BY ONLY <2>3
  <2>11. /\ In(3, T[3 * 3 + 1]) /\ \A b \in (3 + 1)..3 : ~In(3, T[3 * b + 1])
        /\ e[3 + 1] = [mode |-> T[3 * 3 + 1].mode, mask |-> T[3 * 3 + 1].mask]
    BY ONLY <2>4
  <2>12. /\ In(4, T[3 * 3 + 1]) /\ \A b \in (3 + 1)..3 : ~In(4, T[3 * b + 1])
        /\ e[4 + 1] = [mode |-> T[3 * 3 + 1].mode, mask |-> T[3 * 3 + 1].mask]
    BY ONLY <2>5
  <2>13. /\ In(5, T[3 * 3 + 1]) /\ \A b \in (3 + 1)..3 : ~In(5, T[3 * b + 1])
        /\ e[5 + 1] = [mode |-> T[3 * 3 + 1].mode, mask |-> T[3 * 3 + 1].mask]
    BY ONLY <2>6
  <2>14. /\ In(6, T[3 * 2 + 1]) /\ \A b \in (2 + 1)..3 : ~In(6, T[3 * b + 1])
        /\ e[6 + 1] = [mode |-> T[3 * 2 + 1].mode, mask |-> T[3 * 2 + 1].mask]
    BY ONLY <2>7
  <2>. QED  BY ONLY <2>8, <2>9, <2>10, <2>11, <2>12, <2>13, <2>14 DEF Expected
<1>. QED  BY ONLY <1>4, <1>6, max_node \in Nat, test = "mbind023", RegionsOK

\* mbind 000
LEMMA Mbind000OK ==
  ASSUME max_node \in Nat, test = "mbind000", T = Mbind000(max_node)
  PROVE  TestOK
<1>1. Len(T) = 12 /\ DOMAIN T = 1..12
  BY DEF Mbind000, Need, Alloc, Mbind, Get, ModeIs, MaskIs, Preset, MaskIsZero, Mask, Shows
<1>2. T[1].op = "need" /\ T[1].k = 2
  BY DEF Mbind000, Need, Alloc, Mbind, Get, ModeIs, MaskIs, Preset, MaskIsZero, Mask, Shows
<1>3. T[2].op = "alloc" /\ T[2].name = "node_mask" /\ T[2].bits = max_node /\ max_node \in Nat
  BY DEF Mbind000, Need, Alloc, Mbind, Get, ModeIs, MaskIs, Preset, MaskIsZero, Mask, Shows
<1>4. T[3].op = "mbind" /\ T[3].at = 0 /\ T[3].len = 1 /\ T[3].mode = {"BIND"} /\ T[3].mask = {0, 1} /\ T[3].maxnode = BITS_PER_LONG /\ T[3].flags = {} /\ T[3].want = "ok"
  BY DEF Mbind000, Need, Alloc, Mbind, Get, ModeIs, MaskIs, Preset, MaskIsZero, Mask, Shows
<1>5. T[4].op = "get" /\ T[4].at = 0 /\ T[4].maxnode = max_node /\ T[4].m = TRUE /\ T[4].nm = TRUE /\ T[4].flags = {"ADDR"} /\ T[4].want = "ok" /\ max_node \in Nat
  BY DEF Mbind000, Need, Alloc, Mbind, Get, ModeIs, MaskIs, Preset, MaskIsZero, Mask, Shows
<1>6. T[5].op = "mode" /\ T[5].mode = {"BIND"}
  BY DEF Mbind000, Need, Alloc, Mbind, Get, ModeIs, MaskIs, Preset, MaskIsZero, Mask, Shows
<1>7. T[6].op = "word0" /\ T[6].bits = {0, 1}
  BY DEF Mbind000, Need, Alloc, Mbind, Get, ModeIs, MaskIs, Preset, MaskIsZero, Mask, Shows
<1>8. T[7].op = "preset" /\ T[7].bits = {}
  BY DEF Mbind000, Need, Alloc, Mbind, Get, ModeIs, MaskIs, Preset, MaskIsZero, Mask, Shows
<1>9. T[8].op = "mbind" /\ T[8].at = 0 /\ T[8].len = 1 /\ T[8].mode = {"DEFAULT"} /\ T[8].mask = NULL /\ T[8].maxnode = 0 /\ T[8].flags = {} /\ T[8].want = "ok"
  BY DEF Mbind000, Need, Alloc, Mbind, Get, ModeIs, MaskIs, Preset, MaskIsZero, Mask, Shows
<1>10. T[9].op = "preset" /\ T[9].bits = {0}
  BY DEF Mbind000, Need, Alloc, Mbind, Get, ModeIs, MaskIs, Preset, MaskIsZero, Mask, Shows
<1>11. T[10].op = "get" /\ T[10].at = 0 /\ T[10].maxnode = max_node /\ T[10].m = TRUE /\ T[10].nm = TRUE /\ T[10].flags = {"ADDR"} /\ T[10].want = "ok" /\ max_node \in Nat
  BY DEF Mbind000, Need, Alloc, Mbind, Get, ModeIs, MaskIs, Preset, MaskIsZero, Mask, Shows
<1>12. T[11].op = "mode" /\ T[11].mode = {"DEFAULT"}
  BY DEF Mbind000, Need, Alloc, Mbind, Get, ModeIs, MaskIs, Preset, MaskIsZero, Mask, Shows
<1>13. T[12].op = "zero"
  BY DEF Mbind000, Need, Alloc, Mbind, Get, ModeIs, MaskIs, Preset, MaskIsZero, Mask, Shows
<1>14. T[1].op = "need" /\ T[2].op = "alloc" /\ T[3].op = "mbind" /\ T[4].op = "get" /\ T[5].op = "mode" /\ T[6].op = "word0" /\ T[7].op = "preset" /\ T[8].op = "mbind" /\ T[9].op = "preset" /\ T[10].op = "get" /\ T[11].op = "mode" /\ T[12].op = "zero"
  BY ONLY <1>2, <1>3, <1>4, <1>5, <1>6, <1>7, <1>8, <1>9, <1>10, <1>11, <1>12, <1>13
<1>15. \A k \in 1..12 : StepOK(T[k])
  <2>1. StepOK(T[1])
    BY ONLY <1>2, NeedStep
  <2>2. StepOK(T[2])
    BY ONLY <1>3, AllocStep, Widths
  <2>3. PolicyStep(T[3])
    BY ONLY <1>4, Widths DEF PolicyStep, Modes
  <2>4. StepOK(T[3])
    BY ONLY <1>4, <2>3, MbindStep DEF Wants
  <2>5. StepOK(T[4])
    BY ONLY <1>5, GetStep DEF NOADDR, WILDADDR, Wants
  <2>6. StepOK(T[5])
    BY ONLY <1>6, PlainStep DEF Ops, Checks, Setters
  <2>7. StepOK(T[6])
    BY ONLY <1>7, PlainStep DEF Ops, Checks, Setters
  <2>8. StepOK(T[7])
    BY ONLY <1>8, PresetStep
  <2>9. PolicyStep(T[8])
    BY ONLY <1>9, Widths DEF PolicyStep, Modes
  <2>10. StepOK(T[8])
    BY ONLY <1>9, <2>9, MbindStep DEF Wants
  <2>11. StepOK(T[9])
    BY ONLY <1>10, PresetStep
  <2>12. StepOK(T[10])
    BY ONLY <1>11, GetStep DEF NOADDR, WILDADDR, Wants
  <2>13. StepOK(T[11])
    BY ONLY <1>12, PlainStep DEF Ops, Checks, Setters
  <2>14. StepOK(T[12])
    BY ONLY <1>13, PlainStep DEF Ops, Checks, Setters
  <2>. QED  BY ONLY <2>1, <2>2, <2>4, <2>5, <2>6, <2>7, <2>8, <2>10, <2>11, <2>12, <2>13, <2>14
<1>16. OrderOK
  BY ONLY <1>1, <1>14 DEF OrderOK
<1>17. Suitable => max_node >= 2
  BY ONLY <1>1, <1>2 DEF Suitable
<1>18. \A l \in 1..12 : T[l].op \in Setters <=> l \in {3, 8}
  BY ONLY <1>14 DEF Setters
<1>19. MasksOK
  <2>1. \A k, l \in 1..12 : T[k].op = "alloc" /\ T[l].op = "alloc" /\ T[k].name = T[l].name => k = l
    BY ONLY <1>14, <1>3
  <2>2. ASSUME NEW k \in 1..12, UsesMask(T[k]) PROVE \E a \in 1..(k - 1) : MaskAt(k, a)
    <3>1. k \in {4, 6, 7, 9, 10, 12}
      BY ONLY <2>2, <1>14 DEF UsesMask
    <3>2. MaskAt(4, 2)
      BY ONLY <1>5, <1>3, <1>17 DEF MaskAt
    <3>3. MaskAt(6, 2)
      BY ONLY <1>7, <1>3, <1>17 DEF MaskAt
    <3>4. MaskAt(7, 2)
      BY ONLY <1>8, <1>3, <1>17 DEF MaskAt
    <3>5. MaskAt(9, 2)
      BY ONLY <1>10, <1>3, <1>17 DEF MaskAt
    <3>6. MaskAt(10, 2)
      BY ONLY <1>11, <1>3, <1>17 DEF MaskAt
    <3>7. MaskAt(12, 2)
      BY ONLY <1>13, <1>3, <1>17 DEF MaskAt
    <3>. QED  BY ONLY <3>1, <3>2, <3>3, <3>4, <3>5, <3>6, <3>7
  <2>3. \A k \in 1..12 : T[k].op \in Setters /\ T[k].mask # NULL => ArgFits(k)
    <3>1. ArgFits(3)
      BY ONLY <1>4, Widths DEF ArgFits
    <3>. QED  BY ONLY <1>18, <3>1, <1>9
  <2>. QED  BY ONLY <1>1, <2>1, <2>2, <2>3 DEF MasksOK
<1>20. SmallMasks
  <2>1. T[3].mask = NULL \/ T[3].mask \subseteq 0..3
    BY ONLY <1>4
  <2>2. T[8].mask = NULL \/ T[8].mask \subseteq 0..3
    BY ONLY <1>9
  <2>. QED  BY ONLY <1>1, <1>18, <2>1, <2>2 DEF SmallMasks
<1>21. ASSUME Suitable, NEW k \in 1..12 PROVE CallOK(k)
  <2>1. Effective(T[3], "none") = {0, 1}
    BY ONLY <1>17, <1>21, <1>4, max_node \in Nat, MaskCuts DEF Effective, NULL
  <2>2. PolicyError(T[3], "none") = "0"
    BY ONLY <2>1, <1>17, <1>21, <1>4, Widths, GoodPolicy
  <2>3. CallOK(3)
    BY ONLY <1>4, <2>2, MbindCall
  <2>4. CallOK(4)
    BY ONLY <1>17, <1>21, <1>5, max_node \in Nat, NodesLaw, GetCall DEF NOADDR, WILDADDR
  <2>5. Effective(T[8], "none") = {}
    BY ONLY <1>9 DEF Effective
  <2>6. PolicyError(T[8], "none") = "0"
    BY ONLY <2>5, <1>17, <1>21, <1>9, Widths, GoodPolicy
  <2>7. CallOK(8)
    BY ONLY <1>9, <2>6, MbindCall
  <2>8. CallOK(10)
    BY ONLY <1>17, <1>21, <1>11, max_node \in Nat, NodesLaw, GetCall DEF NOADDR, WILDADDR
  <2>9. k \notin {3, 4, 8, 10} => CallOK(k)
    BY ONLY <1>21, <1>14, NoCall DEF Setters
  <2>. QED  BY ONLY <2>9, <2>3, <2>4, <2>7, <2>8
<1>22. ASSUME Suitable, NEW k \in 1..12 PROVE CheckOK(k)
  <2>1. Effective(T[3], "none") = {0, 1}
    BY ONLY <1>17, <1>22, <1>4, max_node \in Nat, MaskCuts DEF Effective, NULL
  <2>2. Policy(T[3]) = [mode |-> {"BIND"}, mask |-> {0, 1}]
    BY ONLY <1>4, <2>1 DEF Policy
  <2>3. Effective(T[8], "none") = {}
    BY ONLY <1>9 DEF Effective
  <2>4. Policy(T[8]) = [mode |-> {"DEFAULT"}, mask |-> {}]
    BY ONLY <1>9, <2>3 DEF Policy
  <2>5. LastCover(5, T[4].at, 3)
    BY ONLY <1>5, <1>18, <1>4 DEF LastCover, Covers, Setters, PROC, NOADDR
  <2>6. Finds(T[5], Policy(T[3]))
    BY ONLY <1>6, <2>2 DEF Finds
  <2>7. CheckOK(5)
    BY ONLY <1>6, <1>5, <2>5, <2>6, CheckAfter
  <2>8. LastCover(6, T[4].at, 3)
    BY ONLY <1>5, <1>18, <1>4 DEF LastCover, Covers, Setters, PROC, NOADDR
  <2>9. Finds(T[6], Policy(T[3]))
    BY ONLY <1>7, <2>2 DEF Finds
  <2>10. CheckOK(6)
    BY ONLY <1>7, <1>5, <2>8, <2>9, <1>6, CheckAfter
  <2>11. LastCover(11, T[10].at, 8)
    BY ONLY <1>11, <1>18, <1>9 DEF LastCover, Covers, Setters, PROC, NOADDR
  <2>12. Finds(T[11], Policy(T[8]))
    BY ONLY <1>12, <2>4 DEF Finds
  <2>13. CheckOK(11)
    BY ONLY <1>12, <1>11, <2>11, <2>12, CheckAfter
  <2>14. LastCover(12, T[10].at, 8)
    BY ONLY <1>11, <1>18, <1>9 DEF LastCover, Covers, Setters, PROC, NOADDR
  <2>15. Finds(T[12], Policy(T[8]))
    BY ONLY <1>13, <2>4 DEF Finds
  <2>16. CheckOK(12)
    BY ONLY <1>13, <1>11, <2>14, <2>15, <1>12, CheckAfter
  <2>17. k \notin {5, 6, 11, 12} => CheckOK(k)
    BY ONLY <1>22, <1>14, NoCheck
  <2>. QED  BY ONLY <2>17, <2>7, <2>10, <2>13, <2>16
<1>23. \A k \in 1..12 : Confirmed(k)
  <2>1. GetOf(11) = 10 /\ GetOf(12) = 10
    BY ONLY <1>14 DEF GetOf
  <2>2. \A k \in 1..Len(T) : Looks(T[k]) => T[k].at = T[10].at
    BY ONLY <1>1, <1>14, <1>5, <1>11 DEF Looks
  <2>3. Looks(T[10])
    BY ONLY <1>11 DEF Looks
  <2>4. \A l \in 1..Len(T) : T[l].op \in Setters => l < 11 /\ l < 12
    BY ONLY <1>1, <1>18
  <2>5. 11 \in 1..Len(T) /\ 12 \in 1..Len(T) /\ T[11].op = "mode" /\ T[12].op \in {"word0", "zero", "full"}
    BY ONLY <1>1, <1>14
  <2>. QED  BY ONLY <1>1, <2>1, <2>2, <2>3, <2>4, <2>5, ConfirmedBy
<1>24. ScopeOK
  BY ONLY <1>1, <1>14, test = "mbind000" DEF ScopeOK, LoopOps
<1>. QED  BY ONLY <1>1, <1>15, <1>16, <1>19, <1>20, <1>24, <1>21, <1>22, <1>23 DEF TestOK

\* mbind 001
LEMMA Mbind001OK == ASSUME max_node \in Nat, test = "mbind001", T = Mbind001(max_node) PROVE TestOK
<1>1. Len(T) = 1 /\ DOMAIN T = 1..1
  BY DEF Mbind001, Mbind
<1>2. T[1].op = "mbind" /\ T[1].at = 0 /\ T[1].len = 1 /\ T[1].mode = {"DEFAULT"} /\ T[1].mask = NULL /\ T[1].maxnode = 0 /\ T[1].flags = {"UNALIGNED"} /\ T[1].want = "EINVAL"
  BY DEF Mbind001, Mbind
<1>3. PolicyStep(T[1])
  BY ONLY <1>2, Widths DEF PolicyStep, Modes
<1>4. StepOK(T[1])
  BY ONLY <1>2, <1>3, MbindStep DEF Wants
<1>5. Suitable => CallOK(1)
  <2>. SUFFICES ASSUME Suitable PROVE CallOK(1)  OBVIOUS
  <2>1. Effective(T[1], "none") = {}
    BY ONLY <1>2 DEF Effective
  <2>2. PolicyError(T[1], "none") = "0"
    BY ONLY <2>1, <1>2, Widths, GoodPolicy
  <2>. QED  BY ONLY <1>2, <2>2, MbindCall
<1>. QED  BY ONLY <1>1, <1>2, <1>4, <1>5, max_node \in Nat, test = "mbind001", Widths, OneCall DEF Setters

\* mbind 002
LEMMA Mbind002OK == ASSUME max_node \in Nat, test = "mbind002", T = Mbind002(max_node) PROVE TestOK
<1>1. Len(T) = 1 /\ DOMAIN T = 1..1
  BY DEF Mbind002, Mbind
<1>2. T[1].op = "mbind" /\ T[1].at = 0 /\ T[1].len = 0 /\ T[1].mode = {"DEFAULT"} /\ T[1].mask = NULL /\ T[1].maxnode = 0 /\ T[1].flags = {} /\ T[1].want = "ok"
  BY DEF Mbind002, Mbind
<1>3. PolicyStep(T[1])
  BY ONLY <1>2, Widths DEF PolicyStep, Modes
<1>4. StepOK(T[1])
  BY ONLY <1>2, <1>3, MbindStep DEF Wants
<1>5. Suitable => CallOK(1)
  <2>. SUFFICES ASSUME Suitable PROVE CallOK(1)  OBVIOUS
  <2>1. Effective(T[1], "none") = {}
    BY ONLY <1>2 DEF Effective
  <2>2. PolicyError(T[1], "none") = "0"
    BY ONLY <2>1, <1>2, Widths, GoodPolicy
  <2>. QED  BY ONLY <1>2, <2>2, MbindCall
<1>. QED  BY ONLY <1>1, <1>2, <1>4, <1>5, max_node \in Nat, test = "mbind002", Widths, OneCall DEF Setters

\* mbind 003
LEMMA Mbind003OK == ASSUME max_node \in Nat, test = "mbind003", T = Mbind003(max_node) PROVE TestOK
<1>1. Len(T) = 1 /\ DOMAIN T = 1..1
  BY DEF Mbind003, Mbind
<1>2. T[1].op = "mbind" /\ T[1].at = 0 /\ T[1].len = -1 /\ T[1].mode = {"DEFAULT"} /\ T[1].mask = NULL /\ T[1].maxnode = 0 /\ T[1].flags = {} /\ T[1].want = "EINVAL"
  BY DEF Mbind003, Mbind
<1>3. PolicyStep(T[1])
  BY ONLY <1>2, Widths DEF PolicyStep, Modes
<1>4. StepOK(T[1])
  BY ONLY <1>2, <1>3, MbindStep DEF Wants
<1>5. Suitable => CallOK(1)
  <2>. SUFFICES ASSUME Suitable PROVE CallOK(1)  OBVIOUS
  <2>1. Effective(T[1], "none") = {}
    BY ONLY <1>2 DEF Effective
  <2>2. PolicyError(T[1], "none") = "0"
    BY ONLY <2>1, <1>2, Widths, GoodPolicy
  <2>. QED  BY ONLY <1>2, <2>2, MbindCall
<1>. QED  BY ONLY <1>1, <1>2, <1>4, <1>5, max_node \in Nat, test = "mbind003", Widths, OneCall DEF Setters

\* mbind 004
LEMMA Mbind004OK == ASSUME max_node \in Nat, test = "mbind004", T = Mbind004(max_node) PROVE TestOK
<1>1. Len(T) = 2 /\ DOMAIN T = 1..2
  BY DEF Mbind004, Need, Mbind
<1>2. T[1].op = "need" /\ T[1].k = 2
  BY DEF Mbind004, Need, Mbind
<1>3. T[2].op = "mbind" /\ T[2].at = 0 /\ T[2].len = 1 /\ T[2].mode = {"DEFAULT"} /\ T[2].mask = {0, 1} /\ T[2].maxnode = 0 /\ T[2].flags = {} /\ T[2].want = "EINVAL"
  BY DEF Mbind004, Need, Mbind
<1>4. Suitable => max_node >= 2
  BY ONLY <1>1, <1>2 DEF Suitable
<1>5. PolicyStep(T[2])
  BY ONLY <1>3, Widths DEF PolicyStep, Modes
<1>6. StepOK(T[2])
  BY ONLY <1>3, <1>5, MbindStep DEF Wants
<1>7. ArgFits(2) /\ T[2].mask \subseteq 0..3
  BY ONLY <1>3, Widths DEF ArgFits
<1>8. Suitable => CallOK(2)
  <2>. SUFFICES ASSUME Suitable PROVE CallOK(2)  OBVIOUS
  <2>1. PolicyError(T[2], "none") = "EINVAL"
    BY ONLY <1>3, Widths, BadPolicies DEF NULL
  <2>. QED  BY ONLY <1>3, <2>1, MbindCall
<1>. QED  BY ONLY <1>1, <1>2, <1>3, <1>6, <1>7, <1>8, max_node \in Nat, test = "mbind004", Widths, OneCall DEF Setters

\* mbind 005
LEMMA Mbind005OK == ASSUME max_node \in Nat, test = "mbind005", T = Mbind005(max_node) PROVE TestOK
<1>1. Len(T) = 6 /\ DOMAIN T = 1..6
  BY DEF Mbind005, Need, Alloc, Mbind, Get, ModeIs, MaskIs, Mask, Shows
<1>2. T[1].op = "need" /\ T[1].k = 2
  BY DEF Mbind005, Need, Alloc, Mbind, Get, ModeIs, MaskIs, Mask, Shows
<1>3. T[2].op = "alloc" /\ T[2].name = "node_mask" /\ T[2].bits = max_node /\ max_node \in Nat
  BY DEF Mbind005, Need, Alloc, Mbind, Get, ModeIs, MaskIs, Mask, Shows
<1>4. T[3].op = "mbind" /\ T[3].at = 0 /\ T[3].len = 1 /\ T[3].mode = {"BIND"} /\ T[3].mask = {0, 1} /\ T[3].maxnode = BITS_PER_LONG /\ T[3].flags = {} /\ T[3].want = "ok"
  BY DEF Mbind005, Need, Alloc, Mbind, Get, ModeIs, MaskIs, Mask, Shows
<1>5. T[4].op = "get" /\ T[4].at = 0 /\ T[4].maxnode = max_node /\ T[4].m = TRUE /\ T[4].nm = TRUE /\ T[4].flags = {"ADDR"} /\ T[4].want = "ok" /\ max_node \in Nat
  BY DEF Mbind005, Need, Alloc, Mbind, Get, ModeIs, MaskIs, Mask, Shows
<1>6. T[5].op = "mode" /\ T[5].mode = {"BIND"}
  BY DEF Mbind005, Need, Alloc, Mbind, Get, ModeIs, MaskIs, Mask, Shows
<1>7. T[6].op = "word0" /\ T[6].bits = {0, 1}
  BY DEF Mbind005, Need, Alloc, Mbind, Get, ModeIs, MaskIs, Mask, Shows
<1>8. Suitable => max_node >= 2
  BY ONLY <1>1, <1>2 DEF Suitable
<1>9. PolicyStep(T[3])
  BY ONLY <1>4, Widths DEF PolicyStep, Modes
<1>10. StepOK(T[3])
  BY ONLY <1>4, <1>9, MbindStep DEF Wants
<1>11. Suitable => CallOK(3) /\ Finds(T[5], Policy(T[3])) /\ Finds(T[6], Policy(T[3]))
  <2>. SUFFICES ASSUME Suitable PROVE CallOK(3) /\ Finds(T[5], Policy(T[3])) /\ Finds(T[6], Policy(T[3]))  OBVIOUS
  <2>1. Effective(T[3], "none") = {0, 1}
    BY ONLY Suitable, <1>8, <1>4, max_node \in Nat, MaskCuts DEF Effective, NULL
  <2>2. PolicyError(T[3], "none") = "0"
    BY ONLY <2>1, <1>4, Widths, GoodPolicy
  <2>3. CallOK(3)
    BY ONLY <1>4, <2>2, MbindCall
  <2>4. Policy(T[3]) = [mode |-> {"BIND"}, mask |-> {0, 1}]
    BY ONLY <1>4, <2>1 DEF Policy
  <2>. QED  BY ONLY <2>3, <2>4, <1>6, <1>7 DEF Finds
<1>12. T[1].k \in Nat \ {0} /\ T[3].op \in Setters /\ T[6].op \in {"word0", "zero"}
  BY ONLY <1>2, <1>4, <1>7 DEF Setters
<1>13. T[3].mask \subseteq 0..3 /\ T[3].maxnode - 1 <= BITS_PER_LONG
  BY ONLY <1>4, Widths
<1>. QED  BY ONLY <1>1, <1>2, <1>3, <1>4, <1>5, <1>6, <1>7, <1>10, <1>11, <1>12, <1>13, max_node \in Nat, test = "mbind005", SetAndShown

\* mbind 006
LEMMA Mbind006OK == ASSUME max_node \in Nat, test = "mbind006", T = Mbind006(max_node) PROVE TestOK
<1>1. Len(T) = 2 /\ DOMAIN T = 1..2
  BY DEF Mbind006, Need, Mbind
<1>2. T[1].op = "need" /\ T[1].k = 1
  BY DEF Mbind006, Need, Mbind
<1>3. T[2].op = "mbind" /\ T[2].at = 0 /\ T[2].len = 1 /\ T[2].mode = {"BIND"} /\ T[2].mask = NULL /\ T[2].maxnode = max_node /\ T[2].flags = {} /\ T[2].want = "EINVAL" /\ max_node \in Nat
  BY DEF Mbind006, Need, Mbind
<1>4. Suitable => max_node >= 1
  BY ONLY <1>1, <1>2 DEF Suitable
<1>5. PolicyStep(T[2])
  BY ONLY <1>3, Widths DEF PolicyStep, Modes
<1>6. StepOK(T[2])
  BY ONLY <1>3, <1>5, MbindStep DEF Wants
<1>7. Suitable => CallOK(2)
  <2>. SUFFICES ASSUME Suitable PROVE CallOK(2)  OBVIOUS
  <2>1. Effective(T[2], "none") = {}
    BY ONLY <1>3 DEF Effective
  <2>2. PolicyError(T[2], "none") = "EINVAL"
    BY ONLY <2>1, <1>3, Widths, BadPolicies
  <2>. QED  BY ONLY <1>3, <2>2, MbindCall
<1>. QED  BY ONLY <1>1, <1>2, <1>3, <1>6, <1>7, max_node \in Nat, test = "mbind006", Widths, OneCall DEF Setters

\* mbind 007
LEMMA Mbind007OK == ASSUME max_node \in Nat, test = "mbind007", T = Mbind007(max_node) PROVE TestOK
<1>1. Len(T) = 6 /\ DOMAIN T = 1..6
  BY DEF Mbind007, Need, Alloc, Mbind, Get, ModeIs, MaskIs, Mask, Shows
<1>2. T[1].op = "need" /\ T[1].k = 4
  BY DEF Mbind007, Need, Alloc, Mbind, Get, ModeIs, MaskIs, Mask, Shows
<1>3. T[2].op = "alloc" /\ T[2].name = "node_mask" /\ T[2].bits = max_node /\ max_node \in Nat
  BY DEF Mbind007, Need, Alloc, Mbind, Get, ModeIs, MaskIs, Mask, Shows
<1>4. T[3].op = "mbind" /\ T[3].at = 0 /\ T[3].len = 1 /\ T[3].mode = {"BIND"} /\ T[3].mask = 0..3 /\ T[3].maxnode = 2 /\ T[3].flags = {} /\ T[3].want = "ok"
  BY DEF Mbind007, Need, Alloc, Mbind, Get, ModeIs, MaskIs, Mask, Shows
<1>5. T[4].op = "get" /\ T[4].at = 0 /\ T[4].maxnode = max_node /\ T[4].m = TRUE /\ T[4].nm = TRUE /\ T[4].flags = {"ADDR"} /\ T[4].want = "ok" /\ max_node \in Nat
  BY DEF Mbind007, Need, Alloc, Mbind, Get, ModeIs, MaskIs, Mask, Shows
<1>6. T[5].op = "mode" /\ T[5].mode = {"BIND"}
  BY DEF Mbind007, Need, Alloc, Mbind, Get, ModeIs, MaskIs, Mask, Shows
<1>7. T[6].op = "word0" /\ T[6].bits = {0}
  BY DEF Mbind007, Need, Alloc, Mbind, Get, ModeIs, MaskIs, Mask, Shows
<1>8. Suitable => max_node >= 4
  BY ONLY <1>1, <1>2 DEF Suitable
<1>9. PolicyStep(T[3])
  BY ONLY <1>4, Widths DEF PolicyStep, Modes
<1>10. StepOK(T[3])
  BY ONLY <1>4, <1>9, MbindStep DEF Wants
<1>11. Suitable => CallOK(3) /\ Finds(T[5], Policy(T[3])) /\ Finds(T[6], Policy(T[3]))
  <2>. SUFFICES ASSUME Suitable PROVE CallOK(3) /\ Finds(T[5], Policy(T[3])) /\ Finds(T[6], Policy(T[3]))  OBVIOUS
  <2>1. Effective(T[3], "none") = {0}
    BY ONLY Suitable, <1>8, <1>4, max_node \in Nat, MaskCuts DEF Effective, NULL
  <2>2. PolicyError(T[3], "none") = "0"
    BY ONLY <2>1, <1>4, Widths, GoodPolicy
  <2>3. CallOK(3)
    BY ONLY <1>4, <2>2, MbindCall
  <2>4. Policy(T[3]) = [mode |-> {"BIND"}, mask |-> {0}]
    BY ONLY <1>4, <2>1 DEF Policy
  <2>. QED  BY ONLY <2>3, <2>4, <1>6, <1>7 DEF Finds
<1>12. T[1].k \in Nat \ {0} /\ T[3].op \in Setters /\ T[6].op \in {"word0", "zero"}
  BY ONLY <1>2, <1>4, <1>7 DEF Setters
<1>13. T[3].mask \subseteq 0..3 /\ T[3].maxnode - 1 <= BITS_PER_LONG
  BY ONLY <1>4, Widths
<1>. QED  BY ONLY <1>1, <1>2, <1>3, <1>4, <1>5, <1>6, <1>7, <1>10, <1>11, <1>12, <1>13, max_node \in Nat, test = "mbind007", SetAndShown

\* mbind 008
LEMMA Mbind008OK == ASSUME max_node \in Nat, test = "mbind008", T = Mbind008(max_node) PROVE TestOK
<1>1. Len(T) = 2 /\ DOMAIN T = 1..2
  BY DEF Mbind008, Need, Mbind
<1>2. T[1].op = "need" /\ T[1].k = 4
  BY DEF Mbind008, Need, Mbind
<1>3. T[2].op = "mbind" /\ T[2].at = 0 /\ T[2].len = 1 /\ T[2].mode = {"BIND"} /\ T[2].mask = {2, 3} /\ T[2].maxnode = 2 /\ T[2].flags = {} /\ T[2].want = "EINVAL"
  BY DEF Mbind008, Need, Mbind
<1>4. Suitable => max_node >= 4
  BY ONLY <1>1, <1>2 DEF Suitable
<1>5. PolicyStep(T[2])
  BY ONLY <1>3, Widths DEF PolicyStep, Modes
<1>6. StepOK(T[2])
  BY ONLY <1>3, <1>5, MbindStep DEF Wants
<1>7. ArgFits(2) /\ T[2].mask \subseteq 0..3
  BY ONLY <1>3, Widths DEF ArgFits
<1>8. Suitable => CallOK(2)
  <2>. SUFFICES ASSUME Suitable PROVE CallOK(2)  OBVIOUS
  <2>1. Effective(T[2], "none") = {}
    BY ONLY Suitable, <1>4, <1>3, max_node \in Nat, MaskCuts DEF Effective, NULL
  <2>2. PolicyError(T[2], "none") = "EINVAL"
    BY ONLY <2>1, <1>3, Widths, BadPolicies DEF NULL
  <2>. QED  BY ONLY <1>3, <2>2, MbindCall
<1>. QED  BY ONLY <1>1, <1>2, <1>3, <1>6, <1>7, <1>8, max_node \in Nat, test = "mbind008", Widths, OneCall DEF Setters

\* mbind 009
LEMMA Mbind009OK == ASSUME max_node \in Nat, test = "mbind009", T = Mbind009(max_node) PROVE TestOK
<1>1. Len(T) = 2 /\ DOMAIN T = 1..2
  BY DEF Mbind009, Need, Mbind
<1>2. T[1].op = "need" /\ T[1].k = 2
  BY DEF Mbind009, Need, Mbind
<1>3. T[2].op = "mbind" /\ T[2].at = 0 /\ T[2].len = 1 /\ T[2].mode = {"BIND"} /\ T[2].mask = {0, 1} /\ T[2].maxnode = 0 /\ T[2].flags = {} /\ T[2].want = "EINVAL"
  BY DEF Mbind009, Need, Mbind
<1>4. Suitable => max_node >= 2
  BY ONLY <1>1, <1>2 DEF Suitable
<1>5. PolicyStep(T[2])
  BY ONLY <1>3, Widths DEF PolicyStep, Modes
<1>6. StepOK(T[2])
  BY ONLY <1>3, <1>5, MbindStep DEF Wants
<1>7. ArgFits(2) /\ T[2].mask \subseteq 0..3
  BY ONLY <1>3, Widths DEF ArgFits
<1>8. Suitable => CallOK(2)
  <2>. SUFFICES ASSUME Suitable PROVE CallOK(2)  OBVIOUS
  <2>1. PolicyError(T[2], "none") = "EINVAL"
    BY ONLY <1>3, Widths, BadPolicies DEF NULL
  <2>. QED  BY ONLY <1>3, <2>1, MbindCall
<1>. QED  BY ONLY <1>1, <1>2, <1>3, <1>6, <1>7, <1>8, max_node \in Nat, test = "mbind009", Widths, OneCall DEF Setters

\* mbind 010
LEMMA Mbind010OK == ASSUME max_node \in Nat, test = "mbind010", T = Mbind010(max_node) PROVE TestOK
<1>1. Len(T) = 6 /\ DOMAIN T = 1..6
  BY DEF Mbind010, Need, Alloc, Mbind, Get, ModeIs, MaskIs, Mask, Shows
<1>2. T[1].op = "need" /\ T[1].k = 2
  BY DEF Mbind010, Need, Alloc, Mbind, Get, ModeIs, MaskIs, Mask, Shows
<1>3. T[2].op = "alloc" /\ T[2].name = "node_mask" /\ T[2].bits = max_node /\ max_node \in Nat
  BY DEF Mbind010, Need, Alloc, Mbind, Get, ModeIs, MaskIs, Mask, Shows
<1>4. T[3].op = "mbind" /\ T[3].at = 0 /\ T[3].len = 1 /\ T[3].mode = {"BIND", "STATIC"} /\ T[3].mask = {0, 1} /\ T[3].maxnode = BITS_PER_LONG /\ T[3].flags = {} /\ T[3].want = "ok"
  BY DEF Mbind010, Need, Alloc, Mbind, Get, ModeIs, MaskIs, Mask, Shows
<1>5. T[4].op = "get" /\ T[4].at = 0 /\ T[4].maxnode = max_node /\ T[4].m = TRUE /\ T[4].nm = TRUE /\ T[4].flags = {"ADDR"} /\ T[4].want = "ok" /\ max_node \in Nat
  BY DEF Mbind010, Need, Alloc, Mbind, Get, ModeIs, MaskIs, Mask, Shows
<1>6. T[5].op = "mode" /\ T[5].mode = {"BIND", "STATIC"}
  BY DEF Mbind010, Need, Alloc, Mbind, Get, ModeIs, MaskIs, Mask, Shows
<1>7. T[6].op = "word0" /\ T[6].bits = {0, 1}
  BY DEF Mbind010, Need, Alloc, Mbind, Get, ModeIs, MaskIs, Mask, Shows
<1>8. Suitable => max_node >= 2
  BY ONLY <1>1, <1>2 DEF Suitable
<1>9. PolicyStep(T[3])
  BY ONLY <1>4, Widths DEF PolicyStep, Modes
<1>10. StepOK(T[3])
  BY ONLY <1>4, <1>9, MbindStep DEF Wants
<1>11. Suitable => CallOK(3) /\ Finds(T[5], Policy(T[3])) /\ Finds(T[6], Policy(T[3]))
  <2>. SUFFICES ASSUME Suitable PROVE CallOK(3) /\ Finds(T[5], Policy(T[3])) /\ Finds(T[6], Policy(T[3]))  OBVIOUS
  <2>1. Effective(T[3], "none") = {0, 1}
    BY ONLY Suitable, <1>8, <1>4, max_node \in Nat, MaskCuts DEF Effective, NULL
  <2>2. PolicyError(T[3], "none") = "0"
    BY ONLY <2>1, <1>4, Widths, GoodPolicy
  <2>3. CallOK(3)
    BY ONLY <1>4, <2>2, MbindCall
  <2>4. Policy(T[3]) = [mode |-> {"BIND", "STATIC"}, mask |-> {0, 1}]
    BY ONLY <1>4, <2>1 DEF Policy
  <2>. QED  BY ONLY <2>3, <2>4, <1>6, <1>7 DEF Finds
<1>12. T[1].k \in Nat \ {0} /\ T[3].op \in Setters /\ T[6].op \in {"word0", "zero"}
  BY ONLY <1>2, <1>4, <1>7 DEF Setters
<1>13. T[3].mask \subseteq 0..3 /\ T[3].maxnode - 1 <= BITS_PER_LONG
  BY ONLY <1>4, Widths
<1>. QED  BY ONLY <1>1, <1>2, <1>3, <1>4, <1>5, <1>6, <1>7, <1>10, <1>11, <1>12, <1>13, max_node \in Nat, test = "mbind010", SetAndShown

\* mbind 011
LEMMA Mbind011OK == ASSUME max_node \in Nat, test = "mbind011", T = Mbind011(max_node) PROVE TestOK
<1>1. Len(T) = 6 /\ DOMAIN T = 1..6
  BY DEF Mbind011, Need, Alloc, Mbind, Get, ModeIs, MaskIs, Mask, Shows
<1>2. T[1].op = "need" /\ T[1].k = 2
  BY DEF Mbind011, Need, Alloc, Mbind, Get, ModeIs, MaskIs, Mask, Shows
<1>3. T[2].op = "alloc" /\ T[2].name = "node_mask" /\ T[2].bits = max_node /\ max_node \in Nat
  BY DEF Mbind011, Need, Alloc, Mbind, Get, ModeIs, MaskIs, Mask, Shows
<1>4. T[3].op = "mbind" /\ T[3].at = 0 /\ T[3].len = 1 /\ T[3].mode = {"BIND", "RELATIVE"} /\ T[3].mask = {0, 1} /\ T[3].maxnode = BITS_PER_LONG /\ T[3].flags = {} /\ T[3].want = "ok"
  BY DEF Mbind011, Need, Alloc, Mbind, Get, ModeIs, MaskIs, Mask, Shows
<1>5. T[4].op = "get" /\ T[4].at = 0 /\ T[4].maxnode = max_node /\ T[4].m = TRUE /\ T[4].nm = TRUE /\ T[4].flags = {"ADDR"} /\ T[4].want = "ok" /\ max_node \in Nat
  BY DEF Mbind011, Need, Alloc, Mbind, Get, ModeIs, MaskIs, Mask, Shows
<1>6. T[5].op = "mode" /\ T[5].mode = {"BIND", "RELATIVE"}
  BY DEF Mbind011, Need, Alloc, Mbind, Get, ModeIs, MaskIs, Mask, Shows
<1>7. T[6].op = "word0" /\ T[6].bits = {0, 1}
  BY DEF Mbind011, Need, Alloc, Mbind, Get, ModeIs, MaskIs, Mask, Shows
<1>8. Suitable => max_node >= 2
  BY ONLY <1>1, <1>2 DEF Suitable
<1>9. PolicyStep(T[3])
  BY ONLY <1>4, Widths DEF PolicyStep, Modes
<1>10. StepOK(T[3])
  BY ONLY <1>4, <1>9, MbindStep DEF Wants
<1>11. Suitable => CallOK(3) /\ Finds(T[5], Policy(T[3])) /\ Finds(T[6], Policy(T[3]))
  <2>. SUFFICES ASSUME Suitable PROVE CallOK(3) /\ Finds(T[5], Policy(T[3])) /\ Finds(T[6], Policy(T[3]))  OBVIOUS
  <2>1. Effective(T[3], "none") = {0, 1}
    BY ONLY Suitable, <1>8, <1>4, max_node \in Nat, MaskCuts DEF Effective, NULL
  <2>2. PolicyError(T[3], "none") = "0"
    BY ONLY <2>1, <1>4, Widths, GoodPolicy
  <2>3. CallOK(3)
    BY ONLY <1>4, <2>2, MbindCall
  <2>4. Policy(T[3]) = [mode |-> {"BIND", "RELATIVE"}, mask |-> {0, 1}]
    BY ONLY <1>4, <2>1 DEF Policy
  <2>. QED  BY ONLY <2>3, <2>4, <1>6, <1>7 DEF Finds
<1>12. T[1].k \in Nat \ {0} /\ T[3].op \in Setters /\ T[6].op \in {"word0", "zero"}
  BY ONLY <1>2, <1>4, <1>7 DEF Setters
<1>13. T[3].mask \subseteq 0..3 /\ T[3].maxnode - 1 <= BITS_PER_LONG
  BY ONLY <1>4, Widths
<1>. QED  BY ONLY <1>1, <1>2, <1>3, <1>4, <1>5, <1>6, <1>7, <1>10, <1>11, <1>12, <1>13, max_node \in Nat, test = "mbind011", SetAndShown

\* mbind 012
LEMMA Mbind012OK == ASSUME max_node \in Nat, test = "mbind012", T = Mbind012(max_node) PROVE TestOK
<1>1. Len(T) = 2 /\ DOMAIN T = 1..2
  BY DEF Mbind012, Need, Mbind
<1>2. T[1].op = "need" /\ T[1].k = 2
  BY DEF Mbind012, Need, Mbind
<1>3. T[2].op = "mbind" /\ T[2].at = 0 /\ T[2].len = 1 /\ T[2].mode = {"BIND", "STATIC", "RELATIVE"} /\ T[2].mask = {0, 1} /\ T[2].maxnode = BITS_PER_LONG /\ T[2].flags = {} /\ T[2].want = "EINVAL"
  BY DEF Mbind012, Need, Mbind
<1>4. Suitable => max_node >= 2
  BY ONLY <1>1, <1>2 DEF Suitable
<1>5. PolicyStep(T[2])
  BY ONLY <1>3, Widths DEF PolicyStep, Modes
<1>6. StepOK(T[2])
  BY ONLY <1>3, <1>5, MbindStep DEF Wants
<1>7. ArgFits(2) /\ T[2].mask \subseteq 0..3
  BY ONLY <1>3, Widths DEF ArgFits
<1>8. Suitable => CallOK(2)
  <2>. SUFFICES ASSUME Suitable PROVE CallOK(2)  OBVIOUS
  <2>1. PolicyError(T[2], "none") = "EINVAL"
    BY ONLY <1>3, Widths, BadPolicies DEF NULL
  <2>. QED  BY ONLY <1>3, <2>1, MbindCall
<1>. QED  BY ONLY <1>1, <1>2, <1>3, <1>6, <1>7, <1>8, max_node \in Nat, test = "mbind012", Widths, OneCall DEF Setters

\* mbind 013
LEMMA Mbind013OK ==
  ASSUME max_node \in Nat, max_node < SYS_MAX_NODE, test = "mbind013", T = Mbind013(max_node)
  PROVE  TestOK
<1>1. Len(T) = 7 /\ DOMAIN T = 1..7
  BY DEF Mbind013, Need, Alloc, Mbind, Get, ModeIs, MaskIsFull, Mask
<1>2. T[1].op = "need" /\ T[1].k = 1
  BY DEF Mbind013, Need, Alloc, Mbind, Get, ModeIs, MaskIsFull, Mask
<1>3. T[2].op = "alloc" /\ T[2].name = "node_mask" /\ T[2].bits = max_node + 1 /\ max_node \in Nat
  BY DEF Mbind013, Need, Alloc, Mbind, Get, ModeIs, MaskIsFull, Mask
<1>4. T[3].op = "alloc" /\ T[3].name = "arg_mask" /\ T[3].bits = max_node + 1 /\ max_node \in Nat
  BY DEF Mbind013, Need, Alloc, Mbind, Get, ModeIs, MaskIsFull, Mask
<1>5. T[4].op = "mbind" /\ T[4].at = 0 /\ T[4].len = 1 /\ T[4].mode = {"BIND"} /\ T[4].mask = OneTooMany(max_node) /\ T[4].maxnode = max_node + 1 /\ T[4].flags = {} /\ T[4].want = "ok" /\ max_node \in Nat
  BY DEF Mbind013, Need, Alloc, Mbind, Get, ModeIs, MaskIsFull, Mask
<1>6. T[5].op = "get" /\ T[5].at = 0 /\ T[5].maxnode = max_node + 1 /\ T[5].m = TRUE /\ T[5].nm = TRUE /\ T[5].flags = {"ADDR"} /\ T[5].want = "ok" /\ max_node \in Nat
  BY DEF Mbind013, Need, Alloc, Mbind, Get, ModeIs, MaskIsFull, Mask
<1>7. T[6].op = "mode" /\ T[6].mode = {"BIND"}
  BY DEF Mbind013, Need, Alloc, Mbind, Get, ModeIs, MaskIsFull, Mask
<1>8. T[7].op = "full" /\ T[7].bits = max_node /\ max_node \in Nat
  BY DEF Mbind013, Need, Alloc, Mbind, Get, ModeIs, MaskIsFull, Mask
<1>9. T[1].op = "need" /\ T[2].op = "alloc" /\ T[3].op = "alloc" /\ T[4].op = "mbind" /\ T[5].op = "get" /\ T[6].op = "mode" /\ T[7].op = "full"
  BY ONLY <1>2, <1>3, <1>4, <1>5, <1>6, <1>7, <1>8
<1>10. \A k \in 1..7 : StepOK(T[k])
  <2>1. StepOK(T[1])
    BY ONLY <1>2, NeedStep
  <2>2. StepOK(T[2])
    BY ONLY <1>3, AllocStep, Widths
  <2>3. StepOK(T[3])
    BY ONLY <1>4, AllocStep, Widths
  <2>4. PolicyStep(T[4])
    BY ONLY <1>5, Widths DEF PolicyStep, Modes
  <2>5. StepOK(T[4])
    BY ONLY <1>5, <2>4, MbindStep DEF Wants
  <2>6. StepOK(T[5])
    BY ONLY <1>6, GetStep DEF NOADDR, WILDADDR, Wants
  <2>7. StepOK(T[6])
    BY ONLY <1>7, PlainStep DEF Ops, Checks, Setters
  <2>8. StepOK(T[7])
    BY ONLY <1>8, PlainStep DEF Ops, Checks, Setters
  <2>. QED  BY ONLY <2>1, <2>2, <2>3, <2>5, <2>6, <2>7, <2>8
<1>11. OrderOK
  BY ONLY <1>1, <1>9 DEF OrderOK
<1>12. Suitable => max_node >= 1
  BY ONLY <1>1, <1>2 DEF Suitable
<1>13. \A l \in 1..7 : T[l].op \in Setters <=> l \in {4}
  BY ONLY <1>9 DEF Setters
<1>14. MasksOK
  <2>1. \A k, l \in 1..7 : T[k].op = "alloc" /\ T[l].op = "alloc" /\ T[k].name = T[l].name => k = l
    BY ONLY <1>9, <1>3, <1>4
  <2>2. ASSUME NEW k \in 1..7, UsesMask(T[k]) PROVE \E a \in 1..(k - 1) : MaskAt(k, a)
    <3>1. k \in {5, 7}
      BY ONLY <2>2, <1>9 DEF UsesMask
    <3>2. MaskAt(5, 2)
      BY ONLY <1>6, <1>3, <1>12 DEF MaskAt
    <3>3. MaskAt(7, 2)
      BY ONLY <1>8, <1>3, <1>12 DEF MaskAt
    <3>. QED  BY ONLY <3>1, <3>2, <3>3
  <2>3. \A k \in 1..7 : T[k].op \in Setters /\ T[k].mask # NULL => ArgFits(k)
    <3>1. ArgFits(4)
      BY ONLY <1>5, Widths, <1>4 DEF ArgFits
    <3>. QED  BY ONLY <1>13, <3>1
  <2>. QED  BY ONLY <1>1, <2>1, <2>2, <2>3 DEF MasksOK
<1>15. SmallMasks
  BY DEF SmallMasks
<1>16. ASSUME Suitable, ShiftsFit, NEW k \in 1..7 PROVE CallOK(k)
  <2>1. Effective(T[4], "none") = Nodes
    <3>1. ShiftFits(max_node)
      BY ONLY <1>1, <1>9, <1>16 DEF ShiftsFit, Uses
    <3>. QED  BY ONLY <3>1, <1>12, <1>16, <1>5, max_node \in Nat, OneTooManyLaw DEF Effective, NULL
  <2>2. PolicyError(T[4], "none") = "0"
    BY ONLY <2>1, <1>12, <1>16, <1>5, Widths, GoodPolicy, max_node \in Nat, max_node < SYS_MAX_NODE, NodesLaw
  <2>3. CallOK(4)
    BY ONLY <1>5, <2>2, MbindCall
  <2>4. CallOK(5)
    BY ONLY <1>12, <1>16, <1>6, max_node \in Nat, NodesLaw, GetCall DEF NOADDR, WILDADDR
  <2>5. k \notin {4, 5} => CallOK(k)
    BY ONLY <1>16, <1>9, NoCall DEF Setters
  <2>. QED  BY ONLY <2>5, <2>3, <2>4
<1>17. ASSUME Suitable, ShiftsFit, NEW k \in 1..7 PROVE CheckOK(k)
  <2>1. Effective(T[4], "none") = Nodes
    <3>1. ShiftFits(max_node)
      BY ONLY <1>1, <1>9, <1>17 DEF ShiftsFit, Uses
    <3>. QED  BY ONLY <3>1, <1>12, <1>17, <1>5, max_node \in Nat, OneTooManyLaw DEF Effective, NULL
  <2>2. Policy(T[4]) = [mode |-> {"BIND"}, mask |-> Nodes]
    BY ONLY <1>5, <2>1 DEF Policy
  <2>3. LastCover(6, T[5].at, 4)
    BY ONLY <1>6, <1>13, <1>5 DEF LastCover, Covers, Setters, PROC, NOADDR
  <2>4. Finds(T[6], Policy(T[4]))
    BY ONLY <1>7, <2>2 DEF Finds
  <2>5. CheckOK(6)
    BY ONLY <1>7, <1>6, <2>3, <2>4, CheckAfter
  <2>6. LastCover(7, T[5].at, 4)
    BY ONLY <1>6, <1>13, <1>5 DEF LastCover, Covers, Setters, PROC, NOADDR
  <2>7. Finds(T[7], Policy(T[4]))
    BY ONLY <1>8, <2>2 DEF Finds
  <2>8. CheckOK(7)
    BY ONLY <1>8, <1>6, <2>6, <2>7, <1>7, CheckAfter
  <2>9. k \notin {6, 7} => CheckOK(k)
    BY ONLY <1>17, <1>9, NoCheck
  <2>. QED  BY ONLY <2>9, <2>5, <2>8
<1>18. \A k \in 1..7 : Confirmed(k)
  <2>1. GetOf(6) = 5 /\ GetOf(7) = 5
    BY ONLY <1>9 DEF GetOf
  <2>2. \A k \in 1..Len(T) : Looks(T[k]) => T[k].at = T[5].at
    BY ONLY <1>1, <1>9, <1>6 DEF Looks
  <2>3. Looks(T[5])
    BY ONLY <1>6 DEF Looks
  <2>4. \A l \in 1..Len(T) : T[l].op \in Setters => l < 6 /\ l < 7
    BY ONLY <1>1, <1>13
  <2>5. 6 \in 1..Len(T) /\ 7 \in 1..Len(T) /\ T[6].op = "mode" /\ T[7].op \in {"word0", "zero", "full"}
    BY ONLY <1>1, <1>9
  <2>. QED  BY ONLY <1>1, <2>1, <2>2, <2>3, <2>4, <2>5, ConfirmedBy
<1>19. ScopeOK
  BY ONLY <1>1, <1>9, test = "mbind013" DEF ScopeOK, LoopOps
<1>. QED  BY ONLY <1>1, <1>10, <1>11, <1>14, <1>15, <1>19, <1>16, <1>17, <1>18 DEF TestOK

\* mbind 014
LEMMA Mbind014OK == ASSUME max_node \in Nat, test = "mbind014", T = Mbind014(max_node) PROVE TestOK
<1>1. Len(T) = 2 /\ DOMAIN T = 1..2
  BY DEF Mbind014, Alloc, Mbind
<1>2. T[1].op = "alloc" /\ T[1].name = "arg_mask" /\ T[1].bits = SYS_MAX_NODE + 1
  BY DEF Mbind014, Alloc, Mbind
<1>3. T[2].op = "mbind" /\ T[2].at = 0 /\ T[2].len = 1 /\ T[2].mode = {"BIND"} /\ T[2].mask = {0} /\ T[2].maxnode = SYS_MAX_NODE + 2 /\ T[2].flags = {} /\ T[2].want = "EINVAL"
  BY DEF Mbind014, Alloc, Mbind
<1>4. PolicyStep(T[2])
  BY ONLY <1>3, Widths DEF PolicyStep, Modes
<1>5. StepOK(T[2])
  BY ONLY <1>3, <1>4, MbindStep DEF Wants
<1>6. ArgFits(2) /\ T[2].mask \subseteq 0..3
  BY ONLY <1>3, Widths, <1>2 DEF ArgFits
<1>7. Suitable => CallOK(2)
  <2>. SUFFICES ASSUME Suitable PROVE CallOK(2)  OBVIOUS
  <2>1. PolicyError(T[2], "none") = "EINVAL"
    BY ONLY <1>3, Widths, BadPolicies DEF NULL
  <2>. QED  BY ONLY <1>3, <2>1, MbindCall
<1>. QED  BY ONLY <1>1, <1>2, <1>3, <1>5, <1>6, <1>7, max_node \in Nat, test = "mbind014", Widths, OneCall DEF Setters

\* mbind 024
LEMMA Mbind024OK == ASSUME max_node \in Nat, test = "mbind024", T = Mbind024(max_node) PROVE TestOK
<1>1. Len(T) = 6 /\ DOMAIN T = 1..6
  BY DEF Mbind024, Need, Alloc, Mbind, Get, ModeIs, MaskIs, Mask, Shows
<1>2. T[1].op = "need" /\ T[1].k = 2
  BY DEF Mbind024, Need, Alloc, Mbind, Get, ModeIs, MaskIs, Mask, Shows
<1>3. T[2].op = "alloc" /\ T[2].name = "node_mask" /\ T[2].bits = max_node /\ max_node \in Nat
  BY DEF Mbind024, Need, Alloc, Mbind, Get, ModeIs, MaskIs, Mask, Shows
<1>4. T[3].op = "mbind" /\ T[3].at = 0 /\ T[3].len = 1 /\ T[3].mode = {"INTERLEAVE"} /\ T[3].mask = {0, 1} /\ T[3].maxnode = BITS_PER_LONG /\ T[3].flags = {} /\ T[3].want = "ok"
  BY DEF Mbind024, Need, Alloc, Mbind, Get, ModeIs, MaskIs, Mask, Shows
<1>5. T[4].op = "get" /\ T[4].at = 0 /\ T[4].maxnode = max_node /\ T[4].m = TRUE /\ T[4].nm = TRUE /\ T[4].flags = {"ADDR"} /\ T[4].want = "ok" /\ max_node \in Nat
  BY DEF Mbind024, Need, Alloc, Mbind, Get, ModeIs, MaskIs, Mask, Shows
<1>6. T[5].op = "mode" /\ T[5].mode = {"INTERLEAVE"}
  BY DEF Mbind024, Need, Alloc, Mbind, Get, ModeIs, MaskIs, Mask, Shows
<1>7. T[6].op = "word0" /\ T[6].bits = {0, 1}
  BY DEF Mbind024, Need, Alloc, Mbind, Get, ModeIs, MaskIs, Mask, Shows
<1>8. Suitable => max_node >= 2
  BY ONLY <1>1, <1>2 DEF Suitable
<1>9. PolicyStep(T[3])
  BY ONLY <1>4, Widths DEF PolicyStep, Modes
<1>10. StepOK(T[3])
  BY ONLY <1>4, <1>9, MbindStep DEF Wants
<1>11. Suitable => CallOK(3) /\ Finds(T[5], Policy(T[3])) /\ Finds(T[6], Policy(T[3]))
  <2>. SUFFICES ASSUME Suitable PROVE CallOK(3) /\ Finds(T[5], Policy(T[3])) /\ Finds(T[6], Policy(T[3]))  OBVIOUS
  <2>1. Effective(T[3], "none") = {0, 1}
    BY ONLY Suitable, <1>8, <1>4, max_node \in Nat, MaskCuts DEF Effective, NULL
  <2>2. PolicyError(T[3], "none") = "0"
    BY ONLY <2>1, <1>4, Widths, GoodPolicy
  <2>3. CallOK(3)
    BY ONLY <1>4, <2>2, MbindCall
  <2>4. Policy(T[3]) = [mode |-> {"INTERLEAVE"}, mask |-> {0, 1}]
    BY ONLY <1>4, <2>1 DEF Policy
  <2>. QED  BY ONLY <2>3, <2>4, <1>6, <1>7 DEF Finds
<1>12. T[1].k \in Nat \ {0} /\ T[3].op \in Setters /\ T[6].op \in {"word0", "zero"}
  BY ONLY <1>2, <1>4, <1>7 DEF Setters
<1>13. T[3].mask \subseteq 0..3 /\ T[3].maxnode - 1 <= BITS_PER_LONG
  BY ONLY <1>4, Widths
<1>. QED  BY ONLY <1>1, <1>2, <1>3, <1>4, <1>5, <1>6, <1>7, <1>10, <1>11, <1>12, <1>13, max_node \in Nat, test = "mbind024", SetAndShown

\* mbind 025
LEMMA Mbind025OK == ASSUME max_node \in Nat, test = "mbind025", T = Mbind025(max_node) PROVE TestOK
<1>1. Len(T) = 6 /\ DOMAIN T = 1..6
  BY DEF Mbind025, Need, Alloc, Mbind, Get, ModeIs, MaskIs, Mask, Shows
<1>2. T[1].op = "need" /\ T[1].k = 2
  BY DEF Mbind025, Need, Alloc, Mbind, Get, ModeIs, MaskIs, Mask, Shows
<1>3. T[2].op = "alloc" /\ T[2].name = "node_mask" /\ T[2].bits = max_node /\ max_node \in Nat
  BY DEF Mbind025, Need, Alloc, Mbind, Get, ModeIs, MaskIs, Mask, Shows
<1>4. T[3].op = "mbind" /\ T[3].at = 0 /\ T[3].len = 1 /\ T[3].mode = {"PREFERRED"} /\ T[3].mask = {0, 1} /\ T[3].maxnode = BITS_PER_LONG /\ T[3].flags = {} /\ T[3].want = "ok"
  BY DEF Mbind025, Need, Alloc, Mbind, Get, ModeIs, MaskIs, Mask, Shows
<1>5. T[4].op = "get" /\ T[4].at = 0 /\ T[4].maxnode = max_node /\ T[4].m = TRUE /\ T[4].nm = TRUE /\ T[4].flags = {"ADDR"} /\ T[4].want = "ok" /\ max_node \in Nat
  BY DEF Mbind025, Need, Alloc, Mbind, Get, ModeIs, MaskIs, Mask, Shows
<1>6. T[5].op = "mode" /\ T[5].mode = {"PREFERRED"}
  BY DEF Mbind025, Need, Alloc, Mbind, Get, ModeIs, MaskIs, Mask, Shows
<1>7. T[6].op = "word0" /\ T[6].bits = {0}
  BY DEF Mbind025, Need, Alloc, Mbind, Get, ModeIs, MaskIs, Mask, Shows
<1>8. Suitable => max_node >= 2
  BY ONLY <1>1, <1>2 DEF Suitable
<1>9. PolicyStep(T[3])
  BY ONLY <1>4, Widths DEF PolicyStep, Modes, NULL
<1>10. StepOK(T[3])
  BY ONLY <1>4, <1>9, MbindStep DEF Wants
<1>11. Suitable => CallOK(3) /\ Finds(T[5], Policy(T[3])) /\ Finds(T[6], Policy(T[3]))
  <2>. SUFFICES ASSUME Suitable PROVE CallOK(3) /\ Finds(T[5], Policy(T[3])) /\ Finds(T[6], Policy(T[3]))  OBVIOUS
  <2>1. Effective(T[3], "none") = {0, 1}
    BY ONLY Suitable, <1>8, <1>4, max_node \in Nat, MaskCuts DEF Effective, NULL
  <2>2. PolicyError(T[3], "none") = "0"
    BY ONLY <2>1, <1>4, Widths, GoodPolicy
  <2>3. CallOK(3)
    BY ONLY <1>4, <2>2, MbindCall
  <2>4. Policy(T[3]) = [mode |-> {"PREFERRED"}, mask |-> {0}]
    BY ONLY <1>4, <2>1, MinLaw DEF Policy
  <2>. QED  BY ONLY <2>3, <2>4, <1>6, <1>7 DEF Finds
<1>12. T[1].k \in Nat \ {0} /\ T[3].op \in Setters /\ T[6].op \in {"word0", "zero"}
  BY ONLY <1>2, <1>4, <1>7 DEF Setters
<1>13. T[3].mask \subseteq 0..3 /\ T[3].maxnode - 1 <= BITS_PER_LONG
  BY ONLY <1>4, Widths
<1>. QED  BY ONLY <1>1, <1>2, <1>3, <1>4, <1>5, <1>6, <1>7, <1>10, <1>11, <1>12, <1>13, max_node \in Nat, test = "mbind025", SetAndShown

\* mbind 026
LEMMA Mbind026OK == ASSUME max_node \in Nat, test = "mbind026", T = Mbind026(max_node) PROVE TestOK
<1>1. Len(T) = 6 /\ DOMAIN T = 1..6
  BY DEF Mbind026, Need, Alloc, Mbind, Get, ModeIs, MaskIsZero, Mask
<1>2. T[1].op = "need" /\ T[1].k = 1
  BY DEF Mbind026, Need, Alloc, Mbind, Get, ModeIs, MaskIsZero, Mask
<1>3. T[2].op = "alloc" /\ T[2].name = "node_mask" /\ T[2].bits = max_node /\ max_node \in Nat
  BY DEF Mbind026, Need, Alloc, Mbind, Get, ModeIs, MaskIsZero, Mask
<1>4. T[3].op = "mbind" /\ T[3].at = 0 /\ T[3].len = 1 /\ T[3].mode = {"PREFERRED"} /\ T[3].mask = NULL /\ T[3].maxnode = 0 /\ T[3].flags = {} /\ T[3].want = "ok"
  BY DEF Mbind026, Need, Alloc, Mbind, Get, ModeIs, MaskIsZero, Mask
<1>5. T[4].op = "get" /\ T[4].at = 0 /\ T[4].maxnode = max_node /\ T[4].m = TRUE /\ T[4].nm = TRUE /\ T[4].flags = {"ADDR"} /\ T[4].want = "ok" /\ max_node \in Nat
  BY DEF Mbind026, Need, Alloc, Mbind, Get, ModeIs, MaskIsZero, Mask
<1>6. T[5].op = "mode" /\ T[5].mode = {"PREFERRED"}
  BY DEF Mbind026, Need, Alloc, Mbind, Get, ModeIs, MaskIsZero, Mask
<1>7. T[6].op = "zero"
  BY DEF Mbind026, Need, Alloc, Mbind, Get, ModeIs, MaskIsZero, Mask
<1>8. Suitable => max_node >= 1
  BY ONLY <1>1, <1>2 DEF Suitable
<1>9. PolicyStep(T[3])
  BY ONLY <1>4, Widths DEF PolicyStep, Modes, NULL
<1>10. StepOK(T[3])
  BY ONLY <1>4, <1>9, MbindStep DEF Wants
<1>11. Suitable => CallOK(3) /\ Finds(T[5], Policy(T[3])) /\ Finds(T[6], Policy(T[3]))
  <2>. SUFFICES ASSUME Suitable PROVE CallOK(3) /\ Finds(T[5], Policy(T[3])) /\ Finds(T[6], Policy(T[3]))  OBVIOUS
  <2>1. Effective(T[3], "none") = {}
    BY ONLY <1>4 DEF Effective
  <2>2. PolicyError(T[3], "none") = "0"
    BY ONLY <2>1, <1>4, Widths, GoodPolicy
  <2>3. CallOK(3)
    BY ONLY <1>4, <2>2, MbindCall
  <2>4. Policy(T[3]) = [mode |-> {"PREFERRED"}, mask |-> {}]
    BY ONLY <1>4, <2>1, MinLaw DEF Policy
  <2>. QED  BY ONLY <2>3, <2>4, <1>6, <1>7 DEF Finds
<1>12. T[1].k \in Nat \ {0} /\ T[3].op \in Setters /\ T[6].op \in {"word0", "zero"}
  BY ONLY <1>2, <1>4, <1>7 DEF Setters
<1>13. T[3].mask = NULL
  BY ONLY <1>4, Widths
<1>. QED  BY ONLY <1>1, <1>2, <1>3, <1>4, <1>5, <1>6, <1>7, <1>10, <1>11, <1>12, <1>13, max_node \in Nat, test = "mbind026", SetAndShown

\* mbind 027
LEMMA Mbind027OK ==
  ASSUME max_node \in Nat, test = "mbind027", T = Mbind027(max_node)
  PROVE  TestOK
<1>1. Len(T) = 7 /\ DOMAIN T = 1..7
  BY DEF Mbind027, MapBuf, Need, Alloc, Mbind, Touch, UnmapBuf, Mask
<1>2. T[1].op = "map"
  BY DEF Mbind027, MapBuf, Need, Alloc, Mbind, Touch, UnmapBuf, Mask
<1>3. T[2].op = "need" /\ T[2].k = 2
  BY DEF Mbind027, MapBuf, Need, Alloc, Mbind, Touch, UnmapBuf, Mask
<1>4. T[3].op = "alloc" /\ T[3].name = "node_mask" /\ T[3].bits = max_node /\ max_node \in Nat
  BY DEF Mbind027, MapBuf, Need, Alloc, Mbind, Touch, UnmapBuf, Mask
<1>5. T[4].op = "mbind" /\ T[4].at = 0 /\ T[4].len = 1 /\ T[4].mode = {"BIND"} /\ T[4].mask = {1} /\ T[4].maxnode = BITS_PER_LONG /\ T[4].flags = {} /\ T[4].want = "ok"
  BY DEF Mbind027, MapBuf, Need, Alloc, Mbind, Touch, UnmapBuf, Mask
<1>6. T[5].op = "touch"
  BY DEF Mbind027, MapBuf, Need, Alloc, Mbind, Touch, UnmapBuf, Mask
<1>7. T[6].op = "mbind" /\ T[6].at = 0 /\ T[6].len = 1 /\ T[6].mode = {"BIND"} /\ T[6].mask = {0} /\ T[6].maxnode = BITS_PER_LONG /\ T[6].flags = {"STRICT"} /\ T[6].want = "notEIO"
  BY DEF Mbind027, MapBuf, Need, Alloc, Mbind, Touch, UnmapBuf, Mask
<1>8. T[7].op = "unmap"
  BY DEF Mbind027, MapBuf, Need, Alloc, Mbind, Touch, UnmapBuf, Mask
<1>9. T[1].op = "map" /\ T[2].op = "need" /\ T[3].op = "alloc" /\ T[4].op = "mbind" /\ T[5].op = "touch" /\ T[6].op = "mbind" /\ T[7].op = "unmap"
  BY ONLY <1>2, <1>3, <1>4, <1>5, <1>6, <1>7, <1>8
<1>10. \A k \in 1..7 : StepOK(T[k])
  <2>1. StepOK(T[1])
    BY ONLY <1>2, PlainStep DEF Ops, Checks, Setters
  <2>2. StepOK(T[2])
    BY ONLY <1>3, NeedStep
  <2>3. StepOK(T[3])
    BY ONLY <1>4, AllocStep, Widths
  <2>4. PolicyStep(T[4])
    BY ONLY <1>5, Widths DEF PolicyStep, Modes
  <2>5. StepOK(T[4])
    BY ONLY <1>5, <2>4, MbindStep DEF Wants
  <2>6. StepOK(T[5])
    BY ONLY <1>6, PlainStep DEF Ops, Checks, Setters
  <2>7. PolicyStep(T[6])
    BY ONLY <1>7, Widths DEF PolicyStep, Modes
  <2>8. StepOK(T[6])
    BY ONLY <1>7, <2>7, MbindStep DEF Wants
  <2>9. StepOK(T[7])
    BY ONLY <1>8, PlainStep DEF Ops, Checks, Setters
  <2>. QED  BY ONLY <2>1, <2>2, <2>3, <2>5, <2>6, <2>8, <2>9
<1>11. OrderOK
  BY ONLY <1>1, <1>9 DEF OrderOK
<1>12. Suitable => max_node >= 2
  BY ONLY <1>1, <1>3 DEF Suitable
<1>13. \A l \in 1..7 : T[l].op \in Setters <=> l \in {4, 6}
  BY ONLY <1>9 DEF Setters
<1>14. MasksOK
  <2>1. \A k, l \in 1..7 : T[k].op = "alloc" /\ T[l].op = "alloc" /\ T[k].name = T[l].name => k = l
    BY ONLY <1>9, <1>4
  <2>2. ASSUME NEW k \in 1..7, UsesMask(T[k]) PROVE \E a \in 1..(k - 1) : MaskAt(k, a)
    <3>. QED  BY ONLY <2>2, <1>9 DEF UsesMask
  <2>3. \A k \in 1..7 : T[k].op \in Setters /\ T[k].mask # NULL => ArgFits(k)
    <3>1. ArgFits(4)
      BY ONLY <1>5, Widths DEF ArgFits
    <3>2. ArgFits(6)
      BY ONLY <1>7, Widths DEF ArgFits
    <3>. QED  BY ONLY <1>13, <3>1, <3>2
  <2>. QED  BY ONLY <1>1, <2>1, <2>2, <2>3 DEF MasksOK
<1>15. SmallMasks
  <2>1. T[4].mask = NULL \/ T[4].mask \subseteq 0..3
    BY ONLY <1>5
  <2>2. T[6].mask = NULL \/ T[6].mask \subseteq 0..3
    BY ONLY <1>7
  <2>. QED  BY ONLY <1>1, <1>13, <2>1, <2>2 DEF SmallMasks
<1>16. ASSUME Suitable, NEW k \in 1..7 PROVE CallOK(k)
  <2>1. Effective(T[4], "none") = {1}
    BY ONLY <1>12, <1>16, <1>5, max_node \in Nat, MaskCuts DEF Effective, NULL
  <2>2. PolicyError(T[4], "none") = "0"
    BY ONLY <2>1, <1>12, <1>16, <1>5, Widths, GoodPolicy
  <2>3. CallOK(4)
    BY ONLY <1>5, <2>2, MbindCall
  <2>4. Effective(T[6], "none") = {0}
    BY ONLY <1>12, <1>16, <1>7, max_node \in Nat, MaskCuts DEF Effective, NULL
  <2>5. CallOK(6)
    BY ONLY <1>7, test = "mbind027" DEF CallOK, Setters
  <2>6. k \notin {4, 6} => CallOK(k)
    BY ONLY <1>16, <1>9, NoCall DEF Setters
  <2>. QED  BY ONLY <2>6, <2>3, <2>5
<1>17. ASSUME Suitable, NEW k \in 1..7 PROVE CheckOK(k)
  BY ONLY <1>9, NoCheck
<1>18. \A k \in 1..7 : Confirmed(k)
  BY ONLY <1>9 DEF Confirmed, Looks
<1>19. ScopeOK
  BY ONLY <1>1, <1>9, test = "mbind027" DEF ScopeOK, LoopOps
<1>. QED  BY ONLY <1>1, <1>10, <1>11, <1>14, <1>15, <1>19, <1>16, <1>17, <1>18 DEF TestOK

\* mbind 028
LEMMA Mbind028OK == ASSUME max_node \in Nat, test = "mbind028", T = Mbind028(max_node) PROVE TestOK
<1>1. Len(T) = 6 /\ DOMAIN T = 1..6
  BY DEF Mbind028, Need, Alloc, Mbind, Get, ModeIs, MaskIs, Mask, Shows
<1>2. T[1].op = "need" /\ T[1].k = 2
  BY DEF Mbind028, Need, Alloc, Mbind, Get, ModeIs, MaskIs, Mask, Shows
<1>3. T[2].op = "alloc" /\ T[2].name = "node_mask" /\ T[2].bits = max_node /\ max_node \in Nat
  BY DEF Mbind028, Need, Alloc, Mbind, Get, ModeIs, MaskIs, Mask, Shows
<1>4. T[3].op = "mbind" /\ T[3].at = 0 /\ T[3].len = 1 /\ T[3].mode = {"BIND"} /\ T[3].mask = {0, 1} /\ T[3].maxnode = BITS_PER_LONG /\ T[3].flags = {"MOVE"} /\ T[3].want = "ok"
  BY DEF Mbind028, Need, Alloc, Mbind, Get, ModeIs, MaskIs, Mask, Shows
<1>5. T[4].op = "get" /\ T[4].at = 0 /\ T[4].maxnode = max_node /\ T[4].m = TRUE /\ T[4].nm = TRUE /\ T[4].flags = {"ADDR"} /\ T[4].want = "ok" /\ max_node \in Nat
  BY DEF Mbind028, Need, Alloc, Mbind, Get, ModeIs, MaskIs, Mask, Shows
<1>6. T[5].op = "mode" /\ T[5].mode = {"BIND"}
  BY DEF Mbind028, Need, Alloc, Mbind, Get, ModeIs, MaskIs, Mask, Shows
<1>7. T[6].op = "word0" /\ T[6].bits = {0, 1}
  BY DEF Mbind028, Need, Alloc, Mbind, Get, ModeIs, MaskIs, Mask, Shows
<1>8. Suitable => max_node >= 2
  BY ONLY <1>1, <1>2 DEF Suitable
<1>9. PolicyStep(T[3])
  BY ONLY <1>4, Widths DEF PolicyStep, Modes
<1>10. StepOK(T[3])
  BY ONLY <1>4, <1>9, MbindStep DEF Wants
<1>11. Suitable => CallOK(3) /\ Finds(T[5], Policy(T[3])) /\ Finds(T[6], Policy(T[3]))
  <2>. SUFFICES ASSUME Suitable PROVE CallOK(3) /\ Finds(T[5], Policy(T[3])) /\ Finds(T[6], Policy(T[3]))  OBVIOUS
  <2>1. Effective(T[3], "none") = {0, 1}
    BY ONLY Suitable, <1>8, <1>4, max_node \in Nat, MaskCuts DEF Effective, NULL
  <2>2. PolicyError(T[3], "none") = "0"
    BY ONLY <2>1, <1>4, Widths, GoodPolicy
  <2>3. CallOK(3)
    BY ONLY <1>4, <2>2, MbindCall
  <2>4. Policy(T[3]) = [mode |-> {"BIND"}, mask |-> {0, 1}]
    BY ONLY <1>4, <2>1 DEF Policy
  <2>. QED  BY ONLY <2>3, <2>4, <1>6, <1>7 DEF Finds
<1>12. T[1].k \in Nat \ {0} /\ T[3].op \in Setters /\ T[6].op \in {"word0", "zero"}
  BY ONLY <1>2, <1>4, <1>7 DEF Setters
<1>13. T[3].mask \subseteq 0..3 /\ T[3].maxnode - 1 <= BITS_PER_LONG
  BY ONLY <1>4, Widths
<1>. QED  BY ONLY <1>1, <1>2, <1>3, <1>4, <1>5, <1>6, <1>7, <1>10, <1>11, <1>12, <1>13, max_node \in Nat, test = "mbind028", SetAndShown

\* mbind 029
LEMMA Mbind029OK == ASSUME max_node \in Nat, test = "mbind029", T = Mbind029(max_node) PROVE TestOK
<1>1. Len(T) = 1 /\ DOMAIN T = 1..1
  BY DEF Mbind029, Mbind
<1>2. T[1].op = "mbind" /\ T[1].at = 0 /\ T[1].len = 1 /\ T[1].mode = {"DEFAULT"} /\ T[1].mask = NULL /\ T[1].maxnode = 0 /\ T[1].flags = {"MOVE_ALL"} /\ T[1].want = "EPERM"
  BY DEF Mbind029, Mbind
<1>3. PolicyStep(T[1])
  BY ONLY <1>2, Widths DEF PolicyStep, Modes
<1>4. StepOK(T[1])
  BY ONLY <1>2, <1>3, MbindStep DEF Wants
<1>5. Suitable => CallOK(1)
  <2>. SUFFICES ASSUME Suitable PROVE CallOK(1)  OBVIOUS
  <2>1. Effective(T[1], "none") = {}
    BY ONLY <1>2 DEF Effective
  <2>2. PolicyError(T[1], "none") = "0"
    BY ONLY <2>1, <1>2, Widths, GoodPolicy
  <2>. QED  BY ONLY <1>2, <2>2, MbindCall
<1>. QED  BY ONLY <1>1, <1>2, <1>4, <1>5, max_node \in Nat, test = "mbind029", Widths, OneCall DEF Setters

\* mbind 030
LEMMA Mbind030OK == ASSUME max_node \in Nat, test = "mbind030", T = Mbind030(max_node) PROVE TestOK
<1>1. Len(T) = 1 /\ DOMAIN T = 1..1
  BY DEF Mbind030, Mbind
<1>2. T[1].op = "mbind" /\ T[1].at = 0 /\ T[1].len = 1 /\ T[1].mode = {"UNKNOWN"} /\ T[1].mask = NULL /\ T[1].maxnode = 0 /\ T[1].flags = {} /\ T[1].want = "EINVAL"
  BY DEF Mbind030, Mbind
<1>3. PolicyStep(T[1])
  BY ONLY <1>2, Widths DEF PolicyStep, Modes
<1>4. StepOK(T[1])
  BY ONLY <1>2, <1>3, MbindStep DEF Wants
<1>5. Suitable => CallOK(1)
  <2>. SUFFICES ASSUME Suitable PROVE CallOK(1)  OBVIOUS
  <2>1. Effective(T[1], "none") = {}
    BY ONLY <1>2 DEF Effective
  <2>2. PolicyError(T[1], "none") = "EINVAL"
    BY ONLY <2>1, <1>2, Widths, BadPolicies
  <2>. QED  BY ONLY <1>2, <2>2, MbindCall
<1>. QED  BY ONLY <1>1, <1>2, <1>4, <1>5, max_node \in Nat, test = "mbind030", Widths, OneCall DEF Setters

\* get_mempolicy 000
LEMMA Get000OK ==
  ASSUME max_node \in Nat, test = "get000", T = Get000(max_node)
  PROVE  TestOK
<1>1. Len(T) = 2 /\ DOMAIN T = 1..2
  BY DEF Get000, Get, ModeIs
<1>2. T[1].op = "get" /\ T[1].at = NOADDR /\ T[1].maxnode = 0 /\ T[1].m = TRUE /\ T[1].nm = FALSE /\ T[1].flags = {} /\ T[1].want = "ok"
  BY DEF Get000, Get, ModeIs
<1>3. T[2].op = "mode" /\ T[2].mode = {"DEFAULT"}
  BY DEF Get000, Get, ModeIs
<1>4. T[1].op = "get" /\ T[2].op = "mode"
  BY ONLY <1>2, <1>3
<1>5. \A k \in 1..2 : StepOK(T[k])
  <2>1. StepOK(T[1])
    BY ONLY <1>2, GetStep DEF NOADDR, WILDADDR, Wants
  <2>2. StepOK(T[2])
    BY ONLY <1>3, PlainStep DEF Ops, Checks, Setters
  <2>. QED  BY ONLY <2>1, <2>2
<1>6. OrderOK
  BY ONLY <1>1, <1>4 DEF OrderOK
<1>7. \A l \in 1..2 : T[l].op \in Setters <=> FALSE
  BY ONLY <1>4 DEF Setters
<1>8. MasksOK
  <2>1. \A k, l \in 1..2 : T[k].op = "alloc" /\ T[l].op = "alloc" /\ T[k].name = T[l].name => k = l
    BY ONLY <1>4
  <2>2. ASSUME NEW k \in 1..2, UsesMask(T[k]) PROVE \E a \in 1..(k - 1) : MaskAt(k, a)
    <3>. QED  BY ONLY <2>2, <1>4, <1>2 DEF UsesMask
  <2>3. \A k \in 1..2 : T[k].op \in Setters /\ T[k].mask # NULL => ArgFits(k)
    <3>. QED  BY ONLY <1>7
  <2>. QED  BY ONLY <1>1, <2>1, <2>2, <2>3 DEF MasksOK
<1>9. SmallMasks
  <2>. QED  BY ONLY <1>1, <1>7 DEF SmallMasks
<1>10. ASSUME Suitable, NEW k \in 1..2 PROVE CallOK(k)
  <2>1. CallOK(1)
    BY ONLY <1>10, <1>2, max_node \in Nat, NodesLaw, GetCall DEF NOADDR, WILDADDR
  <2>2. k \notin {1} => CallOK(k)
    BY ONLY <1>10, <1>4, NoCall DEF Setters
  <2>. QED  BY ONLY <2>2, <2>1
<1>11. ASSUME Suitable, NEW k \in 1..2 PROVE CheckOK(k)
  <2>1. Untouched(2, T[1].at)
    BY ONLY <1>2, <1>7 DEF Untouched, Covers
  <2>2. Finds(T[2], D)
    BY ONLY <1>3 DEF Finds, D
  <2>3. CheckOK(2)
    BY ONLY <1>3, <1>2, <2>1, <2>2, CheckAfter
  <2>4. k \notin {2} => CheckOK(k)
    BY ONLY <1>11, <1>4, NoCheck
  <2>. QED  BY ONLY <2>4, <2>3
<1>12. \A k \in 1..2 : Confirmed(k)
  BY ONLY <1>1, <1>7 DEF Confirmed
<1>13. ScopeOK
  BY ONLY <1>1, <1>4, test = "get000" DEF ScopeOK, LoopOps
<1>. QED  BY ONLY <1>1, <1>5, <1>6, <1>8, <1>9, <1>13, <1>10, <1>11, <1>12 DEF TestOK

\* get_mempolicy 001
LEMMA Get001OK ==
  ASSUME max_node \in Nat, test = "get001", T = Get001(max_node)
  PROVE  TestOK
<1>1. Len(T) = 5 /\ DOMAIN T = 1..5
  BY DEF Get001, Need, Alloc, Preset, Get, MaskIsZero, Mask
<1>2. T[1].op = "need" /\ T[1].k = 1
  BY DEF Get001, Need, Alloc, Preset, Get, MaskIsZero, Mask
<1>3. T[2].op = "alloc" /\ T[2].name = "node_mask" /\ T[2].bits = max_node /\ max_node \in Nat
  BY DEF Get001, Need, Alloc, Preset, Get, MaskIsZero, Mask
<1>4. T[3].op = "preset" /\ T[3].bits = {0}
  BY DEF Get001, Need, Alloc, Preset, Get, MaskIsZero, Mask
<1>5. T[4].op = "get" /\ T[4].at = NOADDR /\ T[4].maxnode = max_node /\ T[4].m = FALSE /\ T[4].nm = TRUE /\ T[4].flags = {} /\ T[4].want = "ok" /\ max_node \in Nat
  BY DEF Get001, Need, Alloc, Preset, Get, MaskIsZero, Mask
<1>6. T[5].op = "zero"
  BY DEF Get001, Need, Alloc, Preset, Get, MaskIsZero, Mask
<1>7. T[1].op = "need" /\ T[2].op = "alloc" /\ T[3].op = "preset" /\ T[4].op = "get" /\ T[5].op = "zero"
  BY ONLY <1>2, <1>3, <1>4, <1>5, <1>6
<1>8. \A k \in 1..5 : StepOK(T[k])
  <2>1. StepOK(T[1])
    BY ONLY <1>2, NeedStep
  <2>2. StepOK(T[2])
    BY ONLY <1>3, AllocStep, Widths
  <2>3. StepOK(T[3])
    BY ONLY <1>4, PresetStep
  <2>4. StepOK(T[4])
    BY ONLY <1>5, GetStep DEF NOADDR, WILDADDR, Wants
  <2>5. StepOK(T[5])
    BY ONLY <1>6, PlainStep DEF Ops, Checks, Setters
  <2>. QED  BY ONLY <2>1, <2>2, <2>3, <2>4, <2>5
<1>9. OrderOK
  BY ONLY <1>1, <1>7 DEF OrderOK
<1>10. Suitable => max_node >= 1
  BY ONLY <1>1, <1>2 DEF Suitable
<1>11. \A l \in 1..5 : T[l].op \in Setters <=> FALSE
  BY ONLY <1>7 DEF Setters
<1>12. MasksOK
  <2>1. \A k, l \in 1..5 : T[k].op = "alloc" /\ T[l].op = "alloc" /\ T[k].name = T[l].name => k = l
    BY ONLY <1>7, <1>3
  <2>2. ASSUME NEW k \in 1..5, UsesMask(T[k]) PROVE \E a \in 1..(k - 1) : MaskAt(k, a)
    <3>1. k \in {3, 4, 5}
      BY ONLY <2>2, <1>7 DEF UsesMask
    <3>2. MaskAt(3, 2)
      BY ONLY <1>4, <1>3, <1>10 DEF MaskAt
    <3>3. MaskAt(4, 2)
      BY ONLY <1>5, <1>3, <1>10 DEF MaskAt
    <3>4. MaskAt(5, 2)
      BY ONLY <1>6, <1>3, <1>10 DEF MaskAt
    <3>. QED  BY ONLY <3>1, <3>2, <3>3, <3>4
  <2>3. \A k \in 1..5 : T[k].op \in Setters /\ T[k].mask # NULL => ArgFits(k)
    <3>. QED  BY ONLY <1>11
  <2>. QED  BY ONLY <1>1, <2>1, <2>2, <2>3 DEF MasksOK
<1>13. SmallMasks
  <2>. QED  BY ONLY <1>1, <1>11 DEF SmallMasks
<1>14. ASSUME Suitable, NEW k \in 1..5 PROVE CallOK(k)
  <2>1. CallOK(4)
    BY ONLY <1>10, <1>14, <1>5, max_node \in Nat, NodesLaw, GetCall DEF NOADDR, WILDADDR
  <2>2. k \notin {4} => CallOK(k)
    BY ONLY <1>14, <1>7, NoCall DEF Setters
  <2>. QED  BY ONLY <2>2, <2>1
<1>15. ASSUME Suitable, NEW k \in 1..5 PROVE CheckOK(k)
  <2>1. Untouched(5, T[4].at)
    BY ONLY <1>5, <1>11 DEF Untouched, Covers
  <2>2. Finds(T[5], D)
    BY ONLY <1>6 DEF Finds, D
  <2>3. CheckOK(5)
    BY ONLY <1>6, <1>5, <2>1, <2>2, CheckAfter
  <2>4. k \notin {5} => CheckOK(k)
    BY ONLY <1>15, <1>7, NoCheck
  <2>. QED  BY ONLY <2>4, <2>3
<1>16. \A k \in 1..5 : Confirmed(k)
  BY ONLY <1>1, <1>11 DEF Confirmed
<1>17. ScopeOK
  BY ONLY <1>1, <1>7, test = "get001" DEF ScopeOK, LoopOps
<1>. QED  BY ONLY <1>1, <1>8, <1>9, <1>12, <1>13, <1>17, <1>14, <1>15, <1>16 DEF TestOK

\* get_mempolicy 002
LEMMA Get002OK == ASSUME max_node \in Nat, test = "get002", T = Get002(max_node) PROVE TestOK
<1>1. Len(T) = 1 /\ DOMAIN T = 1..1
  BY DEF Get002, Get
<1>2. T[1].op = "get" /\ T[1].at = NOADDR /\ T[1].maxnode = 0 /\ T[1].m = FALSE /\ T[1].nm = FALSE /\ T[1].flags = {} /\ T[1].want = "ok"
  BY DEF Get002, Get
<1>3. StepOK(T[1])
  BY ONLY <1>2, GetStep DEF NOADDR, WILDADDR, Wants
<1>4. ~UsesMask(T[1])
  BY ONLY <1>2 DEF UsesMask
<1>5. Suitable => CallOK(1)
  BY ONLY <1>2, max_node \in Nat, NodesLaw, GetCall DEF NOADDR, WILDADDR
<1>. QED  BY ONLY <1>1, <1>2, <1>3, <1>4, <1>5, max_node \in Nat, test = "get002", Widths, OneCall DEF Setters

\* get_mempolicy 003
LEMMA Get003OK ==
  ASSUME max_node \in Nat, test = "get003", T = Get003(max_node)
  PROVE  TestOK
<1>1. Len(T) = 6 /\ DOMAIN T = 1..6
  BY DEF Get003, Need, Alloc, Preset, Get, ModeIs, MaskIsZero, Mask
<1>2. T[1].op = "need" /\ T[1].k = 1
  BY DEF Get003, Need, Alloc, Preset, Get, ModeIs, MaskIsZero, Mask
<1>3. T[2].op = "alloc" /\ T[2].name = "node_mask" /\ T[2].bits = max_node /\ max_node \in Nat
  BY DEF Get003, Need, Alloc, Preset, Get, ModeIs, MaskIsZero, Mask
<1>4. T[3].op = "preset" /\ T[3].bits = {0}
  BY DEF Get003, Need, Alloc, Preset, Get, ModeIs, MaskIsZero, Mask
<1>5. T[4].op = "get" /\ T[4].at = NOADDR /\ T[4].maxnode = max_node /\ T[4].m = TRUE /\ T[4].nm = TRUE /\ T[4].flags = {} /\ T[4].want = "ok" /\ max_node \in Nat
  BY DEF Get003, Need, Alloc, Preset, Get, ModeIs, MaskIsZero, Mask
<1>6. T[5].op = "mode" /\ T[5].mode = {"DEFAULT"}
  BY DEF Get003, Need, Alloc, Preset, Get, ModeIs, MaskIsZero, Mask
<1>7. T[6].op = "zero"
  BY DEF Get003, Need, Alloc, Preset, Get, ModeIs, MaskIsZero, Mask
<1>8. T[1].op = "need" /\ T[2].op = "alloc" /\ T[3].op = "preset" /\ T[4].op = "get" /\ T[5].op = "mode" /\ T[6].op = "zero"
  BY ONLY <1>2, <1>3, <1>4, <1>5, <1>6, <1>7
<1>9. \A k \in 1..6 : StepOK(T[k])
  <2>1. StepOK(T[1])
    BY ONLY <1>2, NeedStep
  <2>2. StepOK(T[2])
    BY ONLY <1>3, AllocStep, Widths
  <2>3. StepOK(T[3])
    BY ONLY <1>4, PresetStep
  <2>4. StepOK(T[4])
    BY ONLY <1>5, GetStep DEF NOADDR, WILDADDR, Wants
  <2>5. StepOK(T[5])
    BY ONLY <1>6, PlainStep DEF Ops, Checks, Setters
  <2>6. StepOK(T[6])
    BY ONLY <1>7, PlainStep DEF Ops, Checks, Setters
  <2>. QED  BY ONLY <2>1, <2>2, <2>3, <2>4, <2>5, <2>6
<1>10. OrderOK
  BY ONLY <1>1, <1>8 DEF OrderOK
<1>11. Suitable => max_node >= 1
  BY ONLY <1>1, <1>2 DEF Suitable
<1>12. \A l \in 1..6 : T[l].op \in Setters <=> FALSE
  BY ONLY <1>8 DEF Setters
<1>13. MasksOK
  <2>1. \A k, l \in 1..6 : T[k].op = "alloc" /\ T[l].op = "alloc" /\ T[k].name = T[l].name => k = l
    BY ONLY <1>8, <1>3
  <2>2. ASSUME NEW k \in 1..6, UsesMask(T[k]) PROVE \E a \in 1..(k - 1) : MaskAt(k, a)
    <3>1. k \in {3, 4, 6}
      BY ONLY <2>2, <1>8 DEF UsesMask
    <3>2. MaskAt(3, 2)
      BY ONLY <1>4, <1>3, <1>11 DEF MaskAt
    <3>3. MaskAt(4, 2)
      BY ONLY <1>5, <1>3, <1>11 DEF MaskAt
    <3>4. MaskAt(6, 2)
      BY ONLY <1>7, <1>3, <1>11 DEF MaskAt
    <3>. QED  BY ONLY <3>1, <3>2, <3>3, <3>4
  <2>3. \A k \in 1..6 : T[k].op \in Setters /\ T[k].mask # NULL => ArgFits(k)
    <3>. QED  BY ONLY <1>12
  <2>. QED  BY ONLY <1>1, <2>1, <2>2, <2>3 DEF MasksOK
<1>14. SmallMasks
  <2>. QED  BY ONLY <1>1, <1>12 DEF SmallMasks
<1>15. ASSUME Suitable, NEW k \in 1..6 PROVE CallOK(k)
  <2>1. CallOK(4)
    BY ONLY <1>11, <1>15, <1>5, max_node \in Nat, NodesLaw, GetCall DEF NOADDR, WILDADDR
  <2>2. k \notin {4} => CallOK(k)
    BY ONLY <1>15, <1>8, NoCall DEF Setters
  <2>. QED  BY ONLY <2>2, <2>1
<1>16. ASSUME Suitable, NEW k \in 1..6 PROVE CheckOK(k)
  <2>1. Untouched(5, T[4].at)
    BY ONLY <1>5, <1>12 DEF Untouched, Covers
  <2>2. Finds(T[5], D)
    BY ONLY <1>6 DEF Finds, D
  <2>3. CheckOK(5)
    BY ONLY <1>6, <1>5, <2>1, <2>2, CheckAfter
  <2>4. Untouched(6, T[4].at)
    BY ONLY <1>5, <1>12 DEF Untouched, Covers
  <2>5. Finds(T[6], D)
    BY ONLY <1>7 DEF Finds, D
  <2>6. CheckOK(6)
    BY ONLY <1>7, <1>5, <2>4, <2>5, <1>6, CheckAfter
  <2>7. k \notin {5, 6} => CheckOK(k)
    BY ONLY <1>16, <1>8, NoCheck
  <2>. QED  BY ONLY <2>7, <2>3, <2>6
<1>17. \A k \in 1..6 : Confirmed(k)
  BY ONLY <1>1, <1>12 DEF Confirmed
<1>18. ScopeOK
  BY ONLY <1>1, <1>8, test = "get003" DEF ScopeOK, LoopOps
<1>. QED  BY ONLY <1>1, <1>9, <1>10, <1>13, <1>14, <1>18, <1>15, <1>16, <1>17 DEF TestOK

\* get_mempolicy 004
LEMMA Get004OK == ASSUME max_node \in Nat, test = "get004", T = Get004(max_node) PROVE TestOK
<1>1. Len(T) = 3 /\ DOMAIN T = 1..3
  BY DEF Get004, Need, Alloc, Get, Mask
<1>2. T[1].op = "need" /\ T[1].k = 1
  BY DEF Get004, Need, Alloc, Get, Mask
<1>3. T[2].op = "alloc" /\ T[2].name = "node_mask" /\ T[2].bits = max_node /\ max_node \in Nat
  BY DEF Get004, Need, Alloc, Get, Mask
<1>4. T[3].op = "get" /\ T[3].at = NOADDR /\ T[3].maxnode = 0 /\ T[3].m = TRUE /\ T[3].nm = TRUE /\ T[3].flags = {} /\ T[3].want = "EINVAL"
  BY DEF Get004, Need, Alloc, Get, Mask
<1>5. Suitable => max_node >= 1
  BY ONLY <1>1, <1>2 DEF Suitable
<1>6. StepOK(T[3])
  BY ONLY <1>4, GetStep DEF NOADDR, WILDADDR, Wants
<1>7. UsesMask(T[3]) => 3 > 1 /\ MaskAt(3, 2)
  BY ONLY <1>4, <1>3, <1>5 DEF MaskAt
<1>8. Suitable => CallOK(3)
  BY ONLY <1>5, <1>4, max_node \in Nat, NodesLaw, GetCall DEF NOADDR, WILDADDR
<1>. QED  BY ONLY <1>1, <1>2, <1>3, <1>4, <1>6, <1>7, <1>8, max_node \in Nat, test = "get004", Widths, OneCall DEF Setters

\* get_mempolicy 005
LEMMA Get005OK == ASSUME max_node \in Nat, test = "get005", T = Get005(max_node) PROVE TestOK
<1>1. Len(T) = 3 /\ DOMAIN T = 1..3
  BY DEF Get005, Need, Alloc, Get, Mask
<1>2. T[1].op = "need" /\ T[1].k = 1
  BY DEF Get005, Need, Alloc, Get, Mask
<1>3. T[2].op = "alloc" /\ T[2].name = "node_mask" /\ T[2].bits = max_node /\ max_node \in Nat
  BY DEF Get005, Need, Alloc, Get, Mask
<1>4. T[3].op = "get" /\ T[3].at = NOADDR /\ T[3].maxnode = max_node - 1 /\ T[3].m = TRUE /\ T[3].nm = TRUE /\ T[3].flags = {} /\ T[3].want = "EINVAL" /\ max_node \in Nat
  BY DEF Get005, Need, Alloc, Get, Mask
<1>5. Suitable => max_node >= 1
  BY ONLY <1>1, <1>2 DEF Suitable
<1>6. StepOK(T[3])
  BY ONLY <1>4, GetStep DEF NOADDR, WILDADDR, Wants
<1>7. UsesMask(T[3]) => 3 > 1 /\ MaskAt(3, 2)
  BY ONLY <1>4, <1>3, <1>5 DEF MaskAt
<1>8. Suitable => CallOK(3)
  BY ONLY <1>5, <1>4, max_node \in Nat, NodesLaw, GetCall DEF NOADDR, WILDADDR
<1>. QED  BY ONLY <1>1, <1>2, <1>3, <1>4, <1>6, <1>7, <1>8, max_node \in Nat, test = "get005", Widths, OneCall DEF Setters

\* get_mempolicy 006
LEMMA Get006OK ==
  ASSUME max_node \in Nat, test = "get006", T = Get006(max_node)
  PROVE  TestOK
<1>1. Len(T) = 4 /\ DOMAIN T = 1..4
  BY DEF Get006, Need, Alloc, Get, MaskIsFull, Mask
<1>2. T[1].op = "need" /\ T[1].k = 1
  BY DEF Get006, Need, Alloc, Get, MaskIsFull, Mask
<1>3. T[2].op = "alloc" /\ T[2].name = "node_mask" /\ T[2].bits = max_node /\ max_node \in Nat
  BY DEF Get006, Need, Alloc, Get, MaskIsFull, Mask
<1>4. T[3].op = "get" /\ T[3].at = NOADDR /\ T[3].maxnode = max_node /\ T[3].m = FALSE /\ T[3].nm = TRUE /\ T[3].flags = {"MEMS_ALLOWED"} /\ T[3].want = "ok" /\ max_node \in Nat
  BY DEF Get006, Need, Alloc, Get, MaskIsFull, Mask
<1>5. T[4].op = "full" /\ T[4].bits = max_node /\ max_node \in Nat
  BY DEF Get006, Need, Alloc, Get, MaskIsFull, Mask
<1>6. T[1].op = "need" /\ T[2].op = "alloc" /\ T[3].op = "get" /\ T[4].op = "full"
  BY ONLY <1>2, <1>3, <1>4, <1>5
<1>7. \A k \in 1..4 : StepOK(T[k])
  <2>1. StepOK(T[1])
    BY ONLY <1>2, NeedStep
  <2>2. StepOK(T[2])
    BY ONLY <1>3, AllocStep, Widths
  <2>3. StepOK(T[3])
    BY ONLY <1>4, GetStep DEF NOADDR, WILDADDR, Wants
  <2>4. StepOK(T[4])
    BY ONLY <1>5, PlainStep DEF Ops, Checks, Setters
  <2>. QED  BY ONLY <2>1, <2>2, <2>3, <2>4
<1>8. OrderOK
  BY ONLY <1>1, <1>6 DEF OrderOK
<1>9. Suitable => max_node >= 1
  BY ONLY <1>1, <1>2 DEF Suitable
<1>10. \A l \in 1..4 : T[l].op \in Setters <=> FALSE
  BY ONLY <1>6 DEF Setters
<1>11. MasksOK
  <2>1. \A k, l \in 1..4 : T[k].op = "alloc" /\ T[l].op = "alloc" /\ T[k].name = T[l].name => k = l
    BY ONLY <1>6, <1>3
  <2>2. ASSUME NEW k \in 1..4, UsesMask(T[k]) PROVE \E a \in 1..(k - 1) : MaskAt(k, a)
    <3>1. k \in {3, 4}
      BY ONLY <2>2, <1>6 DEF UsesMask
    <3>2. MaskAt(3, 2)
      BY ONLY <1>4, <1>3, <1>9 DEF MaskAt
    <3>3. MaskAt(4, 2)
      BY ONLY <1>5, <1>3, <1>9 DEF MaskAt
    <3>. QED  BY ONLY <3>1, <3>2, <3>3
  <2>3. \A k \in 1..4 : T[k].op \in Setters /\ T[k].mask # NULL => ArgFits(k)
    <3>. QED  BY ONLY <1>10
  <2>. QED  BY ONLY <1>1, <2>1, <2>2, <2>3 DEF MasksOK
<1>12. SmallMasks
  <2>. QED  BY ONLY <1>1, <1>10 DEF SmallMasks
<1>13. ASSUME Suitable, NEW k \in 1..4 PROVE CallOK(k)
  <2>1. CallOK(3)
    BY ONLY <1>9, <1>13, <1>4, max_node \in Nat, NodesLaw, GetCall DEF NOADDR, WILDADDR
  <2>2. k \notin {3} => CallOK(k)
    BY ONLY <1>13, <1>6, NoCall DEF Setters
  <2>. QED  BY ONLY <2>2, <2>1
<1>14. ASSUME Suitable, NEW k \in 1..4 PROVE CheckOK(k)
  <2>1. CheckOK(4)
    BY ONLY <1>5, <1>4 DEF CheckOK, GetOf
  <2>2. k \notin {4} => CheckOK(k)
    BY ONLY <1>14, <1>6, NoCheck
  <2>. QED  BY ONLY <2>2, <2>1
<1>15. \A k \in 1..4 : Confirmed(k)
  BY ONLY <1>1, <1>10 DEF Confirmed
<1>16. ScopeOK
  BY ONLY <1>1, <1>6, test = "get006" DEF ScopeOK, LoopOps
<1>. QED  BY ONLY <1>1, <1>7, <1>8, <1>11, <1>12, <1>16, <1>13, <1>14, <1>15 DEF TestOK

\* get_mempolicy 007
LEMMA Get007OK ==
  ASSUME max_node \in Nat, test = "get007", T = Get007(max_node)
  PROVE  TestOK
<1>1. Len(T) = 4 /\ DOMAIN T = 1..4
  BY DEF Get007, Need, Alloc, Get, MaskIsFull, Mask
<1>2. T[1].op = "need" /\ T[1].k = 1
  BY DEF Get007, Need, Alloc, Get, MaskIsFull, Mask
<1>3. T[2].op = "alloc" /\ T[2].name = "node_mask" /\ T[2].bits = max_node /\ max_node \in Nat
  BY DEF Get007, Need, Alloc, Get, MaskIsFull, Mask
<1>4. T[3].op = "get" /\ T[3].at = NOADDR /\ T[3].maxnode = max_node /\ T[3].m = TRUE /\ T[3].nm = TRUE /\ T[3].flags = {"MEMS_ALLOWED"} /\ T[3].want = "ok" /\ max_node \in Nat
  BY DEF Get007, Need, Alloc, Get, MaskIsFull, Mask
<1>5. T[4].op = "full" /\ T[4].bits = max_node /\ max_node \in Nat
  BY DEF Get007, Need, Alloc, Get, MaskIsFull, Mask
<1>6. T[1].op = "need" /\ T[2].op = "alloc" /\ T[3].op = "get" /\ T[4].op = "full"
  BY ONLY <1>2, <1>3, <1>4, <1>5
<1>7. \A k \in 1..4 : StepOK(T[k])
  <2>1. StepOK(T[1])
    BY ONLY <1>2, NeedStep
  <2>2. StepOK(T[2])
    BY ONLY <1>3, AllocStep, Widths
  <2>3. StepOK(T[3])
    BY ONLY <1>4, GetStep DEF NOADDR, WILDADDR, Wants
  <2>4. StepOK(T[4])
    BY ONLY <1>5, PlainStep DEF Ops, Checks, Setters
  <2>. QED  BY ONLY <2>1, <2>2, <2>3, <2>4
<1>8. OrderOK
  BY ONLY <1>1, <1>6 DEF OrderOK
<1>9. Suitable => max_node >= 1
  BY ONLY <1>1, <1>2 DEF Suitable
<1>10. \A l \in 1..4 : T[l].op \in Setters <=> FALSE
  BY ONLY <1>6 DEF Setters
<1>11. MasksOK
  <2>1. \A k, l \in 1..4 : T[k].op = "alloc" /\ T[l].op = "alloc" /\ T[k].name = T[l].name => k = l
    BY ONLY <1>6, <1>3
  <2>2. ASSUME NEW k \in 1..4, UsesMask(T[k]) PROVE \E a \in 1..(k - 1) : MaskAt(k, a)
    <3>1. k \in {3, 4}
      BY ONLY <2>2, <1>6 DEF UsesMask
    <3>2. MaskAt(3, 2)
      BY ONLY <1>4, <1>3, <1>9 DEF MaskAt
    <3>3. MaskAt(4, 2)
      BY ONLY <1>5, <1>3, <1>9 DEF MaskAt
    <3>. QED  BY ONLY <3>1, <3>2, <3>3
  <2>3. \A k \in 1..4 : T[k].op \in Setters /\ T[k].mask # NULL => ArgFits(k)
    <3>. QED  BY ONLY <1>10
  <2>. QED  BY ONLY <1>1, <2>1, <2>2, <2>3 DEF MasksOK
<1>12. SmallMasks
  <2>. QED  BY ONLY <1>1, <1>10 DEF SmallMasks
<1>13. ASSUME Suitable, NEW k \in 1..4 PROVE CallOK(k)
  <2>1. CallOK(3)
    BY ONLY <1>9, <1>13, <1>4, max_node \in Nat, NodesLaw, GetCall DEF NOADDR, WILDADDR
  <2>2. k \notin {3} => CallOK(k)
    BY ONLY <1>13, <1>6, NoCall DEF Setters
  <2>. QED  BY ONLY <2>2, <2>1
<1>14. ASSUME Suitable, NEW k \in 1..4 PROVE CheckOK(k)
  <2>1. CheckOK(4)
    BY ONLY <1>5, <1>4 DEF CheckOK, GetOf
  <2>2. k \notin {4} => CheckOK(k)
    BY ONLY <1>14, <1>6, NoCheck
  <2>. QED  BY ONLY <2>2, <2>1
<1>15. \A k \in 1..4 : Confirmed(k)
  BY ONLY <1>1, <1>10 DEF Confirmed
<1>16. ScopeOK
  BY ONLY <1>1, <1>6, test = "get007" DEF ScopeOK, LoopOps
<1>. QED  BY ONLY <1>1, <1>7, <1>8, <1>11, <1>12, <1>16, <1>13, <1>14, <1>15 DEF TestOK

\* get_mempolicy 008
LEMMA Get008OK == ASSUME max_node \in Nat, test = "get008", T = Get008(max_node) PROVE TestOK
<1>1. Len(T) = 1 /\ DOMAIN T = 1..1
  BY DEF Get008, Get
<1>2. T[1].op = "get" /\ T[1].at = NOADDR /\ T[1].maxnode = 0 /\ T[1].m = FALSE /\ T[1].nm = FALSE /\ T[1].flags = {"MEMS_ALLOWED"} /\ T[1].want = "ok"
  BY DEF Get008, Get
<1>3. StepOK(T[1])
  BY ONLY <1>2, GetStep DEF NOADDR, WILDADDR, Wants
<1>4. ~UsesMask(T[1])
  BY ONLY <1>2 DEF UsesMask
<1>5. Suitable => CallOK(1)
  BY ONLY <1>2, max_node \in Nat, NodesLaw, GetCall DEF NOADDR, WILDADDR
<1>. QED  BY ONLY <1>1, <1>2, <1>3, <1>4, <1>5, max_node \in Nat, test = "get008", Widths, OneCall DEF Setters

\* get_mempolicy 009
LEMMA Get009OK == ASSUME max_node \in Nat, test = "get009", T = Get009(max_node) PROVE TestOK
<1>1. Len(T) = 3 /\ DOMAIN T = 1..3
  BY DEF Get009, Need, Alloc, Get, Mask
<1>2. T[1].op = "need" /\ T[1].k = 1
  BY DEF Get009, Need, Alloc, Get, Mask
<1>3. T[2].op = "alloc" /\ T[2].name = "node_mask" /\ T[2].bits = max_node /\ max_node \in Nat
  BY DEF Get009, Need, Alloc, Get, Mask
<1>4. T[3].op = "get" /\ T[3].at = 0 /\ T[3].maxnode = max_node /\ T[3].m = FALSE /\ T[3].nm = TRUE /\ T[3].flags = {"MEMS_ALLOWED", "ADDR"} /\ T[3].want = "EINVAL" /\ max_node \in Nat
  BY DEF Get009, Need, Alloc, Get, Mask
<1>5. Suitable => max_node >= 1
  BY ONLY <1>1, <1>2 DEF Suitable
<1>6. StepOK(T[3])
  BY ONLY <1>4, GetStep DEF NOADDR, WILDADDR, Wants
<1>7. UsesMask(T[3]) => 3 > 1 /\ MaskAt(3, 2)
  BY ONLY <1>4, <1>3, <1>5 DEF MaskAt
<1>8. Suitable => CallOK(3)
  BY ONLY <1>5, <1>4, max_node \in Nat, NodesLaw, GetCall DEF NOADDR, WILDADDR
<1>. QED  BY ONLY <1>1, <1>2, <1>3, <1>4, <1>6, <1>7, <1>8, max_node \in Nat, test = "get009", Widths, OneCall DEF Setters

\* get_mempolicy 010
LEMMA Get010OK == ASSUME max_node \in Nat, test = "get010", T = Get010(max_node) PROVE TestOK
<1>1. Len(T) = 3 /\ DOMAIN T = 1..3
  BY DEF Get010, Need, Alloc, Get, Mask
<1>2. T[1].op = "need" /\ T[1].k = 1
  BY DEF Get010, Need, Alloc, Get, Mask
<1>3. T[2].op = "alloc" /\ T[2].name = "node_mask" /\ T[2].bits = max_node /\ max_node \in Nat
  BY DEF Get010, Need, Alloc, Get, Mask
<1>4. T[3].op = "get" /\ T[3].at = NOADDR /\ T[3].maxnode = max_node /\ T[3].m = FALSE /\ T[3].nm = TRUE /\ T[3].flags = {"MEMS_ALLOWED", "NODE"} /\ T[3].want = "EINVAL" /\ max_node \in Nat
  BY DEF Get010, Need, Alloc, Get, Mask
<1>5. Suitable => max_node >= 1
  BY ONLY <1>1, <1>2 DEF Suitable
<1>6. StepOK(T[3])
  BY ONLY <1>4, GetStep DEF NOADDR, WILDADDR, Wants
<1>7. UsesMask(T[3]) => 3 > 1 /\ MaskAt(3, 2)
  BY ONLY <1>4, <1>3, <1>5 DEF MaskAt
<1>8. Suitable => CallOK(3)
  BY ONLY <1>5, <1>4, max_node \in Nat, NodesLaw, GetCall DEF NOADDR, WILDADDR
<1>. QED  BY ONLY <1>1, <1>2, <1>3, <1>4, <1>6, <1>7, <1>8, max_node \in Nat, test = "get010", Widths, OneCall DEF Setters

\* get_mempolicy 011
LEMMA Get011OK ==
  ASSUME max_node \in Nat, test = "get011", T = Get011(max_node)
  PROVE  TestOK
<1>1. Len(T) = 4 /\ DOMAIN T = 1..4
  BY DEF Get011, Need, Mbind, Get, ModeIs
<1>2. T[1].op = "need" /\ T[1].k = 2
  BY DEF Get011, Need, Mbind, Get, ModeIs
<1>3. T[2].op = "mbind" /\ T[2].at = 0 /\ T[2].len = 1 /\ T[2].mode = {"BIND", "STATIC"} /\ T[2].mask = {1} /\ T[2].maxnode = BITS_PER_LONG /\ T[2].flags = {} /\ T[2].want = "ok"
  BY DEF Get011, Need, Mbind, Get, ModeIs
<1>4. T[3].op = "get" /\ T[3].at = 0 /\ T[3].maxnode = 0 /\ T[3].m = TRUE /\ T[3].nm = FALSE /\ T[3].flags = {"ADDR"} /\ T[3].want = "ok"
  BY DEF Get011, Need, Mbind, Get, ModeIs
<1>5. T[4].op = "mode" /\ T[4].mode = {"BIND", "STATIC"}
  BY DEF Get011, Need, Mbind, Get, ModeIs
<1>6. T[1].op = "need" /\ T[2].op = "mbind" /\ T[3].op = "get" /\ T[4].op = "mode"
  BY ONLY <1>2, <1>3, <1>4, <1>5
<1>7. \A k \in 1..4 : StepOK(T[k])
  <2>1. StepOK(T[1])
    BY ONLY <1>2, NeedStep
  <2>2. PolicyStep(T[2])
    BY ONLY <1>3, Widths DEF PolicyStep, Modes
  <2>3. StepOK(T[2])
    BY ONLY <1>3, <2>2, MbindStep DEF Wants
  <2>4. StepOK(T[3])
    BY ONLY <1>4, GetStep DEF NOADDR, WILDADDR, Wants
  <2>5. StepOK(T[4])
    BY ONLY <1>5, PlainStep DEF Ops, Checks, Setters
  <2>. QED  BY ONLY <2>1, <2>3, <2>4, <2>5
<1>8. OrderOK
  BY ONLY <1>1, <1>6 DEF OrderOK
<1>9. Suitable => max_node >= 2
  BY ONLY <1>1, <1>2 DEF Suitable
<1>10. \A l \in 1..4 : T[l].op \in Setters <=> l \in {2}
  BY ONLY <1>6 DEF Setters
<1>11. MasksOK
  <2>1. \A k, l \in 1..4 : T[k].op = "alloc" /\ T[l].op = "alloc" /\ T[k].name = T[l].name => k = l
    BY ONLY <1>6
  <2>2. ASSUME NEW k \in 1..4, UsesMask(T[k]) PROVE \E a \in 1..(k - 1) : MaskAt(k, a)
    <3>. QED  BY ONLY <2>2, <1>6, <1>4 DEF UsesMask
  <2>3. \A k \in 1..4 : T[k].op \in Setters /\ T[k].mask # NULL => ArgFits(k)
    <3>1. ArgFits(2)
      BY ONLY <1>3, Widths DEF ArgFits
    <3>. QED  BY ONLY <1>10, <3>1
  <2>. QED  BY ONLY <1>1, <2>1, <2>2, <2>3 DEF MasksOK
<1>12. SmallMasks
  <2>1. T[2].mask = NULL \/ T[2].mask \subseteq 0..3
    BY ONLY <1>3
  <2>. QED  BY ONLY <1>1, <1>10, <2>1 DEF SmallMasks
<1>13. ASSUME Suitable, NEW k \in 1..4 PROVE CallOK(k)
  <2>1. Effective(T[2], "none") = {1}
    BY ONLY <1>9, <1>13, <1>3, max_node \in Nat, MaskCuts DEF Effective, NULL
  <2>2. PolicyError(T[2], "none") = "0"
    BY ONLY <2>1, <1>9, <1>13, <1>3, Widths, GoodPolicy
  <2>3. CallOK(2)
    BY ONLY <1>3, <2>2, MbindCall
  <2>4. CallOK(3)
    BY ONLY <1>9, <1>13, <1>4, max_node \in Nat, NodesLaw, GetCall DEF NOADDR, WILDADDR
  <2>5. k \notin {2, 3} => CallOK(k)
    BY ONLY <1>13, <1>6, NoCall DEF Setters
  <2>. QED  BY ONLY <2>5, <2>3, <2>4
<1>14. ASSUME Suitable, NEW k \in 1..4 PROVE CheckOK(k)
  <2>1. Effective(T[2], "none") = {1}
    BY ONLY <1>9, <1>14, <1>3, max_node \in Nat, MaskCuts DEF Effective, NULL
  <2>2. Policy(T[2]) = [mode |-> {"BIND", "STATIC"}, mask |-> {1}]
    BY ONLY <1>3, <2>1 DEF Policy
  <2>3. LastCover(4, T[3].at, 2)
    BY ONLY <1>4, <1>10, <1>3 DEF LastCover, Covers, Setters, PROC, NOADDR
  <2>4. Finds(T[4], Policy(T[2]))
    BY ONLY <1>5, <2>2 DEF Finds
  <2>5. CheckOK(4)
    BY ONLY <1>5, <1>4, <2>3, <2>4, CheckAfter
  <2>6. k \notin {4} => CheckOK(k)
    BY ONLY <1>14, <1>6, NoCheck
  <2>. QED  BY ONLY <2>6, <2>5
<1>15. \A k \in 1..4 : Confirmed(k)
  BY DEF Confirmed
<1>16. ScopeOK
  BY ONLY <1>1, <1>6, test = "get011" DEF ScopeOK, LoopOps
<1>. QED  BY ONLY <1>1, <1>7, <1>8, <1>11, <1>12, <1>16, <1>13, <1>14, <1>15 DEF TestOK

\* get_mempolicy 012
LEMMA Get012OK ==
  ASSUME max_node \in Nat, test = "get012", T = Get012(max_node)
  PROVE  TestOK
<1>1. Len(T) = 6 /\ DOMAIN T = 1..6
  BY DEF Get012, Need, Alloc, Preset, Get, ModeIs, MaskIsZero, Mask
<1>2. T[1].op = "need" /\ T[1].k = 1
  BY DEF Get012, Need, Alloc, Preset, Get, ModeIs, MaskIsZero, Mask
<1>3. T[2].op = "alloc" /\ T[2].name = "node_mask" /\ T[2].bits = max_node /\ max_node \in Nat
  BY DEF Get012, Need, Alloc, Preset, Get, ModeIs, MaskIsZero, Mask
<1>4. T[3].op = "preset" /\ T[3].bits = {0}
  BY DEF Get012, Need, Alloc, Preset, Get, ModeIs, MaskIsZero, Mask
<1>5. T[4].op = "get" /\ T[4].at = 0 /\ T[4].maxnode = max_node /\ T[4].m = TRUE /\ T[4].nm = TRUE /\ T[4].flags = {"ADDR"} /\ T[4].want = "ok" /\ max_node \in Nat
  BY DEF Get012, Need, Alloc, Preset, Get, ModeIs, MaskIsZero, Mask
<1>6. T[5].op = "mode" /\ T[5].mode = {"DEFAULT"}
  BY DEF Get012, Need, Alloc, Preset, Get, ModeIs, MaskIsZero, Mask
<1>7. T[6].op = "zero"
  BY DEF Get012, Need, Alloc, Preset, Get, ModeIs, MaskIsZero, Mask
<1>8. T[1].op = "need" /\ T[2].op = "alloc" /\ T[3].op = "preset" /\ T[4].op = "get" /\ T[5].op = "mode" /\ T[6].op = "zero"
  BY ONLY <1>2, <1>3, <1>4, <1>5, <1>6, <1>7
<1>9. \A k \in 1..6 : StepOK(T[k])
  <2>1. StepOK(T[1])
    BY ONLY <1>2, NeedStep
  <2>2. StepOK(T[2])
    BY ONLY <1>3, AllocStep, Widths
  <2>3. StepOK(T[3])
    BY ONLY <1>4, PresetStep
  <2>4. StepOK(T[4])
    BY ONLY <1>5, GetStep DEF NOADDR, WILDADDR, Wants
  <2>5. StepOK(T[5])
    BY ONLY <1>6, PlainStep DEF Ops, Checks, Setters
  <2>6. StepOK(T[6])
    BY ONLY <1>7, PlainStep DEF Ops, Checks, Setters
  <2>. QED  BY ONLY <2>1, <2>2, <2>3, <2>4, <2>5, <2>6
<1>10. OrderOK
  BY ONLY <1>1, <1>8 DEF OrderOK
<1>11. Suitable => max_node >= 1
  BY ONLY <1>1, <1>2 DEF Suitable
<1>12. \A l \in 1..6 : T[l].op \in Setters <=> FALSE
  BY ONLY <1>8 DEF Setters
<1>13. MasksOK
  <2>1. \A k, l \in 1..6 : T[k].op = "alloc" /\ T[l].op = "alloc" /\ T[k].name = T[l].name => k = l
    BY ONLY <1>8, <1>3
  <2>2. ASSUME NEW k \in 1..6, UsesMask(T[k]) PROVE \E a \in 1..(k - 1) : MaskAt(k, a)
    <3>1. k \in {3, 4, 6}
      BY ONLY <2>2, <1>8 DEF UsesMask
    <3>2. MaskAt(3, 2)
      BY ONLY <1>4, <1>3, <1>11 DEF MaskAt
    <3>3. MaskAt(4, 2)
      BY ONLY <1>5, <1>3, <1>11 DEF MaskAt
    <3>4. MaskAt(6, 2)
      BY ONLY <1>7, <1>3, <1>11 DEF MaskAt
    <3>. QED  BY ONLY <3>1, <3>2, <3>3, <3>4
  <2>3. \A k \in 1..6 : T[k].op \in Setters /\ T[k].mask # NULL => ArgFits(k)
    <3>. QED  BY ONLY <1>12
  <2>. QED  BY ONLY <1>1, <2>1, <2>2, <2>3 DEF MasksOK
<1>14. SmallMasks
  <2>. QED  BY ONLY <1>1, <1>12 DEF SmallMasks
<1>15. ASSUME Suitable, NEW k \in 1..6 PROVE CallOK(k)
  <2>1. CallOK(4)
    BY ONLY <1>11, <1>15, <1>5, max_node \in Nat, NodesLaw, GetCall DEF NOADDR, WILDADDR
  <2>2. k \notin {4} => CallOK(k)
    BY ONLY <1>15, <1>8, NoCall DEF Setters
  <2>. QED  BY ONLY <2>2, <2>1
<1>16. ASSUME Suitable, NEW k \in 1..6 PROVE CheckOK(k)
  <2>1. Untouched(5, T[4].at)
    BY ONLY <1>5, <1>12 DEF Untouched, Covers
  <2>2. Finds(T[5], D)
    BY ONLY <1>6 DEF Finds, D
  <2>3. CheckOK(5)
    BY ONLY <1>6, <1>5, <2>1, <2>2, CheckAfter
  <2>4. Untouched(6, T[4].at)
    BY ONLY <1>5, <1>12 DEF Untouched, Covers
  <2>5. Finds(T[6], D)
    BY ONLY <1>7 DEF Finds, D
  <2>6. CheckOK(6)
    BY ONLY <1>7, <1>5, <2>4, <2>5, <1>6, CheckAfter
  <2>7. k \notin {5, 6} => CheckOK(k)
    BY ONLY <1>16, <1>8, NoCheck
  <2>. QED  BY ONLY <2>7, <2>3, <2>6
<1>17. \A k \in 1..6 : Confirmed(k)
  BY ONLY <1>1, <1>12 DEF Confirmed
<1>18. ScopeOK
  BY ONLY <1>1, <1>8, test = "get012" DEF ScopeOK, LoopOps
<1>. QED  BY ONLY <1>1, <1>9, <1>10, <1>13, <1>14, <1>18, <1>15, <1>16, <1>17 DEF TestOK

\* get_mempolicy 013
LEMMA Get013OK == ASSUME max_node \in Nat, test = "get013", T = Get013(max_node) PROVE TestOK
<1>1. Len(T) = 1 /\ DOMAIN T = 1..1
  BY DEF Get013, Get
<1>2. T[1].op = "get" /\ T[1].at = WILDADDR /\ T[1].maxnode = 0 /\ T[1].m = TRUE /\ T[1].nm = FALSE /\ T[1].flags = {"ADDR"} /\ T[1].want = "EFAULT"
  BY DEF Get013, Get
<1>3. StepOK(T[1])
  BY ONLY <1>2, GetStep DEF NOADDR, WILDADDR, Wants
<1>4. ~UsesMask(T[1])
  BY ONLY <1>2 DEF UsesMask
<1>5. Suitable => CallOK(1)
  BY ONLY <1>2, max_node \in Nat, NodesLaw, GetCall DEF NOADDR, WILDADDR
<1>. QED  BY ONLY <1>1, <1>2, <1>3, <1>4, <1>5, max_node \in Nat, test = "get013", Widths, OneCall DEF Setters

\* get_mempolicy 014
LEMMA Get014OK ==
  ASSUME max_node \in Nat, test = "get014", T = Get014(max_node)
  PROVE  TestOK
<1>1. Len(T) = 3 /\ DOMAIN T = 1..3
  BY DEF Get014, MapChecked, Get
<1>2. T[1].op = "map"
  BY DEF Get014, MapChecked, Get
<1>3. T[2].op = "mapped"
  BY DEF Get014, MapChecked, Get
<1>4. T[3].op = "get" /\ T[3].at = 0 /\ T[3].maxnode = 0 /\ T[3].m = TRUE /\ T[3].nm = FALSE /\ T[3].flags = {"ADDR"} /\ T[3].want = "ok"
  BY DEF Get014, MapChecked, Get
<1>5. T[1].op = "map" /\ T[2].op = "mapped" /\ T[3].op = "get"
  BY ONLY <1>2, <1>3, <1>4
<1>6. \A k \in 1..3 : StepOK(T[k])
  <2>1. StepOK(T[1])
    BY ONLY <1>2, PlainStep DEF Ops, Checks, Setters
  <2>2. StepOK(T[2])
    BY ONLY <1>3, PlainStep DEF Ops, Checks, Setters
  <2>3. StepOK(T[3])
    BY ONLY <1>4, GetStep DEF NOADDR, WILDADDR, Wants
  <2>. QED  BY ONLY <2>1, <2>2, <2>3
<1>7. OrderOK
  BY ONLY <1>1, <1>5 DEF OrderOK
<1>8. \A l \in 1..3 : T[l].op \in Setters <=> FALSE
  BY ONLY <1>5 DEF Setters
<1>9. MasksOK
  <2>1. \A k, l \in 1..3 : T[k].op = "alloc" /\ T[l].op = "alloc" /\ T[k].name = T[l].name => k = l
    BY ONLY <1>5
  <2>2. ASSUME NEW k \in 1..3, UsesMask(T[k]) PROVE \E a \in 1..(k - 1) : MaskAt(k, a)
    <3>. QED  BY ONLY <2>2, <1>5, <1>4 DEF UsesMask
  <2>3. \A k \in 1..3 : T[k].op \in Setters /\ T[k].mask # NULL => ArgFits(k)
    <3>. QED  BY ONLY <1>8
  <2>. QED  BY ONLY <1>1, <2>1, <2>2, <2>3 DEF MasksOK
<1>10. SmallMasks
  <2>. QED  BY ONLY <1>1, <1>8 DEF SmallMasks
<1>11. ASSUME Suitable, NEW k \in 1..3 PROVE CallOK(k)
  <2>1. CallOK(3)
    BY ONLY <1>11, <1>4, max_node \in Nat, NodesLaw, GetCall DEF NOADDR, WILDADDR
  <2>2. k \notin {3} => CallOK(k)
    BY ONLY <1>11, <1>5, NoCall DEF Setters
  <2>. QED  BY ONLY <2>2, <2>1
<1>12. ASSUME Suitable, NEW k \in 1..3 PROVE CheckOK(k)
  BY ONLY <1>5, NoCheck
<1>13. \A k \in 1..3 : Confirmed(k)
  BY ONLY <1>1, <1>8 DEF Confirmed
<1>14. ScopeOK
  BY ONLY <1>1, <1>5, test = "get014" DEF ScopeOK, LoopOps
<1>. QED  BY ONLY <1>1, <1>6, <1>7, <1>9, <1>10, <1>14, <1>11, <1>12, <1>13 DEF TestOK

\* get_mempolicy 015
LEMMA Get015OK == ASSUME max_node \in Nat, test = "get015", T = Get015(max_node) PROVE TestOK
<1>1. Len(T) = 1 /\ DOMAIN T = 1..1
  BY DEF Get015, Get
<1>2. T[1].op = "get" /\ T[1].at = NOADDR /\ T[1].maxnode = 0 /\ T[1].m = TRUE /\ T[1].nm = FALSE /\ T[1].flags = {"ADDR"} /\ T[1].want = "EFAULT"
  BY DEF Get015, Get
<1>3. StepOK(T[1])
  BY ONLY <1>2, GetStep DEF NOADDR, WILDADDR, Wants
<1>4. ~UsesMask(T[1])
  BY ONLY <1>2 DEF UsesMask
<1>5. Suitable => CallOK(1)
  BY ONLY <1>2, max_node \in Nat, NodesLaw, GetCall DEF NOADDR, WILDADDR
<1>. QED  BY ONLY <1>1, <1>2, <1>3, <1>4, <1>5, max_node \in Nat, test = "get015", Widths, OneCall DEF Setters

\* get_mempolicy 016
LEMMA Get016OK == ASSUME max_node \in Nat, test = "get016", T = Get016(max_node) PROVE TestOK
<1>1. Len(T) = 1 /\ DOMAIN T = 1..1
  BY DEF Get016, Get
<1>2. T[1].op = "get" /\ T[1].at = 0 /\ T[1].maxnode = 0 /\ T[1].m = TRUE /\ T[1].nm = FALSE /\ T[1].flags = {} /\ T[1].want = "EINVAL"
  BY DEF Get016, Get
<1>3. StepOK(T[1])
  BY ONLY <1>2, GetStep DEF NOADDR, WILDADDR, Wants
<1>4. ~UsesMask(T[1])
  BY ONLY <1>2 DEF UsesMask
<1>5. Suitable => CallOK(1)
  BY ONLY <1>2, max_node \in Nat, NodesLaw, GetCall DEF NOADDR, WILDADDR
<1>. QED  BY ONLY <1>1, <1>2, <1>3, <1>4, <1>5, max_node \in Nat, test = "get016", Widths, OneCall DEF Setters

\* get_mempolicy 017
LEMMA Get017OK ==
  ASSUME max_node \in Nat, test = "get017", T = Get017(max_node)
  PROVE  TestOK
<1>1. Len(T) = 3 /\ DOMAIN T = 1..3
  BY DEF Get017, Need, Get, NodeExists
<1>2. T[1].op = "need" /\ T[1].k = 1
  BY DEF Get017, Need, Get, NodeExists
<1>3. T[2].op = "get" /\ T[2].at = 0 /\ T[2].maxnode = 0 /\ T[2].m = TRUE /\ T[2].nm = FALSE /\ T[2].flags = {"ADDR", "NODE"} /\ T[2].want = "ok"
  BY DEF Get017, Need, Get, NodeExists
<1>4. T[3].op = "node"
  BY DEF Get017, Need, Get, NodeExists
<1>5. T[1].op = "need" /\ T[2].op = "get" /\ T[3].op = "node"
  BY ONLY <1>2, <1>3, <1>4
<1>6. \A k \in 1..3 : StepOK(T[k])
  <2>1. StepOK(T[1])
    BY ONLY <1>2, NeedStep
  <2>2. StepOK(T[2])
    BY ONLY <1>3, GetStep DEF NOADDR, WILDADDR, Wants
  <2>3. StepOK(T[3])
    BY ONLY <1>4, PlainStep DEF Ops, Checks, Setters
  <2>. QED  BY ONLY <2>1, <2>2, <2>3
<1>7. OrderOK
  BY ONLY <1>1, <1>5 DEF OrderOK
<1>8. Suitable => max_node >= 1
  BY ONLY <1>1, <1>2 DEF Suitable
<1>9. \A l \in 1..3 : T[l].op \in Setters <=> FALSE
  BY ONLY <1>5 DEF Setters
<1>10. MasksOK
  <2>1. \A k, l \in 1..3 : T[k].op = "alloc" /\ T[l].op = "alloc" /\ T[k].name = T[l].name => k = l
    BY ONLY <1>5
  <2>2. ASSUME NEW k \in 1..3, UsesMask(T[k]) PROVE \E a \in 1..(k - 1) : MaskAt(k, a)
    <3>. QED  BY ONLY <2>2, <1>5, <1>3 DEF UsesMask
  <2>3. \A k \in 1..3 : T[k].op \in Setters /\ T[k].mask # NULL => ArgFits(k)
    <3>. QED  BY ONLY <1>9
  <2>. QED  BY ONLY <1>1, <2>1, <2>2, <2>3 DEF MasksOK
<1>11. SmallMasks
  <2>. QED  BY ONLY <1>1, <1>9 DEF SmallMasks
<1>12. ASSUME Suitable, NEW k \in 1..3 PROVE CallOK(k)
  <2>1. CallOK(2)
    BY ONLY <1>8, <1>12, <1>3, max_node \in Nat, NodesLaw, GetCall DEF NOADDR, WILDADDR
  <2>2. k \notin {2} => CallOK(k)
    BY ONLY <1>12, <1>5, NoCall DEF Setters
  <2>. QED  BY ONLY <2>2, <2>1
<1>13. ASSUME Suitable, NEW k \in 1..3 PROVE CheckOK(k)
  BY ONLY <1>5, NoCheck
<1>14. \A k \in 1..3 : Confirmed(k)
  BY ONLY <1>1, <1>9 DEF Confirmed
<1>15. ScopeOK
  BY ONLY <1>1, <1>5, <1>3, max_node \in Nat, <1>8, test = "get017" DEF ScopeOK, LoopOps
<1>. QED  BY ONLY <1>1, <1>6, <1>7, <1>10, <1>11, <1>15, <1>12, <1>13, <1>14 DEF TestOK

\* get_mempolicy 018
LEMMA Get018OK ==
  ASSUME max_node \in Nat, test = "get018", T = Get018(max_node)
  PROVE  TestOK
<1>1. Len(T) = 26 /\ DOMAIN T = 1..26
  BY DEF Get018, Need, Alloc, Set, Get, ModeIs, MaskIs, Mask, ShowsProc, Round
<1>2. T[1].op = "need" /\ T[1].k = 2
  BY DEF Get018, Need, Alloc, Set, Get, ModeIs, MaskIs, Mask, ShowsProc, Round
<1>3. T[2].op = "alloc" /\ T[2].name = "node_mask" /\ T[2].bits = max_node /\ max_node \in Nat
  BY DEF Get018, Need, Alloc, Set, Get, ModeIs, MaskIs, Mask, ShowsProc, Round
<1>4. T[3].op = "set" /\ T[3].mode = {"INTERLEAVE"} /\ T[3].mask = {0, 1} /\ T[3].maxnode = BITS_PER_LONG /\ T[3].want = "ok"
  BY DEF Get018, Need, Alloc, Set, Get, ModeIs, MaskIs, Mask, ShowsProc, Round
<1>5. T[4].op = "get" /\ T[4].at = NOADDR /\ T[4].maxnode = max_node /\ T[4].m = TRUE /\ T[4].nm = TRUE /\ T[4].flags = {} /\ T[4].want = "ok" /\ max_node \in Nat
  BY DEF Get018, Need, Alloc, Set, Get, ModeIs, MaskIs, Mask, ShowsProc, Round
<1>6. T[5].op = "mode" /\ T[5].mode = {"INTERLEAVE"}
  BY DEF Get018, Need, Alloc, Set, Get, ModeIs, MaskIs, Mask, ShowsProc, Round
<1>7. T[6].op = "word0" /\ T[6].bits = {0, 1}
  BY DEF Get018, Need, Alloc, Set, Get, ModeIs, MaskIs, Mask, ShowsProc, Round
<1>8. T[7].op = "get" /\ T[7].at = NOADDR /\ T[7].maxnode = 0 /\ T[7].m = TRUE /\ T[7].nm = FALSE /\ T[7].flags = {"NODE"} /\ T[7].want = "ok"
  BY DEF Get018, Need, Alloc, Set, Get, ModeIs, MaskIs, Mask, ShowsProc, Round
<1>9. T[8].op = "old"
  BY DEF Get018, Need, Alloc, Set, Get, ModeIs, MaskIs, Mask, ShowsProc, Round
<1>10. T[9].op = "reserve"
  BY DEF Get018, Need, Alloc, Set, Get, ModeIs, MaskIs, Mask, ShowsProc, Round
<1>11. T[10].op = "large"
  BY DEF Get018, Need, Alloc, Set, Get, ModeIs, MaskIs, Mask, ShowsProc, Round
<1>12. T[11].op = "next"
  BY DEF Get018, Need, Alloc, Set, Get, ModeIs, MaskIs, Mask, ShowsProc, Round
<1>13. T[12].op = "get" /\ T[12].at = NOADDR /\ T[12].maxnode = 0 /\ T[12].m = TRUE /\ T[12].nm = FALSE /\ T[12].flags = {"NODE"} /\ T[12].want = "ok"
  BY DEF Get018, Need, Alloc, Set, Get, ModeIs, MaskIs, Mask, ShowsProc, Round
<1>14. T[13].op = "other"
  BY DEF Get018, Need, Alloc, Set, Get, ModeIs, MaskIs, Mask, ShowsProc, Round
<1>15. T[14].op = "release"
  BY DEF Get018, Need, Alloc, Set, Get, ModeIs, MaskIs, Mask, ShowsProc, Round
<1>16. T[15].op = "reserve"
  BY DEF Get018, Need, Alloc, Set, Get, ModeIs, MaskIs, Mask, ShowsProc, Round
<1>17. T[16].op = "large"
  BY DEF Get018, Need, Alloc, Set, Get, ModeIs, MaskIs, Mask, ShowsProc, Round
<1>18. T[17].op = "next"
  BY DEF Get018, Need, Alloc, Set, Get, ModeIs, MaskIs, Mask, ShowsProc, Round
<1>19. T[18].op = "get" /\ T[18].at = NOADDR /\ T[18].maxnode = 0 /\ T[18].m = TRUE /\ T[18].nm = FALSE /\ T[18].flags = {"NODE"} /\ T[18].want = "ok"
  BY DEF Get018, Need, Alloc, Set, Get, ModeIs, MaskIs, Mask, ShowsProc, Round
<1>20. T[19].op = "other"
  BY DEF Get018, Need, Alloc, Set, Get, ModeIs, MaskIs, Mask, ShowsProc, Round
<1>21. T[20].op = "release"
  BY DEF Get018, Need, Alloc, Set, Get, ModeIs, MaskIs, Mask, ShowsProc, Round
<1>22. T[21].op = "reserve"
  BY DEF Get018, Need, Alloc, Set, Get, ModeIs, MaskIs, Mask, ShowsProc, Round
<1>23. T[22].op = "large"
  BY DEF Get018, Need, Alloc, Set, Get, ModeIs, MaskIs, Mask, ShowsProc, Round
<1>24. T[23].op = "next"
  BY DEF Get018, Need, Alloc, Set, Get, ModeIs, MaskIs, Mask, ShowsProc, Round
<1>25. T[24].op = "get" /\ T[24].at = NOADDR /\ T[24].maxnode = 0 /\ T[24].m = TRUE /\ T[24].nm = FALSE /\ T[24].flags = {"NODE"} /\ T[24].want = "ok"
  BY DEF Get018, Need, Alloc, Set, Get, ModeIs, MaskIs, Mask, ShowsProc, Round
<1>26. T[25].op = "other"
  BY DEF Get018, Need, Alloc, Set, Get, ModeIs, MaskIs, Mask, ShowsProc, Round
<1>27. T[26].op = "release"
  BY DEF Get018, Need, Alloc, Set, Get, ModeIs, MaskIs, Mask, ShowsProc, Round
<1>28. T[1].op = "need" /\ T[2].op = "alloc" /\ T[3].op = "set" /\ T[4].op = "get" /\ T[5].op = "mode" /\ T[6].op = "word0" /\ T[7].op = "get" /\ T[8].op = "old" /\ T[9].op = "reserve" /\ T[10].op = "large" /\ T[11].op = "next" /\ T[12].op = "get" /\ T[13].op = "other" /\ T[14].op = "release" /\ T[15].op = "reserve" /\ T[16].op = "large" /\ T[17].op = "next" /\ T[18].op = "get" /\ T[19].op = "other" /\ T[20].op = "release" /\ T[21].op = "reserve" /\ T[22].op = "large" /\ T[23].op = "next" /\ T[24].op = "get" /\ T[25].op = "other" /\ T[26].op = "release"
  BY ONLY <1>2, <1>3, <1>4, <1>5, <1>6, <1>7, <1>8, <1>9, <1>10, <1>11, <1>12, <1>13, <1>14, <1>15, <1>16, <1>17, <1>18, <1>19, <1>20, <1>21, <1>22, <1>23, <1>24, <1>25, <1>26, <1>27
<1>29. \A k \in 1..26 : StepOK(T[k])
  <2>1. StepOK(T[1])
    BY ONLY <1>2, NeedStep
  <2>2. StepOK(T[2])
    BY ONLY <1>3, AllocStep, Widths
  <2>3. PolicyStep(T[3])
    BY ONLY <1>4, Widths DEF PolicyStep, Modes
  <2>4. StepOK(T[3])
    BY ONLY <1>4, <2>3, SetStep DEF Wants
  <2>5. StepOK(T[4])
    BY ONLY <1>5, GetStep DEF NOADDR, WILDADDR, Wants
  <2>6. StepOK(T[5])
    BY ONLY <1>6, PlainStep DEF Ops, Checks, Setters
  <2>7. StepOK(T[6])
    BY ONLY <1>7, PlainStep DEF Ops, Checks, Setters
  <2>8. StepOK(T[7])
    BY ONLY <1>8, GetStep DEF NOADDR, WILDADDR, Wants
  <2>9. StepOK(T[8])
    BY ONLY <1>9, PlainStep DEF Ops, Checks, Setters
  <2>10. StepOK(T[9])
    BY ONLY <1>10, PlainStep DEF Ops, Checks, Setters
  <2>11. StepOK(T[10])
    BY ONLY <1>11, PlainStep DEF Ops, Checks, Setters
  <2>12. StepOK(T[11])
    BY ONLY <1>12, PlainStep DEF Ops, Checks, Setters
  <2>13. StepOK(T[12])
    BY ONLY <1>13, GetStep DEF NOADDR, WILDADDR, Wants
  <2>14. StepOK(T[13])
    BY ONLY <1>14, PlainStep DEF Ops, Checks, Setters
  <2>15. StepOK(T[14])
    BY ONLY <1>15, PlainStep DEF Ops, Checks, Setters
  <2>16. StepOK(T[15])
    BY ONLY <1>16, PlainStep DEF Ops, Checks, Setters
  <2>17. StepOK(T[16])
    BY ONLY <1>17, PlainStep DEF Ops, Checks, Setters
  <2>18. StepOK(T[17])
    BY ONLY <1>18, PlainStep DEF Ops, Checks, Setters
  <2>19. StepOK(T[18])
    BY ONLY <1>19, GetStep DEF NOADDR, WILDADDR, Wants
  <2>20. StepOK(T[19])
    BY ONLY <1>20, PlainStep DEF Ops, Checks, Setters
  <2>21. StepOK(T[20])
    BY ONLY <1>21, PlainStep DEF Ops, Checks, Setters
  <2>22. StepOK(T[21])
    BY ONLY <1>22, PlainStep DEF Ops, Checks, Setters
  <2>23. StepOK(T[22])
    BY ONLY <1>23, PlainStep DEF Ops, Checks, Setters
  <2>24. StepOK(T[23])
    BY ONLY <1>24, PlainStep DEF Ops, Checks, Setters
  <2>25. StepOK(T[24])
    BY ONLY <1>25, GetStep DEF NOADDR, WILDADDR, Wants
  <2>26. StepOK(T[25])
    BY ONLY <1>26, PlainStep DEF Ops, Checks, Setters
  <2>27. StepOK(T[26])
    BY ONLY <1>27, PlainStep DEF Ops, Checks, Setters
  <2>. QED  BY ONLY <2>1, <2>2, <2>4, <2>5, <2>6, <2>7, <2>8, <2>9, <2>10, <2>11, <2>12, <2>13, <2>14, <2>15, <2>16, <2>17, <2>18, <2>19, <2>20, <2>21, <2>22, <2>23, <2>24, <2>25, <2>26, <2>27
<1>30. OrderOK
  BY ONLY <1>1, <1>28 DEF OrderOK
<1>31. Suitable => max_node >= 2
  BY ONLY <1>1, <1>2 DEF Suitable
<1>32. \A l \in 1..26 : T[l].op \in Setters <=> l \in {3}
  BY ONLY <1>28 DEF Setters
<1>33. MasksOK
  <2>1. \A k, l \in 1..26 : T[k].op = "alloc" /\ T[l].op = "alloc" /\ T[k].name = T[l].name => k = l
    BY ONLY <1>28, <1>3
  <2>2. ASSUME NEW k \in 1..26, UsesMask(T[k]) PROVE \E a \in 1..(k - 1) : MaskAt(k, a)
    <3>1. k \in {4, 6}
      BY ONLY <2>2, <1>28, <1>8, <1>13, <1>19, <1>25 DEF UsesMask
    <3>2. MaskAt(4, 2)
      BY ONLY <1>5, <1>3, <1>31 DEF MaskAt
    <3>3. MaskAt(6, 2)
      BY ONLY <1>7, <1>3, <1>31 DEF MaskAt
    <3>. QED  BY ONLY <3>1, <3>2, <3>3
  <2>3. \A k \in 1..26 : T[k].op \in Setters /\ T[k].mask # NULL => ArgFits(k)
    <3>1. ArgFits(3)
      BY ONLY <1>4, Widths DEF ArgFits
    <3>. QED  BY ONLY <1>32, <3>1
  <2>. QED  BY ONLY <1>1, <2>1, <2>2, <2>3 DEF MasksOK
<1>34. SmallMasks
  <2>1. T[3].mask = NULL \/ T[3].mask \subseteq 0..3
    BY ONLY <1>4
  <2>. QED  BY ONLY <1>1, <1>32, <2>1 DEF SmallMasks
<1>35. ASSUME Suitable, NEW k \in 1..26 PROVE CallOK(k)
  <2>1. Effective(T[3], "none") = {0, 1}
    BY ONLY <1>31, <1>35, <1>4, max_node \in Nat, MaskCuts DEF Effective, NULL
  <2>2. PolicyError(T[3], "none") = "0"
    BY ONLY <2>1, <1>31, <1>35, <1>4, Widths, GoodPolicy
  <2>3. CallOK(3)
    BY ONLY <1>4, <2>2, SetCall
  <2>4. CallOK(4)
    BY ONLY <1>31, <1>35, <1>5, max_node \in Nat, NodesLaw, GetCall DEF NOADDR, WILDADDR
  <2>5. LastCover(7, PROC, 3) /\ T[3].mode = {"INTERLEAVE"}
    BY ONLY <1>4, <1>32 DEF LastCover, Covers, Setters
  <2>6. CallOK(7)
    BY ONLY <1>8, <2>5, max_node \in Nat, NodeCall
  <2>7. LastCover(12, PROC, 3) /\ T[3].mode = {"INTERLEAVE"}
    BY ONLY <1>4, <1>32 DEF LastCover, Covers, Setters
  <2>8. CallOK(12)
    BY ONLY <1>13, <2>7, max_node \in Nat, NodeCall
  <2>9. LastCover(18, PROC, 3) /\ T[3].mode = {"INTERLEAVE"}
    BY ONLY <1>4, <1>32 DEF LastCover, Covers, Setters
  <2>10. CallOK(18)
    BY ONLY <1>19, <2>9, max_node \in Nat, NodeCall
  <2>11. LastCover(24, PROC, 3) /\ T[3].mode = {"INTERLEAVE"}
    BY ONLY <1>4, <1>32 DEF LastCover, Covers, Setters
  <2>12. CallOK(24)
    BY ONLY <1>25, <2>11, max_node \in Nat, NodeCall
  <2>13. k \notin {3, 4, 7, 12, 18, 24} => CallOK(k)
    BY ONLY <1>35, <1>28, NoCall DEF Setters
  <2>. QED  BY ONLY <2>13, <2>3, <2>4, <2>6, <2>8, <2>10, <2>12
<1>36. ASSUME Suitable, NEW k \in 1..26 PROVE CheckOK(k)
  <2>1. Effective(T[3], "none") = {0, 1}
    BY ONLY <1>31, <1>36, <1>4, max_node \in Nat, MaskCuts DEF Effective, NULL
  <2>2. Policy(T[3]) = [mode |-> {"INTERLEAVE"}, mask |-> {0, 1}]
    BY ONLY <1>4, <2>1 DEF Policy
  <2>3. LastCover(5, T[4].at, 3)
    BY ONLY <1>5, <1>32, <1>4 DEF LastCover, Covers, Setters, PROC, NOADDR
  <2>4. Finds(T[5], Policy(T[3]))
    BY ONLY <1>6, <2>2 DEF Finds
  <2>5. CheckOK(5)
    BY ONLY <1>6, <1>5, <2>3, <2>4, CheckAfter
  <2>6. LastCover(6, T[4].at, 3)
    BY ONLY <1>5, <1>32, <1>4 DEF LastCover, Covers, Setters, PROC, NOADDR
  <2>7. Finds(T[6], Policy(T[3]))
    BY ONLY <1>7, <2>2 DEF Finds
  <2>8. CheckOK(6)
    BY ONLY <1>7, <1>5, <2>6, <2>7, <1>6, CheckAfter
  <2>9. k \notin {5, 6} => CheckOK(k)
    BY ONLY <1>36, <1>28, NoCheck
  <2>. QED  BY ONLY <2>9, <2>5, <2>8
<1>37. \A k \in 1..26 : Confirmed(k)
  <2>1. GetOf(5) = 4 /\ GetOf(6) = 4
    BY ONLY <1>28 DEF GetOf
  <2>2. \A k \in 1..Len(T) : Looks(T[k]) => T[k].at = T[4].at
    BY ONLY <1>1, <1>28, <1>5, <1>8, <1>13, <1>19, <1>25 DEF Looks
  <2>3. Looks(T[4])
    BY ONLY <1>5 DEF Looks
  <2>4. \A l \in 1..Len(T) : T[l].op \in Setters => l < 5 /\ l < 6
    BY ONLY <1>1, <1>32
  <2>5. 5 \in 1..Len(T) /\ 6 \in 1..Len(T) /\ T[5].op = "mode" /\ T[6].op \in {"word0", "zero", "full"}
    BY ONLY <1>1, <1>28
  <2>. QED  BY ONLY <1>1, <2>1, <2>2, <2>3, <2>4, <2>5, ConfirmedBy
<1>38. ScopeOK
  BY ONLY <1>1, <1>28, <1>5, <1>8, <1>13, <1>19, <1>25, test = "get018" DEF ScopeOK, LoopOps
<1>. QED  BY ONLY <1>1, <1>29, <1>30, <1>33, <1>34, <1>38, <1>35, <1>36, <1>37 DEF TestOK

\* get_mempolicy 019
LEMMA Get019OK == ASSUME max_node \in Nat, test = "get019", T = Get019(max_node) PROVE TestOK
<1>1. Len(T) = 1 /\ DOMAIN T = 1..1
  BY DEF Get019, Get
<1>2. T[1].op = "get" /\ T[1].at = NOADDR /\ T[1].maxnode = 0 /\ T[1].m = TRUE /\ T[1].nm = FALSE /\ T[1].flags = {"NODE"} /\ T[1].want = "EINVAL"
  BY DEF Get019, Get
<1>3. StepOK(T[1])
  BY ONLY <1>2, GetStep DEF NOADDR, WILDADDR, Wants
<1>4. ~UsesMask(T[1])
  BY ONLY <1>2 DEF UsesMask
<1>5. CallOK(1)
  BY ONLY <1>2, max_node \in Nat, NodeCall DEF Untouched
<1>. QED  BY ONLY <1>1, <1>2, <1>3, <1>4, <1>5, max_node \in Nat, test = "get019", Widths, OneCall DEF Setters

\* get_mempolicy 020
LEMMA Get020OK == ASSUME max_node \in Nat, test = "get020", T = Get020(max_node) PROVE TestOK
<1>1. Len(T) = 1 /\ DOMAIN T = 1..1
  BY DEF Get020, Get
<1>2. T[1].op = "get" /\ T[1].at = NOADDR /\ T[1].maxnode = 0 /\ T[1].m = TRUE /\ T[1].nm = FALSE /\ T[1].flags = {"UNKNOWN"} /\ T[1].want = "EINVAL"
  BY DEF Get020, Get
<1>3. StepOK(T[1])
  BY ONLY <1>2, GetStep DEF NOADDR, WILDADDR, Wants
<1>4. ~UsesMask(T[1])
  BY ONLY <1>2 DEF UsesMask
<1>5. Suitable => CallOK(1)
  BY ONLY <1>2, max_node \in Nat, NodesLaw, GetCall DEF NOADDR, WILDADDR
<1>. QED  BY ONLY <1>1, <1>2, <1>3, <1>4, <1>5, max_node \in Nat, test = "get020", Widths, OneCall DEF Setters

\* set_mempolicy 000
LEMMA Set000OK ==
  ASSUME max_node \in Nat, test = "set000", T = Set000(max_node)
  PROVE  TestOK
<1>1. Len(T) = 11 /\ DOMAIN T = 1..11
  BY DEF Set000, Need, Alloc, Set, Get, ModeIs, MaskIs, Preset, MaskIsZero, Mask, ShowsProc
<1>2. T[1].op = "need" /\ T[1].k = 2
  BY DEF Set000, Need, Alloc, Set, Get, ModeIs, MaskIs, Preset, MaskIsZero, Mask, ShowsProc
<1>3. T[2].op = "alloc" /\ T[2].name = "node_mask" /\ T[2].bits = max_node /\ max_node \in Nat
  BY DEF Set000, Need, Alloc, Set, Get, ModeIs, MaskIs, Preset, MaskIsZero, Mask, ShowsProc
<1>4. T[3].op = "set" /\ T[3].mode = {"BIND"} /\ T[3].mask = {0, 1} /\ T[3].maxnode = BITS_PER_LONG /\ T[3].want = "ok"
  BY DEF Set000, Need, Alloc, Set, Get, ModeIs, MaskIs, Preset, MaskIsZero, Mask, ShowsProc
<1>5. T[4].op = "get" /\ T[4].at = NOADDR /\ T[4].maxnode = max_node /\ T[4].m = TRUE /\ T[4].nm = TRUE /\ T[4].flags = {} /\ T[4].want = "ok" /\ max_node \in Nat
  BY DEF Set000, Need, Alloc, Set, Get, ModeIs, MaskIs, Preset, MaskIsZero, Mask, ShowsProc
<1>6. T[5].op = "mode" /\ T[5].mode = {"BIND"}
  BY DEF Set000, Need, Alloc, Set, Get, ModeIs, MaskIs, Preset, MaskIsZero, Mask, ShowsProc
<1>7. T[6].op = "word0" /\ T[6].bits = {0, 1}
  BY DEF Set000, Need, Alloc, Set, Get, ModeIs, MaskIs, Preset, MaskIsZero, Mask, ShowsProc
<1>8. T[7].op = "set" /\ T[7].mode = {"DEFAULT"} /\ T[7].mask = NULL /\ T[7].maxnode = 0 /\ T[7].want = "ok"
  BY DEF Set000, Need, Alloc, Set, Get, ModeIs, MaskIs, Preset, MaskIsZero, Mask, ShowsProc
<1>9. T[8].op = "preset" /\ T[8].bits = {0}
  BY DEF Set000, Need, Alloc, Set, Get, ModeIs, MaskIs, Preset, MaskIsZero, Mask, ShowsProc
<1>10. T[9].op = "get" /\ T[9].at = NOADDR /\ T[9].maxnode = max_node /\ T[9].m = TRUE /\ T[9].nm = TRUE /\ T[9].flags = {} /\ T[9].want = "ok" /\ max_node \in Nat
  BY DEF Set000, Need, Alloc, Set, Get, ModeIs, MaskIs, Preset, MaskIsZero, Mask, ShowsProc
<1>11. T[10].op = "mode" /\ T[10].mode = {"DEFAULT"}
  BY DEF Set000, Need, Alloc, Set, Get, ModeIs, MaskIs, Preset, MaskIsZero, Mask, ShowsProc
<1>12. T[11].op = "zero"
  BY DEF Set000, Need, Alloc, Set, Get, ModeIs, MaskIs, Preset, MaskIsZero, Mask, ShowsProc
<1>13. T[1].op = "need" /\ T[2].op = "alloc" /\ T[3].op = "set" /\ T[4].op = "get" /\ T[5].op = "mode" /\ T[6].op = "word0" /\ T[7].op = "set" /\ T[8].op = "preset" /\ T[9].op = "get" /\ T[10].op = "mode" /\ T[11].op = "zero"
  BY ONLY <1>2, <1>3, <1>4, <1>5, <1>6, <1>7, <1>8, <1>9, <1>10, <1>11, <1>12
<1>14. \A k \in 1..11 : StepOK(T[k])
  <2>1. StepOK(T[1])
    BY ONLY <1>2, NeedStep
  <2>2. StepOK(T[2])
    BY ONLY <1>3, AllocStep, Widths
  <2>3. PolicyStep(T[3])
    BY ONLY <1>4, Widths DEF PolicyStep, Modes
  <2>4. StepOK(T[3])
    BY ONLY <1>4, <2>3, SetStep DEF Wants
  <2>5. StepOK(T[4])
    BY ONLY <1>5, GetStep DEF NOADDR, WILDADDR, Wants
  <2>6. StepOK(T[5])
    BY ONLY <1>6, PlainStep DEF Ops, Checks, Setters
  <2>7. StepOK(T[6])
    BY ONLY <1>7, PlainStep DEF Ops, Checks, Setters
  <2>8. PolicyStep(T[7])
    BY ONLY <1>8, Widths DEF PolicyStep, Modes
  <2>9. StepOK(T[7])
    BY ONLY <1>8, <2>8, SetStep DEF Wants
  <2>10. StepOK(T[8])
    BY ONLY <1>9, PresetStep
  <2>11. StepOK(T[9])
    BY ONLY <1>10, GetStep DEF NOADDR, WILDADDR, Wants
  <2>12. StepOK(T[10])
    BY ONLY <1>11, PlainStep DEF Ops, Checks, Setters
  <2>13. StepOK(T[11])
    BY ONLY <1>12, PlainStep DEF Ops, Checks, Setters
  <2>. QED  BY ONLY <2>1, <2>2, <2>4, <2>5, <2>6, <2>7, <2>9, <2>10, <2>11, <2>12, <2>13
<1>15. OrderOK
  BY ONLY <1>1, <1>13 DEF OrderOK
<1>16. Suitable => max_node >= 2
  BY ONLY <1>1, <1>2 DEF Suitable
<1>17. \A l \in 1..11 : T[l].op \in Setters <=> l \in {3, 7}
  BY ONLY <1>13 DEF Setters
<1>18. MasksOK
  <2>1. \A k, l \in 1..11 : T[k].op = "alloc" /\ T[l].op = "alloc" /\ T[k].name = T[l].name => k = l
    BY ONLY <1>13, <1>3
  <2>2. ASSUME NEW k \in 1..11, UsesMask(T[k]) PROVE \E a \in 1..(k - 1) : MaskAt(k, a)
    <3>1. k \in {4, 6, 8, 9, 11}
      BY ONLY <2>2, <1>13 DEF UsesMask
    <3>2. MaskAt(4, 2)
      BY ONLY <1>5, <1>3, <1>16 DEF MaskAt
    <3>3. MaskAt(6, 2)
      BY ONLY <1>7, <1>3, <1>16 DEF MaskAt
    <3>4. MaskAt(8, 2)
      BY ONLY <1>9, <1>3, <1>16 DEF MaskAt
    <3>5. MaskAt(9, 2)
      BY ONLY <1>10, <1>3, <1>16 DEF MaskAt
    <3>6. MaskAt(11, 2)
      BY ONLY <1>12, <1>3, <1>16 DEF MaskAt
    <3>. QED  BY ONLY <3>1, <3>2, <3>3, <3>4, <3>5, <3>6
  <2>3. \A k \in 1..11 : T[k].op \in Setters /\ T[k].mask # NULL => ArgFits(k)
    <3>1. ArgFits(3)
      BY ONLY <1>4, Widths DEF ArgFits
    <3>. QED  BY ONLY <1>17, <3>1, <1>8
  <2>. QED  BY ONLY <1>1, <2>1, <2>2, <2>3 DEF MasksOK
<1>19. SmallMasks
  <2>1. T[3].mask = NULL \/ T[3].mask \subseteq 0..3
    BY ONLY <1>4
  <2>2. T[7].mask = NULL \/ T[7].mask \subseteq 0..3
    BY ONLY <1>8
  <2>. QED  BY ONLY <1>1, <1>17, <2>1, <2>2 DEF SmallMasks
<1>20. ASSUME Suitable, NEW k \in 1..11 PROVE CallOK(k)
  <2>1. Effective(T[3], "none") = {0, 1}
    BY ONLY <1>16, <1>20, <1>4, max_node \in Nat, MaskCuts DEF Effective, NULL
  <2>2. PolicyError(T[3], "none") = "0"
    BY ONLY <2>1, <1>16, <1>20, <1>4, Widths, GoodPolicy
  <2>3. CallOK(3)
    BY ONLY <1>4, <2>2, SetCall
  <2>4. CallOK(4)
    BY ONLY <1>16, <1>20, <1>5, max_node \in Nat, NodesLaw, GetCall DEF NOADDR, WILDADDR
  <2>5. Effective(T[7], "none") = {}
    BY ONLY <1>8 DEF Effective
  <2>6. PolicyError(T[7], "none") = "0"
    BY ONLY <2>5, <1>16, <1>20, <1>8, Widths, GoodPolicy
  <2>7. CallOK(7)
    BY ONLY <1>8, <2>6, SetCall
  <2>8. CallOK(9)
    BY ONLY <1>16, <1>20, <1>10, max_node \in Nat, NodesLaw, GetCall DEF NOADDR, WILDADDR
  <2>9. k \notin {3, 4, 7, 9} => CallOK(k)
    BY ONLY <1>20, <1>13, NoCall DEF Setters
  <2>. QED  BY ONLY <2>9, <2>3, <2>4, <2>7, <2>8
<1>21. ASSUME Suitable, NEW k \in 1..11 PROVE CheckOK(k)
  <2>1. Effective(T[3], "none") = {0, 1}
    BY ONLY <1>16, <1>21, <1>4, max_node \in Nat, MaskCuts DEF Effective, NULL
  <2>2. Policy(T[3]) = [mode |-> {"BIND"}, mask |-> {0, 1}]
    BY ONLY <1>4, <2>1 DEF Policy
  <2>3. Effective(T[7], "none") = {}
    BY ONLY <1>8 DEF Effective
  <2>4. Policy(T[7]) = [mode |-> {"DEFAULT"}, mask |-> {}]
    BY ONLY <1>8, <2>3 DEF Policy
  <2>5. LastCover(5, T[4].at, 3)
    BY ONLY <1>5, <1>17, <1>4 DEF LastCover, Covers, Setters, PROC, NOADDR
  <2>6. Finds(T[5], Policy(T[3]))
    BY ONLY <1>6, <2>2 DEF Finds
  <2>7. CheckOK(5)
    BY ONLY <1>6, <1>5, <2>5, <2>6, CheckAfter
  <2>8. LastCover(6, T[4].at, 3)
    BY ONLY <1>5, <1>17, <1>4 DEF LastCover, Covers, Setters, PROC, NOADDR
  <2>9. Finds(T[6], Policy(T[3]))
    BY ONLY <1>7, <2>2 DEF Finds
  <2>10. CheckOK(6)
    BY ONLY <1>7, <1>5, <2>8, <2>9, <1>6, CheckAfter
  <2>11. LastCover(10, T[9].at, 7)
    BY ONLY <1>10, <1>17, <1>8 DEF LastCover, Covers, Setters, PROC, NOADDR
  <2>12. Finds(T[10], Policy(T[7]))
    BY ONLY <1>11, <2>4 DEF Finds
  <2>13. CheckOK(10)
    BY ONLY <1>11, <1>10, <2>11, <2>12, CheckAfter
  <2>14. LastCover(11, T[9].at, 7)
    BY ONLY <1>10, <1>17, <1>8 DEF LastCover, Covers, Setters, PROC, NOADDR
  <2>15. Finds(T[11], Policy(T[7]))
    BY ONLY <1>12, <2>4 DEF Finds
  <2>16. CheckOK(11)
    BY ONLY <1>12, <1>10, <2>14, <2>15, <1>11, CheckAfter
  <2>17. k \notin {5, 6, 10, 11} => CheckOK(k)
    BY ONLY <1>21, <1>13, NoCheck
  <2>. QED  BY ONLY <2>17, <2>7, <2>10, <2>13, <2>16
<1>22. \A k \in 1..11 : Confirmed(k)
  <2>1. GetOf(10) = 9 /\ GetOf(11) = 9
    BY ONLY <1>13 DEF GetOf
  <2>2. \A k \in 1..Len(T) : Looks(T[k]) => T[k].at = T[9].at
    BY ONLY <1>1, <1>13, <1>5, <1>10 DEF Looks
  <2>3. Looks(T[9])
    BY ONLY <1>10 DEF Looks
  <2>4. \A l \in 1..Len(T) : T[l].op \in Setters => l < 10 /\ l < 11
    BY ONLY <1>1, <1>17
  <2>5. 10 \in 1..Len(T) /\ 11 \in 1..Len(T) /\ T[10].op = "mode" /\ T[11].op \in {"word0", "zero", "full"}
    BY ONLY <1>1, <1>13
  <2>. QED  BY ONLY <1>1, <2>1, <2>2, <2>3, <2>4, <2>5, ConfirmedBy
<1>23. ScopeOK
  BY ONLY <1>1, <1>13, test = "set000" DEF ScopeOK, LoopOps
<1>. QED  BY ONLY <1>1, <1>14, <1>15, <1>18, <1>19, <1>23, <1>20, <1>21, <1>22 DEF TestOK

\* set_mempolicy 001
LEMMA Set001OK ==
  ASSUME max_node \in Nat, test = "set001", T = Set001(max_node)
  PROVE  TestOK
<1>1. Len(T) = 4 /\ DOMAIN T = 1..4
  BY DEF Set001, Need, Set, Get, ModeIs
<1>2. T[1].op = "need" /\ T[1].k = 1
  BY DEF Set001, Need, Set, Get, ModeIs
<1>3. T[2].op = "set" /\ T[2].mode = {"DEFAULT"} /\ T[2].mask = NULL /\ T[2].maxnode = max_node /\ T[2].want = "ok" /\ max_node \in Nat
  BY DEF Set001, Need, Set, Get, ModeIs
<1>4. T[3].op = "get" /\ T[3].at = NOADDR /\ T[3].maxnode = 0 /\ T[3].m = TRUE /\ T[3].nm = FALSE /\ T[3].flags = {} /\ T[3].want = "ok"
  BY DEF Set001, Need, Set, Get, ModeIs
<1>5. T[4].op = "mode" /\ T[4].mode = {"DEFAULT"}
  BY DEF Set001, Need, Set, Get, ModeIs
<1>6. T[1].op = "need" /\ T[2].op = "set" /\ T[3].op = "get" /\ T[4].op = "mode"
  BY ONLY <1>2, <1>3, <1>4, <1>5
<1>7. \A k \in 1..4 : StepOK(T[k])
  <2>1. StepOK(T[1])
    BY ONLY <1>2, NeedStep
  <2>2. PolicyStep(T[2])
    BY ONLY <1>3, Widths DEF PolicyStep, Modes
  <2>3. StepOK(T[2])
    BY ONLY <1>3, <2>2, SetStep DEF Wants
  <2>4. StepOK(T[3])
    BY ONLY <1>4, GetStep DEF NOADDR, WILDADDR, Wants
  <2>5. StepOK(T[4])
    BY ONLY <1>5, PlainStep DEF Ops, Checks, Setters
  <2>. QED  BY ONLY <2>1, <2>3, <2>4, <2>5
<1>8. OrderOK
  BY ONLY <1>1, <1>6 DEF OrderOK
<1>9. Suitable => max_node >= 1
  BY ONLY <1>1, <1>2 DEF Suitable
<1>10. \A l \in 1..4 : T[l].op \in Setters <=> l \in {2}
  BY ONLY <1>6 DEF Setters
<1>11. MasksOK
  <2>1. \A k, l \in 1..4 : T[k].op = "alloc" /\ T[l].op = "alloc" /\ T[k].name = T[l].name => k = l
    BY ONLY <1>6
  <2>2. ASSUME NEW k \in 1..4, UsesMask(T[k]) PROVE \E a \in 1..(k - 1) : MaskAt(k, a)
    <3>. QED  BY ONLY <2>2, <1>6, <1>4 DEF UsesMask
  <2>3. \A k \in 1..4 : T[k].op \in Setters /\ T[k].mask # NULL => ArgFits(k)
    <3>. QED  BY ONLY <1>10, <1>3
  <2>. QED  BY ONLY <1>1, <2>1, <2>2, <2>3 DEF MasksOK
<1>12. SmallMasks
  <2>1. T[2].mask = NULL \/ T[2].mask \subseteq 0..3
    BY ONLY <1>3
  <2>. QED  BY ONLY <1>1, <1>10, <2>1 DEF SmallMasks
<1>13. ASSUME Suitable, NEW k \in 1..4 PROVE CallOK(k)
  <2>1. Effective(T[2], "none") = {}
    BY ONLY <1>3 DEF Effective
  <2>2. PolicyError(T[2], "none") = "0"
    BY ONLY <2>1, <1>9, <1>13, <1>3, Widths, GoodPolicy
  <2>3. CallOK(2)
    BY ONLY <1>3, <2>2, SetCall
  <2>4. CallOK(3)
    BY ONLY <1>9, <1>13, <1>4, max_node \in Nat, NodesLaw, GetCall DEF NOADDR, WILDADDR
  <2>5. k \notin {2, 3} => CallOK(k)
    BY ONLY <1>13, <1>6, NoCall DEF Setters
  <2>. QED  BY ONLY <2>5, <2>3, <2>4
<1>14. ASSUME Suitable, NEW k \in 1..4 PROVE CheckOK(k)
  <2>1. Effective(T[2], "none") = {}
    BY ONLY <1>3 DEF Effective
  <2>2. Policy(T[2]) = [mode |-> {"DEFAULT"}, mask |-> {}]
    BY ONLY <1>3, <2>1 DEF Policy
  <2>3. LastCover(4, T[3].at, 2)
    BY ONLY <1>4, <1>10, <1>3 DEF LastCover, Covers, Setters, PROC, NOADDR
  <2>4. Finds(T[4], Policy(T[2]))
    BY ONLY <1>5, <2>2 DEF Finds
  <2>5. CheckOK(4)
    BY ONLY <1>5, <1>4, <2>3, <2>4, CheckAfter
  <2>6. k \notin {4} => CheckOK(k)
    BY ONLY <1>14, <1>6, NoCheck
  <2>. QED  BY ONLY <2>6, <2>5
<1>15. \A k \in 1..4 : Confirmed(k)
  BY DEF Confirmed
<1>16. ScopeOK
  BY ONLY <1>1, <1>6, test = "set001" DEF ScopeOK, LoopOps
<1>. QED  BY ONLY <1>1, <1>7, <1>8, <1>11, <1>12, <1>16, <1>13, <1>14, <1>15 DEF TestOK

\* set_mempolicy 002
LEMMA Set002OK == ASSUME max_node \in Nat, test = "set002", T = Set002(max_node) PROVE TestOK
<1>1. Len(T) = 3 /\ DOMAIN T = 1..3
  BY DEF Set002, Need, Alloc, Set, Mask
<1>2. T[1].op = "need" /\ T[1].k = 1
  BY DEF Set002, Need, Alloc, Set, Mask
<1>3. T[2].op = "alloc" /\ T[2].name = "node_mask" /\ T[2].bits = max_node /\ max_node \in Nat
  BY DEF Set002, Need, Alloc, Set, Mask
<1>4. T[3].op = "set" /\ T[3].mode = {"DEFAULT"} /\ T[3].mask = {} /\ T[3].maxnode = 0 /\ T[3].want = "EINVAL"
  BY DEF Set002, Need, Alloc, Set, Mask
<1>5. Suitable => max_node >= 1
  BY ONLY <1>1, <1>2 DEF Suitable
<1>6. PolicyStep(T[3])
  BY ONLY <1>4, Widths DEF PolicyStep, Modes
<1>7. StepOK(T[3])
  BY ONLY <1>4, <1>6, SetStep DEF Wants
<1>8. ArgFits(3) /\ T[3].mask \subseteq 0..3
  BY ONLY <1>4, Widths DEF ArgFits
<1>9. Suitable => CallOK(3)
  <2>. SUFFICES ASSUME Suitable PROVE CallOK(3)  OBVIOUS
  <2>1. PolicyError(T[3], "none") = "EINVAL"
    BY ONLY <1>4, Widths, BadPolicies DEF NULL
  <2>. QED  BY ONLY <1>4, <2>1, SetCall
<1>. QED  BY ONLY <1>1, <1>2, <1>3, <1>4, <1>7, <1>8, <1>9, max_node \in Nat, test = "set002", Widths, OneCall DEF Setters

\* set_mempolicy 003
LEMMA Set003OK == ASSUME max_node \in Nat, test = "set003", T = Set003(max_node) PROVE TestOK
<1>1. Len(T) = 6 /\ DOMAIN T = 1..6
  BY DEF Set003, Need, Alloc, Set, Get, ModeIs, MaskIs, Mask, ShowsProc
<1>2. T[1].op = "need" /\ T[1].k = 2
  BY DEF Set003, Need, Alloc, Set, Get, ModeIs, MaskIs, Mask, ShowsProc
<1>3. T[2].op = "alloc" /\ T[2].name = "node_mask" /\ T[2].bits = max_node /\ max_node \in Nat
  BY DEF Set003, Need, Alloc, Set, Get, ModeIs, MaskIs, Mask, ShowsProc
<1>4. T[3].op = "set" /\ T[3].mode = {"BIND"} /\ T[3].mask = {0, 1} /\ T[3].maxnode = BITS_PER_LONG /\ T[3].want = "ok"
  BY DEF Set003, Need, Alloc, Set, Get, ModeIs, MaskIs, Mask, ShowsProc
<1>5. T[4].op = "get" /\ T[4].at = NOADDR /\ T[4].maxnode = max_node /\ T[4].m = TRUE /\ T[4].nm = TRUE /\ T[4].flags = {} /\ T[4].want = "ok" /\ max_node \in Nat
  BY DEF Set003, Need, Alloc, Set, Get, ModeIs, MaskIs, Mask, ShowsProc
<1>6. T[5].op = "mode" /\ T[5].mode = {"BIND"}
  BY DEF Set003, Need, Alloc, Set, Get, ModeIs, MaskIs, Mask, ShowsProc
<1>7. T[6].op = "word0" /\ T[6].bits = {0, 1}
  BY DEF Set003, Need, Alloc, Set, Get, ModeIs, MaskIs, Mask, ShowsProc
<1>8. Suitable => max_node >= 2
  BY ONLY <1>1, <1>2 DEF Suitable
<1>9. PolicyStep(T[3])
  BY ONLY <1>4, Widths DEF PolicyStep, Modes
<1>10. StepOK(T[3])
  BY ONLY <1>4, <1>9, SetStep DEF Wants
<1>11. Suitable => CallOK(3) /\ Finds(T[5], Policy(T[3])) /\ Finds(T[6], Policy(T[3]))
  <2>. SUFFICES ASSUME Suitable PROVE CallOK(3) /\ Finds(T[5], Policy(T[3])) /\ Finds(T[6], Policy(T[3]))  OBVIOUS
  <2>1. Effective(T[3], "none") = {0, 1}
    BY ONLY Suitable, <1>8, <1>4, max_node \in Nat, MaskCuts DEF Effective, NULL
  <2>2. PolicyError(T[3], "none") = "0"
    BY ONLY <2>1, <1>4, Widths, GoodPolicy
  <2>3. CallOK(3)
    BY ONLY <1>4, <2>2, SetCall
  <2>4. Policy(T[3]) = [mode |-> {"BIND"}, mask |-> {0, 1}]
    BY ONLY <1>4, <2>1 DEF Policy
  <2>. QED  BY ONLY <2>3, <2>4, <1>6, <1>7 DEF Finds
<1>12. T[1].k \in Nat \ {0} /\ T[3].op \in Setters /\ T[6].op \in {"word0", "zero"}
  BY ONLY <1>2, <1>4, <1>7 DEF Setters
<1>13. T[3].mask \subseteq 0..3 /\ T[3].maxnode - 1 <= BITS_PER_LONG
  BY ONLY <1>4, Widths
<1>. QED  BY ONLY <1>1, <1>2, <1>3, <1>4, <1>5, <1>6, <1>7, <1>10, <1>11, <1>12, <1>13, max_node \in Nat, test = "set003", SetAndShown

\* set_mempolicy 004
LEMMA Set004OK == ASSUME max_node \in Nat, test = "set004", T = Set004(max_node) PROVE TestOK
<1>1. Len(T) = 6 /\ DOMAIN T = 1..6
  BY DEF Set004, Need, Alloc, Set, Get, ModeIs, MaskIs, Mask, ShowsProc
<1>2. T[1].op = "need" /\ T[1].k = 4
  BY DEF Set004, Need, Alloc, Set, Get, ModeIs, MaskIs, Mask, ShowsProc
<1>3. T[2].op = "alloc" /\ T[2].name = "node_mask" /\ T[2].bits = max_node /\ max_node \in Nat
  BY DEF Set004, Need, Alloc, Set, Get, ModeIs, MaskIs, Mask, ShowsProc
<1>4. T[3].op = "set" /\ T[3].mode = {"BIND"} /\ T[3].mask = 0..3 /\ T[3].maxnode = 2 /\ T[3].want = "ok"
  BY DEF Set004, Need, Alloc, Set, Get, ModeIs, MaskIs, Mask, ShowsProc
<1>5. T[4].op = "get" /\ T[4].at = NOADDR /\ T[4].maxnode = max_node /\ T[4].m = TRUE /\ T[4].nm = TRUE /\ T[4].flags = {} /\ T[4].want = "ok" /\ max_node \in Nat
  BY DEF Set004, Need, Alloc, Set, Get, ModeIs, MaskIs, Mask, ShowsProc
<1>6. T[5].op = "mode" /\ T[5].mode = {"BIND"}
  BY DEF Set004, Need, Alloc, Set, Get, ModeIs, MaskIs, Mask, ShowsProc
<1>7. T[6].op = "word0" /\ T[6].bits = {0}
  BY DEF Set004, Need, Alloc, Set, Get, ModeIs, MaskIs, Mask, ShowsProc
<1>8. Suitable => max_node >= 4
  BY ONLY <1>1, <1>2 DEF Suitable
<1>9. PolicyStep(T[3])
  BY ONLY <1>4, Widths DEF PolicyStep, Modes
<1>10. StepOK(T[3])
  BY ONLY <1>4, <1>9, SetStep DEF Wants
<1>11. Suitable => CallOK(3) /\ Finds(T[5], Policy(T[3])) /\ Finds(T[6], Policy(T[3]))
  <2>. SUFFICES ASSUME Suitable PROVE CallOK(3) /\ Finds(T[5], Policy(T[3])) /\ Finds(T[6], Policy(T[3]))  OBVIOUS
  <2>1. Effective(T[3], "none") = {0}
    BY ONLY Suitable, <1>8, <1>4, max_node \in Nat, MaskCuts DEF Effective, NULL
  <2>2. PolicyError(T[3], "none") = "0"
    BY ONLY <2>1, <1>4, Widths, GoodPolicy
  <2>3. CallOK(3)
    BY ONLY <1>4, <2>2, SetCall
  <2>4. Policy(T[3]) = [mode |-> {"BIND"}, mask |-> {0}]
    BY ONLY <1>4, <2>1 DEF Policy
  <2>. QED  BY ONLY <2>3, <2>4, <1>6, <1>7 DEF Finds
<1>12. T[1].k \in Nat \ {0} /\ T[3].op \in Setters /\ T[6].op \in {"word0", "zero"}
  BY ONLY <1>2, <1>4, <1>7 DEF Setters
<1>13. T[3].mask \subseteq 0..3 /\ T[3].maxnode - 1 <= BITS_PER_LONG
  BY ONLY <1>4, Widths
<1>. QED  BY ONLY <1>1, <1>2, <1>3, <1>4, <1>5, <1>6, <1>7, <1>10, <1>11, <1>12, <1>13, max_node \in Nat, test = "set004", SetAndShown

\* set_mempolicy 005
LEMMA Set005OK == ASSUME max_node \in Nat, test = "set005", T = Set005(max_node) PROVE TestOK
<1>1. Len(T) = 2 /\ DOMAIN T = 1..2
  BY DEF Set005, Need, Set
<1>2. T[1].op = "need" /\ T[1].k = 4
  BY DEF Set005, Need, Set
<1>3. T[2].op = "set" /\ T[2].mode = {"BIND"} /\ T[2].mask = {2, 3} /\ T[2].maxnode = 2 /\ T[2].want = "EINVAL"
  BY DEF Set005, Need, Set
<1>4. Suitable => max_node >= 4
  BY ONLY <1>1, <1>2 DEF Suitable
<1>5. PolicyStep(T[2])
  BY ONLY <1>3, Widths DEF PolicyStep, Modes
<1>6. StepOK(T[2])
  BY ONLY <1>3, <1>5, SetStep DEF Wants
<1>7. ArgFits(2) /\ T[2].mask \subseteq 0..3
  BY ONLY <1>3, Widths DEF ArgFits
<1>8. Suitable => CallOK(2)
  <2>. SUFFICES ASSUME Suitable PROVE CallOK(2)  OBVIOUS
  <2>1. Effective(T[2], "none") = {}
    BY ONLY Suitable, <1>4, <1>3, max_node \in Nat, MaskCuts DEF Effective, NULL
  <2>2. PolicyError(T[2], "none") = "EINVAL"
    BY ONLY <2>1, <1>3, Widths, BadPolicies DEF NULL
  <2>. QED  BY ONLY <1>3, <2>2, SetCall
<1>. QED  BY ONLY <1>1, <1>2, <1>3, <1>6, <1>7, <1>8, max_node \in Nat, test = "set005", Widths, OneCall DEF Setters

\* set_mempolicy 006
LEMMA Set006OK == ASSUME max_node \in Nat, test = "set006", T = Set006(max_node) PROVE TestOK
<1>1. Len(T) = 2 /\ DOMAIN T = 1..2
  BY DEF Set006, Need, Set
<1>2. T[1].op = "need" /\ T[1].k = 2
  BY DEF Set006, Need, Set
<1>3. T[2].op = "set" /\ T[2].mode = {"BIND"} /\ T[2].mask = {0, 1} /\ T[2].maxnode = 0 /\ T[2].want = "EINVAL"
  BY DEF Set006, Need, Set
<1>4. Suitable => max_node >= 2
  BY ONLY <1>1, <1>2 DEF Suitable
<1>5. PolicyStep(T[2])
  BY ONLY <1>3, Widths DEF PolicyStep, Modes
<1>6. StepOK(T[2])
  BY ONLY <1>3, <1>5, SetStep DEF Wants
<1>7. ArgFits(2) /\ T[2].mask \subseteq 0..3
  BY ONLY <1>3, Widths DEF ArgFits
<1>8. Suitable => CallOK(2)
  <2>. SUFFICES ASSUME Suitable PROVE CallOK(2)  OBVIOUS
  <2>1. PolicyError(T[2], "none") = "EINVAL"
    BY ONLY <1>3, Widths, BadPolicies DEF NULL
  <2>. QED  BY ONLY <1>3, <2>1, SetCall
<1>. QED  BY ONLY <1>1, <1>2, <1>3, <1>6, <1>7, <1>8, max_node \in Nat, test = "set006", Widths, OneCall DEF Setters

\* set_mempolicy 007
LEMMA Set007OK == ASSUME max_node \in Nat, test = "set007", T = Set007(max_node) PROVE TestOK
<1>1. Len(T) = 3 /\ DOMAIN T = 1..3
  BY DEF Set007, Need, Alloc, Set, Mask
<1>2. T[1].op = "need" /\ T[1].k = 1
  BY DEF Set007, Need, Alloc, Set, Mask
<1>3. T[2].op = "alloc" /\ T[2].name = "node_mask" /\ T[2].bits = max_node /\ max_node \in Nat
  BY DEF Set007, Need, Alloc, Set, Mask
<1>4. T[3].op = "set" /\ T[3].mode = {"BIND"} /\ T[3].mask = {0} /\ T[3].maxnode = 1 /\ T[3].want = "fails"
  BY DEF Set007, Need, Alloc, Set, Mask
<1>5. Suitable => max_node >= 1
  BY ONLY <1>1, <1>2 DEF Suitable
<1>6. PolicyStep(T[3])
  BY ONLY <1>4, Widths DEF PolicyStep, Modes
<1>7. StepOK(T[3])
  BY ONLY <1>4, <1>6, SetStep DEF Wants
<1>8. ArgFits(3) /\ T[3].mask \subseteq 0..3
  BY ONLY <1>4, Widths DEF ArgFits
<1>9. Suitable => CallOK(3)
  <2>. SUFFICES ASSUME Suitable PROVE CallOK(3)  OBVIOUS
  <2>1. Effective(T[3], "none") = {}
    BY ONLY Suitable, <1>5, <1>4, max_node \in Nat, MaskCuts DEF Effective, NULL
  <2>2. PolicyError(T[3], "none") = "EINVAL"
    BY ONLY <2>1, <1>4, Widths, BadPolicies DEF NULL
  <2>. QED  BY ONLY <1>4, <2>2, SetCall
<1>. QED  BY ONLY <1>1, <1>2, <1>3, <1>4, <1>7, <1>8, <1>9, max_node \in Nat, test = "set007", Widths, OneCall DEF Setters

\* set_mempolicy 008
LEMMA Set008OK == ASSUME max_node \in Nat, test = "set008", T = Set008(max_node) PROVE TestOK
<1>1. Len(T) = 1 /\ DOMAIN T = 1..1
  BY DEF Set008, Set
<1>2. T[1].op = "set" /\ T[1].mode = {"BIND"} /\ T[1].mask = NULL /\ T[1].maxnode = 0 /\ T[1].want = "EINVAL"
  BY DEF Set008, Set
<1>3. PolicyStep(T[1])
  BY ONLY <1>2, Widths DEF PolicyStep, Modes
<1>4. StepOK(T[1])
  BY ONLY <1>2, <1>3, SetStep DEF Wants
<1>5. Suitable => CallOK(1)
  <2>. SUFFICES ASSUME Suitable PROVE CallOK(1)  OBVIOUS
  <2>1. Effective(T[1], "none") = {}
    BY ONLY <1>2 DEF Effective
  <2>2. PolicyError(T[1], "none") = "EINVAL"
    BY ONLY <2>1, <1>2, Widths, BadPolicies
  <2>. QED  BY ONLY <1>2, <2>2, SetCall
<1>. QED  BY ONLY <1>1, <1>2, <1>4, <1>5, max_node \in Nat, test = "set008", Widths, OneCall DEF Setters

\* set_mempolicy 009
LEMMA Set009OK == ASSUME max_node \in Nat, test = "set009", T = Set009(max_node) PROVE TestOK
<1>1. Len(T) = 6 /\ DOMAIN T = 1..6
  BY DEF Set009, Need, Alloc, Set, Get, ModeIs, MaskIs, Mask, ShowsProc
<1>2. T[1].op = "need" /\ T[1].k = 2
  BY DEF Set009, Need, Alloc, Set, Get, ModeIs, MaskIs, Mask, ShowsProc
<1>3. T[2].op = "alloc" /\ T[2].name = "node_mask" /\ T[2].bits = max_node /\ max_node \in Nat
  BY DEF Set009, Need, Alloc, Set, Get, ModeIs, MaskIs, Mask, ShowsProc
<1>4. T[3].op = "set" /\ T[3].mode = {"BIND", "STATIC"} /\ T[3].mask = {0, 1} /\ T[3].maxnode = BITS_PER_LONG /\ T[3].want = "ok"
  BY DEF Set009, Need, Alloc, Set, Get, ModeIs, MaskIs, Mask, ShowsProc
<1>5. T[4].op = "get" /\ T[4].at = NOADDR /\ T[4].maxnode = max_node /\ T[4].m = TRUE /\ T[4].nm = TRUE /\ T[4].flags = {} /\ T[4].want = "ok" /\ max_node \in Nat
  BY DEF Set009, Need, Alloc, Set, Get, ModeIs, MaskIs, Mask, ShowsProc
<1>6. T[5].op = "mode" /\ T[5].mode = {"BIND", "STATIC"}
  BY DEF Set009, Need, Alloc, Set, Get, ModeIs, MaskIs, Mask, ShowsProc
<1>7. T[6].op = "word0" /\ T[6].bits = {0, 1}
  BY DEF Set009, Need, Alloc, Set, Get, ModeIs, MaskIs, Mask, ShowsProc
<1>8. Suitable => max_node >= 2
  BY ONLY <1>1, <1>2 DEF Suitable
<1>9. PolicyStep(T[3])
  BY ONLY <1>4, Widths DEF PolicyStep, Modes
<1>10. StepOK(T[3])
  BY ONLY <1>4, <1>9, SetStep DEF Wants
<1>11. Suitable => CallOK(3) /\ Finds(T[5], Policy(T[3])) /\ Finds(T[6], Policy(T[3]))
  <2>. SUFFICES ASSUME Suitable PROVE CallOK(3) /\ Finds(T[5], Policy(T[3])) /\ Finds(T[6], Policy(T[3]))  OBVIOUS
  <2>1. Effective(T[3], "none") = {0, 1}
    BY ONLY Suitable, <1>8, <1>4, max_node \in Nat, MaskCuts DEF Effective, NULL
  <2>2. PolicyError(T[3], "none") = "0"
    BY ONLY <2>1, <1>4, Widths, GoodPolicy
  <2>3. CallOK(3)
    BY ONLY <1>4, <2>2, SetCall
  <2>4. Policy(T[3]) = [mode |-> {"BIND", "STATIC"}, mask |-> {0, 1}]
    BY ONLY <1>4, <2>1 DEF Policy
  <2>. QED  BY ONLY <2>3, <2>4, <1>6, <1>7 DEF Finds
<1>12. T[1].k \in Nat \ {0} /\ T[3].op \in Setters /\ T[6].op \in {"word0", "zero"}
  BY ONLY <1>2, <1>4, <1>7 DEF Setters
<1>13. T[3].mask \subseteq 0..3 /\ T[3].maxnode - 1 <= BITS_PER_LONG
  BY ONLY <1>4, Widths
<1>. QED  BY ONLY <1>1, <1>2, <1>3, <1>4, <1>5, <1>6, <1>7, <1>10, <1>11, <1>12, <1>13, max_node \in Nat, test = "set009", SetAndShown

\* set_mempolicy 010
LEMMA Set010OK == ASSUME max_node \in Nat, test = "set010", T = Set010(max_node) PROVE TestOK
<1>1. Len(T) = 6 /\ DOMAIN T = 1..6
  BY DEF Set010, Need, Alloc, Set, Get, ModeIs, MaskIs, Mask, ShowsProc
<1>2. T[1].op = "need" /\ T[1].k = 2
  BY DEF Set010, Need, Alloc, Set, Get, ModeIs, MaskIs, Mask, ShowsProc
<1>3. T[2].op = "alloc" /\ T[2].name = "node_mask" /\ T[2].bits = max_node /\ max_node \in Nat
  BY DEF Set010, Need, Alloc, Set, Get, ModeIs, MaskIs, Mask, ShowsProc
<1>4. T[3].op = "set" /\ T[3].mode = {"BIND", "RELATIVE"} /\ T[3].mask = {0, 1} /\ T[3].maxnode = BITS_PER_LONG /\ T[3].want = "ok"
  BY DEF Set010, Need, Alloc, Set, Get, ModeIs, MaskIs, Mask, ShowsProc
<1>5. T[4].op = "get" /\ T[4].at = NOADDR /\ T[4].maxnode = max_node /\ T[4].m = TRUE /\ T[4].nm = TRUE /\ T[4].flags = {} /\ T[4].want = "ok" /\ max_node \in Nat
  BY DEF Set010, Need, Alloc, Set, Get, ModeIs, MaskIs, Mask, ShowsProc
<1>6. T[5].op = "mode" /\ T[5].mode = {"BIND", "RELATIVE"}
  BY DEF Set010, Need, Alloc, Set, Get, ModeIs, MaskIs, Mask, ShowsProc
<1>7. T[6].op = "word0" /\ T[6].bits = {0, 1}
  BY DEF Set010, Need, Alloc, Set, Get, ModeIs, MaskIs, Mask, ShowsProc
<1>8. Suitable => max_node >= 2
  BY ONLY <1>1, <1>2 DEF Suitable
<1>9. PolicyStep(T[3])
  BY ONLY <1>4, Widths DEF PolicyStep, Modes
<1>10. StepOK(T[3])
  BY ONLY <1>4, <1>9, SetStep DEF Wants
<1>11. Suitable => CallOK(3) /\ Finds(T[5], Policy(T[3])) /\ Finds(T[6], Policy(T[3]))
  <2>. SUFFICES ASSUME Suitable PROVE CallOK(3) /\ Finds(T[5], Policy(T[3])) /\ Finds(T[6], Policy(T[3]))  OBVIOUS
  <2>1. Effective(T[3], "none") = {0, 1}
    BY ONLY Suitable, <1>8, <1>4, max_node \in Nat, MaskCuts DEF Effective, NULL
  <2>2. PolicyError(T[3], "none") = "0"
    BY ONLY <2>1, <1>4, Widths, GoodPolicy
  <2>3. CallOK(3)
    BY ONLY <1>4, <2>2, SetCall
  <2>4. Policy(T[3]) = [mode |-> {"BIND", "RELATIVE"}, mask |-> {0, 1}]
    BY ONLY <1>4, <2>1 DEF Policy
  <2>. QED  BY ONLY <2>3, <2>4, <1>6, <1>7 DEF Finds
<1>12. T[1].k \in Nat \ {0} /\ T[3].op \in Setters /\ T[6].op \in {"word0", "zero"}
  BY ONLY <1>2, <1>4, <1>7 DEF Setters
<1>13. T[3].mask \subseteq 0..3 /\ T[3].maxnode - 1 <= BITS_PER_LONG
  BY ONLY <1>4, Widths
<1>. QED  BY ONLY <1>1, <1>2, <1>3, <1>4, <1>5, <1>6, <1>7, <1>10, <1>11, <1>12, <1>13, max_node \in Nat, test = "set010", SetAndShown

\* set_mempolicy 011
LEMMA Set011OK == ASSUME max_node \in Nat, test = "set011", T = Set011(max_node) PROVE TestOK
<1>1. Len(T) = 2 /\ DOMAIN T = 1..2
  BY DEF Set011, Need, Set
<1>2. T[1].op = "need" /\ T[1].k = 2
  BY DEF Set011, Need, Set
<1>3. T[2].op = "set" /\ T[2].mode = {"BIND", "STATIC", "RELATIVE"} /\ T[2].mask = {0, 1} /\ T[2].maxnode = BITS_PER_LONG /\ T[2].want = "EINVAL"
  BY DEF Set011, Need, Set
<1>4. Suitable => max_node >= 2
  BY ONLY <1>1, <1>2 DEF Suitable
<1>5. PolicyStep(T[2])
  BY ONLY <1>3, Widths DEF PolicyStep, Modes
<1>6. StepOK(T[2])
  BY ONLY <1>3, <1>5, SetStep DEF Wants
<1>7. ArgFits(2) /\ T[2].mask \subseteq 0..3
  BY ONLY <1>3, Widths DEF ArgFits
<1>8. Suitable => CallOK(2)
  <2>. SUFFICES ASSUME Suitable PROVE CallOK(2)  OBVIOUS
  <2>1. PolicyError(T[2], "none") = "EINVAL"
    BY ONLY <1>3, Widths, BadPolicies DEF NULL
  <2>. QED  BY ONLY <1>3, <2>1, SetCall
<1>. QED  BY ONLY <1>1, <1>2, <1>3, <1>6, <1>7, <1>8, max_node \in Nat, test = "set011", Widths, OneCall DEF Setters

\* set_mempolicy 012
LEMMA Set012OK ==
  ASSUME max_node \in Nat, max_node < SYS_MAX_NODE, test = "set012", T = Set012(max_node)
  PROVE  TestOK
<1>1. Len(T) = 7 /\ DOMAIN T = 1..7
  BY DEF Set012, Need, Alloc, Set, Get, ModeIs, MaskIsFull, Mask
<1>2. T[1].op = "need" /\ T[1].k = 1
  BY DEF Set012, Need, Alloc, Set, Get, ModeIs, MaskIsFull, Mask
<1>3. T[2].op = "alloc" /\ T[2].name = "node_mask" /\ T[2].bits = max_node + 1 /\ max_node \in Nat
  BY DEF Set012, Need, Alloc, Set, Get, ModeIs, MaskIsFull, Mask
<1>4. T[3].op = "alloc" /\ T[3].name = "arg_mask" /\ T[3].bits = max_node + 1 /\ max_node \in Nat
  BY DEF Set012, Need, Alloc, Set, Get, ModeIs, MaskIsFull, Mask
<1>5. T[4].op = "set" /\ T[4].mode = {"BIND"} /\ T[4].mask = OneTooMany(max_node) /\ T[4].maxnode = max_node + 1 /\ T[4].want = "ok" /\ max_node \in Nat
  BY DEF Set012, Need, Alloc, Set, Get, ModeIs, MaskIsFull, Mask
<1>6. T[5].op = "get" /\ T[5].at = NOADDR /\ T[5].maxnode = max_node + 1 /\ T[5].m = TRUE /\ T[5].nm = TRUE /\ T[5].flags = {} /\ T[5].want = "ok" /\ max_node \in Nat
  BY DEF Set012, Need, Alloc, Set, Get, ModeIs, MaskIsFull, Mask
<1>7. T[6].op = "mode" /\ T[6].mode = {"BIND"}
  BY DEF Set012, Need, Alloc, Set, Get, ModeIs, MaskIsFull, Mask
<1>8. T[7].op = "full" /\ T[7].bits = max_node /\ max_node \in Nat
  BY DEF Set012, Need, Alloc, Set, Get, ModeIs, MaskIsFull, Mask
<1>9. T[1].op = "need" /\ T[2].op = "alloc" /\ T[3].op = "alloc" /\ T[4].op = "set" /\ T[5].op = "get" /\ T[6].op = "mode" /\ T[7].op = "full"
  BY ONLY <1>2, <1>3, <1>4, <1>5, <1>6, <1>7, <1>8
<1>10. \A k \in 1..7 : StepOK(T[k])
  <2>1. StepOK(T[1])
    BY ONLY <1>2, NeedStep
  <2>2. StepOK(T[2])
    BY ONLY <1>3, AllocStep, Widths
  <2>3. StepOK(T[3])
    BY ONLY <1>4, AllocStep, Widths
  <2>4. PolicyStep(T[4])
    BY ONLY <1>5, Widths DEF PolicyStep, Modes
  <2>5. StepOK(T[4])
    BY ONLY <1>5, <2>4, SetStep DEF Wants
  <2>6. StepOK(T[5])
    BY ONLY <1>6, GetStep DEF NOADDR, WILDADDR, Wants
  <2>7. StepOK(T[6])
    BY ONLY <1>7, PlainStep DEF Ops, Checks, Setters
  <2>8. StepOK(T[7])
    BY ONLY <1>8, PlainStep DEF Ops, Checks, Setters
  <2>. QED  BY ONLY <2>1, <2>2, <2>3, <2>5, <2>6, <2>7, <2>8
<1>11. OrderOK
  BY ONLY <1>1, <1>9 DEF OrderOK
<1>12. Suitable => max_node >= 1
  BY ONLY <1>1, <1>2 DEF Suitable
<1>13. \A l \in 1..7 : T[l].op \in Setters <=> l \in {4}
  BY ONLY <1>9 DEF Setters
<1>14. MasksOK
  <2>1. \A k, l \in 1..7 : T[k].op = "alloc" /\ T[l].op = "alloc" /\ T[k].name = T[l].name => k = l
    BY ONLY <1>9, <1>3, <1>4
  <2>2. ASSUME NEW k \in 1..7, UsesMask(T[k]) PROVE \E a \in 1..(k - 1) : MaskAt(k, a)
    <3>1. k \in {5, 7}
      BY ONLY <2>2, <1>9 DEF UsesMask
    <3>2. MaskAt(5, 2)
      BY ONLY <1>6, <1>3, <1>12 DEF MaskAt
    <3>3. MaskAt(7, 2)
      BY ONLY <1>8, <1>3, <1>12 DEF MaskAt
    <3>. QED  BY ONLY <3>1, <3>2, <3>3
  <2>3. \A k \in 1..7 : T[k].op \in Setters /\ T[k].mask # NULL => ArgFits(k)
    <3>1. ArgFits(4)
      BY ONLY <1>5, Widths, <1>4 DEF ArgFits
    <3>. QED  BY ONLY <1>13, <3>1
  <2>. QED  BY ONLY <1>1, <2>1, <2>2, <2>3 DEF MasksOK
<1>15. SmallMasks
  BY DEF SmallMasks
<1>16. ASSUME Suitable, ShiftsFit, NEW k \in 1..7 PROVE CallOK(k)
  <2>1. Effective(T[4], "none") = Nodes
    <3>1. ShiftFits(max_node)
      BY ONLY <1>1, <1>9, <1>16 DEF ShiftsFit, Uses
    <3>. QED  BY ONLY <3>1, <1>12, <1>16, <1>5, max_node \in Nat, OneTooManyLaw DEF Effective, NULL
  <2>2. PolicyError(T[4], "none") = "0"
    BY ONLY <2>1, <1>12, <1>16, <1>5, Widths, GoodPolicy, max_node \in Nat, max_node < SYS_MAX_NODE, NodesLaw
  <2>3. CallOK(4)
    BY ONLY <1>5, <2>2, SetCall
  <2>4. CallOK(5)
    BY ONLY <1>12, <1>16, <1>6, max_node \in Nat, NodesLaw, GetCall DEF NOADDR, WILDADDR
  <2>5. k \notin {4, 5} => CallOK(k)
    BY ONLY <1>16, <1>9, NoCall DEF Setters
  <2>. QED  BY ONLY <2>5, <2>3, <2>4
<1>17. ASSUME Suitable, ShiftsFit, NEW k \in 1..7 PROVE CheckOK(k)
  <2>1. Effective(T[4], "none") = Nodes
    <3>1. ShiftFits(max_node)
      BY ONLY <1>1, <1>9, <1>17 DEF ShiftsFit, Uses
    <3>. QED  BY ONLY <3>1, <1>12, <1>17, <1>5, max_node \in Nat, OneTooManyLaw DEF Effective, NULL
  <2>2. Policy(T[4]) = [mode |-> {"BIND"}, mask |-> Nodes]
    BY ONLY <1>5, <2>1 DEF Policy
  <2>3. LastCover(6, T[5].at, 4)
    BY ONLY <1>6, <1>13, <1>5 DEF LastCover, Covers, Setters, PROC, NOADDR
  <2>4. Finds(T[6], Policy(T[4]))
    BY ONLY <1>7, <2>2 DEF Finds
  <2>5. CheckOK(6)
    BY ONLY <1>7, <1>6, <2>3, <2>4, CheckAfter
  <2>6. LastCover(7, T[5].at, 4)
    BY ONLY <1>6, <1>13, <1>5 DEF LastCover, Covers, Setters, PROC, NOADDR
  <2>7. Finds(T[7], Policy(T[4]))
    BY ONLY <1>8, <2>2 DEF Finds
  <2>8. CheckOK(7)
    BY ONLY <1>8, <1>6, <2>6, <2>7, <1>7, CheckAfter
  <2>9. k \notin {6, 7} => CheckOK(k)
    BY ONLY <1>17, <1>9, NoCheck
  <2>. QED  BY ONLY <2>9, <2>5, <2>8
<1>18. \A k \in 1..7 : Confirmed(k)
  <2>1. GetOf(6) = 5 /\ GetOf(7) = 5
    BY ONLY <1>9 DEF GetOf
  <2>2. \A k \in 1..Len(T) : Looks(T[k]) => T[k].at = T[5].at
    BY ONLY <1>1, <1>9, <1>6 DEF Looks
  <2>3. Looks(T[5])
    BY ONLY <1>6 DEF Looks
  <2>4. \A l \in 1..Len(T) : T[l].op \in Setters => l < 6 /\ l < 7
    BY ONLY <1>1, <1>13
  <2>5. 6 \in 1..Len(T) /\ 7 \in 1..Len(T) /\ T[6].op = "mode" /\ T[7].op \in {"word0", "zero", "full"}
    BY ONLY <1>1, <1>9
  <2>. QED  BY ONLY <1>1, <2>1, <2>2, <2>3, <2>4, <2>5, ConfirmedBy
<1>19. ScopeOK
  BY ONLY <1>1, <1>9, test = "set012" DEF ScopeOK, LoopOps
<1>. QED  BY ONLY <1>1, <1>10, <1>11, <1>14, <1>15, <1>19, <1>16, <1>17, <1>18 DEF TestOK

\* set_mempolicy 013
LEMMA Set013OK == ASSUME max_node \in Nat, test = "set013", T = Set013(max_node) PROVE TestOK
<1>1. Len(T) = 2 /\ DOMAIN T = 1..2
  BY DEF Set013, Alloc, Set
<1>2. T[1].op = "alloc" /\ T[1].name = "arg_mask" /\ T[1].bits = SYS_MAX_NODE + 1
  BY DEF Set013, Alloc, Set
<1>3. T[2].op = "set" /\ T[2].mode = {"BIND"} /\ T[2].mask = {0} /\ T[2].maxnode = SYS_MAX_NODE + 2 /\ T[2].want = "EINVAL"
  BY DEF Set013, Alloc, Set
<1>4. PolicyStep(T[2])
  BY ONLY <1>3, Widths DEF PolicyStep, Modes
<1>5. StepOK(T[2])
  BY ONLY <1>3, <1>4, SetStep DEF Wants
<1>6. ArgFits(2) /\ T[2].mask \subseteq 0..3
  BY ONLY <1>3, Widths, <1>2 DEF ArgFits
<1>7. Suitable => CallOK(2)
  <2>. SUFFICES ASSUME Suitable PROVE CallOK(2)  OBVIOUS
  <2>1. PolicyError(T[2], "none") = "EINVAL"
    BY ONLY <1>3, Widths, BadPolicies DEF NULL
  <2>. QED  BY ONLY <1>3, <2>1, SetCall
<1>. QED  BY ONLY <1>1, <1>2, <1>3, <1>5, <1>6, <1>7, max_node \in Nat, test = "set013", Widths, OneCall DEF Setters

\* set_mempolicy 014
LEMMA Set014OK == ASSUME max_node \in Nat, test = "set014", T = Set014(max_node) PROVE TestOK
<1>1. Len(T) = 6 /\ DOMAIN T = 1..6
  BY DEF Set014, Need, Alloc, Set, Get, ModeIs, MaskIs, Mask, ShowsProc
<1>2. T[1].op = "need" /\ T[1].k = 2
  BY DEF Set014, Need, Alloc, Set, Get, ModeIs, MaskIs, Mask, ShowsProc
<1>3. T[2].op = "alloc" /\ T[2].name = "node_mask" /\ T[2].bits = max_node /\ max_node \in Nat
  BY DEF Set014, Need, Alloc, Set, Get, ModeIs, MaskIs, Mask, ShowsProc
<1>4. T[3].op = "set" /\ T[3].mode = {"INTERLEAVE"} /\ T[3].mask = {0, 1} /\ T[3].maxnode = BITS_PER_LONG /\ T[3].want = "ok"
  BY DEF Set014, Need, Alloc, Set, Get, ModeIs, MaskIs, Mask, ShowsProc
<1>5. T[4].op = "get" /\ T[4].at = NOADDR /\ T[4].maxnode = max_node /\ T[4].m = TRUE /\ T[4].nm = TRUE /\ T[4].flags = {} /\ T[4].want = "ok" /\ max_node \in Nat
  BY DEF Set014, Need, Alloc, Set, Get, ModeIs, MaskIs, Mask, ShowsProc
<1>6. T[5].op = "mode" /\ T[5].mode = {"INTERLEAVE"}
  BY DEF Set014, Need, Alloc, Set, Get, ModeIs, MaskIs, Mask, ShowsProc
<1>7. T[6].op = "word0" /\ T[6].bits = {0, 1}
  BY DEF Set014, Need, Alloc, Set, Get, ModeIs, MaskIs, Mask, ShowsProc
<1>8. Suitable => max_node >= 2
  BY ONLY <1>1, <1>2 DEF Suitable
<1>9. PolicyStep(T[3])
  BY ONLY <1>4, Widths DEF PolicyStep, Modes
<1>10. StepOK(T[3])
  BY ONLY <1>4, <1>9, SetStep DEF Wants
<1>11. Suitable => CallOK(3) /\ Finds(T[5], Policy(T[3])) /\ Finds(T[6], Policy(T[3]))
  <2>. SUFFICES ASSUME Suitable PROVE CallOK(3) /\ Finds(T[5], Policy(T[3])) /\ Finds(T[6], Policy(T[3]))  OBVIOUS
  <2>1. Effective(T[3], "none") = {0, 1}
    BY ONLY Suitable, <1>8, <1>4, max_node \in Nat, MaskCuts DEF Effective, NULL
  <2>2. PolicyError(T[3], "none") = "0"
    BY ONLY <2>1, <1>4, Widths, GoodPolicy
  <2>3. CallOK(3)
    BY ONLY <1>4, <2>2, SetCall
  <2>4. Policy(T[3]) = [mode |-> {"INTERLEAVE"}, mask |-> {0, 1}]
    BY ONLY <1>4, <2>1 DEF Policy
  <2>. QED  BY ONLY <2>3, <2>4, <1>6, <1>7 DEF Finds
<1>12. T[1].k \in Nat \ {0} /\ T[3].op \in Setters /\ T[6].op \in {"word0", "zero"}
  BY ONLY <1>2, <1>4, <1>7 DEF Setters
<1>13. T[3].mask \subseteq 0..3 /\ T[3].maxnode - 1 <= BITS_PER_LONG
  BY ONLY <1>4, Widths
<1>. QED  BY ONLY <1>1, <1>2, <1>3, <1>4, <1>5, <1>6, <1>7, <1>10, <1>11, <1>12, <1>13, max_node \in Nat, test = "set014", SetAndShown

\* set_mempolicy 015
LEMMA Set015OK == ASSUME max_node \in Nat, test = "set015", T = Set015(max_node) PROVE TestOK
<1>1. Len(T) = 6 /\ DOMAIN T = 1..6
  BY DEF Set015, Need, Alloc, Set, Get, ModeIs, MaskIs, Mask, ShowsProc
<1>2. T[1].op = "need" /\ T[1].k = 2
  BY DEF Set015, Need, Alloc, Set, Get, ModeIs, MaskIs, Mask, ShowsProc
<1>3. T[2].op = "alloc" /\ T[2].name = "node_mask" /\ T[2].bits = max_node /\ max_node \in Nat
  BY DEF Set015, Need, Alloc, Set, Get, ModeIs, MaskIs, Mask, ShowsProc
<1>4. T[3].op = "set" /\ T[3].mode = {"PREFERRED"} /\ T[3].mask = {0, 1} /\ T[3].maxnode = BITS_PER_LONG /\ T[3].want = "ok"
  BY DEF Set015, Need, Alloc, Set, Get, ModeIs, MaskIs, Mask, ShowsProc
<1>5. T[4].op = "get" /\ T[4].at = NOADDR /\ T[4].maxnode = max_node /\ T[4].m = TRUE /\ T[4].nm = TRUE /\ T[4].flags = {} /\ T[4].want = "ok" /\ max_node \in Nat
  BY DEF Set015, Need, Alloc, Set, Get, ModeIs, MaskIs, Mask, ShowsProc
<1>6. T[5].op = "mode" /\ T[5].mode = {"PREFERRED"}
  BY DEF Set015, Need, Alloc, Set, Get, ModeIs, MaskIs, Mask, ShowsProc
<1>7. T[6].op = "word0" /\ T[6].bits = {0}
  BY DEF Set015, Need, Alloc, Set, Get, ModeIs, MaskIs, Mask, ShowsProc
<1>8. Suitable => max_node >= 2
  BY ONLY <1>1, <1>2 DEF Suitable
<1>9. PolicyStep(T[3])
  BY ONLY <1>4, Widths DEF PolicyStep, Modes, NULL
<1>10. StepOK(T[3])
  BY ONLY <1>4, <1>9, SetStep DEF Wants
<1>11. Suitable => CallOK(3) /\ Finds(T[5], Policy(T[3])) /\ Finds(T[6], Policy(T[3]))
  <2>. SUFFICES ASSUME Suitable PROVE CallOK(3) /\ Finds(T[5], Policy(T[3])) /\ Finds(T[6], Policy(T[3]))  OBVIOUS
  <2>1. Effective(T[3], "none") = {0, 1}
    BY ONLY Suitable, <1>8, <1>4, max_node \in Nat, MaskCuts DEF Effective, NULL
  <2>2. PolicyError(T[3], "none") = "0"
    BY ONLY <2>1, <1>4, Widths, GoodPolicy
  <2>3. CallOK(3)
    BY ONLY <1>4, <2>2, SetCall
  <2>4. Policy(T[3]) = [mode |-> {"PREFERRED"}, mask |-> {0}]
    BY ONLY <1>4, <2>1, MinLaw DEF Policy
  <2>. QED  BY ONLY <2>3, <2>4, <1>6, <1>7 DEF Finds
<1>12. T[1].k \in Nat \ {0} /\ T[3].op \in Setters /\ T[6].op \in {"word0", "zero"}
  BY ONLY <1>2, <1>4, <1>7 DEF Setters
<1>13. T[3].mask \subseteq 0..3 /\ T[3].maxnode - 1 <= BITS_PER_LONG
  BY ONLY <1>4, Widths
<1>. QED  BY ONLY <1>1, <1>2, <1>3, <1>4, <1>5, <1>6, <1>7, <1>10, <1>11, <1>12, <1>13, max_node \in Nat, test = "set015", SetAndShown

\* set_mempolicy 016
LEMMA Set016OK == ASSUME max_node \in Nat, test = "set016", T = Set016(max_node) PROVE TestOK
<1>1. Len(T) = 6 /\ DOMAIN T = 1..6
  BY DEF Set016, Need, Alloc, Set, Get, ModeIs, MaskIs, Mask, ShowsProc
<1>2. T[1].op = "need" /\ T[1].k = 1
  BY DEF Set016, Need, Alloc, Set, Get, ModeIs, MaskIs, Mask, ShowsProc
<1>3. T[2].op = "alloc" /\ T[2].name = "node_mask" /\ T[2].bits = max_node /\ max_node \in Nat
  BY DEF Set016, Need, Alloc, Set, Get, ModeIs, MaskIs, Mask, ShowsProc
<1>4. T[3].op = "set" /\ T[3].mode = {"PREFERRED"} /\ T[3].mask = NULL /\ T[3].maxnode = 0 /\ T[3].want = "ok"
  BY DEF Set016, Need, Alloc, Set, Get, ModeIs, MaskIs, Mask, ShowsProc
<1>5. T[4].op = "get" /\ T[4].at = NOADDR /\ T[4].maxnode = max_node /\ T[4].m = TRUE /\ T[4].nm = TRUE /\ T[4].flags = {} /\ T[4].want = "ok" /\ max_node \in Nat
  BY DEF Set016, Need, Alloc, Set, Get, ModeIs, MaskIs, Mask, ShowsProc
<1>6. T[5].op = "mode" /\ T[5].mode = {"PREFERRED"}
  BY DEF Set016, Need, Alloc, Set, Get, ModeIs, MaskIs, Mask, ShowsProc
<1>7. T[6].op = "word0" /\ T[6].bits = {}
  BY DEF Set016, Need, Alloc, Set, Get, ModeIs, MaskIs, Mask, ShowsProc
<1>8. Suitable => max_node >= 1
  BY ONLY <1>1, <1>2 DEF Suitable
<1>9. PolicyStep(T[3])
  BY ONLY <1>4, Widths DEF PolicyStep, Modes, NULL
<1>10. StepOK(T[3])
  BY ONLY <1>4, <1>9, SetStep DEF Wants
<1>11. Suitable => CallOK(3) /\ Finds(T[5], Policy(T[3])) /\ Finds(T[6], Policy(T[3]))
  <2>. SUFFICES ASSUME Suitable PROVE CallOK(3) /\ Finds(T[5], Policy(T[3])) /\ Finds(T[6], Policy(T[3]))  OBVIOUS
  <2>1. Effective(T[3], "none") = {}
    BY ONLY <1>4 DEF Effective
  <2>2. PolicyError(T[3], "none") = "0"
    BY ONLY <2>1, <1>4, Widths, GoodPolicy
  <2>3. CallOK(3)
    BY ONLY <1>4, <2>2, SetCall
  <2>4. Policy(T[3]) = [mode |-> {"PREFERRED"}, mask |-> {}]
    BY ONLY <1>4, <2>1, MinLaw DEF Policy
  <2>. QED  BY ONLY <2>3, <2>4, <1>6, <1>7 DEF Finds
<1>12. T[1].k \in Nat \ {0} /\ T[3].op \in Setters /\ T[6].op \in {"word0", "zero"}
  BY ONLY <1>2, <1>4, <1>7 DEF Setters
<1>13. T[3].mask = NULL
  BY ONLY <1>4, Widths
<1>. QED  BY ONLY <1>1, <1>2, <1>3, <1>4, <1>5, <1>6, <1>7, <1>10, <1>11, <1>12, <1>13, max_node \in Nat, test = "set016", SetAndShown

\* set_mempolicy 017
LEMMA Set017OK == ASSUME max_node \in Nat, test = "set017", T = Set017(max_node) PROVE TestOK
<1>1. Len(T) = 1 /\ DOMAIN T = 1..1
  BY DEF Set017, Set
<1>2. T[1].op = "set" /\ T[1].mode = {"UNKNOWN"} /\ T[1].mask = NULL /\ T[1].maxnode = 0 /\ T[1].want = "EINVAL"
  BY DEF Set017, Set
<1>3. PolicyStep(T[1])
  BY ONLY <1>2, Widths DEF PolicyStep, Modes
<1>4. StepOK(T[1])
  BY ONLY <1>2, <1>3, SetStep DEF Wants
<1>5. Suitable => CallOK(1)
  <2>. SUFFICES ASSUME Suitable PROVE CallOK(1)  OBVIOUS
  <2>1. Effective(T[1], "none") = {}
    BY ONLY <1>2 DEF Effective
  <2>2. PolicyError(T[1], "none") = "EINVAL"
    BY ONLY <2>1, <1>2, Widths, BadPolicies
  <2>. QED  BY ONLY <1>2, <2>2, SetCall
<1>. QED  BY ONLY <1>1, <1>2, <1>4, <1>5, max_node \in Nat, test = "set017", Widths, OneCall DEF Setters

-----------------------------------------------------------------------------
(* Every test of the suites is as TestOK says. *)

\* The number of nodes is one the kernel can name.
LEMMA NodeCount == ASSUME max_node \in MaxNodes PROVE max_node \in Nat /\ max_node < SYS_MAX_NODE
  BY CasesAssumption

\* The names of the tests
LEMMA TestNames ==
  DOMAIN Suite(0) =
    {"mbind000", "mbind001", "mbind002", "mbind003", "mbind004", "mbind005", "mbind006", "mbind007",
     "mbind008", "mbind009", "mbind010", "mbind011", "mbind012", "mbind013", "mbind014", "mbind015",
     "mbind016", "mbind017", "mbind018", "mbind019", "mbind020", "mbind021", "mbind022", "mbind023",
     "mbind024", "mbind025", "mbind026", "mbind027", "mbind028", "mbind029", "mbind030", "get000",
     "get001", "get002", "get003", "get004", "get005", "get006", "get007", "get008",
     "get009", "get010", "get011", "get012", "get013", "get014", "get015", "get016",
     "get017", "get018", "get019", "get020", "set000", "set001", "set002", "set003",
     "set004", "set005", "set006", "set007", "set008", "set009", "set010", "set011",
     "set012", "set013", "set014", "set015", "set016", "set017"}
  BY DEF Suite

\* The text a name stands for
LEMMA SuiteOK == ASSUME max_node \in MaxNodes, test \in DOMAIN Suite(0), T = Suite(max_node)[test] PROVE TestOK
<1>1. max_node \in Nat /\ max_node < SYS_MAX_NODE
  BY NodeCount
<1>2. CASE test = "mbind000"
  <2>1. T = Mbind000(max_node)
    BY <1>2 DEF Suite
  <2>. QED  BY ONLY <1>1, <1>2, <2>1, Mbind000OK
<1>3. CASE test = "mbind001"
  <2>1. T = Mbind001(max_node)
    BY <1>3 DEF Suite
  <2>. QED  BY ONLY <1>1, <1>3, <2>1, Mbind001OK
<1>4. CASE test = "mbind002"
  <2>1. T = Mbind002(max_node)
    BY <1>4 DEF Suite
  <2>. QED  BY ONLY <1>1, <1>4, <2>1, Mbind002OK
<1>5. CASE test = "mbind003"
  <2>1. T = Mbind003(max_node)
    BY <1>5 DEF Suite
  <2>. QED  BY ONLY <1>1, <1>5, <2>1, Mbind003OK
<1>6. CASE test = "mbind004"
  <2>1. T = Mbind004(max_node)
    BY <1>6 DEF Suite
  <2>. QED  BY ONLY <1>1, <1>6, <2>1, Mbind004OK
<1>7. CASE test = "mbind005"
  <2>1. T = Mbind005(max_node)
    BY <1>7 DEF Suite
  <2>. QED  BY ONLY <1>1, <1>7, <2>1, Mbind005OK
<1>8. CASE test = "mbind006"
  <2>1. T = Mbind006(max_node)
    BY <1>8 DEF Suite
  <2>. QED  BY ONLY <1>1, <1>8, <2>1, Mbind006OK
<1>9. CASE test = "mbind007"
  <2>1. T = Mbind007(max_node)
    BY <1>9 DEF Suite
  <2>. QED  BY ONLY <1>1, <1>9, <2>1, Mbind007OK
<1>10. CASE test = "mbind008"
  <2>1. T = Mbind008(max_node)
    BY <1>10 DEF Suite
  <2>. QED  BY ONLY <1>1, <1>10, <2>1, Mbind008OK
<1>11. CASE test = "mbind009"
  <2>1. T = Mbind009(max_node)
    BY <1>11 DEF Suite
  <2>. QED  BY ONLY <1>1, <1>11, <2>1, Mbind009OK
<1>12. CASE test = "mbind010"
  <2>1. T = Mbind010(max_node)
    BY <1>12 DEF Suite
  <2>. QED  BY ONLY <1>1, <1>12, <2>1, Mbind010OK
<1>13. CASE test = "mbind011"
  <2>1. T = Mbind011(max_node)
    BY <1>13 DEF Suite
  <2>. QED  BY ONLY <1>1, <1>13, <2>1, Mbind011OK
<1>14. CASE test = "mbind012"
  <2>1. T = Mbind012(max_node)
    BY <1>14 DEF Suite
  <2>. QED  BY ONLY <1>1, <1>14, <2>1, Mbind012OK
<1>15. CASE test = "mbind013"
  <2>1. T = Mbind013(max_node)
    BY <1>15 DEF Suite
  <2>. QED  BY ONLY <1>1, <1>15, <2>1, Mbind013OK
<1>16. CASE test = "mbind014"
  <2>1. T = Mbind014(max_node)
    BY <1>16 DEF Suite
  <2>. QED  BY ONLY <1>1, <1>16, <2>1, Mbind014OK
<1>17. CASE test = "mbind015"
  <2>1. T = Mbind015(max_node)
    BY <1>17 DEF Suite
  <2>. QED  BY ONLY <1>1, <1>17, <2>1, Mbind015OK
<1>18. CASE test = "mbind016"
  <2>1. T = Mbind016(max_node)
    BY <1>18 DEF Suite
  <2>. QED  BY ONLY <1>1, <1>18, <2>1, Mbind016OK
<1>19. CASE test = "mbind017"
  <2>1. T = Mbind017(max_node)
    BY <1>19 DEF Suite
  <2>. QED  BY ONLY <1>1, <1>19, <2>1, Mbind017OK
<1>20. CASE test = "mbind018"
  <2>1. T = Mbind018(max_node)
    BY <1>20 DEF Suite
  <2>. QED  BY ONLY <1>1, <1>20, <2>1, Mbind018OK
<1>21. CASE test = "mbind019"
  <2>1. T = Mbind019(max_node)
    BY <1>21 DEF Suite
  <2>. QED  BY ONLY <1>1, <1>21, <2>1, Mbind019OK
<1>22. CASE test = "mbind020"
  <2>1. T = Mbind020(max_node)
    BY <1>22 DEF Suite
  <2>. QED  BY ONLY <1>1, <1>22, <2>1, Mbind020OK
<1>23. CASE test = "mbind021"
  <2>1. T = Mbind021(max_node)
    BY <1>23 DEF Suite
  <2>. QED  BY ONLY <1>1, <1>23, <2>1, Mbind021OK
<1>24. CASE test = "mbind022"
  <2>1. T = Mbind022(max_node)
    BY <1>24 DEF Suite
  <2>. QED  BY ONLY <1>1, <1>24, <2>1, Mbind022OK
<1>25. CASE test = "mbind023"
  <2>1. T = Mbind023(max_node)
    BY <1>25 DEF Suite
  <2>. QED  BY ONLY <1>1, <1>25, <2>1, Mbind023OK
<1>26. CASE test = "mbind024"
  <2>1. T = Mbind024(max_node)
    BY <1>26 DEF Suite
  <2>. QED  BY ONLY <1>1, <1>26, <2>1, Mbind024OK
<1>27. CASE test = "mbind025"
  <2>1. T = Mbind025(max_node)
    BY <1>27 DEF Suite
  <2>. QED  BY ONLY <1>1, <1>27, <2>1, Mbind025OK
<1>28. CASE test = "mbind026"
  <2>1. T = Mbind026(max_node)
    BY <1>28 DEF Suite
  <2>. QED  BY ONLY <1>1, <1>28, <2>1, Mbind026OK
<1>29. CASE test = "mbind027"
  <2>1. T = Mbind027(max_node)
    BY <1>29 DEF Suite
  <2>. QED  BY ONLY <1>1, <1>29, <2>1, Mbind027OK
<1>30. CASE test = "mbind028"
  <2>1. T = Mbind028(max_node)
    BY <1>30 DEF Suite
  <2>. QED  BY ONLY <1>1, <1>30, <2>1, Mbind028OK
<1>31. CASE test = "mbind029"
  <2>1. T = Mbind029(max_node)
    BY <1>31 DEF Suite
  <2>. QED  BY ONLY <1>1, <1>31, <2>1, Mbind029OK
<1>32. CASE test = "mbind030"
  <2>1. T = Mbind030(max_node)
    BY <1>32 DEF Suite
  <2>. QED  BY ONLY <1>1, <1>32, <2>1, Mbind030OK
<1>33. CASE test = "get000"
  <2>1. T = Get000(max_node)
    BY <1>33 DEF Suite
  <2>. QED  BY ONLY <1>1, <1>33, <2>1, Get000OK
<1>34. CASE test = "get001"
  <2>1. T = Get001(max_node)
    BY <1>34 DEF Suite
  <2>. QED  BY ONLY <1>1, <1>34, <2>1, Get001OK
<1>35. CASE test = "get002"
  <2>1. T = Get002(max_node)
    BY <1>35 DEF Suite
  <2>. QED  BY ONLY <1>1, <1>35, <2>1, Get002OK
<1>36. CASE test = "get003"
  <2>1. T = Get003(max_node)
    BY <1>36 DEF Suite
  <2>. QED  BY ONLY <1>1, <1>36, <2>1, Get003OK
<1>37. CASE test = "get004"
  <2>1. T = Get004(max_node)
    BY <1>37 DEF Suite
  <2>. QED  BY ONLY <1>1, <1>37, <2>1, Get004OK
<1>38. CASE test = "get005"
  <2>1. T = Get005(max_node)
    BY <1>38 DEF Suite
  <2>. QED  BY ONLY <1>1, <1>38, <2>1, Get005OK
<1>39. CASE test = "get006"
  <2>1. T = Get006(max_node)
    BY <1>39 DEF Suite
  <2>. QED  BY ONLY <1>1, <1>39, <2>1, Get006OK
<1>40. CASE test = "get007"
  <2>1. T = Get007(max_node)
    BY <1>40 DEF Suite
  <2>. QED  BY ONLY <1>1, <1>40, <2>1, Get007OK
<1>41. CASE test = "get008"
  <2>1. T = Get008(max_node)
    BY <1>41 DEF Suite
  <2>. QED  BY ONLY <1>1, <1>41, <2>1, Get008OK
<1>42. CASE test = "get009"
  <2>1. T = Get009(max_node)
    BY <1>42 DEF Suite
  <2>. QED  BY ONLY <1>1, <1>42, <2>1, Get009OK
<1>43. CASE test = "get010"
  <2>1. T = Get010(max_node)
    BY <1>43 DEF Suite
  <2>. QED  BY ONLY <1>1, <1>43, <2>1, Get010OK
<1>44. CASE test = "get011"
  <2>1. T = Get011(max_node)
    BY <1>44 DEF Suite
  <2>. QED  BY ONLY <1>1, <1>44, <2>1, Get011OK
<1>45. CASE test = "get012"
  <2>1. T = Get012(max_node)
    BY <1>45 DEF Suite
  <2>. QED  BY ONLY <1>1, <1>45, <2>1, Get012OK
<1>46. CASE test = "get013"
  <2>1. T = Get013(max_node)
    BY <1>46 DEF Suite
  <2>. QED  BY ONLY <1>1, <1>46, <2>1, Get013OK
<1>47. CASE test = "get014"
  <2>1. T = Get014(max_node)
    BY <1>47 DEF Suite
  <2>. QED  BY ONLY <1>1, <1>47, <2>1, Get014OK
<1>48. CASE test = "get015"
  <2>1. T = Get015(max_node)
    BY <1>48 DEF Suite
  <2>. QED  BY ONLY <1>1, <1>48, <2>1, Get015OK
<1>49. CASE test = "get016"
  <2>1. T = Get016(max_node)
    BY <1>49 DEF Suite
  <2>. QED  BY ONLY <1>1, <1>49, <2>1, Get016OK
<1>50. CASE test = "get017"
  <2>1. T = Get017(max_node)
    BY <1>50 DEF Suite
  <2>. QED  BY ONLY <1>1, <1>50, <2>1, Get017OK
<1>51. CASE test = "get018"
  <2>1. T = Get018(max_node)
    BY <1>51 DEF Suite
  <2>. QED  BY ONLY <1>1, <1>51, <2>1, Get018OK
<1>52. CASE test = "get019"
  <2>1. T = Get019(max_node)
    BY <1>52 DEF Suite
  <2>. QED  BY ONLY <1>1, <1>52, <2>1, Get019OK
<1>53. CASE test = "get020"
  <2>1. T = Get020(max_node)
    BY <1>53 DEF Suite
  <2>. QED  BY ONLY <1>1, <1>53, <2>1, Get020OK
<1>54. CASE test = "set000"
  <2>1. T = Set000(max_node)
    BY <1>54 DEF Suite
  <2>. QED  BY ONLY <1>1, <1>54, <2>1, Set000OK
<1>55. CASE test = "set001"
  <2>1. T = Set001(max_node)
    BY <1>55 DEF Suite
  <2>. QED  BY ONLY <1>1, <1>55, <2>1, Set001OK
<1>56. CASE test = "set002"
  <2>1. T = Set002(max_node)
    BY <1>56 DEF Suite
  <2>. QED  BY ONLY <1>1, <1>56, <2>1, Set002OK
<1>57. CASE test = "set003"
  <2>1. T = Set003(max_node)
    BY <1>57 DEF Suite
  <2>. QED  BY ONLY <1>1, <1>57, <2>1, Set003OK
<1>58. CASE test = "set004"
  <2>1. T = Set004(max_node)
    BY <1>58 DEF Suite
  <2>. QED  BY ONLY <1>1, <1>58, <2>1, Set004OK
<1>59. CASE test = "set005"
  <2>1. T = Set005(max_node)
    BY <1>59 DEF Suite
  <2>. QED  BY ONLY <1>1, <1>59, <2>1, Set005OK
<1>60. CASE test = "set006"
  <2>1. T = Set006(max_node)
    BY <1>60 DEF Suite
  <2>. QED  BY ONLY <1>1, <1>60, <2>1, Set006OK
<1>61. CASE test = "set007"
  <2>1. T = Set007(max_node)
    BY <1>61 DEF Suite
  <2>. QED  BY ONLY <1>1, <1>61, <2>1, Set007OK
<1>62. CASE test = "set008"
  <2>1. T = Set008(max_node)
    BY <1>62 DEF Suite
  <2>. QED  BY ONLY <1>1, <1>62, <2>1, Set008OK
<1>63. CASE test = "set009"
  <2>1. T = Set009(max_node)
    BY <1>63 DEF Suite
  <2>. QED  BY ONLY <1>1, <1>63, <2>1, Set009OK
<1>64. CASE test = "set010"
  <2>1. T = Set010(max_node)
    BY <1>64 DEF Suite
  <2>. QED  BY ONLY <1>1, <1>64, <2>1, Set010OK
<1>65. CASE test = "set011"
  <2>1. T = Set011(max_node)
    BY <1>65 DEF Suite
  <2>. QED  BY ONLY <1>1, <1>65, <2>1, Set011OK
<1>66. CASE test = "set012"
  <2>1. T = Set012(max_node)
    BY <1>66 DEF Suite
  <2>. QED  BY ONLY <1>1, <1>66, <2>1, Set012OK
<1>67. CASE test = "set013"
  <2>1. T = Set013(max_node)
    BY <1>67 DEF Suite
  <2>. QED  BY ONLY <1>1, <1>67, <2>1, Set013OK
<1>68. CASE test = "set014"
  <2>1. T = Set014(max_node)
    BY <1>68 DEF Suite
  <2>. QED  BY ONLY <1>1, <1>68, <2>1, Set014OK
<1>69. CASE test = "set015"
  <2>1. T = Set015(max_node)
    BY <1>69 DEF Suite
  <2>. QED  BY ONLY <1>1, <1>69, <2>1, Set015OK
<1>70. CASE test = "set016"
  <2>1. T = Set016(max_node)
    BY <1>70 DEF Suite
  <2>. QED  BY ONLY <1>1, <1>70, <2>1, Set016OK
<1>71. CASE test = "set017"
  <2>1. T = Set017(max_node)
    BY <1>71 DEF Suite
  <2>. QED  BY ONLY <1>1, <1>71, <2>1, Set017OK
<1>. QED
  BY TestNames, <1>2, <1>3, <1>4, <1>5, <1>6, <1>7, <1>8, <1>9, <1>10, <1>11, <1>12, <1>13, <1>14, <1>15, <1>16, <1>17, <1>18, <1>19, <1>20, <1>21, <1>22, <1>23, <1>24, <1>25, <1>26, <1>27, <1>28, <1>29, <1>30, <1>31, <1>32, <1>33, <1>34, <1>35, <1>36, <1>37, <1>38, <1>39, <1>40, <1>41, <1>42, <1>43, <1>44, <1>45, <1>46, <1>47, <1>48, <1>49, <1>50, <1>51, <1>52, <1>53, <1>54, <1>55, <1>56, <1>57, <1>58, <1>59, <1>60, <1>61, <1>62, <1>63, <1>64, <1>65, <1>66, <1>67, <1>68, <1>69, <1>70, <1>71

-----------------------------------------------------------------------------
(* Steps of RUN_FUNC(), and the end *)

\* A step leads to the next one, or ends the test.
Moves == pc' # "over" /\ ((end' = "ng" /\ Now' = i) \/ (end' # "ng" /\ Now' = i + 1))

\* That is what tp_assert() does.
LEMMA AssertLaw ==
  ASSUME BasicInv, TestOK, UNCHANGED chosen, pc = "run",
         \/ pc' = "teardown" /\ end' = "ng" /\ i' = i
         \/ i = Len(T) /\ pc' = "teardown" /\ end' = "ok" /\ i' = i
         \/ i # Len(T) /\ i' = i + 1 /\ pc' = pc /\ end' = end
  PROVE  BasicInv' /\ Moves /\ Now = i /\ end = "none"
<1>1. Len(T) \in Nat \ {0} /\ T' = T /\ test' = test /\ max_node' = max_node /\ fault' = fault
  BY DEF TestOK, chosen
<1>2. end = "none" /\ Now = i /\ i \in 1..Len(T)
  BY DEF BasicInv, Now
<1>3. BasicInv'
  BY <1>1, <1>2 DEF BasicInv
<1>4. Moves
  BY <1>1, <1>2 DEF Moves, Now
<1>. QED  BY <1>2, <1>3, <1>4

\* Whatever the step, the test and its number of nodes stay.
LEMMA RunLaw ==
  ASSUME BasicInv, TestOK, Next, pc = "run"
  PROVE  UNCHANGED chosen /\ BasicInv' /\ Moves /\ Now = i /\ end = "none"
<1>. DEFINE Ends == \/ pc' = "teardown" /\ end' = "ng" /\ i' = i
                    \/ i = Len(T) /\ pc' = "teardown" /\ end' = "ok" /\ i' = i
                    \/ i # Len(T) /\ i' = i + 1 /\ pc' = pc /\ end' = end
<1>. SUFFICES UNCHANGED chosen /\ Ends
  BY AssertLaw
<1>1. CASE CheckMaxNode
  BY <1>1 DEF CheckMaxNode, Assert
<1>2. CASE create_node_mask
  BY <1>2 DEF create_node_mask, Assert
<1>3. CASE MmapBuf \/ MunmapBuf
  BY <1>3 DEF MmapBuf, MunmapBuf, Assert
<1>4. CASE PresetMask \/ TouchBuf
  BY <1>4 DEF PresetMask, TouchBuf, Assert
<1>5. CASE CallMbind
  BY <1>5 DEF CallMbind, Assert
<1>6. CASE CallSet
  BY <1>6 DEF CallSet, Assert
<1>7. CASE CallGet
  BY <1>7 DEF CallGet, Assert
<1>8. CASE CheckAnswer
  BY <1>8 DEF CheckAnswer, Assert
<1>9. CASE KeepOld \/ Release
  BY <1>9 DEF KeepOld, Release, Assert
<1>10. CASE Reserve
  BY <1>10 DEF Reserve, Assert
<1>11. CASE MmapLarge
  BY <1>11 DEF MmapLarge, Assert
<1>12. CASE TouchLarge
  BY <1>12 DEF TouchLarge, Assert
<1>13. ~Teardown /\ ~Over
  BY DEF Teardown, Over
<1>. QED  BY <1>1, <1>2, <1>3, <1>4, <1>5, <1>6, <1>7, <1>8, <1>9, <1>10, <1>11, <1>12, <1>13 DEF Next

\* Behind RUN_FUNC() only TEARDOWN_FUNC() is left, which changes what is held.
LEMMA DoneLaw ==
  ASSUME (Next /\ pc # "run") \/ UNCHANGED vars
  PROVE  /\ UNCHANGED <<chosen, kernel, locals, i, end, history>> /\ Now' = Now
         /\ Teardown \/ UNCHANGED <<held, pc>>
<1>1. CASE UNCHANGED vars
  BY <1>1 DEF vars, chosen, Now
<1>2. CASE Next /\ pc # "run"
  <2>1. Teardown \/ Over
    BY <1>2 DEF Next, CheckMaxNode, create_node_mask, MmapBuf, MunmapBuf, PresetMask, TouchBuf, CallMbind, CallSet,
                CallGet, CheckAnswer, KeepOld, Reserve, MmapLarge, TouchLarge, Release, At
  <2>2. CASE Teardown
    BY <2>2 DEF Teardown, chosen, Now
  <2>3. CASE Over
    BY <2>3 DEF Over, vars, chosen, Now
  <2>. QED  BY <2>1, <2>2, <2>3
<1>. QED  BY <1>1, <1>2

\* What is said of the text stays, too.
LEMMA SameText ==
  ASSUME UNCHANGED chosen
  PROVE  /\ T' = T /\ test' = test /\ max_node' = max_node /\ fault' = fault
         /\ Nodes' = Nodes /\ Cardinality(Nodes)' = Cardinality(Nodes) /\ Policies' = Policies
         /\ Suitable' <=> Suitable
         /\ ShiftsFit' <=> ShiftsFit
         /\ \A k, p : Untouched(k, p)' <=> Untouched(k, p)
         /\ \A k, p, j : LastCover(k, p, j)' <=> LastCover(k, p, j)
         /\ \A k : GetOf(k)' = GetOf(k)
<1>1. T' = T /\ test' = test /\ max_node' = max_node /\ fault' = fault
  BY DEF chosen
<1>2. Nodes' = Nodes
  BY <1>1 DEF Nodes
<1>3. Policies' = Policies
  BY <1>2 DEF Policies
<1>4. Suitable' <=> Suitable
  BY <1>1 DEF Suitable
<1>5. /\ \A k, p : Untouched(k, p)' <=> Untouched(k, p)
      /\ \A k, p, j : LastCover(k, p, j)' <=> LastCover(k, p, j)
      /\ \A k : GetOf(k)' = GetOf(k)
  BY <1>1 DEF Untouched, LastCover, GetOf
<1>6. ShiftsFit' <=> ShiftsFit
  BY <1>1 DEF ShiftsFit, ShiftFits, Uses
<1>. QED  BY <1>1, <1>2, <1>3, <1>4, <1>5, <1>6

\* A step behind the max_node checks is made on a machine with nodes enough.
LEMMA NeedsMet ==
  ASSUME BasicInv, TestOK, NeedInv, pc = "run", S.op \notin {"need", "map"}
  PROVE  Suitable
<1>1. end = "none" /\ Now = i /\ i \in 1..Len(T) /\ DOMAIN T = 1..Len(T)
  BY DEF BasicInv, Now, TestOK
<1>2. ASSUME NEW k \in 1..Len(T), T[k].op = "need" PROVE k < i
  <2>1. k # i
    BY <1>2 DEF S
  <2>2. ~(i < k)
    <3>1. SUFFICES ASSUME i < k PROVE FALSE  OBVIOUS
    <3>2. i \in 1..(k - 1)
      BY <1>1, <3>1
    <3>. QED  BY <1>2, <3>2 DEF TestOK, OrderOK, S
  <2>. QED  BY <2>1, <2>2, <1>1
<1>. QED  BY <1>1, <1>2 DEF NeedInv, Suitable

\* A max_node check that is passed is met.
LEMMA NeedStepLaw ==
  ASSUME IInv, TestOK, Next, pc = "run" PROVE NeedInv'
<1>1. UNCHANGED chosen /\ Moves /\ Now = i /\ end = "none"
  BY RunLaw DEF IInv
<1>2. T' = T /\ max_node' = max_node
  BY <1>1, SameText
<1>3. i \in 1..Len(T) /\ Len(T) \in Nat
  BY DEF IInv, BasicInv, TestOK
<1>4. end' # "ng" /\ T[i].op = "need" => max_node >= T[i].k
  <2>1. T[i].op = "need" => CheckMaxNode
    BY DEF Next, create_node_mask, MmapBuf, MunmapBuf, PresetMask, TouchBuf, CallMbind, CallSet,
           CallGet, CheckAnswer, KeepOld, Reserve, MmapLarge, TouchLarge, Release, Teardown, Over, At, S
  <2>2. CheckMaxNode /\ end' # "ng" => max_node >= T[i].k
    BY DEF CheckMaxNode, Assert, S
  <2>. QED  BY <2>1, <2>2
<1>5. \A k \in 1..(i - 1) : T[k].op = "need" => max_node >= T[k].k
  BY <1>1 DEF IInv, NeedInv
<1>. QED  BY <1>1, <1>2, <1>3, <1>4, <1>5 DEF NeedInv, Moves

-----------------------------------------------------------------------------
(* The kernel *)

\* The step at i says which action is taken.
LEMMA ActionOf ==
  ASSUME Next, pc = "run"
  PROVE  /\ S.op = "mbind" => CallMbind
         /\ S.op = "set" => CallSet
         /\ S.op = "get" => CallGet
         /\ S.op \in Checks => CheckAnswer
         /\ S.op \notin Setters => UNCHANGED <<kern, due>>
<1>1. /\ S.op = "mbind" => CallMbind
      /\ S.op = "set" => CallSet
      /\ S.op = "get" => CallGet
      /\ S.op \in Checks => CheckAnswer
  BY DEF Next, CheckMaxNode, create_node_mask, MmapBuf, MunmapBuf, PresetMask, TouchBuf, CallMbind, CallSet,
         CallGet, CheckAnswer, KeepOld, Reserve, MmapLarge, TouchLarge, Release, Teardown, Over, At, Checks
<1>2. S.op \notin Setters => UNCHANGED <<kern, due>>
  BY DEF Next, CheckMaxNode, create_node_mask, MmapBuf, MunmapBuf, PresetMask, TouchBuf, CallMbind, CallSet,
         CallGet, CheckAnswer, KeepOld, Reserve, MmapLarge, TouchLarge, Release, Teardown, Over, At, Setters,
         kernel, history
<1>. QED  BY <1>1, <1>2

\* The nodes of a mask that exist
LEMMA EffectiveLaw ==
  ASSUME NEW s, NEW f
  PROVE  /\ Effective(s, f) \subseteq Nodes
         /\ IF s.mask = NULL THEN Effective(s, f) = {} ELSE Effective(s, f) \subseteq s.mask
  BY DEF Effective

\* The lowest of some nodes 0 and 1
LEMMA MinOf == ASSUME NEW m, m \subseteq {0, 1}, m # {} PROVE Min(m) \in m
<1>1. m = {0} \/ m = {1} \/ m = {0, 1}
  OBVIOUS
<1>. QED  BY <1>1, MinLaw

\* What the kernel keeps is a policy for nodes that exist.
LEMMA StoredLaw ==
  ASSUME NEW s, PolicyStep(s), NEW was \in Policies, NEW f
  PROVE  /\ Stored(s, was, f) \in Policies
         /\ (s.mask = NULL \/ s.mask \subseteq 0..3) /\ was.mask \subseteq 0..3 => Stored(s, was, f).mask \subseteq 0..3
<1>. DEFINE eff == Effective(s, f)
<1>1. eff \subseteq Nodes /\ (IF s.mask = NULL THEN eff = {} ELSE eff \subseteq s.mask)
  BY EffectiveLaw
<1>. DEFINE kept == IF s.mode = {"DEFAULT"} /\ f = "keepmask" THEN was.mask
                    ELSE IF s.mode = {"PREFERRED"} /\ eff # {} /\ f # "allpreferred" THEN {Min(eff)}
                    ELSE eff
            m == IF f = "dropflags" THEN s.mode \ {"STATIC", "RELATIVE"} ELSE s.mode
<1>2. Stored(s, was, f) = IF f = "noop" THEN was ELSE [mode |-> m, mask |-> kept]
  BY DEF Stored
<1>3. s.mode = {"PREFERRED"} /\ eff # {} => Min(eff) \in eff
  BY <1>1, MinOf DEF PolicyStep
<1>. HIDE DEF eff
<1>4. was.mask \subseteq Nodes /\ was.mode \subseteq Modes
  BY DEF Policies
<1>5. kept \subseteq Nodes
  BY ONLY <1>1, <1>3, <1>4
<1>6. (s.mask = NULL \/ s.mask \subseteq 0..3) /\ was.mask \subseteq 0..3 => kept \subseteq 0..3
  BY ONLY <1>1, <1>3
<1>7. m \subseteq Modes
  BY DEF PolicyStep
<1>. HIDE DEF m, kept
<1>. QED  BY <1>2, <1>5, <1>6, <1>7 DEF Policies

\* Policies of the pages and of the process
Kernels == [pol : [Page -> Policies], proc : Policies]

\* mbind() gives its range the new policy and changes nothing else, but for what its fault does.
LEMMA BoundLaw ==
  ASSUME NEW k \in Kernels, NEW s, PolicyStep(s), s.at \in Page, NEW f
  PROVE  /\ Bound(k, s, f) \in Kernels /\ Bound(k, s, f).proc = k.proc
         /\ \A p \in Page : Bound(k, s, f).pol[p] =
              IF p \in Span(s, f) THEN Stored(s, k.pol[p], f)
              ELSE IF f = "split" /\ p >= s.at + s.len /\ k.pol[p] = k.pol[s.at] THEN D
              ELSE k.pol[p]
<1>. DEFINE new == [p \in Page |-> IF p \in Span(s, f) THEN Stored(s, k.pol[p], f)
                                   ELSE IF f = "split" /\ p >= s.at + s.len /\ k.pol[p] = k.pol[s.at] THEN D
                                   ELSE k.pol[p]]
<1>1. Bound(k, s, f) = [k EXCEPT !.pol = new]
  BY DEF Bound
<1>2. D \in Policies
  BY DEF D, Policies, Modes
<1>3. ASSUME NEW p \in Page PROVE new[p] \in Policies
  <2>1. k.pol[p] \in Policies
    BY DEF Kernels
  <2>2. Stored(s, k.pol[p], f) \in Policies
    BY <2>1, StoredLaw
  <2>. QED  BY <1>2, <2>1, <2>2
<1>4. new \in [Page -> Policies]
  BY <1>3
<1>5. \A p \in Page : new[p] = IF p \in Span(s, f) THEN Stored(s, k.pol[p], f)
              ELSE IF f = "split" /\ p >= s.at + s.len /\ k.pol[p] = k.pol[s.at] THEN D
              ELSE k.pol[p]
  OBVIOUS
<1>. HIDE DEF new
<1>6. Bound(k, s, f) \in Kernels /\ Bound(k, s, f).proc = k.proc /\ Bound(k, s, f).pol = new
  BY <1>1, <1>4 DEF Kernels
<1>. QED  BY <1>5, <1>6

\* A fault outside StoreFaults leaves what is kept alone.
LEMMA KeepsWell ==
  ASSUME NEW f, f \notin StoreFaults, NEW s
  PROVE  /\ PolicyError(s, f) = PolicyError(s, "none") /\ MbindError(s, f) = MbindError(s, "none")
         /\ \A k : Bound(k, s, f) = Bound(k, s, "none")
         /\ \A was : Stored(s, was, f) = Stored(s, was, "none")
<1>1. Effective(s, f) = Effective(s, "none")
  BY DEF Effective, StoreFaults
<1>2. PolicyError(s, f) = PolicyError(s, "none")
  BY <1>1 DEF PolicyError, BadPolicy, StoreFaults
<1>3. MbindError(s, f) = MbindError(s, "none")
  BY <1>1, <1>2 DEF MbindError, StoreFaults
<1>4. \A was : Stored(s, was, f) = Stored(s, was, "none")
  BY <1>1 DEF Stored, StoreFaults
<1>5. Span(s, f) = Span(s, "none")
  BY DEF Span, StoreFaults
<1>6. \A k : Bound(k, s, f) = Bound(k, s, "none")
  BY <1>4, <1>5 DEF Bound, StoreFaults
<1>. QED  BY <1>2, <1>3, <1>4, <1>6

\* Policies stay policies, small masks small, and a kernel without a fault in what it keeps a good one.
LEMMA KernelStep ==
  ASSUME IInv, TestOK, Next, pc = "run" PROVE KernelInv'
<1>1. UNCHANGED chosen /\ i \in 1..Len(T)
  BY RunLaw DEF IInv, BasicInv
<1>2. /\ test' = test /\ fault' = fault /\ Policies' = Policies
  BY <1>1, SameText
<1>3. KernelInv
  BY DEF IInv
<1>4. CASE S.op \notin Setters
  <2>1. kern' = kern /\ due' = due
    BY <1>4, ActionOf
  <2>. QED  BY <1>2, <1>3, <2>1 DEF KernelInv, Slot
<1>5. ASSUME S.op \in Setters PROVE PolicyStep(S) /\ (test \notin {"mbind013", "set012"} => S.mask = NULL \/ S.mask \subseteq 0..3)
  BY <1>1, <1>5 DEF S, TestOK, StepOK, SmallMasks
<1>6. kern \in Kernels /\ due \in Kernels
  BY <1>3 DEF KernelInv, Kernels
<1>. DEFINE Small(k) == \A p \in Slots : Slot(k, p).mask \subseteq 0..3
<1>7. ASSUME kern' \in Kernels, due' \in Kernels,
             test \notin {"mbind013", "set012"} => Small(kern'),
             fault \notin StoreFaults => kern' = due'
      PROVE  KernelInv'
  BY <1>2, <1>7 DEF KernelInv, Kernels, Slot
<1>8. test \notin {"mbind013", "set012"} => Small(kern)
  BY <1>3 DEF KernelInv
<1>9. CASE S.op = "mbind"
  <2>1. /\ kern' = IF MbindError(S, fault) = "0" THEN Bound(kern, S, fault) ELSE kern
        /\ due' = IF MbindError(S, "none") = "0" THEN Bound(due, S, "none") ELSE due
    BY <1>9, ActionOf DEF CallMbind
  <2>2. S.at \in Page /\ PolicyStep(S)
    BY <1>1, <1>5, <1>9 DEF S, TestOK, StepOK, Setters
  <2>3. Bound(kern, S, fault) \in Kernels /\ Bound(due, S, "none") \in Kernels
    BY <1>6, <2>2, BoundLaw
  <2>4. ASSUME test \notin {"mbind013", "set012"} PROVE Small(Bound(kern, S, fault))
    <3>. SUFFICES ASSUME NEW p \in Slots PROVE Slot(Bound(kern, S, fault), p).mask \subseteq 0..3
      OBVIOUS
    <3>1. CASE p = PROC
      BY <1>6, <1>8, <2>2, <2>4, <3>1, BoundLaw DEF Slot
    <3>2. CASE p # PROC
      <4>1. p \in Page /\ Slot(Bound(kern, S, fault), p) = Bound(kern, S, fault).pol[p]
        BY <3>2 DEF Slots, Slot
      <4>2. kern.pol[p] \in Policies /\ kern.pol[p].mask \subseteq 0..3
        BY <1>6, <1>8, <2>4, <3>2, <4>1 DEF Slot, Kernels
      <4>3. Stored(S, kern.pol[p], fault).mask \subseteq 0..3
        BY <1>5, <1>9, <2>2, <2>4, <4>2, StoredLaw DEF Setters
      <4>4. D.mask \subseteq 0..3
        BY DEF D
      <4>. QED  BY ONLY <4>1, <4>2, <4>3, <4>4, <1>6, <2>2, BoundLaw
    <3>. QED  BY <3>1, <3>2
  <2>5. fault \notin StoreFaults => kern' = due'
    BY <1>3, <2>1, KeepsWell DEF KernelInv
  <2>. QED  BY ONLY <1>6, <1>7, <1>8, <2>1, <2>3, <2>4, <2>5
<1>10. CASE S.op = "set"
  <2>1. /\ kern' = IF PolicyError(S, fault) = "0" THEN [kern EXCEPT !.proc = Stored(S, kern.proc, fault)] ELSE kern
        /\ due' = IF PolicyError(S, "none") = "0" THEN [due EXCEPT !.proc = Stored(S, due.proc, "none")] ELSE due
    BY <1>10, ActionOf DEF CallSet
  <2>2. PolicyStep(S) /\ kern.proc \in Policies /\ due.proc \in Policies
    BY <1>5, <1>6, <1>10 DEF Setters, Kernels
  <2>3. Stored(S, kern.proc, fault) \in Policies /\ Stored(S, due.proc, "none") \in Policies
    BY <2>2, StoredLaw
  <2>4. kern' \in Kernels /\ due' \in Kernels
    BY <1>6, <2>1, <2>3 DEF Kernels
  <2>5. ASSUME test \notin {"mbind013", "set012"} PROVE Small(kern')
    <3>1. kern.proc.mask \subseteq 0..3
      BY <1>8, <2>5 DEF Slot, Slots
    <3>2. Stored(S, kern.proc, fault).mask \subseteq 0..3
      BY <1>5, <1>10, <2>2, <2>5, <3>1, StoredLaw DEF Setters
    <3>3. kern'.pol = kern.pol /\ (kern'.proc = kern.proc \/ kern'.proc = Stored(S, kern.proc, fault))
      BY <1>6, <2>1 DEF Kernels
    <3>. QED  BY <1>8, <2>5, <3>1, <3>2, <3>3 DEF Slot
  <2>6. fault \notin StoreFaults => kern' = due'
    BY <1>3, <2>1, KeepsWell DEF KernelInv
  <2>. QED  BY ONLY <1>7, <2>4, <2>5, <2>6
<1>. QED  BY <1>4, <1>9, <1>10 DEF Setters

-----------------------------------------------------------------------------
(* The words of the masks *)

\* More bits need as many words or more.
LEMMA MoreWords ==
  ASSUME NEW a \in Int, NEW b \in Int, a <= b
  PROVE  a \div BITS_PER_LONG \in Int /\ a \div BITS_PER_LONG <= b \div BITS_PER_LONG
  BY Widths

\* A step that uses node_mask comes behind its allocation.
LEMMA MaskThere ==
  ASSUME BasicInv, Suitable, MaskInv, TestOK, pc = "run", NEW k \in 1..i, UsesMask(T[k])
  PROVE  /\ words.node_mask \in Nat \ {0} /\ BITS_PER_LONG <= words.node_mask * BITS_PER_LONG
         /\ \E a \in 1..(k - 1) : /\ MaskAt(k, a) /\ T[a].bits \in Nat /\ words.node_mask = Words(T[a].bits)
                                  /\ T[a].bits <= words.node_mask * BITS_PER_LONG
<1>1. end = "none" /\ Now = i /\ i \in 1..Len(T) /\ Len(T) \in Nat
  BY DEF BasicInv, Now, TestOK
<1>2. k \in 1..Len(T)
  BY <1>1
<1>3. PICK a \in 1..(k - 1) : MaskAt(k, a)
  BY <1>2 DEF TestOK, MasksOK
<1>4. T[a].op = "alloc" /\ T[a].name = "node_mask" /\ T[a].bits \in Nat /\ a \in 1..(Now - 1)
  BY <1>1, <1>3 DEF MaskAt, TestOK, StepOK
<1>5. words.node_mask = Words(T[a].bits)
  BY <1>4 DEF MaskInv
<1>. QED  BY ONLY <1>3, <1>4, <1>5, WordsLaw

\* What get_mempolicy() writes lies in node_mask, and fills it when it is to succeed.
LEMMA WrittenLaw ==
  ASSUME BasicInv, Suitable, MaskInv, TestOK, pc = "run", NEW k \in 1..i, NEW s, s = T[k], s.op = "get", s.nm, NEW f
  PROVE  /\ s.maxnode <= words.node_mask * BITS_PER_LONG
         /\ Written(s, f) \subseteq 0..(words.node_mask * BITS_PER_LONG - 1)
         /\ s.want = "ok" => /\ 0..(BITS_PER_LONG - 1) \subseteq Written(s, f)
                             /\ f # "oneword" => Written(s, f) = 0..(words.node_mask * BITS_PER_LONG - 1)
                             /\ f # "oneword" => Nodes \subseteq Written(s, f)
<1>1. UsesMask(T[k])
  BY DEF UsesMask
<1>2. PICK a \in 1..(k - 1) : /\ MaskAt(k, a) /\ T[a].bits \in Nat /\ words.node_mask = Words(T[a].bits)
                              /\ T[a].bits <= words.node_mask * BITS_PER_LONG
  BY <1>1, MaskThere
<1>3. words.node_mask \in Nat \ {0} /\ BITS_PER_LONG <= words.node_mask * BITS_PER_LONG
  BY <1>1, MaskThere
<1>. DEFINE w == words.node_mask
            b == T[a].bits
            m == s.maxnode
            q == (m + BITS_PER_LONG - 1) \div BITS_PER_LONG
<1>4. m \in Int /\ b \in Nat /\ m <= b
  <2>1. k \in 1..Len(T)
    BY DEF BasicInv, TestOK
  <2>. QED  BY <1>2, <2>1 DEF MaskAt, TestOK, StepOK
<1>5. s.want = "ok" => m = b /\ b > 0 /\ b >= max_node
  BY <1>2 DEF MaskAt
<1>6. m <= w * BITS_PER_LONG
  BY ONLY <1>2, <1>3, <1>4, Widths
<1>7. q \in Int /\ q <= w /\ (s.want = "ok" => q = w)
  <2>1. CASE b = 0
    <3>1. w = 1 /\ m + BITS_PER_LONG - 1 <= BITS_PER_LONG - 1 /\ m + BITS_PER_LONG - 1 \in Int /\ BITS_PER_LONG - 1 \in Int
      BY ONLY <2>1, <1>2, <1>4, Widths DEF Words
    <3>2. (BITS_PER_LONG - 1) \div BITS_PER_LONG = 0
      BY ONLY Widths
    <3>. QED  BY ONLY <3>1, <3>2, <2>1, <1>5, MoreWords
  <2>2. CASE b > 0
    <3>1. w = (b + BITS_PER_LONG - 1) \div BITS_PER_LONG
      BY ONLY <2>2, <1>2, <1>4, WordsLaw
    <3>2. m + BITS_PER_LONG - 1 <= b + BITS_PER_LONG - 1 /\ m + BITS_PER_LONG - 1 \in Int /\ b + BITS_PER_LONG - 1 \in Int
      BY ONLY <1>4, Widths
    <3>. QED  BY ONLY <3>1, <3>2, <1>5, MoreWords
  <2>. QED  BY ONLY <2>1, <2>2, <1>4
<1>. DEFINE v == IF f = "oneword" THEN 1 ELSE q
<1>8. Written(s, f) = 0..(v * BITS_PER_LONG - 1)
  BY DEF Written
<1>. HIDE DEF q, w, m, b
<1>9. v \in Int /\ v <= w /\ (s.want = "ok" => v >= 1) /\ (s.want = "ok" /\ f # "oneword" => v = w)
  BY ONLY <1>3, <1>7 DEF w
<1>. HIDE DEF v
<1>10. v * BITS_PER_LONG <= w * BITS_PER_LONG /\ v * BITS_PER_LONG \in Int /\ w * BITS_PER_LONG \in Int
  BY ONLY <1>3, <1>9, Widths DEF w
<1>11. Written(s, f) \subseteq 0..(w * BITS_PER_LONG - 1)
  BY ONLY <1>8, <1>10
<1>12. s.want = "ok" => 0..(BITS_PER_LONG - 1) \subseteq Written(s, f)
  <2>1. s.want = "ok" => BITS_PER_LONG <= v * BITS_PER_LONG
    BY ONLY <1>9, Widths
  <2>. QED  BY ONLY <1>8, <1>10, <2>1, Widths
<1>13. s.want = "ok" /\ f # "oneword" => Written(s, f) = 0..(w * BITS_PER_LONG - 1)
  BY ONLY <1>8, <1>9
<1>14. s.want = "ok" => Nodes \subseteq 0..(w * BITS_PER_LONG - 1)
  <2>1. max_node \in Nat
    BY NodeCount DEF BasicInv
  <2>2. s.want = "ok" => max_node <= w * BITS_PER_LONG
    BY ONLY <1>2, <1>4, <1>5, <1>10, <2>1 DEF b, w
  <2>3. 1 <= w * BITS_PER_LONG
    BY ONLY <1>3, <1>10, Widths DEF w
  <2>. QED  BY ONLY <2>1, <2>2, <2>3, <1>10 DEF Nodes
<1>. QED  BY ONLY <1>6, <1>11, <1>12, <1>13, <1>14 DEF w, m

\* The steps of get_mempolicy 018
LEMMA Text018 ==
  ASSUME BasicInv, test = "get018"
  PROVE  /\ Len(T) = 26
         /\ T[1].op = "need" /\ T[2].op = "alloc" /\ T[3].op = "set" /\ T[4].op = "get"
         /\ T[5].op = "mode" /\ T[6].op = "word0" /\ T[7].op = "get" /\ T[8].op = "old"
         /\ T[9].op = "reserve" /\ T[10].op = "large" /\ T[11].op = "next" /\ T[12].op = "get"
         /\ T[13].op = "other" /\ T[14].op = "release" /\ T[15].op = "reserve" /\ T[16].op = "large"
         /\ T[17].op = "next" /\ T[18].op = "get" /\ T[19].op = "other" /\ T[20].op = "release"
         /\ T[21].op = "reserve" /\ T[22].op = "large" /\ T[23].op = "next" /\ T[24].op = "get"
         /\ T[25].op = "other" /\ T[26].op = "release"
         /\ T[3].mode = {"INTERLEAVE"} /\ T[3].mask = {0, 1} /\ T[3].maxnode = BITS_PER_LONG /\ T[3].want = "ok"
         /\ T[4].flags = {} /\ T[4].want = "ok" /\ T[4].nm /\ T[4].at = NOADDR /\ T[6].bits = {0, 1}
         /\ T[7].flags = {"NODE"} /\ T[7].want = "ok" /\ ~T[7].nm
         /\ T[12].flags = {"NODE"} /\ T[12].want = "ok" /\ ~T[12].nm
         /\ T[18].flags = {"NODE"} /\ T[18].want = "ok" /\ ~T[18].nm
         /\ T[24].flags = {"NODE"} /\ T[24].want = "ok" /\ ~T[24].nm
<1>1. T = Get018(max_node)
  BY DEF BasicInv, Suite
<1>2. Len(T) = 26
  BY <1>1 DEF Get018, Need, Alloc, Set, Get, ModeIs, MaskIs, Mask, ShowsProc, Round
<1>3. T[1].op = "need" /\ T[2].op = "alloc" /\ T[3].op = "set" /\ T[4].op = "get"
  BY ONLY <1>1 DEF Get018, Need, Alloc, Set, Get, ModeIs, MaskIs, Mask, ShowsProc, Round
<1>4. T[5].op = "mode" /\ T[6].op = "word0" /\ T[7].op = "get" /\ T[8].op = "old"
  BY ONLY <1>1 DEF Get018, Need, Alloc, Set, Get, ModeIs, MaskIs, Mask, ShowsProc, Round
<1>5. T[9].op = "reserve" /\ T[10].op = "large" /\ T[11].op = "next" /\ T[12].op = "get"
  BY ONLY <1>1 DEF Get018, Need, Alloc, Set, Get, ModeIs, MaskIs, Mask, ShowsProc, Round
<1>6. T[13].op = "other" /\ T[14].op = "release" /\ T[15].op = "reserve" /\ T[16].op = "large"
  BY ONLY <1>1 DEF Get018, Need, Alloc, Set, Get, ModeIs, MaskIs, Mask, ShowsProc, Round
<1>7. T[17].op = "next" /\ T[18].op = "get" /\ T[19].op = "other" /\ T[20].op = "release"
  BY ONLY <1>1 DEF Get018, Need, Alloc, Set, Get, ModeIs, MaskIs, Mask, ShowsProc, Round
<1>8. T[21].op = "reserve" /\ T[22].op = "large" /\ T[23].op = "next" /\ T[24].op = "get"
  BY ONLY <1>1 DEF Get018, Need, Alloc, Set, Get, ModeIs, MaskIs, Mask, ShowsProc, Round
<1>9. T[25].op = "other" /\ T[26].op = "release"
  BY ONLY <1>1 DEF Get018, Need, Alloc, Set, Get, ModeIs, MaskIs, Mask, ShowsProc, Round
<1>10. /\ T[3].mode = {"INTERLEAVE"} /\ T[3].mask = {0, 1} /\ T[3].maxnode = BITS_PER_LONG /\ T[3].want = "ok"
       /\ T[4].flags = {} /\ T[4].want = "ok" /\ T[4].nm /\ T[4].at = NOADDR /\ T[6].bits = {0, 1}
  BY ONLY <1>1 DEF Get018, Need, Alloc, Set, Get, ModeIs, MaskIs, Mask, ShowsProc, Round
<1>11. T[7].flags = {"NODE"} /\ T[7].want = "ok" /\ ~T[7].nm
  BY ONLY <1>1 DEF Get018, Need, Alloc, Set, Get, ModeIs, MaskIs, Mask, ShowsProc, Round
<1>12. T[12].flags = {"NODE"} /\ T[12].want = "ok" /\ ~T[12].nm
  BY ONLY <1>1 DEF Get018, Need, Alloc, Set, Get, ModeIs, MaskIs, Mask, ShowsProc, Round
<1>13. T[18].flags = {"NODE"} /\ T[18].want = "ok" /\ ~T[18].nm
  BY ONLY <1>1 DEF Get018, Need, Alloc, Set, Get, ModeIs, MaskIs, Mask, ShowsProc, Round
<1>14. T[24].flags = {"NODE"} /\ T[24].want = "ok" /\ ~T[24].nm
  BY ONLY <1>1 DEF Get018, Need, Alloc, Set, Get, ModeIs, MaskIs, Mask, ShowsProc, Round
<1>. QED  BY ONLY <1>2, <1>3, <1>4, <1>5, <1>6, <1>7, <1>8, <1>9, <1>10, <1>11, <1>12, <1>13, <1>14

\* The masks keep the words they were given, and node_mask its bits within them.
LEMMA MaskStep ==
  ASSUME IInv, TestOK, Next, pc = "run" PROVE MaskInv'
<1>. USE DEF IInv
<1>1. UNCHANGED chosen /\ Moves /\ Now = i /\ end = "none" /\ i \in 1..Len(T) /\ Len(T) \in Nat
  BY RunLaw DEF BasicInv, TestOK
<1>2. /\ T' = T /\ test' = test /\ fault' = fault /\ Nodes' = Nodes /\ Cardinality(Nodes)' = Cardinality(Nodes)
  BY <1>1, SameText
<1>3. max_node \in Nat
  BY NodeCount DEF BasicInv
<1>4. Cardinality(Nodes) \in Nat \ {0} /\ Nodes = 0..(Cardinality(Nodes) - 1)
  BY <1>3, NodesLaw
<1>. DEFINE Good(w) == DOMAIN w = {"node_mask", "arg_mask"} /\ w.node_mask \in Nat /\ w.arg_mask \in Nat \ {0}
            Given(w, n) == \A a \in 1..(n - 1) : T[a].op = "alloc" => w[T[a].name] = Words(T[a].bits)
            Inside(m, w) == m \subseteq 0..(w.node_mask * BITS_PER_LONG - 1)
<1>5. Good(words) /\ Given(words, i) /\ Inside(node_mask, words) /\ nxt \in Nodes /\ node \in -1..Cardinality(Nodes)
  BY <1>1 DEF MaskInv
<1>6. ASSUME Good(words'), Given(words', Now'), Inside(node_mask', words'), nxt' \in Nodes, node' \in -1..Cardinality(Nodes)
      PROVE  MaskInv'
  BY <1>2, <1>6 DEF MaskInv
<1>7. CASE create_node_mask
  <2>1. S.op = "alloc" /\ S.name \in {"node_mask", "arg_mask"} /\ S.bits \in Nat
    BY <1>1, <1>7 DEF create_node_mask, At, TestOK, StepOK, S
  <2>2. nxt' = nxt /\ node' = node
    BY <1>7 DEF create_node_mask, kernel
  <2>3. CASE words' = words /\ node_mask' = node_mask /\ end' = "ng"
    BY ONLY <1>1, <1>5, <1>6, <2>2, <2>3 DEF Moves
  <2>4. CASE ~(words' = words /\ node_mask' = node_mask /\ end' = "ng")
    <3>1. /\ words' = [words EXCEPT ![S.name] = Words(S.bits)]
          /\ node_mask' = IF S.name = "node_mask" THEN {} ELSE node_mask
      BY <1>7, <2>4 DEF create_node_mask, Assert
    <3>2. Words(S.bits) \in Nat \ {0}
      BY <2>1, WordsLaw
    <3>3. Good(words')
      BY ONLY <1>5, <2>1, <3>1, <3>2
    <3>4. Inside(node_mask', words')
      BY ONLY <1>5, <2>1, <3>1
    <3>5. Given(words', i + 1)
      <4>. SUFFICES ASSUME NEW a \in 1..i, T[a].op = "alloc" PROVE words'[T[a].name] = Words(T[a].bits)
        BY <1>1
      <4>1. T[a].name \in {"node_mask", "arg_mask"}
        BY <1>1 DEF TestOK, StepOK
      <4>2. a # i => T[a].name # S.name
        BY <1>1, <2>1 DEF TestOK, MasksOK, S
      <4>3. a # i => words[T[a].name] = Words(T[a].bits)
        BY <1>1, <1>5
      <4>. QED  BY ONLY <1>5, <2>1, <3>1, <4>1, <4>2, <4>3 DEF S
    <3>6. Given(words', Now')
      BY ONLY <1>1, <3>5 DEF Moves
    <3>. QED  BY ONLY <1>5, <1>6, <2>2, <3>3, <3>4, <3>6
  <2>. QED  BY <2>3, <2>4
<1>8. ASSUME ~create_node_mask PROVE words' = words /\ Given(words, Now')
  <2>1. words' = words
    BY <1>8 DEF Next, CheckMaxNode, MmapBuf, MunmapBuf, PresetMask, TouchBuf, CallMbind, CallSet,
         CallGet, CheckAnswer, KeepOld, Reserve, MmapLarge, TouchLarge, Release, Teardown, Over, locals, vars
  <2>2. S.op # "alloc"
    BY <1>8 DEF Next, CheckMaxNode, MmapBuf, MunmapBuf, PresetMask, TouchBuf, CallMbind, CallSet,
         CallGet, CheckAnswer, KeepOld, Reserve, MmapLarge, TouchLarge, Release, Teardown, Over, At
  <2>3. ASSUME NEW a \in 1..i, T[a].op = "alloc" PROVE words[T[a].name] = Words(T[a].bits)
    <3>1. a \in 1..(i - 1)
      BY <1>1, <2>2, <2>3 DEF S
    <3>. QED  BY ONLY <1>5, <2>3, <3>1
  <2>4. CASE Now' = i
    BY ONLY <1>5, <2>1, <2>4
  <2>5. CASE Now' = i + 1
    <3>1. 1..(Now' - 1) = 1..i
      BY <1>1, <2>5
    <3>. QED  BY ONLY <2>1, <2>3, <3>1
  <2>. QED  BY ONLY <1>1, <2>4, <2>5 DEF Moves
<1>9. CASE PresetMask
  <2>1. node_mask' = {b \in node_mask : b >= BITS_PER_LONG} \union S.bits /\ nxt' = nxt /\ node' = node /\ ~create_node_mask /\ S.op = "preset"
    BY <1>9 DEF PresetMask, kernel, create_node_mask, At
  <2>2. S.bits \subseteq {0}
    BY <1>1, <2>1 DEF TestOK, StepOK, S
  <2>3. BITS_PER_LONG <= words.node_mask * BITS_PER_LONG /\ words.node_mask * BITS_PER_LONG \in Nat
    <3>1. Suitable
      BY <2>1, NeedsMet
    <3>2. UsesMask(T[i]) /\ i \in 1..i
      BY <1>1, <2>1 DEF UsesMask, S
    <3>. QED  BY <3>1, <3>2, MaskThere, Widths
  <2>4. 0 \in 0..(words.node_mask * BITS_PER_LONG - 1)
    BY ONLY <2>3, Widths
  <2>5. Inside(node_mask', words)
    BY ONLY <1>5, <2>1, <2>2, <2>4
  <2>. QED  BY ONLY <1>5, <1>6, <1>8, <2>1, <2>5
<1>10. CASE CallGet
  <2>1. S.op = "get" /\ nxt' = nxt /\ ~create_node_mask
    BY <1>10 DEF CallGet, kernel, create_node_mask, At
  <2>2. \/ node_mask' = node_mask
        \/ /\ S.nm
           /\ \E m : node_mask' = (node_mask \ Written(S, fault)) \union (m \intersect Written(S, fault))
    BY <1>10 DEF CallGet
  <2>3. Inside(node_mask', words)
    <3>1. Suitable
      BY <2>1, NeedsMet
    <3>2. S = T[i] /\ i \in 1..i
      BY <1>1 DEF S
    <3>3. S.nm => Written(S, fault) \subseteq 0..(words.node_mask * BITS_PER_LONG - 1)
      BY <2>1, <3>1, <3>2, WrittenLaw
    <3>. QED  BY ONLY <1>5, <2>2, <3>3
  <2>4. node' \in {-1, nxt, Cardinality(Nodes)} \union Nodes
    BY <1>10 DEF CallGet
  <2>5. node' \in -1..Cardinality(Nodes)
    BY ONLY <1>4, <1>5, <2>4
  <2>. QED  BY ONLY <1>5, <1>6, <1>8, <2>1, <2>3, <2>5
<1>11. CASE TouchLarge
  <2>1. node_mask' = node_mask /\ node' = node /\ ~create_node_mask /\ S.op = "next"
    BY <1>11 DEF TouchLarge, locals, create_node_mask, At
  <2>. DEFINE later == {b \in kern.proc.mask : b > nxt}
  <2>2. nxt' = nxt \/ nxt' = Min(IF later = {} THEN kern.proc.mask ELSE later)
    BY <1>11 DEF TouchLarge
  <2>3. kern.proc.mask = {0, 1}
    <3>1. test = "get018"
      BY <1>1, <2>1 DEF TestOK, ScopeOK, S, LoopOps
    <3>2. i > 6
      <4>1. T = Get018(max_node)
        BY <3>1 DEF BasicInv, Suite
      <4>2. T[1].op = "need" /\ T[2].op = "alloc" /\ T[3].op = "set" /\ T[4].op = "get" /\ T[5].op = "mode" /\ T[6].op = "word0"
        BY <4>1 DEF Get018, Need, Mask, Alloc, Set, ShowsProc, Get, ModeIs, MaskIs, Round
      <4>. QED  BY ONLY <1>1, <2>1, <4>2 DEF S
    <3>3. ShiftsFit
      <4>1. T[26].op = "release" /\ Len(T) = 26
        BY <3>1, Text018
      <4>2. ~Uses("full")
        BY <4>1 DEF Uses, TestOK, OrderOK
      <4>. QED  BY <4>2 DEF ShiftsFit
    <3>. QED  BY <1>1, <3>1, <3>2, <3>3 DEF SureInv, LoopInv
  <2>4. nxt' \in Nodes
    <3>1. later \subseteq {0, 1} /\ (IF later = {} THEN kern.proc.mask ELSE later) \in {{0}, {1}, {0, 1}}
      BY <2>3
    <3>2. kern.proc.mask \subseteq Nodes
      BY DEF KernelInv, Policies
    <3>. QED  BY ONLY <1>5, <2>2, <2>3, <3>1, <3>2, MinLaw
  <2>. QED  BY ONLY <1>5, <1>6, <1>8, <2>1, <2>4
<1>12. CASE \/ CheckMaxNode \/ MmapBuf \/ MunmapBuf \/ TouchBuf \/ CallMbind \/ CallSet \/ CheckAnswer
            \/ KeepOld \/ Reserve \/ MmapLarge \/ Release
  <2>1. node_mask' = node_mask /\ nxt' = nxt /\ node' = node
    BY <1>12 DEF CheckMaxNode, MmapBuf, MunmapBuf, TouchBuf, CallMbind, CallSet, CheckAnswer, KeepOld, Reserve,
                 MmapLarge, Release, kernel, locals
  <2>2. ~create_node_mask
    BY <1>12 DEF CheckMaxNode, MmapBuf, MunmapBuf, TouchBuf, CallMbind, CallSet, CheckAnswer, KeepOld, Reserve,
                 MmapLarge, Release, create_node_mask, At
  <2>. QED  BY ONLY <1>5, <1>6, <1>8, <2>1, <2>2
<1>. QED  BY <1>7, <1>9, <1>10, <1>11, <1>12 DEF Next, Teardown, Over

-----------------------------------------------------------------------------
(* What is mapped and what is held *)

\* A test but 018 has its masks and its buf only, and knows whether it has buf.
LEMMA HeldStep ==
  ASSUME IInv, TestOK, Next, pc = "run" PROVE HeldInv'
<1>. USE DEF IInv
<1>1. UNCHANGED chosen /\ Moves /\ Now = i /\ end = "none" /\ i \in 1..Len(T) /\ Len(T) \in Nat
  BY RunLaw DEF BasicInv, TestOK
<1>2. T' = T /\ test' = test /\ fault' = fault
  BY <1>1, SameText
<1>3. HeldInv /\ (Now' = i \/ Now' = i + 1) /\ pc' # "over"
  BY <1>1 DEF Moves
<1>. DEFINE Masks == {"node_mask", "arg_mask"}
            All == Masks \union {"buf", "head", "tail"}
            Early(n) == fault = "none" /\ test # "get018" /\ n <= Len(T) /\ (n = 1 => T[1].op # "map")
            Own(h, b) == h \subseteq Masks \union {"buf"} /\ ("buf" \in h => b = "mapped")
<1>4. /\ buf \in {"stack", "mapped", "failed"} /\ reserve \in {"mapped", "failed"}
      /\ Early(i) => buf # "failed"
      /\ i = 1 => held = {}
      /\ held \subseteq All /\ (test # "get018" => Own(held, buf))
  BY <1>1, <1>3 DEF HeldInv
<1>5. ASSUME buf' \in {"stack", "mapped", "failed"}, reserve' \in {"mapped", "failed"},
             Early(Now') => buf' # "failed",
             Now' = 1 => held' = {},
             held' \subseteq All, test # "get018" => Own(held', buf'),
             test = "get018" /\ end' = "ok" => held' \subseteq Masks
      PROVE  HeldInv'
  BY <1>2, <1>3, <1>5 DEF HeldInv
<1>6. S.op = "map" => i = 1
  BY <1>1 DEF TestOK, OrderOK, S
<1>7. test = "get018" /\ end' = "ok" => S.op = "release"
  <2>1. test = "get018" /\ end' = "ok" => i = 26
    <3>1. end' = "ok" => i = Len(T)
      BY <1>1, <1>2 DEF Moves, Now
    <3>. QED  BY <3>1, Text018
  <2>. QED  BY <2>1, Text018 DEF S
<1>8. S.op \in LoopOps => test = "get018"
  BY <1>1 DEF TestOK, ScopeOK, S
<1>9. Early(Now') /\ S.op # "map" => Early(i)
  <2>1. Early(Now') => i <= Len(T)
    BY <1>1
  <2>2. i = 1 /\ S.op # "map" => T[1].op # "map"
    BY DEF S
  <2>. QED  BY ONLY <2>1, <2>2
<1>10. CASE create_node_mask
  <2>1. buf' = buf /\ reserve' = reserve /\ (held' = held \/ (held' = held \union {S.name} /\ end' # "ng")) /\ S.op = "alloc"
    BY <1>1, <1>10 DEF create_node_mask, At, Assert
  <2>2. S.name \in Masks
    BY <1>1, <2>1 DEF S, TestOK, StepOK
  <2>3. Now' = 1 => i = 1 /\ end' = "ng"
    BY <1>1 DEF Moves
  <2>4. held' \subseteq All /\ (test # "get018" => Own(held', buf'))
    BY ONLY <1>4, <2>1, <2>2
  <2>5. Now' = 1 => held' = {}
    BY ONLY <1>4, <2>1, <2>3
  <2>6. Early(Now') => buf' # "failed"
    BY ONLY <1>4, <1>9, <2>1
  <2>. QED  BY ONLY <1>4, <1>5, <1>7, <2>1, <2>4, <2>5, <2>6
<1>11. CASE MmapBuf
  <2>1. /\ S.op = "map" /\ reserve' = reserve /\ end' # "ng"
        /\ \/ fault = "mmap" /\ buf' = "failed" /\ held' = held
           \/ buf' = "mapped" /\ held' = held \union {"buf"}
    BY <1>1, <1>11 DEF MmapBuf, At, Assert
  <2>2. i = 1 /\ Now' # 1
    BY <1>1, <1>6, <2>1 DEF Moves
  <2>. QED  BY ONLY <1>4, <1>5, <1>7, <2>1, <2>2
<1>12. CASE MunmapBuf
  <2>1. S.op = "unmap" /\ reserve' = reserve /\ end' # "ng" /\ buf' = "failed" /\ held' = held \ {"buf"}
    BY <1>1, <1>12 DEF MunmapBuf, At, Assert
  <2>2. i = Len(T) /\ Now' = i + 1
    BY <1>1, <2>1 DEF TestOK, OrderOK, S, Moves
  <2>3. ~(Now' <= Len(T)) /\ Now' # 1
    BY <1>1, <2>2
  <2>. QED  BY ONLY <1>4, <1>5, <1>7, <2>1, <2>3
<1>13. CASE Reserve \/ MmapLarge
  <2>1. /\ S.op \in {"reserve", "large"}
        /\ reserve' \in {"mapped", reserve} /\ buf' \in {"mapped", buf}
        /\ held' \in {held, held \union {"head", "buf", "tail"}}
    BY <1>13 DEF Reserve, MmapLarge, At
  <2>2. test = "get018" /\ Now' # 1
    <3>1. test = "get018"
      BY <1>8, <2>1 DEF LoopOps
    <3>2. i # 1
      BY <2>1, <3>1, Text018 DEF S
    <3>. QED  BY <1>1, <1>3, <3>1, <3>2
  <2>. QED  BY ONLY <1>4, <1>5, <1>7, <2>1, <2>2
<1>14. CASE Release
  <2>1. S.op = "release" /\ reserve' = "failed" /\ buf' = "failed" /\ held' = held \ {"head", "buf", "tail"}
    BY <1>14 DEF Release, At
  <2>2. test = "get018" /\ Now' # 1
    <3>1. test = "get018"
      BY <1>8, <2>1 DEF LoopOps
    <3>2. i # 1
      BY <2>1, <3>1, Text018 DEF S
    <3>. QED  BY <1>1, <1>3, <3>1, <3>2
  <2>. QED  BY ONLY <1>4, <1>5, <2>1, <2>2
<1>15. CASE \/ CheckMaxNode \/ PresetMask \/ TouchBuf \/ CallMbind \/ CallSet \/ CallGet \/ CheckAnswer \/ KeepOld \/ TouchLarge
  <2>1. buf' = buf /\ reserve' = reserve /\ held' = held /\ S.op # "map" /\ S.op # "release"
    BY <1>15 DEF CheckMaxNode, PresetMask, TouchBuf, CallMbind, CallSet, CallGet, CheckAnswer, KeepOld, TouchLarge, At, locals
  <2>2. Now' = 1 => i = 1
    BY <1>1, <1>3
  <2>. QED  BY ONLY <1>4, <1>5, <1>7, <1>9, <2>1, <2>2
<1>. QED  BY <1>10, <1>11, <1>12, <1>13, <1>14, <1>15 DEF Next, Teardown, Over

\* TEARDOWN_FUNC() leaves nothing, but for 018 stopped in its loop.
LEMMA TeardownHeld ==
  ASSUME IInv, TestOK, Teardown PROVE HeldInv'
<1>1. /\ test' = test /\ end' = end /\ T' = T /\ fault' = fault /\ Now' = Now /\ buf' = buf /\ reserve' = reserve
      /\ pc = "teardown" /\ pc' = "over"
      /\ held' = held \ ({"node_mask", "arg_mask"} \union (IF buf = "mapped" THEN {"buf"} ELSE {})
                         \union (IF reserve = "mapped" /\ buf = "mapped" THEN {"head"} ELSE {}))
  BY DEF Teardown, chosen, locals, Now
<1>2. HeldInv /\ end \in {"ok", "ng"}
  BY <1>1 DEF IInv, BasicInv
<1>3. Released'
  <2>1. CASE test # "get018"
    <3>1. held \subseteq {"node_mask", "arg_mask", "buf"} /\ ("buf" \in held => buf = "mapped")
      BY <1>1, <1>2, <2>1 DEF HeldInv
    <3>2. held' = {}
      BY ONLY <1>1, <3>1
    <3>. QED  BY <3>2 DEF Released
  <2>2. CASE test = "get018" /\ end = "ok"
    <3>1. held \subseteq {"node_mask", "arg_mask"}
      BY <1>2, <2>2 DEF HeldInv
    <3>2. held' = {}
      BY ONLY <1>1, <3>1
    <3>. QED  BY <3>2 DEF Released
  <2>3. CASE test = "get018" /\ end = "ng"
    BY <1>1, <2>3 DEF Released
  <2>. QED  BY <1>2, <2>1, <2>2, <2>3
<1>4. held' \subseteq held
  BY <1>1
<1>. QED  BY ONLY <1>1, <1>2, <1>3, <1>4 DEF HeldInv

-----------------------------------------------------------------------------
(* The policies a good kernel would hold *)

\* A test goes on only where its assertion holds.
LEMMA WentOn ==
  ASSUME Next, pc = "run", end = "none", end' # "ng"
  PROVE  /\ S.op = "mbind" => AsWanted(MbindError(S, fault))
         /\ S.op = "set" => AsWanted(PolicyError(S, fault))
         /\ S.op = "get" => AsWanted(GetError(kern, S, fault))
         /\ S.op \in Checks => Holds
<1>1. S.op = "mbind" => AsWanted(MbindError(S, fault))
  BY ActionOf DEF CallMbind, Assert
<1>2. S.op = "set" => AsWanted(PolicyError(S, fault))
  BY ActionOf DEF CallSet, Assert
<1>3. S.op = "get" => AsWanted(GetError(kern, S, fault))
  BY ActionOf DEF CallGet, Assert
<1>4. S.op \in Checks => Holds
  BY ActionOf DEF CheckAnswer, Assert
<1>. QED  BY <1>1, <1>2, <1>3, <1>4

\* A buf that is not mapped takes no policy.
LEMMA NoBuf == ASSUME NEW s, NEW f, buf = "failed" PROVE MbindError(s, f) # "0"
  BY DEF MbindError

\* The calls of mbind 027
LEMMA Text027 ==
  ASSUME BasicInv, test = "mbind027"
  PROVE  /\ Len(T) = 7 /\ \A k \in 1..7 : T[k].op \in Setters => k \in {4, 6}
         /\ T[4].op = "mbind" /\ T[4].want = "ok"
         /\ T[6].op = "mbind" /\ T[6].want = "notEIO" /\ T[6].mode = {"BIND"} /\ T[6].mask = {0}
         /\ T[6].maxnode = BITS_PER_LONG /\ T[6].flags = {"STRICT"} /\ T[6].len = 1
<1>1. T = Mbind027(max_node)
  BY DEF BasicInv, Suite
<1>2. Len(T) = 7
  BY ONLY <1>1 DEF Mbind027, MapBuf, Need, Mask, Alloc, Mbind, Touch, UnmapBuf
<1>3. T[1].op = "map" /\ T[2].op = "need" /\ T[3].op = "alloc" /\ T[4].op = "mbind" /\ T[5].op = "touch" /\ T[7].op = "unmap"
  BY ONLY <1>1 DEF Mbind027, MapBuf, Need, Mask, Alloc, Mbind, Touch, UnmapBuf
<1>4. T[4].want = "ok"
  BY ONLY <1>1 DEF Mbind027, MapBuf, Need, Mask, Alloc, Mbind, Touch, UnmapBuf
<1>5. /\ T[6].op = "mbind" /\ T[6].want = "notEIO" /\ T[6].mode = {"BIND"} /\ T[6].mask = {0}
      /\ T[6].maxnode = BITS_PER_LONG /\ T[6].flags = {"STRICT"} /\ T[6].len = 1
  BY ONLY <1>1 DEF Mbind027, MapBuf, Need, Mask, Alloc, Mbind, Touch, UnmapBuf
<1>6. ASSUME NEW k \in 1..7, T[k].op \in Setters PROVE k \in {4, 6}
  BY ONLY <1>3, <1>6, k \in 1..7 DEF Setters
<1>. QED  BY ONLY <1>2, <1>3, <1>4, <1>5, <1>6

\* A call that must fail leaves the good kernel alone; the strict call of mbind 027 does when
\* the test goes on behind it, as that takes a buf that is not mapped.
LEMMA FailsWell ==
  ASSUME IInv, ShiftsFit, TestOK, Next, pc = "run", end' # "ng", S.op \in Setters, S.want # "ok"
  PROVE  /\ S.op = "mbind" => MbindError(S, "none") # "0"
         /\ S.op = "set" => PolicyError(S, "none") # "0"
<1>1. Now = i /\ end = "none" /\ i \in 1..Len(T) /\ Len(T) \in Nat
  BY RunLaw DEF IInv, BasicInv, TestOK
<1>2. Suitable
  BY NeedsMet DEF IInv, Setters
<1>3. S.want \in Wants
  BY <1>1 DEF S, TestOK, StepOK
<1>4. CallOK(i)
  BY <1>1, <1>2 DEF TestOK
<1>5. CASE S.op = "set"
  BY <1>3, <1>4, <1>5 DEF CallOK, Promised, S, Wants
<1>6. CASE S.op = "mbind" /\ test # "mbind027"
  BY <1>3, <1>4, <1>6 DEF CallOK, Promised, S, Wants
<1>7. CASE S.op = "mbind" /\ test = "mbind027"
  <2>1. S.want = "notEIO" /\ S.mode = {"BIND"} /\ S.mask = {0} /\ S.maxnode = BITS_PER_LONG /\ S.flags = {"STRICT"} /\ S.len = 1 /\ i = 6
    <3>1. i = 6
      <4>1. i \in {4, 6} /\ (i = 4 => S.want = "ok")
        BY <1>1, <1>7, Text027 DEF IInv, S
      <4>. QED  BY <4>1
    <3>. QED  BY <1>7, <3>1, Text027 DEF IInv, S
  <2>2. fault # "refuse"
    <3>1. T[4].op \in Setters /\ T[4].want = "ok" /\ 4 \in 1..(Now - 1)
      BY <1>1, <1>7, <2>1, Text027 DEF IInv, Setters
    <3>. QED  BY <1>1, <3>1 DEF IInv, SureInv, SeenInv
  <2>3. max_node \in Nat
    BY NodeCount DEF IInv, BasicInv
  <2>4. Effective(S, fault) # {}
    <3>1. 0 \in Nodes /\ {0} # NULL /\ 0 \in 0..(BITS_PER_LONG - 2)
      BY <2>3, NodesLaw, Widths DEF NULL
    <3>. QED  BY ONLY <2>1, <3>1 DEF Effective
  <2>5. ~BadPolicy(S, fault)
    BY ONLY <2>1, <2>4, Widths DEF BadPolicy
  <2>6. PolicyError(S, fault) = "0"
    BY <2>2, <2>5 DEF PolicyError
  <2>7. MbindError(S, fault) \notin {"0", "EIO"}
    BY <1>1, <1>7, <2>1, WentOn DEF AsWanted
  <2>8. buf = "failed"
    BY <2>1, <2>6, <2>7 DEF MbindError
  <2>. QED  BY <1>7, <2>8, NoBuf
<1>. QED  BY <1>5, <1>6, <1>7 DEF Setters

\* A call that must succeed gives the good kernel its policy, for the pages it covers.
LEMMA GivesPolicy ==
  ASSUME IInv, ShiftsFit, TestOK, Next, pc = "run", end' # "ng", NEW p \in Slots
  PROVE  Slot(due', p) = IF Covers(S, p) THEN Policy(S) ELSE Slot(due, p)
<1>1. Now = i /\ end = "none" /\ i \in 1..Len(T) /\ Len(T) \in Nat
  BY RunLaw DEF IInv, BasicInv, TestOK
<1>2. due \in Kernels
  BY DEF IInv, KernelInv, Kernels
<1>3. CASE S.op \notin Setters
  BY <1>3, ActionOf DEF Covers
<1>4. ASSUME NEW was PROVE Stored(S, was, "none") = Policy(S)
  BY DEF Stored, Policy
<1>5. CASE S.op \in Setters /\ S.want # "ok"
  <2>1. due' = due
    BY <1>5, FailsWell, ActionOf DEF CallMbind, CallSet, Setters
  <2>. QED  BY <1>5, <2>1 DEF Covers
<1>6. CASE S.op \in Setters /\ S.want = "ok"
  <2>1. Suitable
    BY <1>6, NeedsMet DEF IInv, Setters
  <2>2. CallOK(i) /\ StepOK(S)
    BY <1>1, <2>1 DEF TestOK, S
  <2>3. CASE S.op = "mbind"
    <3>1. MbindError(S, fault) = "0"
      BY <1>1, <1>6, <2>3, WentOn DEF AsWanted
    <3>2. MbindError(S, "none") = "0"
      BY <1>6, <2>2, <2>3, <3>1, NoBuf DEF CallOK, S
    <3>3. due' = Bound(due, S, "none")
      BY <2>3, <3>2, ActionOf DEF CallMbind
    <3>4. S.at \in Page /\ S.len \in Int /\ PolicyStep(S)
      BY <2>2, <2>3 DEF StepOK, Setters
    <3>5. Span(S, "none") = S.at..(S.at + S.len - 1)
      BY DEF Span
    <3>6. Covers(S, p) <=> p \in S.at..(S.at + S.len - 1)
      BY <1>6, <2>3 DEF Covers
    <3>7. CASE p = PROC
      <4>1. ~Covers(S, p)
        BY <3>4, <3>6, <3>7 DEF PROC, Page
      <4>2. due'.proc = due.proc
        BY <1>2, <3>3, <3>4, BoundLaw
      <4>. QED  BY <3>7, <4>1, <4>2 DEF Slot
    <3>8. CASE p # PROC
      <4>1. p \in Page
        BY <3>8 DEF Slots
      <4>2. due'.pol[p] = IF p \in Span(S, "none") THEN Stored(S, due.pol[p], "none") ELSE due.pol[p]
        BY <1>2, <3>3, <3>4, <4>1, BoundLaw
      <4>. QED  BY <1>4, <3>5, <3>6, <3>8, <4>2 DEF Slot
    <3>. QED  BY <3>7, <3>8
  <2>4. CASE S.op = "set"
    <3>1. PolicyError(S, "none") = "0"
      BY <1>6, <2>2, <2>4 DEF CallOK, S
    <3>2. due' = [due EXCEPT !.proc = Stored(S, due.proc, "none")]
      BY <2>4, <3>1, ActionOf DEF CallSet
    <3>3. due'.pol = due.pol /\ due'.proc = Policy(S)
      BY <1>2, <1>4, <3>2 DEF Kernels
    <3>4. Covers(S, p) <=> p = PROC
      BY <1>6, <2>4 DEF Covers
    <3>. QED  BY <3>3, <3>4 DEF Slot
  <2>. QED  BY <1>6, <2>3, <2>4 DEF Setters
<1>. QED  BY <1>3, <1>5, <1>6

\* So it holds the policy of the last call so far.
LEMMA DueStep ==
  ASSUME IInv, ShiftsFit, TestOK, Next, pc = "run" PROVE DueInv'
<1>1. UNCHANGED chosen /\ Moves /\ Now = i /\ end = "none" /\ i \in 1..Len(T) /\ Len(T) \in Nat
  BY RunLaw DEF IInv, BasicInv, TestOK
<1>2. T' = T
  BY <1>1, SameText
<1>. SUFFICES ASSUME end' # "ng", NEW p \in Slots
              PROVE  /\ Untouched(Now', p) => Slot(due', p) = D
                     /\ \A j \in 1..(Now' - 1) : LastCover(Now', p, j) => Slot(due', p) = Policy(T[j])
  <2>1. \A j : Policy(T[j])' = Policy(T[j])
    BY <1>1, SameText DEF Policy, Effective
  <2>2. /\ \A k, q : Untouched(k, q)' <=> Untouched(k, q)
        /\ \A k, q, j : LastCover(k, q, j)' <=> LastCover(k, q, j)
    BY <1>1, SameText
  <2>. QED  BY <1>2, <2>1, <2>2 DEF DueInv, Untouched, LastCover, Slot
<1>3. Now' = i + 1
  BY <1>1 DEF Moves
<1>4. Slot(due', p) = IF Covers(T[i], p) THEN Policy(T[i]) ELSE Slot(due, p)
  BY GivesPolicy DEF S
<1>5. /\ Untouched(i, p) => Slot(due, p) = D
      /\ \A j \in 1..(i - 1) : LastCover(i, p, j) => Slot(due, p) = Policy(T[j])
  BY <1>1 DEF IInv, SureInv, DueInv
<1>6. Untouched(i + 1, p) => Untouched(i, p) /\ ~Covers(T[i], p)
  BY ONLY <1>1 DEF Untouched
<1>7. ASSUME NEW j \in 1..i, LastCover(i + 1, p, j)
      PROVE  \/ j = i /\ Covers(T[i], p)
             \/ j \in 1..(i - 1) /\ ~Covers(T[i], p) /\ LastCover(i, p, j)
  <2>1. CASE j = i
    BY ONLY <1>7, <2>1 DEF LastCover
  <2>2. CASE j # i
    <3>1. j \in 1..(i - 1) /\ i \in (j + 1)..(i + 1 - 1) /\ \A l \in (j + 1)..(i - 1) : l \in (j + 1)..(i + 1 - 1)
      BY ONLY <1>1, <2>2, j \in 1..i
    <3>. QED  BY ONLY <1>7, <3>1 DEF LastCover
  <2>. QED  BY <2>1, <2>2
<1>8. 1..(Now' - 1) = 1..i
  BY <1>1, <1>3
<1>. QED  BY ONLY <1>3, <1>4, <1>5, <1>6, <1>7, <1>8

-----------------------------------------------------------------------------
(* What the last get_mempolicy() has left *)

\* It is what the kernel answered, also behind the check of the mode.
LEMMA ReadStep ==
  ASSUME IInv, TestOK, Next, pc = "run" PROVE ReadInv'
<1>1. UNCHANGED chosen /\ Moves /\ Now = i /\ end = "none" /\ i \in 1..Len(T) /\ Len(T) \in Nat
  BY RunLaw DEF IInv, BasicInv, TestOK
<1>2. T' = T /\ fault' = fault /\ Nodes' = Nodes
  BY <1>1, SameText
<1>. SUFFICES ASSUME end' # "ng" PROVE ReadInv'
  BY DEF ReadInv
<1>3. Now' = i + 1
  BY <1>1 DEF Moves
<1>4. CASE S.op = "get"
  <2>1. CallGet
    BY <1>4, ActionOf
  <2>2. kern' = kern /\ nxt' = nxt
    BY <2>1 DEF CallGet, kernel
  <2>. DEFINE ans == Answer(kern, S, fault)
  <2>3. ASSUME S.want = "ok"
        PROVE  /\ S.m /\ "NODE" \notin S.flags => mode' = IF fault = "nomode" THEN {} ELSE ans.mode
               /\ S.nm /\ fault # "nomask" => node_mask' \intersect Written(S, fault) = ans.mask \intersect Written(S, fault)
               /\ S.flags = {"NODE"} => node' = nxt
               /\ fault = "none" /\ S.flags = {"ADDR", "NODE"} => node' \in Nodes
    <3>1. GetError(kern, S, fault) = "0"
      BY <1>1, <1>4, <2>3, WentOn DEF AsWanted
    <3>2. S.m /\ "NODE" \notin S.flags => mode' = IF fault = "nomode" THEN {} ELSE ans.mode
      BY <2>1, <3>1 DEF CallGet
    <3>3. S.nm /\ fault # "nomask" => node_mask' = (node_mask \ Written(S, fault)) \union (ans.mask \intersect Written(S, fault))
      BY <2>1, <3>1 DEF CallGet
    <3>4. S.nm /\ fault # "nomask" => node_mask' \intersect Written(S, fault) = ans.mask \intersect Written(S, fault)
      BY ONLY <3>3
    <3>5. /\ S.flags = {"NODE"} => node' = nxt
          /\ fault = "none" /\ S.flags = {"ADDR", "NODE"} => node' \in Nodes
      BY <2>1, <3>1 DEF CallGet
    <3>. QED  BY <3>2, <3>4, <3>5
  <2>4. PICK k : k = i
    OBVIOUS
  <2>5. Answer(kern, T[k], fault)' = Answer(kern, T[k], fault)
    BY <1>2, <2>2 DEF Answer
  <2>6. Got(T[k])'
    BY <1>2, <2>2, <2>3, <2>4, <2>5 DEF Got, Written, S
  <2>7. T[k].op # "mode" /\ Now' - 1 = k
    BY <1>1, <1>3, <1>4, <2>4 DEF S
  <2>. QED  BY ONLY <1>2, <2>6, <2>7 DEF ReadInv
<1>5. CASE S.op # "get"
  <2>1. PICK k : k = i
    OBVIOUS
  <2>2. T[k].op # "get" /\ Now' - 1 = k /\ Now' - 2 = k - 1 /\ (Now' > 2 => k > 1)
    BY <1>1, <1>3, <1>5, <2>1 DEF S
  <2>3. ASSUME k > 1, T[k - 1].op = "get", T[k].op = "mode"
        PROVE  Got(T[k - 1])'
    <3>1. CheckAnswer
      BY <2>1, <2>3, ActionOf DEF S, Checks
    <3>2. kern' = kern /\ nxt' = nxt /\ mode' = mode /\ node_mask' = node_mask /\ node' = node
      BY <3>1 DEF CheckAnswer, kernel
    <3>3. Got(T[k - 1])
      BY <1>1, <2>1, <2>3 DEF IInv, ReadInv
    <3>4. Answer(kern, T[k - 1], fault)' = Answer(kern, T[k - 1], fault)
      BY <1>2, <3>2 DEF Answer
    <3>. QED  BY <1>2, <3>2, <3>3, <3>4 DEF Got, Written
  <2>. QED  BY ONLY <1>2, <2>2, <2>3 DEF ReadInv
<1>. QED  BY <1>4, <1>5

-----------------------------------------------------------------------------
(* Masks, word by word *)

\* Bit c of word w is bit w * BITS_PER_LONG + c of the mask.
LEMMA WordLaw ==
  ASSUME NEW m \in SUBSET Nat, NEW w \in Nat
  PROVE  /\ Word(m, w) \subseteq 0..(BITS_PER_LONG - 1)
         /\ \A c \in 0..(BITS_PER_LONG - 1) : c \in Word(m, w) <=> w * BITS_PER_LONG + c \in m
<1>. DEFINE o == w * BITS_PER_LONG
<1>1. o \in Nat
  BY Widths
<1>2. ASSUME NEW b \in Nat, b \div BITS_PER_LONG = w PROVE b - o \in 0..(BITS_PER_LONG - 1)
  <2>1. b = o + (b % BITS_PER_LONG) /\ b % BITS_PER_LONG \in 0..(BITS_PER_LONG - 1)
    BY <1>2, Division
  <2>. QED  BY ONLY <1>1, <2>1, b \in Nat, Widths
<1>3. ASSUME NEW c \in 0..(BITS_PER_LONG - 1) PROVE (o + c) \div BITS_PER_LONG = w /\ (o + c) - o = c /\ o + c \in Nat
  <2>1. o + c \in Nat /\ w * BITS_PER_LONG <= o + c /\ o + c < w * BITS_PER_LONG + BITS_PER_LONG
    BY <1>1, Widths
  <2>2. (o + c) \div BITS_PER_LONG = w
    BY <2>1, Quotient
  <2>. QED  BY <1>1, <2>1, <2>2, Widths
<1>4. Word(m, w) = {b - o : b \in {x \in m : x \div BITS_PER_LONG = w}}
  BY DEF Word
<1>. HIDE DEF o
<1>5. Word(m, w) \subseteq 0..(BITS_PER_LONG - 1)
  BY <1>2, <1>4
<1>6. ASSUME NEW c \in 0..(BITS_PER_LONG - 1) PROVE c \in Word(m, w) <=> o + c \in m
  <2>1. ASSUME o + c \in m PROVE c \in Word(m, w)
    BY <1>3, <1>4, <2>1
  <2>2. ASSUME c \in Word(m, w) PROVE o + c \in m
    <3>1. PICK b \in m : b \div BITS_PER_LONG = w /\ c = b - o
      BY <1>4, <2>2
    <3>2. b = o + c
      BY <1>1, <3>1, Widths
    <3>. QED  BY <3>1, <3>2
  <2>. QED  BY <2>1, <2>2
<1>. QED  BY <1>5, <1>6 DEF o

\* The first word holds the lowest bits.
LEMMA FirstWord ==
  ASSUME NEW m \in SUBSET Nat PROVE Word(m, 0) = m \intersect (0..(BITS_PER_LONG - 1))
<1>1. /\ Word(m, 0) \subseteq 0..(BITS_PER_LONG - 1)
      /\ \A c \in 0..(BITS_PER_LONG - 1) : c \in Word(m, 0) <=> 0 * BITS_PER_LONG + c \in m
  BY WordLaw
<1>2. \A c \in 0..(BITS_PER_LONG - 1) : 0 * BITS_PER_LONG + c = c
  BY Widths
<1>. QED  BY ONLY <1>1, <1>2

\* The place of a bit in a mask of n words
LEMMA Place ==
  ASSUME NEW n \in Nat, NEW b \in 0..(n * BITS_PER_LONG - 1)
  PROVE  \E w \in 0..(n - 1), c \in 0..(BITS_PER_LONG - 1) : b = w * BITS_PER_LONG + c
<1>. DEFINE w == b \div BITS_PER_LONG
            c == b % BITS_PER_LONG
<1>1. n * BITS_PER_LONG \in Nat
  BY Widths
<1>2. b \in Nat /\ b < n * BITS_PER_LONG
  BY ONLY <1>1, b \in 0..(n * BITS_PER_LONG - 1)
<1>3. w \in Nat /\ c \in 0..(BITS_PER_LONG - 1) /\ b = w * BITS_PER_LONG + c
  BY <1>2, Division
<1>. HIDE DEF w, c
<1>4. w < n
  <2>1. SUFFICES ASSUME n <= w PROVE FALSE
    BY <1>3
  <2>2. n * BITS_PER_LONG <= w * BITS_PER_LONG /\ w * BITS_PER_LONG \in Nat
    BY <1>3, <2>1, Widths
  <2>. QED  BY <1>1, <1>2, <1>3, <2>2, Widths
<1>. QED  BY <1>3, <1>4

\* All words are zero just when no bit is set.
LEMMA ZeroLaw ==
  ASSUME NEW n \in Nat, NEW m, m \subseteq 0..(n * BITS_PER_LONG - 1)
  PROVE  (\A w \in 0..(n - 1) : Word(m, w) = {}) <=> m = {}
<1>1. m \in SUBSET Nat
  BY Widths
<1>2. ASSUME \A w \in 0..(n - 1) : Word(m, w) = {} PROVE m = {}
  <2>. SUFFICES ASSUME NEW b \in m PROVE FALSE
    OBVIOUS
  <2>1. PICK w \in 0..(n - 1), c \in 0..(BITS_PER_LONG - 1) : b = w * BITS_PER_LONG + c
    BY Place
  <2>2. c \in Word(m, w)
    BY <1>1, <2>1, WordLaw
  <2>. QED  BY <1>2, <2>2
<1>3. ASSUME m = {} PROVE \A w \in 0..(n - 1) : Word(m, w) = {}
  BY <1>3 DEF Word
<1>. QED  BY <1>2, <1>3

\* node_mask_check() is right about the nodes 0 to max_node - 1.
LEMMA FullMask ==
  ASSUME BasicInv, ShiftsFit, Suitable, MaskInv, TestOK, pc = "run", S.op = "full"
  PROVE  node_mask_check(words.node_mask, S.bits) <=> node_mask = Nodes
<1>1. i \in 1..Len(T) /\ i \in 1..i /\ UsesMask(T[i]) /\ Len(T) \in Nat
  BY DEF BasicInv, TestOK, UsesMask, S
<1>2. PICK a \in 1..(i - 1) : MaskAt(i, a) /\ T[a].bits \in Nat /\ words.node_mask = Words(T[a].bits)
  BY <1>1, MaskThere
<1>3. max_node > 0 /\ S.bits = max_node /\ T[a].bits \in max_node..(max_node + 1)
  BY <1>2 DEF MaskAt, S
<1>4. max_node \in Nat /\ ShiftFits(max_node)
  <2>1. Uses("full")
    BY <1>1 DEF Uses, TestOK, S
  <2>. QED  BY <2>1, NodeCount DEF BasicInv, ShiftsFit
<1>5. PICK q \in Nat, r \in 1..(BITS_PER_INT - 2) :
        /\ max_node = q * BITS_PER_LONG + r /\ max_node % BITS_PER_LONG = r
        /\ Words(max_node) = q + 1 /\ Words(max_node + 1) = q + 1
  BY <1>3, <1>4, Parts
<1>6. words.node_mask = q + 1
  <2>1. T[a].bits = max_node \/ T[a].bits = max_node + 1
    BY ONLY <1>3, <1>4
  <2>. QED  BY ONLY <1>2, <1>5, <2>1
<1>7. LowBits(S.bits % BITS_PER_LONG) = 0..(r - 1) /\ r <= BITS_PER_LONG
  <2>1. r % BITS_PER_INT = r
    BY Widths
  <2>. QED  BY <1>3, <1>5, <2>1, Widths DEF LowBits
<1>8. node_mask_check(words.node_mask, S.bits)
        <=> \A w \in 0..q : Word(node_mask, w) = IF w = q THEN 0..(r - 1) ELSE 0..(BITS_PER_LONG - 1)
  <2>1. 0..(words.node_mask - 1) = 0..q /\ words.node_mask - 1 = q
    BY <1>6
  <2>. QED  BY ONLY <1>7, <2>1 DEF node_mask_check, AllOnes
<1>9. Nodes = 0..(q * BITS_PER_LONG + r - 1)
  <2>1. Nodes = 0..(max_node - 1)
    BY ONLY <1>3, <1>4 DEF Nodes
  <2>2. max_node - 1 = q * BITS_PER_LONG + r - 1
    BY ONLY <1>5, q \in Nat, r \in 1..(BITS_PER_INT - 2), Widths
  <2>. QED  BY <2>1, <2>2
<1>10. node_mask \subseteq 0..((q + 1) * BITS_PER_LONG - 1) /\ node_mask \in SUBSET Nat
  BY <1>6, Widths DEF MaskInv
<1>11. ASSUME NEW w \in 0..q, NEW c \in 0..(BITS_PER_LONG - 1)
       PROVE  w * BITS_PER_LONG + c \in Nodes <=> c \in IF w = q THEN 0..(r - 1) ELSE 0..(BITS_PER_LONG - 1)
  <2>1. q * BITS_PER_LONG \in Nat /\ w * BITS_PER_LONG \in Nat
    BY Widths
  <2>2. CASE w = q
    BY ONLY <1>9, <2>1, <2>2, c \in 0..(BITS_PER_LONG - 1), r \in 1..(BITS_PER_INT - 2), Widths
  <2>3. CASE w # q
    <3>1. w * BITS_PER_LONG + BITS_PER_LONG <= q * BITS_PER_LONG
      <4>1. w + 1 <= q /\ w \in Nat
        BY <2>3
      <4>2. (w + 1) * BITS_PER_LONG <= q * BITS_PER_LONG
        BY <4>1, Widths
      <4>3. (w + 1) * BITS_PER_LONG = w * BITS_PER_LONG + BITS_PER_LONG
        BY <4>1, Widths
      <4>. QED  BY <4>2, <4>3
    <3>. QED  BY ONLY <1>9, <2>1, <2>3, <3>1, c \in 0..(BITS_PER_LONG - 1), r \in 1..(BITS_PER_INT - 2), Widths
  <2>. QED  BY <2>2, <2>3
<1>12. ASSUME node_mask = Nodes, NEW w \in 0..q
       PROVE  Word(node_mask, w) = IF w = q THEN 0..(r - 1) ELSE 0..(BITS_PER_LONG - 1)
  <2>1. /\ Word(node_mask, w) \subseteq 0..(BITS_PER_LONG - 1)
        /\ \A c \in 0..(BITS_PER_LONG - 1) : c \in Word(node_mask, w) <=> w * BITS_PER_LONG + c \in node_mask
    BY <1>10, WordLaw
  <2>2. 0..(r - 1) \subseteq 0..(BITS_PER_LONG - 1)
    BY ONLY <1>7, r \in 1..(BITS_PER_INT - 2), Widths
  <2>. QED  BY ONLY <1>11, <1>12, <2>1, <2>2
<1>13. ASSUME \A w \in 0..q : Word(node_mask, w) = IF w = q THEN 0..(r - 1) ELSE 0..(BITS_PER_LONG - 1),
              NEW b \in 0..((q + 1) * BITS_PER_LONG - 1)
       PROVE  b \in node_mask <=> b \in Nodes
  <2>1. PICK w \in 0..q, c \in 0..(BITS_PER_LONG - 1) : b = w * BITS_PER_LONG + c
    <3>1. \E w \in 0..(q + 1 - 1), c \in 0..(BITS_PER_LONG - 1) : b = w * BITS_PER_LONG + c
      BY Place
    <3>. QED  BY <3>1
  <2>2. c \in Word(node_mask, w) <=> b \in node_mask
    BY <1>10, <2>1, WordLaw
  <2>. QED  BY ONLY <1>11, <1>13, <2>1, <2>2
<1>14. Nodes \subseteq 0..((q + 1) * BITS_PER_LONG - 1)
  <2>1. (q + 1) * BITS_PER_LONG = q * BITS_PER_LONG + BITS_PER_LONG /\ q * BITS_PER_LONG \in Nat
    BY Widths
  <2>. QED  BY ONLY <1>7, <1>9, <2>1, r \in 1..(BITS_PER_INT - 2), Widths
<1>. QED  BY ONLY <1>8, <1>10, <1>12, <1>13, <1>14

-----------------------------------------------------------------------------
(* What a check shows *)

\* The policy read by the get_mempolicy() that a check is about, and how much of it was written
LEMMA CheckedGet ==
  ASSUME IInv, ShiftsFit, TestOK, pc = "run", Suitable, S.op \in {"mode", "word0", "zero", "full"}
  PROVE  LET g == T[GetOf(i)] IN
         /\ GetOf(i) \in 1..i /\ g.op = "get" /\ g.want = "ok" /\ (S.op = "mode" => g.m) /\ (S.op # "mode" => g.nm)
         /\ Got(g)
<1>1. end = "none" /\ Now = i /\ i \in 1..Len(T) /\ Len(T) \in Nat
  BY DEF IInv, BasicInv, Now, TestOK
<1>2. CheckOK(i)
  BY <1>1 DEF TestOK
<1>3. /\ i > 1 /\ (T[i - 1].op = "get" \/ (i > 2 /\ T[i - 1].op = "mode" /\ T[i - 2].op = "get"))
      /\ T[GetOf(i)].want = "ok" /\ (S.op = "mode" => T[GetOf(i)].m) /\ (S.op # "mode" => T[GetOf(i)].nm)
  BY <1>2 DEF CheckOK, S
<1>4. CASE T[i - 1].op = "get"
  <2>1. GetOf(i) = i - 1
    BY <1>4 DEF GetOf
  <2>2. Got(T[i - 1])
    BY <1>1, <1>3, <1>4 DEF IInv, ReadInv
  <2>. QED  BY <1>1, <1>3, <1>4, <2>1, <2>2
<1>5. CASE T[i - 1].op # "get"
  <2>1. GetOf(i) = i - 2
    BY <1>5 DEF GetOf
  <2>2. Got(T[i - 2])
    BY <1>1, <1>3, <1>5 DEF IInv, ReadInv
  <2>. QED  BY <1>1, <1>3, <1>5, <2>1, <2>2
<1>. QED  BY <1>4, <1>5

\* The answer to a look is the policy of the page, or of the process, on a kernel that reports well.
LEMMA LookAnswer ==
  ASSUME NEW g, StepOK(g), Looks(g), g.want = "ok", NEW f, f # "process"
  PROVE  Answer(kern, g, f) = Slot(kern, g.at) /\ g.at \in Slots /\ "NODE" \notin g.flags
<1>1. g.flags \subseteq {"ADDR"} /\ g.at \in Slots /\ (g.flags = {"ADDR"} <=> g.at \in Page)
  BY DEF StepOK, Looks
<1>2. "MEMS_ALLOWED" \notin g.flags /\ "NODE" \notin g.flags /\ ("ADDR" \in g.flags <=> g.at \in Page)
  BY <1>1
<1>3. g.at \notin Page <=> g.at = PROC
  BY <1>1 DEF Slots, Page, PROC
<1>. QED  BY <1>1, <1>2, <1>3 DEF Answer, Slot

\* Where the kernel reports well, a check holds just when it finds the policy that is kept.
LEMMA ShowsKept ==
  ASSUME IInv, ShiftsFit, TestOK, pc = "run", Suitable, S.op \in {"mode", "word0", "zero", "full"}, Looks(T[GetOf(i)]),
         fault \in StoreFaults \union {"none"}
  PROVE  Holds <=> Finds(S, Slot(kern, T[GetOf(i)].at))
<1>. DEFINE g == T[GetOf(i)]
            e == Slot(kern, g.at)
            W == Written(g, fault)
<1>1. i \in 1..Len(T) /\ Len(T) \in Nat /\ max_node \in Nat
  BY NodeCount DEF IInv, BasicInv, TestOK
<1>2. /\ GetOf(i) \in 1..i /\ g.op = "get" /\ g.want = "ok" /\ (S.op = "mode" => g.m) /\ (S.op # "mode" => g.nm)
      /\ Got(g)
  BY CheckedGet
<1>3. StepOK(g)
  BY <1>1, <1>2 DEF TestOK
<1>4. fault \notin {"process", "nomode", "nomask", "oneword"}
  BY DEF StoreFaults
<1>5. Answer(kern, g, fault) = e /\ g.at \in Slots /\ "NODE" \notin g.flags
  BY <1>2, <1>3, <1>4, LookAnswer
<1>6. S.op = "mode" => mode = e.mode
  BY <1>2, <1>4, <1>5 DEF Got
<1>7. S.op # "mode" => node_mask \intersect W = e.mask \intersect W
  BY <1>2, <1>4, <1>5 DEF Got
<1>8. S.op # "mode" => /\ 0..(BITS_PER_LONG - 1) \subseteq W /\ W = 0..(words.node_mask * BITS_PER_LONG - 1)
                       /\ Nodes \subseteq W
  BY <1>2, <1>4, WrittenLaw DEF IInv
<1>9. words.node_mask \in Nat /\ node_mask \subseteq 0..(words.node_mask * BITS_PER_LONG - 1) /\ node_mask \in SUBSET Nat
  BY Widths DEF IInv, MaskInv
<1>10. e \in Policies
  BY <1>5 DEF IInv, KernelInv, Slot, Slots
<1>11. e.mask \subseteq Nodes
  BY <1>10 DEF Policies
<1>. HIDE DEF g, e, W
<1>12. CASE S.op = "mode"
  BY <1>6, <1>12 DEF Holds, Finds, e, g
<1>13. S.op # "mode" => node_mask = e.mask
  BY ONLY <1>7, <1>8, <1>9, <1>11
<1>14. CASE S.op = "word0"
  <2>1. Holds <=> Word(node_mask, 0) = S.bits
    BY <1>14 DEF Holds
  <2>2. Word(node_mask, 0) = node_mask \intersect (0..(BITS_PER_LONG - 1))
    BY <1>9, FirstWord
  <2>3. test \notin {"mbind013", "set012"}
    BY <1>1, <1>14 DEF TestOK, ScopeOK, S
  <2>4. e.mask \subseteq 0..3
    BY <1>5, <2>3 DEF IInv, KernelInv, e
  <2>5. e.mask \subseteq 0..(BITS_PER_LONG - 1)
    BY <2>4, Widths
  <2>6. Holds <=> S.bits = e.mask
    BY ONLY <1>13, <1>14, <2>1, <2>2, <2>5
  <2>. QED  BY <1>14, <2>6 DEF Finds, e, g
<1>15. CASE S.op = "zero"
  <2>1. Holds <=> \A w \in 0..(words.node_mask - 1) : Word(node_mask, w) = {}
    BY <1>15 DEF Holds
  <2>2. Holds <=> node_mask = {}
    BY <1>9, <2>1, ZeroLaw
  <2>. QED  BY <1>13, <1>15, <2>2 DEF Finds, e, g
<1>16. CASE S.op = "full"
  <2>1. Holds <=> node_mask_check(words.node_mask, S.bits)
    BY <1>16 DEF Holds
  <2>2. Holds <=> node_mask = Nodes
    BY <1>16, <2>1, FullMask DEF IInv
  <2>. QED  BY <1>13, <1>16, <2>2 DEF Finds, e, g
<1>. QED  BY <1>12, <1>14, <1>15, <1>16

\* The calls of get_mempolicy 011 and set_mempolicy 001, which compare the mode only
LEMMA Text011 ==
  ASSUME BasicInv, test = "get011"
  PROVE  /\ Len(T) = 4 /\ \A k \in 1..4 : T[k].op \in Setters => k = 2
         /\ T[1].op = "need" /\ T[1].k = 2
         /\ T[2].op = "mbind" /\ T[2].at = 0 /\ T[2].len = 1 /\ T[2].mode = {"BIND", "STATIC"} /\ T[2].mask = {1}
         /\ T[2].maxnode = BITS_PER_LONG /\ T[2].want = "ok"
<1>1. T = Get011(max_node)
  BY DEF BasicInv, Suite
<1>2. Len(T) = 4
  BY ONLY <1>1 DEF Get011, Need, Mbind, Get, ModeIs
<1>3. T[1].op = "need" /\ T[1].k = 2 /\ T[3].op = "get" /\ T[4].op = "mode"
  BY ONLY <1>1 DEF Get011, Need, Mbind, Get, ModeIs
<1>4. /\ T[2].op = "mbind" /\ T[2].at = 0 /\ T[2].len = 1 /\ T[2].mode = {"BIND", "STATIC"} /\ T[2].mask = {1}
      /\ T[2].maxnode = BITS_PER_LONG /\ T[2].want = "ok"
  BY ONLY <1>1 DEF Get011, Need, Mbind, Get, ModeIs
<1>5. ASSUME NEW k \in 1..4, T[k].op \in Setters PROVE k = 2
  BY ONLY <1>3, <1>5, k \in 1..4 DEF Setters
<1>. QED  BY ONLY <1>2, <1>3, <1>4, <1>5

\* So with set_mempolicy 001
LEMMA Text001 ==
  ASSUME BasicInv, test = "set001"
  PROVE  /\ Len(T) = 4 /\ \A k \in 1..4 : T[k].op \in Setters => k = 2
         /\ T[2].op = "set" /\ T[2].mode = {"DEFAULT"} /\ T[2].mask = NULL /\ T[2].want = "ok"
         /\ T[3].op = "get" /\ T[3].at = NOADDR /\ T[4].op = "mode" /\ T[4].mode = {"DEFAULT"}
<1>1. T = Set001(max_node)
  BY DEF BasicInv, Suite
<1>2. Len(T) = 4
  BY ONLY <1>1 DEF Set001, Need, Set, Get, ModeIs
<1>3. T[1].op = "need" /\ T[3].op = "get" /\ T[3].at = NOADDR /\ T[4].op = "mode" /\ T[4].mode = {"DEFAULT"}
  BY ONLY <1>1 DEF Set001, Need, Set, Get, ModeIs
<1>4. T[2].op = "set" /\ T[2].mode = {"DEFAULT"} /\ T[2].mask = NULL /\ T[2].want = "ok"
  BY ONLY <1>1 DEF Set001, Need, Set, Get, ModeIs
<1>5. ASSUME NEW k \in 1..4, T[k].op \in Setters PROVE k = 2
  BY ONLY <1>3, <1>5, k \in 1..4 DEF Setters
<1>. QED  BY ONLY <1>2, <1>3, <1>4, <1>5

\* In get_mempolicy 011 a policy with the mode that is looked for has the nodes that go with it.
LEMMA Seen011 ==
  ASSUME IInv, ShiftsFit, TestOK, Next, pc = "run", end' # "ng", test = "get011", i > 1, kern'.pol[0].mode = {"BIND", "STATIC"}
  PROVE  kern'.pol[0].mask = {1}
<1>1. Now = i /\ end = "none" /\ i \in 1..4 /\ Len(T) = 4
  <2>1. BasicInv /\ Len(T) = 4
    BY Text011 DEF IInv
  <2>. QED  BY <2>1 DEF BasicInv, Now
<1>2. kern \in Kernels /\ 0 \in Page
  BY DEF IInv, KernelInv, Kernels, Page, NUM_REGION
<1>3. CASE i # 2
  <2>1. kern' = kern
    BY <1>1, <1>3, Text011, ActionOf DEF S, IInv
  <2>2. i > 2
    BY <1>1, <1>3
  <2>. QED  BY <1>1, <2>1, <2>2 DEF IInv, SureInv, SeenInv
<1>4. CASE i = 2
  <2>1. S = T[2] /\ S.op = "mbind"
    BY <1>4, Text011 DEF S, IInv
  <2>2. MbindError(S, fault) = "0"
    BY <1>1, <2>1, WentOn, Text011 DEF AsWanted, IInv
  <2>3. kern' = Bound(kern, S, fault)
    BY <2>1, <2>2, ActionOf DEF CallMbind
  <2>4. PolicyStep(S) /\ S.at \in Page
    BY <1>1, <2>1, <1>4 DEF TestOK, StepOK, Setters
  <2>5. kern'.pol[0] = kern.pol[0] \/ kern'.pol[0] = D \/ kern'.pol[0] = Stored(S, kern.pol[0], fault)
    BY <1>2, <2>3, <2>4, BoundLaw
  <2>6. kern.pol[0] = D
    <3>1. Quiet(1)
      <4>1. T[1].op \notin Setters /\ Now - 1 = 1
        BY <1>1, <1>4, Text011 DEF Setters, IInv
      <4>. QED  BY <4>1 DEF Quiet
    <3>2. Slot(kern, 0) = D
      BY <1>1, <1>2, <3>1 DEF IInv, SureInv, SeenInv, Slots
    <3>. QED  BY <3>2 DEF Slot, PROC
  <2>7. D.mode # {"BIND", "STATIC"}
    BY DEF D
  <2>8. kern'.pol[0] = Stored(S, D, fault)
    BY ONLY <2>5, <2>6, <2>7, kern'.pol[0].mode = {"BIND", "STATIC"}
  <2>9. S.mode = {"BIND", "STATIC"} /\ S.mask = {1} /\ S.maxnode = BITS_PER_LONG
    BY <2>1, Text011 DEF IInv
  <2>10. fault # "noop"
    BY <2>7, <2>8 DEF Stored
  <2>11. Stored(S, D, fault).mask = Effective(S, fault)
    BY ONLY <2>9, <2>10 DEF Stored
  <2>12. Effective(S, fault) = {1}
    <3>1. max_node >= 2 /\ max_node \in Nat
      <4>1. 1 \in 1..(Now - 1) /\ T[1].op = "need" /\ T[1].k = 2
        BY <1>1, <1>4, Text011 DEF IInv
      <4>. QED  BY <4>1, NodeCount DEF IInv, NeedInv, BasicInv
    <3>2. Nodes \intersect ({1} \intersect 0..(BITS_PER_LONG - 2)) = {1} /\ Nodes \intersect {1} = {1}
      BY <3>1, MaskCuts
    <3>3. {1} # NULL
      BY DEF NULL
    <3>. QED  BY ONLY <2>9, <3>2, <3>3 DEF Effective
  <2>. QED  BY <2>8, <2>11, <2>12
<1>. QED  BY <1>3, <1>4

\* In set_mempolicy 001 the process has no nodes at any time.
LEMMA Seen001 ==
  ASSUME IInv, ShiftsFit, TestOK, Next, pc = "run", test = "set001"
  PROVE  kern'.proc.mask = {}
<1>1. Now = i /\ end = "none" /\ i \in 1..4 /\ Len(T) = 4
  <2>1. BasicInv /\ Len(T) = 4
    BY Text001 DEF IInv
  <2>. QED  BY <2>1 DEF BasicInv, Now
<1>2. kern \in Kernels /\ kern.proc.mask = {}
  BY <1>1 DEF IInv, SureInv, KernelInv, Kernels, SeenInv
<1>3. CASE i # 2
  <2>1. kern' = kern
    BY <1>1, <1>3, Text001, ActionOf DEF S, IInv
  <2>. QED  BY <1>2, <2>1
<1>4. CASE i = 2
  <2>1. S.op = "set" /\ S.mode = {"DEFAULT"} /\ S.mask = NULL
    BY <1>4, Text001 DEF S, IInv
  <2>2. kern' = kern \/ kern' = [kern EXCEPT !.proc = Stored(S, kern.proc, fault)]
    BY <2>1, ActionOf DEF CallSet
  <2>3. Effective(S, fault) = {}
    BY <2>1 DEF Effective
  <2>4. Stored(S, kern.proc, fault).mask = {}
    BY ONLY <1>2, <2>1, <2>3 DEF Stored
  <2>. QED  BY <1>2, <2>2, <2>4 DEF Kernels
<1>. QED  BY <1>3, <1>4

\* Each step keeps what was shown, adds what it shows itself, or changes a policy and ends it.
LEMMA SeenStep ==
  ASSUME IInv, ShiftsFit, TestOK, Next, pc = "run" PROVE SeenInv'
<1>1. UNCHANGED chosen /\ Moves /\ Now = i /\ end = "none" /\ i \in 1..Len(T) /\ Len(T) \in Nat
  BY RunLaw DEF IInv, BasicInv, TestOK
<1>2. T' = T /\ fault' = fault /\ Nodes' = Nodes /\ test' = test /\ \A k : GetOf(k)' = GetOf(k)
  BY <1>1, SameText
<1>. SUFFICES ASSUME end' # "ng" PROVE SeenInv'
  BY DEF SeenInv
<1>3. Now' = i + 1 /\ 1..(Now' - 1) = 1..i /\ SeenInv
  BY <1>1 DEF Moves, IInv, SureInv
<1>. DEFINE Calm(c) == \A l \in c..i : T[l].op \notin Setters
            Shows1(c, k) == T[c].op \in {"mode", "word0", "zero", "full"} /\ Looks(T[GetOf(c)]) => Finds(T[c], Slot(k, T[GetOf(c)].at))
<1>4. ASSUME NEW c \in 1..i, Calm(c) PROVE kern' = kern /\ S.op \notin Setters /\ (c < i => Quiet(c))
  <2>1. i \in c..i /\ (c < i => \A l \in c..(i - 1) : l \in c..i)
    BY <1>1
  <2>2. S.op \notin Setters
    BY <1>4, <2>1 DEF S
  <2>. QED  BY <1>1, <1>4, <2>1, <2>2, ActionOf DEF Quiet
<1>5. ASSUME fault \in StoreFaults, NEW c \in 1..i, Calm(c) PROVE Shows1(c, kern')
  <2>1. kern' = kern
    BY <1>4, <1>5
  <2>2. CASE c = i
    <3>1. SUFFICES ASSUME S.op \in {"mode", "word0", "zero", "full"}, Looks(T[GetOf(i)]) PROVE Finds(S, Slot(kern, T[GetOf(i)].at))
      BY <2>1, <2>2 DEF S
    <3>2. Holds
      BY <1>1, <3>1, WentOn DEF Checks
    <3>3. Suitable
      BY <3>1, NeedsMet DEF IInv
    <3>. QED  BY <1>5, <3>1, <3>2, <3>3, ShowsKept
  <2>3. CASE c # i
    <3>1. Quiet(c) /\ c \in 1..(Now - 1)
      BY <1>1, <1>4, <1>5, <2>3
    <3>2. Shown(c)
      BY <1>1, <1>3, <1>5, <3>1 DEF SeenInv
    <3>. QED  BY <2>1, <3>2 DEF Shown
  <2>. QED  BY <2>2, <2>3
<1>6. fault = "refuse" => \A j \in 1..i : T[j].op \in Setters => T[j].want # "ok"
  <2>1. ASSUME fault = "refuse", NEW j \in 1..i, T[j].op \in Setters, T[j].want = "ok" PROVE FALSE
    <3>1. CASE j = i
      <4>1. AsWanted("ENOSYS")
        <5>1. PolicyError(S, fault) = "ENOSYS" /\ MbindError(S, fault) = "ENOSYS"
          BY <2>1 DEF PolicyError, MbindError
        <5>. QED  BY <1>1, <2>1, <3>1, <5>1, WentOn DEF S, Setters
      <4>. QED  BY <2>1, <3>1, <4>1 DEF AsWanted, S
    <3>2. CASE j # i
      <4>1. j \in 1..(Now - 1)
        BY <1>1, <3>2
      <4>. QED  BY <1>1, <1>3, <2>1, <4>1 DEF SeenInv
    <3>. QED  BY <3>1, <3>2
  <2>. QED  BY <2>1
<1>7. Calm(1) => \A p \in Slots : Slot(kern', p) = D
  <2>1. ASSUME Calm(1) PROVE \A p \in Slots : Slot(kern, p) = D
    <3>1. Quiet(1)
      BY <1>1, <2>1 DEF Quiet
    <3>. QED  BY <1>1, <1>3, <3>1 DEF SeenInv
  <2>2. Calm(1) => kern' = kern
    BY <1>1, <1>4
  <2>. QED  BY <2>1, <2>2
<1>8. ASSUME NEW p \in looked' PROVE \E g \in 1..i : Looks(T[g]) /\ T[g].want = "ok" /\ T[g].at = p
  <2>1. CASE p \in looked
    <3>1. PICK g \in 1..(Now - 1) : Looks(T[g]) /\ T[g].want = "ok" /\ T[g].at = p
      BY <1>1, <1>3, <2>1 DEF SeenInv
    <3>2. g \in 1..i
      BY <1>1
    <3>. QED  BY <3>1, <3>2
  <2>2. CASE p \notin looked
    <3>1. S.op = "get"
      BY <1>8, <2>2 DEF Next, CheckMaxNode, create_node_mask, MmapBuf, MunmapBuf, PresetMask, TouchBuf, CallMbind, CallSet,
        CallGet, CheckAnswer, KeepOld, Reserve, MmapLarge, TouchLarge, Release, Teardown, Over, vars, history, At
    <3>2. GetError(kern, S, fault) = "0" /\ S.flags \subseteq {"ADDR"} /\ (S.m \/ S.nm) /\ p = S.at
      BY <1>8, <2>2, <3>1, ActionOf DEF CallGet
    <3>3. S.want \in Wants
      BY <1>1, <3>1 DEF S, TestOK, StepOK
    <3>4. AsWanted("0")
      BY <1>1, <3>1, <3>2, WentOn
    <3>5. S.want = "ok"
      BY ONLY <3>3, <3>4 DEF AsWanted, Wants
    <3>. QED  BY <1>1, <3>1, <3>2, <3>5 DEF S, Looks
  <2>. QED  BY <2>1, <2>2
<1>9. test = "get011" /\ i + 1 > 2 /\ kern'.pol[0].mode = {"BIND", "STATIC"} => kern'.pol[0].mask = {1}
  BY <1>1, Seen011
<1>10. test = "set001" => kern'.proc.mask = {}
  BY Seen001
<1>11. i = Len(T) /\ T[i].op = "full" => node_mask' = Nodes
  <2>1. SUFFICES ASSUME S.op = "full" PROVE node_mask' = Nodes
    BY DEF S
  <2>2. Holds /\ CheckAnswer
    BY <1>1, <2>1, WentOn, ActionOf DEF Checks
  <2>3. Suitable
    BY <2>1, NeedsMet DEF IInv
  <2>4. node_mask = Nodes
    BY <2>1, <2>2, <2>3, FullMask DEF Holds, IInv
  <2>. QED  BY <2>2, <2>4 DEF CheckAnswer
<1>12. i = Len(T) /\ T[i].op = "node" => node' \in Nodes
  <2>1. SUFFICES ASSUME S.op = "node" PROVE node' \in Nodes
    BY DEF S
  <2>2. Holds /\ CheckAnswer
    BY <1>1, <2>1, WentOn, ActionOf DEF Checks
  <2>3. Suitable
    BY <2>1, NeedsMet DEF IInv
  <2>4. max_node > 0
    BY <1>1, <2>1, <2>3 DEF TestOK, ScopeOK, S
  <2>. QED  BY <2>1, <2>2, <2>4 DEF CheckAnswer, Holds, Nodes
<1>. HIDE DEF Calm, Shows1
<1>13. fault' \in StoreFaults => \A c \in 1..(Now' - 1) : Quiet(c)' => Shown(c)'
  <2>1. \A c : Quiet(c)' => Calm(c)
    BY <1>2, <1>3, <1>1 DEF Quiet, Calm
  <2>2. \A c : Shows1(c, kern') => Shown(c)'
    BY <1>2 DEF Shows1, Shown, Finds, Slot
  <2>. QED  BY ONLY <1>2, <1>3, <1>5, <2>1, <2>2
<1>14. Quiet(1)' => \A p \in Slots : Slot(kern', p) = D
  BY <1>1, <1>2, <1>3, <1>7 DEF Quiet, Calm
<1>15. Now' = Len(T) + 1 => i = Len(T)
  BY <1>1, <1>3
<1>. QED  BY ONLY <1>2, <1>3, <1>6, <1>8, <1>9, <1>10, <1>11, <1>12, <1>13, <1>14, <1>15 DEF SeenInv, Slot

-----------------------------------------------------------------------------
(* Calls that go as they must, and the loop of get_mempolicy 018 *)

\* get_mempolicy() looks at the policies only when it asks for the next node.
LEMMA GetErrorLaw ==
  ASSUME NEW a, NEW b, NEW s, NEW f, s.flags = {"NODE"} => (a.proc.mode = {"INTERLEAVE"} <=> b.proc.mode = {"INTERLEAVE"})
  PROVE  GetError(a, s, f) = GetError(b, s, f)
  BY DEF GetError

\* What a get_mempolicy() of a test gets from a good kernel
LEMMA GoodGet ==
  ASSUME IInv, ShiftsFit, TestOK, pc = "run", S.op = "get"
  PROVE  /\ S.want \in Wants
         /\ S.want = "ok" /\ ("ADDR" \in S.flags => buf # "failed") => GetError(due, S, "none") = "0"
         /\ S.want # "ok" => S.want \notin {"notEIO", "fails"} /\ GetError(due, S, "none") = S.want
<1>1. Now = i /\ end = "none" /\ i \in 1..Len(T) /\ Len(T) \in Nat
  BY DEF IInv, BasicInv, TestOK, Now
<1>2. Suitable
  BY NeedsMet DEF IInv
<1>3. S.want \in Wants
  BY <1>1 DEF S, TestOK, StepOK
<1>. DEFINE d == [proc |-> [mode |-> IF S.want = "ok" THEN {"INTERLEAVE"} ELSE {"DEFAULT"}]]
<1>4. CallOK(i)
  BY <1>1, <1>2 DEF TestOK
<1>5. /\ S.flags = {"NODE"} =>
            IF S.want = "ok" THEN \E j \in 1..(i - 1) : LastCover(i, PROC, j) /\ T[j].mode = {"INTERLEAVE"}
            ELSE Untouched(i, PROC)
      /\ S.want = "ok" /\ ("ADDR" \in S.flags => buf # "failed") => GetError(d, S, "none") = "0"
      /\ S.want # "ok" => S.want \notin {"notEIO", "fails"} /\ GetError(d, S, "none") = S.want
  BY <1>4 DEF CallOK, S
<1>6. PROC \in Slots /\ Slot(due, PROC) = due.proc
  BY DEF Slots, Slot
<1>7. S.flags = {"NODE"} => (d.proc.mode = {"INTERLEAVE"} <=> due.proc.mode = {"INTERLEAVE"})
  <2>1. CASE S.flags = {"NODE"} /\ S.want = "ok"
    <3>1. PICK j \in 1..(i - 1) : LastCover(i, PROC, j) /\ T[j].mode = {"INTERLEAVE"}
      BY <1>5, <2>1
    <3>2. due.proc = Policy(T[j])
      BY <1>1, <1>6, <3>1 DEF IInv, SureInv, DueInv
    <3>. QED  BY <2>1, <3>1, <3>2 DEF Policy
  <2>2. CASE S.flags = {"NODE"} /\ S.want # "ok"
    <3>1. due.proc = D
      BY <1>1, <1>5, <1>6, <2>2 DEF IInv, SureInv, DueInv
    <3>. QED  BY <2>2, <3>1 DEF D
  <2>. QED  BY <2>1, <2>2
<1>8. GetError(d, S, "none") = GetError(due, S, "none")
  BY <1>7, GetErrorLaw
<1>. HIDE DEF d
<1>. QED  BY ONLY <1>3, <1>5, <1>8

\* A test that goes on has seen no call succeed that had to fail, or fail that had to succeed.
LEMMA HonestCall ==
  ASSUME IInv, ShiftsFit, TestOK, Next, pc = "run", end' # "ng", S.op \in Setters \union {"get"}, honest PROVE honest'
<1>1. Now = i /\ end = "none" /\ i \in 1..Len(T) /\ Len(T) \in Nat
  BY RunLaw DEF IInv, BasicInv, TestOK
<1>2. Suitable
  BY NeedsMet DEF IInv, Setters
<1>3. S.want \in Wants /\ CallOK(i)
  BY <1>1, <1>2 DEF S, TestOK, StepOK
<1>4. ASSUME NEW err, AsWanted(err) PROVE err = "0" <=> S.want = "ok"
  BY ONLY <1>3, <1>4 DEF AsWanted, Wants
<1>5. CASE S.op = "mbind"
  <2>1. MbindError(S, fault) = "0" <=> S.want = "ok"
    BY <1>1, <1>4, <1>5, WentOn
  <2>2. MbindError(S, "none") = "0" <=> S.want = "ok"
    BY <1>3, <1>5, <2>1, NoBuf, FailsWell DEF CallOK, S, Setters
  <2>3. honest' = (honest /\ (MbindError(S, fault) = "0" <=> MbindError(S, "none") = "0"))
    BY <1>5, ActionOf DEF CallMbind, Honest
  <2>. QED  BY ONLY <2>1, <2>2, <2>3, honest
<1>6. CASE S.op = "set"
  <2>1. PolicyError(S, fault) = "0" <=> S.want = "ok"
    BY <1>1, <1>4, <1>6, WentOn
  <2>2. PolicyError(S, "none") = "0" <=> S.want = "ok"
    BY <1>3, <1>6, FailsWell DEF CallOK, S, Setters
  <2>3. honest' = (honest /\ (PolicyError(S, fault) = "0" <=> PolicyError(S, "none") = "0"))
    BY <1>6, ActionOf DEF CallSet, Honest
  <2>. QED  BY ONLY <2>1, <2>2, <2>3, honest
<1>7. CASE S.op = "get"
  <2>1. GetError(kern, S, fault) = "0" <=> S.want = "ok"
    BY <1>1, <1>4, <1>7, WentOn
  <2>2. GetError(kern, S, fault) = "0" /\ "ADDR" \in S.flags => buf # "failed"
    BY DEF GetError
  <2>3. GetError(due, S, "none") = "0" <=> S.want = "ok"
    BY <1>7, <2>1, <2>2, GoodGet DEF Wants
  <2>4. honest' = (honest /\ (GetError(kern, S, fault) = "0" <=> GetError(due, S, "none") = "0"))
    BY <1>7, ActionOf DEF CallGet, Honest
  <2>. QED  BY ONLY <2>1, <2>3, <2>4, honest
<1>. QED  BY <1>5, <1>6, <1>7 DEF Setters

\* What a check looks for is what a good kernel would hold.
LEMMA DueFinds ==
  ASSUME IInv, ShiftsFit, TestOK, pc = "run", Suitable, S.op \in {"mode", "word0", "zero", "full"}, Looks(T[GetOf(i)])
  PROVE  Finds(S, Slot(due, T[GetOf(i)].at))
<1>. DEFINE g == T[GetOf(i)]
<1>1. Now = i /\ end = "none" /\ i \in 1..Len(T) /\ Len(T) \in Nat
  BY DEF IInv, BasicInv, TestOK, Now
<1>2. CheckOK(i)
  BY <1>1 DEF TestOK
<1>3. ~(g.flags = {"MEMS_ALLOWED"})
  BY DEF Looks
<1>4. \/ Untouched(i, g.at) /\ Finds(S, D)
      \/ \E j \in 1..(i - 1) : LastCover(i, g.at, j) /\ Finds(S, Policy(T[j]))
  BY <1>2, <1>3 DEF CheckOK, S
<1>5. GetOf(i) \in 1..i /\ g.want = "ok"
  BY CheckedGet
<1>6. g.at \in Slots
  <2>1. StepOK(g)
    BY <1>1, <1>5 DEF TestOK
  <2>. QED  BY <1>5, <2>1 DEF StepOK
<1>. HIDE DEF g
<1>7. /\ Untouched(i, g.at) => Slot(due, g.at) = D
      /\ \A j \in 1..(i - 1) : LastCover(i, g.at, j) => Slot(due, g.at) = Policy(T[j])
  BY <1>1, <1>6 DEF IInv, SureInv, DueInv
<1>8. Finds(S, Slot(due, g.at))
  BY ONLY <1>4, <1>7
<1>. QED  BY <1>8 DEF g

\* From the check of the mask on, the process of 018 interleaves over two nodes.
LEMMA TwoNodes ==
  ASSUME IInv, ShiftsFit, TestOK, Next, pc = "run", end' # "ng", test = "get018", i > 5 PROVE kern'.proc.mask = {0, 1}
<1>1. Now = i /\ end = "none" /\ i \in 1..26
  <2>1. BasicInv /\ Len(T) = 26
    BY Text018 DEF IInv
  <2>. QED  BY <2>1 DEF BasicInv, Now
<1>2. S.op \notin Setters
  <2>1. SUFFICES ASSUME S.op \in Setters PROVE FALSE
    OBVIOUS
  <2>2. i \in 6..26
    BY <1>1
  <2>. QED  BY <2>1, <2>2, Text018 DEF IInv, S, Setters
<1>3. kern' = kern
  BY <1>2, ActionOf
<1>4. CASE i > 6
  BY <1>1, <1>3, <1>4 DEF IInv, SureInv, LoopInv
<1>5. CASE i = 6
  <2>1. S.op = "word0" /\ S.bits = {0, 1} /\ T[5].op = "mode" /\ T[4].at = PROC /\ T[4].op = "get" /\ T[4].flags = {} /\ T[4].nm
    BY <1>5, Text018 DEF IInv, S, NOADDR, PROC
  <2>2. GetOf(i) = 4
    BY <1>5, <2>1 DEF GetOf
  <2>3. Looks(T[GetOf(i)]) /\ Suitable /\ Holds
    BY <1>1, <2>1, <2>2, NeedsMet, WentOn DEF Looks, IInv, Checks
  <2>4. Finds(S, Slot(due, PROC))
    BY <2>1, <2>2, <2>3, DueFinds
  <2>5. fault \in StoreFaults => Finds(S, Slot(kern, PROC))
    BY <2>1, <2>2, <2>3, ShowsKept
  <2>6. fault \notin StoreFaults => kern = due
    BY DEF IInv, KernelInv
  <2>7. Finds(S, kern.proc)
    BY ONLY <2>4, <2>5, <2>6 DEF Slot
  <2>. QED  BY ONLY <1>3, <2>1, <2>7 DEF Finds
<1>. QED  BY <1>1, <1>4, <1>5

\* After a get_mempolicy() for the next node of the process, that is what node holds.
LEMMA NodeIsNext ==
  ASSUME IInv, TestOK, pc = "run", test = "get018", i \in {8, 13, 19, 25} PROVE node = nxt
<1>1. Now = i /\ end = "none"
  BY DEF IInv, BasicInv, Now
<1>2. T[i - 1].op = "get" /\ T[i - 1].flags = {"NODE"} /\ T[i - 1].want = "ok"
  BY Text018 DEF IInv
<1>3. Got(T[i - 1])
  BY <1>1, <1>2 DEF IInv, ReadInv
<1>. QED  BY <1>2, <1>3 DEF Got

\* A page taken from the next node moves the next node on.
LEMMA NextMoves ==
  ASSUME IInv, ShiftsFit, TestOK, Next, pc = "run", end' # "ng", test = "get018", S.op = "next"
  PROVE  /\ honest' = (honest /\ nxt' # nxt) /\ old_mode' = old_mode
         /\ fault # "stuck" => nxt' # nxt
<1>1. Now = i /\ end = "none" /\ i \in 1..26
  <2>1. BasicInv /\ Len(T) = 26
    BY Text018 DEF IInv
  <2>. QED  BY <2>1 DEF BasicInv, Now
<1>2. i > 6
  <2>1. SUFFICES ASSUME i \in 1..6 PROVE FALSE
    BY <1>1
  <2>. QED  BY <2>1, Text018 DEF IInv, S
<1>3. kern.proc.mask = {0, 1}
  BY <1>1, <1>2 DEF IInv, SureInv, LoopInv
<1>4. TouchLarge
  BY DEF Next, CheckMaxNode, create_node_mask, MmapBuf, MunmapBuf, PresetMask, TouchBuf, CallMbind, CallSet,
         CallGet, CheckAnswer, KeepOld, Reserve, MmapLarge, Release, Teardown, Over, At
<1>. DEFINE later == {b \in kern.proc.mask : b > nxt}
<1>5. /\ nxt' = IF fault = "stuck" THEN nxt ELSE Min(IF later = {} THEN kern.proc.mask ELSE later)
      /\ honest' = (honest /\ nxt' # nxt) /\ old_mode' = old_mode
  BY <1>4 DEF TouchLarge, locals
<1>6. nxt \in Nat
  <2>1. nxt \in Nodes /\ max_node \in Nat
    BY NodeCount DEF IInv, MaskInv, BasicInv
  <2>. QED  BY <2>1 DEF Nodes
<1>7. CASE nxt = 0
  <2>1. later = {1}
    BY <1>3, <1>7
  <2>. QED  BY ONLY <1>5, <1>7, <2>1, MinLaw
<1>8. CASE nxt # 0
  <2>1. later = {}
    BY <1>3, <1>6, <1>8
  <2>. QED  BY ONLY <1>3, <1>5, <1>8, <2>1, MinLaw
<1>. QED  BY <1>7, <1>8

\* The steps other than calls and "next" leave honest and nxt alone, and old_mode but for two.
LEMMA LoopFrame ==
  ASSUME Next, pc = "run"
  PROVE  /\ S.op \notin Setters \union {"get", "next"} => honest' = honest
         /\ S.op # "next" => nxt' = nxt
         /\ S.op \notin {"old", "other"} => old_mode' = old_mode
         /\ S.op = "old" => old_mode' = node
         /\ S.op = "other" /\ Holds => old_mode' = node
<1>1. /\ S.op \notin Setters \union {"get", "next"} => honest' = honest
      /\ S.op # "next" => nxt' = nxt
  BY DEF Next, CheckMaxNode, create_node_mask, MmapBuf, MunmapBuf, PresetMask, TouchBuf, CallMbind, CallSet, Setters,
         CallGet, CheckAnswer, KeepOld, Reserve, MmapLarge, TouchLarge, Release, Teardown, Over, At, kernel, history
<1>2. S.op \notin {"old", "other"} => old_mode' = old_mode
  BY DEF Next, CheckMaxNode, create_node_mask, MmapBuf, MunmapBuf, PresetMask, TouchBuf, CallMbind, CallSet,
         CallGet, CheckAnswer, KeepOld, Reserve, MmapLarge, TouchLarge, Release, Teardown, Over, At, locals
<1>3. /\ S.op = "old" => old_mode' = node
      /\ S.op = "other" /\ Holds => old_mode' = node
  BY DEF Next, CheckMaxNode, create_node_mask, MmapBuf, MunmapBuf, PresetMask, TouchBuf, CallMbind, CallSet,
         CallGet, CheckAnswer, KeepOld, Reserve, MmapLarge, TouchLarge, Release, Teardown, Over, At
<1>. QED  BY <1>1, <1>2, <1>3

\* A dishonest kernel is found out by the next check of the loop.
LEMMA LoopStep ==
  ASSUME IInv, ShiftsFit, TestOK, Next, pc = "run" PROVE LoopInv'
<1>1. UNCHANGED chosen /\ Moves /\ Now = i /\ end = "none" /\ i \in 1..Len(T) /\ Len(T) \in Nat
  BY RunLaw DEF IInv, BasicInv, TestOK
<1>2. fault' = fault /\ test' = test
  BY <1>1, SameText
<1>. SUFFICES ASSUME end' # "ng" PROVE LoopInv'
  BY DEF LoopInv
<1>3. Now' = i + 1
  BY <1>1 DEF Moves
<1>. DEFINE Wait(n) == test = "get018" /\ n \in {12, 13, 18, 19, 24, 25}
            Even(n) == test = "get018" /\ n \in (9..11) \union (14..17) \union (20..23)
<1>4. /\ honest \/ (Wait(i) /\ nxt = old_mode)
      /\ Wait(i) /\ fault = "none" => nxt # old_mode
      /\ Even(i) => old_mode = nxt
  BY <1>1 DEF IInv, SureInv, LoopInv, Pending
<1>5. ASSUME honest' \/ (Wait(i + 1) /\ nxt' = old_mode'), Wait(i + 1) /\ fault = "none" => nxt' # old_mode',
             Even(i + 1) => old_mode' = nxt'
      PROVE  LoopInv'
  <2>1. test = "get018" /\ i + 1 > 6 => kern'.proc.mask = {0, 1}
    BY <1>1, TwoNodes
  <2>. QED  BY ONLY <1>2, <1>3, <1>5, <2>1 DEF LoopInv, Pending
<1>6. CASE test # "get018"
  <2>1. honest
    BY ONLY <1>4, <1>6
  <2>2. S.op # "next"
    BY <1>1, <1>6 DEF TestOK, ScopeOK, S, LoopOps
  <2>3. honest'
    BY <2>1, <2>2, HonestCall, LoopFrame
  <2>. QED  BY ONLY <1>5, <1>6, <2>3
<1>7. CASE test = "get018"
  <2>1. i \in 1..26
    BY <1>1, <1>7, Text018 DEF IInv
  <2>2. CASE i \in {12, 18, 24}
    <3>1. S.op = "get"
      BY <1>7, <2>2, Text018 DEF IInv, S
    <3>2. nxt' = nxt /\ old_mode' = old_mode /\ (honest => honest')
      BY <3>1, HonestCall, LoopFrame
    <3>3. i + 1 \in {13, 19, 25} /\ i \in {12, 13, 18, 19, 24, 25}
      BY <2>2
    <3>4. Wait(i) /\ Wait(i + 1) /\ ~Even(i + 1)
      BY ONLY <1>7, <3>3
    <3>. QED  BY ONLY <1>4, <1>5, <3>2, <3>4
  <2>3. CASE i \in {13, 19, 25}
    <3>1. S.op = "other" /\ node = nxt
      BY <1>7, <2>3, Text018, NodeIsNext DEF IInv, S
    <3>2. Holds
      BY <1>1, <3>1, WentOn DEF Checks
    <3>3. nxt # old_mode
      BY <3>1, <3>2 DEF Holds
    <3>4. nxt' = nxt /\ old_mode' = node /\ honest' = honest
      BY <3>1, <3>2, LoopFrame DEF Setters
    <3>5. i + 1 \in {14, 20, 26}
      BY <2>3
    <3>6. ~Wait(i + 1)
      BY ONLY <3>5
    <3>. QED  BY ONLY <1>4, <1>5, <3>1, <3>3, <3>4, <3>6
  <2>4. CASE i \in {11, 17, 23}
    <3>1. S.op = "next"
      BY <1>7, <2>4, Text018 DEF IInv, S
    <3>2. honest' = (honest /\ nxt' # nxt) /\ old_mode' = old_mode /\ (fault # "stuck" => nxt' # nxt)
      BY <1>7, <3>1, NextMoves
    <3>3. i + 1 \in {12, 18, 24} /\ i \in (9..11) \union (14..17) \union (20..23)
      BY <2>4
    <3>4. ~Wait(i) /\ Even(i) /\ Wait(i + 1) /\ ~Even(i + 1)
      BY ONLY <1>7, <2>4, <3>3
    <3>. QED  BY ONLY <1>4, <1>5, <3>2, <3>4
  <2>5. CASE i = 8
    <3>1. S.op = "old" /\ node = nxt
      BY <1>7, <2>5, Text018, NodeIsNext DEF IInv, S
    <3>2. nxt' = nxt /\ old_mode' = node /\ honest' = honest
      BY <3>1, LoopFrame DEF Setters
    <3>3. ~Wait(i) /\ ~Wait(i + 1)
      BY ONLY <2>5
    <3>. QED  BY ONLY <1>4, <1>5, <3>1, <3>2, <3>3
  <2>6. CASE i \in {9, 10, 14, 15, 16, 20, 21, 22, 26}
    <3>1. S.op \in {"reserve", "large", "release"}
      BY <1>7, <2>6, Text018 DEF IInv, S
    <3>2. nxt' = nxt /\ old_mode' = old_mode /\ honest' = honest
      BY <3>1, LoopFrame DEF Setters
    <3>3. ~Wait(i) /\ ~Wait(i + 1) /\ (Even(i + 1) => Even(i))
      BY ONLY <2>6
    <3>. QED  BY ONLY <1>4, <1>5, <3>2, <3>3
  <2>7. CASE i \in 1..7
    <3>1. S.op \notin {"next", "old", "other"}
      BY <1>7, <2>7, Text018 DEF IInv, S
    <3>2. nxt' = nxt /\ old_mode' = old_mode /\ (honest => honest')
      BY <3>1, HonestCall, LoopFrame
    <3>3. ~Wait(i) /\ ~Wait(i + 1) /\ ~Even(i + 1)
      BY ONLY <2>7
    <3>. QED  BY ONLY <1>4, <1>5, <3>2, <3>3
  <2>8. i \in {12, 18, 24} \union {13, 19, 25} \union {11, 17, 23} \union {8} \union {9, 10, 14, 15, 16, 20, 21, 22, 26} \union (1..7)
    BY ONLY <2>1
  <2>. QED  BY ONLY <2>2, <2>3, <2>4, <2>5, <2>6, <2>7, <2>8
<1>. QED  BY <1>6, <1>7

-----------------------------------------------------------------------------
(* On a good kernel *)

\* Every call of a test goes as it must.
LEMMA CallsWell ==
  ASSUME IInv, ShiftsFit, TestOK, pc = "run", fault = "none", test # "mbind027"
  PROVE  /\ S.op = "mbind" => AsWanted(MbindError(S, fault))
         /\ S.op = "set" => AsWanted(PolicyError(S, fault))
         /\ S.op = "get" => AsWanted(GetError(kern, S, fault))
<1>1. Now = i /\ end = "none" /\ i \in 1..Len(T) /\ Len(T) \in Nat
  BY DEF IInv, BasicInv, TestOK, Now
<1>2. ASSUME S.op \in {"mbind", "set", "get"} PROVE Suitable /\ CallOK(i) /\ S.want \in Wants
  <2>1. Suitable
    BY <1>2, NeedsMet DEF IInv
  <2>. QED  BY <1>1, <1>2, <2>1 DEF TestOK, StepOK, S, Setters
<1>3. ASSUME S.op \in {"mbind", "get"}, S.op = "get" => "ADDR" \in S.flags PROVE buf # "failed"
  <2>1. test # "get018"
    BY <1>1, <1>3 DEF TestOK, ScopeOK, S
  <2>2. Now = 1 => T[1].op # "map"
    BY <1>1, <1>3 DEF S
  <2>. QED  BY <1>1, <2>1, <2>2 DEF IInv, HeldInv
<1>4. kern = due
  BY DEF IInv, KernelInv, StoreFaults
<1>5. CASE S.op = "mbind"
  <2>1. CASE S.want = "ok"
    BY <1>2, <1>3, <1>5, <2>1 DEF CallOK, S, AsWanted
  <2>2. CASE S.want # "ok"
    <3>1. S.want # "notEIO" /\ Promised(S, MbindError(S, "none"))
      BY <1>2, <1>5, <2>2 DEF CallOK, S
    <3>2. MbindError(S, fault) = MbindError(S, "none")
      OBVIOUS
    <3>3. AsWanted(MbindError(S, fault))
      BY ONLY <2>2, <3>1, <3>2 DEF Promised, AsWanted
    <3>. QED  BY <1>5, <3>3
  <2>. QED  BY <1>5, <2>1, <2>2
<1>6. CASE S.op = "set"
  <2>1. S.want # "notEIO" /\ IF S.want = "ok" THEN PolicyError(S, "none") = "0" ELSE Promised(S, PolicyError(S, "none"))
    BY <1>2, <1>6 DEF CallOK, S
  <2>. QED  BY <1>6, <2>1 DEF Promised, AsWanted
<1>7. CASE S.op = "get"
  <2>1. /\ S.want = "ok" /\ ("ADDR" \in S.flags => buf # "failed") => GetError(due, S, "none") = "0"
        /\ S.want # "ok" => S.want \notin {"notEIO", "fails"} /\ GetError(due, S, "none") = S.want
    BY <1>7, GoodGet
  <2>2. "ADDR" \in S.flags => buf # "failed"
    BY <1>3, <1>7
  <2>3. GetError(kern, S, fault) = GetError(due, S, "none")
    BY <1>4
  <2>. QED  BY <1>7, <2>1, <2>2, <2>3 DEF AsWanted
<1>. QED  BY <1>5, <1>6, <1>7

\* Every check holds.
LEMMA ChecksWell ==
  ASSUME IInv, ShiftsFit, TestOK, pc = "run", fault = "none", S.op \in Checks PROVE Holds
<1>1. Now = i /\ end = "none" /\ i \in 1..Len(T) /\ Len(T) \in Nat
  BY DEF IInv, BasicInv, TestOK, Now
<1>2. Suitable
  BY NeedsMet DEF IInv, Checks
<1>3. kern = due
  BY DEF IInv, KernelInv, StoreFaults
<1>4. CASE S.op = "mapped"
  <2>1. test # "get018"
    BY <1>1, <1>4 DEF TestOK, ScopeOK, S
  <2>2. Now = 1 => T[1].op # "map"
    BY <1>1, <1>4 DEF S
  <2>3. buf # "failed"
    BY <1>1, <2>1, <2>2 DEF IInv, HeldInv
  <2>. QED  BY <1>4, <2>3 DEF Holds
<1>. DEFINE g == T[GetOf(i)]
<1>5. CASE S.op \in {"mode", "word0", "zero", "full"} /\ Looks(g)
  <2>1. Finds(S, Slot(kern, g.at))
    BY <1>2, <1>3, <1>5, DueFinds
  <2>. QED  BY <1>2, <1>5, <2>1, ShowsKept
<1>6. CASE S.op \in {"mode", "word0", "zero", "full"} /\ ~Looks(g)
  <2>1. CheckOK(i)
    BY <1>1, <1>2 DEF TestOK
  <2>2. S.op = "full" /\ g.flags = {"MEMS_ALLOWED"}
    BY <1>6, <2>1 DEF CheckOK, S
  <2>3. /\ GetOf(i) \in 1..i /\ g.op = "get" /\ g.want = "ok" /\ g.nm /\ Got(g)
    BY <1>2, <1>6, <2>2, CheckedGet
  <2>. DEFINE W == Written(g, fault)
  <2>4. Answer(kern, g, fault).mask = Nodes
    BY <2>2 DEF Answer, D
  <2>5. node_mask \intersect W = Nodes \intersect W
    BY <2>3, <2>4 DEF Got
  <2>6. W = 0..(words.node_mask * BITS_PER_LONG - 1) /\ Nodes \subseteq W
    BY <1>2, <2>3, WrittenLaw DEF IInv
  <2>7. node_mask \subseteq 0..(words.node_mask * BITS_PER_LONG - 1)
    BY DEF IInv, MaskInv
  <2>. HIDE DEF W
  <2>8. node_mask = Nodes
    BY ONLY <2>5, <2>6, <2>7
  <2>9. node_mask_check(words.node_mask, S.bits)
    BY <1>2, <2>2, <2>8, FullMask DEF IInv
  <2>. QED  BY <2>2, <2>9 DEF Holds
<1>7. CASE S.op = "node"
  <2>1. i > 1 /\ T[i - 1].op = "get" /\ T[i - 1].flags = {"ADDR", "NODE"} /\ T[i - 1].want = "ok" /\ max_node > 0
    BY <1>1, <1>2, <1>7 DEF TestOK, ScopeOK, S
  <2>2. Got(T[i - 1])
    BY <1>1, <2>1 DEF IInv, ReadInv
  <2>3. node \in Nodes
    BY <2>1, <2>2 DEF Got
  <2>. QED  BY <1>7, <2>1, <2>3 DEF Holds, Nodes
<1>8. CASE S.op = "other"
  <2>1. test = "get018" /\ i \in {13, 19, 25}
    <3>1. test = "get018"
      BY <1>1, <1>8 DEF TestOK, ScopeOK, S, LoopOps
    <3>2. i \in 1..26
      BY <1>1, <3>1, Text018 DEF IInv
    <3>. QED  BY <1>8, <3>1, <3>2, Text018 DEF IInv, S
  <2>2. node = nxt
    BY <2>1, NodeIsNext
  <2>3. nxt # old_mode
    BY <1>1, <2>1 DEF IInv, SureInv, LoopInv, Pending
  <2>. QED  BY <1>8, <2>2, <2>3 DEF Holds
<1>. QED  BY <1>4, <1>5, <1>6, <1>7, <1>8 DEF Checks

\* So only a check of max_node stops a test.
LEMMA FlakeStep ==
  ASSUME IInv, ShiftsFit, TestOK, Next, pc = "run" PROVE FlakeInv'
<1>1. UNCHANGED chosen /\ Now = i /\ end = "none" /\ i \in 1..Len(T) /\ DOMAIN T = 1..Len(T)
  BY RunLaw DEF IInv, BasicInv, TestOK
<1>2. fault' = fault /\ test' = test /\ (Suitable' <=> Suitable)
  BY <1>1, SameText
<1>. SUFFICES ASSUME fault = "none", end' = "ng", test # "mbind027" PROVE ~Suitable
  BY <1>2 DEF FlakeInv
<1>3. CASE CheckMaxNode
  <2>1. S.op = "need" /\ ~(max_node >= S.k)
    BY <1>1, <1>3 DEF CheckMaxNode, At, Assert
  <2>. QED  BY <1>1, <2>1 DEF Suitable, S
<1>4. ~(create_node_mask \/ MmapBuf \/ MunmapBuf \/ PresetMask \/ TouchBuf)
  BY <1>1 DEF create_node_mask, MmapBuf, MunmapBuf, PresetMask, TouchBuf, Assert
<1>5. ~(KeepOld \/ Reserve \/ MmapLarge \/ TouchLarge \/ Release)
  BY <1>1 DEF KeepOld, Reserve, MmapLarge, TouchLarge, Release, Assert
<1>6. ~CallMbind
  <2>1. CallMbind => S.op = "mbind" /\ ~AsWanted(MbindError(S, fault))
    BY <1>1 DEF CallMbind, At, Assert
  <2>. QED  BY <2>1, CallsWell
<1>7. ~CallSet
  <2>1. CallSet => S.op = "set" /\ ~AsWanted(PolicyError(S, fault))
    BY <1>1 DEF CallSet, At, Assert
  <2>. QED  BY <2>1, CallsWell
<1>8. ~CallGet
  <2>1. CallGet => S.op = "get" /\ ~AsWanted(GetError(kern, S, fault))
    BY <1>1 DEF CallGet, At, Assert
  <2>. QED  BY <2>1, CallsWell
<1>9. ~CheckAnswer
  <2>1. CheckAnswer => S.op \in Checks /\ ~Holds
    BY <1>1 DEF CheckAnswer, Assert, Checks
  <2>. QED  BY <2>1, ChecksWell
<1>. QED  BY <1>3, <1>4, <1>5, <1>6, <1>7, <1>8, <1>9 DEF Next, Teardown, Over

-----------------------------------------------------------------------------
(* The invariant *)

\* A call that goes through looks at a page of buf or at the process.
LEMMA LookedStep ==
  ASSUME IInv, TestOK, Next, pc = "run" PROVE LookedInv'
<1>1. i \in 1..Len(T) /\ LookedInv
  BY DEF IInv, BasicInv
<1>2. CASE S.op = "get"
  <2>1. \/ looked' = looked
        \/ GetError(kern, S, fault) = "0" /\ S.flags \subseteq {"ADDR"} /\ looked' = looked \union {S.at}
    BY <1>2, ActionOf DEF CallGet
  <2>2. S.at \in Slots \union {WILDADDR} /\ (S.at = WILDADDR => "ADDR" \in S.flags)
    BY <1>1, <1>2 DEF S, TestOK, StepOK
  <2>3. GetError(kern, S, fault) = "0" /\ "ADDR" \in S.flags => S.at # WILDADDR
    BY DEF GetError, WILDADDR
  <2>. QED  BY <1>1, <2>1, <2>2, <2>3 DEF LookedInv, Slots
<1>3. CASE S.op # "get"
  <2>1. looked' \subseteq looked
    BY <1>3 DEF Next, CheckMaxNode, create_node_mask, MmapBuf, MunmapBuf, PresetMask, TouchBuf, CallMbind, CallSet,
        CallGet, CheckAnswer, KeepOld, Reserve, MmapLarge, TouchLarge, Release, Teardown, Over, history, At
  <2>. QED  BY <1>1, <2>1 DEF LookedInv, Slots
<1>. QED  BY <1>2, <1>3

\* It holds when a test starts.
LEMMA InitInv == ASSUME Init PROVE IInv
<1>1. max_node \in MaxNodes /\ fault \in {"none"} \union Faults /\ test \in DOMAIN Suite(0) /\ T = Suite(max_node)[test]
  BY CasesAssumption DEF Init
<1>2. TestOK
  BY <1>1, SuiteOK
<1>3. Len(T) \in Nat \ {0} /\ DOMAIN T = 1..Len(T)
  BY <1>2 DEF TestOK
<1>4. i = 1 /\ pc = "run" /\ end = "none" /\ Now = 1
  BY DEF Init, Now
<1>5. BasicInv
  BY <1>1, <1>3, <1>4 DEF BasicInv
<1>6. max_node \in Nat
  BY <1>1, NodeCount
<1>7. 0 \in Nodes /\ Cardinality(Nodes) \in Nat
  BY <1>6, NodesLaw
<1>8. kern = [pol |-> [p \in Page |-> D], proc |-> D] /\ due = kern
  BY DEF Init
<1>9. \A p \in Slots : Slot(kern, p) = D
  BY <1>8 DEF Slot, Slots
<1>10. KernelInv
  <2>1. D \in Policies /\ D.mask = {}
    BY DEF D, Policies, Modes
  <2>. QED  BY <1>8, <1>9, <2>1 DEF KernelInv
<1>11. MaskInv
  BY <1>4, <1>7, Widths DEF MaskInv, Init
<1>12. HeldInv
  <2>1. ASSUME test # "get018", T[1].op # "map" PROVE buf # "failed"
    <3>1. ~Uses("map")
      BY <1>2, <1>3, <2>1 DEF Uses, TestOK, OrderOK
    <3>2. ~Uses("reserve")
      BY <1>2, <1>3, <2>1 DEF Uses, TestOK, ScopeOK, LoopOps
    <3>. QED  BY <3>1, <3>2 DEF Init
  <2>. QED  BY <1>4, <2>1 DEF HeldInv, Init
<1>13. NeedInv /\ DueInv
  BY <1>4, <1>8, <1>9 DEF NeedInv, DueInv
<1>14. ReadInv
  BY <1>4 DEF ReadInv
<1>15. SeenInv
  <2>1. kern.proc.mask = {} /\ looked = {} /\ 1..(Now - 1) = {} /\ ~(Now > 2) /\ Now # Len(T) + 1
    BY <1>3, <1>4, <1>8 DEF D, Init
  <2>. QED  BY ONLY <1>9, <2>1 DEF SeenInv
<1>16. LoopInv /\ FlakeInv /\ LookedInv
  BY <1>4 DEF LoopInv, Pending, FlakeInv, LookedInv, Init
<1>. QED  BY <1>5, <1>10, <1>11, <1>12, <1>13, <1>14, <1>15, <1>16 DEF IInv, SureInv

\* TEARDOWN_FUNC() touches none of it but what is held.
LEMMA EndInv ==
  ASSUME IInv, (Next /\ pc # "run") \/ UNCHANGED vars PROVE IInv'
<1>1. /\ UNCHANGED <<chosen, kernel, locals, i, end, history>> /\ Now' = Now
      /\ Teardown \/ UNCHANGED <<held, pc>>
  BY DoneLaw
<1>2. /\ T' = T /\ test' = test /\ max_node' = max_node /\ fault' = fault /\ Nodes' = Nodes
      /\ Cardinality(Nodes)' = Cardinality(Nodes) /\ Policies' = Policies /\ (Suitable' <=> Suitable) /\ (ShiftsFit' <=> ShiftsFit)
      /\ \A k, p : Untouched(k, p)' <=> Untouched(k, p)
      /\ \A k, p, j : LastCover(k, p, j)' <=> LastCover(k, p, j)
      /\ \A k : GetOf(k)' = GetOf(k)
  BY <1>1, SameText
<1>3. /\ kern' = kern /\ nxt' = nxt /\ node_mask' = node_mask /\ words' = words /\ mode' = mode /\ node' = node
      /\ old_mode' = old_mode /\ buf' = buf /\ reserve' = reserve /\ i' = i /\ end' = end
      /\ due' = due /\ honest' = honest /\ looked' = looked
  BY <1>1 DEF kernel, locals, history
<1>4. TestOK
  BY SuiteOK DEF IInv, BasicInv
<1>5. BasicInv'
  <2>1. pc' = pc \/ (pc = "teardown" /\ pc' = "over")
    BY <1>1 DEF Teardown
  <2>. QED  BY <1>2, <1>3, <2>1 DEF IInv, BasicInv
<1>6. KernelInv'
  BY <1>2, <1>3 DEF IInv, KernelInv, Slot
<1>7. MaskInv'
  BY <1>1, <1>2, <1>3 DEF IInv, MaskInv
<1>8. HeldInv'
  <2>1. CASE Teardown
    BY <1>4, <2>1, TeardownHeld
  <2>2. CASE UNCHANGED <<held, pc>>
    BY <1>1, <1>2, <1>3, <2>2 DEF IInv, HeldInv, Released
  <2>. QED  BY <1>1, <2>1, <2>2
<1>9. NeedInv'
  BY <1>1, <1>2 DEF IInv, NeedInv
<1>10. ASSUME ShiftsFit PROVE DueInv'
  <2>1. \A j : Policy(T[j])' = Policy(T[j])
    BY <1>2 DEF Policy, Effective
  <2>2. \A p : (Untouched(Now, p)' <=> Untouched(Now, p)) /\ \A j : (LastCover(Now, p, j)' <=> LastCover(Now, p, j))
    BY <1>1, <1>2 DEF Untouched, LastCover
  <2>. QED  BY <1>1, <1>2, <1>3, <1>10, <2>1, <2>2 DEF IInv, SureInv, DueInv, Slot
<1>11. ReadInv'
  <2>1. PICK k : k = Now
    OBVIOUS
  <2>2. Got(T[k - 1])' <=> Got(T[k - 1])
    BY <1>2, <1>3 DEF Got, Answer, Written
  <2>3. Got(T[k - 2])' <=> Got(T[k - 2])
    BY <1>2, <1>3 DEF Got, Answer, Written
  <2>. QED  BY <1>1, <1>2, <1>3, <2>1, <2>2, <2>3 DEF IInv, ReadInv
<1>12. ASSUME ShiftsFit PROVE SeenInv'
  <2>1. \A c : Quiet(c)' <=> Quiet(c)
    BY <1>1, <1>2 DEF Quiet
  <2>2. \A c : Shown(c)' <=> Shown(c)
    BY <1>2, <1>3 DEF Shown, Slot, Finds
  <2>. QED  BY <1>1, <1>2, <1>3, <1>12, <2>1, <2>2 DEF IInv, SureInv, SeenInv, Slot
<1>13. ASSUME ShiftsFit PROVE LoopInv' /\ FlakeInv'
  BY <1>1, <1>2, <1>3, <1>13 DEF IInv, SureInv, LoopInv, Pending, FlakeInv
<1>14. LookedInv'
  BY <1>3 DEF IInv, LookedInv
<1>. QED  BY <1>5, <1>6, <1>7, <1>8, <1>9, <1>10, <1>11, <1>12, <1>13, <1>14, <1>2 DEF IInv, SureInv

\* Every step keeps it.
LEMMA NextInv == IInv /\ [Next]_vars => IInv'
<1>. SUFFICES ASSUME IInv, [Next]_vars PROVE IInv'
  OBVIOUS
<1>1. TestOK
  BY SuiteOK DEF IInv, BasicInv
<1>2. CASE Next /\ pc = "run"
  <2>1. BasicInv'
    BY <1>1, <1>2, RunLaw DEF IInv
  <2>2. KernelInv' /\ MaskInv' /\ HeldInv' /\ NeedInv' /\ ReadInv' /\ LookedInv'
    BY <1>1, <1>2, KernelStep, MaskStep, HeldStep, NeedStepLaw, ReadStep, LookedStep
  <2>3. ASSUME ShiftsFit PROVE SureInv'
    BY <1>1, <1>2, <2>3, DueStep, SeenStep, LoopStep, FlakeStep DEF SureInv
  <2>4. ShiftsFit' <=> ShiftsFit
    BY <1>1, <1>2, RunLaw, SameText DEF IInv
  <2>. QED  BY <2>1, <2>2, <2>3, <2>4 DEF IInv
<1>3. CASE (Next /\ pc # "run") \/ UNCHANGED vars
  BY <1>3, EndInv
<1>. QED  BY <1>2, <1>3

\* What a test knows of the kernel and of its own masks and mappings, at every step
THEOREM Invariant == Spec => []IInv
  BY InitInv, NextInv, PTL DEF Spec

-----------------------------------------------------------------------------
(* What the tests promise *)

\* Every variable keeps its type, whatever the kernel gets wrong: node_mask keeps within its
\* words, and the policies within the nodes that exist.
THEOREM TypeCorrect == Spec => []TypeOK
<1>1. ASSUME IInv PROVE TypeOK
  <2>1. \A p \in Page : kern.pol[p].mask \subseteq Nodes /\ due.pol[p].mask \subseteq Nodes
    BY <1>1 DEF IInv, KernelInv, Policies
  <2>2. buf \in {"stack", "mapped", "failed"} /\ reserve \in {"mapped", "failed"}
    BY <1>1 DEF IInv, HeldInv
  <2>3. node_mask \subseteq 0..(words.node_mask * BITS_PER_LONG - 1) /\ node \in -1..Cardinality(Nodes)
    BY <1>1 DEF IInv, MaskInv
  <2>4. looked \subseteq Page \union {PROC}
    BY <1>1 DEF IInv, LookedInv, Slots
  <2>. QED  BY <1>1, <2>1, <2>2, <2>3, <2>4 DEF IInv, BasicInv, TypeOK
<1>. QED  BY <1>1, Invariant, PTL

\* get_mempolicy(), mbind() and set_mempolicy() are never given a maxnode that reaches past the
\* words that create_node_mask() has given the mask, for any number of nodes and any width of a word.
THEOREM MasksFit == Spec => []MaskFits
<1>1. ASSUME IInv, pc = "run", S.op = "get", S.nm PROVE S.maxnode <= words.node_mask * BITS_PER_LONG
  <2>1. TestOK
    BY <1>1, SuiteOK DEF IInv, BasicInv
  <2>2. Suitable
    BY <1>1, <2>1, NeedsMet DEF IInv
  <2>3. i \in 1..i /\ S = T[i]
    BY <1>1, <2>1 DEF IInv, BasicInv, TestOK, S
  <2>. QED  BY <1>1, <2>1, <2>2, <2>3, WrittenLaw DEF IInv
<1>2. ASSUME IInv, pc = "run", S.op \in Setters, S.mask # NULL PROVE S.maxnode - 1 <= words.arg_mask * BITS_PER_LONG
  <2>1. TestOK
    BY <1>2, SuiteOK DEF IInv, BasicInv
  <2>2. i \in 1..Len(T) /\ Now = i /\ Len(T) \in Nat
    BY <1>2, <2>1 DEF IInv, BasicInv, TestOK, Now
  <2>3. S.maxnode \in Nat /\ ArgFits(i)
    BY <1>2, <2>1, <2>2 DEF TestOK, MasksOK, StepOK, PolicyStep, S
  <2>4. words.arg_mask \in Nat \ {0}
    BY <1>2 DEF IInv, MaskInv
  <2>5. BITS_PER_LONG <= words.arg_mask * BITS_PER_LONG /\ words.arg_mask * BITS_PER_LONG \in Nat
    BY <2>4, Widths
  <2>6. CASE S.maxnode - 1 <= BITS_PER_LONG
    BY ONLY <2>3, <2>5, <2>6, Widths
  <2>7. CASE \E a \in 1..(i - 1) : T[a].op = "alloc" /\ T[a].name = "arg_mask" /\ T[i].maxnode - 1 <= T[a].bits
    <3>1. PICK a \in 1..(i - 1) : T[a].op = "alloc" /\ T[a].name = "arg_mask" /\ S.maxnode - 1 <= T[a].bits
      BY <2>7 DEF S
    <3>2. T[a].bits \in Nat
      BY <2>1, <2>2, <3>1 DEF TestOK, StepOK
    <3>3. words.arg_mask = Words(T[a].bits)
      BY <1>2, <2>2, <3>1 DEF IInv, MaskInv
    <3>4. T[a].bits <= words.arg_mask * BITS_PER_LONG
      BY <3>2, <3>3, WordsLaw
    <3>. QED  BY ONLY <2>3, <2>5, <3>1, <3>2, <3>4
  <2>. QED  BY <2>3, <2>6, <2>7 DEF ArgFits, S
<1>3. ASSUME IInv PROVE MaskFits
  BY <1>1, <1>2, <1>3 DEF MaskFits, Setters
<1>. QED  BY <1>3, Invariant, PTL

\* Whatever fails on the way, TEARDOWN_FUNC() leaves no mask and no mapping behind, but for the
\* reservation of get_mempolicy 018 stopped in its loop.
THEOREM NothingLeft == Spec => []Released
<1>1. ASSUME IInv PROVE Released
  BY <1>1 DEF IInv, HeldInv, Released
<1>. QED  BY <1>1, Invariant, PTL

\* A test that ends well has gone through all of its checks of max_node.
LEMMA EndSuits == ASSUME IInv, end = "ok" PROVE Suitable /\ TestOK /\ Now = Len(T) + 1 /\ Len(T) \in Nat \ {0} /\ DOMAIN T = 1..Len(T)
<1>1. TestOK
  BY SuiteOK DEF IInv, BasicInv
<1>2. Now = Len(T) + 1 /\ Len(T) \in Nat \ {0} /\ DOMAIN T = 1..Len(T) /\ 1..(Now - 1) = 1..Len(T)
  BY <1>1 DEF Now, TestOK
<1>. QED  BY <1>1, <1>2 DEF IInv, NeedInv, Suitable

\* On a good kernel a test passes just when the machine has the nodes it asks for; the strict call
\* of mbind 027, which no good kernel lets pass, is the one exception, and the four tests that call
\* node_mask_check() where its shift cannot count the nodes.
THEOREM NoFalseAlarm == Spec => [](test # "mbind027" => NoFlake)
<1>1. ASSUME IInv PROVE test # "mbind027" => NoFlake
  <2>1. end = "ok" => Suitable
    BY <1>1, EndSuits
  <2>2. end \in {"none", "ok", "ng"}
    BY <1>1 DEF IInv, BasicInv
  <2>3. ShiftsFit /\ fault = "none" /\ end = "ng" /\ test # "mbind027" => ~Suitable
    BY <1>1 DEF IInv, SureInv, FlakeInv
  <2>. QED  BY ONLY <2>1, <2>2, <2>3 DEF NoFlake
<1>. QED  BY <1>1, Invariant, PTL

\* A check behind the last call tells what a good kernel holds in the end, and what this one holds.
LEMMA ChecksLast ==
  ASSUME IInv, ShiftsFit, end = "ok", fault \in StoreFaults, NEW c \in 1..Len(T),
         T[c].op \in {"mode", "word0", "zero", "full"}, T[c].op = "full" => Looks(T[GetOf(c)]),
         \A l \in 1..Len(T) : T[l].op \in Setters => l < c
  PROVE  Finds(T[c], Slot(kern, T[GetOf(c)].at)) /\ Finds(T[c], Slot(due, T[GetOf(c)].at))
<1>. DEFINE g == T[GetOf(c)]
<1>1. Suitable /\ TestOK /\ Now = Len(T) + 1 /\ Len(T) \in Nat \ {0}
  BY EndSuits
<1>2. CheckOK(c)
  BY <1>1 DEF TestOK
<1>3. ~(T[c].op = "full" /\ g.flags = {"MEMS_ALLOWED"})
  BY DEF Looks
<1>4. /\ c > 1 /\ (T[c - 1].op = "get" \/ (c > 2 /\ T[c - 1].op = "mode" /\ T[c - 2].op = "get"))
      /\ g.want = "ok" /\ Looks(g)
      /\ \/ Untouched(c, g.at) /\ Finds(T[c], D)
         \/ \E j \in 1..(c - 1) : LastCover(c, g.at, j) /\ Finds(T[c], Policy(T[j]))
  BY <1>2, <1>3 DEF CheckOK
<1>5. g.at \in Slots
  <2>1. GetOf(c) \in 1..Len(T)
    BY <1>1, <1>4 DEF GetOf
  <2>2. StepOK(g)
    BY <1>1, <2>1 DEF TestOK
  <2>. QED  BY <1>4, <2>2 DEF StepOK
<1>. HIDE DEF g
<1>6. Quiet(c)
  <2>1. \A l \in c..(Now - 1) : l \in 1..Len(T) /\ ~(l < c)
    BY <1>1
  <2>. QED  BY <2>1 DEF Quiet
<1>7. Finds(T[c], Slot(kern, g.at))
  <2>1. Shown(c)
    BY <1>1, <1>6 DEF IInv, SureInv, SeenInv
  <2>. QED  BY <1>4, <2>1 DEF Shown, g
<1>8. \A p : \A l \in 1..Len(T) : Covers(T[l], p) => l < c
  BY DEF Covers
<1>9. /\ Untouched(Now, g.at) => Slot(due, g.at) = D
      /\ \A j \in 1..Len(T) : LastCover(Now, g.at, j) => Slot(due, g.at) = Policy(T[j])
  <2>1. 1..(Now - 1) = 1..Len(T)
    BY <1>1
  <2>. QED  BY <1>5, <2>1 DEF IInv, SureInv, DueInv
<1>10. CASE Untouched(c, g.at) /\ Finds(T[c], D)
  <2>1. ASSUME NEW l \in 1..(Now - 1) PROVE ~Covers(T[l], g.at)
    <3>1. l \in 1..Len(T) /\ (l < c => l \in 1..(c - 1))
      BY <1>1
    <3>. QED  BY <1>8, <1>10, <3>1 DEF Untouched
  <2>2. Untouched(Now, g.at)
    BY <2>1 DEF Untouched
  <2>. QED  BY <1>7, <1>9, <1>10, <2>2 DEF g
<1>11. CASE \E j \in 1..(c - 1) : LastCover(c, g.at, j) /\ Finds(T[c], Policy(T[j]))
  <2>1. PICK j \in 1..(c - 1) : LastCover(c, g.at, j) /\ Finds(T[c], Policy(T[j]))
    BY <1>11
  <2>2. j \in 1..Len(T)
    BY <1>1
  <2>3. ASSUME NEW l \in (j + 1)..(Now - 1) PROVE ~Covers(T[l], g.at)
    <3>1. l \in 1..Len(T) /\ (l < c => l \in (j + 1)..(c - 1))
      BY <1>1
    <3>. QED  BY <1>8, <2>1, <3>1 DEF LastCover
  <2>4. LastCover(Now, g.at, j)
    BY <2>1, <2>3 DEF LastCover
  <2>. QED  BY <1>7, <1>9, <2>1, <2>2, <2>4 DEF g
<1>. QED  BY <1>4, <1>10, <1>11

\* A policy that a passing test has looked at is what the calls of the test make it.
LEMMA LookedIsDue ==
  ASSUME IInv, ShiftsFit, end = "ok", NEW p \in looked PROVE Slot(kern, p) = Slot(due, p)
<1>1. Suitable /\ TestOK /\ Now = Len(T) + 1 /\ Len(T) \in Nat \ {0}
  BY EndSuits
<1>2. CASE fault \notin StoreFaults
  BY <1>2 DEF IInv, KernelInv
<1>3. PICK k \in 1..Len(T) : Looks(T[k]) /\ T[k].want = "ok" /\ T[k].at = p
  <2>1. 1..(Now - 1) = 1..Len(T)
    BY <1>1
  <2>. QED  BY <2>1 DEF IInv, SureInv, SeenInv
<1>4. p \in Slots /\ Slot(kern, p) \in Policies /\ Slot(due, p) \in Policies
  <2>1. p \in Slots
    BY DEF IInv, LookedInv
  <2>. QED  BY <2>1 DEF IInv, KernelInv, Slot, Slots
<1>5. ASSUME Slot(kern, p).mode = Slot(due, p).mode, Slot(kern, p).mask = Slot(due, p).mask
      PROVE  Slot(kern, p) = Slot(due, p)
  BY <1>4, <1>5 DEF Policies
<1>6. CASE fault \in StoreFaults /\ test = "get011"
  <2>1. /\ Len(T) = 4 /\ (\A l \in 1..4 : T[l].op \in Setters => l = 2) /\ T[2].op = "mbind" /\ T[2].at = 0 /\ T[2].len = 1
        /\ T[2].mode = {"BIND", "STATIC"} /\ T[2].mask = {1} /\ T[2].maxnode = BITS_PER_LONG /\ T[2].want = "ok"
    BY <1>6, Text011 DEF IInv
  <2>2. T[3].op = "get" /\ T[3].at = 0 /\ T[4].op = "mode" /\ T[4].mode = {"BIND", "STATIC"} /\ k = 3
    <3>1. T = Get011(max_node)
      BY <1>6 DEF IInv, BasicInv, Suite
    <3>2. T[1].op = "need" /\ T[2].op = "mbind" /\ T[3].op = "get" /\ T[3].at = 0 /\ T[4].op = "mode" /\ T[4].mode = {"BIND", "STATIC"}
      BY ONLY <3>1 DEF Get011, Need, Mbind, Get, ModeIs
    <3>3. k \in 1..4 /\ T[k].op = "get"
      BY <1>3, <2>1 DEF Looks
    <3>. QED  BY ONLY <3>2, <3>3
  <2>3. p = 0 /\ GetOf(4) = 3
    BY <1>3, <2>2 DEF GetOf
  <2>4. Finds(T[4], Slot(kern, 0)) /\ Finds(T[4], Slot(due, 0))
    BY <1>6, <2>1, <2>2, <2>3, ChecksLast
  <2>5. Slot(kern, p).mode = {"BIND", "STATIC"} /\ Slot(due, p).mode = {"BIND", "STATIC"}
    BY <2>2, <2>3, <2>4 DEF Finds
  <2>6. Slot(kern, p).mask = {1}
    <3>1. Slot(kern, p) = kern.pol[0]
      BY <2>3 DEF Slot, PROC
    <3>. QED  BY <1>1, <1>6, <2>1, <2>5, <3>1 DEF IInv, SureInv, SeenInv
  <2>7. Slot(due, p).mask = {1}
    <3>1. Slot(due, p) = Policy(T[2])
      <4>1. LastCover(Now, p, 2) /\ 2 \in 1..(Now - 1)
        BY <1>1, <2>1, <2>3 DEF LastCover, Covers, Setters
      <4>. QED  BY <1>4, <4>1 DEF IInv, SureInv, DueInv
    <3>2. Effective(T[2], "none") = {1}
      <4>1. max_node >= 2 /\ max_node \in Nat
        <5>1. T[1].op = "need" /\ T[1].k = 2 /\ 1 \in 1..(Now - 1)
          BY <1>1, <1>6, Text011 DEF IInv
        <5>. QED  BY <5>1, NodeCount DEF IInv, NeedInv, BasicInv
      <4>2. Nodes \intersect ({1} \intersect 0..(BITS_PER_LONG - 2)) = {1} /\ {1} # NULL
        BY <4>1, MaskCuts DEF NULL
      <4>. QED  BY ONLY <2>1, <4>2 DEF Effective
    <3>. QED  BY ONLY <2>1, <3>1, <3>2 DEF Policy
  <2>. QED  BY <1>5, <2>5, <2>6, <2>7
<1>7. CASE fault \in StoreFaults /\ test = "set001"
  <2>1. /\ Len(T) = 4 /\ (\A l \in 1..4 : T[l].op \in Setters => l = 2)
        /\ T[2].op = "set" /\ T[2].mode = {"DEFAULT"} /\ T[2].mask = NULL /\ T[2].want = "ok"
        /\ T[3].op = "get" /\ T[3].at = NOADDR /\ T[4].op = "mode" /\ T[4].mode = {"DEFAULT"}
    BY <1>7, Text001 DEF IInv
  <2>2. k = 3
    <3>1. T = Set001(max_node)
      BY <1>7 DEF IInv, BasicInv, Suite
    <3>2. T[1].op = "need"
      BY ONLY <3>1 DEF Set001, Need, Set, Get, ModeIs
    <3>3. k \in 1..4 /\ T[k].op = "get"
      BY <1>3, <2>1 DEF Looks
    <3>. QED  BY ONLY <2>1, <3>2, <3>3
  <2>3. p = PROC /\ GetOf(4) = 3
    BY <1>3, <2>1, <2>2 DEF GetOf, NOADDR, PROC
  <2>4. Finds(T[4], Slot(kern, PROC)) /\ Finds(T[4], Slot(due, PROC))
    BY <1>7, <2>1, <2>2, <2>3, ChecksLast, <1>3
  <2>5. Slot(kern, p).mode = {"DEFAULT"} /\ Slot(due, p).mode = {"DEFAULT"}
    BY <2>1, <2>3, <2>4 DEF Finds
  <2>6. Slot(kern, p).mask = {}
    BY <1>7, <2>3 DEF IInv, SureInv, SeenInv, Slot
  <2>7. Slot(due, p).mask = {}
    <3>1. Slot(due, p) = Policy(T[2])
      <4>1. LastCover(Now, p, 2) /\ 2 \in 1..(Now - 1)
        BY <1>1, <2>1, <2>3 DEF LastCover, Covers, Setters
      <4>. QED  BY <1>4, <4>1 DEF IInv, SureInv, DueInv
    <3>. QED  BY ONLY <2>1, <3>1 DEF Policy, Effective
  <2>. QED  BY <1>5, <2>5, <2>6, <2>7
<1>8. CASE fault \in StoreFaults /\ test \notin {"get011", "set001"}
  <2>1. Confirmed(k)
    BY <1>1 DEF TestOK
  <2>2. \/ \A l \in 1..Len(T) : T[l].op \notin Setters
        \/ \E c, b \in 1..Len(T) :
             /\ T[c].op = "mode" /\ T[GetOf(c)].at = p
             /\ T[b].op \in {"word0", "zero", "full"} /\ T[GetOf(b)].at = p /\ Looks(T[GetOf(b)])
             /\ \A l \in 1..Len(T) : T[l].op \in Setters => l < c /\ l < b
    BY <1>3, <1>8, <2>1 DEF Confirmed
  <2>3. CASE \A l \in 1..Len(T) : T[l].op \notin Setters
    <3>1. \A l \in 1..(Now - 1) : T[l].op \notin Setters
      BY <1>1, <2>3
    <3>2. Quiet(1) /\ Untouched(Now, p)
      BY <3>1 DEF Quiet, Untouched, Covers
    <3>. QED  BY <1>4, <3>2 DEF IInv, SureInv, SeenInv, DueInv
  <2>4. CASE \E c, b \in 1..Len(T) :
             /\ T[c].op = "mode" /\ T[GetOf(c)].at = p
             /\ T[b].op \in {"word0", "zero", "full"} /\ T[GetOf(b)].at = p /\ Looks(T[GetOf(b)])
             /\ \A l \in 1..Len(T) : T[l].op \in Setters => l < c /\ l < b
    <3>1. PICK c \in 1..Len(T), b \in 1..Len(T) :
             /\ T[c].op = "mode" /\ T[GetOf(c)].at = p
             /\ T[b].op \in {"word0", "zero", "full"} /\ T[GetOf(b)].at = p /\ Looks(T[GetOf(b)])
             /\ \A l \in 1..Len(T) : T[l].op \in Setters => l < c /\ l < b
      BY <2>4
    <3>2. Finds(T[c], Slot(kern, p)) /\ Finds(T[c], Slot(due, p))
      BY <1>8, <3>1, ChecksLast
    <3>3. Finds(T[b], Slot(kern, p)) /\ Finds(T[b], Slot(due, p))
      BY <1>8, <3>1, ChecksLast
    <3>4. Slot(kern, p).mode = Slot(due, p).mode
      BY ONLY <3>1, <3>2 DEF Finds
    <3>5. Slot(kern, p).mask = Slot(due, p).mask
      BY ONLY <3>1, <3>3 DEF Finds
    <3>. QED  BY <1>5, <3>4, <3>5
  <2>. QED  BY <2>2, <2>3, <2>4
<1>. QED  BY <1>2, <1>6, <1>7, <1>8

\* A test that passes has met a kernel that keeps, for every page and process whose policy it read,
\* what the sequence of mbind() and set_mempolicy() calls makes of it; its calls went as they had
\* to, and a mask that node_mask_check() found full is full, where its shift can count the nodes.
THEOREM PassEarned == Spec => []PassIsEarned
<1>1. ASSUME IInv, ShiftsFit, end = "ok" PROVE honest
  <2>1. Now = Len(T) + 1
    BY <1>1, EndSuits
  <2>2. ASSUME test = "get018" PROVE Now = 27
    <3>1. Len(T) = 26
      BY <1>1, <2>2, Text018 DEF IInv
    <3>. QED  BY ONLY <2>1, <3>1
  <2>3. ~Pending
    BY <2>2 DEF Pending
  <2>. QED  BY <1>1, <2>3 DEF IInv, SureInv, LoopInv
<1>2. ASSUME IInv, ShiftsFit, end = "ok" PROVE \A p \in looked \ {PROC} : kern.pol[p] = due.pol[p]
  BY <1>2, LookedIsDue DEF Slot
<1>3. ASSUME IInv, ShiftsFit, end = "ok", PROC \in looked PROVE kern.proc = due.proc
  BY <1>3, LookedIsDue DEF Slot
<1>4. ASSUME IInv, ShiftsFit, end = "ok"
      PROVE  (Uses("full") => node_mask = Nodes) /\ (Uses("node") => node \in Nodes)
  <2>1. TestOK /\ Now = Len(T) + 1 /\ DOMAIN T = 1..Len(T)
    BY <1>4, EndSuits
  <2>2. /\ Uses("full") => T[Len(T)].op = "full"
        /\ Uses("node") => T[Len(T)].op = "node"
    BY <2>1 DEF Uses, TestOK, OrderOK
  <2>. QED  BY <1>4, <2>1, <2>2 DEF IInv, SureInv, SeenInv
<1>5. ASSUME IInv PROVE PassIsEarned
  BY <1>1, <1>2, <1>3, <1>4, <1>5 DEF PassIsEarned
<1>. QED  BY <1>5, Invariant, PTL
=============================================================================
