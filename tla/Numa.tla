-------------------------------- MODULE Numa --------------------------------
(***************************************************************************)
(* A test of mbind, get_mempolicy or set_mempolicy at work, with the       *)
(* helpers of numa.c: the steps of its RUN_FUNC() one after the other      *)
(* until one of its assertions fails, then TEARDOWN_FUNC().                *)
(*                                                                         *)
(* The kernel is external: it keeps a policy for each page of buf and one  *)
(* for the process, as mbind(2), set_mempolicy(2) and get_mempolicy(2) say *)
(* where the suites rely on them, except for the one thing named by        *)
(* `fault'.  The suites take the maxnode of get_mempolicy() for a number   *)
(* of bits, that of the other two for one more than that.                  *)
(***************************************************************************)
EXTENDS NumaProgs, FiniteSetsExt

CONSTANTS
  MaxNodes,   \* numbers of nodes; 0 stands for a test started without -n
  Cases       \* pairs of a test and a fault of the kernel

Faults == {"malloc", "mmap",
           "refuse", "noop", "wide", "narrow", "split", "untruncated", "lax", "dropflags", "keepmask", "allpreferred",
           "nomode", "nomask", "oneword", "process", "anyflags", "stuck", "nonode"}

ASSUME CasesAssumption ==
  /\ \A n \in MaxNodes : n \in Nat /\ n < SYS_MAX_NODE
  /\ \A c \in Cases : c.test \in DOMAIN Suite(0) /\ c.fault \in {"none"} \union Faults

VARIABLES
  test, T, max_node, fault,   \* the test, its steps, the -n argument, what this kernel gets wrong
  kern,        \* the policies the kernel holds
  nxt,         \* the node an interleaving process allocates on next
  home,        \* the node that holds page 0 of buf, or -1
  node_mask,   \* the bits of node_mask
  words,       \* words behind node_mask and behind the mask that is passed in
  mode,        \* {} is -1
  node,        \* mode, where it is asked for a node
  old_mode,
  buf,         \* "stack", "mapped" or "failed" (MAP_FAILED)
  reserve,     \* of get_mempolicy 018
  held,        \* heap blocks and mappings that exist
  i, pc, end,
  due,         \* history: the policies a good kernel would hold
  honest,      \* history: no call succeeded that had to fail, or failed that had to succeed
  looked       \* history: pages (PROC: the process) whose policy was read since it was set

chosen == <<test, T, max_node, fault>>
kernel == <<kern, nxt, home>>
locals == <<node_mask, words, mode, node, old_mode, buf, reserve>>
history == <<due, honest, looked>>
vars == <<chosen, kernel, locals, held, i, pc, end, history>>

PROC == -1
Page == 0..(NUM_REGION - 1)
Nodes == 0..((IF max_node = 0 THEN 1 ELSE max_node) - 1)
Uses(op) == \E k \in DOMAIN T : T[k].op = op

Init ==
  /\ \E c \in Cases, n \in MaxNodes : test = c.test /\ fault = c.fault /\ max_node = n /\ T = Suite(n)[c.test]
  /\ kern = [pol |-> [p \in Page |-> D], proc |-> D] /\ due = kern
  /\ nxt = 0 /\ home = -1
  /\ node_mask = {} /\ words = [node_mask |-> 0, arg_mask |-> 1]
  /\ mode = {} /\ node = -1 /\ old_mode = -1
  /\ buf = IF Uses("map") \/ Uses("reserve") THEN "failed" ELSE "stack"
  /\ reserve = "failed" /\ held = {}
  /\ i = 1 /\ pc = "run" /\ end = "none"
  /\ honest = TRUE /\ looked = {}

S == T[i]
At(op) == pc = "run" /\ S.op = op

\* tp_assert(): the next step, or the end of RUN_FUNC()
Assert(b) ==
  IF ~b THEN pc' = "teardown" /\ end' = "ng" /\ UNCHANGED i
  ELSE IF i = Len(T) THEN pc' = "teardown" /\ end' = "ok" /\ UNCHANGED i
  ELSE i' = i + 1 /\ UNCHANGED <<pc, end>>

-----------------------------------------------------------------------------
(* The kernel, external.  f is its fault. *)

Effective(s, f) ==
  IF s.mask = NULL THEN {} ELSE Nodes \intersect (IF f = "untruncated" THEN s.mask ELSE s.mask \intersect 0..(s.maxnode - 2))

BadPolicy(s, f) ==
  \/ "UNKNOWN" \in s.mode \/ {"STATIC", "RELATIVE"} \subseteq s.mode
  \/ s.mask # NULL /\ (s.maxnode = 0 \/ s.maxnode > SYS_MAX_NODE + 1)
  \/ "DEFAULT" \in s.mode /\ Effective(s, f) # {}
  \/ s.mode \intersect {"BIND", "INTERLEAVE"} # {} /\ Effective(s, f) = {}

PolicyError(s, f) ==
  IF f = "refuse" THEN "ENOSYS" ELSE IF BadPolicy(s, f) /\ f # "lax" THEN "EINVAL" ELSE "0"

Stored(s, was, f) ==
  LET eff == Effective(s, f) IN
  IF f = "noop" THEN was
  ELSE [mode |-> IF f = "dropflags" THEN s.mode \ {"STATIC", "RELATIVE"} ELSE s.mode,
        mask |-> IF s.mode = {"DEFAULT"} /\ f = "keepmask" THEN was.mask
                 ELSE IF s.mode = {"PREFERRED"} /\ eff # {} /\ f # "allpreferred" THEN {Min(eff)}
                 ELSE eff]

MbindError(s, f) ==
  IF PolicyError(s, f) # "0" THEN PolicyError(s, f)
  ELSE IF ("UNALIGNED" \in s.flags \/ s.len < 0) /\ f # "lax" THEN "EINVAL"
  ELSE IF "MOVE_ALL" \in s.flags /\ f # "lax" THEN "EPERM"
  ELSE IF buf = "failed" THEN "EFAULT"
  ELSE IF "STRICT" \in s.flags /\ home \notin Effective(s, f) /\ f # "lax" THEN "EIO" ELSE "0"

\* The pages of the range take the policy, the others keep theirs.
Span(s, f) == s.at..(s.at + s.len - (IF f = "wide" THEN 0 ELSE IF f = "narrow" THEN 2 ELSE 1))
Bound(k, s, f) ==
  [k EXCEPT !.pol = [p \in Page |->
     IF p \in Span(s, f) THEN Stored(s, k.pol[p], f)
     ELSE IF f = "split" /\ p >= s.at + s.len /\ k.pol[p] = k.pol[s.at] THEN D   \* the rest of a cut range
     ELSE k.pol[p]]]

GetError(k, s, f) ==
  IF f # "anyflags" /\ \/ "UNKNOWN" \in s.flags
                       \/ "MEMS_ALLOWED" \in s.flags /\ s.flags # {"MEMS_ALLOWED"}
                       \/ s.nm /\ s.maxnode < Cardinality(Nodes)
                       \/ "ADDR" \notin s.flags /\ s.at # NOADDR
                       \/ s.flags = {"NODE"} /\ k.proc.mode # {"INTERLEAVE"}
  THEN "EINVAL"
  ELSE IF "ADDR" \in s.flags /\ (s.at < 0 \/ buf = "failed") THEN "EFAULT" ELSE "0"

Answer(k, s, f) ==
  IF "MEMS_ALLOWED" \in s.flags THEN [D EXCEPT !.mask = Nodes]
  ELSE IF "ADDR" \in s.flags /\ f # "process" THEN k.pol[s.at] ELSE k.proc

Written(s, f) == 0..((IF f = "oneword" THEN 1 ELSE (s.maxnode + BITS_PER_LONG - 1) \div BITS_PER_LONG) * BITS_PER_LONG - 1)

-----------------------------------------------------------------------------
(* The steps *)

\* The max_node checks, with usage_print()
CheckMaxNode ==
  /\ At("need") /\ Assert(max_node >= S.k)
  /\ UNCHANGED <<chosen, kernel, locals, held, history>>

\* Mutant: the NULL of malloc() is not noticed.
create_node_mask_unchecked ==
  /\ At("alloc") /\ Assert(TRUE)
  /\ words' = [words EXCEPT ![S.name] = IF fault = "malloc" THEN 0 ELSE Words(S.bits)]
  /\ held' = held \union {S.name}
  /\ UNCHANGED <<chosen, kernel, node_mask, mode, node, old_mode, buf, reserve, history>>

\* create_node_mask(), and the assertion on its result
create_node_mask ==
  /\ At("alloc")
  /\ \/ fault = "malloc" /\ Assert(FALSE) /\ UNCHANGED <<words, node_mask, held>>
     \/ /\ words' = [words EXCEPT ![S.name] = Words(S.bits)]
        /\ held' = held \union {S.name}
        /\ node_mask' = IF S.name = "node_mask" THEN {} ELSE node_mask
        /\ Assert(TRUE)
  /\ UNCHANGED <<chosen, kernel, mode, node, old_mode, buf, reserve, history>>

\* buf = mmap(); only get_mempolicy 014 asserts that it worked
MmapBuf ==
  /\ At("map") /\ Assert(TRUE)
  /\ IF fault = "mmap" THEN buf' = "failed" /\ UNCHANGED held
     ELSE buf' = "mapped" /\ held' = held \union {"buf"}
  /\ UNCHANGED <<chosen, kernel, node_mask, words, mode, node, old_mode, reserve, history>>

MunmapBuf ==
  /\ At("unmap") /\ Assert(TRUE)
  /\ buf' = "failed" /\ held' = held \ {"buf"}
  /\ UNCHANGED <<chosen, kernel, node_mask, words, mode, node, old_mode, reserve, history>>

\* node_mask[0] = bits, and the memset() of sizeof(*node_mask): the first word only
PresetMask ==
  /\ At("preset") /\ Assert(TRUE)
  /\ node_mask' = {b \in node_mask : b >= BITS_PER_LONG} \union S.bits
  /\ UNCHANGED <<chosen, kernel, words, mode, node, old_mode, buf, reserve, held, history>>

TouchBuf ==
  /\ At("touch") /\ Assert(TRUE)
  /\ home' = IF kern.pol[0].mask = {} THEN 0 ELSE Min(kern.pol[0].mask)
  /\ UNCHANGED <<chosen, kern, nxt, locals, held, history>>

\* The assertions that follow a call
AsWanted(err) ==
  CASE S.want = "ok" -> err = "0"
    [] S.want = "fails" -> err # "0"
    [] S.want = "notEIO" -> err \notin {"0", "EIO"}
    [] S.want \notin {"ok", "fails", "notEIO"} -> err = S.want

Honest(err, good) == honest' = (honest /\ (err = "0" <=> good = "0"))

CallMbind ==
  LET err == MbindError(S, fault)
      good == MbindError(S, "none")
  IN
  /\ At("mbind") /\ Assert(AsWanted(err)) /\ Honest(err, good)
  /\ kern' = IF err = "0" THEN Bound(kern, S, fault) ELSE kern
  /\ due' = IF good = "0" THEN Bound(due, S, "none") ELSE due
  /\ looked' = looked \ Span(S, "none")
  /\ UNCHANGED <<chosen, nxt, home, locals, held>>

CallSet ==
  LET err == PolicyError(S, fault)
      good == PolicyError(S, "none")
  IN
  /\ At("set") /\ Assert(AsWanted(err)) /\ Honest(err, good)
  /\ kern' = IF err = "0" THEN [kern EXCEPT !.proc = Stored(S, @, fault)] ELSE kern
  /\ due' = IF good = "0" THEN [due EXCEPT !.proc = Stored(S, @, "none")] ELSE due
  /\ looked' = looked \ {PROC}
  /\ UNCHANGED <<chosen, nxt, home, locals, held>>

CallGet ==
  LET err == GetError(kern, S, fault)
      ans == Answer(kern, S, fault)
  IN
  /\ At("get") /\ Assert(AsWanted(err)) /\ Honest(err, GetError(due, S, "none"))
  /\ mode' = IF err = "0" /\ S.m /\ "NODE" \notin S.flags /\ fault # "nomode" THEN ans.mode ELSE {}
  /\ node_mask' = IF err = "0" /\ S.nm /\ fault # "nomask"
                  THEN (node_mask \ Written(S, fault)) \union (ans.mask \intersect Written(S, fault))
                  ELSE node_mask
  /\ IF err = "0" /\ "NODE" \in S.flags
     THEN IF "ADDR" \in S.flags THEN node' \in (IF fault = "nonode" THEN {Cardinality(Nodes)} ELSE Nodes) ELSE node' = nxt
     ELSE node' = -1
  /\ looked' = IF err = "0" /\ S.flags \subseteq {"ADDR"} /\ (S.m \/ S.nm) THEN looked \union {S.at} ELSE looked
  /\ UNCHANGED <<chosen, kernel, words, old_mode, buf, reserve, held, due>>

\* Mutant: the loop starts at nr_node_mask - 2.
node_mask_check_late(nr_node_mask, num_bits) == \A w \in 0..(nr_node_mask - 2) : Word(node_mask, w) = AllOnes

\* node_mask_check(): num_bits ones and nothing else
node_mask_check(nr_node_mask, num_bits) ==
  \A w \in 0..(nr_node_mask - 1) :
    Word(node_mask, w) = IF w = nr_node_mask - 1 THEN LowBits(num_bits % BITS_PER_LONG) ELSE AllOnes

\* tp_assert() on what a call has returned
Holds ==
  CASE S.op = "mapped" -> buf # "failed"
    [] S.op = "mode" -> mode = S.mode
    [] S.op = "word0" -> Word(node_mask, 0) = S.bits
    [] S.op = "zero" -> \A w \in 0..(words.node_mask - 1) : Word(node_mask, w) = {}
    [] S.op = "full" -> node_mask_check(words.node_mask, S.bits)
    [] S.op = "node" -> node \in 0..(max_node - 1)
    [] S.op = "other" -> node # old_mode

CheckAnswer ==
  /\ pc = "run" /\ S.op \in {"mapped", "mode", "word0", "zero", "full", "node", "other"}
  /\ Assert(Holds)
  /\ old_mode' = IF S.op = "other" /\ Holds THEN node ELSE old_mode
  /\ UNCHANGED <<chosen, kernel, node_mask, words, mode, node, buf, reserve, held, history>>

(* The loop of get_mempolicy 018 *)

KeepOld ==
  /\ At("old") /\ Assert(TRUE) /\ old_mode' = node
  /\ UNCHANGED <<chosen, kernel, node_mask, words, mode, node, buf, reserve, held, history>>

Reserve ==
  /\ At("reserve")
  /\ \/ Assert(TRUE) /\ reserve' = "mapped" /\ held' = held \union {"head", "buf", "tail"}
     \/ fault = "mmap" /\ Assert(FALSE) /\ UNCHANGED <<reserve, held>>
  /\ UNCHANGED <<chosen, kernel, node_mask, words, mode, node, old_mode, buf, history>>

MmapLarge ==
  /\ At("large")
  /\ \/ Assert(TRUE) /\ buf' = "mapped"
     \/ fault = "mmap" /\ Assert(FALSE) /\ UNCHANGED buf
  /\ UNCHANGED <<chosen, kernel, node_mask, words, mode, node, old_mode, reserve, held, history>>

\* *buf = i takes a page from the node that is next
TouchLarge ==
  LET later == {b \in kern.proc.mask : b > nxt} IN
  /\ At("next") /\ Assert(TRUE)
  /\ nxt' = IF fault = "stuck" THEN nxt ELSE Min(IF later = {} THEN kern.proc.mask ELSE later)
  /\ honest' = (honest /\ nxt' # nxt)
  /\ UNCHANGED <<chosen, kern, home, locals, held, due, looked>>

Release ==
  /\ At("release") /\ Assert(TRUE)
  /\ held' = held \ {"head", "buf", "tail"} /\ reserve' = "failed" /\ buf' = "failed"
  /\ UNCHANGED <<chosen, kernel, node_mask, words, mode, node, old_mode, history>>

\* Mutant: TEARDOWN_FUNC() knows one mask only.
TeardownOne ==
  /\ pc = "teardown" /\ pc' = "over"
  /\ held' = held \ ({"node_mask"} \union (IF buf = "mapped" THEN {"buf"} ELSE {})
                     \union (IF reserve = "mapped" /\ buf = "mapped" THEN {"head"} ELSE {}))
  /\ UNCHANGED <<chosen, kernel, locals, i, end, history>>

\* TEARDOWN_FUNC(): the static addr of 018 is hidden by a local one and stays MAP_FAILED, so the
\* tail is never unmapped; and with buf MAP_FAILED the length buf - reserve is refused.
Teardown ==
  /\ pc = "teardown" /\ pc' = "over"
  /\ held' = held \ ({"node_mask", "arg_mask"} \union (IF buf = "mapped" THEN {"buf"} ELSE {})
                     \union (IF reserve = "mapped" /\ buf = "mapped" THEN {"head"} ELSE {}))
  /\ UNCHANGED <<chosen, kernel, locals, i, end, history>>

Over == pc = "over" /\ UNCHANGED vars

Next == \/ CheckMaxNode \/ create_node_mask \/ MmapBuf \/ MunmapBuf \/ PresetMask \/ TouchBuf
        \/ CallMbind \/ CallSet \/ CallGet \/ CheckAnswer
        \/ KeepOld \/ Reserve \/ MmapLarge \/ TouchLarge \/ Release \/ Teardown \/ Over
Spec == Init /\ [][Next]_vars

-----------------------------------------------------------------------------
(* Correctness *)

\* Every variable keeps its type; RUN_FUNC() ends by one of its own steps.
TypeOK ==
  /\ i \in 1..Len(T) /\ pc \in {"run", "teardown", "over"} /\ end \in {"none", "ok", "ng"}
  /\ pc = "run" <=> end = "none"
  /\ node_mask \subseteq 0..(words.node_mask * BITS_PER_LONG - 1)
  /\ buf \in {"stack", "mapped", "failed"} /\ reserve \in {"mapped", "failed"}
  /\ \A p \in Page : kern.pol[p].mask \subseteq Nodes /\ due.pol[p].mask \subseteq Nodes
  /\ looked \subseteq Page \union {PROC} /\ node \in -1..Cardinality(Nodes)

\* node_mask_check() and the mask one node too wide shift a 1 in an int: the count of ones in the
\* last word must be one that an int can hold, and a last word that is full reads as empty.
ShiftFits(n) == n = 0 \/ n % BITS_PER_LONG \in 1..(BITS_PER_INT - 2)
ShiftsFit == Uses("full") => ShiftFits(max_node)

\* On a good kernel with as many nodes as the test asks for, every test passes; with fewer it
\* fails by its check of max_node.  mbind 027 always fails, its assertion on errno being the wrong way
\* round.  The four tests that call node_mask_check() are left out on the machines whose number of
\* nodes its shift cannot count.
Suitable == \A k \in DOMAIN T : T[k].op = "need" => max_node >= T[k].k
NoFlake == fault = "none" /\ end # "none" /\ ShiftsFit => (end = "ok" <=> Suitable /\ test # "mbind027")

\* A test that passes has met a kernel that does what the test is about: its calls succeeded and
\* failed where they should, each policy that was looked at is in the kernel what the sequence of
\* mbind() and set_mempolicy() calls makes it, page by page, and a mask found full is full, where
\* the shift of node_mask_check() can count the nodes.
PassIsEarned ==
  end = "ok" /\ ShiftsFit =>
    /\ honest
    /\ \A p \in looked \ {PROC} : kern.pol[p] = due.pol[p]
    /\ PROC \in looked => kern.proc = due.proc
    /\ Uses("full") => node_mask = Nodes
    /\ Uses("node") => node \in Nodes

\* get_mempolicy() writes whole words for maxnode bits, mbind() and set_mempolicy() read maxnode - 1
\* bits: no call of a suite reaches past the words its mask was given.
MaskFits ==
  pc = "run" =>
    /\ S.op = "get" => (S.nm => S.maxnode <= words.node_mask * BITS_PER_LONG)
    /\ S.op \in {"mbind", "set"} => (S.mask # NULL => S.maxnode - 1 <= words.arg_mask * BITS_PER_LONG)

\* Whatever fails, no mask and no mapping outlives a test, but for the reservation of
\* get_mempolicy 018 when it is stopped in its loop.
Released == pc = "over" => held = {} \/ (test = "get018" /\ end = "ng" /\ "node_mask" \notin held)
=============================================================================
