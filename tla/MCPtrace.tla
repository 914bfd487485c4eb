------------------------------ MODULE MCPtrace ------------------------------
(* The ptrace tests on a good kernel, and on kernels with one bad request.   *)
EXTENDS Ptrace

Tests == DOMAIN Test
Requests == {"TRACEME", "CONT", "PEEKDATA", "PEEKTEXT", "PEEKUSER", "POKEDATA", "POKETEXT", "POKEUSER",
             "GETREGSET", "SETREGSET", "GETSIGINFO", "SETSIGINFO", "SETOPTIONS", "GETEVENTMSG",
             "SYSCALL", "SINGLESTEP", "KILL", "ATTACH", "DETACH"}
Calls == {"FORK", "GFORK", "MMAP", "SEM_INIT", "MUNMAP", "WRITE", "PIPE", "READ", "OPEN", "IOCTL", "kill"}

Refusing(r) == [refused |-> {r}, broken |-> {}]
Breaking(r) == [refused |-> {}, broken |-> {r}]
On(ts, faults) == [test : ts, fault : faults]

\* Every test on a good kernel, and on kernels with one bad request or call.
\* Left out: 015 on kernels where it gets past its fork, because it races
\* (ptrace_fork_race) and may take the grandchild for the child; a GETREGSET that
\* 008 prints without comparing; a DETACH that 020 cannot tell from a CONT;
\* a refused ATTACH, on which 019 and 020 hang.
Good == On(Tests, {NoFault})
Bad == On(Tests, {Refusing(r) : r \in Requests \union Calls} \union {Breaking(r) : r \in Requests})
BadForFork == {"FORK", "GFORK", "kill", "TRACEME", "PEEKDATA", "POKETEXT", "SETOPTIONS", "GETEVENTMSG"}
Apart == On({"t008"}, {Breaking("GETREGSET")}) \union On({"t020"}, {Breaking("DETACH")})
         \union On({"t019", "t020"}, {Refusing("ATTACH")})
MCCases ==
  {c \in Good \union Bad :
     c \notin Apart /\ (c.test = "t015" => (c.fault.refused \union c.fault.broken) \intersect BadForFork # {})}

MCForkRace == On({"t015"}, {NoFault})
=============================================================================
