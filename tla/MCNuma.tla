------------------------------- MODULE MCNuma -------------------------------
(* The NUMA policy tests on machines of some nodes, on a good kernel and on kernels with one fault. *)
EXTENDS Numa

MCCases == [test : DOMAIN Suite(0), fault : {"none"} \union Faults]
=============================================================================
