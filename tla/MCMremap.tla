------------------------------ MODULE MCMremap ------------------------------
(* The mremap_mmap_anon tests on a good kernel, and on kernels with one fault. *)
EXTENDS Mremap

MCCases == [test : DOMAIN Suite, fault : {"none"} \union CallFaults \union MremapFaults]
=============================================================================
