----------------------------- MODULE MCRunTest -----------------------------
(* RunTest with one test of every kind. *)
EXTENDS RunTest

MCTests == DOMAIN Test
MCWait == {"freeze_thaw"}
=============================================================================
