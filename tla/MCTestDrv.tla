----------------------------- MODULE MCTestDrv -----------------------------
(* TestDrv with the three devices of test_suite.list: 0 is mmap_dev, 1 is   *)
(* mmap_dev2, 2 is writecombine.                                            *)
EXTENDS TestDrv, TLC

MCBufDev == {1, 2}
MCNoDev == 3
MCFaults == {"region", "class", "cdev", "node", "init", "procfs", "remap"}
MCClassFault == {"class"}
UserSymmetry == Permutations(User)
=============================================================================
