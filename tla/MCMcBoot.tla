------------------------------ MODULE MCMcBoot ------------------------------
(* McBoot with commands that fail and scripts that are interrupted, one script after another. *)
EXTENDS McBoot

\* The commands that handle mounts and modules, and one of each row that is handled alike.
MCFaults == {"umount_sys", "umount_linux", "umount_dir", "rmmod_overlay",
             "insmod_ihk", "reserve_cpu", "insmod_mcctrl", "destroy0", "create", "boot",
             "mount_dir", "mount_linux", "insmod_overlay", "mount_sys",
             "destroy", "rmmod_mcctrl", "rmmod_ihk"}

\* Interruptions around the mounts, in the loops, and wherever half of a boot or of a stop is left.
MCInterrupts == Window \union {"umount_dir", "rm", "klogd", "reserve_cpu", "boot", "wait_proc", "wait_sys", "rmmod_mcctrl"}
=============================================================================
