---------------------------- MODULE MCLeasedRun ----------------------------
(* A small instance of LeasedRun for TLC; MCLeasedRun.cfg and Zombie.cfg give
   the workers, the modes and the pages.                                   *)
EXTENDS LeasedRun
=============================================================================
