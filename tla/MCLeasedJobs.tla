---------------------------- MODULE MCLeasedJobs ----------------------------
(* Small instances of LeasedJobs for TLC.                                  *)
EXTENDS LeasedJobs, TLC

CONSTANTS w1, w2
=============================================================================
