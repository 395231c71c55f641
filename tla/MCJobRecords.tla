---------------------------- MODULE MCJobRecords ----------------------------
(* An instance of JobRecords for TLC. *)
EXTENDS JobRecords

\* No limit but the oldest, no limit, and one.
ThreeLimits == -1..1
=============================================================================
