---------------------------- MODULE MCScanQueue ----------------------------
(* Instances of ScanQueue for TLC. *)
EXTENDS ScanQueue, TLC

\* Two tables of one configuration and one of another.
TwoConfigs == <<1, 1, 2>>
\* One table in each of two configurations.
OneEach == <<1, 2>>
\* One table.
OneTable == <<1>>

Symmetry == Permutations(Consumers)
=============================================================================
