---------------------------- MODULE MCDBMetrics -----------------------------
(***************************************************************************)
(* A process with two threads, and an application whose registries may     *)
(* have a family of its own named like one of DBMetrics.                       *)
(***************************************************************************)
EXTENDS DBMetrics

MCAppFamilies == [{"app", "default"} -> {{}, {"get_read_bytes"}}]
=============================================================================
