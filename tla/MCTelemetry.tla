---------------------------- MODULE MCTelemetry -----------------------------
(***************************************************************************)
(* Configs for Telemetry: with and without the hook, one registry for all.    *)
(***************************************************************************)
EXTENDS Telemetry

CONSTANTS Registry

MCSettings ==
    {[crash |-> FALSE, hook |-> TRUE, prom |-> Registry, filter |-> None],
     [crash |-> FALSE, hook |-> FALSE, prom |-> None, filter |-> "error"],
     [crash |-> TRUE, hook |-> TRUE, prom |-> None, filter |-> None]}
MCEnvs == {{}, {"CRASH_ON_PANIC", "RUST_LOG=error"}}
=============================================================================
