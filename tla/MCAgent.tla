------------------------------ MODULE MCAgent ------------------------------
(* One agent: three starts, of which two may be under way at a time, a stop  *)
(* and a death; two benchmark requests and a cancellation; an engine and two *)
(* devices to sample.                                                        *)
EXTENDS AgentParts, EngineOnHand, MCVllmServer

CONSTANTS r1, r2, c1

Devices == {"gpu0", "gpu1"}
MutedSources == {{}, {"engine"}, {"gpu1"}}
=============================================================================
