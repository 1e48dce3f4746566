--------------------------- MODULE MCWalletTracer ---------------------------
(* Instances of WalletTracer for TLC. *)
EXTENDS WalletTracer

AllKinds   == {"trace", "force", "invalid", "corrupt"}
ValidKinds == {"trace", "force"}
TraceOnly  == {"trace"}

==============================================================================
