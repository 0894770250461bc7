------------------------------ MODULE MCSdCard ------------------------------
(* Two rounds in each wait loop of the driver, requests of one and of two  *)
(* blocks, and up to three requests of FatFs in a call: enough for a       *)
(* request that fails at each place and a next one that meets its traces.  *)
EXTENDS SdCard
=============================================================================
