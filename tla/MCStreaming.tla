------------------------------ MODULE MCStreaming ------------------------------
(* Two clients that stream on one store, with the smallest channels.        *)
EXTENDS Streaming, TLC
CONSTANTS r1, r2

\* The first turn can fill its channels, the second comes after it or before.
MCDeltas == r1 :> 2 @@ r2 :> 1
=============================================================================
