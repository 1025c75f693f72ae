--------------------------- MODULE MCIntTelemetry ---------------------------
(* IntTelemetry for TLC: nothing tells one data packet from another.       *)
EXTENDS IntTelemetry, TLC

PacketSymmetry == Permutations(Packets)

=============================================================================
