----------------------------- MODULE MCStreams -----------------------------
(* Values of the parameters for the streams run. *)
EXTENDS Streams

MCNothing == -1

\* The condition of RecoveredCorrect holds of this instance.
ASSUME FirstAssumption == FirstComesFirst
=============================================================================
