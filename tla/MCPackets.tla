----------------------------- MODULE MCPackets ------------------------------
(***************************************************************************)
(* Four packets, two of them extra data and one eos, through a queue that  *)
(* is full at two.                                                         *)
(***************************************************************************)
EXTENDS MppPackets

MCEos   == {4}
MCExtra == {1, 3}
=============================================================================
