---------------------------- MODULE MCTaskPorts -----------------------------
(***************************************************************************)
(* Three tasks between one user thread on the input port and two workers   *)
(* that compete for the output port.                                       *)
(***************************************************************************)
EXTENDS MppTaskPorts

CONSTANTS user, worker1, worker2

MCThreads == {user, worker1, worker2}
MCPortOf  == [th \in MCThreads |-> IF th = user THEN "input" ELSE "output"]
=============================================================================
