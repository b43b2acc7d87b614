---------------------------- MODULE MCJobManager ----------------------------
(***************************************************************************)
(* Values for the runs of JobManager are given in its .cfg files.          *)
(***************************************************************************)
EXTENDS JobManager, TLC

CONSTANTS job1, client1, client2

OneJob == {job1}
TwoClients == {client1, client2}
Interchangeable == Permutations(TwoClients)
=============================================================================
