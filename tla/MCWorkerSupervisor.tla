----------------------- MODULE MCWorkerSupervisor -----------------------
(* The supervisor of research workers on a small instance: two requests,  *)
(* one artifact that a child may send twice.                              *)
EXTENDS WorkerSupervisor

CONSTANTS r1, r2, a1

MCRequests == {r1, r2}
MCArtifacts == {a1}
=============================================================================
