---- MODULE MCTask ----
(* Instances of the task lifecycle for TLC. *)
EXTENDS TaskProperties, TLC

CONSTANTS t1, t2, l1, l2, p1, loop1, pool1, none

AllKinds == Kinds
NoReconcile == Kinds \ {"reconcile"}
CreateCancel == {"create", "cancel"}
CreateCancelRetry == {"create", "cancel", "retry"}
CreateReconcile == {"create", "reconcile"}
NoChunks == Kinds \ {"chunks", "cleanup", "postprocess"}
====
