-------------------------- MODULE MCQueueInformer --------------------------
(***************************************************************************)
(* Model checking of QueueInformer: the configurations give one or two     *)
(* keys and two workers, the operator's default number of workers.         *)
(***************************************************************************)
EXTENDS QueueInformer

=============================================================================
