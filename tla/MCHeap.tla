------------------------------- MODULE MCHeap -------------------------------
(* The kernel heap on a small arena. *)
EXTENDS Heap

(* A request of 1 byte is rounded up; 72 leaves a rest too small to split. *)
MCRequests == {1, 40, 72}
==============================================================================
