-------------------- MODULE FilesystemManagerRefinement --------------------
(***************************************************************************)
(* The FilesystemManager implements SerialFs.  A request other than a      *)
(* chunk read is submitted by the push, performed by the step of the       *)
(* worker that ends its file operation, and answered when its handler      *)
(* runs; every other step of the manager is a stutter.                     *)
(***************************************************************************)
EXTENDS FilesystemManager

\* The code r ended with: the worker may hold it and not have posted it yet.
Result(r) == IF wpc = "post" /\ cur.handler = r THEN cur.ec ELSE bound[r]

Serial == INSTANCE SerialFs WITH
  Requests <- Ordered,
  Code     <- [r \in Ordered |-> Code[r]],
  PathOf   <- [r \in Ordered |-> PathOf[r]],
  issued   <- issued \cap Ordered,
  ahead    <- [r \in Ordered |-> ahead[r] \cap Ordered],
  result   <- [r \in Ordered |-> Result(r)],
  answered <- {r \in Ordered : runs[r] > 0},
  buf      <- [r \in Ordered |-> buf[r]],
  length   <- [r \in Ordered |-> length[r]]

\* Whatever the threads, the queues, the chunk reads and the destructor do, the
\* manager behaves as the serial file service.
ImplementsSerialFs == Serial!Spec
=============================================================================
