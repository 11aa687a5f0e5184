---------------------------- MODULE AppRefinement ----------------------------
(***************************************************************************)
(* AppReconcile implements AppContract when every edit of the spec brings  *)
(* a change id of its own: "done" is the condition under which the fast    *)
(* path of Reconcile skips the version the API server stores.              *)
(***************************************************************************)
EXTENDS AppInvariants

Contract == INSTANCE AppContract WITH
  present   <- server.exists,
  requested <- server.gen,
  wanted    <- Named(server.spec.reps),
  built     <- [c \in Components |-> workload[c].tmpl],
  done      <- server.exists /\ FastPath(server)

\* Every step of the operator, its users and the cluster is a step of the
\* contract or leaves what the contract speaks of alone: the fast path is
\* only entered with every component at the current generation.
ImplementsContract == Contract!Spec
=============================================================================
