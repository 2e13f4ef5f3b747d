------------------------------- MODULE LivePaths -------------------------------
(***************************************************************************)
(* What a caller of create_circuit() may count on when it is handed the    *)
(* path <<guard, middle, exit>>.  CircuitContract.tla promises it and      *)
(* CircuitPool.tla relies on it.                                           *)
(***************************************************************************)

\* Three relays, all awake, and stable when that was asked for.
LivePath(path, awake, stable, wants_stable) ==
  LET relays == {path[1], path[2], path[3]} IN
  /\ path[1] # path[2] /\ path[1] # path[3] /\ path[2] # path[3]
  /\ relays \subseteq awake
  /\ wants_stable => relays \subseteq stable
=============================================================================
