-------------------------- MODULE MCCoordinateEngine --------------------------
(***************************************************************************)
(* Two clients in turn, two networks.                                      *)
(***************************************************************************)
EXTENDS CoordinateEngine

CONSTANTS c1, c2

\* A working setup, one for which initialize() fails, and one that aborts the engine.
MCSetup ==
  {[networks |-> 2, instances |-> 2, pings |-> 1, fit |-> TRUE],
   [networks |-> 1, instances |-> 2, pings |-> 0, fit |-> TRUE],
   [networks |-> 1, instances |-> 2, pings |-> 1, fit |-> FALSE]}
=============================================================================
