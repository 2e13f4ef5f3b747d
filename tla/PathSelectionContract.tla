------------------------- MODULE PathSelectionContract -------------------------
(***************************************************************************)
(* PathSelection keeps the promises of CircuitContract.                    *)
(***************************************************************************)
EXTENDS PathSelection

Trusted == {r \in Listed : guards[r].made_contact}

ContractState ==
  CASE pc \in {"idle", "done"} -> "idle"
    [] pc = "built" -> "made"
    [] pc = "error" -> "failed"
    [] OTHER -> "making"

Contract == INSTANCE CircuitContract WITH
  period    <- valid_after,
  rel_stats <- cons_rel_stats,
  trusted   <- Trusted,
  state     <- ContractState,
  path      <- IF pc = "built" THEN <<entry, middle, exit>> ELSE None

\* create_circuit(), with all the listing, trying, dropping and timing of guards,
\* looks to its callers like CircuitContract: no attempt that is thrown away, no
\* gap between consensuses and no sleeping guard ever costs a guard that answered
\* its place, and every path handed out is live and starts at such a guard.
KeepsContract == Contract!Spec
=============================================================================
