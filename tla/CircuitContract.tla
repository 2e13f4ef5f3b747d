---------------------------- MODULE CircuitContract ----------------------------
(***************************************************************************)
(* What a client sees of create_circuit() in pathsim.py: it asks for a     *)
(* circuit; guards may answer and be trusted from then on; it is handed a  *)
(* live path that begins at a trusted guard, or none can be made.  Guards  *)
(* lose its trust only when a consensus period begins, so that one client  *)
(* shows itself to few guards.  How guards are listed, tried, dropped and  *)
(* timed is left to PathSelection.tla.                                     *)
(***************************************************************************)
EXTENDS Naturals, LivePaths

CONSTANTS
  Relay,  \* fingerprints of the relays
  None    \* no path

VARIABLES
  period,       \* when the consensus period in force began
  rel_stats,    \* relay -> its flags in the consensus
  hibernating,  \* the relays asleep
  trusted,      \* the listed guards that have answered
  state,        \* idle, making a circuit, made one, or failed for good
  request,      \* whether relays must be fast, and stable
  path          \* the path handed out, None unless one was just made

network == <<period, rel_stats, hibernating>>
vars    == <<network, trusted, state, request, path>>

Request == [fast : BOOLEAN, stable : BOOLEAN]

With(flag) == {r \in Relay : flag \in rel_stats[r]}

Awake == With("Running") \ hibernating

Init ==
  /\ state = "idle" /\ path = None
  /\ trusted = {}
  /\ request \in Request

\* A period begins: the network changes, and trust may be lost.
BeginPeriod ==
  /\ state = "idle"
  /\ period' > period
  /\ trusted' \subseteq trusted
  /\ UNCHANGED <<state, request, path>>

Hibernate ==
  /\ state = "idle"
  /\ UNCHANGED <<period, rel_stats, trusted, state, request, path>>

Ask ==
  /\ state = "idle"
  /\ state' = "making"
  /\ request' \in Request
  /\ UNCHANGED <<network, trusted, path>>

\* A guard answers.
Trust(r) ==
  /\ state = "making"
  /\ r \in Awake
  /\ trusted' = trusted \cup {r}
  /\ UNCHANGED <<network, state, request, path>>

FitExit(r) == r \in With("Valid") \ With("BadExit")

Make(guard, middle, exit) ==
  /\ state = "making"
  /\ guard \in trusted
  /\ FitExit(exit)
  /\ LivePath(<<guard, middle, exit>>, Awake, With("Stable"), request.stable)
  /\ request.fast => {guard, middle, exit} \subseteq With("Fast")
  /\ path' = <<guard, middle, exit>>
  /\ state' = "made"
  /\ UNCHANGED <<network, trusted, request>>

GiveUp ==
  /\ state = "making"
  /\ state' = "failed"
  /\ UNCHANGED <<network, trusted, request, path>>

Return ==
  /\ state = "made"
  /\ state' = "idle" /\ path' = None
  /\ request' \in Request
  /\ UNCHANGED <<network, trusted>>

Next ==
  \/ BeginPeriod \/ Hibernate
  \/ Ask \/ GiveUp \/ Return
  \/ \E r \in Relay : Trust(r)
  \/ \E guard, middle, exit \in Relay : Make(guard, middle, exit)

Spec == Init /\ [][Next]_vars
=============================================================================
