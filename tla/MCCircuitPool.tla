----------------------------- MODULE MCCircuitPool -----------------------------
(***************************************************************************)
(* A small network for CircuitPool: one guard, one middle, two exits.  The *)
(* exit e2 takes everything, always; e1 comes, goes, sleeps and changes    *)
(* what it takes.                                                          *)
(***************************************************************************)
EXTENDS CircuitPool

CONSTANTS g, m, e1, e2, p80, p22, web, ssh, lookup

Nothing    == [ports |-> {}, accepts |-> {}]
Everything == [ports |-> {p80, p22}, accepts |-> {web, ssh, lookup}]
WebOnly    == [ports |-> {p80}, accepts |-> {web, lookup}]
\* A policy whose summary promises port 22, but not to every address.
SshHalf    == [ports |-> {p22}, accepts |-> {lookup}]

With(e1policy) ==
  [r \in Relay |-> CASE r = e1 -> e1policy [] r = e2 -> Everything
                     [] OTHER -> Nothing]

State(running, e1policy) ==
  [up |-> running, stable |-> {g, m, e2}, policy |-> With(e1policy)]

E1Web  == State(Relay, WebOnly)
E1Ssh  == State(Relay, SshHalf)
E1Down == State(Relay \ {e1}, WebOnly)

\* e1 stable too, so that its circuits may cover the need for port 22 ...
E1Stable == [State(Relay, Everything) EXCEPT !.stable = Relay]

\* ... though it does not take every stream to it.
E1Half == [State(Relay, [ports |-> {p80, p22}, accepts |-> {web, lookup}])
             EXCEPT !.stable = Relay]

AllStates  == {E1Web, E1Ssh, E1Down, E1Stable}
TwoStates  == {E1Half, E1Down}
AnyExit    == {{}, {e1}}
MCPath     == {<<g, m, e1>>, <<g, m, e2>>}
MCPortOf   == [d \in Destination |-> IF d = ssh THEN p22 ELSE p80]
=============================================================================
