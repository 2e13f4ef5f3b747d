---------------------------- MODULE MCExitSelection ----------------------------
(***************************************************************************)
(* Exits whose policies differ per port, per address, and in the form of   *)
(* their rules; weights with a zero among them.                            *)
(***************************************************************************)
EXTENDS ExitSelection

CONSTANTS a, b, e1, e2, e3, e4, e5   \* two addresses, five relays

Accept(min, max) == [is_accept |-> TRUE, min_port |-> min, max_port |-> max,
                     mask |-> "wildcard", addresses |-> Address]
Reject(min, max) == [Accept(min, max) EXCEPT !.is_accept = FALSE]

To(rule, addresses) == [rule EXCEPT !.mask = "some bits", !.addresses = addresses]
NoBits(rule)        == [rule EXCEPT !.mask = "no bits"]

All == 65535

Web        == <<Accept(80, 80), Reject(1, All)>>
WebNotToA  == <<To(Reject(80, 80), {a}), Accept(1, All)>>
SshToB     == <<To(Accept(22, 22), {b}), Reject(1, 79), Accept(80, All)>>
NoSsh      == <<NoBits(Reject(22, 22)), Accept(1, All)>>
Everything == <<>>
Nothing    == <<Reject(1, All)>>

Fast   == {"Running", "Valid", "Fast"}
Usual  == [e \in Relay |-> CASE e = e1 -> Fast \cup {"Exit", "Stable"}
                             [] e = e2 -> Fast \cup {"Exit", "Guard", "Stable"}
                             [] e = e3 -> Fast \cup {"Guard"}
                             [] OTHER  -> Fast \cup {"Stable"}]
E4Bad  == [Usual EXCEPT ![e4] = @ \cup {"BadExit"}]

Weigh(w1, w2, w3, w4, w5) ==
  [e \in Relay |-> CASE e = e1 -> w1 [] e = e2 -> w2 [] e = e3 -> w3
                      [] e = e4 -> w4 [] e = e5 -> w5]

Policy(p1, p2, p3, p4, p5) ==
  [e \in Relay |-> CASE e = e1 -> p1 [] e = e2 -> p2 [] e = e3 -> p3
                      [] e = e4 -> p4 [] e = e5 -> p5]

MCConsensus ==
  {[relays |-> <<e1, e2, e3, e4, e5>>, flags |-> Usual,
    bandwidth |-> Weigh(1, 2, 1, 1, 2),
    policy |-> Policy(Web, WebNotToA, NoSsh, SshToB, Everything)],
   [relays |-> <<e3, e1, e5, e4>>, flags |-> Usual,
    bandwidth |-> Weigh(2, 1, 1, 1, 1),
    policy |-> Policy(WebNotToA, Web, Everything, SshToB, NoSsh)],
   [relays |-> <<e2, e4, e5>>, flags |-> E4Bad,
    bandwidth |-> Weigh(1, 3, 1, 1, 2),
    policy |-> Policy(Nothing, SshToB, Nothing, Everything, Web)]}

\* A guard that is no exit weighs nothing, as in many a consensus.
MCWeight == [w \in {"Wed", "Weg", "Wee", "Wem"} |-> IF w = "Weg" THEN 0 ELSE 1]
=============================================================================
