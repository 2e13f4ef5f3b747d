------------------------------- MODULE ExitPolicy -------------------------------
(***************************************************************************)
(* Exit policies (pathsim.py): a policy is a sequence of rules, of which   *)
(* the first that decides gives the verdict; default accept.  The rules    *)
(* are those of stem: a rule names its addresses by a wildcard, by a mask  *)
(* of no bits, which also matches all, or by a mask that matches some.     *)
(***************************************************************************)
EXTENDS Integers, Sequences

CONSTANT Address   \* the addresses streams go to

Ports == 1..65535

Rule ==
  [is_accept : BOOLEAN, min_port : Ports, max_port : Ports,
   mask : {"wildcard", "no bits", "some bits"}, addresses : SUBSET Address]

IsPolicy(policy) ==
  /\ policy \in Seq(Rule)
  /\ \A i \in DOMAIN policy :
       policy[i].mask # "some bits" => policy[i].addresses = Address

OnPort(rule, port) == rule.min_port <= port /\ port <= rule.max_port

AnyAddress(rule) == rule.mask \in {"wildcard", "no bits"}

\* Among the rules at the positions S, those that decide, the first accepts, or
\* there is none: every rejection comes after an acceptance.
FirstAccepts(policy, S) ==
  \A i \in S : policy[i].is_accept \/ \E j \in S : j < i /\ policy[j].is_accept

\* stem's ExitPolicy.can_exit_to().
can_exit_to(policy, ip, port) ==
  FirstAccepts(policy, {i \in DOMAIN policy : /\ OnPort(policy[i], port)
                                              /\ ip \in policy[i].addresses})

\* Mutant of might_exit_to_port: it stops at a rejection of some addresses.
might_exit_unless_rejected(policy, port) ==
  FirstAccepts(policy, {i \in DOMAIN policy : OnPort(policy[i], port)})

\* For some address.
might_exit_to_port(policy, port) ==
  FirstAccepts(policy, {i \in DOMAIN policy :
                     /\ OnPort(policy[i], port)
                     /\ policy[i].is_accept \/ AnyAddress(policy[i])})

\* For an address nothing is known of.
can_exit_to_port(policy, port) ==
  FirstAccepts(policy, {i \in DOMAIN policy : /\ OnPort(policy[i], port)
                                              /\ AnyAddress(policy[i])})

\* get_masked_bits is compared with 0 and not called: a mask of no bits never counts.
RejectsAll(rule) ==
  rule.min_port <= 1 /\ rule.max_port = 65535 /\ rule.mask = "wildcard"

\* All rules up to a rejection of everything are rejections, or just all rules.
policy_is_reject_star(policy) ==
  \A i \in DOMAIN policy : policy[i].is_accept =>
    \E j \in 1..i - 1 : RejectsAll(policy[j]) /\ ~policy[j].is_accept
=============================================================================
