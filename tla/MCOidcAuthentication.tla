------------------------- MODULE MCOidcAuthentication -------------------------
EXTENDS OidcAuthentication, TLC

CONSTANT k

(* A reader's token for a route that reads and for one that writes, one that is not sound *)
(* and one that names no key *)
MCCall ==
  {[kid |-> k, sound |-> TRUE, roles |-> {"user"}, method |-> m] : m \in {"GET", "POST"}}
    \cup {[kid |-> k, sound |-> FALSE, roles |-> {"admin"}, method |-> "GET"],
          [kid |-> None, sound |-> TRUE, roles |-> {"admin"}, method |-> "GET"]}

MCSymmetry == Permutations(Request)
=============================================================================
