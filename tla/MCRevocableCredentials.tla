----------------------- MODULE MCRevocableCredentials -----------------------
(* A small instance of RevocableCredentials: two registries, two credentials *)
(* of the one and one of the other.                                          *)
EXTENDS RevocableCredentials, TLC

CONSTANTS c1, c2, c3, g1, g2, f1, f2, junk

MCRegistryOf == c1 :> g1 @@ c2 :> g1 @@ c3 :> g2

MCTailsFile == g1 :> f1 @@ g2 :> f2

\* Of each registry or both, a credential, all or several.
MCMaps == {<<>>, g1 :> {}, g1 :> {c1}, g1 :> {c1, c2}, g1 :> {c1} @@ g2 :> {c3},
           g1 :> {} @@ Unknown :> {}}

MCCalls ==
  {[op |-> "put", key |-> k, body |-> b] : k \in {f1}, b \in {f1, f2}}
    \cup {[op |-> "put", key |-> k, body |-> k] : k \in {f2, junk}}
    \cup {[op |-> "get", key |-> f1]}
    \cup {[op |-> "define", revocable |-> b] : b \in BOOLEAN}
    \cup {[op |-> "revoke", cred |-> c1, now |-> b] : b \in BOOLEAN}
    \cup {[op |-> "publish", map |-> m] : m \in MCMaps}
    \cup {[op |-> "clear", map |-> <<>>]}
    \cup {[op |-> "pending", of |-> g] : g \in {g1, Unknown}}
    \cup {[op |-> "record", cred |-> c1]}
    \cup {[op |-> "fix", of |-> g1, apply |-> b] : b \in BOOLEAN}
    \cup {[op |-> "fix", of |-> Unknown, apply |-> TRUE]}
=============================================================================
