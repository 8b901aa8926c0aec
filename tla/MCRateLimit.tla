----------------------------- MODULE MCRateLimit -----------------------------
(* RateLimit on a small instance.  Visitors of the onion service share its
   loopback address; others come from an address of their own.             *)
EXTENDS RateLimit, TLC

CONSTANTS alice, bob, carol, loopback, ip1

Visit(who, addr, name) == [who |-> who, addr |-> addr, name |-> name]
Onion(name) == Visit(Anon, loopback, name)

Count(traffic, visit) == Cardinality({c \in Calls : traffic[c] = visit})

\* Three onion visitors who name alice; or one of them, carol, who is logged in,
\* and a visitor who comes from carol's address or names bob.
MCTraffic ==
    LET carols == Visit(carol, ip1, bob)
        Visits == {Onion(alice), Onion(bob), Visit(Anon, ip1, alice), carols}
    IN  {t \in [Calls -> Visits] :
            \/ Count(t, Onion(alice)) = 3
            \/ \A v \in {Onion(alice), carols} : Count(t, v) = 1}

Symmetry == Permutations(Calls)

=============================================================================
