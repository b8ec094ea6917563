------------------------------- MODULE MCChaos -------------------------------
EXTENDS Chaos, TLC

CONSTANTS order, payment, p1, p2

\* Docker Compose runs one process of each service, Kubernetes two.
Compose    == order :> {p1} @@ payment :> {p2}
Kubernetes == payment :> {p1, p2}

Symmetry == Permutations(Clients)
==============================================================================
