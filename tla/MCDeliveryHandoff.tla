-------------------------- MODULE MCDeliveryHandoff --------------------------
EXTENDS DeliveryHandoff, TLC

Symmetry == Permutations(Task) \cup Permutations(Delivery) \cup Permutations(Post) \cup Permutations(Body)
=============================================================================
