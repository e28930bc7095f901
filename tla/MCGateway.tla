----------------------------- MODULE MCGateway ------------------------------
(* Symmetry for checking Gateway on small instances: requests and values are *)
(* interchangeable in the model, and no safety property tells them apart.    *)
EXTENDS Gateway, TLC

Symmetry ==
    Permutations(Requests \ LongRequests) \cup Permutations(LongRequests) \cup Permutations(Values)

=============================================================================
