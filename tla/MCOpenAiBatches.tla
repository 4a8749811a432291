-------------------------- MODULE MCOpenAiBatches --------------------------
(* Instances of OpenAiBatches for TLC: see the README for the bounds.      *)
EXTENDS OpenAiBatches, TLC

\* The requests of an input file are interchangeable, and so are the calls.
CallSymmetry == Permutations(Items) \cup Permutations(Cancels) \cup Permutations(Deletes)
=============================================================================
