---------------------------- MODULE MCHumanReview ----------------------------
(* Values of the constants of HumanReview that a configuration cannot write. *)
EXTENDS HumanReview, TLC

Interchangeable == Permutations(Cases) \cup Permutations(Facts) \cup Permutations(Sessions)
                     \cup Permutations(Entities)
=============================================================================
