--------------------------- MODULE MCProofUpgrade ---------------------------
EXTENDS ProofUpgrade

Squashing == [commit |-> TRUE, squash |-> TRUE, clean |-> FALSE, sign |-> FALSE]

MCConfigs == {Squashing,
              [Squashing EXCEPT !.sign = TRUE],
              [Squashing EXCEPT !.commit = FALSE],
              [Squashing EXCEPT !.clean = TRUE]}
=============================================================================
