---------------------------- MODULE MCProofTree ----------------------------
EXTENDS ProofTree

CONSTANTS k1, k2, m, b1, b2

Bitcoin(block) == Attestation("bitcoin", block)

Other == Attestation("other", b1)

(* A Bitcoin block; a later one by the same way; another chain at the      *)
(* commitment itself, then below; the promise of a second calendar, and    *)
(* then a block below it.                                                  *)
MCAnswer ==
    {<<Branch(m, <<Bitcoin(b1)>>)>>,
     <<Branch(m, <<Bitcoin(b2)>>)>>,
     <<Other, Branch(m, <<Other>>)>>,
     <<Pending(k2), Branch(m, <<Other, Bitcoin(b1)>>)>>}
=============================================================================
