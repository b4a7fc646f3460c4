------------------------- MODULE MCBillingCheckout --------------------------
EXTENDS BillingCheckout, TLC
Symmetry == Permutations(Workers) \cup Permutations(Payments)
=============================================================================
