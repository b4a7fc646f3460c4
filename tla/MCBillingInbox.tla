--------------------------- MODULE MCBillingInbox ---------------------------
EXTENDS BillingInbox, TLC
Symmetry == Permutations(Handlers)
=============================================================================
