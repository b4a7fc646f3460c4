------------------------- MODULE MCOutboxPublisher --------------------------
EXTENDS OutboxPublisher, TLC
Symmetry == Permutations(Publishers)
=============================================================================
