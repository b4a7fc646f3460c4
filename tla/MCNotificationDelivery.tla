----------------------- MODULE MCNotificationDelivery -----------------------
EXTENDS NotificationDelivery, TLC
Symmetry == Permutations(Workers)
=============================================================================
