-------------------------- MODULE MCBillingRenewal --------------------------
EXTENDS BillingRenewal
MCKeys == {<<0, 0>>, <<0, 1>>, <<1, 0>>}
=============================================================================
