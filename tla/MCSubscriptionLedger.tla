------------------------ MODULE MCSubscriptionLedger ------------------------
(* Small instances of SubscriptionLedger for TLC.                          *)
EXTENDS SubscriptionLedger, TLC

MCSymmetry == Permutations(SubIds)
=============================================================================
