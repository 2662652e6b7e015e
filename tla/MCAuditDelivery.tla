-------------------------- MODULE MCAuditDelivery --------------------------
EXTENDS AuditDelivery, TLC

DeliverySymmetry == Permutations(Workers)
=============================================================================
