------------------------------ MODULE MCBilling ------------------------------
EXTENDS Billing
CONSTANTS boot1
OnePerson == {boot1}
=============================================================================
