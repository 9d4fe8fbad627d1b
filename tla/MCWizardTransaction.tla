------------------------ MODULE MCWizardTransaction ------------------------
(* Small instances of WizardTransaction for TLC. *)
EXTENDS WizardTransaction

CONSTANTS p1, p2, j1, s1, s2

EveryFault == FaultKinds
OnlyCrash == {"crash"}
=============================================================================
