--------------------------- MODULE EvidenceLedger ---------------------------
(***************************************************************************)
(* What CharacterCache promises its readers, without keys, clocks, caps or *)
(* files.  The service answers questions; every answer is a piece of       *)
(* evidence.  Evidence may be withdrawn by a later answer (rankings became *)
(* private, the character is gone or has come back), and from then on      *)
(* nobody is shown it.  The cache may forget, but it may not make up what  *)
(* nobody answered nor bring back what was withdrawn.                      *)
(***************************************************************************)

CONSTANT Evidence

VARIABLES
    answered,   \* evidence the service has given
    withdrawn,  \* evidence overtaken by later evidence that was accepted
    visible     \* evidence a reader of the cache may be given now

ledgerVars == <<answered, withdrawn, visible>>

Init == answered \subseteq Evidence /\ withdrawn = {} /\ visible = {}

\* A new answer arrives, withdraws older evidence or is itself too late; what
\* is visible afterwards is any part of what was answered and not withdrawn.
Learn ==
    /\ answered \subseteq answered' /\ answered' \subseteq Evidence
    /\ withdrawn \subseteq withdrawn'
    /\ visible' \subseteq answered' \ withdrawn'

\* The user clears the cache, or the program ends with evidence unsaved: the
\* cache no longer knows what had been withdrawn.
Forget ==
    /\ answered' = answered
    /\ withdrawn' = {}
    /\ visible' \subseteq answered

Next == Learn \/ Forget

Spec == Init /\ [][Next]_ledgerVars
=============================================================================
