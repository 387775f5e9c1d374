----------------------------- MODULE MCCiapArm -----------------------------
(* Ciap with a note of whether the host still waits for the completion       *)
(* interrupt of its last record-engine arm (APCR $0140).                     *)
EXTENDS MCCiap

VARIABLE awaiting

ArmInit == Init /\ awaiting = FALSE

ArmNext ==
  /\ Next
  /\ awaiting' = (ApPlay(TRUE) \/ (awaiting /\ "AP" \notin isr'))

ArmSpec ==
  /\ ArmInit
  /\ [][ArmNext]_<<vars, awaiting>>
  /\ WF_<<vars, awaiting>>(ArmNext /\ Tick(FALSE))

\* cdic.c:82-84 and cdic.c:492-497 list $140 among the commands whose bit 8 asks
\* for a completion interrupt the driver waits for. handle_register_write treats
\* $0140 as PLAY0 before it looks at bit 8, and requests no completion.
ArmCompletes == awaiting ~> ~awaiting
=============================================================================
