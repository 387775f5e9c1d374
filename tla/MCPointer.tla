------------------------------ MODULE MCPointer ------------------------------
EXTENDS Pointer

MCIntMin == -3
MCIntMax == 3

\* A motion that fits a report and fills the counter when repeated, and the most negative int.
MCDeltas == {2, -3}

MCMasks == {{}, {"LEFT", "BTN1"}}
=============================================================================
