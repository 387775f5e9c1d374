------------------------------- MODULE MCIkat -------------------------------
(* Instances of Ikat: the interrupt masks the drivers write, and two hosts, *)
(* one that works with all channels by interrupt on a drive that is left    *)
(* alone, one that polls the disc channel while discs come and go.          *)
EXTENDS Ikat

VARIABLE host

BoardMasks == {{"D"}, {"A", "C", "D"}}

HostInit == Init /\ host \in {"interrupts", "media"}

\* No mounts, no seeks ...
InterruptsHost == UNCHANGED media /\ command' \in {None, "B0"}

\* ... or no mask, no system command, nothing to report on the pointing device, and no
\* command that answers at once.
MediaHost ==
  /\ interrupt_mask' = {} /\ ~rebooting'
  /\ response'["A"] = None /\ response'["C"] = None /\ response'["D"] # "B1"

HostNext ==
  /\ UNCHANGED host
  /\ Next
  /\ host = "interrupts" => InterruptsHost
  /\ host = "media" => MediaHost

HostSpec ==
  /\ HostInit /\ [][HostNext]_<<vars, host>>
  /\ WF_vars(Tick) /\ WF_vars(ReadResponse("D"))
=============================================================================
