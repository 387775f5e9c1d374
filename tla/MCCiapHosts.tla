---------------------------- MODULE MCCiapHosts ----------------------------
(* Three hosts that use the CIAP in every order of their own operations: one  *)
(* streams films under selections, pauses, resumes and seeks, one sets its    *)
(* interrupt level and enables and asks for locators, one plays ADPCM         *)
(* buffers.  The two others leave interrupts off.                             *)
EXTENDS MCCiap

VARIABLE host

HostsInit == Init /\ host \in {"film", "events", "audio"}

Always ==
  \/ \E ejected \in BOOLEAN : Tick(ejected)
  \/ ReadIsr
  \/ CcrReset \/ CcrStart(FALSE)

FilmHost ==
  \/ \E w \in PairRelease \cup SingleRelease : WriteBman(w)
  \/ CcrSelect
  \/ \E f \in Files, m \in Masks, t \in AudioMasks : WriteSelection(f, m, t)
  \/ TransportPause \/ TransportResume
  \/ \E lba \in SeekTargets, for_audio \in BOOLEAN : SetDrivePosition(lba, for_audio)
  \/ \E d \in Films : Mount(d)
  \/ Eject

Completions == ApAck \/ ApReset \/ ApIntNow \/ CcrMemoryPlay \/ Download

EventsHost ==
  \/ Completions
  \/ WriteIcr \/ TakeInterrupt
  \/ \E m \in IerMasks : WriteIer(m)
  \/ \E w \in PairRelease : WriteBman(w)
  \/ CcrStart(TRUE)
  \/ \E lba \in SeekTargets : SetDrivePosition(lba, FALSE)
  \/ Mount(Trigger)
  \/ Eject

AudioHost ==
  \/ Completions
  \/ \E w \in PairRelease \cup HandOff : WriteBman(w)
  \/ \E arm \in BOOLEAN : ApPlay(arm)
  \/ ApFinish

HostsNext ==
  /\ UNCHANGED host
  /\ \/ Always
     \/ host = "film" /\ FilmHost
     \/ host = "events" /\ EventsHost
     \/ host = "audio" /\ AudioHost

\* Fairness of Ciap: device time moves on.
HostsSpec == HostsInit /\ [][HostsNext]_<<vars, host>> /\ Fairness
=============================================================================
