------------------------------- MODULE MCBoard -------------------------------
(***************************************************************************)
(* The small devices and loops of the board for TLC.  They share no state  *)
(* in these models, so a behaviour runs one part and lets the others rest: *)
(* interleaving them would multiply the states and add no new step.        *)
(***************************************************************************)
EXTENDS StreamClock, Timers, Nvram, AudioRing, Presenter, FrameShare, IdleJob, Trampoline,
        MCDebugStop, Dma, MCCosim, LoaderJob, TLC

VARIABLE part   \* the part this behaviour runs

Parts == {"stream", "timers", "nvram", "audio", "presenter", "share", "idle", "trampoline",
          "debug", "dma", "cosim", "loader"}

MCInit ==
    /\ part \in Parts
    /\ ClockInit /\ OnchipInit /\ NvramInit /\ AudioInit
    /\ PresenterInit /\ ShareInit /\ IdleInit /\ TrampolineInit
    /\ DebugInit /\ DmaInit /\ CosimInit /\ LoaderInit
    /\ part # "cosim" => armed = CHOOSE c \in Comparisons : TRUE
    /\ part # "loader" => regs.D0 = {} /\ regs.D1 = {} /\ regs.D3 = 0 /\ irq_ready

Rests(p, v) == IF part = p THEN TRUE ELSE UNCHANGED v

OthersRest ==
    /\ UNCHANGED part
    /\ Rests("stream", vars)
    /\ Rests("timers", onchip_vars)
    /\ Rests("nvram", rtc_vars)
    /\ Rests("audio", audio_vars)
    /\ Rests("presenter", presenter_vars)
    /\ Rests("share", share_vars)
    /\ Rests("idle", idle_vars)
    /\ Rests("trampoline", main)
    /\ Rests("debug", debug_vars)
    /\ Rests("dma", dma)
    /\ Rests("cosim", cosim_vars)
    /\ Rests("loader", loader_vars)

MCNext ==
    \/ part = "stream"     /\ Next           /\ OthersRest
    \/ part = "timers"     /\ OnchipNext     /\ OthersRest
    \/ part = "nvram"      /\ NvramNext      /\ OthersRest
    \/ part = "audio"      /\ AudioNext      /\ OthersRest
    \/ part = "presenter"  /\ PresenterNext  /\ OthersRest
    \/ part = "share"      /\ ShareNext      /\ OthersRest
    \/ part = "idle"       /\ IdleNext       /\ OthersRest
    \/ part = "trampoline" /\ TrampolineNext /\ OthersRest
    \/ part = "debug"      /\ DebugNext      /\ OthersRest
    \/ part = "dma"        /\ DmaNext        /\ OthersRest
    \/ part = "cosim"      /\ CosimNext      /\ OthersRest
    \/ part = "loader"     /\ LoaderNext     /\ OthersRest

board_vars == <<part, vars, onchip_vars, rtc_vars, audio_vars, presenter_vars, share_vars,
                idle_vars, main, debug_vars, dma, cosim_vars, loader_vars>>

\* The fairness of Trampoline and of DebugStop, where those parts run.
MCSpec == /\ MCInit /\ [][MCNext]_board_vars
          /\ WF_main(part = "trampoline" /\ (Follow \/ Stopped \/ GuestNext))
          /\ WF_debug_vars(part = "debug" /\ EmulationNext)

(***************************************************************************)
(* The constants.                                                          *)
(***************************************************************************)
Eve(year, month, date, weekday, hour) ==
    [year |-> year, month |-> month, date |-> date, weekday |-> weekday, hour |-> hour,
     minute |-> 59, second |-> 59, hundredth |-> 99]

\* The last hundredth before noon on the eve of a leap day, and before the century's window
\* closes.
MCRtcStarts == {Eve(2000, 2, 28, 1, 11), Eve(2069, 12, 31, 2, 23)}

\* Twelve at night in 12-hour mode, day 7 with the oscillator off, the 31st, February.
MCRtcWrites == [r \in 0 .. 7 |-> CASE r = 3 -> {146} [] r = 4 -> {39}
                                   [] r = 5 -> {49} [] r = 6 -> {2} [] OTHER -> {}]
MCRtcKey == <<1, 0>>

Unit(parameter, first, second) == [parameter |-> parameter, raw |-> <<first, second>>]
MCAudioSectors ==
    {[stereo |-> FALSE, eight_bit |-> FALSE, half_rate |-> FALSE,
      units |-> <<Unit(33, 7, 9), Unit(48, 8, 15)>>],
     [stereo |-> TRUE, eight_bit |-> TRUE, half_rate |-> FALSE,
      units |-> <<Unit(16, 127, 130), Unit(44, 3, 255)>>],
     [stereo |-> TRUE, eight_bit |-> FALSE, half_rate |-> TRUE,
      units |-> <<Unit(79, 7, 8), Unit(18, 1, 15)>>]}

\* Each bit by itself, and all; a span is refused if it asks for one word more.
MCSpanWords == [k \in 1 .. 33 |-> IF k = 33 THEN 0 .. 31 ELSE {k - 1}]
MCCrcStarts == {{}, {0, 9, 23}, {15, 16, 22}}
MCOldWords == {{}, {3, 18, 31}}

MCPeriods == [periph |-> 5, slave |-> 4, stream |-> 7, pacing |-> 9, nvram |-> 6, raster |-> 3]
=============================================================================
