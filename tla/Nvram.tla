------------------------------- MODULE Nvram -------------------------------
(***************************************************************************)
(* The DS1216 phantom clock and the battery-backed SRAM of cdi_nvram.c,    *)
(* with the part of main.c that resets, loads, seeds and saves them.       *)
(*                                                                         *)
(* rtc mirrors the PhantomClock structure.  The SRAM is the one byte every *)
(* access addresses.  The comparison sequence has the length of RtcKey     *)
(* instead of 64, and the eight bits of a clock register move in one       *)
(* access instead of eight.  Time below a hundredth is counted in units of *)
(* which RtcPhase make a hundredth.                                        *)
(*                                                                         *)
(* The battery file and its temporary are what a stopped PROCESS leaves;   *)
(* the code calls no fsync, so nothing is said of a power failure.         *)
(***************************************************************************)
EXTENDS Integers, Sequences

CONSTANTS
    RtcKey,     \* the comparison sequence, a tuple of bits
    RtcStarts,  \* the host times a start may be seeded with
    RtcWrites,  \* RtcWrites[r]: the values the guest writes to register r
    RtcPhase,   \* units of time in a hundredth of a second
    RtcTicks    \* bound: units of time in one run of the program

\* The structure of a time of day, CdiRtcTime.
CdiRtcTime == [year : Nat, month : Nat, date : Nat, weekday : Nat,
               hour : Nat, minute : Nat, second : Nat, hundredth : Nat]

ASSUME RtcAssumption ==
    /\ RtcKey \in Seq({0, 1}) /\ RtcKey # << >> /\ Head(RtcKey) = 1
    /\ RtcStarts \subseteq CdiRtcTime /\ RtcWrites \in [0 .. 7 -> SUBSET (0 .. 255)]
    /\ RtcPhase \in Nat \ {0} /\ RtcTicks \in Nat

VARIABLES
    rtc,        \* the PhantomClock
    rtc_disk,   \* the battery file, its temporary; history: the SRAM last saved
    rtc_at,     \* where main is: off, run, or a step of nvram_save_sram
    rtc_spent,  \* units of time in this run of the program
    rtc_latched \* history: the time latched, and whether it was written over

rtc_vars == <<rtc, rtc_disk, rtc_at, rtc_spent, rtc_latched>>

Absent == -1            \* no such file
Torn == -2              \* a file that is not a complete image
Erased == 255           \* the SRAM without a battery image

(***************************************************************************)
(* Civil time and its registers.  A register is a byte; register r of the  *)
(* code is element r + 1 of the tuple.                                     *)
(***************************************************************************)
bcd_encode(v) == ((16 * (v \div 10)) + (v % 10)) % 256
bcd_decode(b) == (10 * (b \div 16)) + (b % 16)

leap_year(year) == (year % 4 = 0 /\ year % 100 # 0) \/ year % 400 = 0

days_in_month(year, month) ==
    CASE month = 2               -> IF leap_year(year) THEN 29 ELSE 28
      [] month \in {4, 6, 9, 11} -> 30
      [] OTHER                   -> 31

bounded(v, low, high, fallback) == IF v \in low .. high THEN v ELSE fallback

advance_one_second(c) ==
    LET minute  == c.second = 59
        hour    == minute /\ c.minute = 59
        day     == hour /\ c.hour = 23
        month   == day /\ c.date + 1 > days_in_month(c.year, c.month)
        year    == month /\ c.month = 12
        Turn(carry, turns, v, first) ==
            IF turns THEN first ELSE IF carry THEN v + 1 ELSE v
    IN  [c EXCEPT !.second  = Turn(TRUE, minute, c.second, 0),
                  !.minute  = Turn(minute, hour, c.minute, 0),
                  !.hour    = Turn(hour, day, c.hour, 0),
                  !.weekday = Turn(day, day /\ c.weekday = 7, c.weekday, 1),
                  !.date    = Turn(day, month, c.date, 1),
                  !.month   = Turn(month, year, c.month, 1),
                  !.year    = IF year THEN c.year + 1 ELSE c.year]

valid_time(t) ==
    /\ t.year \in 1970 .. 2069 /\ t.month \in 1 .. 12
    /\ t.date \in 1 .. days_in_month(t.year, t.month)
    /\ t.weekday \in 1 .. 7
    /\ t.hour \in 0 .. 23 /\ t.minute \in 0 .. 59
    /\ t.second \in 0 .. 59 /\ t.hundredth \in 0 .. 99

\* The hour register keeps its 12-hour bit, the weekday its two controls.
latch_clock_registers(r) ==
    LET h       == r.now.hour
        twelve  == r.transfer[4] \div 128 = 1
        control == 16 * ((r.transfer[5] \div 16) % 4)
        hour    == IF twelve
                   THEN 128 + (IF h >= 12 THEN 32 ELSE 0)
                            + bcd_encode(IF h % 12 = 0 THEN 12 ELSE h % 12)
                   ELSE bcd_encode(h)
    IN  [r EXCEPT !.transfer =
            <<bcd_encode(r.now.hundredth), bcd_encode(r.now.second),
              bcd_encode(r.now.minute), hour, control + r.now.weekday,
              bcd_encode(r.now.date), bcd_encode(r.now.month),
              bcd_encode(r.now.year % 100)>>]

\* Faulty variant: twelve is not turned into zero.
Faulty_CommittedHour(b) ==
    IF b \div 128 = 1
    THEN bounded(bcd_decode(b % 32), 1, 12, 12)
            + (IF (b \div 32) % 2 = 1 THEN 12 ELSE 0)
    ELSE bounded(bcd_decode(b % 64), 0, 23, 0)

CommittedHour(b) ==
    IF b \div 128 = 1
    THEN (bounded(bcd_decode(b % 32), 1, 12, 12) % 12)
            + (IF (b \div 32) % 2 = 1 THEN 12 ELSE 0)
    ELSE bounded(bcd_decode(b % 64), 0, 23, 0)

CommittedDate(r, year, month) ==
    bounded(bcd_decode(r.transfer[6] % 64), 1, days_in_month(year, month), 1)

commit_clock_registers(r) ==
    LET t     == r.transfer
        y     == bcd_decode(t[8])
        year  == IF y < 70 THEN 2000 + y ELSE 1900 + y
        month == bounded(bcd_decode(t[7] % 32), 1, 12, 1)
    IN  [r EXCEPT
            !.now = [year      |-> year,
                     month     |-> month,
                     date      |-> CommittedDate(r, year, month),
                     weekday   |-> bounded(t[5] % 8, 1, 7, 1),
                     hour      |-> CommittedHour(t[4]),
                     minute    |-> bounded(bcd_decode(t[3] % 128), 0, 59, 0),
                     second    |-> bounded(bcd_decode(t[2] % 128), 0, 59, 0),
                     hundredth |-> bounded(bcd_decode(t[1]), 0, 99, 0)],
            !.sub_hundredth = 0]

(***************************************************************************)
(* The key and the transfer.                                               *)
(***************************************************************************)
NoKey == [i \in DOMAIN RtcKey |-> 0]

observe_key_bit(r, bit) ==
    LET window == Append(Tail(r.key_window), bit)
    IN  IF window = RtcKey
        THEN [latch_clock_registers(r) EXCEPT
                 !.key_window = NoKey, !.transfer_reg = 0, !.transferring = TRUE]
        ELSE [r EXCEPT !.key_window = window]

LastRegister(r) == r.transfer_reg = 7

finish_transfer(r) ==
    IF LastRegister(r)
    THEN commit_clock_registers([r EXCEPT !.transferring = FALSE,
                                          !.transfer_reg = 0,
                                          !.key_window = NoKey])
    ELSE [r EXCEPT !.transfer_reg = @ + 1]

rtc_reset ==
    latch_clock_registers(
        [ram |-> Erased, transfer |-> [i \in 1 .. 8 |-> 0],
         now |-> [year |-> 1989, month |-> 1, date |-> 1, weekday |-> 7,
                  hour |-> 0, minute |-> 0, second |-> 0, hundredth |-> 0],
         key_window |-> NoKey, sub_hundredth |-> 0, transfer_reg |-> 0,
         transferring |-> FALSE, startup_seeded |-> FALSE])

Fresh == [now |-> rtc_reset.now, written |-> FALSE]

NvramInit ==
    /\ rtc = rtc_reset /\ rtc_latched = Fresh
    /\ rtc_disk = [file |-> Absent, temporary |-> Absent, saved |-> Absent]
    /\ rtc_at = "off"
    /\ rtc_spent = 0

(***************************************************************************)
(* main: the start of the program.                                         *)
(***************************************************************************)
\* nvram_load_sram refuses a file that is not exactly one image.
load_sram(r) == IF rtc_disk.file = Absent THEN r
                ELSE [r EXCEPT !.ram = rtc_disk.file]

seed_clock_once(r, t) ==
    IF r.startup_seeded THEN r
    ELSE latch_clock_registers(
            [r EXCEPT !.now = t, !.sub_hundredth = 0, !.startup_seeded = TRUE])

Start(t) ==
    /\ rtc_at = "off"
    /\ rtc_disk.file # Torn /\ valid_time(t)
    /\ rtc' = seed_clock_once(load_sram(rtc_reset), t)
    /\ rtc_at' = "run" /\ rtc_latched' = Fresh
    /\ rtc_spent' = 0
    /\ UNCHANGED rtc_disk

\* The clock setting is off: the clock stays at the reset time.
StartUnseeded ==
    /\ rtc_at = "off" /\ rtc_disk.file # Torn
    /\ rtc' = load_sram(rtc_reset)
    /\ rtc_at' = "run" /\ rtc_latched' = Fresh
    /\ rtc_spent' = 0
    /\ UNCHANGED rtc_disk

(***************************************************************************)
(* The running machine: board time and the guest's accesses.               *)
(***************************************************************************)
OscillatorOff(r) == (r.transfer[5] \div 32) % 2 = 1

AddUnit(r) ==
    LET carried == r.sub_hundredth + 1 >= RtcPhase
        second  == carried /\ r.now.hundredth = 99
    IN  [r EXCEPT !.sub_hundredth = IF carried THEN @ + 1 - RtcPhase ELSE @ + 1,
                  !.now = IF second
                          THEN advance_one_second([r.now EXCEPT !.hundredth = 0])
                          ELSE IF carried THEN [r.now EXCEPT !.hundredth = @ + 1]
                          ELSE r.now]

nvram_increment_clock ==
    /\ rtc_at = "run" /\ rtc_spent < RtcTicks /\ ~OscillatorOff(rtc)
    /\ rtc' = AddUnit(rtc)
    /\ rtc_spent' = rtc_spent + 1
    /\ UNCHANGED <<rtc_disk, rtc_at, rtc_latched>>

\* A read outside a transfer changes nothing.
nvram_get_byte ==
    /\ rtc_at = "run" /\ rtc.transferring
    /\ rtc' = finish_transfer(rtc)
    /\ UNCHANGED <<rtc_disk, rtc_at, rtc_spent, rtc_latched>>

WriteSram(bit) ==
    /\ rtc_at = "run" /\ ~rtc.transferring
    /\ rtc' = observe_key_bit([rtc EXCEPT !.ram = bit], bit)
    /\ rtc_latched' = IF rtc'.transferring THEN [now |-> rtc.now, written |-> FALSE]
                      ELSE rtc_latched
    /\ UNCHANGED <<rtc_disk, rtc_at, rtc_spent>>

WriteRegister(v) ==
    /\ rtc_at = "run" /\ rtc.transferring
    /\ rtc' = finish_transfer([rtc EXCEPT !.transfer[rtc.transfer_reg + 1] = v])
    /\ rtc_latched' = [rtc_latched EXCEPT !.written = TRUE]
    /\ UNCHANGED <<rtc_disk, rtc_at, rtc_spent>>

(***************************************************************************)
(* nvram_save_sram, run once when main ends; any step may fail.            *)
(***************************************************************************)
SaveAt(from, to) == rtc_at = from /\ rtc_at' = to
                    /\ UNCHANGED <<rtc, rtc_spent, rtc_latched>>

\* The process is gone, and its memory with it.
Stop(from) == rtc_at = from /\ rtc_at' = "off"
              /\ rtc' = rtc_reset /\ rtc_spent' = 0 /\ rtc_latched' = Fresh

\* fopen truncates the temporary.
SaveOpen ==
    /\ SaveAt("run", "opened")
    /\ rtc_disk' = [rtc_disk EXCEPT !.temporary = Torn]

\* Faulty variant: a short fwrite is not noticed.
Faulty_SaveWrite ==
    /\ SaveAt("opened", "written")
    /\ \E image \in {rtc.ram, Torn} :
          rtc_disk' = [rtc_disk EXCEPT !.temporary = image]

SaveWrite ==
    /\ SaveAt("opened", "written")
    /\ rtc_disk' = [rtc_disk EXCEPT !.temporary = rtc.ram]

\* nvram_save_sram returns 1 and main returns 0.
SaveRename ==
    /\ Stop("written")
    /\ rtc_disk' = [file |-> rtc_disk.temporary, temporary |-> Absent, saved |-> rtc.ram]

\* fopen fails and leaves what was there; every later failure removes it.
SaveFails ==
    \/ /\ Stop("run")
       /\ UNCHANGED rtc_disk
    \/ /\ Stop("opened")
       /\ rtc_disk' = [rtc_disk EXCEPT !.temporary = Absent]
    \/ /\ Stop("written")
       /\ rtc_disk' = [rtc_disk EXCEPT !.temporary = Absent]

\* The process stops: nothing is saved and nothing is removed.
Crash == /\ \E at \in {"run", "opened", "written"} : Stop(at)
         /\ UNCHANGED rtc_disk

NvramNext ==
    \/ \E t \in RtcStarts : Start(t)
    \/ StartUnseeded
    \/ nvram_increment_clock
    \/ nvram_get_byte
    \/ \E bit \in {0, 1} : WriteSram(bit)
    \/ \E v \in RtcWrites[rtc.transfer_reg] : WriteRegister(v)
    \/ SaveOpen \/ SaveWrite \/ SaveRename \/ SaveFails \/ Crash

NvramSpec == NvramInit /\ [][NvramNext]_rtc_vars

(***************************************************************************)
(* Properties.                                                             *)
(***************************************************************************)
(* cdi_nvram.c:228: whatever step of a save fails and wherever the process *)
(* stops, the battery file is absent or one complete image, the SRAM as it *)
(* was when the last save reached its rename, and no start is refused for  *)
(* it.                                                                     *)
BatteryImageWhole == rtc_disk.file # Torn /\ rtc_disk.file = rtc_disk.saved

(* cdi_nvram.c:137: whatever the guest shifts into the registers, the      *)
(* clock holds a date of the calendar, and goes on from one to the next.   *)
(* A clock that runs on past 2069 is still one: only its year is then none *)
(* that a start accepts.                                                   *)
CalendarValid ==
    /\ rtc.now.year >= 1970
    /\ valid_time([rtc.now EXCEPT !.year = IF leap_year(@) THEN 2000 ELSE 2001])

(* cdi_nvram.c:186: a transfer in which the guest only read ends with a    *)
(* commit of the registers it read, which must put the clock at exactly    *)
(* the time that was latched, in 12- and 24-hour mode, although the clock  *)
(* went on in between.  The registers hold two digits of the year.         *)
ReadingKeepsTime ==
    rtc_at = "run" /\ rtc.transferring /\ ~rtc'.transferring
      /\ ~rtc_latched'.written /\ rtc_at' = "run" /\ rtc_latched.now.year < 2070
    => rtc'.now = rtc_latched.now

(* Both: the calendar the guest reads is one it can go on from, and        *)
(* reading it puts the clock back to the time that was read: it loses      *)
(* what the transfer took and nothing else.                                *)
ClockKeepsTime == [][CalendarValid' /\ ReadingKeepsTime]_rtc_vars
=============================================================================
