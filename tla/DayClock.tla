------------------------------ MODULE DayClock ------------------------------
(***************************************************************************)
(* The clock the agent trusts and the day it accounts.                     *)
(*                                                                         *)
(* TrustedClock (client/src/clock.rs) anchors a wall-clock time to the     *)
(* boot clock and extrapolates; the ledger (enforce/screentime.rs) rolls   *)
(* the day and ends overrides by it.  Around them: a wall clock that is    *)
(* set by hand, a real-time clock that is wrong at boot, NTP, the family   *)
(* server's answers (late ones too), reboots and agent restarts.           *)
(* A boot is named by the true time it happened at, which no two share.    *)
(***************************************************************************)
EXTENDS Integers

CONSTANTS Horizon,    \* the last true time of a behaviour (a bound)
          DayLength,  \* time units in a day
          Skews,      \* how far a wall clock can be off, 0 among them
          Minutes     \* the time units an override holds the rules off

\* Times count from the epoch, and no wall clock reads an earlier one.
ASSUME ClockAssumption ==
  /\ Horizon \in Nat /\ DayLength \in Nat \ {0} /\ Minutes \in Nat \ {0}
  /\ Skews \subseteq Int /\ 0 \in Skews /\ \A s \in Skews : s >= -DayLength

VARIABLES
  real,     \* true time; the boot clock is real - bootAt
  skew,     \* wall clock - true time
  synced,   \* the kernel says the wall clock is NTP-synchronized
  bootAt,   \* this boot
  ledger,   \* UsageTracker in memory: clock, day, until (the override's end)
  disk,     \* the ledger as last saved
  now,      \* Agent.trusted_now
  ticked,   \* this process has read its clock (history)
  slipped,  \* a vouched clock put trusted time back before this day (history)
  drawn,    \* the override's end is further off than it was given for (history)
  answer    \* a server_time on its way to the agent, or Nothing

clockVars == <<real, skew, synced, bootAt, ledger, disk, now, ticked, slipped, drawn, answer>>

Nothing == -100
Sources == {"boot", "ntp", "server"}
DayOf(t) == t \div DayLength
WallNow == real + skew
Later(s, t) == IF s > t THEN s ELSE t

\* A ledger that never anchored: no boot is its boot, no time below its mark.
NewLedger == [clock |-> [boot |-> Nothing, wall |-> 0, at |-> 0, source |-> "boot",
                         high |-> Nothing],
              day |-> Nothing, until |-> Nothing]

ClockInit ==
  /\ real = DayLength /\ skew = 0 /\ synced = FALSE /\ bootAt = DayLength
  /\ ledger = NewLedger /\ disk = NewLedger /\ now = DayLength
  /\ ticked = FALSE /\ slipped = FALSE /\ drawn = FALSE /\ answer = Nothing

-----------------------------------------------------------------------------
(* TrustedClock *)

AnchorAt(c, t, from) ==
  [c EXCEPT !.boot = bootAt, !.wall = t, !.at = real - bootAt, !.source = from]

Extrapolate(c) == c.wall + (real - bootAt) - c.at

\* Slip: a boot that believes its wall clock outright.
ReAnchoredAfresh(c) ==
  IF c.boot # bootAt THEN AnchorAt(c, WallNow, "boot")
  ELSE IF synced THEN AnchorAt(c, WallNow, "ntp") ELSE c

ReAnchored(c) ==
  IF c.boot # bootAt
  THEN AnchorAt(c, Later(c.high, WallNow), "boot")
  ELSE IF synced THEN AnchorAt(c, WallNow, "ntp") ELSE c

\* A vouched-for clock resets the mark; otherwise it only moves forward.
Observe(c) ==
  LET a == ReAnchored(c)
      vouched == c.boot = bootAt /\ synced
  IN  [a EXCEPT !.high = IF vouched THEN Extrapolate(a) ELSE Later(@, Extrapolate(a))]

ObserveServer(c, t) == [AnchorAt(c, t, "server") EXCEPT !.high = t]

\* Slip: a day that follows the clock both ways.
RollToAny(day, today) == today

\* roll_to: only a later day begins.
RollTo(day, today) == Later(day, today)

Advanced(l) ==
  LET c == Observe(l.clock)
  IN  [l EXCEPT !.clock = c, !.day = RollTo(@, DayOf(Extrapolate(c)))]

\* set_override never shortens; a tick drops one that has run out.
SetOverride(l, end) == [l EXCEPT !.until = Later(@, end)]
DropExpired(l, t) == [l EXCEPT !.until = IF @ > t THEN @ ELSE Nothing]

-----------------------------------------------------------------------------
(* The world *)

TimePasses ==
  /\ real < Horizon
  /\ real' = real + 1
  /\ UNCHANGED <<skew, synced, bootAt, ledger, disk, now, ticked, slipped, drawn, answer>>

\* `date -s`, `timedatectl set-time`: the kernel marks the clock unsynchronized.
SetWallClock(s) ==
  /\ s # skew
  /\ skew' = s /\ synced' = FALSE
  /\ UNCHANGED <<real, bootAt, ledger, disk, now, ticked, slipped, drawn, answer>>

NtpSynchronizes ==
  /\ ~synced
  /\ synced' = TRUE /\ skew' = 0
  /\ UNCHANGED <<real, bootAt, ledger, disk, now, ticked, slipped, drawn, answer>>

\* The server stamps its answer; it may be read much later (a laptop asleep).
ServerStamps ==
  /\ answer = Nothing
  /\ answer' = real
  /\ UNCHANGED <<real, skew, synced, bootAt, ledger, disk, now, ticked, slipped, drawn>>

-----------------------------------------------------------------------------
(* The agent *)

\* Does this ledger's clock read earlier than the one it replaces did?
PutBack(l) ==
  \/ Extrapolate(l.clock) < ledger.clock.high
  \/ ledger.clock.boot = bootAt /\ Extrapolate(l.clock) < Extrapolate(ledger.clock)

\* A reading: `trusted_now`, and what it does to the history.
Read(l) ==
  /\ now' = Extrapolate(l.clock)
  /\ ticked' = TRUE
  /\ slipped' = ((slipped \/ PutBack(l)) /\ l.day > DayOf(now'))
  /\ drawn' = ((drawn \/ PutBack(l)) /\ ledger'.until # Nothing)

\* enforcement_tick: advance, drop a finished override, save the ledger.
ClockTick ==
  LET l == Advanced(ledger)
  IN  /\ ledger' = DropExpired(l, Extrapolate(l.clock))
      /\ Read(l)
      /\ disk' = ledger'
      /\ UNCHANGED <<real, skew, synced, bootAt, answer>>

\* A credit_time command: advance, grant, save.
GrantTime ==
  LET l == Advanced(ledger)
  IN  /\ ledger' = SetOverride(l, Extrapolate(l.clock) + Minutes)
      /\ Read(l)
      /\ disk' = ledger'
      /\ UNCHANGED <<real, skew, synced, bootAt, answer>>

\* A code at the lock counts from the last reading, and is saved by a tick.
CodeAtLock ==
  /\ ledger' = SetOverride(ledger, now + Minutes)
  /\ drawn' = (drawn \/ ~ticked \/ now > Extrapolate(ledger.clock))
  /\ UNCHANGED <<real, skew, synced, bootAt, disk, now, ticked, slipped, answer>>

\* apply_person_days: the server is believed only while NTP does not vouch.
ServerAnswers ==
  LET l == IF synced THEN ledger
           ELSE [ledger EXCEPT !.clock = ObserveServer(@, answer)]
  IN  /\ answer # Nothing
      /\ ledger' = l /\ answer' = Nothing
      /\ slipped' = (slipped \/ PutBack(l))
      /\ drawn' = (ledger.until # Nothing /\ (drawn \/ PutBack(l)))
      /\ UNCHANGED <<real, skew, synced, bootAt, disk, now, ticked>>

\* Agent::new: the ledger from disk, and `now` from the raw wall clock.
StartAgent(s) ==
  /\ ledger' = disk /\ now' = real' + s
  /\ ticked' = FALSE /\ answer' = Nothing
  /\ UNCHANGED <<disk, slipped, drawn>>

RestartAgent ==
  /\ UNCHANGED <<real, skew, synced, bootAt>>
  /\ StartAgent(skew)

\* Power off and on: the real-time clock may be wrong in either direction.
Reboot(s) ==
  /\ real < Horizon
  /\ real' = real + 1 /\ bootAt' = real + 1
  /\ skew' = s /\ synced' = FALSE
  /\ StartAgent(s)

ClockNext ==
  \/ TimePasses \/ NtpSynchronizes \/ ServerStamps
  \/ \E s \in Skews : SetWallClock(s) \/ Reboot(s)
  \/ ClockTick \/ GrantTime \/ CodeAtLock \/ ServerAnswers \/ RestartAgent

ClockSpec == ClockInit /\ [][ClockNext]_clockVars

-----------------------------------------------------------------------------
(* Properties *)

\* A clock NTP vouched for keeps true time from then on, whatever is done to
\* the wall clock; one the server vouched for is never ahead of it.
VouchedIsTrue ==
  LET c == ledger.clock
  IN  c.boot = bootAt =>
        /\ c.source = "ntp" => Extrapolate(c) = real
        /\ c.source = "server" => Extrapolate(c) <= real

\* A clock anchored at boot is not behind the latest time ever trusted.
BootHeedsTheMark ==
  LET c == ledger.clock
  IN  c.boot = bootAt /\ c.source = "boot" => Extrapolate(c) >= c.high

\* The accounted day is the trusted day, save after a vouched clock corrected
\* one that ran ahead: then the day stays ahead until time catches up.
DayFollowsTime ==
  ticked => /\ ledger.day >= DayOf(now)
            /\ ~slipped => ledger.day = DayOf(now)

\* No override outlives the time it was given for, save when a correction (or
\* a code typed before the agent has read the corrected clock) draws it out.
OverrideEnds == ticked /\ ~drawn => ledger.until <= now + Minutes

\* Trusted time holds (clock.rs module comment, TrustedClock::observe,
\* UsageTracker::roll_to and set_override), across reboots with a wrong
\* real-time clock, restarts, hand-set clocks and late server answers.
TrustHolds ==
  VouchedIsTrue /\ BootHeedsTheMark /\ DayFollowsTime /\ OverrideEnds

\* What is saved never goes back: not the day, and not the high-water mark
\* unless NTP or the server vouched for less ("time never goes backwards
\* across a reboot").
SavedTimeHolds ==
  [][/\ disk'.day >= disk.day
     /\ disk'.clock.high < disk.clock.high => disk'.clock.source # "boot"]_disk


=============================================================================
