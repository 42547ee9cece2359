----------------------------- MODULE AgentProofs -----------------------------
(***************************************************************************)
(* What TLAPS proves of the parts of the agent that stand by themselves:   *)
(* the locks on a whole computer (DeviceLocks), the trusted clock          *)
(* (DayClock), the website rules (NetworkRules) and the VPN profiles       *)
(* (VpnProfiles), for any bounds.                                          *)
(***************************************************************************)
EXTENDS DeviceLocks, DayClock, NetworkRules, VpnProfiles, FiniteSetTheorems, TLAPS

(***************************************************************************)
(* The inductive invariant of the whole-device locks.                      *)
(***************************************************************************)

Locks ==
  [pause : BOOLEAN, grace : BOOLEAN, offline : BOOLEAN, tamper : BOOLEAN,
   strikes : 0..Confirmations, age : 0..LockdownDays, seen : Nat,
   uptime : 0..BootMinutes, throttled : BOOLEAN]
Disk == [pause : BOOLEAN, tamper : BOOLEAN, age : 0..LockdownDays, marker : Nat]

DeviceTypes ==
  /\ agent \in Locks
  /\ stored \in Disk
  /\ agentUp \in BOOLEAN
  /\ unlocker \in {"idle", "torn down", "unlocked"}
  /\ paused \in BOOLEAN /\ caught \in BOOLEAN /\ missed \in BOOLEAN
  /\ overtaken \in BOOLEAN /\ unsaved \in BOOLEAN
  /\ away \in 0..LockdownDays

\* A pause is on the disk only while no parent has lifted it, and stays there
\* unless it came after an `ost unlock` the agent had still to read; so that an
\* agent that starts comes to the pause the last one left.
PauseStored ==
  /\ stored.pause => paused
  /\ paused /\ ~overtaken => stored.pause /\ ~Unread
  /\ PauseHolds
  /\ ~Unread /\ ~missed /\ agent.pause => paused
  /\ agent.grace => agent.pause

\* The evasion lockdown on the disk is the agent's own, in every state, and it
\* is one no parent has forgiven unless the forgiving was not read, or missed.
TamperStored ==
  /\ stored.tamper = agent.tamper
  /\ caught => agent.tamper
  /\ stored.marker = agent.seen /\ ~missed /\ agent.tamper => caught

\* The agent has read no marker that nobody left.
MarkerAhead == agent.seen <= stored.marker

\* The days out of contact are counted on the disk and in memory alike, unless
\* the last contact was too short to be saved.
AgeCounted == ~unsaved => stored.age = away /\ agent.age = away

DeviceInv == DeviceTypes /\ PauseStored /\ TamperStored /\ MarkerAhead /\ AgeCounted

\* A capped count stays within its cap.
LEMMA OneMoreBounded ==
  ASSUME NEW cap \in Nat, NEW n \in 0..cap
  PROVE  OneMore(n, cap) \in 0..cap
BY DEF OneMore

\* The initial state satisfies the invariant.
LEMMA DeviceInvInit == DeviceInit => DeviceInv
<1> SUFFICES ASSUME DeviceInit PROVE DeviceInv
  OBVIOUS
<1>1. agent \in Locks /\ stored \in Disk
  BY DeviceLocksAssumption DEF DeviceInit, Locks, Disk, Confirmations, BootMinutes
<1>2. DeviceTypes
  <2>1. away \in 0..LockdownDays
    BY DeviceLocksAssumption DEF DeviceInit
  <2>. QED
    BY <1>1, <2>1 DEF DeviceInit, DeviceTypes
<1>3. PauseStored /\ TamperStored /\ MarkerAhead /\ AgeCounted
  BY DEF DeviceInit, PauseStored, PauseHolds, TamperStored, MarkerAhead, AgeCounted, Unread
<1>. QED
  BY <1>2, <1>3 DEF DeviceInv

\* A step that leaves the locks, the disk and their history alone keeps it.
LEMMA DeviceUntouched ==
  ASSUME DeviceInv, UNCHANGED <<agent, stored, unlocker, paused, caught, away, missed,
                                overtaken, unsaved>>,
         agentUp' \in {agentUp, FALSE}
  PROVE  DeviceInv'
<1>1. DeviceTypes'
  BY DEF DeviceInv, DeviceTypes
<1>2. PauseStored'
  <2>1. PauseHolds'
    BY Zenon DEF DeviceInv, PauseStored, PauseHolds
  <2>. QED
    BY <2>1 DEF DeviceInv, PauseStored, Unread
<1>3. TamperStored' /\ MarkerAhead' /\ AgeCounted'
  BY DEF DeviceInv, TamperStored, MarkerAhead, AgeCounted
<1>. QED
  BY <1>1, <1>2, <1>3 DEF DeviceInv

\* What happens to the computer leaves its locks alone.
LEMMA DeviceWorld ==
  ASSUME DeviceInv,
         \/ \E n \in Networks : NetworkChanges(n)
         \/ DayGoesBy \/ MinuteGoesBy \/ FirewallFlushed \/ AgentStops
  PROVE  DeviceInv'
<1>0. LockdownDays \in Nat /\ DeviceTypes /\ PauseStored /\ TamperStored /\ MarkerAhead
      /\ AgeCounted
  BY DeviceLocksAssumption DEF DeviceInv
<1>1. CASE (\E n \in Networks : NetworkChanges(n)) \/ FirewallFlushed \/ AgentStops
  BY <1>1, DeviceUntouched DEF NetworkChanges, FirewallFlushed, AgentStops, deviceHistory
<1>2. CASE DayGoesBy
  <2>0. /\ agent.age \in 0..LockdownDays /\ stored.age \in 0..LockdownDays
        /\ away \in 0..LockdownDays
    BY <1>0 DEF DeviceTypes, Locks, Disk
  <2>1. /\ OneMore(agent.age, LockdownDays) \in 0..LockdownDays
        /\ OneMore(stored.age, LockdownDays) \in 0..LockdownDays
        /\ away' \in 0..LockdownDays
    BY <1>0, <1>2, <2>0, OneMoreBounded DEF DayGoesBy
  <2>4. agent' \in Locks /\ stored' \in Disk
    BY <1>0, <1>2, <2>1 DEF DayGoesBy, DeviceTypes, Locks, Disk
  <2>2. DeviceTypes'
    BY <1>0, <1>2, <2>1, <2>4 DEF DayGoesBy, DeviceTypes
  <2>3. AgeCounted'
    BY <1>0, <1>2 DEF DayGoesBy, AgeCounted, DeviceTypes, Locks, Disk
  <2>. QED
    BY <1>0, <1>2, <2>2, <2>3
    DEF DayGoesBy, DeviceInv, PauseStored, PauseHolds, TamperStored, MarkerAhead, Unread, DeviceTypes,
        Locks, Disk
<1>3. CASE MinuteGoesBy
  <2>1. agent' \in Locks
    BY <1>0, <1>3, OneMoreBounded DEF MinuteGoesBy, BootMinutes, DeviceTypes, Locks
  <2>2. DeviceTypes'
    BY <1>0, <1>3, <2>1 DEF MinuteGoesBy, deviceHistory, DeviceTypes
  <2>. QED
    BY <1>0, <1>3, <2>2
    DEF MinuteGoesBy, deviceHistory, DeviceInv, DeviceTypes, Locks, PauseStored, PauseHolds,
        TamperStored, MarkerAhead, AgeCounted, Unread
<1>. QED
  BY <1>1, <1>2, <1>3

\* An agent that starts has the locks the disk has, and takes a marker it finds
\* there for one it has read.
LEMMA DeviceStarts ==
  ASSUME DeviceInv, AgentStarts
  PROVE  DeviceInv'
<1>0. DeviceTypes /\ PauseStored /\ TamperStored /\ MarkerAhead /\ AgeCounted
  BY DEF DeviceInv
<1>1. /\ agent' = Loaded /\ agentUp' = TRUE
      /\ missed' = (missed \/ stored.marker # agent.seen)
      /\ UNCHANGED <<stored, unlocker, paused, caught, away, overtaken, unsaved>>
  BY DEF AgentStarts
<1>2. DeviceTypes'
  <2>1. agent' \in Locks
    <3>1. /\ stored.pause \in BOOLEAN /\ stored.tamper \in BOOLEAN
          /\ stored.age \in 0..LockdownDays /\ stored.marker \in Nat
      BY <1>0 DEF DeviceTypes, Disk
    <3>2. 0 \in 0..Confirmations /\ 0 \in 0..BootMinutes
      BY DEF Confirmations, BootMinutes
    <3>. QED
      BY <1>1, <3>1, <3>2 DEF Loaded, Locks
  <2>. QED
    BY <1>0, <1>1, <2>1 DEF DeviceTypes
<1>3. PauseStored'
  BY <1>0, <1>1 DEF PauseStored, PauseHolds, Unread, Loaded
<1>4. TamperStored'
  BY <1>0, <1>1 DEF TamperStored, Loaded
<1>5. MarkerAhead' /\ AgeCounted'
  <2>1. agent'.seen = stored'.marker /\ stored'.marker \in Nat /\ agent'.age = stored.age
    BY <1>0, <1>1 DEF Loaded, DeviceTypes, Disk
  <2>. QED
    BY <1>0, <1>1, <2>1 DEF MarkerAhead, AgeCounted
<1>. QED
  BY <1>2, <1>3, <1>4, <1>5 DEF DeviceInv

\* An `ost unlock` lifts the stored pause, and then leaves its marker.
LEMMA DeviceUnlocker ==
  ASSUME DeviceInv, UnlockTearsDown \/ UnlockClearsPause \/ UnlockLeavesMarker
  PROVE  DeviceInv'
<1>0. DeviceTypes /\ PauseStored /\ TamperStored /\ MarkerAhead /\ AgeCounted
  BY DEF DeviceInv
<1>1. CASE UnlockTearsDown
  <2>1. /\ unlocker = "idle" /\ unlocker' = "torn down"
        /\ UNCHANGED <<agent, agentUp, stored, paused, caught, away, missed, overtaken,
                       unsaved>>
    BY <1>1 DEF UnlockTearsDown, deviceHistory
  <2>2. DeviceTypes'
    BY <1>0, <2>1 DEF DeviceTypes
  <2>3. PauseStored'
    BY <1>0, <2>1 DEF PauseStored, PauseHolds, Unread
  <2>. QED
    BY <1>0, <2>1, <2>2, <2>3 DEF DeviceInv, TamperStored, MarkerAhead, AgeCounted
<1>2. CASE UnlockClearsPause
  <2>1. stored' \in Disk
    BY <1>0, <1>2 DEF UnlockClearsPause, DeviceTypes, Disk
  <2>2. DeviceTypes'
    BY <1>0, <1>2, <2>1 DEF UnlockClearsPause, DeviceTypes
  <2>. QED
    BY <1>0, <1>2, <2>2
    DEF UnlockClearsPause, DeviceInv, DeviceTypes, Disk, PauseStored, PauseHolds,
        TamperStored, MarkerAhead, AgeCounted, Unread
<1>3. CASE UnlockLeavesMarker
  <2>1. stored' \in Disk /\ stored'.marker = stored.marker + 1
    BY <1>0, <1>3 DEF UnlockLeavesMarker, DeviceTypes, Disk
  <2>2. DeviceTypes'
    BY <1>0, <1>3, <2>1 DEF UnlockLeavesMarker, DeviceTypes
  <2>3. MarkerAhead' /\ stored'.marker # agent'.seen
    BY <1>0, <1>3, <2>1
    DEF UnlockLeavesMarker, DeviceTypes, Disk, Locks, MarkerAhead
  <2>. QED
    BY <1>0, <1>3, <2>2, <2>3
    DEF UnlockLeavesMarker, DeviceInv, DeviceTypes, Disk, PauseStored, PauseHolds,
        TamperStored, AgeCounted, Unread
<1>. QED
  BY <1>1, <1>2, <1>3

\* What a parent sends, and a code at the lock.
LEMMA DeviceParent ==
  ASSUME DeviceInv,
         \/ \E code \in BOOLEAN : Contact(code)
         \/ \E window \in BOOLEAN : LockCommand(window)
         \/ WindowCloses \/ UnlockCommand \/ UnlockCode
  PROVE  DeviceInv'
<1>0. DeviceTypes /\ PauseStored /\ TamperStored /\ MarkerAhead /\ AgeCounted
  BY DEF DeviceInv
<1>1. 0 \in 0..LockdownDays
  BY DeviceLocksAssumption
<1>2. ASSUME NEW code \in BOOLEAN, Contact(code) PROVE DeviceInv'
  <2>1. agent' \in Locks /\ stored' \in Disk
    BY <1>0, <1>1, <1>2 DEF Contact, DeviceTypes, Locks, Disk
  <2>2. DeviceTypes'
    BY <1>0, <1>1, <1>2, <2>1 DEF Contact, DeviceTypes
  <2>3. AgeCounted'
    BY <1>0, <1>2 DEF Contact, DeviceTypes, Locks, Disk, AgeCounted
  <2>. QED
    BY <1>0, <1>2, <2>2, <2>3
    DEF Contact, DeviceInv, DeviceTypes, Locks, Disk, PauseStored, PauseHolds,
        TamperStored, MarkerAhead, Unread
<1>3. ASSUME NEW window \in BOOLEAN, LockCommand(window) PROVE DeviceInv'
  <2>1. agent' \in Locks /\ stored' \in Disk
    BY <1>0, <1>3 DEF LockCommand, DeviceTypes, Locks, Disk
  <2>2. DeviceTypes'
    BY <1>0, <1>3, <2>1 DEF LockCommand, DeviceTypes, Unread
  <2>. QED
    BY <1>0, <1>3, <2>2
    DEF LockCommand, DeviceInv, DeviceTypes, Locks, Disk, PauseStored, PauseHolds,
        TamperStored, MarkerAhead, AgeCounted, Unread
<1>4. CASE WindowCloses
  <2>1. agent' \in Locks
    BY <1>0, <1>4 DEF WindowCloses, DeviceTypes, Locks
  <2>2. DeviceTypes'
    BY <1>0, <1>4, <2>1 DEF WindowCloses, deviceHistory, DeviceTypes
  <2>. QED
    BY <1>0, <1>4, <2>2
    DEF WindowCloses, deviceHistory, DeviceInv, DeviceTypes, Locks, PauseStored, PauseHolds,
        TamperStored, MarkerAhead, AgeCounted, Unread
<1>5. CASE UnlockCommand
  <2>1. agent' \in Locks /\ stored' \in Disk
    BY <1>0, <1>5 DEF UnlockCommand, DeviceTypes, Locks, Disk
  <2>2. DeviceTypes'
    BY <1>0, <1>5, <2>1 DEF UnlockCommand, DeviceTypes
  <2>. QED
    BY <1>0, <1>5, <2>2
    DEF UnlockCommand, DeviceInv, DeviceTypes, Locks, Disk, PauseStored, PauseHolds,
        TamperStored, MarkerAhead, AgeCounted, Unread
<1>6. CASE UnlockCode
  <2>1. agent' = [agent EXCEPT !.pause = FALSE, !.grace = FALSE, !.offline = FALSE,
                               !.tamper = FALSE, !.age = 0]
    BY <1>6 DEF UnlockCode, Recovered
  <2>2. stored' = [stored EXCEPT !.pause = FALSE, !.tamper = FALSE, !.age = 0]
    BY <1>0, <1>6, <2>1 DEF UnlockCode, StoreRecovery, DeviceTypes, Locks
  <2>3. /\ paused' = FALSE /\ caught' = FALSE /\ away' = 0 /\ unsaved' = FALSE
        /\ UNCHANGED <<agentUp, unlocker, missed, overtaken>>
    BY <1>6 DEF UnlockCode
  <2>4. agent' \in Locks /\ stored' \in Disk
    BY <1>0, <1>1, <2>1, <2>2 DEF DeviceTypes, Locks, Disk
  <2>5. DeviceTypes'
    BY <1>0, <1>1, <2>3, <2>4 DEF DeviceTypes
  <2>. QED
    BY <1>0, <2>1, <2>2, <2>3, <2>5
    DEF DeviceInv, DeviceTypes, Locks, Disk, PauseStored, PauseHolds, TamperStored,
        MarkerAhead, AgeCounted, Unread
<1>. QED
  BY <1>2, <1>3, <1>4, <1>5, <1>6

\* A tick: the marker, the days and the strikes.
LEMMA DeviceTicks ==
  ASSUME DeviceInv, DeviceTick
  PROVE  DeviceInv'
<1> DEFINE a == Honoured(agent)
<1>0. DeviceTypes /\ PauseStored /\ TamperStored /\ MarkerAhead /\ AgeCounted
  BY DEF DeviceInv
<1>4. 0 \in 0..LockdownDays
  BY DeviceLocksAssumption
<1>1. /\ Confirmed(a) \in BOOLEAN
      /\ OfflineEngaged(a) \in BOOLEAN
      /\ Strikes(a) \in 0..Confirmations
  <2>1. a.strikes \in 0..Confirmations
    BY <1>0 DEF Honoured, Recovered, DeviceTypes, Locks
  <2>2. Strikes(a) \in 0..Confirmations
    <3>1. OneMore(a.strikes, Confirmations) \in 0..Confirmations
      BY <2>1, OneMoreBounded DEF Confirmations
    <3>. QED
      BY <3>1 DEF Strikes, Confirmations
  <2>3. Confirmed(a) \in BOOLEAN
    BY DEF Confirmed
  <2>4. OfflineEngaged(a) \in BOOLEAN
    BY DEF OfflineEngaged
  <2>. QED
    BY <2>2, <2>3, <2>4
<1>2. CASE stored.marker = agent.seen
  <2>1. a = agent
    BY <1>2 DEF Honoured
  <2>2. agent' = [agent EXCEPT !.offline = OfflineEngaged(a), !.strikes = Strikes(a),
                               !.tamper = @ \/ Confirmed(a)]
    BY <2>1 DEF DeviceTick
  <2>3. /\ stored' = [stored EXCEPT !.tamper = agent'.tamper]
        /\ caught' = (caught \/ Confirmed(a))
        /\ UNCHANGED <<away, missed, unsaved, agentUp, unlocker, paused, overtaken>>
    BY <2>1 DEF DeviceTick
  <2> HIDE DEF a
  <2>4. agent' \in Locks /\ stored' \in Disk
    BY <1>0, <1>1, <2>2, <2>3 DEF DeviceTypes, Locks, Disk
  <2>5. DeviceTypes'
    BY <1>0, <1>1, <2>3, <2>4 DEF DeviceTypes
  <2>6. PauseStored' /\ MarkerAhead' /\ AgeCounted'
    BY <1>0, <2>2, <2>3
    DEF DeviceTypes, Locks, Disk, PauseStored, PauseHolds, MarkerAhead, AgeCounted, Unread
  <2>7. TamperStored'
    BY <1>0, <1>1, <2>2, <2>3 DEF DeviceTypes, Locks, Disk, TamperStored
  <2>. QED
    BY <2>5, <2>6, <2>7 DEF DeviceInv
<1>3. CASE stored.marker # agent.seen
  <2>1. a = [agent EXCEPT !.pause = FALSE, !.grace = FALSE, !.offline = FALSE,
                          !.tamper = FALSE, !.age = 0, !.seen = stored.marker]
    BY <1>0, <1>3 DEF Honoured, Recovered, DeviceTypes, Locks
  <2>2. a # agent /\ a \in Locks
    <3>1. stored.marker \in Nat /\ agent \in Locks
      BY <1>0 DEF DeviceTypes, Disk
    <3>2. a \in Locks /\ a.seen = stored.marker
      BY <1>4, <2>1, <3>1 DEF Locks
    <3>. QED
      BY <1>3, <3>2
  <2>3. /\ agent' = [a EXCEPT !.offline = OfflineEngaged(a), !.strikes = Strikes(a),
                              !.tamper = @ \/ Confirmed(a)]
        /\ stored' = [stored EXCEPT !.pause = FALSE, !.tamper = agent'.tamper,
                                    !.age = agent'.age]
        /\ caught' = Confirmed(a) /\ away' = 0 /\ missed' = FALSE /\ unsaved' = FALSE
        /\ UNCHANGED <<agentUp, unlocker, paused, overtaken>>
    BY <2>2 DEF DeviceTick, StoreRecovery
  <2>4. /\ a.pause = FALSE /\ a.grace = FALSE /\ a.tamper = FALSE /\ a.age = 0
        /\ a.seen = stored.marker
    BY <1>0, <2>1 DEF DeviceTypes, Locks
  <2> HIDE DEF a
  <2>5. /\ agent'.pause = FALSE /\ agent'.grace = FALSE /\ agent'.tamper = Confirmed(a)
        /\ agent'.age = 0 /\ agent'.seen = stored.marker
    BY <1>1, <2>2, <2>3, <2>4 DEF Locks
  <2>6. /\ stored'.pause = FALSE /\ stored'.tamper = Confirmed(a) /\ stored'.age = 0
        /\ stored'.marker = stored.marker
    BY <1>0, <2>3, <2>5 DEF DeviceTypes, Disk
  <2>7. agent' \in Locks
    BY <1>1, <2>2, <2>3 DEF Locks
  <2>8. stored' \in Disk
    BY <1>4, <1>0, <1>1, <2>3, <2>5 DEF DeviceTypes, Disk
  <2>9. DeviceTypes'
    BY <1>0, <1>1, <2>3, <2>7, <2>8, <1>4 DEF DeviceTypes
  <2>10. PauseStored'
    BY <1>0, <1>3, <2>3, <2>5, <2>6 DEF PauseStored, PauseHolds, Unread
  <2>11. TamperStored'
    BY <2>3, <2>5, <2>6 DEF TamperStored
  <2>12. MarkerAhead'
    <3>1. stored.marker \in Nat
      BY <1>0 DEF DeviceTypes, Disk
    <3>. QED
      BY <2>5, <2>6, <3>1 DEF MarkerAhead
  <2>13. AgeCounted'
    BY <2>3, <2>5, <2>6 DEF AgeCounted
  <2>. QED
    BY <2>9, <2>10, <2>11, <2>12, <2>13 DEF DeviceInv
<1>. QED
  BY <1>2, <1>3

\* Every step keeps the invariant.
LEMMA DeviceInvStep == DeviceInv /\ [DeviceNext]_deviceVars => DeviceInv'
<1> SUFFICES ASSUME DeviceInv, [DeviceNext]_deviceVars PROVE DeviceInv'
  OBVIOUS
<1>1. CASE UNCHANGED deviceVars
  BY <1>1, DeviceUntouched DEF deviceVars
<1>2. CASE DeviceNext
  BY <1>2, DeviceWorld, DeviceStarts, DeviceUnlocker, DeviceParent, DeviceTicks DEF DeviceNext
<1>. QED
  BY <1>1, <1>2

\* The whole-device locks tell the truth: a pause and an evasion lockdown last
\* through ticks, crashes and the power button until a parent lifts them, none
\* comes back once lifted, and an offline lockdown is about days really counted.
THEOREM LocksAreTruthful == DeviceSpec => []LocksTruthful
<1>1. DeviceInv => LocksTruthful
  <2> SUFFICES ASSUME DeviceInv PROVE LocksTruthful
    OBVIOUS
  <2>1. agentUp => ParentStands
    BY DEF DeviceInv, DeviceTypes, PauseStored, TamperStored, ParentStands, Unread
  <2>2. LockdownIsDue
    BY DEF DeviceInv, DeviceTypes, Locks, AgeCounted, LockdownIsDue
  <2>. QED
    BY <2>1, <2>2
    DEF DeviceInv, PauseStored, TamperStored, LocksTruthful, PauseHolds, CaughtHolds, ParentStands
<1>. QED
  BY <1>1, DeviceInvInit, DeviceInvStep, PTL DEF DeviceSpec

(***************************************************************************)
(* The inductive invariant of the trusted clock.                           *)
(***************************************************************************)

Clocks == [boot : Int, wall : Int, at : Int, source : Sources, high : Int]
Ledgers == [clock : Clocks, day : Int, until : Int]

ClockTypes ==
  /\ real \in Int /\ bootAt \in Int /\ skew \in Skews /\ synced \in BOOLEAN
  /\ ledger \in Ledgers /\ disk \in Ledgers /\ now \in Int /\ answer \in Int
  /\ ticked \in BOOLEAN /\ slipped \in BOOLEAN /\ drawn \in BOOLEAN

\* Times are past the epoch, NTP does not vouch for a wall clock that is off,
\* and the server's answers are of the past.
WorldTrue ==
  /\ DayLength <= bootAt /\ bootAt <= real
  /\ synced => skew = 0
  /\ answer # Nothing => 0 <= answer /\ answer <= real

\* A clock anchored in this boot reads what its source vouches for, and one
\* anchored at boot is not behind its mark.
AnchoredWell(c) ==
  /\ c.boot <= bootAt
  /\ c.boot = bootAt =>
       /\ 0 <= c.wall /\ c.at <= real - bootAt
       /\ c.source = "ntp" => Extrapolate(c) = real
       /\ c.source = "server" => Extrapolate(c) <= real
       /\ c.source = "boot" => c.high <= Extrapolate(c)

\* The ledger on the disk has the day of the one in memory, ends no override
\* later, and has a later mark only if the server spoke since it was saved.
SavedBehind ==
  /\ disk.day = ledger.day
  /\ disk.until <= ledger.until
  /\ ledger.clock.high < disk.clock.high =>
       ledger.clock.boot = bootAt /\ ledger.clock.source # "boot"

\* Unless a correction left the day ahead, no ledger's day is past its mark.
DayMarked ==
  /\ DayFollowsTime
  /\ ~slipped => /\ ledger.day <= DayOf(ledger.clock.high)
                 /\ disk.day <= DayOf(disk.clock.high)

\* Unless a correction drew it out, an override ends within its minutes of the
\* mark, or of the time the clock in memory reads.
EndMarked ==
  /\ OverrideEnds
  /\ ~drawn =>
       /\ disk.until <= Later(Nothing, disk.clock.high + Minutes)
       /\ \/ ledger.until <= Later(Nothing, ledger.clock.high + Minutes)
          \/ /\ ledger.clock.boot = bootAt
             /\ ledger.until <= Extrapolate(ledger.clock) + Minutes

Reading == ticked => ledger.clock.boot = bootAt /\ 0 <= now

ClockInv ==
  /\ ClockTypes /\ WorldTrue /\ AnchoredWell(ledger.clock) /\ AnchoredWell(disk.clock)
  /\ Reading /\ SavedBehind /\ DayMarked /\ EndMarked

\* A later time is on the same day or a later one, and no day of a time past
\* `Nothing` is before it.
LEMMA DayMonotone ==
  ASSUME NEW s \in Int, NEW t \in Int, s <= t
  PROVE  DayOf(s) \in Int /\ DayOf(s) <= DayOf(t)
BY ClockAssumption DEF DayOf

LEMMA DayOfNothing == Nothing <= DayOf(Nothing)
BY ClockAssumption DEF DayOf, Nothing

\* The later of two times.
LEMMA LaterIs ==
  ASSUME NEW s \in Int, NEW t \in Int
  PROVE  /\ Later(s, t) \in Int /\ s <= Later(s, t) /\ t <= Later(s, t)
         /\ Later(s, t) \in {s, t}
BY DEF Later

\* The initial state satisfies the invariant.
LEMMA ClockInvInit == ClockInit => ClockInv
<1> SUFFICES ASSUME ClockInit PROVE ClockInv
  OBVIOUS
<1>1. NewLedger \in Ledgers
  BY DEF NewLedger, Ledgers, Clocks, Sources, Nothing
<1>2. DayLength \in Nat /\ 1 <= DayLength /\ Minutes \in Nat /\ 0 \in Skews
  BY ClockAssumption
<1>3. ClockTypes
  <2>1. real \in Int /\ bootAt \in Int /\ now \in Int /\ answer \in Int
    BY <1>2 DEF ClockInit, Nothing
  <2>. QED
    BY <1>1, <1>2, <2>1 DEF ClockInit, ClockTypes
<1>7. WorldTrue /\ Reading
  BY <1>2 DEF ClockInit, WorldTrue, Reading
<1>4. AnchoredWell(NewLedger.clock)
  BY <1>2 DEF ClockInit, AnchoredWell, NewLedger, Nothing
<1>5. SavedBehind /\ DayMarked
  BY <1>2, DayOfNothing
  DEF ClockInit, SavedBehind, DayMarked, DayFollowsTime, NewLedger, Nothing
<1>6. EndMarked
  BY <1>2 DEF ClockInit, EndMarked, OverrideEnds, NewLedger, Nothing, Later
<1>. QED
  BY <1>3, <1>4, <1>5, <1>6, <1>7 DEF ClockInit, ClockInv

\* An anchor keeps the mark and nothing else.
LEMMA AnchorIs ==
  ASSUME NEW c \in Clocks, NEW t, NEW from
  PROVE  AnchorAt(c, t, from) = [boot |-> bootAt, wall |-> t, at |-> real - bootAt,
                                 source |-> from, high |-> c.high]
<1> SUFFICES ASSUME NEW a, a = AnchorAt(c, t, from)
             PROVE  a = [boot |-> bootAt, wall |-> t, at |-> real - bootAt,
                         source |-> from, high |-> c.high]
  OBVIOUS
<1>. QED
  BY DEF AnchorAt, Clocks

\* What a clock reads once it has been anchored in this boot, or again.
LEMMA ReAnchoredReads ==
  ASSUME ClockInv
  PROVE  LET a == ReAnchored(ledger.clock)
         IN  /\ a \in Clocks /\ a.boot = bootAt /\ a.high = ledger.clock.high
             /\ 0 <= a.wall /\ a.at <= real - bootAt
             /\ a.source = "ntp" => Extrapolate(a) = real
             /\ a.source = "server" => Extrapolate(a) <= real
             /\ a.source = "boot" => a.high <= Extrapolate(a)
             /\ ledger.clock.boot = bootAt /\ synced => a.source = "ntp"
             /\ ledger.clock.boot = bootAt /\ ~synced => a = ledger.clock
             /\ ledger.clock.boot # bootAt => a.source = "boot"
<1> DEFINE c == ledger.clock
           a == ReAnchored(c)
<1>0. /\ c \in Clocks /\ real \in Int /\ bootAt \in Int /\ skew \in Int
      /\ bootAt <= real /\ 0 <= WallNow /\ WallNow \in Int /\ (synced => skew = 0)
      /\ AnchoredWell(c)
  BY ClockAssumption DEF ClockInv, ClockTypes, WorldTrue, Ledgers, WallNow
<1>1. ASSUME NEW t \in Int, 0 <= t, NEW from \in Sources, a = AnchorAt(c, t, from)
      PROVE  /\ a \in Clocks /\ a.boot = bootAt /\ a.high = c.high /\ 0 <= a.wall
             /\ a.at <= real - bootAt /\ Extrapolate(a) = t /\ a.source = from
  <2>1. a = [boot |-> bootAt, wall |-> t, at |-> real - bootAt, source |-> from,
             high |-> c.high]
    BY <1>0, <1>1, AnchorIs
  <2>2. a \in Clocks
    BY <1>0, <1>1, <2>1 DEF Clocks
  <2>. QED
    BY <1>0, <1>1, <2>1, <2>2 DEF Extrapolate
<1>2. CASE c.boot # bootAt
  <2>1. a = AnchorAt(c, Later(c.high, WallNow), "boot")
    BY <1>2 DEF ReAnchored
  <2>2. /\ Later(c.high, WallNow) \in Int /\ 0 <= Later(c.high, WallNow)
        /\ c.high <= Later(c.high, WallNow)
    BY <1>0 DEF Clocks, Later
  <2>3. /\ a \in Clocks /\ a.boot = bootAt /\ a.high = c.high /\ 0 <= a.wall
        /\ a.at <= real - bootAt /\ Extrapolate(a) = Later(c.high, WallNow)
        /\ a.source = "boot"
    BY <1>1, <2>1, <2>2 DEF Sources
  <2>. QED
    BY <1>2, <2>2, <2>3
<1>3. CASE c.boot = bootAt /\ synced
  <2>1. a = AnchorAt(c, WallNow, "ntp")
    BY <1>3 DEF ReAnchored
  <2>2. WallNow = real
    BY <1>0, <1>3 DEF WallNow
  <2>3. /\ a \in Clocks /\ a.boot = bootAt /\ a.high = c.high /\ 0 <= a.wall
        /\ a.at <= real - bootAt /\ Extrapolate(a) = WallNow /\ a.source = "ntp"
    BY <1>0, <1>1, <2>1 DEF Sources
  <2>. QED
    BY <1>3, <2>2, <2>3
<1>4. CASE c.boot = bootAt /\ ~synced
  <2>1. a = c
    BY <1>4 DEF ReAnchored
  <2>. QED
    BY <1>0, <1>4, <2>1 DEF AnchoredWell
<1>. QED
  BY <1>2, <1>3, <1>4

\* A reading is of this boot, is a time past the epoch and not past the mark it
\* leaves; and only NTP puts the mark back.
LEMMA Observed ==
  ASSUME ClockInv
  PROVE  LET c == Observe(ledger.clock)
         IN  /\ c \in Clocks /\ c.boot = bootAt /\ AnchoredWell(c)
             /\ 0 <= Extrapolate(c) /\ Extrapolate(c) <= c.high
             /\ Extrapolate(c) \in Int
             /\ c.high < ledger.clock.high => c.source = "ntp"
             /\ ledger.clock.boot = bootAt /\ ledger.clock.source # "boot" =>
                  c.source # "boot"
<1> DEFINE a == ReAnchored(ledger.clock)
           c == Observe(ledger.clock)
           vouched == ledger.clock.boot = bootAt /\ synced
<1>1. /\ a \in Clocks /\ a.boot = bootAt /\ a.high = ledger.clock.high
      /\ 0 <= a.wall /\ a.at <= real - bootAt
      /\ a.source = "ntp" => Extrapolate(a) = real
      /\ a.source = "server" => Extrapolate(a) <= real
      /\ a.source = "boot" => a.high <= Extrapolate(a)
      /\ vouched => a.source = "ntp"
      /\ ledger.clock.boot = bootAt /\ ~synced => a = ledger.clock
  BY ReAnchoredReads
<1>2. real \in Int /\ bootAt \in Int /\ bootAt <= real
  BY DEF ClockInv, ClockTypes, WorldTrue
<1>3. c = [a EXCEPT !.high = IF vouched THEN Extrapolate(a) ELSE Later(a.high, Extrapolate(a))]
  BY DEF Observe
<1> HIDE DEF a, c, vouched
<1>4. Extrapolate(a) \in Int /\ 0 <= Extrapolate(a)
  BY <1>1, <1>2 DEF Extrapolate, Clocks
<1>5. /\ c \in Clocks /\ c.boot = bootAt /\ c.wall = a.wall /\ c.at = a.at
      /\ c.source = a.source
      /\ c.high = IF vouched THEN Extrapolate(a) ELSE Later(a.high, Extrapolate(a))
  BY <1>1, <1>3, <1>4 DEF Clocks, Later
<1>6. Extrapolate(c) = Extrapolate(a)
  BY <1>5 DEF Extrapolate
<1>7. Extrapolate(c) <= c.high /\ (c.source = "boot" => c.high <= Extrapolate(c))
  BY <1>1, <1>4, <1>5, <1>6 DEF Later, Clocks
<1>8. c.high < ledger.clock.high => c.source = "ntp"
  BY <1>1, <1>4, <1>5 DEF Later, Clocks
<1>9. ledger.clock.boot = bootAt /\ ledger.clock.source # "boot" => c.source # "boot"
  BY <1>1, <1>5 DEF vouched
<1>10. AnchoredWell(c)
  BY <1>1, <1>2, <1>5, <1>6, <1>7 DEF AnchoredWell
<1>. QED
  BY <1>4, <1>5, <1>6, <1>7, <1>8, <1>9, <1>10 DEF c

\* A reading of the clock, with the override as a tick or a grant leaves it, is
\* saved as it is; what was not drawn out before stays within its minutes.
LEMMA ClockReads ==
  ASSUME ClockInv, NEW u, NEW c, NEW t, NEW l, NEW d,
         u \in {Nothing, ledger.until, t + Minutes},
         c = Observe(ledger.clock), t = Extrapolate(c), d = Later(ledger.day, DayOf(t)),
         l = [clock |-> c, day |-> d, until |-> ledger.until],
         ledger' = [clock |-> c, day |-> d, until |-> u],
         Read(l), disk' = ledger',
         UNCHANGED <<real, skew, synced, bootAt, answer>>
  PROVE  ClockInv'
<1>0. ClockTypes /\ WorldTrue /\ AnchoredWell(ledger.clock) /\ AnchoredWell(disk.clock)
      /\ Reading /\ SavedBehind /\ DayMarked /\ EndMarked
  BY DEF ClockInv
<1>1. /\ c \in Clocks /\ c.boot = bootAt /\ AnchoredWell(c)
      /\ 0 <= t /\ t <= c.high /\ t \in Int
  BY Observed
<1>2. ledger \in Ledgers /\ ledger.clock \in Clocks /\ ledger.day \in Int
      /\ ledger.until \in Int /\ ledger.clock.high \in Int /\ c.high \in Int
  BY <1>0, <1>1 DEF ClockTypes, Ledgers, Clocks
<1>3. Minutes \in Int /\ 1 <= Minutes /\ u \in Int
  BY <1>1, <1>2, ClockAssumption DEF Nothing
<1>4. DayOf(t) \in Int /\ d \in Int /\ ledger.day <= d /\ DayOf(t) <= d
      /\ d \in {ledger.day, DayOf(t)}
  BY <1>1, <1>2, DayMonotone, LaterIs
<1>7. /\ now' = t /\ ticked' = TRUE
      /\ slipped' = ((slipped \/ PutBack(l)) /\ l.day > DayOf(t))
      /\ drawn' = ((drawn \/ PutBack(l)) /\ u # Nothing)
  BY DEF Read
<1>8. ~PutBack(l) => /\ ledger.clock.high <= t
                     /\ ledger.clock.boot = bootAt => Extrapolate(ledger.clock) <= t
  <2>1. Extrapolate(ledger.clock) \in Int
    BY <1>0, <1>2 DEF Extrapolate, Clocks, ClockTypes
  <2>. QED
    BY <1>1, <1>2, <2>1 DEF PutBack
<1>9. PutBack(l) \in BOOLEAN
  BY DEF PutBack
<1>10. ClockTypes'
  <2>1. ledger' \in Ledgers
    BY <1>1, <1>3, <1>4 DEF Ledgers
  <2>2. now' \in Int /\ ticked' \in BOOLEAN /\ slipped' \in BOOLEAN /\ drawn' \in BOOLEAN
    BY <1>1, <1>7
  <2>. QED
    BY <1>0, <2>1, <2>2 DEF ClockTypes
<1>11. WorldTrue' /\ Reading'
  BY <1>0, <1>1, <1>7 DEF WorldTrue, Reading
<1>12. AnchoredWell(ledger.clock)' /\ AnchoredWell(disk.clock)'
  BY <1>1 DEF AnchoredWell, Extrapolate
<1>13. SavedBehind'
  <2>1. disk'.day = ledger'.day /\ disk'.until = u /\ ledger'.until = u
        /\ ledger'.clock.high = disk'.clock.high /\ disk'.clock.high = c.high
    OBVIOUS
  <2>. QED
    BY <1>2, <1>3, <2>1 DEF SavedBehind
<1>14. DayMarked'
  <2>1. ~slipped' => d = DayOf(t)
    <3>1. CASE ~(l.day > DayOf(t))
      BY <1>4, <3>1
    <3>2. CASE ~slipped /\ ~PutBack(l)
      <4>1. ledger.day <= DayOf(ledger.clock.high)
        BY <1>0, <3>2 DEF DayMarked
      <4>2. DayOf(ledger.clock.high) \in Int /\ DayOf(ledger.clock.high) <= DayOf(t)
        BY <1>1, <1>2, <1>8, <3>2, DayMonotone
      <4>. QED
        BY <1>2, <1>4, <4>1, <4>2
    <3>. QED
      BY <1>7, <3>1, <3>2
  <2>2. DayOf(t) <= DayOf(c.high)
    BY <1>1, <1>2, DayMonotone
  <2>3. ledger'.day = d /\ ledger'.clock.high = c.high
        /\ disk' = ledger' /\ now' = t
    BY <1>7
  <2>4. DayFollowsTime'
    BY <1>4, <2>1, <2>3 DEF DayFollowsTime, DayOf
  <2>5. ~slipped' => ledger'.day <= DayOf(ledger'.clock.high)
    BY <2>1, <2>2, <2>3
  <2>. QED
    BY <2>3, <2>4, <2>5 DEF DayMarked, DayOf
<1>15. EndMarked'
  <2>1. ~drawn' => u <= t + Minutes
    <3>1. CASE u = Nothing
      BY <1>1, <1>3, <3>1 DEF Nothing
    <3>2. CASE u = t + Minutes
      BY <1>1, <1>3, <3>2
    <3>3. CASE u = ledger.until /\ ~drawn /\ ~PutBack(l)
      <4>1. \/ ledger.until <= Later(Nothing, ledger.clock.high + Minutes)
            \/ /\ ledger.clock.boot = bootAt
               /\ ledger.until <= Extrapolate(ledger.clock) + Minutes
        BY <1>0, <3>3 DEF EndMarked
      <4>2. Extrapolate(ledger.clock) \in Int
        BY <1>0, <1>2 DEF Extrapolate, Clocks, ClockTypes
      <4>. QED
        BY <1>1, <1>2, <1>3, <1>8, <3>3, <4>1, <4>2 DEF Later, Nothing
    <3>. QED
      BY <1>7, <3>1, <3>2, <3>3
  <2>2. ledger'.until = u /\ disk'.until = u /\ now' = t /\ ledger'.clock.high = c.high
        /\ disk'.clock.high = c.high
    BY <1>7
  <2>3. ~drawn' => u <= Later(Nothing, c.high + Minutes)
    BY <1>1, <1>2, <1>3, <2>1 DEF Later, Nothing
  <2>. QED
    BY <2>1, <2>2, <2>3 DEF EndMarked, OverrideEnds
<1>. QED
  BY <1>10, <1>11, <1>12, <1>13, <1>14, <1>15 DEF ClockInv

\* A tick and a grant read the clock.
LEMMA ClockAgentReads ==
  ASSUME ClockInv, ClockTick \/ GrantTime
  PROVE  ClockInv'
<1> DEFINE c == Observe(ledger.clock)
           t == Extrapolate(c)
           d == Later(ledger.day, DayOf(t))
           l == Advanced(ledger)
<1>1. ledger \in Ledgers
  BY DEF ClockInv, ClockTypes
<1>2. l = [ledger EXCEPT !.clock = c, !.day = d]
  BY DEF Advanced, RollTo
<1>3. \/ ledger' = DropExpired(l, Extrapolate(l.clock))
      \/ ledger' = SetOverride(l, Extrapolate(l.clock) + Minutes)
  BY DEF ClockTick, GrantTime
<1>4. Read(l) /\ disk' = ledger' /\ UNCHANGED <<real, skew, synced, bootAt, answer>>
  BY DEF ClockTick, GrantTime
<1> HIDE DEF c, t, d, l
<1>5. l = [clock |-> c, day |-> d, until |-> ledger.until]
  BY <1>1, <1>2 DEF Ledgers
<1>6. PICK u \in {Nothing, ledger.until, t + Minutes} :
         ledger' = [clock |-> c, day |-> d, until |-> u]
  <2>1. \E u \in {Nothing, ledger.until, t + Minutes} : ledger' = [l EXCEPT !.until = u]
    BY <1>3, <1>5 DEF DropExpired, SetOverride, Later, t
  <2>. QED
    BY <1>5, <2>1
<1>. QED
  BY <1>4, <1>5, <1>6, ClockReads DEF c, t, d

\* Time, and what is done to the wall clock, leave the ledgers alone.
LEMMA ClockWorld ==
  ASSUME ClockInv,
         \/ TimePasses \/ NtpSynchronizes \/ ServerStamps
         \/ \E s \in Skews : SetWallClock(s)
  PROVE  ClockInv'
<1>0. ClockTypes /\ WorldTrue /\ AnchoredWell(ledger.clock) /\ AnchoredWell(disk.clock)
      /\ Reading /\ SavedBehind /\ DayMarked /\ EndMarked
  BY DEF ClockInv
<1>1. /\ UNCHANGED <<bootAt, ledger, disk, now, ticked, slipped, drawn>>
      /\ real' \in {real, real + 1} /\ answer' \in {answer, real} /\ skew' \in Skews
      /\ synced' \in BOOLEAN /\ (synced' => skew' = 0)
      /\ answer' # answer => answer' = real /\ real' = real
  <2>1. CASE TimePasses \/ ServerStamps
    BY <1>0, <2>1 DEF TimePasses, ServerStamps, ClockTypes, WorldTrue
  <2>2. CASE NtpSynchronizes
    BY <2>2, ClockAssumption DEF NtpSynchronizes
  <2>3. CASE \E s \in Skews : SetWallClock(s)
    BY <2>3 DEF SetWallClock
  <2>. QED
    BY <2>1, <2>2, <2>3
<1>2. ledger.clock \in Clocks /\ disk.clock \in Clocks /\ ledger.until \in Int
      /\ real \in Int /\ bootAt \in Int /\ answer \in Int
      /\ DayLength \in Int /\ 1 <= DayLength /\ Minutes \in Int
  BY <1>0, ClockAssumption DEF ClockTypes, Ledgers
<1>3. ClockTypes'
  <2>1. real' \in Int /\ answer' \in Int
    BY <1>1, <1>2
  <2>. QED
    BY <1>0, <1>1, <2>1 DEF ClockTypes
<1>4. WorldTrue'
  BY <1>0, <1>1, <1>2 DEF WorldTrue
<1>5. ASSUME NEW c \in Clocks, AnchoredWell(c)
      PROVE  /\ c.boot <= bootAt
             /\ c.boot = bootAt =>
                  /\ 0 <= c.wall /\ c.at <= real' - bootAt
                  /\ c.source = "ntp" => c.wall + (real' - bootAt) - c.at = real'
                  /\ c.source = "server" => c.wall + (real' - bootAt) - c.at <= real'
                  /\ c.source = "boot" => c.high <= c.wall + (real' - bootAt) - c.at
  BY <1>1, <1>2, <1>5 DEF AnchoredWell, Extrapolate, Clocks
<1>6. AnchoredWell(ledger.clock)' /\ AnchoredWell(disk.clock)'
  BY <1>0, <1>1, <1>2, <1>5 DEF AnchoredWell, Extrapolate
<1>7. Reading' /\ SavedBehind' /\ DayMarked'
  BY <1>0, <1>1 DEF Reading, SavedBehind, DayMarked, DayFollowsTime, DayOf
<1>8. EndMarked'
  <2>1. Extrapolate(ledger.clock) <= Extrapolate(ledger.clock)'
        /\ Extrapolate(ledger.clock) \in Int /\ Extrapolate(ledger.clock)' \in Int
    BY <1>1, <1>2 DEF Extrapolate, Clocks
  <2>. QED
    BY <1>0, <1>1, <1>2, <2>1 DEF EndMarked, OverrideEnds
<1>. QED
  BY <1>3, <1>4, <1>6, <1>7, <1>8 DEF ClockInv

\* A code at the lock gives time from the last reading.
LEMMA ClockCode ==
  ASSUME ClockInv, CodeAtLock
  PROVE  ClockInv'
<1>0. ClockTypes /\ WorldTrue /\ AnchoredWell(ledger.clock) /\ AnchoredWell(disk.clock)
      /\ Reading /\ SavedBehind /\ DayMarked /\ EndMarked
  BY DEF ClockInv
<1> DEFINE u == Later(ledger.until, now + Minutes)
<1>1. ledger.until \in Int /\ disk.until \in Int /\ now \in Int /\ Minutes \in Int
      /\ ledger \in Ledgers /\ ledger.clock \in Clocks /\ real \in Int /\ bootAt \in Int
  BY <1>0, ClockAssumption DEF ClockTypes, Ledgers
<1>2. u \in Int /\ ledger.until <= u /\ u \in {ledger.until, now + Minutes}
  <2>1. now + Minutes \in Int
    BY <1>1
  <2>. QED
    BY <1>1, <2>1, LaterIs
<1>3. ledger' = [ledger EXCEPT !.until = u]
  BY DEF CodeAtLock, SetOverride
<1>4. /\ drawn' = (drawn \/ ~ticked \/ now > Extrapolate(ledger.clock))
      /\ UNCHANGED <<real, skew, synced, bootAt, disk, now, ticked, slipped, answer>>
  BY DEF CodeAtLock
<1> HIDE DEF u
<1>5. /\ ledger' \in Ledgers /\ ledger'.clock = ledger.clock /\ ledger'.day = ledger.day
      /\ ledger'.until = u
  BY <1>1, <1>2, <1>3 DEF Ledgers
<1>6. ClockTypes'
  BY <1>0, <1>4, <1>5 DEF ClockTypes
<1>7. WorldTrue' /\ Reading' /\ AnchoredWell(ledger.clock)' /\ AnchoredWell(disk.clock)'
  BY <1>0, <1>4, <1>5 DEF WorldTrue, Reading, AnchoredWell, Extrapolate
<1>8. SavedBehind'
  BY <1>0, <1>1, <1>2, <1>4, <1>5 DEF SavedBehind
<1>9. DayMarked'
  BY <1>0, <1>4, <1>5 DEF DayMarked, DayFollowsTime, DayOf
<1>10. EndMarked'
  <2> SUFFICES ASSUME ~drawn' PROVE EndMarked'
    BY <1>4, <1>5 DEF EndMarked, OverrideEnds
  <2>1. ~drawn /\ ticked /\ ~(now > Extrapolate(ledger.clock))
    BY <1>4
  <2>2. ledger.clock.boot = bootAt /\ Extrapolate(ledger.clock) \in Int
    BY <1>0, <1>1, <2>1 DEF Reading, Extrapolate, Clocks
  <2>3. ledger.until <= now + Minutes
    BY <1>0, <2>1 DEF EndMarked, OverrideEnds
  <2>4. u <= now + Minutes /\ u <= Extrapolate(ledger.clock) + Minutes
    BY <1>1, <1>2, <2>1, <2>2, <2>3
  <2>5. Extrapolate(ledger.clock)' = Extrapolate(ledger.clock)
    BY <1>4, <1>5 DEF Extrapolate
  <2>. QED
    BY <1>0, <1>4, <1>5, <2>1, <2>2, <2>4, <2>5 DEF EndMarked, OverrideEnds
<1>. QED
  BY <1>6, <1>7, <1>8, <1>9, <1>10 DEF ClockInv

\* The server's answer, believed where NTP does not vouch.
LEMMA ClockServer ==
  ASSUME ClockInv, ServerAnswers
  PROVE  ClockInv'
<1>0. ClockTypes /\ WorldTrue /\ AnchoredWell(ledger.clock) /\ AnchoredWell(disk.clock)
      /\ Reading /\ SavedBehind /\ DayMarked /\ EndMarked
  BY DEF ClockInv
<1>1. ledger \in Ledgers /\ ledger.clock \in Clocks /\ ledger.until \in Int
      /\ ledger.day \in Int /\ disk.until \in Int /\ now \in Int /\ Minutes \in Int
      /\ 1 <= Minutes /\ real \in Int /\ bootAt \in Int /\ answer \in Int
      /\ ledger.clock.high \in Int /\ disk.clock.high \in Int
  BY <1>0, ClockAssumption DEF ClockTypes, Ledgers, Clocks
<1> DEFINE c == ledger'.clock
<1>2. /\ answer' = Nothing
      /\ slipped' = (slipped \/ PutBack(ledger'))
      /\ drawn' = (ledger.until # Nothing /\ (drawn \/ PutBack(ledger')))
      /\ UNCHANGED <<real, skew, synced, bootAt, disk, now, ticked>>
  BY DEF ServerAnswers
<1>3. /\ ledger' \in Ledgers /\ ledger'.day = ledger.day /\ ledger'.until = ledger.until
      /\ \/ c = ledger.clock
         \/ /\ c \in Clocks /\ c.boot = bootAt /\ c.wall = answer /\ c.at = real - bootAt
            /\ c.source = "server" /\ c.high = answer /\ answer # Nothing
  <2>1. CASE ledger' = ledger
    BY <1>1, <2>1
  <2>2. CASE ledger' = [ledger EXCEPT !.clock = ObserveServer(ledger.clock, answer)]
    <3>1. ObserveServer(ledger.clock, answer) =
            [boot |-> bootAt, wall |-> answer, at |-> real - bootAt, source |-> "server",
             high |-> answer]
      BY <1>1, AnchorIs DEF ObserveServer, Sources
    <3>2. ObserveServer(ledger.clock, answer) \in Clocks
      BY <1>1, <3>1 DEF Clocks, Sources
    <3>3. answer # Nothing
      BY DEF ServerAnswers
    <3>4. ledger' = [clock |-> ObserveServer(ledger.clock, answer), day |-> ledger.day,
                     until |-> ledger.until]
      BY <1>1, <2>2 DEF Ledgers
    <3>5. ledger' \in Ledgers
      BY <1>1, <3>2, <3>4 DEF Ledgers
    <3>. QED
      BY <3>1, <3>2, <3>3, <3>4, <3>5
  <2>. QED
    BY <2>1, <2>2 DEF ServerAnswers
<1>4. 0 <= now \/ ~ticked
  BY <1>0 DEF Reading
<1>5. CASE c = ledger.clock
  <2>1. /\ ClockTypes' /\ WorldTrue' /\ Reading' /\ SavedBehind'
        /\ AnchoredWell(ledger.clock)' /\ AnchoredWell(disk.clock)'
    <3>1. slipped' \in BOOLEAN /\ drawn' \in BOOLEAN /\ answer' \in Int
      BY <1>0, <1>2 DEF ClockTypes, PutBack, Nothing
    <3>2. ClockTypes'
      BY <1>0, <1>2, <1>3, <3>1 DEF ClockTypes
    <3>. QED
      BY <1>0, <1>2, <1>3, <1>5, <3>2
      DEF WorldTrue, Reading, SavedBehind, AnchoredWell, Extrapolate
  <2>2. DayMarked'
    BY <1>0, <1>2, <1>3, <1>5 DEF DayMarked, DayFollowsTime, DayOf
  <2>3. EndMarked'
    <3>1. CASE ledger.until = Nothing
      BY <1>0, <1>1, <1>2, <1>3, <1>4, <1>5, <3>1
      DEF EndMarked, OverrideEnds, SavedBehind, Later, Nothing
    <3>2. CASE ledger.until # Nothing
      BY <1>0, <1>2, <1>3, <1>5, <3>2 DEF EndMarked, OverrideEnds, Extrapolate
    <3>. QED
      BY <3>1, <3>2
  <2>. QED
    BY <2>1, <2>2, <2>3 DEF ClockInv
<1>6. CASE /\ c \in Clocks /\ c.boot = bootAt /\ c.wall = answer /\ c.at = real - bootAt
           /\ c.source = "server" /\ c.high = answer /\ answer # Nothing
  <2>0. 0 <= answer /\ answer <= real
    BY <1>0, <1>6 DEF WorldTrue
  <2>1. /\ ClockTypes' /\ WorldTrue' /\ Reading' /\ SavedBehind'
        /\ AnchoredWell(ledger.clock)' /\ AnchoredWell(disk.clock)'
    <3>1. slipped' \in BOOLEAN /\ drawn' \in BOOLEAN /\ answer' \in Int
      BY <1>0, <1>2 DEF ClockTypes, PutBack, Nothing
    <3>2. ClockTypes'
      BY <1>0, <1>2, <1>3, <3>1 DEF ClockTypes
    <3>3. WorldTrue' /\ Reading' /\ SavedBehind'
      BY <1>0, <1>2, <1>3, <1>6 DEF WorldTrue, Reading, SavedBehind
    <3>4. AnchoredWell(ledger.clock)'
      BY <1>1, <1>2, <1>6, <2>0 DEF AnchoredWell, Extrapolate
    <3>5. AnchoredWell(disk.clock)'
      BY <1>0, <1>2 DEF AnchoredWell, Extrapolate
    <3>. QED
      BY <3>2, <3>3, <3>4, <3>5
  <2>2. Extrapolate(c) = answer /\ Extrapolate(ledger.clock) \in Int
    BY <1>1, <1>6 DEF Extrapolate, Clocks
  <2>3. ~PutBack(ledger') => /\ ledger.clock.high <= answer
                             /\ ledger.clock.boot = bootAt =>
                                  Extrapolate(ledger.clock) <= answer
    BY <1>1, <2>2 DEF PutBack
  <2>4. DayMarked'
    <3>1. ~slipped' => ledger.day <= DayOf(answer)
      <4> SUFFICES ASSUME ~slipped' PROVE ledger.day <= DayOf(answer)
        OBVIOUS
      <4>1. ledger.day <= DayOf(ledger.clock.high) /\ ledger.clock.high <= answer
        BY <1>0, <1>2, <2>3 DEF DayMarked
      <4>2. /\ DayOf(ledger.clock.high) \in Int /\ DayOf(answer) \in Int
            /\ DayOf(ledger.clock.high) <= DayOf(answer)
        BY <1>1, <4>1, DayMonotone
      <4>. QED
        BY <1>1, <4>1, <4>2
    <3>. QED
      BY <1>0, <1>2, <1>3, <1>6, <3>1 DEF DayMarked, DayFollowsTime, DayOf
  <2>5. EndMarked'
    <3>1. CASE ledger.until = Nothing
      BY <1>0, <1>1, <1>2, <1>3, <1>4, <1>6, <2>0, <3>1
      DEF EndMarked, OverrideEnds, SavedBehind, Later, Nothing
    <3>2. CASE ledger.until # Nothing
      <4>1. ~drawn' => ledger.until <= Later(Nothing, answer + Minutes)
        <5> SUFFICES ASSUME ~drawn' PROVE ledger.until <= Later(Nothing, answer + Minutes)
          OBVIOUS
        <5>1. ~drawn /\ ~PutBack(ledger')
          BY <1>2, <3>2
        <5>2. \/ ledger.until <= Later(Nothing, ledger.clock.high + Minutes)
              \/ /\ ledger.clock.boot = bootAt
                 /\ ledger.until <= Extrapolate(ledger.clock) + Minutes
          BY <1>0, <5>1 DEF EndMarked
        <5>. QED
          BY <1>1, <2>0, <2>2, <2>3, <5>1, <5>2 DEF Later, Nothing
      <4>. QED
        BY <1>0, <1>2, <1>3, <1>6, <3>2, <4>1 DEF EndMarked, OverrideEnds
    <3>. QED
      BY <3>1, <3>2
  <2>. QED
    BY <2>1, <2>4, <2>5 DEF ClockInv
<1>. QED
  BY <1>3, <1>5, <1>6

\* A process that starts has the saved ledger, in this boot or in a new one
\* that no ledger knows.
LEMMA ClockStarts ==
  ASSUME ClockInv, RestartAgent \/ \E s \in Skews : Reboot(s)
  PROVE  ClockInv'
<1>0. ClockTypes /\ WorldTrue /\ AnchoredWell(ledger.clock) /\ AnchoredWell(disk.clock)
      /\ Reading /\ SavedBehind /\ DayMarked /\ EndMarked
  BY DEF ClockInv
<1>1. /\ ledger' = disk /\ disk' = disk /\ ticked' = FALSE /\ answer' = Nothing
      /\ UNCHANGED <<slipped, drawn>>
      /\ skew' \in Skews /\ now' = real' + skew'
      /\ \/ UNCHANGED <<real, bootAt, synced, skew>>
         \/ real' = real + 1 /\ bootAt' = real + 1 /\ synced' = FALSE
  BY <1>0 DEF RestartAgent, Reboot, StartAgent, ClockTypes
<1>2. /\ real \in Int /\ bootAt \in Int /\ bootAt <= real /\ DayLength <= bootAt
      /\ DayLength \in Int /\ disk \in Ledgers /\ disk.clock \in Clocks
      /\ disk.clock.boot \in Int /\ disk.clock.high \in Int /\ disk.until \in Int
      /\ Minutes \in Int
  BY <1>0, ClockAssumption DEF ClockTypes, WorldTrue, Ledgers, Clocks
<1>3. ClockTypes'
  <2>0. synced' \in BOOLEAN
    BY <1>0, <1>1 DEF ClockTypes
  <2>1. real' \in Int /\ bootAt' \in Int /\ now' \in Int /\ answer' \in Int
    <3>1. skew' \in Int
      BY <1>1, ClockAssumption
    <3>. QED
      BY <1>1, <1>2, <3>1 DEF Nothing
  <2>. QED
    BY <1>0, <1>1, <1>2, <2>0, <2>1 DEF ClockTypes
<1>4. WorldTrue' /\ Reading'
  BY <1>0, <1>1, <1>2 DEF WorldTrue, Reading
<1>5. AnchoredWell(disk.clock)'
  <2>1. CASE UNCHANGED <<real, bootAt, synced, skew>>
    BY <1>0, <1>1, <2>1 DEF AnchoredWell, Extrapolate
  <2>2. CASE real' = real + 1 /\ bootAt' = real + 1
    <3>1. disk.clock.boot <= bootAt' /\ disk.clock.boot # bootAt'
      BY <1>0, <1>2, <2>2 DEF AnchoredWell
    <3>. QED
      BY <1>1, <3>1 DEF AnchoredWell
  <2>. QED
    BY <1>1, <2>1, <2>2
<1>6. AnchoredWell(ledger.clock)'
  BY <1>1, <1>5 DEF AnchoredWell, Extrapolate
<1>7. SavedBehind'
  BY <1>1, <1>2 DEF SavedBehind
<1>8. DayMarked'
  BY <1>0, <1>1 DEF DayMarked, DayFollowsTime, DayOf
<1>9. EndMarked'
  BY <1>0, <1>1 DEF EndMarked, OverrideEnds
<1>. QED
  BY <1>3, <1>4, <1>5, <1>6, <1>7, <1>8, <1>9 DEF ClockInv

\* Every step keeps the invariant.
LEMMA ClockInvStep == ClockInv /\ [ClockNext]_clockVars => ClockInv'
<1> SUFFICES ASSUME ClockInv, [ClockNext]_clockVars PROVE ClockInv'
  OBVIOUS
<1>1. CASE UNCHANGED clockVars
  BY <1>1
  DEF clockVars, ClockInv, ClockTypes, WorldTrue, AnchoredWell, Extrapolate, Reading,
      SavedBehind, DayMarked, DayFollowsTime, DayOf, EndMarked, OverrideEnds
<1>2. CASE ClockNext
  BY <1>2, ClockAgentReads, ClockWorld, ClockCode, ClockServer, ClockStarts DEF ClockNext
<1>. QED
  BY <1>1, <1>2

\* Trusted time holds: what NTP or the server vouched for stays true, a boot
\* heeds the mark, the accounted day is the trusted day and no override outlives
\* its time, but for the corrections that are the exceptions.
THEOREM TrustedTimeHolds == ClockSpec => []TrustHolds
<1>1. ClockInv => TrustHolds
  BY DEF ClockInv, AnchoredWell, DayMarked, EndMarked, TrustHolds, VouchedIsTrue,
         BootHeedsTheMark
<1>. QED
  BY <1>1, ClockInvInit, ClockInvStep, PTL DEF ClockSpec

\* What is saved never goes back: not the day, and the mark only where NTP or
\* the server vouched for less.
THEOREM SavedTimeIsKept == ClockSpec => SavedTimeHolds
<1> DEFINE Kept == /\ disk'.day >= disk.day
                   /\ disk'.clock.high < disk.clock.high => disk'.clock.source # "boot"
<1>1. ClockInv /\ [ClockNext]_clockVars => [Kept]_disk
  <2> SUFFICES ASSUME ClockInv, [ClockNext]_clockVars, disk' # disk PROVE Kept
    OBVIOUS
  <2> DEFINE c == Observe(ledger.clock)
  <2>1. ClockTick \/ GrantTime
    BY DEF ClockNext, clockVars, TimePasses, NtpSynchronizes, ServerStamps, SetWallClock,
           Reboot, CodeAtLock, ServerAnswers, RestartAgent, StartAgent
  <2>2. disk'.clock = c /\ disk'.day = Later(ledger.day, DayOf(Extrapolate(c)))
    <3>1. ledger \in Ledgers
      BY DEF ClockInv, ClockTypes
    <3>2. Advanced(ledger) = [ledger EXCEPT !.clock = c,
                                            !.day = Later(ledger.day, DayOf(Extrapolate(c)))]
      BY DEF Advanced, RollTo
    <3>3. \E u : disk' = [Advanced(ledger) EXCEPT !.until = u]
      BY <2>1 DEF ClockTick, GrantTime, DropExpired, SetOverride
    <3> HIDE DEF c
    <3>. QED
      BY <3>1, <3>2, <3>3 DEF Ledgers
  <2>3. /\ c \in Clocks /\ Extrapolate(c) \in Int
        /\ c.high < ledger.clock.high => c.source = "ntp"
        /\ ledger.clock.boot = bootAt /\ ledger.clock.source # "boot" => c.source # "boot"
    BY Observed
  <2> HIDE DEF c
  <2>4. /\ ledger.day \in Int /\ disk.day = ledger.day /\ c.high \in Int
        /\ ledger.clock.high \in Int /\ disk.clock.high \in Int
        /\ ledger.clock.high < disk.clock.high =>
             ledger.clock.boot = bootAt /\ ledger.clock.source # "boot"
    <3>1. ledger \in Ledgers /\ disk \in Ledgers
      BY DEF ClockInv, ClockTypes
    <3>2. ledger.clock \in Clocks /\ disk.clock \in Clocks /\ ledger.day \in Int
      BY <3>1 DEF Ledgers
    <3>3. c.high \in Int /\ ledger.clock.high \in Int /\ disk.clock.high \in Int
      BY <2>3, <3>2 DEF Clocks
    <3>4. SavedBehind
      BY DEF ClockInv
    <3>. QED
      BY <3>2, <3>3, <3>4 DEF SavedBehind
  <2>5. disk'.day >= disk.day
    <3> DEFINE d == DayOf(Extrapolate(c))
    <3>1. d \in Int
      BY <2>3, DayMonotone
    <3>2. ledger.day \in Int /\ disk.day = ledger.day
      BY <2>4
    <3>3. disk'.day = Later(ledger.day, d)
      BY <2>2
    <3> HIDE DEF d
    <3>4. ledger.day <= Later(ledger.day, d)
      BY <3>1, <3>2, LaterIs
    <3>. QED
      BY <3>2, <3>3, <3>4
  <2>6. c.high < disk.clock.high => c.source # "boot"
    <3>1. CASE c.high < ledger.clock.high
      BY <2>3, <3>1
    <3>2. CASE ledger.clock.high < disk.clock.high
      BY <2>3, <2>4, <3>2
    <3>. QED
      BY <2>4, <3>1, <3>2
  <2>. QED
    BY <2>2, <2>5, <2>6
<1>. QED
  BY <1>1, ClockInvInit, ClockInvStep, PTL DEF ClockSpec, SavedTimeHolds

(***************************************************************************)
(* The inductive invariant of the website rules.                           *)
(***************************************************************************)

Standing == SUBSET {"no_local_resolver", "resolv_conf_not_pinned", "rules_not_written"}
Hosts ==
  [resolver : {"up", "down", "broken"}, resolv : {"pin", "own", "foreign"}, served : BOOLEAN,
   table : {"forced", "plain", "none"}, gaps : Standing, drifted : BOOLEAN]

\* Lookups are forced only past a resolv.conf that was replaced, or where
\* programs ask our resolver.  Unlike HeldBack's half of this it holds in every
\* state: the world takes the pin off only by replacing the file, and stops the
\* resolver without touching either.
ForcedToUs(h) == h.table = "forced" => h.resolv = "pin" \/ h.drifted

\* A pin points at a resolver that runs, as the agent leaves it.
PinAnswers(h) == h.resolv = "pin" => h.resolver = "up"

NetworkTypes ==
  /\ host \in Hosts
  /\ netRules \in [blocks : BOOLEAN, force : BOOLEAN]
  /\ writable \in BOOLEAN /\ focus \in BOOLEAN /\ relaxed \in BOOLEAN

NetworkInv ==
  /\ NetworkTypes
  /\ ForcedToUs(host)
  /\ moved = "agent" => PinAnswers(host)

LEMMA NetworkInvInit == NetworkInit => NetworkInv
<1> SUFFICES ASSUME NetworkInit PROVE NetworkInv
  OBVIOUS
<1>1. host \in Hosts BY DEF NetworkInit, Hosts, Standing
<1>2. netRules \in [blocks : BOOLEAN, force : BOOLEAN] BY DEF NetworkInit
<1>3. writable \in BOOLEAN /\ focus \in BOOLEAN /\ relaxed \in BOOLEAN BY DEF NetworkInit
<1>4. host.resolv = "pin" /\ host.resolver = "up" BY DEF NetworkInit
<1> QED BY <1>1, <1>2, <1>3, <1>4 DEF NetworkInv, NetworkTypes, ForcedToUs, PinAnswers

\* The pin taken off a host.
LEMMA UnpinIs ==
  ASSUME NEW h \in Hosts
  PROVE  /\ Unpin(h) \in Hosts
         /\ Unpin(h).resolv # "pin"
         /\ Unpin(h).resolver = h.resolver /\ Unpin(h).table = h.table
         /\ h.resolv # "pin" => Unpin(h) = h
<1> DEFINE r == IF h.resolv = "pin" THEN "own" ELSE h.resolv
<1>1. r \in {"own", "foreign"} BY DEF Hosts
<1>2. Unpin(h) = [h EXCEPT !.resolv = r] BY DEF Unpin
<1>3. Unpin(h).resolv = r /\ Unpin(h).resolver = h.resolver /\ Unpin(h).table = h.table
  BY <1>2 DEF Hosts
<1>4. h.resolv # "pin" => Unpin(h) = h BY <1>2 DEF Hosts
<1> QED
  <2>1. Unpin(h) \in Hosts BY <1>1, <1>2 DEF Hosts
  <2> QED BY <2>1, <1>1, <1>3, <1>4

\* An apply: whatever it finds, it leaves lookups forced only to a resolver
\* that runs under its pin.
LEMMA ApplyIs ==
  ASSUME NEW h \in Hosts, NEW blocked \in BOOLEAN, NEW force \in BOOLEAN, writable \in BOOLEAN
  PROVE  LET n == ApplyNetwork(h, blocked, force)
         IN n \in Hosts /\ ForcedToUs(n) /\ PinAnswers(n)
<1> DEFINE up == h.resolver # "broken"
           pinned == up /\ h.resolv # "foreign"
           gaps == Gaps(up, pinned, writable)
           first == IF pinned THEN [h EXCEPT !.resolv = "pin"] ELSE Unpin(h)
           resolver == IF up THEN "up" ELSE first.resolver
           served == IF writable THEN blocked ELSE first.served
           table == IF force /\ gaps \cap breaksForcedDns = {} THEN "forced" ELSE "plain"
           n == [first EXCEPT !.resolver = resolver, !.served = served, !.table = table,
                              !.gaps = gaps, !.drifted = FALSE]
<1>1. ApplyNetwork(h, blocked, force) = n BY DEF ApplyNetwork
<1>2. /\ first \in Hosts
      /\ first.resolv = "pin" => up
      /\ pinned => first.resolv = "pin"
  BY UnpinIs DEF Hosts
<1>3. gaps \in Standing BY DEF Gaps, Standing
<1>4. gaps \cap breaksForcedDns = {} => pinned BY DEF Gaps, breaksForcedDns
<1>5. /\ resolver \in {"up", "down", "broken"}
      /\ served \in BOOLEAN
      /\ table \in {"forced", "plain", "none"}
  BY <1>2 DEF Hosts
<1>6. table = "forced" => pinned BY <1>4
<1>7. up => resolver = "up" OBVIOUS
<1> HIDE DEF first, resolver, served, table, gaps, pinned, up
<1>8. n \in Hosts BY <1>2, <1>3, <1>5 DEF Hosts
<1>9. n.resolver = resolver /\ n.table = table /\ n.resolv = first.resolv
  BY <1>2 DEF Hosts
<1>10. ForcedToUs(n) BY <1>2, <1>6, <1>9 DEF ForcedToUs
<1>11. PinAnswers(n) BY <1>2, <1>7, <1>9 DEF PinAnswers
<1> HIDE DEF n
<1> QED BY <1>1, <1>8, <1>10, <1>11

\* A re-assertion: toward a resolver that runs, or the pin is off; and unless
\* the resolver went under the pin, forced lookups stay forced to us.
LEMMA ReassertIs ==
  ASSUME NEW h \in Hosts
  PROVE  /\ Reassert(h) \in Hosts
         /\ PinAnswers(Reassert(h))
         /\ ForcedToUs(h) /\ ~ResolverWent(h) => ForcedToUs(Reassert(h))
<1>1. CASE h.resolver # "up"
  <2>1. Reassert(h) = Unpin(h) BY <1>1 DEF Reassert
  <2>2. ~ResolverWent(h) => Unpin(h) = h BY <1>1, UnpinIs DEF ResolverWent
  <2> QED BY <2>1, <2>2, UnpinIs DEF PinAnswers
<1>2. CASE h.resolver = "up" /\ h.resolv = "own"
  <2> DEFINE n == [h EXCEPT !.resolv = "pin", !.drifted = FALSE]
  <2>1. Reassert(h) = n BY <1>2 DEF Reassert
  <2>2. n \in Hosts /\ n.resolv = "pin" /\ n.resolver = "up" BY <1>2 DEF Hosts
  <2> HIDE DEF n
  <2> QED BY <2>1, <2>2 DEF PinAnswers, ForcedToUs
<1>3. CASE h.resolver = "up" /\ h.resolv # "own"
  BY <1>3 DEF Reassert, PinAnswers
<1> QED BY <1>1, <1>2, <1>3

\* What the rules ask of the firewall is a Boolean, whoever asks.
LEMMA AskedIs ==
  ASSUME NetworkTypes
  PROVE  /\ blocks \in BOOLEAN /\ lax \in BOOLEAN
         /\ \A r \in [blocks : BOOLEAN, force : BOOLEAN], l \in BOOLEAN :
              ForceDns(r, focus, l) \in BOOLEAN
BY DEF NetworkTypes, blocks, lax, ForceDns

\* A tick leaves every resolver either pinned and running or not pinned,
\* whatever the world did since the last one.
LEMMA NetworkTicks == NetworkInv /\ Tick => NetworkInv'
<1> SUFFICES ASSUME NetworkInv, Tick PROVE NetworkInv'
  OBVIOUS
<1> DEFINE force == ForceDns(netRules, focus, lax)
           Applied(h) == ApplyNetwork(h, blocks, force)
           turned == focusApplied # {focus}
           first == IF lax # relaxed \/ turned THEN Applied(host) ELSE host
           asserted == Reassert(first)
           second == IF Flushed(first) \/ ResolverWent(first) THEN Applied(asserted) ELSE asserted
           last == IF offlineReapplies THEN Applied(second) ELSE second
<1>1. blocks \in BOOLEAN /\ lax \in BOOLEAN /\ force \in BOOLEAN /\ writable \in BOOLEAN
  BY AskedIs DEF NetworkInv, NetworkTypes
<1>2. \A h \in Hosts : Applied(h) \in Hosts /\ ForcedToUs(Applied(h)) /\ PinAnswers(Applied(h))
  BY <1>1, ApplyIs
<1>3. first \in Hosts /\ ForcedToUs(first)
  BY <1>2 DEF NetworkInv, NetworkTypes
<1>4. asserted \in Hosts /\ PinAnswers(asserted)
  BY <1>3, ReassertIs
<1>5. second \in Hosts /\ ForcedToUs(second) /\ PinAnswers(second)
  BY <1>2, <1>3, <1>4, ReassertIs
<1>6. last \in Hosts /\ ForcedToUs(last) /\ PinAnswers(last)
  BY <1>2, <1>5
<1>7. /\ host' = last /\ relaxed' = lax
      /\ UNCHANGED <<netRules, writable, focus>>
  BY DEF Tick, UpdateDnsReachability
<1> HIDE DEF last
<1> QED BY <1>1, <1>6, <1>7 DEF NetworkInv, NetworkTypes

\* New rules and a start are an apply.
LEMMA NetworkApplies ==
  NetworkInv /\ (Restart \/ \E r \in [blocks : BOOLEAN, force : BOOLEAN] : Pull(r)) => NetworkInv'
<1> SUFFICES ASSUME NetworkInv PROVE
       (Restart => NetworkInv')
         /\ \A r \in [blocks : BOOLEAN, force : BOOLEAN] : Pull(r) => NetworkInv'
  OBVIOUS
<1>1. ASSUME Restart PROVE NetworkInv'
  <2>1. /\ blocks \in BOOLEAN /\ ForceDns(netRules, focus, FALSE) \in BOOLEAN
        /\ host \in Hosts /\ writable \in BOOLEAN
    BY AskedIs DEF NetworkInv, NetworkTypes
  <2>2. /\ host' = ApplyNetwork(host, blocks, ForceDns(netRules, focus, FALSE))
        /\ relaxed' = FALSE /\ UNCHANGED <<netRules, writable, focus>>
    BY <1>1 DEF Restart
  <2>3. host' \in Hosts /\ ForcedToUs(host') /\ PinAnswers(host')
    BY <2>1, <2>2, ApplyIs
  <2> QED BY <2>2, <2>3 DEF NetworkInv, NetworkTypes
<1>2. ASSUME NEW r \in [blocks : BOOLEAN, force : BOOLEAN], Pull(r) PROVE NetworkInv'
  <2>1. /\ (r.blocks \/ focus) \in BOOLEAN /\ ForceDns(r, focus, relaxed) \in BOOLEAN
        /\ host \in Hosts /\ writable \in BOOLEAN
    BY AskedIs DEF NetworkInv, NetworkTypes
  <2>2. /\ host' = ApplyNetwork(host, r.blocks \/ focus, ForceDns(r, focus, relaxed))
        /\ netRules' = r /\ UNCHANGED <<writable, focus, relaxed>>
    BY <1>2 DEF Pull
  <2>3. host' \in Hosts /\ ForcedToUs(host') /\ PinAnswers(host')
    BY <2>1, <2>2, ApplyIs
  <2> QED BY <2>2, <2>3 DEF NetworkInv, NetworkTypes
<1> QED BY <1>1, <1>2

\* The world may stop the resolver under the pin, or replace the file the pin
\* is in, which is what `drifted` remembers.
LEMMA NetworkWorld == NetworkInv /\ World => NetworkInv'
<1> SUFFICES ASSUME NetworkInv, World PROVE NetworkInv'
  OBVIOUS
<1>1. moved' = "world" /\ UNCHANGED <<netRules, relaxed>>
  BY DEF World
<1>2. writable' \in BOOLEAN /\ focus' \in BOOLEAN
  BY DEF World, NetworkInv, NetworkTypes
<1>3. host' \in Hosts /\ ForcedToUs(host')
  <2>1. ASSUME NEW s \in {"up", "down", "broken"}, host' = [host EXCEPT !.resolver = s]
        PROVE  host' \in Hosts /\ ForcedToUs(host')
    BY <2>1 DEF NetworkInv, NetworkTypes, Hosts, ForcedToUs
  <2>2. ASSUME NEW c \in {"own", "foreign"}, host' = [host EXCEPT !.resolv = c, !.drifted = TRUE]
        PROVE  host' \in Hosts /\ ForcedToUs(host')
    BY <2>2 DEF NetworkInv, NetworkTypes, Hosts, ForcedToUs
  <2>3. ASSUME host' = [host EXCEPT !.table = "none"]
        PROVE  host' \in Hosts /\ ForcedToUs(host')
    BY <2>3 DEF NetworkInv, NetworkTypes, Hosts, ForcedToUs
  <2>4. WorldHost \/ UNCHANGED host
    BY DEF World
  <2>5. CASE WorldHost
    BY <2>1, <2>2, <2>3, <2>5 DEF WorldHost
  <2> QED BY <2>4, <2>5 DEF NetworkInv, NetworkTypes
<1> QED BY <1>1, <1>2, <1>3 DEF NetworkInv, NetworkTypes

LEMMA NetworkInvStep == NetworkInv /\ [NetworkNext]_networkVars => NetworkInv'
<1> SUFFICES ASSUME NetworkInv, [NetworkNext]_networkVars PROVE NetworkInv'
  OBVIOUS
<1>1. CASE Tick BY <1>1, NetworkTicks
<1>2. CASE Restart \/ \E r \in [blocks : BOOLEAN, force : BOOLEAN] : Pull(r)
  BY <1>2, NetworkApplies
<1>3. CASE Reconnect \/ GraceEnds \/ UNCHANGED networkVars
  BY <1>3 DEF Reconnect, GraceEnds, networkVars, NetworkInv, NetworkTypes
<1>4. CASE World BY <1>4, NetworkWorld
<1> QED BY <1>1, <1>2, <1>3, <1>4 DEF NetworkNext

\* Whenever the agent has acted, a pin points at a resolver that runs, and
\* lookups are forced only where programs ask it or past a file that was
\* replaced: for any number of changes by the world, of ticks before it relaxes
\* and between self-checks.
THEOREM ForceIsHeldBack == NetworkSpec => []HeldBack
<1>1. NetworkInv => HeldBack
  BY DEF NetworkInv, HeldBack, ForcedToUs, PinAnswers
<1> QED BY <1>1, NetworkInvInit, NetworkInvStep, PTL DEF NetworkSpec

(***************************************************************************)
(* The inductive invariant of the VPN profiles.                            *)
(***************************************************************************)

MaybeConfig == VpnConfigs \cup {NoConfig}
Statuses == {"untested", "testing", "active", "failed"}
VpnOps == {"edit", "activate", "deactivate", "remove"}
ProfileRows == [config : VpnConfigs, status : Statuses, active : BOOLEAN]
VpnHandlers ==
  [op : VpnOps \cup {"none"}, p : Profiles \cup {0}, config : MaybeConfig,
   changed : BOOLEAN, was : BOOLEAN, pc : {"free", "read", "edited", "written"}]
HeldProfiles ==
  [p : Profiles \cup {0}, config : MaybeConfig, status : Statuses \cup {"none"}, ver : Nat]
Applies ==
  [pc : {"boot", "idle", "swapped", "verifying", "clearing"}, failed : BOOLEAN,
   before : [VpnKinds -> MaybeConfig], backup : MaybeConfig, keep : BOOLEAN]
Verdicts == [p : Profiles \cup {0}, verdict : {"active", "failed"}]

\* A request under way names its operation and a config.
Meant(h) == h.pc # "free" => h.op \in VpnOps /\ h.config \in VpnConfigs

ServerTypes ==
  /\ DOMAIN profiles \subseteq Profiles
  /\ profiles \in [DOMAIN profiles -> ProfileRows]
  /\ stamp \in Nat
  /\ handlers \in [VpnSlots -> VpnHandlers]
  /\ \A s \in VpnSlots : Meant(handlers[s])
  /\ verdicts \in Seq(Verdicts)

\* A profile that is held, or kept, has a config.
Whole(v) == v \in HeldProfiles /\ (v.p # 0 => v.config \in VpnConfigs)

AgentTypes ==
  /\ Whole(pulled) /\ Whole(cached)
  /\ apply \in Applies
  /\ onDisk \in [VpnKinds -> MaybeConfig]
  /\ tunnel \in [VpnKinds -> MaybeConfig]
  /\ lostFile \in BOOLEAN

\* What a unit runs with a config: nothing, where it does not start with it.
RunOf(c) == IF c \in Starting THEN c ELSE NoConfig

\* The tunnels of a computer whose only file is the config c.
Alone(c) == [k \in VpnKinds |-> IF c # NoConfig /\ k = KindOf[c] THEN RunOf(c) ELSE NoConfig]

\* There is one file of ours at most, of the kind it is for, and its unit runs
\* it.
OneFile ==
  /\ \A j, k \in Files : j = k
  /\ \A k \in Files : KindOf[onDisk[k]] = k
  /\ lostFile \/ \A k \in VpnKinds : tunnel[k] = RunOf(onDisk[k])

\* Only the config that is being tested is on the disk untested.
Tested ==
  \A k \in Files : \/ onDisk[k] \in proven \cup unsafe
                   \/ apply.pc = "verifying" /\ onDisk[k] = pulled.config

\* An apply under way knows what was there before it, and what it keeps to go
\* back to is that.
Underway == apply.pc \in {"swapped", "verifying", "clearing"}
BackupKept ==
  Underway =>
    /\ pulled.p # 0 /\ accepted = pulled.config
    /\ Files \subseteq (IF apply.pc = "clearing" THEN {} ELSE {KindOf[pulled.config]})
    /\ apply.pc = "verifying" => onDisk[KindOf[pulled.config]] = pulled.config
    /\ apply.backup # NoConfig => apply.backup \in proven \cup unsafe
    /\ lostFile \/ apply.before = Alone(apply.backup)

\* And one that is through leaves the firewall and the tunnels as TunnelKept
\* says.
LeftRight ==
  apply.pc = "idle" =>
    /\ \A k \in Files : onDisk[k] = accepted \/ apply.failed \/ lostFile
    /\ apply.failed => lostFile \/ tunnel = apply.before

VpnInv == ServerTypes /\ AgentTypes /\ OneFile /\ Tested /\ BackupKept /\ LeftRight

(* The server: whatever it does, rows and requests hold configs. *)

LEMMA RowIs ==
  ASSUME NEW r \in ProfileRows, NEW st \in Statuses, NEW c \in VpnConfigs
  PROVE  /\ [r EXCEPT !.status = st] \in ProfileRows
         /\ [r EXCEPT !.config = c, !.status = st] \in ProfileRows
         /\ [r EXCEPT !.active = FALSE] \in ProfileRows
         /\ [r EXCEPT !.active = TRUE, !.status = st] \in ProfileRows
         /\ [r EXCEPT !.active = FALSE, !.status = st] \in ProfileRows
BY DEF ProfileRows

LEMMA NoHandlerIs == NoHandler \in VpnHandlers /\ Meant(NoHandler)
BY DEF NoHandler, VpnHandlers, Meant, MaybeConfig

LEMMA HandlerIs ==
  ASSUME NEW h \in VpnHandlers, Meant(h), h.pc # "free", NEW pc \in {"read", "edited", "written"}
  PROVE  [h EXCEPT !.pc = pc] \in VpnHandlers /\ Meant([h EXCEPT !.pc = pc])
<1> DEFINE n == [h EXCEPT !.pc = pc]
<1>1. n \in VpnHandlers BY DEF VpnHandlers
<1>2. n.op = h.op /\ n.config = h.config BY DEF VpnHandlers
<1> HIDE DEF n
<1>3. n \in VpnHandlers /\ Meant(n) BY <1>1, <1>2 DEF Meant
<1> QED BY <1>3 DEF n

LEMMA HandlersSet ==
  ASSUME ServerTypes, NEW s \in VpnSlots, NEW h \in VpnHandlers, Meant(h),
         handlers' = [handlers EXCEPT ![s] = h]
  PROVE  handlers' \in [VpnSlots -> VpnHandlers] /\ \A t \in VpnSlots : Meant(handlers'[t])
BY DEF ServerTypes

LEMMA PutIs ==
  ASSUME ServerTypes, NEW p, NEW st \in Statuses,
         IF Exists(p) THEN Put(p, [profiles[p] EXCEPT !.status = st]) ELSE UNCHANGED profiles
  PROVE  DOMAIN profiles' \subseteq Profiles /\ profiles' \in [DOMAIN profiles' -> ProfileRows]
<1>1. CASE Exists(p)
  <2> DEFINE row == [profiles[p] EXCEPT !.status = st]
  <2>1. profiles[p] \in ProfileRows BY <1>1 DEF ServerTypes, Exists
  <2>2. row \in ProfileRows BY <2>1, RowIs, VpnAssumption DEF ProfileRows
  <2>3. profiles' = [profiles EXCEPT ![p] = row] BY <1>1 DEF Put
  <2> HIDE DEF row
  <2> QED BY <2>2, <2>3 DEF ServerTypes
<1>2. CASE ~Exists(p)
  BY <1>2 DEF ServerTypes
<1> QED BY <1>1, <1>2

LEMMA WrittenIs ==
  ASSUME ServerTypes, NEW h \in VpnHandlers, Meant(h), h.pc # "free"
  PROVE  /\ DOMAIN Written(h) \subseteq Profiles
         /\ Written(h) \in [DOMAIN Written(h) -> ProfileRows]
<1>1. h.op \in VpnOps /\ h.config \in VpnConfigs BY DEF Meant
<1>2. DOMAIN profiles \subseteq Profiles /\ \A p \in DOMAIN profiles : profiles[p] \in ProfileRows
  BY DEF ServerTypes
<1>3. CASE h.op = "edit"
  <2> DEFINE st(p) == IF h.changed /\ ~h.was THEN "untested" ELSE profiles[p].status
             W == [p \in DOMAIN profiles |->
                     IF p = h.p THEN [profiles[p] EXCEPT !.config = h.config, !.status = st(p)]
                                ELSE profiles[p]]
  <2>1. \A p \in DOMAIN profiles : st(p) \in Statuses BY <1>2 DEF ProfileRows, Statuses
  <2> HIDE DEF st
  <2>2. \A p \in DOMAIN profiles :
          [profiles[p] EXCEPT !.config = h.config, !.status = st(p)] \in ProfileRows
    BY <1>1, <1>2, <2>1, RowIs
  <2>3. W \in [DOMAIN profiles -> ProfileRows] BY <1>2, <2>2
  <2>4. Written(h) = W BY <1>3 DEF Written, st
  <2> QED BY <1>2, <2>3, <2>4
<1>4. CASE h.op = "activate"
  <2> DEFINE W == [p \in DOMAIN profiles |->
                     IF p = h.p THEN [profiles[p] EXCEPT !.active = TRUE, !.status = "testing"]
                                ELSE [profiles[p] EXCEPT !.active = FALSE]]
  <2>1. \A p \in DOMAIN profiles :
          /\ [profiles[p] EXCEPT !.active = TRUE, !.status = "testing"] \in ProfileRows
          /\ [profiles[p] EXCEPT !.active = FALSE] \in ProfileRows
    BY <1>1, <1>2, RowIs DEF Statuses
  <2>2. W \in [DOMAIN profiles -> ProfileRows] BY <2>1
  <2>3. Written(h) = W BY <1>4 DEF Written
  <2> QED BY <1>2, <2>2, <2>3
<1>5. CASE h.op = "deactivate"
  <2> DEFINE W == [p \in DOMAIN profiles |->
                     IF p = h.p THEN [profiles[p] EXCEPT !.active = FALSE, !.status = "untested"]
                                ELSE profiles[p]]
  <2>1. \A p \in DOMAIN profiles :
          [profiles[p] EXCEPT !.active = FALSE, !.status = "untested"] \in ProfileRows
    BY <1>1, <1>2, RowIs DEF Statuses
  <2>2. W \in [DOMAIN profiles -> ProfileRows] BY <1>2, <2>1
  <2>3. Written(h) = W BY <1>5 DEF Written
  <2> QED BY <1>2, <2>2, <2>3
<1>6. CASE h.op = "remove"
  <2>1. Written(h) = [p \in DOMAIN profiles \ {h.p} |-> profiles[p]] BY <1>6 DEF Written
  <2> QED BY <1>2, <2>1
<1> QED BY <1>1, <1>3, <1>4, <1>5, <1>6 DEF VpnOps

ServerStep ==
  \/ \E s \in VpnSlots :
       \/ \E p \in Profiles, op \in VpnOps, c \in VpnConfigs : AskVpn(s, op, p, c)
       \/ HandlerStep(s) \/ HandlerDies(s)
  \/ ReportArrives \/ ReportForgotten

LEMMA VpnServer ==
  ServerTypes /\ ServerStep => ServerTypes' /\ UNCHANGED <<hostSide, deviceSide>>
<1> SUFFICES ASSUME ServerTypes, ServerStep
             PROVE  ServerTypes' /\ UNCHANGED <<hostSide, deviceSide>>
  OBVIOUS
<1> DEFINE Goal == ServerTypes' /\ UNCHANGED <<hostSide, deviceSide>>
<1>1. ASSUME NEW s \in VpnSlots, NEW p \in Profiles, NEW op \in VpnOps, NEW c \in VpnConfigs,
             AskVpn(s, op, p, c)
      PROVE  Goal
  <2> DEFINE changed == c # profiles[p].config
             h == [op |-> op, p |-> p, config |-> c, changed |-> changed,
                   was |-> profiles[p].active, pc |-> "read"]
  <2>1. profiles[p] \in ProfileRows BY <1>1 DEF AskVpn, Exists, ServerTypes
  <2>2. profiles[p].active \in BOOLEAN /\ changed \in BOOLEAN BY <2>1 DEF ProfileRows
  <2>3. handlers' = [handlers EXCEPT ![s] = h] BY <1>1 DEF AskVpn
  <2> HIDE DEF changed
  <2>4. h \in VpnHandlers BY <2>2 DEF VpnHandlers, MaybeConfig
  <2>5. h.op = op /\ h.config = c OBVIOUS
  <2> HIDE DEF h
  <2>6. /\ handlers' \in [VpnSlots -> VpnHandlers]
        /\ \A t \in VpnSlots : Meant(handlers'[t])
    BY <2>3, <2>4, <2>5, HandlersSet DEF Meant
  <2>7. UNCHANGED <<profiles, stamp, verdicts, hostSide, deviceSide>> BY <1>1 DEF AskVpn
  <2> QED BY <2>6, <2>7 DEF ServerTypes
<1>2. ASSUME NEW s \in VpnSlots, WriteRow(s) PROVE Goal
  <2> DEFINE h == handlers[s]
             n == IF ~Tells(h) THEN NoHandler
                  ELSE [h EXCEPT !.pc = IF h.op = "edit" THEN "edited" ELSE "written"]
  <2>1. h \in VpnHandlers /\ Meant(h) BY DEF ServerTypes
  <2>2. /\ h.pc = "read" /\ profiles' = Written(h)
        /\ handlers' = [handlers EXCEPT ![s] = n]
        /\ UNCHANGED <<stamp, verdicts, hostSide, deviceSide>>
    BY <1>2 DEF WriteRow
  <2> HIDE DEF h
  <2>3. n \in VpnHandlers /\ Meant(n) BY <2>1, <2>2, HandlerIs, NoHandlerIs
  <2> HIDE DEF n
  <2>4. /\ handlers' \in [VpnSlots -> VpnHandlers]
        /\ \A t \in VpnSlots : Meant(handlers'[t])
    BY <2>2, <2>3, HandlersSet
  <2>5. DOMAIN profiles' \subseteq Profiles /\ profiles' \in [DOMAIN profiles' -> ProfileRows]
    BY <2>1, <2>2, WrittenIs
  <2> QED BY <2>2, <2>4, <2>5 DEF ServerTypes
<1>3. ASSUME NEW s \in VpnSlots, SetTesting(s) PROVE Goal
  <2> DEFINE h == handlers[s]
             n == [h EXCEPT !.pc = "written"]
  <2>1. h \in VpnHandlers /\ Meant(h) BY DEF ServerTypes
  <2>2. h.pc = "edited" /\ UNCHANGED <<stamp, verdicts, hostSide, deviceSide>>
    BY <1>3 DEF SetTesting
  <2>3. handlers' = [handlers EXCEPT ![s] = n] BY <1>3 DEF SetTesting
  <2>4. DOMAIN profiles' \subseteq Profiles /\ profiles' \in [DOMAIN profiles' -> ProfileRows]
    BY <1>3, PutIs DEF SetTesting, Statuses
  <2> HIDE DEF h
  <2>5. n \in VpnHandlers /\ Meant(n) BY <2>1, <2>2, HandlerIs
  <2> HIDE DEF n
  <2>6. /\ handlers' \in [VpnSlots -> VpnHandlers]
        /\ \A t \in VpnSlots : Meant(handlers'[t])
    BY <2>3, <2>5, HandlersSet
  <2> QED BY <2>2, <2>4, <2>6 DEF ServerTypes
<1>4. ASSUME NEW s \in VpnSlots, Propagate(s) \/ HandlerDies(s) PROVE Goal
  <2>1. /\ handlers' = [handlers EXCEPT ![s] = NoHandler]
        /\ stamp' \in Nat
        /\ UNCHANGED <<profiles, verdicts, hostSide, deviceSide>>
    BY <1>4 DEF Propagate, HandlerDies, ServerTypes
  <2>2. /\ handlers' \in [VpnSlots -> VpnHandlers]
        /\ \A t \in VpnSlots : Meant(handlers'[t])
    BY <2>1, NoHandlerIs, HandlersSet
  <2> QED BY <2>1, <2>2 DEF ServerTypes
<1>5. CASE ReportArrives
  <2>1. Head(verdicts) \in Verdicts /\ Tail(verdicts) \in Seq(Verdicts)
    BY <1>5 DEF ReportArrives, ServerTypes
  <2>2. Head(verdicts).verdict \in Statuses BY <2>1 DEF Verdicts, Statuses
  <2>3. DOMAIN profiles' \subseteq Profiles /\ profiles' \in [DOMAIN profiles' -> ProfileRows]
    BY <1>5, <2>2, PutIs DEF ReportArrives
  <2> QED BY <1>5, <2>1, <2>3 DEF ReportArrives, ServerTypes
<1>6. CASE ReportForgotten
  BY <1>6 DEF ReportForgotten, ServerTypes
<1> QED BY <1>1, <1>2, <1>3, <1>4, <1>5, <1>6 DEF ServerStep, HandlerStep

(* The agent: what is on the disk, and what runs. *)

LEMMA ServedIs ==
  ASSUME ServerTypes PROVE Whole(Served)
<1> DEFINE active == {q \in DOMAIN profiles : profiles[q].active}
           p == CHOOSE q \in DOMAIN profiles : profiles[q].active
<1>1. CASE \E q \in DOMAIN profiles : profiles[q].active
  <2>1. p \in DOMAIN profiles BY <1>1
  <2> DEFINE v == [p |-> p, config |-> profiles[p].config, status |-> profiles[p].status,
                   ver |-> stamp]
  <2>2. Served = v BY <1>1 DEF Served
  <2> HIDE DEF p
  <2>3. p \in Profiles /\ profiles[p] \in ProfileRows /\ stamp \in Nat
    BY <2>1 DEF ServerTypes
  <2>4. v \in HeldProfiles /\ v.config \in VpnConfigs
    BY <2>3 DEF HeldProfiles, MaybeConfig, ProfileRows
  <2> HIDE DEF v
  <2> QED BY <2>2, <2>4 DEF Whole
<1>2. CASE ~\E q \in DOMAIN profiles : profiles[q].active
  <2> DEFINE v == [NoProfile EXCEPT !.ver = stamp]
  <2>1. Served = v BY <1>2 DEF Served
  <2>2. v \in HeldProfiles /\ v.p = 0
    BY DEF NoProfile, HeldProfiles, MaybeConfig, ServerTypes
  <2> HIDE DEF v
  <2> QED BY <2>1, <2>2 DEF Whole
<1> QED BY <1>1, <1>2

LEMMA NoConfigRuns == RunOf(NoConfig) = NoConfig /\ \A c : RunOf(c) \in MaybeConfig
BY VpnAssumption DEF RunOf, MaybeConfig

LEMMA KindIs == \A c \in VpnConfigs : KindOf[c] \in VpnKinds /\ c # NoConfig
BY VpnAssumption

LEMMA AloneIs == \A c : Alone(c) \in [VpnKinds -> MaybeConfig]
BY NoConfigRuns DEF Alone, MaybeConfig

\* What is torn down is gone, and nothing else.
LEMMA TeardownIs ==
  ASSUME AgentTypes, OneFile, NEW ks \in SUBSET VpnKinds, Teardown(ks), lostFile' = lostFile
  PROVE  /\ onDisk' \in [VpnKinds -> MaybeConfig] /\ tunnel' \in [VpnKinds -> MaybeConfig]
         /\ Files' = Files \ ks
         /\ \A k \in VpnKinds \ ks : onDisk'[k] = onDisk[k]
         /\ OneFile'
<1>1. /\ onDisk \in [VpnKinds -> MaybeConfig] /\ tunnel \in [VpnKinds -> MaybeConfig]
      /\ NoConfig \in MaybeConfig
  BY DEF AgentTypes, MaybeConfig
<1>2. /\ onDisk' = [k \in VpnKinds |-> IF k \in ks \cap Files THEN NoConfig ELSE onDisk[k]]
      /\ tunnel' = [k \in VpnKinds |-> IF k \in ks \cap Files THEN NoConfig ELSE tunnel[k]]
  BY DEF Teardown
<1>3. onDisk' \in [VpnKinds -> MaybeConfig] /\ tunnel' \in [VpnKinds -> MaybeConfig]
  BY <1>1, <1>2
<1>4. Files' = Files \ ks /\ \A k \in VpnKinds \ ks : onDisk'[k] = onDisk[k]
  BY <1>1, <1>2 DEF Files
<1>5. lostFile \/ \A k \in VpnKinds : tunnel'[k] = RunOf(onDisk'[k])
  BY <1>2, NoConfigRuns DEF OneFile
<1>6. \A k \in Files' : KindOf[onDisk'[k]] = k
  BY <1>4 DEF OneFile, Files
<1>7. OneFile' BY <1>4, <1>5, <1>6 DEF OneFile
<1> QED BY <1>3, <1>4, <1>7

\* What is installed is the one file there is.
LEMMA InstallIs ==
  ASSUME AgentTypes, OneFile, NEW c \in VpnConfigs, Files \subseteq {KindOf[c]}, Install(c),
         lostFile' = lostFile
  PROVE  /\ onDisk' \in [VpnKinds -> MaybeConfig] /\ tunnel' \in [VpnKinds -> MaybeConfig]
         /\ Files' = {KindOf[c]} /\ onDisk'[KindOf[c]] = c
         /\ OneFile'
         /\ Files = {} => lostFile \/ tunnel' = Alone(c)
<1>1. /\ onDisk \in [VpnKinds -> MaybeConfig] /\ tunnel \in [VpnKinds -> MaybeConfig]
      /\ c \in MaybeConfig /\ KindOf[c] \in VpnKinds /\ c # NoConfig
  BY KindIs DEF AgentTypes, MaybeConfig
<1>2. /\ onDisk' = [onDisk EXCEPT ![KindOf[c]] = c]
      /\ tunnel' = [tunnel EXCEPT ![KindOf[c]] = RunOf(c)]
  BY DEF Install, RunOf
<1>3. onDisk' \in [VpnKinds -> MaybeConfig] /\ tunnel' \in [VpnKinds -> MaybeConfig]
  BY <1>1, <1>2, NoConfigRuns
<1>4. Files' = {KindOf[c]} /\ onDisk'[KindOf[c]] = c
  BY <1>1, <1>2 DEF Files
<1>5. lostFile \/ \A k \in VpnKinds : tunnel'[k] = RunOf(onDisk'[k])
  BY <1>1, <1>2 DEF OneFile
<1>6. OneFile' BY <1>4, <1>5 DEF OneFile
<1>7. ASSUME Files = {}, ~lostFile PROVE tunnel' = Alone(c)
  <2>1. \A k \in VpnKinds : tunnel[k] = NoConfig
    BY <1>7, NoConfigRuns DEF OneFile, Files
  <2>2. \A k \in VpnKinds : tunnel'[k] = Alone(c)[k]
    BY <1>1, <1>2, <2>1 DEF Alone
  <2> QED BY <1>3, <2>2, AloneIs
<1> QED BY <1>3, <1>4, <1>6, <1>7

\* Without a file nothing runs.
LEMMA NothingRuns ==
  ASSUME AgentTypes, OneFile, Files = {}
  PROVE  lostFile \/ tunnel = Alone(NoConfig)
<1>1. lostFile \/ \A k \in VpnKinds : tunnel[k] = Alone(NoConfig)[k]
  BY NoConfigRuns DEF OneFile, Files, Alone
<1> QED BY <1>1, AloneIs DEF AgentTypes

\* What an apply keeps to go back to is the one file there is, and all that runs.
LEMMA BackupIs ==
  ASSUME AgentTypes, OneFile, NEW v, v.config \in VpnConfigs
  PROVE  /\ Backup(v) \in MaybeConfig
         /\ Backup(v) # NoConfig => \E k \in Files : onDisk[k] = Backup(v)
         /\ lostFile \/ tunnel = Alone(Backup(v))
<1> DEFINE b == Backup(v)
<1>1. KindOf[v.config] \in VpnKinds /\ onDisk \in [VpnKinds -> MaybeConfig]
  BY KindIs DEF AgentTypes
<1>2. IF Files = {} THEN b = NoConfig ELSE \E k \in Files : onDisk[k] = b
  BY <1>1 DEF Backup, Files
<1>3. b \in MaybeConfig BY <1>1, <1>2 DEF Files, MaybeConfig
<1>4. CASE Files = {} BY <1>2, <1>3, <1>4, NothingRuns
<1>5. CASE Files # {}
  <2>1. PICK j \in Files : onDisk[j] = b BY <1>2, <1>5
  <2>2. b # NoConfig /\ KindOf[b] = j /\ \A k \in Files : k = j
    BY <2>1 DEF OneFile, Files
  <2>3. \A k \in VpnKinds : RunOf(onDisk[k]) = Alone(b)[k]
    BY <2>1, <2>2, NoConfigRuns DEF Alone, Files
  <2>4. lostFile \/ tunnel = Alone(b)
    BY <2>3, AloneIs DEF OneFile, AgentTypes
  <2> QED BY <1>3, <2>1, <2>4
<1> QED BY <1>4, <1>5

LEMMA VpnInvInit == VpnInit => VpnInv
<1> SUFFICES ASSUME VpnInit PROVE VpnInv
  OBVIOUS
<1>1. \A p \in Profiles : FirstConfig[p] \in VpnConfigs BY VpnAssumption
<1>2. profiles \in [Profiles -> ProfileRows] BY <1>1 DEF VpnInit, ProfileRows, Statuses
<1>3. ServerTypes
  <2>1. handlers = [s \in VpnSlots |-> NoHandler] /\ verdicts = <<>> /\ stamp = 0
    BY DEF VpnInit
  <2>2. DOMAIN profiles = Profiles BY <1>2
  <2> QED BY <1>2, <2>1, <2>2, NoHandlerIs DEF ServerTypes
<1>4. NoProfile \in HeldProfiles /\ NoProfile.p = 0 BY DEF NoProfile, HeldProfiles, MaybeConfig
<1>5. NoTunnel \in [VpnKinds -> MaybeConfig] BY DEF NoTunnel, MaybeConfig
<1>6. NoApply \in Applies /\ NoApply.pc = "idle" /\ ~NoApply.failed
  BY <1>5 DEF NoApply, Applies, MaybeConfig
<1>7. /\ pulled = NoProfile /\ cached = NoProfile /\ apply = NoApply
      /\ onDisk = NoTunnel /\ tunnel = NoTunnel /\ lostFile = FALSE
  BY DEF VpnInit
<1>8. AgentTypes BY <1>4, <1>5, <1>6, <1>7 DEF AgentTypes, Whole
<1>9. Files = {} BY <1>7 DEF Files, NoTunnel
<1>10. \A k \in VpnKinds : tunnel[k] = RunOf(onDisk[k])
  BY <1>7, NoConfigRuns DEF NoTunnel
<1> QED
  BY <1>3, <1>6, <1>7, <1>8, <1>9, <1>10
  DEF VpnInv, OneFile, Tested, BackupKept, Underway, LeftRight

\* The firewall, and the first of reconcile: from an agent that is not in the
\* middle of an apply, so that all that is on the disk was tested.
LEMMA VpnBegins ==
  ASSUME VpnInv, apply.pc \in {"boot", "idle"}, NEW v, Whole(v), NEW keep \in BOOLEAN,
         Begin(v, keep)
  PROVE  VpnInv'
<1>1. /\ AgentTypes /\ OneFile
      /\ \A k \in Files : onDisk[k] \in proven \cup unsafe
  BY DEF VpnInv, Tested
<1>2. /\ pulled' = v /\ accepted' = PlanFor(v)
      /\ UNCHANGED <<serverSide, proven, unsafe, lostFile, verdicts>>
  BY DEF Begin
<1>3. ServerTypes' BY <1>2 DEF VpnInv, ServerTypes, serverSide
<1>4. CASE v.p # 0 /\ ~InForce(v)
  <2> DEFINE kind == KindOf[v.config]
             b == Backup(v)
             n == [pc |-> "swapped", failed |-> FALSE, before |-> tunnel, backup |-> b,
                   keep |-> keep]
  <2>1. v.config \in VpnConfigs /\ kind \in VpnKinds BY <1>4, KindIs DEF Whole
  <2>2. Teardown(VpnKinds \ {kind}) /\ apply' = n /\ cached' = cached
    BY <1>4 DEF Begin
  <2>3. /\ onDisk' \in [VpnKinds -> MaybeConfig] /\ tunnel' \in [VpnKinds -> MaybeConfig]
        /\ Files' = Files \cap {kind}
        /\ onDisk'[kind] = onDisk[kind]
        /\ OneFile'
    <3>1. /\ Files' = Files \ (VpnKinds \ {kind})
          /\ \A k \in VpnKinds \ (VpnKinds \ {kind}) : onDisk'[k] = onDisk[k]
      BY <1>1, <1>2, <2>2, TeardownIs
    <3>2. Files \subseteq VpnKinds BY DEF Files
    <3> QED BY <1>1, <1>2, <2>1, <2>2, <3>1, <3>2, TeardownIs
  <2>4. /\ b \in MaybeConfig
        /\ b # NoConfig => b \in proven \cup unsafe
        /\ lostFile \/ tunnel = Alone(b)
    BY <1>1, <2>1, BackupIs
  <2> HIDE DEF b
  <2>5. n \in Applies BY <2>4, <1>1 DEF Applies, AgentTypes
  <2>6. n.pc = "swapped" /\ n.backup = b /\ n.before = tunnel OBVIOUS
  <2> HIDE DEF n
  <2>7. AgentTypes' BY <1>1, <1>2, <2>2, <2>3, <2>5 DEF AgentTypes, Whole
  <2>8. Tested' BY <1>1, <1>2, <2>3 DEF Tested
  <2>9. accepted' = v.config BY <1>2, <1>4 DEF PlanFor
  <2>10. BackupKept'
    BY <1>2, <1>4, <2>2, <2>3, <2>4, <2>6, <2>9 DEF BackupKept, Underway
  <2>11. LeftRight' BY <2>2, <2>6 DEF LeftRight
  <2> QED BY <1>3, <2>3, <2>7, <2>8, <2>10, <2>11 DEF VpnInv
<1>5. CASE ~(v.p # 0 /\ ~InForce(v))
  <2>1. /\ apply' = NoApply /\ cached' \in {v, cached}
        /\ v.p = 0 => Teardown(VpnKinds)
        /\ v.p # 0 => UNCHANGED <<onDisk, tunnel>>
    BY <1>5 DEF Begin
  <2>2. NoTunnel \in [VpnKinds -> MaybeConfig] BY DEF NoTunnel, MaybeConfig
  <2>3. NoApply \in Applies /\ NoApply.pc = "idle" /\ ~NoApply.failed
    BY <2>2 DEF NoApply, Applies, MaybeConfig
  <2>4. /\ onDisk' \in [VpnKinds -> MaybeConfig] /\ tunnel' \in [VpnKinds -> MaybeConfig]
        /\ OneFile'
        /\ \A k \in Files' : onDisk'[k] \in proven \cup unsafe /\ onDisk'[k] = accepted'
    <3>1. CASE v.p = 0
      <4>1. Files \subseteq VpnKinds BY DEF Files
      <4>2. Files' = {} BY <1>1, <1>2, <2>1, <3>1, <4>1, TeardownIs
      <4> QED BY <1>1, <1>2, <2>1, <3>1, <4>2, TeardownIs
    <3>2. CASE v.p # 0
      <4>1. InForce(v) /\ v.config \in VpnConfigs BY <1>5, <3>2 DEF Whole
      <4>2. onDisk' = onDisk /\ tunnel' = tunnel /\ accepted' = v.config
        BY <1>2, <2>1, <3>2 DEF PlanFor
      <4>3. Files' = Files BY <4>2 DEF Files
      <4>4. KindOf[v.config] \in Files /\ onDisk[KindOf[v.config]] = v.config
        BY <4>1, KindIs DEF InForce, Files
      <4>5. \A k \in Files : onDisk[k] = v.config BY <1>1, <4>4 DEF OneFile
      <4> QED BY <1>1, <1>2, <4>2, <4>3, <4>5 DEF AgentTypes, OneFile
    <3> QED BY <3>1, <3>2
  <2>5. AgentTypes' BY <1>1, <1>2, <2>1, <2>3, <2>4 DEF AgentTypes, Whole
  <2>6. Tested' BY <1>2, <2>4 DEF Tested
  <2>7. BackupKept' BY <2>1, <2>3 DEF BackupKept, Underway
  <2>8. LeftRight' BY <2>1, <2>3, <2>4 DEF LeftRight
  <2> QED BY <1>3, <2>4, <2>5, <2>6, <2>7, <2>8 DEF VpnInv
<1> QED BY <1>4, <1>5

\* The report of an apply, and what is left of it.
LEMMA ConcludeIs ==
  ASSUME ServerTypes, AgentTypes, NEW verdict \in {"active", "failed"}, Conclude(verdict)
  PROVE  /\ ServerTypes'
         /\ apply' \in Applies /\ Whole(pulled') /\ Whole(cached')
         /\ apply'.pc = "idle" /\ (apply'.failed <=> verdict = "failed")
         /\ verdict = "failed" => apply'.before = apply.before
         /\ UNCHANGED <<pulled, accepted>>
<1> DEFINE failed == verdict = "failed"
           before == IF verdict = "failed" THEN apply.before ELSE NoApply.before
           n == [NoApply EXCEPT !.failed = failed, !.before = before]
<1>1. apply' = n BY DEF Conclude, NoApply
<1>2. NoTunnel \in [VpnKinds -> MaybeConfig] BY DEF NoTunnel, MaybeConfig
<1>3. NoApply \in Applies /\ NoApply.pc = "idle"
  BY <1>2 DEF NoApply, Applies, MaybeConfig
<1>4. before \in [VpnKinds -> MaybeConfig] BY <1>3 DEF AgentTypes, Applies
<1>5. failed \in BOOLEAN OBVIOUS
<1> HIDE DEF before
<1>6. n \in Applies /\ n.pc = "idle" /\ n.before = before
  <2> HIDE DEF failed
  <2> QED BY <1>3, <1>4, <1>5 DEF Applies
<1>7. n.failed = failed
  <2> HIDE DEF failed
  <2> QED BY <1>3, <1>5 DEF Applies
<1> HIDE DEF n
<1>8. [p |-> pulled.p, verdict |-> verdict] \in Verdicts
  BY DEF AgentTypes, Whole, HeldProfiles, Verdicts
<1>9. verdicts' \in Seq(Verdicts)
  BY <1>8 DEF Conclude, ServerTypes
<1>10. ServerTypes' BY <1>9 DEF Conclude, ServerTypes, serverSide
<1>11. Whole(pulled') /\ Whole(cached') BY DEF Conclude, AgentTypes, Whole
<1>12. UNCHANGED <<pulled, accepted>> BY DEF Conclude
<1>13. verdict = "failed" => before = apply.before BY DEF before
<1>14. n.failed <=> verdict = "failed" BY <1>7
<1> QED BY <1>1, <1>6, <1>10, <1>11, <1>12, <1>13, <1>14

\* The rest of an apply: the new config up, through its test, or back to what
\* was there; or a file that cannot be written.
LEMMA VpnApplies ==
  VpnInv /\ (BringUp \/ Verified \/ VerifyFails \/ RollBack \/ WriteFails) => VpnInv'
<1> SUFFICES ASSUME VpnInv, BringUp \/ Verified \/ VerifyFails \/ RollBack \/ WriteFails
             PROVE  VpnInv'
  OBVIOUS
<1> DEFINE kind == KindOf[pulled.config]
<1>1. ServerTypes /\ AgentTypes /\ OneFile BY DEF VpnInv
<1>2. Underway BY DEF BringUp, Verified, VerifyFails, RollBack, WriteFails, Underway
<1>3. /\ pulled.config \in VpnConfigs /\ kind \in VpnKinds
      /\ accepted = pulled.config /\ pulled.p # 0
      /\ Files \subseteq {kind}
      /\ apply.backup \in MaybeConfig
      /\ apply.backup # NoConfig => apply.backup \in proven \cup unsafe
      /\ lostFile \/ apply.before = Alone(apply.backup)
  BY <1>2, KindIs DEF VpnInv, BackupKept, AgentTypes, Whole, Applies
<1>4. CASE BringUp
  <2> DEFINE n == [apply EXCEPT !.pc = "verifying"]
  <2>1. /\ Install(pulled.config) /\ apply' = n /\ lostFile' = lostFile
        /\ UNCHANGED <<serverSide, pulled, cached, accepted, proven, unsafe, verdicts>>
    BY <1>4 DEF BringUp
  <2>2. n \in Applies /\ n.pc = "verifying" /\ n.backup = apply.backup /\ n.before = apply.before
    BY DEF VpnInv, AgentTypes, Applies
  <2> HIDE DEF n
  <2>3. /\ onDisk' \in [VpnKinds -> MaybeConfig] /\ tunnel' \in [VpnKinds -> MaybeConfig]
        /\ Files' = {kind} /\ onDisk'[kind] = pulled.config /\ OneFile'
    BY <1>1, <1>3, <2>1, InstallIs
  <2>4. ServerTypes' BY <1>1, <2>1 DEF ServerTypes, serverSide
  <2>5. AgentTypes' BY <1>1, <2>1, <2>2, <2>3 DEF AgentTypes, Whole
  <2>6. Tested' BY <2>1, <2>2, <2>3 DEF Tested
  <2>7. BackupKept' BY <1>3, <2>1, <2>2, <2>3 DEF BackupKept, Underway
  <2>8. LeftRight' BY <2>1, <2>2 DEF LeftRight
  <2> QED BY <2>3, <2>4, <2>5, <2>6, <2>7, <2>8 DEF VpnInv
<1>5. CASE Verified
  <2>1. /\ proven' = proven \cup {pulled.config} /\ Conclude("active")
        /\ UNCHANGED <<onDisk, tunnel, unsafe, lostFile>>
    BY <1>5 DEF Verified
  <2>2. /\ ServerTypes' /\ apply' \in Applies /\ Whole(pulled') /\ Whole(cached')
        /\ apply'.pc = "idle" /\ ~apply'.failed
        /\ UNCHANGED <<pulled, accepted>>
    BY <1>1, <2>1, ConcludeIs
  <2>3. AgentTypes' BY <1>1, <2>1, <2>2 DEF AgentTypes
  <2>4. Files' = Files BY <2>1 DEF Files
  <2>5. OneFile' BY <1>1, <2>1, <2>4 DEF OneFile
  <2>6. apply.pc = "verifying" BY <1>5 DEF Verified
  <2>7. \A k \in Files : onDisk[k] = pulled.config
    BY <1>2, <1>3, <2>6 DEF VpnInv, BackupKept
  <2>8. Tested' BY <2>1, <2>4, <2>7 DEF Tested
  <2>9. BackupKept' BY <2>2 DEF BackupKept, Underway
  <2>10. LeftRight' BY <1>3, <2>1, <2>2, <2>4, <2>7 DEF LeftRight
  <2> QED BY <2>2, <2>3, <2>5, <2>8, <2>9, <2>10 DEF VpnInv
<1>6. CASE VerifyFails
  <2> DEFINE n == [apply EXCEPT !.pc = "clearing"]
  <2>1. /\ Teardown({kind}) /\ apply' = n /\ lostFile' = lostFile
        /\ UNCHANGED <<serverSide, pulled, cached, accepted, proven, unsafe, verdicts>>
    BY <1>6 DEF VerifyFails
  <2>2. n \in Applies /\ n.pc = "clearing" /\ n.backup = apply.backup /\ n.before = apply.before
    BY DEF VpnInv, AgentTypes, Applies
  <2> HIDE DEF n
  <2>3. /\ onDisk' \in [VpnKinds -> MaybeConfig] /\ tunnel' \in [VpnKinds -> MaybeConfig]
        /\ Files' = Files \ {kind} /\ OneFile'
    BY <1>1, <1>3, <2>1, TeardownIs
  <2>4. Files' = {} BY <1>3, <2>3
  <2>5. ServerTypes' BY <1>1, <2>1 DEF ServerTypes, serverSide
  <2>6. AgentTypes' BY <1>1, <2>1, <2>2, <2>3 DEF AgentTypes, Whole
  <2>7. Tested' BY <2>4 DEF Tested
  <2>8. BackupKept' BY <1>3, <2>1, <2>2, <2>4 DEF BackupKept, Underway
  <2>9. LeftRight' BY <2>1, <2>2 DEF LeftRight
  <2> QED BY <2>3, <2>5, <2>6, <2>7, <2>8, <2>9 DEF VpnInv
<1>7. CASE RollBack
  <2>1. /\ apply.pc = "clearing" /\ Conclude("failed") /\ UNCHANGED <<proven, unsafe>>
        /\ \/ /\ IF apply.backup = NoConfig THEN UNCHANGED <<onDisk, tunnel>>
                 ELSE Install(apply.backup)
              /\ UNCHANGED lostFile
           \/ lostFile' = TRUE /\ UNCHANGED <<onDisk, tunnel>>
    BY <1>7 DEF RollBack
  <2>2. /\ ServerTypes' /\ apply' \in Applies /\ Whole(pulled') /\ Whole(cached')
        /\ apply'.pc = "idle" /\ apply'.failed /\ apply'.before = apply.before
    BY <1>1, <2>1, ConcludeIs
  <2>3. Files = {} BY <1>2, <2>1 DEF VpnInv, BackupKept
  <2>4. /\ onDisk' \in [VpnKinds -> MaybeConfig] /\ tunnel' \in [VpnKinds -> MaybeConfig]
        /\ lostFile' \in BOOLEAN /\ OneFile'
        /\ \A k \in Files' : onDisk'[k] = apply.backup /\ apply.backup # NoConfig
        /\ lostFile' \/ tunnel' = apply.before
    <3>1. CASE lostFile' = TRUE /\ UNCHANGED <<onDisk, tunnel>>
      <4>1. Files' = Files BY <3>1 DEF Files
      <4> QED BY <1>1, <2>3, <3>1, <4>1 DEF AgentTypes, OneFile
    <3>2. CASE apply.backup = NoConfig /\ UNCHANGED <<onDisk, tunnel, lostFile>>
      <4>1. Files' = Files BY <3>2 DEF Files
      <4>2. lostFile \/ tunnel = Alone(NoConfig) BY <1>1, <2>3, NothingRuns
      <4>3. OneFile' BY <1>1, <3>2, <4>1 DEF OneFile
      <4> QED BY <1>1, <1>3, <2>3, <3>2, <4>1, <4>2, <4>3 DEF AgentTypes
    <3>3. CASE apply.backup # NoConfig /\ Install(apply.backup) /\ UNCHANGED lostFile
      <4>1. apply.backup \in VpnConfigs BY <1>3, <3>3 DEF MaybeConfig
      <4>2. /\ onDisk' \in [VpnKinds -> MaybeConfig] /\ tunnel' \in [VpnKinds -> MaybeConfig]
            /\ Files' = {KindOf[apply.backup]} /\ onDisk'[KindOf[apply.backup]] = apply.backup
            /\ OneFile' /\ (lostFile \/ tunnel' = Alone(apply.backup))
        BY <1>1, <2>3, <3>3, <4>1, InstallIs
      <4> QED BY <1>1, <1>3, <3>3, <4>2 DEF AgentTypes
    <3> QED BY <2>1, <3>1, <3>2, <3>3
  <2>5. AgentTypes' BY <2>2, <2>4 DEF AgentTypes
  <2>6. Tested' BY <1>3, <2>1, <2>4 DEF Tested
  <2>7. BackupKept' BY <2>2 DEF BackupKept, Underway
  <2>8. LeftRight' BY <2>2, <2>4 DEF LeftRight
  <2> QED BY <2>2, <2>4, <2>5, <2>6, <2>7, <2>8 DEF VpnInv
<1>8. CASE WriteFails
  <2>1. /\ onDisk' = [onDisk EXCEPT ![kind] = NoConfig] /\ lostFile' = TRUE
        /\ Conclude("failed") /\ UNCHANGED <<tunnel, proven, unsafe>>
    BY <1>8 DEF WriteFails
  <2>2. /\ ServerTypes' /\ apply' \in Applies /\ Whole(pulled') /\ Whole(cached')
        /\ apply'.pc = "idle"
    BY <1>1, <2>1, ConcludeIs
  <2>3. onDisk' \in [VpnKinds -> MaybeConfig] /\ Files' = {}
    BY <1>1, <1>3, <2>1 DEF AgentTypes, MaybeConfig, Files
  <2>4. AgentTypes' BY <1>1, <2>1, <2>2, <2>3 DEF AgentTypes
  <2>5. OneFile' BY <2>1, <2>3 DEF OneFile
  <2>6. Tested' BY <2>3 DEF Tested
  <2>7. BackupKept' BY <2>2 DEF BackupKept, Underway
  <2>8. LeftRight' BY <2>1, <2>3 DEF LeftRight
  <2> QED BY <2>2, <2>4, <2>5, <2>6, <2>7, <2>8 DEF VpnInv
<1> QED BY <1>4, <1>5, <1>6, <1>7, <1>8

\* A death in the middle of a test leaves its config behind, and `unsafe`
\* remembers it.
LEMMA VpnDies == VpnInv /\ VpnAgentDies => VpnInv'
<1> SUFFICES ASSUME VpnInv, VpnAgentDies PROVE VpnInv'
  OBVIOUS
<1> DEFINE n == [NoApply EXCEPT !.pc = "boot"]
<1>1. /\ apply' = n /\ verdicts' = <<>>
      /\ unsafe' = unsafe \cup (IF apply.pc = "verifying" THEN {pulled.config} ELSE {})
      /\ UNCHANGED <<serverSide, onDisk, tunnel, accepted, proven, lostFile, pulled, cached>>
  BY DEF VpnAgentDies
<1>2. NoTunnel \in [VpnKinds -> MaybeConfig] BY DEF NoTunnel, MaybeConfig
<1>3. n \in Applies /\ n.pc = "boot"
  BY <1>2 DEF NoApply, Applies, MaybeConfig
<1> HIDE DEF n
<1>4. ServerTypes' BY <1>1 DEF VpnInv, ServerTypes, serverSide
<1>5. AgentTypes' BY <1>1, <1>3 DEF VpnInv, AgentTypes, Whole
<1>6. Files' = Files BY <1>1 DEF Files
<1>7. OneFile' BY <1>1, <1>6 DEF VpnInv, OneFile
<1>8. Tested' BY <1>1, <1>6 DEF VpnInv, Tested
<1>9. BackupKept' /\ LeftRight' BY <1>1, <1>3 DEF BackupKept, Underway, LeftRight
<1> QED BY <1>4, <1>5, <1>7, <1>8, <1>9 DEF VpnInv

\* What the invariant says goes by nothing else than these.
LEMMA VpnUntouched ==
  VpnInv /\ ServerTypes' /\ UNCHANGED <<hostSide, deviceSide>> => VpnInv'
<1> SUFFICES ASSUME VpnInv, ServerTypes', UNCHANGED <<hostSide, deviceSide>> PROVE VpnInv'
  OBVIOUS
<1>1. UNCHANGED <<onDisk, tunnel, accepted, proven, unsafe, lostFile, pulled, cached, apply>>
  BY DEF hostSide, deviceSide
<1>2. Files' = Files BY <1>1 DEF Files
<1>3. AgentTypes' BY <1>1 DEF VpnInv, AgentTypes, Whole
<1>4. OneFile' /\ Tested' BY <1>1, <1>2 DEF VpnInv, OneFile, Tested
<1>5. BackupKept' BY <1>1, <1>2 DEF VpnInv, BackupKept, Underway
<1>6. LeftRight' BY <1>1, <1>2 DEF VpnInv, LeftRight
<1> QED BY <1>3, <1>4, <1>5, <1>6 DEF VpnInv

LEMMA VpnInvStep == VpnInv /\ [VpnNext]_vpnVars => VpnInv'
<1> SUFFICES ASSUME VpnInv, [VpnNext]_vpnVars PROVE VpnInv'
  OBVIOUS
<1>1. ServerTypes /\ Whole(Served) /\ Whole(cached) /\ Whole(pulled)
  BY ServedIs DEF VpnInv, AgentTypes
<1>2. CASE ServerStep BY <1>1, <1>2, VpnServer, VpnUntouched
<1>3. CASE Boot \/ PullProfile \/ Reapply
  <2>1. PICK v : Whole(v) /\ \E keep \in BOOLEAN : Begin(v, keep)
    <3>1. CASE Boot BY <1>1, <3>1 DEF Boot
    <3>2. CASE PullProfile BY <1>1, <3>2 DEF PullProfile
    <3>3. CASE Reapply BY <1>1, <3>3 DEF Reapply
    <3> QED BY <1>3, <3>1, <3>2, <3>3
  <2>2. apply.pc \in {"boot", "idle"} BY <1>3 DEF Boot, PullProfile, Reapply
  <2> QED BY <2>1, <2>2, VpnBegins
<1>4. CASE BringUp \/ Verified \/ VerifyFails \/ RollBack \/ WriteFails
  BY <1>4, VpnApplies
<1>5. CASE VpnAgentDies BY <1>5, VpnDies
<1>6. CASE Outage \/ UNCHANGED vpnVars
  <2>1. UNCHANGED <<serverSide, verdicts, hostSide, deviceSide>>
    BY <1>6 DEF Outage, vpnVars
  <2>2. ServerTypes' BY <1>1, <2>1 DEF ServerTypes, serverSide
  <2> QED BY <2>1, <2>2, VpnUntouched
<1> QED BY <1>2, <1>3, <1>4, <1>5, <1>6 DEF VpnNext, ServerStep, ApplyStep, VpnOps

\* Between two applies there is one tunnel at most, of a config that passed its
\* test, which the firewall lets through, and a failed test left what ran
\* before: for any number of profiles, kinds, configs, requests and faults, with
\* the exceptions TunnelKept names.
THEOREM TunnelsAreKept == VpnSpec => []TunnelKept
<1>1. VpnInv => TunnelKept
  <2> SUFFICES ASSUME VpnInv, apply.pc = "idle" PROVE
         /\ Cardinality(Files) <= 1
         /\ \A k \in Files : onDisk[k] \in proven \cup unsafe
         /\ lostFile \/ \A k \in VpnKinds : tunnel[k] \in {onDisk[k], NoConfig}
         /\ apply.failed => lostFile \/ tunnel = apply.before
         /\ \A k \in Files : onDisk[k] = accepted \/ apply.failed \/ lostFile
    BY DEF TunnelKept
  <2>1. Cardinality(Files) <= 1
    <3>1. CASE Files = {} BY <3>1, FS_EmptySet
    <3>2. CASE Files # {}
      <4>1. PICK k \in Files : Files = {k} BY <3>2 DEF VpnInv, OneFile
      <4>2. Cardinality({k}) = 1 BY FS_Singleton
      <4> QED BY <4>1, <4>2
    <3> QED BY <3>1, <3>2
  <2>2. \A k \in Files : onDisk[k] \in proven \cup unsafe BY DEF VpnInv, Tested
  <2>3. lostFile \/ \A k \in VpnKinds : tunnel[k] \in {onDisk[k], NoConfig}
    BY DEF VpnInv, OneFile, RunOf
  <2> QED BY <2>1, <2>2, <2>3 DEF VpnInv, LeftRight
<1> QED BY <1>1, VpnInvInit, VpnInvStep, PTL DEF VpnSpec

=============================================================================
