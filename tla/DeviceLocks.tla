----------------------------- MODULE DeviceLocks -----------------------------
(***************************************************************************)
(* What stops a whole computer (client/src/runner.rs): a parent's pause,   *)
(* the offline hard-lockdown and the confirmed-evasion lockdown; and what  *)
(* lifts them: a console unlock, a code at the lock, and `ost unlock`,     *)
(* which runs in a process of its own and leaves a marker the agent reads  *)
(* on its next tick.  The agent can stop at any point and be started       *)
(* again; part of the state is on disk and part of it is not.              *)
(*                                                                         *)
(* Days are counted by a clock that is right (DayClock models the clocks), *)
(* and writing a state file does not fail.                                 *)
(***************************************************************************)
EXTENDS Naturals

CONSTANTS LockdownDays,  \* days out of contact until the computer locks
          LastDay,       \* days of a behaviour (a bound)
          Unlocks        \* runs of `ost unlock` (a bound)

ASSUME DeviceLocksAssumption ==
  LockdownDays \in Nat \ {0} /\ LastDay \in Nat /\ Unlocks \in Nat

VARIABLES
  agent,      \* the running agent's locks, or those of the last one
  agentUp,
  stored,     \* device_locked, freeze_state.json, last_contact, local_recovery
  unlocker,   \* how far an `ost unlock` has got
  network,    \* a default route, and a server that answers over it
  flushed,    \* the loaded firewall table is missing
  hasCode,    \* an offline unlock credential is on the device
  day,
  \* history
  paused,     \* a pause no parent has lifted
  caught,     \* a confirmed evasion no parent has forgiven
  away,       \* days since the last contact or recovery
  cutOff,     \* of those, the days spent on a network without the server
  missed,     \* the agent was down when an `ost unlock` was recorded
  overtaken,  \* that pause was put on while an `ost unlock` was unread
  unsaved     \* the last contact came too soon to be saved

deviceVars == <<agent, agentUp, stored, unlocker, network, flushed, hasCode, day, paused,
                caught, away, cutOff, missed, overtaken, unsaved>>
deviceHistory == <<paused, caught, away, cutOff, missed, overtaken, unsaved>>

Confirmations == 2   \* confirm_threshold("nft_flush")
BootMinutes == 2     \* BOOT_GRACE
OneMore(n, cap) == IF n < cap THEN n + 1 ELSE cap

Networks == {"none", "cut off", "online"}

\* Agent::new: what it takes from disk; the marker there counts as read.
Loaded ==
  [pause |-> stored.pause, grace |-> FALSE, offline |-> FALSE, tamper |-> stored.tamper,
   strikes |-> 0, age |-> stored.age, seen |-> stored.marker, uptime |-> 0, throttled |-> TRUE]

DeviceInit ==
  /\ stored = [pause |-> FALSE, tamper |-> FALSE, age |-> 0, marker |-> 0]
  /\ agent = [pause |-> FALSE, grace |-> FALSE, offline |-> FALSE, tamper |-> FALSE,
              strikes |-> 0, age |-> 0, seen |-> 0, uptime |-> 0, throttled |-> TRUE]
  /\ agentUp = FALSE /\ unlocker = "idle" /\ network = "online" /\ flushed = FALSE
  /\ hasCode = TRUE /\ day = 0 /\ paused = FALSE /\ caught = FALSE /\ away = 0
  /\ cutOff = 0 /\ missed = FALSE /\ overtaken = FALSE
  /\ unsaved = FALSE

Unread == unlocker = "unlocked" \/ stored.marker # agent.seen

-----------------------------------------------------------------------------
(* The world *)

NetworkChanges(n) ==
  /\ n # network
  /\ network' = n
  /\ UNCHANGED <<agent, agentUp, stored, unlocker, flushed, hasCode, day, deviceHistory>>

\* Awake, asleep or switched off: the age is a difference of wall clocks.
DayGoesBy ==
  /\ day < LastDay
  /\ day' = day + 1
  /\ agent' = [agent EXCEPT !.age = OneMore(@, LockdownDays)]
  /\ stored' = [stored EXCEPT !.age = OneMore(@, LockdownDays)]
  /\ away' = OneMore(away, LockdownDays)
  /\ cutOff' = IF agentUp /\ network = "cut off" THEN OneMore(cutOff, LockdownDays) ELSE cutOff
  /\ UNCHANGED <<agentUp, unlocker, network, flushed, hasCode, paused, caught, missed,
                 overtaken, unsaved>>

\* The boot grace runs out, and record_contact may save again.
MinuteGoesBy ==
  /\ agentUp
  /\ agent' = [agent EXCEPT !.uptime = OneMore(@, BootMinutes), !.throttled = FALSE]
  /\ agent' # agent
  /\ UNCHANGED <<agentUp, stored, unlocker, network, flushed, hasCode, day, deviceHistory>>

FirewallFlushed ==
  /\ ~flushed
  /\ flushed' = TRUE
  /\ UNCHANGED <<agent, agentUp, stored, unlocker, network, hasCode, day, deviceHistory>>

AgentStops ==
  /\ agentUp
  /\ agentUp' = FALSE
  /\ UNCHANGED <<agent, stored, unlocker, network, flushed, hasCode, day, deviceHistory>>

AgentStarts ==
  /\ ~agentUp
  /\ agentUp' = TRUE /\ agent' = Loaded
  /\ missed' = (missed \/ stored.marker # agent.seen)
  /\ UNCHANGED <<stored, unlocker, network, flushed, hasCode, day, paused, caught, away,
                 cutOff, overtaken, unsaved>>

-----------------------------------------------------------------------------
(* `ost unlock`: tear enforcement down, clear the stored pause, leave a marker *)

UnlockTearsDown ==
  /\ unlocker = "idle" /\ hasCode /\ stored.marker < Unlocks
  /\ unlocker' = "torn down" /\ flushed' = TRUE
  /\ UNCHANGED <<agent, agentUp, stored, network, hasCode, day, deviceHistory>>

UnlockClearsPause ==
  /\ unlocker = "torn down"
  /\ unlocker' = "unlocked"
  /\ stored' = [stored EXCEPT !.pause = FALSE]
  /\ paused' = FALSE
  /\ UNCHANGED <<agent, agentUp, network, flushed, hasCode, day, caught, away, cutOff,
                 missed, overtaken, unsaved>>

UnlockLeavesMarker ==
  /\ unlocker = "unlocked"
  /\ unlocker' = "idle"
  /\ stored' = [stored EXCEPT !.marker = @ + 1]
  /\ caught' = FALSE
  /\ UNCHANGED <<agent, agentUp, network, flushed, hasCode, day, paused, away, cutOff,
                 missed, overtaken, unsaved>>

-----------------------------------------------------------------------------
(* The agent *)

\* Slip: a recovery that only lifts the locks, not what put them on.
RecoveredForNow(a) == [a EXCEPT !.pause = FALSE, !.grace = FALSE, !.offline = FALSE,
                                !.tamper = FALSE]

\* local_recovery: every lock off, and the days start anew.
Recovered(a) == [a EXCEPT !.pause = FALSE, !.grace = FALSE, !.offline = FALSE,
                          !.tamper = FALSE, !.age = 0]

StoreRecovery(a) == [stored EXCEPT !.pause = FALSE, !.tamper = a.tamper, !.age = a.age]

\* A bundle or a frame arrived; the day is saved at most once a minute, and a
\* bundle can bring recovery codes or take them away.
Contact(code) ==
  /\ agentUp /\ network = "online"
  /\ agent' = [agent EXCEPT !.age = 0, !.throttled = TRUE]
  /\ stored' = IF agent.throttled THEN stored ELSE [stored EXCEPT !.age = 0]
  /\ hasCode' = code
  /\ away' = 0 /\ cutOff' = 0
  /\ unsaved' = (agent.throttled /\ stored.age # 0)
  /\ UNCHANGED <<agentUp, unlocker, network, flushed, day, paused, caught, missed, overtaken>>

\* CMD_LOCK, with a save-your-work window or without one.
LockCommand(window) ==
  /\ agentUp /\ network = "online"
  /\ agent' = [agent EXCEPT !.pause = TRUE, !.grace = window]
  /\ stored' = [stored EXCEPT !.pause = TRUE, !.tamper = agent.tamper]
  /\ paused' = TRUE /\ overtaken' = Unread
  /\ UNCHANGED <<agentUp, unlocker, network, flushed, hasCode, day, caught, away, cutOff,
                 missed, unsaved>>

WindowCloses ==
  /\ agentUp /\ agent.grace
  /\ agent' = [agent EXCEPT !.grace = FALSE]
  /\ UNCHANGED <<agentUp, stored, unlocker, network, flushed, hasCode, day, deviceHistory>>

\* CMD_UNLOCK lifts the pause and an evasion lockdown, not the offline one.
UnlockCommand ==
  /\ agentUp /\ network = "online"
  /\ agent' = [agent EXCEPT !.pause = FALSE, !.grace = FALSE, !.tamper = FALSE]
  /\ stored' = [stored EXCEPT !.pause = FALSE, !.tamper = FALSE]
  /\ paused' = FALSE /\ caught' = FALSE
  /\ UNCHANGED <<agentUp, unlocker, network, flushed, hasCode, day, away, cutOff,
                 missed, overtaken, unsaved>>

UnlockCode ==
  /\ agentUp /\ hasCode
  /\ agent' = Recovered(agent)
  /\ stored' = StoreRecovery(agent')
  /\ paused' = FALSE /\ caught' = FALSE /\ away' = 0 /\ cutOff' = 0
  /\ unsaved' = FALSE
  /\ UNCHANGED <<agentUp, unlocker, network, flushed, hasCode, day, missed, overtaken>>

\* A marker the agent has not seen is honoured once.
Honoured(a) ==
  IF stored.marker = a.seen THEN a ELSE [Recovered(a) EXCEPT !.seen = stored.marker]

\* Slip: a hard-lockdown that contact does not lift.
OfflineLatches(a) ==
  a.offline \/ (network # "none" /\ hasCode /\ a.age >= LockdownDays)
\* offline_hard_lockdown_check
OfflineEngaged(a) == network # "none" /\ hasCode /\ a.age >= LockdownDays

\* TamperMonitor::observe: ticks in a row, none of them in the boot grace.
Strikes(a) ==
  IF flushed /\ a.uptime >= BootMinutes THEN OneMore(a.strikes, Confirmations) ELSE 0
Confirmed(a) == Strikes(a) = Confirmations /\ a.strikes < Confirmations

\* enforcement_tick, as far as the whole-device locks go: repair the table,
\* honour the marker, count the days, count the strikes, save.
DeviceTick ==
  LET a == Honoured(agent)
      confirmed == Confirmed(a)
  IN  /\ agentUp
      /\ agent' = [a EXCEPT !.offline = OfflineEngaged(a), !.strikes = Strikes(a),
                            !.tamper = @ \/ confirmed]
      /\ stored' = IF a = agent THEN [stored EXCEPT !.tamper = agent'.tamper]
                   ELSE StoreRecovery(agent')
      /\ flushed' = FALSE
      /\ IF a = agent
         THEN /\ caught' = (caught \/ confirmed)
              /\ UNCHANGED <<away, cutOff, missed, unsaved>>
         ELSE /\ caught' = confirmed /\ away' = 0 /\ cutOff' = 0
              /\ missed' = FALSE /\ unsaved' = FALSE
      /\ UNCHANGED <<agentUp, unlocker, network, hasCode, day, paused, overtaken>>

DeviceNext ==
  \/ \E n \in Networks : NetworkChanges(n)
  \/ DayGoesBy \/ MinuteGoesBy \/ FirewallFlushed \/ AgentStops \/ AgentStarts
  \/ UnlockTearsDown \/ UnlockClearsPause \/ UnlockLeavesMarker
  \/ \E code \in BOOLEAN : Contact(code)
  \/ \E window \in BOOLEAN : LockCommand(window)
  \/ WindowCloses \/ UnlockCommand \/ UnlockCode \/ DeviceTick

\* The agent ticks every ten seconds, and hears from a server that answers.
DeviceFair ==
  /\ WF_deviceVars(DeviceTick)
  /\ WF_deviceVars(\E code \in BOOLEAN : Contact(code))

DeviceSpec == DeviceInit /\ [][DeviceNext]_deviceVars /\ DeviceFair

-----------------------------------------------------------------------------
(* Properties *)

\* A pause outlasts ticks, crashes and the power button, until a parent lifts
\* it (save when it was put on while an `ost unlock` was still unread).
PauseHolds == agentUp /\ paused /\ ~overtaken => agent.pause

\* So does a confirmed-evasion lockdown: "never by the power button".
CaughtHolds == agentUp /\ caught => agent.tamper

\* After a parent has proven themselves no lock stands that nothing since then
\* has put on (save when the agent was down for an `ost unlock`).
ParentStands ==
  agentUp /\ ~Unread /\ ~missed =>
    /\ agent.pause => paused
    /\ agent.tamper => caught

\* A hard-lockdown is about days really out of contact since the last contact
\* or recovery, or about a contact too short to have been saved; the tick after
\* a contact lifts it.
LockdownIsDue ==
  agentUp /\ agent.offline /\ agent.age >= LockdownDays =>
    away >= LockdownDays \/ unsaved

\* The whole-device locks tell the truth (local_recovery, CMD_LOCK,
\* CMD_UNLOCK, enforcement_tick, Agent::new), through crashes, restarts and
\* an `ost unlock` that runs beside the agent.
LocksTruthful ==
  /\ PauseHolds /\ CaughtHolds /\ ParentStands /\ LockdownIsDue
  /\ agent.grace => agent.pause

\* A server that answers for good gets the computer out of a hard-lockdown,
\* and an `ost unlock` beside a living agent is heard by it.
LocksLift ==
  /\ <>[](agentUp /\ network = "online") => <>[](~agent.offline)
  /\ stored.marker # agent.seen ~> stored.marker = agent.seen \/ ~agentUp

\* Claimed (offline_hard_lockdown_check, tamper::local_network_up): only a
\* computer that was on a network and out of reach counts the days down.
AwayIsInnocent ==
  [][agent'.offline /\ ~agent.offline => cutOff >= LockdownDays]_deviceVars

=============================================================================
