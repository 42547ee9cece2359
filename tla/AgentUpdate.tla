----------------------------- MODULE AgentUpdate -----------------------------
(***************************************************************************)
(* The agent replaces itself: the daily check (client/src/update.rs), the  *)
(* service manager that runs it, and the watchdog that puts the previous   *)
(* binary back (client/systemd).                                           *)
(*                                                                         *)
(* The task that updates dies with the process at any step; the power can  *)
(* go at any step of everything.  The heartbeat file lives in the          *)
(* service's runtime directory and goes with the process.  The watchdog    *)
(* looks every 30 s, a heartbeat is old after 90 s, and a new build is     *)
(* kept after 60 s: long enough for one look, too short for a heartbeat it *)
(* once wrote to grow old.                                                 *)
(***************************************************************************)
EXTENDS Naturals

CONSTANTS Builds,
          Version,         \* build -> its version number
          FailsPreflight,  \* builds that do not load on this machine,
          CrashLoops,      \* ... that die within their first minute,
          NeverBeats,      \* ... that hang before their first tick,
          HangsLater,      \* ... and that hang some time after it
          FirstBuild,      \* installed by hand; it works
          Offers,          \* how often the server comes to ship another build
          UpdateFaults,    \* deaths, power cuts, failed calls, machines put to sleep
          NoBuild

Works == Builds \ (FailsPreflight \cup CrashLoops \cup NeverBeats \cup HangsLater)

ASSUME UpdateAssumption ==
  /\ Version \in [Builds -> Nat] /\ NoBuild \notin Builds
  /\ FirstBuild \in Works
  /\ Offers \in Nat /\ UpdateFaults \in Nat

VARIABLES
  offered,    \* the build the family's server ships
  installed,  \* /usr/local/bin/openscreentime ...
  backup,     \* ... and its .bak, or NoBuild
  unproven,   \* update-pending.json: the build that has to prove itself
  refused,    \* update-rejected.json
  running,    \* the build of the process, or NoBuild
  beat,       \* the heartbeat file: "none", "fresh", "old"
  restarts,   \* NRestarts, up to the 3 that count
  updater,    \* the update task: what it does next
  wanted,     \* the build it has staged
  outlived,   \* this process met a look of the watchdog, and passed
  fooled,     \* kept a build that hangs, or backed one up that never ran (history)
  offers, updateFaults

service == <<running, beat, restarts, updater, outlived>>
files   == <<installed, backup, unproven, refused>>
updateVars == <<offered, files, service, wanted, fooled, offers, updateFaults>>

UpdateInit ==
  /\ offered = FirstBuild /\ installed = FirstBuild /\ backup = NoBuild
  /\ unproven = NoBuild /\ refused = NoBuild
  /\ running = FirstBuild /\ beat = "fresh" /\ restarts = 0
  /\ updater = "idle" /\ wanted = NoBuild /\ outlived = TRUE /\ fooled = FALSE
  /\ offers = Offers /\ updateFaults = UpdateFaults

-----------------------------------------------------------------------------
(* The update task.                                                        *)

OfferBuild == \E b \in Builds \ {offered} :
  /\ offers > 0 /\ offers' = offers - 1
  /\ offered' = b
  /\ UNCHANGED <<files, service, wanted, fooled, updateFaults>>

\* Never identical bytes, never a step back; every build has a build id.
ShouldUpdate(b) ==
  /\ installed # b /\ Version[b] >= Version[running] /\ running # b

\* Decide, download, verify, stage, preflight.
FetchBuild ==
  /\ updater = "idle" /\ ShouldUpdate(offered) /\ refused # offered
  /\ IF offered \in FailsPreflight
     THEN refused' = offered /\ UNCHANGED <<updater, wanted>>
     ELSE updater' = "back up" /\ wanted' = offered /\ UNCHANGED refused
  /\ UNCHANGED <<offered, installed, backup, unproven, running, beat, restarts, outlived,
                 fooled, offers, updateFaults>>

BackUpBinary ==
  /\ updater = "back up" /\ updater' = "mark"
  /\ backup' = installed
  /\ fooled' = (fooled \/ installed # running)
  /\ UNCHANGED <<offered, installed, unproven, refused, running, beat, restarts, outlived,
                 wanted, offers, updateFaults>>

MarkPending ==
  /\ updater = "mark" /\ updater' = "swap"
  /\ unproven' = wanted
  /\ UNCHANGED <<offered, installed, backup, refused, running, beat, restarts, outlived,
                 wanted, fooled, offers, updateFaults>>

UpdateFault == updateFaults > 0 /\ updateFaults' = updateFaults - 1

\* The rename; one that fails takes the marker back.
SwapBinary ==
  /\ updater = "swap"
  /\ \/ installed' = wanted /\ updater' = "restart" /\ UNCHANGED <<unproven, updateFaults>>
     \/ UpdateFault /\ unproven' = NoBuild /\ updater' = "idle" /\ UNCHANGED installed
  /\ UNCHANGED <<offered, backup, refused, running, beat, restarts, outlived, wanted, fooled,
                 offers>>

\* Stopped by `systemctl restart`: started again at once, counters from zero.
Stopped == running' = NoBuild /\ beat' = "none" /\ restarts' = 0 /\ updater' = "gone"
           /\ outlived' = FALSE

RestartService ==
  /\ updater = "restart"
  /\ \/ Stopped /\ UNCHANGED updateFaults
     \/ UpdateFault /\ updater' = "idle" /\ UNCHANGED <<running, beat, restarts, outlived>>
  /\ UNCHANGED <<offered, files, wanted, fooled, offers>>

\* A slip: whatever starts is taken to work.
SettleAtOnce ==
  /\ updater = "settle" /\ updater' = "idle"
  /\ unproven' = NoBuild
  /\ fooled' = (fooled \/ (unproven # NoBuild /\ running \in HangsLater))
  /\ UNCHANGED <<offered, installed, backup, refused, running, beat, restarts, outlived,
                 wanted, offers, updateFaults>>

\* settle_previous_update: a minute, if there is a marker to take away.
SettlePrevious ==
  /\ updater = "settle" /\ updater' = "idle"
  /\ unproven # NoBuild => outlived /\ running \notin CrashLoops
  /\ unproven' = NoBuild
  /\ fooled' = (fooled \/ (unproven # NoBuild /\ running \in HangsLater))
  /\ UNCHANGED <<offered, installed, backup, refused, running, beat, restarts, outlived,
                 wanted, offers, updateFaults>>

-----------------------------------------------------------------------------
(* The process, the machine and the watchdog.                              *)

ServiceStarts ==
  /\ running = NoBuild /\ running' = installed
  /\ updater' = (IF installed \in NeverBeats THEN "gone" ELSE "settle")
  /\ UNCHANGED <<offered, files, beat, restarts, wanted, outlived, fooled, offers, updateFaults>>

AgentTicks ==
  /\ running # NoBuild /\ running \notin NeverBeats
  /\ beat # "fresh" /\ (beat = "old" => running \notin HangsLater)
  /\ beat' = "fresh"
  /\ UNCHANGED <<offered, files, running, restarts, updater, wanted, outlived, fooled, offers,
                 updateFaults>>

BeatGrowsOld ==
  /\ beat = "fresh" /\ beat' = "old"
  /\ \/ running \in HangsLater /\ (unproven # NoBuild => updater # "settle")
        /\ UNCHANGED updateFaults
     \/ UpdateFault   \* the machine was asleep, or its clock was set
  /\ UNCHANGED <<offered, files, running, restarts, updater, wanted, outlived, fooled, offers>>

\* Restart=always.
ProcessDies ==
  /\ running # NoBuild
  /\ \/ running \in CrashLoops /\ UNCHANGED updateFaults
     \/ UpdateFault
  /\ running' = NoBuild /\ beat' = "none" /\ updater' = "gone" /\ outlived' = FALSE
  /\ restarts' = IF restarts < 3 THEN restarts + 1 ELSE restarts
  /\ UNCHANGED <<offered, files, wanted, fooled, offers>>

PowerCut ==
  /\ UpdateFault /\ Stopped
  /\ UNCHANGED <<offered, files, wanted, fooled, offers>>

Broken == unproven # NoBuild /\ (beat # "fresh" \/ restarts = 3)

RestoreBackup ==
  /\ installed' = IF backup # NoBuild THEN backup ELSE installed
  /\ backup' = NoBuild

\* One look of the watchdog: roll back, or restart, or let be.
WatchdogLooks ==
  /\ IF Broken THEN RestoreBackup /\ refused' = unproven /\ unproven' = NoBuild /\ Stopped
     ELSE /\ UNCHANGED files
          /\ IF beat # "fresh" THEN Stopped
             ELSE outlived' = TRUE /\ UNCHANGED <<running, beat, restarts, updater>>
  /\ UNCHANGED <<offered, wanted, fooled, offers, updateFaults>>

\* A slip: the marker is put aside before the binary is back.
MarkerGoesFirst ==
  /\ Broken /\ UpdateFault
  /\ refused' = unproven /\ unproven' = NoBuild /\ Stopped
  /\ UNCHANGED <<offered, installed, backup, wanted, fooled, offers>>

\* The power goes when the binary is back and the marker still there.
RollBackCut ==
  /\ Broken /\ UpdateFault
  /\ RestoreBackup /\ Stopped
  /\ UNCHANGED <<offered, unproven, refused, wanted, fooled, offers>>

UpdateNext ==
  \/ OfferBuild \/ FetchBuild \/ BackUpBinary \/ MarkPending \/ SwapBinary \/ RestartService
  \/ SettlePrevious \/ ServiceStarts \/ AgentTicks \/ BeatGrowsOld \/ ProcessDies \/ PowerCut
  \/ WatchdogLooks \/ RollBackCut

\* The service manager starts what is down and the timer fires for ever; a
\* build that ticks does so between two looks; broken builds show it.
UpdateFair ==
  /\ WF_updateVars(ServiceStarts) /\ WF_updateVars(WatchdogLooks) /\ SF_updateVars(AgentTicks)
  /\ SF_updateVars(ProcessDies /\ running \in CrashLoops)
  /\ WF_updateVars(BeatGrowsOld /\ running \in HangsLater)
  /\ SF_updateVars(SettlePrevious)
UpdateSpec == UpdateInit /\ [][UpdateNext]_updateVars

-----------------------------------------------------------------------------
\* Back up, mark, then swap (update.rs): wherever the power goes, whichever call
\* fails and however far a rollback got, a build that is not known to work is
\* installed only with its own marker beside it, by which the watchdog knows
\* it, and with a build that works to put back.
WayBack ==
  ~fooled => installed \in Works \/ (unproven = installed /\ backup \in Works)

\* Whatever builds the server ships, and wherever the power goes, a build
\* that works runs in the end and keeps running (update.rs's automatic
\* rollback).  Not after the agent kept a build that hangs later, or backed
\* up one that never ran: `fooled`.
EndsOnAWorkingBuild ==
  []~fooled => <>[](running \in Works /\ beat = "fresh")

\* What the watchdog's comment says: the build it puts aside is broken on
\* this machine.
RefusedIsBroken == refused \notin Works

\* And AGENT.md: a build that stops ticking is put back before it is kept.
KeptBuildWorks == ~fooled
=============================================================================
