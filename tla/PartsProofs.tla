----------------------------- MODULE PartsProofs -----------------------------
(***************************************************************************)
(* What TLAPS proves of three parts of the agent in which something can be *)
(* cut off between any two steps: its update (AgentUpdate), its removal    *)
(* (Retirement) and the lookups it counts (UsageSlices), for any bounds.   *)
(***************************************************************************)
EXTENDS AgentUpdate, Retirement, UsageSlices, SequenceTheorems, FiniteSetTheorems,
        WellFoundedInduction, TLAPS

(***************************************************************************)
(* The update: a build that works is installed or can be put back.         *)
(***************************************************************************)

UpdateSteps == {"idle", "back up", "mark", "swap", "restart", "settle", "gone"}

UpdateTypes ==
  /\ installed \in Builds \ FailsPreflight
  /\ backup \in (Builds \ FailsPreflight) \cup {NoBuild}
  /\ unproven \in Builds \cup {NoBuild} /\ running \in Builds \cup {NoBuild}
  /\ offered \in Builds
  /\ updater \in UpdateSteps
  /\ fooled \in BOOLEAN

\* The update task goes with its process; while it settles, what runs is what
\* is installed, and ticks; later on that is so until a restart failed.
TaskRuns ==
  /\ running = NoBuild => updater = "gone"
  /\ updater = "settle" => running = installed /\ running \notin NeverBeats

\* What was staged passed its preflight, and is not what runs.
Staged ==
  updater \in {"back up", "mark", "swap", "restart"} =>
    wanted \in Builds \ FailsPreflight /\ wanted # running

\* Whatever is put aside to go back to works.
BackupWorks == backup # NoBuild => backup \in Works

\* A build that has settled and is still installed works.
SettledWorks ==
  updater \in {"idle", "back up", "mark", "swap"} /\ running = installed => installed \in Works

\* How far the change of the files has come.
Changing ==
  /\ updater \in {"mark", "swap"} =>
       running = installed /\ installed \in Works /\ backup = installed
  /\ updater = "swap" => unproven = wanted
  /\ updater = "restart" => unproven = wanted /\ installed = wanted /\ backup \in Works

UpdateInv ==
  /\ UpdateTypes /\ TaskRuns /\ Staged
  /\ ~fooled => BackupWorks /\ SettledWorks /\ Changing /\ WayBack

\* Nothing of the files, the task and what runs changes.
LEMMA UpdateStands ==
  ASSUME UpdateInv, UNCHANGED <<files, running, updater, wanted, fooled>>, offered' \in Builds
  PROVE  UpdateInv'
BY DEF UpdateInv, UpdateTypes, TaskRuns, Staged, BackupWorks, SettledWorks, Changing, WayBack, files

\* The process ends.
LEMMA ProcessEnds ==
  ASSUME UpdateInv, UNCHANGED <<offered, files, wanted, fooled>>,
         running' = NoBuild, updater' = "gone"
  PROVE  UpdateInv'
BY DEF UpdateInv, UpdateTypes, UpdateSteps, TaskRuns, Staged, BackupWorks, SettledWorks, Changing,
       WayBack, files

\* The binary goes back, whether the marker goes too or not.
LEMMA RollBackKeeps ==
  ASSUME UpdateInv, RestoreBackup, unproven' \in {unproven, NoBuild},
         UNCHANGED <<offered, wanted, fooled>>, running' = NoBuild, updater' = "gone"
  PROVE  UpdateInv'
<1>1. ~fooled => installed' \in Works
  BY UpdateAssumption DEF UpdateInv, RestoreBackup, BackupWorks, WayBack, Works
<1>2. installed' \in Builds \ FailsPreflight
  <2>1. CASE backup = NoBuild
    BY <2>1 DEF UpdateInv, RestoreBackup, UpdateTypes
  <2>2. CASE backup # NoBuild
    BY <2>2 DEF UpdateInv, RestoreBackup, UpdateTypes
  <2> QED BY <2>1, <2>2
<1> QED
  BY <1>1, <1>2 DEF UpdateInv, UpdateTypes, UpdateSteps, TaskRuns, Staged, BackupWorks,
     SettledWorks, Changing, WayBack, RestoreBackup

LEMMA UpdateInvInit == UpdateInit => UpdateInv
BY UpdateAssumption DEF UpdateInit, UpdateInv, UpdateTypes, UpdateSteps, TaskRuns, Staged,
   BackupWorks, SettledWorks, Changing, WayBack, Works

LEMMA UpdateInvStep == UpdateInv /\ [UpdateNext]_updateVars => UpdateInv'
<1> SUFFICES ASSUME UpdateInv, [UpdateNext]_updateVars PROVE UpdateInv'
  OBVIOUS
<1> USE UpdateAssumption
<1>1. CASE OfferBuild
  BY <1>1, UpdateStands DEF OfferBuild, service
<1>2. CASE FetchBuild
  BY <1>2 DEF FetchBuild, ShouldUpdate, UpdateInv, UpdateTypes, UpdateSteps, TaskRuns, Staged,
     BackupWorks, SettledWorks, Changing, WayBack
<1>3. CASE BackUpBinary
  BY <1>3 DEF BackUpBinary, UpdateInv, UpdateTypes, UpdateSteps, TaskRuns, Staged,
     BackupWorks, SettledWorks, Changing, WayBack, Works
<1>4. CASE MarkPending
  BY <1>4 DEF MarkPending, UpdateInv, UpdateTypes, UpdateSteps, TaskRuns, Staged,
     BackupWorks, SettledWorks, Changing, WayBack
<1>5. CASE SwapBinary
  BY <1>5 DEF SwapBinary, UpdateInv, UpdateTypes, UpdateSteps, TaskRuns, Staged,
     BackupWorks, SettledWorks, Changing, WayBack
<1>6. CASE RestartService
  <2>1. CASE Stopped
    BY <1>6, <2>1, ProcessEnds DEF RestartService, Stopped
  <2>2. CASE updater' = "idle" /\ UNCHANGED running
    <3>1. ~fooled => installed # running
      BY <1>6 DEF RestartService, UpdateInv, Staged, Changing
    <3> QED
      BY <1>6, <2>2, <3>1 DEF RestartService, UpdateInv, UpdateTypes, UpdateSteps, TaskRuns, Staged,
         BackupWorks, SettledWorks, Changing, WayBack, files
  <2> QED BY <1>6, <2>1, <2>2 DEF RestartService
<1>7. CASE SettlePrevious
  BY <1>7 DEF SettlePrevious, UpdateInv, UpdateTypes, UpdateSteps, TaskRuns, Staged,
     BackupWorks, SettledWorks, Changing, WayBack, Works
<1>8. CASE ServiceStarts
  BY <1>8 DEF ServiceStarts, UpdateInv, UpdateTypes, UpdateSteps, TaskRuns, Staged,
     BackupWorks, SettledWorks, Changing, WayBack, files
<1>9. CASE AgentTicks
  BY <1>9, UpdateStands DEF AgentTicks, UpdateInv, UpdateTypes
<1>10. CASE BeatGrowsOld
  BY <1>10, UpdateStands DEF BeatGrowsOld, UpdateInv, UpdateTypes
<1>11. CASE ProcessDies \/ PowerCut
  BY <1>11, ProcessEnds DEF ProcessDies, PowerCut, Stopped
<1>12. CASE WatchdogLooks
  <2>1. CASE Broken
    BY <1>12, <2>1, RollBackKeeps DEF WatchdogLooks, Stopped
  <2>2. CASE ~Broken /\ Stopped
    BY <1>12, <2>2, ProcessEnds DEF WatchdogLooks, Stopped
  <2>3. CASE ~Broken /\ UNCHANGED <<running, updater>>
    BY <1>12, <2>3, UpdateStands DEF WatchdogLooks, UpdateInv, UpdateTypes
  <2> QED BY <1>12, <2>1, <2>2, <2>3 DEF WatchdogLooks
<1>13. CASE RollBackCut
  BY <1>13, RollBackKeeps DEF RollBackCut, Stopped
<1>14. CASE UNCHANGED updateVars
  BY <1>14, UpdateStands DEF updateVars, service, UpdateInv, UpdateTypes
<1> QED
  BY <1>1, <1>2, <1>3, <1>4, <1>5, <1>6, <1>7, <1>8, <1>9, <1>10, <1>11, <1>12, <1>13, <1>14
     DEF UpdateNext

\* Wherever the power goes and whatever fails, a build that is not known to
\* work is installed only beside its own marker and a build that works, until a
\* build that hangs was kept: update.rs's order of backup, marker and rename,
\* and the watchdog's of rollback and marker.
THEOREM AlwaysAWayBack == UpdateSpec => []WayBack
<1>1. UpdateInv => WayBack
  BY DEF UpdateInv, WayBack
<1> QED
  BY <1>1, UpdateInvInit, UpdateInvStep, PTL DEF UpdateSpec

(***************************************************************************)
(* The removal: only a computer that was removed is taken off.             *)
(***************************************************************************)

Starting == {"down", "loaded", "run", "heard"}
Retiring == {"thaw", "release", "teardown", "mark", "spawn"}
Process ==
  [pc : Starting \cup Retiring \cup {"stopped", "waiting"}, token : {"old", "new", "none"},
   rules : BOOLEAN, round : BOOLEAN]

Untouched == unit = "enabled" /\ timer = "enabled" /\ binary /\ ~marker /\ helper = "none"

\* In a household whose computer it is, nothing of a removal has begun.
ListedInv ==
  household = "listed" =>
    /\ Untouched /\ enrolled = "old" /\ installing = "none"
    /\ process.pc \in Starting

\* The helper's order: the watchdog goes before the agent it would restart, the
\* agent before its units.  A helper that died in between left the agent
\* stopped, and nobody to start it.
RemovedInv ==
  household = "removed" =>
    /\ installing = "none"
    /\ helper \in {"agent", "free", "teardown", "units"} => timer # "enabled"
    /\ helper \in {"free", "teardown", "units"} => unit # "enabled"
    /\ helper \in {"config", "state", "binary"} => unit = "gone"
    /\ unit # "enabled" => timer # "enabled"
    /\ helper = "none" /\ unit = "disabled" => process.pc = "stopped" /\ watchdog = "idle"

\* A new installation that met nothing of the removal: until it enables its own
\* units nothing runs or is started, and what starts then has its token.
AgainInv ==
  household = "again" /\ ~overlapped =>
    /\ enrolled = "new" /\ binary /\ helper = "none" /\ watchdog = "idle"
    /\ installing \in {"marker", "units"} =>
         /\ unit # "enabled" /\ timer # "enabled"
         /\ process.pc = "stopped" \/ (unit = "gone" /\ process.pc \in {"down", "waiting"})
    /\ installing # "marker" => ~marker
    /\ installing = "none" =>
         /\ Untouched /\ process.pc \in Starting
         /\ process.pc # "down" => process.token = "new"

RetireInv ==
  /\ process \in Process
  /\ household \in {"listed", "removed", "again"} /\ enrolled \in {"old", "new", "none"}
  /\ installing \in {"none", "marker", "units"} /\ unit \in {"enabled", "disabled", "gone"}
  /\ timer \in {"enabled", "disabled", "gone"}
  /\ helper \in {"none", "mark", "timer", "agent", "free", "teardown", "units", "config", "state",
                 "binary"}
  /\ ListedInv /\ RemovedInv /\ AgainInv

LEMMA RetireInvInit == RetireInit => RetireInv
BY DEF RetireInit, RetireInv, ListedInv, RemovedInv, AgainInv, Untouched, Process, Starting, Retiring

\* What the invariant is about stays, or only the process moves on.
LEMMA RetireStands ==
  ASSUME RetireInv, UNCHANGED <<household, machine, helper, watchdog, installing, past>>,
         process' \in Process,
         \/ process'.pc = process.pc /\ process'.token = process.token
         \/ /\ process.pc \in Starting => process'.pc \in Starting
            /\ process.pc # "stopped"
            /\ process.pc \in {"down", "waiting"} => process'.pc = "down" \/ unit # "gone"
            /\ process'.pc # "down" =>
                 \/ process.pc # "down" /\ process'.token = process.token
                 \/ process'.token = enrolled
  PROVE  RetireInv'
BY DEF RetireInv, ListedInv, RemovedInv, AgainInv, Untouched, Process, Starting, Retiring, machine,
       past

LEMMA RetireInvStep == RetireInv /\ [RetireNext]_retireVars => RetireInv'
<1> SUFFICES ASSUME RetireInv, [RetireNext]_retireVars PROVE RetireInv'
  OBVIOUS
<1>0. process \in Process
  BY DEF RetireInv
<1>1. CASE RemoveComputer
  BY <1>1 DEF RemoveComputer, RetireInv, ListedInv, RemovedInv, AgainInv, Untouched, Starting, machine,
     past
<1>2. CASE Load
  <2>1. process' \in Process /\ process'.pc = "loaded" /\ process'.token = enrolled
    BY <1>2 DEF Load, Down, Process, Starting, RetireInv
  <2> QED BY <1>2, <2>1, RetireStands DEF Load, Starting
<1>3. CASE StartMarked
  <2>1. process' \in Process /\ process'.pc = "waiting"
    BY <1>3 DEF StartMarked, Down, Process
  <2>2. household # "listed" /\ (household = "again" => overlapped)
    BY <1>3 DEF StartMarked, RetireInv, ListedInv, AgainInv, Untouched
  <2>3. /\ helper' = helper \/ (helper = "none" /\ helper' = "mark")
        /\ household = "removed" /\ unit = "disabled" => helper # "none"
    BY <1>3 DEF StartMarked, SpawnHelper, RetireInv, RemovedInv
  <2> QED BY <1>3, <2>1, <2>2, <2>3 DEF StartMarked, RetireInv, ListedInv, RemovedInv, AgainInv, machine, past
<1>4. CASE \E answered \in BOOLEAN : Bootstrap(answered)
  <2>1. process' \in Process /\ process'.pc = "run" /\ process'.token = process.token
    BY <1>4, <1>0 DEF Bootstrap, Process, Starting
  <2> QED BY <1>4, <2>1, RetireStands DEF Bootstrap, Starting
<1>5. CASE PullRules
  <2>1. process' \in Process /\ process'.pc = process.pc /\ process'.token = process.token
    BY <1>5, <1>0 DEF PullRules, Process
  <2> QED BY <1>5, <2>1, RetireStands DEF PullRules
<1>6. CASE StopOrFree
  BY <1>6, <1>0, RetireStands DEF StopOrFree
<1>7. CASE Hear
  <2>1. process' \in Process /\ process'.pc = "heard" /\ process'.token = process.token
    BY <1>7, <1>0 DEF Hear, Process, Starting
  <2> QED BY <1>7, <2>1, RetireStands DEF Hear, Starting
<1>8. CASE Confirm
  <2>1. /\ process' \in Process /\ process'.token = process.token
        /\ process'.pc = "run" \/ (process'.pc = "thaw" /\ Retired(process.token))
    BY <1>8, <1>0 DEF Confirm, Process, Starting, Retiring
  <2>2. CASE process'.pc = "run"
    BY <1>8, <2>1, <2>2, RetireStands DEF Confirm, Starting
  <2>3. CASE Retired(process.token)
    BY <1>8, <2>1, <2>3 DEF Confirm, Retired, RetireInv, ListedInv, RemovedInv, AgainInv, Untouched, Starting,
       Retiring, machine, past
  <2> QED BY <2>1, <2>2, <2>3
<1>9. CASE RetireSteps
  <2>1. /\ process.pc \in Retiring /\ process' \in Process /\ process'.pc \in Retiring \cup {"waiting"}
        /\ process'.token = process.token
        /\ UNCHANGED <<household, enrolled, unit, timer, binary, watchdog, installing, past>>
    BY <1>9, <1>0 DEF RetireSteps, Thaw, Release, Teardown, Mark, Spawn, RetireStep, Process, Starting, Retiring
  <2>2. helper' = helper \/ (helper = "none" /\ helper' = "mark")
    BY <1>9 DEF RetireSteps, Thaw, Release, Teardown, Mark, Spawn, SpawnHelper
  <2>3. household # "listed" /\ (household = "again" => overlapped)
    BY <2>1 DEF RetireInv, ListedInv, AgainInv, Starting, Retiring
  <2>4. household = "removed" /\ unit = "disabled" => helper # "none"
    BY <2>1 DEF RetireInv, RemovedInv, Retiring
  <2> QED BY <2>1, <2>2, <2>3, <2>4 DEF RetireInv, ListedInv, RemovedInv, AgainInv, past
<1>10. CASE SafeSearchRound
  <2>1. process' \in Process /\ process'.pc = process.pc /\ process'.token = process.token
    BY <1>10, <1>0 DEF SafeSearchRound, Process
  <2> QED BY <1>10, <2>1, RetireStands DEF SafeSearchRound
<1>11. CASE HelperSteps
  <2>1. helper # "none" /\ household # "listed" /\ (household = "again" => overlapped)
    BY <1>11 DEF HelperSteps, HelperMarks, HelperStopsWatchdog, HelperStopsAgent, HelperFrees,
       HelperTearsDown, HelperRemovesUnits, HelperRemovesConfig, HelperRemovesState,
       HelperRemovesBinary, HelperStep, RetireInv, ListedInv, AgainInv, Untouched
  <2>2. UNCHANGED <<household, watchdog, installing, past>>
    BY <1>11 DEF HelperSteps, HelperMarks, HelperStopsWatchdog, HelperStopsAgent, HelperFrees,
       HelperTearsDown, HelperRemovesUnits, HelperRemovesConfig, HelperRemovesState,
       HelperRemovesBinary, HelperStep
  <2>3. process' = process \/ process' = Down("stopped")
    BY <1>11 DEF HelperSteps, HelperMarks, HelperStopsWatchdog, HelperStopsAgent, HelperFrees,
       HelperTearsDown, HelperRemovesUnits, HelperRemovesConfig, HelperRemovesState,
       HelperRemovesBinary, HelperStep, machine
  <2>4. process' \in Process
    <3>1. Down("stopped") \in Process
      BY DEF Process, Down
    <3> QED BY <1>0, <2>3, <3>1
  <2>5. CASE HelperMarks \/ HelperFrees \/ HelperTearsDown
    BY <2>1, <2>2, <2>4, <2>5 DEF HelperMarks, HelperFrees, HelperTearsDown, HelperStep, machine, RetireInv,
       ListedInv, RemovedInv, AgainInv, past
  <2>6. CASE HelperStopsWatchdog \/ HelperStopsAgent
    BY <2>1, <2>2, <2>4, <2>6 DEF HelperStopsWatchdog, HelperStopsAgent, HelperStep, off, RetireInv,
       ListedInv, RemovedInv, AgainInv, past
  <2>7. CASE HelperRemovesUnits \/ HelperRemovesConfig \/ HelperRemovesState \/ HelperRemovesBinary
    BY <2>1, <2>2, <2>4, <2>7 DEF HelperRemovesUnits, HelperRemovesConfig, HelperRemovesState,
       HelperRemovesBinary, HelperStep, RetireInv, ListedInv, RemovedInv, AgainInv, past
  <2> QED BY <1>11, <2>5, <2>6, <2>7 DEF HelperSteps
<1>12. CASE Look
  <2>1. household = "again" => overlapped
    BY <1>12 DEF Look, RetireInv, AgainInv, Untouched, Starting
  <2>2. ~(household = "removed" /\ helper = "none" /\ unit = "disabled")
    BY <1>12 DEF Look, RetireInv, RemovedInv
  <2> QED BY <1>12, <2>1, <2>2 DEF Look, RetireInv, ListedInv, RemovedInv, AgainInv, Untouched, machine, past
<1>13. CASE WatchdogRestarts
  <2>1. process' \in Process /\ (household = "listed" => process'.pc = "down")
    BY <1>0, <1>13 DEF WatchdogRestarts, Down, Process, Starting, RetireInv, ListedInv, Untouched
  <2>2. household = "again" => overlapped
    BY <1>13 DEF WatchdogRestarts, RetireInv, AgainInv
  <2>3. ~(household = "removed" /\ helper = "none" /\ unit = "disabled")
    BY <1>13 DEF WatchdogRestarts, RetireInv, RemovedInv
  <2> QED BY <1>13, <2>1, <2>2, <2>3 DEF WatchdogRestarts, RetireInv, ListedInv, RemovedInv, AgainInv, Untouched,
             Starting, machine, past
<1>14. CASE Enroll
  <2>1. ~overlapped' => /\ helper = "none" /\ watchdog = "idle" /\ unit # "enabled"
                        /\ process.pc \in {"stopped", "down", "waiting"}
    BY <1>14 DEF Enroll
  <2>2. ~overlapped' => timer # "enabled" /\ (process.pc = "stopped" \/ unit = "gone")
    BY <1>14, <2>1 DEF Enroll, RetireInv, RemovedInv
  <2> QED BY <1>14, <2>1, <2>2 DEF Enroll, RetireInv, ListedInv, RemovedInv, AgainInv
<1>15. CASE ClearMarker
  BY <1>15 DEF ClearMarker, RetireInv, ListedInv, RemovedInv, AgainInv, Untouched, past
<1>16. CASE InstallService
  <2>1. process' \in Process /\ process'.pc = "down"
    BY <1>16 DEF InstallService, Down, Process, Starting
  <2> QED BY <1>16, <2>1 DEF InstallService, RetireInv, ListedInv, RemovedInv, AgainInv, Untouched, Starting, past
<1>17. CASE AgentDies
  <2>1. process' \in Process /\ process'.pc = "down"
    BY <1>17 DEF AgentDies, Down, Process, Starting
  <2> QED BY <1>17, <2>1, RetireStands DEF AgentDies, Starting
<1>18. CASE PowerFails
  <2>1. process' \in Process /\ process'.pc = IF unit = "enabled" THEN "down" ELSE "stopped"
    BY <1>18 DEF PowerFails, Down, Process, Starting
  <2> QED BY <1>18, <2>1 DEF PowerFails, RetireInv, ListedInv, RemovedInv, AgainInv, Untouched, Starting, machine
<1>19. CASE UNCHANGED retireVars
  BY <1>19, <1>0, RetireStands DEF retireVars
<1> QED
  BY <1>1, <1>2, <1>3, <1>4, <1>5, <1>6, <1>7, <1>8, <1>9, <1>10, <1>11, <1>12, <1>13, <1>14, <1>15,
     <1>16, <1>17, <1>18, <1>19 DEF RetireNext, Run, Install

\* No computer its household still has is taken off, whatever it hears, and no
\* new installation that was not begun in the middle of the removal, whoever
\* died and whatever the old process, the helper or the watchdog still do.
THEOREM OnlyTheRemoved == RetireSpec => []OnlyRemovedComeOff
<1>1. RetireInv => OnlyRemovedComeOff
  BY DEF RetireInv, ListedInv, AgainInv, Untouched, Starting, OnlyRemovedComeOff
<1> QED
  BY <1>1, RetireInvInit, RetireInvStep, PTL DEF RetireSpec

(***************************************************************************)
(* The lookups: lines, and what counting them one after another does.      *)
(***************************************************************************)

\* Induction over the naturals, for a set in place of a predicate.
LEMMA CountingOn ==
  ASSUME NEW T, 0 \in T, \A n \in Nat : n \in T => n + 1 \in T
  PROVE  Nat \subseteq T
<1> SUFFICES ASSUME Nat \ T # {} PROVE FALSE
  OBVIOUS
<1> DEFINE U == Nat \ T
<1>1. PICK n \in U : \A k \in U : ~ (<<k, n>> \in OpToRel(<, Nat))
  <2>1. U \in SUBSET Nat /\ U # {}
    OBVIOUS
  <2> HIDE DEF U
  <2> QED BY <2>1, NatLessThanWellFounded, WFMin, Zenon
<1>2. n \in Nat /\ n # 0 /\ n - 1 \in Nat
  OBVIOUS
<1>3. \A k \in U : ~ (k < n)
  BY <1>1 DEF OpToRel
<1>4. n - 1 \in T
  <2>1. n - 1 < n
    BY <1>2
  <2> QED BY <1>2, <1>3, <2>1
<1> QED
  BY <1>2, <1>4

Counts == [Lookup -> Nat]

LEMMA BumpIs ==
  ASSUME NEW counts \in Counts, NEW i \in 0..Lookups
  PROVE  /\ Bump(counts, i) \in Counts
         /\ \A j \in Lookup : Bump(counts, i)[j] = counts[j]
                              \/ (j = i /\ Bump(counts, i)[j] = counts[j] + 1)
<1>1. CASE i # 0 /\ Room(counts, i)
  <2>1. Bump(counts, i) = [counts EXCEPT ![i] = @ + 1]
    BY <1>1 DEF Bump
  <2>2. i \in Lookup
    BY <1>1 DEF Lookup
  <2> QED BY <2>1, <2>2 DEF Counts
<1>2. CASE ~ (i # 0 /\ Room(counts, i))
  BY <1>2 DEF Bump
<1> QED
  BY <1>1, <1>2

\* The counts after each line: `upTo` of Bumped, up to line n.
BumpedUpTo(f, counts, lines, n) ==
  f = [m \in 0..n |-> IF m = 0 THEN counts ELSE Bump(f[m - 1], lines[m])]

LEMMA BumpedExists ==
  ASSUME NEW counts, NEW lines
  PROVE  \A n \in Nat : \E f : BumpedUpTo(f, counts, lines, n)
<1> DEFINE T == {n \in Nat : \E f : BumpedUpTo(f, counts, lines, n)}
<1>1. 0 \in T
  <2>1. BumpedUpTo([m \in 0..0 |-> counts], counts, lines, 0)
    BY DEF BumpedUpTo
  <2> QED BY <2>1
<1>2. ASSUME NEW n \in Nat, n \in T PROVE n + 1 \in T
  <2>1. PICK f : BumpedUpTo(f, counts, lines, n)
    BY <1>2
  <2> DEFINE g == [m \in 0..n + 1 |-> IF m = n + 1 THEN Bump(f[n], lines[n + 1]) ELSE f[m]]
             h == [m \in 0..n + 1 |-> IF m = 0 THEN counts ELSE Bump(g[m - 1], lines[m])]
  <2>2. ASSUME NEW m \in 0..n + 1 PROVE g[m] = h[m]
    <3>1. CASE m = n + 1
      <4>1. n \in 0..n + 1 /\ m - 1 = n /\ n # n + 1 /\ m # 0
        BY <3>1
      <4>2. g[n] = f[n]
        BY <4>1
      <4> QED BY <3>1, <4>1, <4>2
    <3>2. CASE m # n + 1 /\ m = 0
      BY <2>1, <3>2 DEF BumpedUpTo
    <3>3. CASE m # n + 1 /\ m # 0
      <4>1. m \in 0..n /\ m - 1 \in 0..n + 1 /\ m - 1 # n + 1
        BY <3>3
      <4>2. g[m - 1] = f[m - 1] /\ g[m] = f[m]
        BY <3>3, <4>1
      <4>3. f[m] = Bump(f[m - 1], lines[m])
        BY <2>1, <3>3, <4>1 DEF BumpedUpTo
      <4> HIDE DEF g
      <4> QED BY <3>3, <4>2, <4>3
    <3> QED BY <3>1, <3>2, <3>3
  <2>3. g = h
    BY <2>2
  <2>4. BumpedUpTo(g, counts, lines, n + 1)
    <3> HIDE DEF g
    <3> QED BY <2>3 DEF BumpedUpTo
  <2> HIDE DEF g, h
  <2> QED BY <2>4
<1> HIDE DEF T
<1>3. Nat \subseteq T
  BY <1>1, <1>2, CountingOn
<1> QED
  BY <1>3 DEF T

\* Counting lines of different lookups adds at most one to each of those, and
\* nothing to the others.
LEMMA BumpedIs ==
  ASSUME NEW counts \in Counts, NEW lines \in Seq(0..Lookups),
         \A k, l \in 1..Len(lines) : lines[k] = lines[l] /\ lines[k] # 0 => k = l
  PROVE  /\ Bumped(counts, lines) \in Counts
         /\ \A j \in Lookup :
              \/ Bumped(counts, lines)[j] = counts[j]
              \/ /\ \E k \in 1..Len(lines) : lines[k] = j
                 /\ Bumped(counts, lines)[j] = counts[j] + 1
<1> DEFINE f == CHOOSE g : BumpedUpTo(g, counts, lines, Len(lines))
           Good(n) == /\ f[n] \in Counts
                      /\ \A j \in Lookup : \/ f[n][j] = counts[j]
                                           \/ /\ \E k \in 1..n : lines[k] = j
                                              /\ f[n][j] = counts[j] + 1
           T == {n \in Nat : n <= Len(lines) => Good(n)}
<1>1. Len(lines) \in Nat
  OBVIOUS
<1>2. BumpedUpTo(f, counts, lines, Len(lines))
  BY <1>1, BumpedExists, Zenon
<1>3. Bumped(counts, lines) = f[Len(lines)]
  BY DEF Bumped, BumpedUpTo
<1> HIDE DEF f
<1>4. f[0] = counts /\ \A m \in 1..Len(lines) : f[m] = Bump(f[m - 1], lines[m])
  BY <1>1, <1>2 DEF BumpedUpTo
<1>5. 0 \in T
  BY <1>4
<1>6. ASSUME NEW n \in Nat, n \in T PROVE n + 1 \in T
  <2> SUFFICES ASSUME n + 1 <= Len(lines) PROVE Good(n + 1)
    OBVIOUS
  <2>1. Good(n) /\ n + 1 \in 1..Len(lines) /\ (n + 1) - 1 = n
    BY <1>1, <1>6
  <2>2. f[n + 1] = Bump(f[n], lines[n + 1])
    BY <1>4, <2>1
  <2>3. lines[n + 1] \in 0..Lookups
    BY <2>1, ElementOfSeq
  <2>4. /\ f[n + 1] \in Counts
        /\ \A j \in Lookup : f[n + 1][j] = f[n][j]
                             \/ (j = lines[n + 1] /\ f[n + 1][j] = f[n][j] + 1)
    BY <2>1, <2>2, <2>3, BumpIs
  <2>5. ASSUME NEW j \in Lookup
        PROVE  \/ f[n + 1][j] = counts[j]
               \/ /\ \E k \in 1..n + 1 : lines[k] = j
                  /\ f[n + 1][j] = counts[j] + 1
    <3>1. CASE f[n + 1][j] = f[n][j]
      BY <2>1, <3>1
    <3>2. CASE j = lines[n + 1] /\ f[n + 1][j] = f[n][j] + 1
      <4>1. j # 0
        BY DEF Lookup
      <4>2. ASSUME NEW k \in 1..n, lines[k] = j PROVE FALSE
        <5>1. k \in 1..Len(lines) /\ k # n + 1
          BY <2>1
        <5> QED BY <2>1, <3>2, <4>1, <4>2, <5>1
      <4>3. f[n][j] = counts[j]
        BY <2>1, <4>2
      <4> QED BY <3>2, <4>3
    <3> QED BY <2>4, <3>1, <3>2
  <2> QED BY <2>4, <2>5
<1> HIDE DEF T
<1>7. Nat \subseteq T
  BY <1>5, <1>6, CountingOn
<1>8. Good(Len(lines))
  BY <1>1, <1>7 DEF T
<1> QED
  BY <1>3, <1>8

(***************************************************************************)
(* The lookups: each is somewhere, and in one place.                       *)
(***************************************************************************)

Post == [counts : Counts, pc : {"none", "sent", "counted", "failed"}]

SlicesTypes ==
  /\ asked \in 0..Lookups /\ writing \in 0..asked
  /\ written \in Seq(0..Lookups) /\ logOffset \in Nat
  /\ waiting \in Counts /\ tally \in Counts /\ post \in Post

\* Lines are of different lookups, none of them the one being written; a line
\* whose beginning is gone was let go.
LogSound ==
  /\ \A k \in 1..Len(written) : written[k] <= asked
  /\ \A k, l \in 1..Len(written) : written[k] = written[l] /\ written[k] # 0 => k = l
  /\ writing # 0 => \A k \in 1..Len(written) : written[k] # writing
  /\ ~rotated => logOffset <= Len(written)
  /\ cut => writing # 0 /\ writing \in lost

\* Everything a lookup was counted to, the batch that counted included; and
\* what it comes to, each batch taken once.
Everywhere(i) == waiting[i] + post.counts[i] + tally[i]
Amount(i) == waiting[i] + Uncounted[i] + tally[i]

\* What is still to be written or read was counted nowhere.
Ahead ==
  /\ \A i \in Lookup : i > asked \/ i = writing => Everywhere(i) = 0
  /\ logPrimed /\ ~stuck => \A i \in UnreadLines : Everywhere(i) = 0

\* A batch that counted is summed up.
BatchSound ==
  /\ post.pc = "none" => post.counts = NoLookups
  /\ post.pc = "counted" => \A i \in Lookup : post.counts[i] <= tally[i]

SlicesInv == SlicesTypes /\ LogSound /\ Ahead /\ BatchSound /\ LookupsAccounted

\* The lookups on a log's lines after one.
RowsOf(log, from) == {log[k] : k \in from + 1..Len(log)} \ {0}
Rows(from) == RowsOf(written, from)

LEMMA LinesOfPart ==
  ASSUME NEW s \in Seq(0..Lookups), NEW m \in 1..Len(s) + 1, NEW n \in m - 1..Len(s)
  PROVE  /\ LinesOf(SubSeq(s, m, n)) = {s[k] : k \in m..n} \ {0}
         /\ SubSeq(s, m, n) \in Seq(0..Lookups) /\ Len(SubSeq(s, m, n)) = n - m + 1
         /\ \A k \in 1..n - m + 1 : SubSeq(s, m, n)[k] = s[m + k - 1]
<1>1. Len(s) \in Nat /\ m \in Nat /\ n \in Int
  OBVIOUS
<1> DEFINE t == SubSeq(s, m, n)
<1>2. t \in Seq(0..Lookups) /\ Len(t) = n - m + 1 /\ \A k \in 1..n - m + 1 : t[k] = s[m + k - 1]
  <2>1. \A i \in m..n : s[i] \in 0..Lookups
    <3>1. m..n \subseteq 1..Len(s)
      BY <1>1
    <3> QED BY <3>1, ElementOfSeq
  <2>2. (IF m <= n THEN n - m + 1 ELSE 0) = n - m + 1
    BY <1>1
  <2> QED BY <1>1, <2>1, <2>2, SubSeqProperties
<1>3. DOMAIN t = 1..n - m + 1
  BY <1>1, <1>2
<1>4. ToSet(t) = {s[k] : k \in m..n}
  <2>1. ASSUME NEW x \in ToSet(t) PROVE x \in {s[k] : k \in m..n}
    <3>1. PICK k \in 1..n - m + 1 : x = t[k]
      BY <1>3, <2>1 DEF ToSet
    <3>2. m + k - 1 \in m..n
      BY <1>1, <3>1
    <3> HIDE DEF t
    <3> QED BY <1>2, <3>1, <3>2
  <2>2. ASSUME NEW k \in m..n PROVE s[k] \in ToSet(t)
    <3>1. k - m + 1 \in 1..n - m + 1 /\ m + (k - m + 1) - 1 = k
      BY <1>1
    <3> HIDE DEF t
    <3>2. t[k - m + 1] = s[k]
      BY <1>2, <3>1
    <3> QED BY <1>3, <3>1, <3>2 DEF ToSet
  <2> HIDE DEF t
  <2> QED BY <2>1, <2>2
<1> QED
  BY <1>2, <1>4 DEF LinesOf

\* What is still to be read: after the offset, or all of a log somebody
\* emptied.
LEMMA UnreadOfLog ==
  ASSUME NEW log \in Seq(0..Lookups), NEW offset \in Nat, NEW emptied,
         ~emptied => offset <= Len(log),
         NEW from, from = IF Len(log) < offset THEN 0 ELSE offset
  PROVE  /\ LinesOf(SubSeq(log, from + 1, Len(log)))
              \cup (IF emptied THEN LinesOf(SubSeq(log, 1, from)) ELSE {})
            = IF emptied THEN RowsOf(log, 0) ELSE RowsOf(log, offset)
         /\ from \in 0..Len(log) /\ (~emptied => from = offset)
         /\ LinesOf(log) = RowsOf(log, 0)
<1>1. Len(log) \in Nat /\ from \in 0..Len(log) /\ (~emptied => from = offset)
  OBVIOUS
<1>2. LinesOf(SubSeq(log, from + 1, Len(log))) = RowsOf(log, from)
  <2>1. from + 1 \in 1..Len(log) + 1 /\ Len(log) \in (from + 1) - 1..Len(log)
    BY <1>1
  <2> QED BY <1>1, <2>1, LinesOfPart DEF RowsOf
<1>3. LinesOf(SubSeq(log, 1, from)) = {log[k] : k \in 1..from} \ {0}
  BY <1>1, LinesOfPart
<1>4. RowsOf(log, 0) = RowsOf(log, from) \cup ({log[k] : k \in 1..from} \ {0})
  BY <1>1 DEF RowsOf
<1>5. LinesOf(log) = RowsOf(log, 0)
  BY <1>1 DEF LinesOf, ToSet, RowsOf
<1> QED
  BY <1>1, <1>2, <1>3, <1>4, <1>5

LEMMA UnreadIs ==
  ASSUME SlicesTypes, ~rotated => logOffset <= Len(written)
  PROVE  /\ UnreadLines = IF rotated THEN Rows(0) ELSE Rows(logOffset)
         /\ ReadFrom \in 0..Len(written) /\ (~rotated => ReadFrom = logOffset)
         /\ LinesOf(written) = Rows(0)
<1>1. written \in Seq(0..Lookups) /\ logOffset \in Nat
  BY DEF SlicesTypes
<1>2. ReadFrom = IF Len(written) < logOffset THEN 0 ELSE logOffset
  BY DEF ReadFrom
<1> QED
  BY <1>1, <1>2, UnreadOfLog DEF UnreadLines, PassedOver, Rows

LEMMA UnreadNext ==
  ASSUME SlicesTypes', (~rotated => logOffset <= Len(written))'
  PROVE  UnreadLines' = IF rotated' THEN RowsOf(written', 0) ELSE RowsOf(written', logOffset')
<1>1. written' \in Seq(0..Lookups) /\ logOffset' \in Nat
  BY DEF SlicesTypes
<1>2. ReadFrom' = IF Len(written') < logOffset' THEN 0 ELSE logOffset'
  BY DEF ReadFrom
<1> QED
  BY <1>1, <1>2, UnreadOfLog DEF UnreadLines, PassedOver

LEMMA AmountIs ==
  ASSUME SlicesTypes, NEW i \in Lookup
  PROVE  /\ waiting[i] \in Nat /\ tally[i] \in Nat /\ post.counts[i] \in Nat /\ Uncounted[i] \in Nat
         /\ Uncounted[i] = IF post.pc = "counted" THEN 0 ELSE post.counts[i]
         /\ Amount(i) \in Nat /\ Everywhere(i) \in Nat /\ Amount(i) <= Everywhere(i)
<1>1. waiting[i] \in Nat /\ tally[i] \in Nat /\ post.counts[i] \in Nat
  BY DEF SlicesTypes, Post, Counts
<1>2. Uncounted[i] = IF post.pc = "counted" THEN 0 ELSE post.counts[i]
  BY DEF Uncounted, NoLookups
<1>3. Uncounted[i] \in Nat /\ Uncounted[i] <= post.counts[i]
  BY <1>1, <1>2
<1> QED
  BY <1>1, <1>2, <1>3 DEF Amount, Everywhere

LEMMA AccountedIs ==
  ASSUME SlicesTypes
  PROVE  LookupsAccounted <=>
           /\ \A i \in 1..asked : i = writing \/ i \in UnreadLines \/ i \in lost \/ Amount(i) > 0
           /\ ~stuck => \A i \in Lookup \ doubled : Amount(i) <= 1
BY DEF LookupsAccounted, Amount

\* A step of the log that counts nothing.
LEMMA LogMoves ==
  ASSUME SlicesInv, SlicesTypes', UNCHANGED <<waiting, post, tally, doubled>>, stuck => stuck',
         \A i \in Lookup : i > asked' \/ i = writing' => i > asked \/ i = writing,
         logPrimed' /\ ~stuck' =>
           \A i \in UnreadLines' : (i \in UnreadLines /\ logPrimed) \/ (i = writing /\ i \in Lookup),
         \A i \in 1..asked' : \/ i = writing' \/ i \in UnreadLines' \/ i \in lost'
                              \/ i <= asked /\ i # writing /\ i \notin UnreadLines /\ i \notin lost
  PROVE  Ahead' /\ BatchSound' /\ LookupsAccounted'
<1>1. \A i : Everywhere(i)' = Everywhere(i) /\ Amount(i)' = Amount(i)
  BY DEF Everywhere, Amount, Uncounted
<1>2. Ahead'
  <2>1. ASSUME NEW i \in Lookup, i > asked' \/ i = writing' PROVE Everywhere(i)' = 0
    BY <1>1, <2>1 DEF SlicesInv, Ahead
  <2>2. ASSUME logPrimed', ~stuck', NEW i \in UnreadLines' PROVE Everywhere(i)' = 0
    BY <1>1, <2>2 DEF SlicesInv, Ahead
  <2> QED BY <2>1, <2>2 DEF Ahead
<1>3. BatchSound'
  BY DEF SlicesInv, BatchSound
<1>4. /\ \A i \in 1..asked : i = writing \/ i \in UnreadLines \/ i \in lost \/ Amount(i) > 0
      /\ ~stuck => \A i \in Lookup \ doubled : Amount(i) <= 1
  BY AccountedIs DEF SlicesInv
<1>5. ASSUME NEW i \in 1..asked'
      PROVE  i = writing' \/ i \in UnreadLines' \/ i \in lost' \/ Amount(i)' > 0
  <2>1. asked \in Nat /\ asked' \in Nat
    BY DEF SlicesInv, SlicesTypes
  <2>2. i <= asked => i \in 1..asked
    BY <2>1
  <2> QED BY <1>1, <1>4, <2>2
<1>6. ~stuck' => \A i \in Lookup \ doubled' : Amount(i)' <= 1
  BY <1>1, <1>4
<1>7. LookupsAccounted'
  BY <1>5, <1>6 DEF LookupsAccounted, Amount
<1> QED
  BY <1>2, <1>3, <1>7

\* A step that counts, or takes what was counted on, and reads nothing.
LEMMA CountsMove ==
  ASSUME SlicesInv, SlicesTypes', UNCHANGED <<asked, tailing, stuck, rotated>>,
         lost \subseteq lost', doubled \subseteq doubled', BatchSound',
         \A i \in Lookup : /\ Everywhere(i) = 0 => Everywhere(i)' = 0
                           /\ i \in doubled' \/ Amount(i)' <= Amount(i)
                           /\ Amount(i) > 0 => Amount(i)' > 0 \/ i \in lost'
  PROVE  SlicesInv'
<1>1. UnreadLines' = UnreadLines
  BY DEF UnreadLines, PassedOver, ReadFrom, tailing
<1>2. LogSound'
  BY DEF SlicesInv, LogSound, tailing
<1>3. UnreadLines \subseteq Lookup
  <2>1. SlicesTypes /\ LogSound
    BY DEF SlicesInv
  <2>2. Len(written) \in Nat /\ logOffset \in Nat
    BY <2>1 DEF SlicesTypes
  <2>5. \A k \in 1..Len(written) : written[k] \in 0..Lookups
    BY <2>1, ElementOfSeq DEF SlicesTypes
  <2>3. \A k \in 1..Len(written) : written[k] # 0 => written[k] \in Lookup
    BY <2>5, UsageSlicesAssumption DEF Lookup
  <2>4. Rows(0) \subseteq Lookup /\ Rows(logOffset) \subseteq Lookup
    BY <2>2, <2>3 DEF Rows, RowsOf
  <2> QED BY <2>1, <2>4, UnreadIs DEF LogSound
<1>4. Ahead'
  BY <1>1, <1>3 DEF SlicesInv, Ahead, tailing
<1>5. /\ \A i \in 1..asked : i = writing \/ i \in UnreadLines \/ i \in lost \/ Amount(i) > 0
      /\ ~stuck => \A i \in Lookup \ doubled : Amount(i) <= 1
  BY AccountedIs DEF SlicesInv
<1>6. 1..asked \subseteq Lookup
  BY UsageSlicesAssumption DEF SlicesInv, SlicesTypes, Lookup
<1>7. \A i \in 1..asked' : i = writing' \/ i \in UnreadLines' \/ i \in lost' \/ Amount(i)' > 0
  BY <1>1, <1>5, <1>6 DEF tailing
<1>8. ~stuck' => \A i \in Lookup \ doubled' : Amount(i)' <= 1
  <2> SUFFICES ASSUME ~stuck', NEW i \in Lookup \ doubled' PROVE Amount(i)' <= 1
    OBVIOUS
  <2>1. Amount(i)' \in Nat
    <3>1. waiting'[i] \in Nat /\ tally'[i] \in Nat /\ post'.counts[i] \in Nat
      BY DEF SlicesTypes, Post, Counts
    <3>2. Uncounted'[i] \in Nat
      BY <3>1 DEF Uncounted, NoLookups
    <3> QED BY <3>1, <3>2 DEF Amount
  <2>3. Amount(i) \in Nat
    BY AmountIs DEF SlicesInv
  <2>2. Amount(i) <= 1 /\ Amount(i)' <= Amount(i)
    BY <1>5
  <2> QED BY <2>1, <2>2, <2>3
<1>9. LookupsAccounted'
  BY <1>7, <1>8 DEF LookupsAccounted, Amount
<1> QED
  BY <1>2, <1>4, <1>9 DEF SlicesInv

LEMMA SlicesNumbers ==
  ASSUME SlicesInv
  PROVE  /\ Lookups \in Nat /\ asked \in 0..Lookups /\ asked \in Nat /\ writing \in 0..asked
         /\ Len(written) \in Nat /\ logOffset \in Nat
         /\ 1..asked \subseteq Lookup /\ (writing # 0 => writing \in Lookup)
         /\ \A k \in 1..Len(written) : written[k] \in 0..asked
<1>1. /\ Lookups \in Nat /\ asked \in 0..Lookups /\ asked \in Nat /\ writing \in 0..asked
      /\ Len(written) \in Nat /\ logOffset \in Nat
  BY UsageSlicesAssumption DEF SlicesInv, SlicesTypes
<1>2. \A k \in 1..Len(written) : written[k] \in 0..Lookups
  BY ElementOfSeq DEF SlicesInv, SlicesTypes
<1>3. \A k \in 1..Len(written) : written[k] \in 0..asked
  BY <1>1, <1>2 DEF SlicesInv, LogSound
<1> QED
  BY <1>1, <1>3 DEF Lookup

LEMMA UnreadNow ==
  ASSUME SlicesInv
  PROVE  /\ UnreadLines = IF rotated THEN Rows(0) ELSE Rows(logOffset)
         /\ ReadFrom \in 0..Len(written) /\ (~rotated => ReadFrom = logOffset)
         /\ LinesOf(written) = Rows(0)
BY UnreadIs DEF SlicesInv, LogSound

LEMMA LineBeginsKeeps ==
  ASSUME SlicesInv, LineBegins
  PROVE  SlicesInv'
<1>1. writing = 0 /\ asked < Lookups /\ asked' = asked + 1 /\ writing' = asked + 1
  BY DEF LineBegins
<1>2. UnreadLines' = UnreadLines
  BY DEF LineBegins, UnreadLines, PassedOver, ReadFrom, sliceHistory
<1>3. SlicesTypes'
  BY <1>1, SlicesNumbers DEF SlicesInv, SlicesTypes, LineBegins
<1>4. LogSound'
  <2>1. \A k \in 1..Len(written) : written[k] <= asked + 1 /\ written[k] # asked + 1
    BY SlicesNumbers
  <2> QED BY <1>1, <2>1 DEF SlicesInv, LogSound, LineBegins, sliceHistory
<1>5. Ahead' /\ BatchSound' /\ LookupsAccounted'
  <2>1. ASSUME NEW i \in Lookup, i > asked' \/ i = writing' PROVE i > asked \/ i = writing
    BY <1>1, <2>1, SlicesNumbers DEF Lookup
  <2>2. ASSUME NEW i \in 1..asked', i # writing' PROVE i <= asked /\ i # writing
    BY <1>1, <2>2, SlicesNumbers
  <2>3. UNCHANGED <<waiting, post, tally, doubled, stuck, logPrimed, lost>>
    BY DEF LineBegins, sliceHistory
  <2> QED BY <1>2, <1>3, <2>1, <2>2, <2>3, LogMoves
<1> QED
  BY <1>3, <1>4, <1>5 DEF SlicesInv

LEMMA LineEndsKeeps ==
  ASSUME SlicesInv, LineEnds
  PROVE  SlicesInv'
<1> DEFINE x == IF cut THEN 0 ELSE writing
<1>1. /\ writing # 0 /\ writing' = 0 /\ cut' = FALSE /\ written' = Append(written, x)
      /\ UNCHANGED <<waiting, post, tally, doubled, stuck, logPrimed, lost, asked, rotated, logOffset>>
  BY DEF LineEnds, sliceHistory
<1>2. written \in Seq(0..Lookups) /\ x \in 0..asked /\ x \in 0..Lookups
  BY SlicesNumbers DEF SlicesInv, SlicesTypes
<1>3. /\ written' \in Seq(0..Lookups) /\ Len(written') = Len(written) + 1
      /\ \A k \in 1..Len(written) : written'[k] = written[k]
      /\ written'[Len(written) + 1] = x
  <2> HIDE DEF x
  <2> QED BY <1>1, <1>2, AppendProperties
<1>4. SlicesTypes'
  BY <1>1, <1>3, SlicesNumbers DEF SlicesInv, SlicesTypes
<1>5. LogSound'
  <2>1. \A k \in 1..Len(written) + 1 : k \in 1..Len(written) \/ k = Len(written) + 1
    BY SlicesNumbers
  <2>2. \A k \in 1..Len(written') : written'[k] <= asked
    <3>1. \A k \in 1..Len(written) : written[k] <= asked
      BY DEF SlicesInv, LogSound
    <3>2. x <= asked
      BY <1>2, SlicesNumbers
    <3> HIDE DEF x
    <3> QED BY <1>3, <2>1, <3>1, <3>2
  <2>3. x # 0 => \A k \in 1..Len(written) : written[k] # x
    BY DEF SlicesInv, LogSound
  <2>4. ASSUME NEW k \in 1..Len(written'), NEW l \in 1..Len(written'),
               written'[k] = written'[l], written'[k] # 0
        PROVE  k = l
    <3> HIDE DEF x
    <3> QED BY <1>3, <2>1, <2>3, <2>4 DEF SlicesInv, LogSound
  <2>5. ~rotated' => logOffset' <= Len(written')
    BY <1>1, <1>3, SlicesNumbers DEF SlicesInv, LogSound
  <2> QED BY <1>1, <2>2, <2>4, <2>5 DEF LogSound
<1>6. UnreadLines' = UnreadLines \cup ({x} \ {0})
  <2>1. ASSUME NEW from \in 0..Len(written)
        PROVE  RowsOf(written', from) = RowsOf(written, from) \cup ({x} \ {0})
    <3>1. from + 1..Len(written') = (from + 1..Len(written)) \cup {Len(written) + 1}
      BY <1>3, SlicesNumbers
    <3>2. \A k \in from + 1..Len(written) : written'[k] = written[k]
      BY <1>3
    <3> HIDE DEF x
    <3> QED BY <1>3, <3>1, <3>2 DEF RowsOf
  <2>2. UnreadLines' = IF rotated THEN RowsOf(written', 0) ELSE RowsOf(written', logOffset)
    BY <1>1, <1>4, <1>5, UnreadNext DEF LogSound
  <2>3. UnreadLines = IF rotated THEN RowsOf(written, 0) ELSE RowsOf(written, logOffset)
    BY UnreadNow DEF Rows
  <2>4. 0 \in 0..Len(written) /\ (~rotated => logOffset \in 0..Len(written))
    BY SlicesNumbers DEF SlicesInv, LogSound
  <2> HIDE DEF x
  <2>5. CASE rotated
    BY <2>1, <2>2, <2>3, <2>4, <2>5
  <2>6. CASE ~rotated
    BY <2>1, <2>2, <2>3, <2>4, <2>6
  <2> QED BY <2>5, <2>6
<1>7. Ahead' /\ BatchSound' /\ LookupsAccounted'
  <2>1. \A i \in Lookup : i # writing'
    BY <1>1 DEF Lookup
  <2>2. ASSUME NEW i \in UnreadLines' PROVE i \in UnreadLines \/ (i = writing /\ i \in Lookup)
    BY <1>1, <1>6, <2>2, SlicesNumbers
  <2>3. writing \in UnreadLines' \/ writing \in lost
    BY <1>1, <1>6 DEF SlicesInv, LogSound
  <2>4. \A i \in 1..asked : i <= asked
    BY SlicesNumbers
  <2>5. UnreadLines \subseteq UnreadLines'
    BY <1>6
  <2> QED BY <1>1, <1>4, <2>1, <2>2, <2>3, <2>4, <2>5, LogMoves
<1> QED
  BY <1>4, <1>5, <1>7 DEF SlicesInv

\* The log is emptied: what was not read, or is being written, was let go.
LEMMA EmptiedKeeps ==
  ASSUME SlicesInv, Emptied, UNCHANGED <<asked, writing, waiting, post, tally, doubled>>,
         stuck => stuck', logOffset' \in Nat, ~rotated' => logOffset' = 0
  PROVE  SlicesInv'
<1>1. written' = <<>> /\ cut' = (writing # 0)
      /\ lost' = lost \cup UnreadLines \cup ({writing} \ {0})
  BY DEF Emptied
<1>2. written' \in Seq(0..Lookups) /\ Len(written') = 0 /\ 1..Len(written') = {}
  BY <1>1
<1>3. SlicesTypes'
  BY <1>2 DEF SlicesInv, SlicesTypes
<1>4. LogSound'
  <2>1. cut' => writing' # 0 /\ writing' \in lost'
    BY <1>1
  <2>2. ~rotated' => logOffset' <= Len(written')
    BY <1>2
  <2> QED BY <1>2, <2>1, <2>2 DEF LogSound
<1>5. UnreadLines' = {}
  <2>1. UnreadLines' = IF rotated' THEN RowsOf(written', 0) ELSE RowsOf(written', logOffset')
    BY <1>3, <1>4, UnreadNext DEF LogSound
  <2>2. RowsOf(written', 0) = {}
    BY <1>2 DEF RowsOf
  <2> QED BY <2>1, <2>2
<1>6. Ahead' /\ BatchSound' /\ LookupsAccounted'
  <2>1. \A i \in 1..asked' : i <= asked
    BY SlicesNumbers
  <2>2. \A i : i = writing' \/ i \in lost' \/ (i \notin UnreadLines /\ i \notin lost /\ i # writing)
    BY <1>1
  <2>3. UNCHANGED <<waiting, post, tally, doubled>> /\ \A i \in UnreadLines' : FALSE
    BY <1>5
  <2>4. \A i \in Lookup : i > asked' \/ i = writing' => i > asked \/ i = writing
    OBVIOUS
  <2> QED BY <1>3, <2>1, <2>2, <2>3, <2>4, LogMoves
<1> QED
  BY <1>3, <1>4, <1>6 DEF SlicesInv

LEMMA PrimeKeeps ==
  ASSUME SlicesInv, Prime
  PROVE  SlicesInv'
<1>1. /\ logOffset' = Len(written) /\ rotated' = FALSE /\ cut' = (writing # 0)
      /\ lost' = lost \cup LinesOf(written) \cup ({writing} \ {0})
      /\ UNCHANGED <<asked, written, writing, waiting, post, tally, doubled, stuck>>
  BY DEF Prime, FirstOffset
<1>2. SlicesTypes'
  BY <1>1, SlicesNumbers DEF SlicesInv, SlicesTypes
<1>3. LogSound'
  <2>1. cut' => writing' # 0 /\ writing' \in lost'
    BY <1>1
  <2>2. ~rotated' => logOffset' <= Len(written')
    BY <1>1, SlicesNumbers
  <2> QED BY <1>1, <2>1, <2>2 DEF SlicesInv, LogSound
<1>4. UnreadLines' = {}
  <2>1. UnreadLines' = RowsOf(written, Len(written))
    BY <1>1, <1>2, <1>3, UnreadNext DEF LogSound
  <2>2. Len(written) + 1..Len(written) = {}
    BY SlicesNumbers
  <2> QED BY <2>1, <2>2 DEF RowsOf
<1>5. UnreadLines \subseteq lost'
  <2>1. Rows(logOffset) \subseteq Rows(0)
    BY SlicesNumbers DEF Rows, RowsOf
  <2> QED BY <1>1, <2>1, UnreadNow
<1>6. Ahead' /\ BatchSound' /\ LookupsAccounted'
  <2>1. \A i \in 1..asked' : i <= asked
    BY <1>1, SlicesNumbers
  <2>2. \A i : i = writing' \/ i \in lost' \/ (i \notin UnreadLines /\ i \notin lost /\ i # writing)
    BY <1>1, <1>5
  <2>3. \A i \in UnreadLines' : FALSE
    BY <1>4
  <2>4. \A i \in Lookup : i > asked' \/ i = writing' => i > asked \/ i = writing
    BY <1>1
  <2> QED BY <1>1, <1>2, <2>1, <2>2, <2>3, <2>4, LogMoves
<1> QED
  BY <1>2, <1>3, <1>6 DEF SlicesInv

\* The log is read again from its start.
LEMMA FromStart ==
  ASSUME SlicesInv, logOffset' = 0, UNCHANGED <<asked, written, writing, cut, rotated>>,
         SlicesTypes', lost \subseteq lost'
  PROVE  LogSound' /\ UnreadLines \subseteq UnreadLines'
<1>1. LogSound'
  BY SlicesNumbers DEF SlicesInv, LogSound
<1>2. UnreadLines' = RowsOf(written, 0)
  BY <1>1, UnreadNext DEF LogSound
<1>3. Rows(logOffset) \subseteq RowsOf(written, 0) /\ Rows(0) = RowsOf(written, 0)
  BY SlicesNumbers DEF Rows, RowsOf
<1> QED
  BY <1>1, <1>2, <1>3, UnreadNow

LEMMA TruncateKeeps ==
  ASSUME SlicesInv, Truncate
  PROVE  SlicesInv'
<1>1. /\ logOffset' = 0
      /\ UNCHANGED <<asked, writing, logPrimed, waiting, post, tally, doubled, rotated>>
  BY DEF Truncate
<1>2. CASE Emptied /\ UNCHANGED stuck
  BY <1>1, <1>2, EmptiedKeeps
<1>3. CASE stuck' = TRUE /\ UNCHANGED <<written, cut, lost>>
  <2>1. SlicesTypes'
    BY <1>1, <1>3 DEF SlicesInv, SlicesTypes
  <2>2. LogSound' /\ UnreadLines \subseteq UnreadLines'
    BY <1>1, <1>3, <2>1, FromStart
  <2>3. Ahead' /\ BatchSound' /\ LookupsAccounted'
    <3>1. \A i \in 1..asked' : i <= asked
      BY <1>1, SlicesNumbers
    <3> QED BY <1>1, <1>3, <2>1, <2>2, <3>1, LogMoves
  <2> QED BY <2>1, <2>2, <2>3 DEF SlicesInv
<1> QED
  BY <1>2, <1>3 DEF Truncate

LEMMA RestartKeeps ==
  ASSUME SlicesInv, SlicesAgentRestarts
  PROVE  SlicesInv'
<1>1. /\ waiting' = NoLookups /\ post' = NoPost /\ logOffset' = 0 /\ logPrimed' = FALSE
      /\ lost' = lost \cup {i \in Lookup : waiting[i] + (IF post.pc = "counted" THEN 0
                                                         ELSE post.counts[i]) > 0}
      /\ UNCHANGED <<asked, written, writing, cut, tally, doubled, stuck, rotated>>
  BY DEF SlicesAgentRestarts
<1>2. SlicesTypes'
  BY <1>1 DEF SlicesInv, SlicesTypes, NoPost, NoLookups, Post, Counts
<1>3. LogSound' /\ UnreadLines \subseteq UnreadLines'
  BY <1>1, <1>2, FromStart
<1>4. ASSUME NEW i \in Lookup
      PROVE  /\ Everywhere(i)' = tally[i] /\ Amount(i)' = tally[i]
             /\ Everywhere(i) = 0 => tally[i] = 0
             /\ tally[i] <= Amount(i)
             /\ Amount(i) > 0 => tally[i] > 0 \/ i \in lost'
  <2>1. waiting'[i] = 0 /\ post'.counts[i] = 0 /\ Uncounted'[i] = 0 /\ tally'[i] = tally[i]
    BY <1>1 DEF NoPost, NoLookups, Uncounted
  <2>2. SlicesTypes
    BY DEF SlicesInv
  <2>3. /\ waiting[i] \in Nat /\ tally[i] \in Nat /\ post.counts[i] \in Nat /\ Uncounted[i] \in Nat
        /\ Uncounted[i] = IF post.pc = "counted" THEN 0 ELSE post.counts[i]
    BY <2>2, AmountIs
  <2>4. waiting[i] + Uncounted[i] > 0 => i \in lost'
    BY <1>1, <2>3
  <2>5. Everywhere(i)' = tally[i] /\ Amount(i)' = tally[i]
    BY <2>1, <2>3 DEF Everywhere, Amount
  <2>6. /\ Everywhere(i) = 0 => tally[i] = 0
        /\ tally[i] <= Amount(i)
        /\ Amount(i) > 0 => tally[i] > 0 \/ waiting[i] + Uncounted[i] > 0
    <3>1. \A w, t, p, u \in Nat : /\ w + p + t = 0 => t = 0
                                 /\ t <= w + u + t
                                 /\ w + u + t > 0 => t > 0 \/ w + u > 0
      OBVIOUS
    <3>2. Everywhere(i) = waiting[i] + post.counts[i] + tally[i]
          /\ Amount(i) = waiting[i] + Uncounted[i] + tally[i]
      BY DEF Everywhere, Amount
    <3> QED BY <2>3, <3>1, <3>2
  <2> QED BY <2>4, <2>5, <2>6
<1>5. Ahead'
  BY <1>1, <1>4 DEF SlicesInv, Ahead
<1>6. BatchSound'
  BY <1>1 DEF BatchSound, NoPost
<1>7. LookupsAccounted'
  <2>1. /\ \A i \in 1..asked : i = writing \/ i \in UnreadLines \/ i \in lost \/ Amount(i) > 0
        /\ ~stuck => \A i \in Lookup \ doubled : Amount(i) <= 1
    BY AccountedIs DEF SlicesInv
  <2>2. \A i \in 1..asked' : i = writing' \/ i \in UnreadLines' \/ i \in lost' \/ Amount(i)' > 0
    BY <1>1, <1>3, <1>4, <2>1, SlicesNumbers
  <2>3. ASSUME ~stuck', NEW i \in Lookup \ doubled' PROVE Amount(i)' <= 1
    <3>1. Amount(i) \in Nat /\ tally[i] \in Nat
      BY AmountIs DEF SlicesInv
    <3>2. Amount(i) <= 1
      BY <1>1, <2>1, <2>3
    <3> QED BY <1>4, <3>1, <3>2
  <2> QED BY <2>2, <2>3 DEF LookupsAccounted, Amount
<1> QED
  BY <1>2, <1>3, <1>5, <1>6, <1>7 DEF SlicesInv

\* What a read leaves, reads and passes over.
LEMMA IngestReads ==
  ASSUME SlicesInv, NEW to \in ReadFrom..Len(written)
  PROVE  LET read == SubSeq(written, ReadFrom + 1, to)
         IN /\ read \in Seq(0..Lookups)
            /\ \A k, l \in 1..Len(read) : read[k] = read[l] /\ read[k] # 0 => k = l
            /\ \A j \in Lookup : (\E k \in 1..Len(read) : read[k] = j) => j \in LinesOf(read)
            /\ LinesOf(read) \subseteq UnreadLines /\ LinesOf(read) \subseteq 1..asked
            /\ writing \notin LinesOf(read)
            /\ LinesOf(read) \cap Rows(to) = {}
            /\ Rows(to) \subseteq UnreadLines /\ Rows(to) \subseteq 1..asked
            /\ UnreadLines \subseteq Rows(to) \cup LinesOf(read) \cup PassedOver
<1> DEFINE read == SubSeq(written, ReadFrom + 1, to)
           from == ReadFrom
<1>1. /\ written \in Seq(0..Lookups) /\ Len(written) \in Nat /\ from \in 0..Len(written)
      /\ to \in Nat /\ from <= to /\ to <= Len(written)
  BY UnreadNow, SlicesNumbers DEF SlicesInv, SlicesTypes
<1>2. /\ LinesOf(read) = {written[k] : k \in from + 1..to} \ {0}
      /\ read \in Seq(0..Lookups) /\ Len(read) = to - from
      /\ \A k \in 1..to - from : read[k] = written[from + k]
  <2>1. from + 1 \in 1..Len(written) + 1 /\ to \in (from + 1) - 1..Len(written)
    BY <1>1
  <2>2. (to - (from + 1)) + 1 = to - from /\ \A k \in 1..to - from : (from + 1) + k - 1 = from + k
    BY <1>1
  <2> HIDE DEF from
  <2>3. LET t == SubSeq(written, from + 1, to)
        IN /\ LinesOf(t) = {written[k] : k \in from + 1..to} \ {0}
           /\ t \in Seq(0..Lookups) /\ Len(t) = (to - (from + 1)) + 1
           /\ \A k \in 1..(to - (from + 1)) + 1 : t[k] = written[(from + 1) + k - 1]
    <3>1. to \in (from + 1) - 1..Len(written)
      BY <1>1
    <3> QED BY <1>1, <2>1, <3>1, LinesOfPart
  <2>4. read = SubSeq(written, from + 1, to)
    BY DEF from
  <2> HIDE DEF read
  <2> QED BY <2>2, <2>3, <2>4
<1>3. UnreadLines = RowsOf(written, from) \cup PassedOver
  <2>1. from + 1 \in 1..Len(written) + 1 /\ Len(written) \in (from + 1) - 1..Len(written)
    BY <1>1
  <2>2. LinesOf(SubSeq(written, from + 1, Len(written))) = RowsOf(written, from)
    BY <1>1, <2>1, LinesOfPart DEF RowsOf
  <2> QED BY <2>2 DEF UnreadLines
<1>4. /\ from + 1..Len(written) = (from + 1..to) \cup (to + 1..Len(written))
      /\ (from + 1..to) \cap (to + 1..Len(written)) = {}
      /\ from + 1..Len(written) \subseteq 1..Len(written)
      /\ \A k \in 1..to - from : from + k \in from + 1..to
  BY <1>1
<1>5. /\ \A k \in 1..Len(written) : written[k] \in 0..asked
      /\ \A k, l \in 1..Len(written) : written[k] = written[l] /\ written[k] # 0 => k = l
      /\ writing # 0 => \A k \in 1..Len(written) : written[k] # writing
      /\ asked \in Nat
  BY SlicesNumbers DEF SlicesInv, LogSound
<1> HIDE DEF read, from
<1>6. \A k, l \in 1..Len(read) : read[k] = read[l] /\ read[k] # 0 => k = l
  <2> SUFFICES ASSUME NEW k \in 1..Len(read), NEW l \in 1..Len(read), read[k] = read[l], read[k] # 0
               PROVE  k = l
    OBVIOUS
  <2>1. from + k \in 1..Len(written) /\ from + l \in 1..Len(written)
    BY <1>2, <1>4
  <2>2. from + k = from + l
    BY <1>2, <1>5, <2>1
  <2> QED BY <1>1, <1>2, <2>2
<1>7. \A j \in Lookup : (\E k \in 1..Len(read) : read[k] = j) => j \in LinesOf(read)
  BY <1>2, <1>4 DEF Lookup
<1>8. /\ LinesOf(read) \subseteq RowsOf(written, from) /\ LinesOf(read) \subseteq 1..asked
      /\ RowsOf(written, to) \subseteq RowsOf(written, from) /\ RowsOf(written, to) \subseteq 1..asked
      /\ RowsOf(written, from) = RowsOf(written, to) \cup LinesOf(read)
  <2>1. RowsOf(written, from) = RowsOf(written, to) \cup LinesOf(read)
    BY <1>2, <1>4 DEF RowsOf
  <2>2. \A k \in from + 1..Len(written) : written[k] # 0 => written[k] \in 1..asked
    BY <1>4, <1>5
  <2>3. RowsOf(written, from) \subseteq 1..asked
    BY <2>2 DEF RowsOf
  <2> QED BY <2>1, <2>3
<1>9. LinesOf(read) \cap RowsOf(written, to) = {}
  <2> SUFFICES ASSUME NEW k \in from + 1..to, NEW l \in to + 1..Len(written),
                      written[k] = written[l], written[k] # 0
               PROVE  FALSE
    BY <1>2 DEF RowsOf
  <2> QED BY <1>4, <1>5
<1>10. writing \notin LinesOf(read)
  BY <1>2, <1>4, <1>5
<1> QED
  BY <1>2, <1>3, <1>6, <1>7, <1>8, <1>9, <1>10 DEF Rows, read

LEMMA IngestKeeps ==
  ASSUME SlicesInv, Ingest
  PROVE  SlicesInv'
<1> DEFINE to == IF Len(written) - ReadFrom > ReadCap THEN ReadFrom + ReadCap ELSE Len(written)
           read == SubSeq(written, ReadFrom + 1, to)
           counted == Bumped(waiting, read)
<1>1. /\ logPrimed /\ logOffset' = to /\ waiting' = counted /\ rotated' = FALSE
      /\ lost' = lost \cup PassedOver \cup {i \in LinesOf(read) : counted[i] = waiting[i]}
      /\ UNCHANGED <<asked, written, writing, cut, logPrimed, post, tally, doubled, stuck>>
  BY DEF Ingest
<1>2. to \in ReadFrom..Len(written) /\ to \in Nat
  <2>1. ReadFrom \in 0..Len(written) /\ Len(written) \in Nat /\ ReadCap \in Nat
    BY UnreadNow, SlicesNumbers, UsageSlicesAssumption
  <2> QED BY <2>1
<1> HIDE DEF to
<1>3. /\ read \in Seq(0..Lookups)
      /\ \A k, l \in 1..Len(read) : read[k] = read[l] /\ read[k] # 0 => k = l
      /\ \A j \in Lookup : (\E k \in 1..Len(read) : read[k] = j) => j \in LinesOf(read)
      /\ LinesOf(read) \subseteq UnreadLines /\ LinesOf(read) \subseteq 1..asked
      /\ writing \notin LinesOf(read)
      /\ LinesOf(read) \cap Rows(to) = {}
      /\ Rows(to) \subseteq UnreadLines /\ Rows(to) \subseteq 1..asked
      /\ UnreadLines \subseteq Rows(to) \cup LinesOf(read) \cup PassedOver
  BY <1>2, IngestReads
<1> HIDE DEF read
<1>4. /\ counted \in Counts
      /\ \A j \in Lookup : \/ counted[j] = waiting[j]
                           \/ j \in LinesOf(read) /\ counted[j] = waiting[j] + 1
  <2>1. waiting \in Counts
    BY DEF SlicesInv, SlicesTypes
  <2> QED BY <1>3, <2>1, BumpedIs
<1> HIDE DEF counted
<1>5. SlicesTypes'
  BY <1>1, <1>2, <1>4 DEF SlicesInv, SlicesTypes
<1>6. LogSound'
  <2>1. ~rotated' => logOffset' <= Len(written')
    BY <1>1, <1>2, SlicesNumbers
  <2> QED BY <1>1, <2>1 DEF SlicesInv, LogSound
<1>7. UnreadLines' = Rows(to)
  BY <1>1, <1>5, <1>6, UnreadNext DEF LogSound, Rows
<1>8. ASSUME NEW i \in Lookup
      PROVE  /\ i \notin LinesOf(read) => Everywhere(i)' = Everywhere(i) /\ Amount(i)' = Amount(i)
             /\ i \in LinesOf(read) => Amount(i)' = Amount(i) + (counted[i] - waiting[i])
             /\ counted[i] - waiting[i] \in 0..1 /\ Amount(i) \in Nat
             /\ Amount(i) <= Everywhere(i) /\ Everywhere(i) \in Nat
  <2>1. SlicesTypes
    BY DEF SlicesInv
  <2>2. /\ waiting[i] \in Nat /\ tally[i] \in Nat /\ post.counts[i] \in Nat /\ Uncounted[i] \in Nat
        /\ Amount(i) \in Nat /\ Everywhere(i) \in Nat /\ Amount(i) <= Everywhere(i)
    BY <2>1, AmountIs
  <2>3. Uncounted' = Uncounted /\ post' = post /\ tally' = tally /\ waiting' = counted
    BY <1>1 DEF Uncounted
  <2>4. counted[i] = waiting[i] \/ (i \in LinesOf(read) /\ counted[i] = waiting[i] + 1)
    BY <1>4
  <2>5. counted[i] - waiting[i] \in 0..1
    BY <2>2, <2>4
  <2>6. Amount(i)' = counted[i] + Uncounted[i] + tally[i]
        /\ Everywhere(i)' = counted[i] + post.counts[i] + tally[i]
    BY <2>3 DEF Amount, Everywhere
  <2>7. counted[i] \in Nat
    BY <1>4 DEF Counts
  <2>8. Amount(i)' = Amount(i) + (counted[i] - waiting[i])
    <3>1. \A c, w, u, t \in Nat : c + u + t = (w + u + t) + (c - w)
      OBVIOUS
    <3>2. Amount(i) = waiting[i] + Uncounted[i] + tally[i]
      BY DEF Amount
    <3> QED BY <2>2, <2>6, <2>7, <3>1, <3>2
  <2>9. i \notin LinesOf(read) => Everywhere(i)' = Everywhere(i) /\ Amount(i)' = Amount(i)
    BY <2>4, <2>6 DEF Amount, Everywhere
  <2> QED BY <2>2, <2>5, <2>8, <2>9
<1>9. Ahead'
  <2>1. ASSUME NEW i \in Lookup, i > asked' \/ i = writing' PROVE Everywhere(i)' = 0
    <3>1. i \notin LinesOf(read)
      <4>1. i > asked => i \notin 1..asked
        BY SlicesNumbers DEF Lookup
      <4> QED BY <1>1, <1>3, <2>1, <4>1
    <3> QED BY <1>1, <1>8, <2>1, <3>1 DEF SlicesInv, Ahead
  <2>2. ASSUME ~stuck', NEW i \in UnreadLines' PROVE Everywhere(i)' = 0
    <3>1. i \in Lookup /\ i \notin LinesOf(read) /\ i \in UnreadLines
      BY <1>3, <1>7, <2>2, SlicesNumbers
    <3> QED BY <1>1, <1>8, <2>2, <3>1 DEF SlicesInv, Ahead
  <2> QED BY <2>1, <2>2 DEF Ahead
<1>10. BatchSound'
  BY <1>1 DEF SlicesInv, BatchSound
<1>11. LookupsAccounted'
  <2>1. /\ \A i \in 1..asked : i = writing \/ i \in UnreadLines \/ i \in lost \/ Amount(i) > 0
        /\ ~stuck => \A i \in Lookup \ doubled : Amount(i) <= 1
    BY AccountedIs DEF SlicesInv
  <2>2. ASSUME NEW i \in 1..asked'
        PROVE  i = writing' \/ i \in UnreadLines' \/ i \in lost' \/ Amount(i)' > 0
    <3>1. i \in Lookup /\ i \in 1..asked
      BY <1>1, SlicesNumbers
    <3>2. CASE i \in LinesOf(read)
      <4>1. counted[i] = waiting[i] => i \in lost'
        BY <1>1, <3>2
      <4>2. counted[i] # waiting[i] => counted[i] = waiting[i] + 1
        BY <1>4, <3>1
      <4>3. waiting[i] \in Nat
        BY <3>1 DEF SlicesInv, SlicesTypes, Counts
      <4>4. counted[i] # waiting[i] => Amount(i)' > 0
        BY <1>8, <3>1, <3>2, <4>2, <4>3
      <4> QED BY <4>1, <4>4
    <3>3. CASE i \notin LinesOf(read)
      BY <1>1, <1>3, <1>7, <1>8, <2>1, <3>1, <3>3
    <3> QED BY <3>2, <3>3
  <2>3. ASSUME ~stuck', NEW i \in Lookup \ doubled' PROVE Amount(i)' <= 1
    <3>1. Amount(i) <= 1 /\ ~stuck
      BY <1>1, <2>1, <2>3
    <3>2. CASE i \in LinesOf(read)
      <4>1. Everywhere(i) = 0
        BY <1>1, <1>3, <3>1, <3>2 DEF SlicesInv, Ahead
      <4>2. Amount(i) = 0
        BY <1>8, <4>1
      <4> QED BY <1>8, <3>2, <4>2
    <3>3. CASE i \notin LinesOf(read)
      BY <1>8, <3>1, <3>3
    <3> QED BY <3>2, <3>3
  <2> QED BY <2>2, <2>3 DEF LookupsAccounted, Amount
<1> QED
  BY <1>5, <1>6, <1>9, <1>10, <1>11 DEF SlicesInv

LEMMA InIs ==
  ASSUME NEW counts \in Counts, NEW slices
  PROVE  /\ In(slices, counts) \in Counts
         /\ \A i \in Lookup : In(slices, counts)[i] = IF SliceOf[i] \in slices THEN counts[i] ELSE 0
         /\ \A i \in Lookup : counts[i] > 0 => SliceOf[i] \in Slices(counts)
BY DEF In, Counts, Slices

\* What a lookup comes to after a step that leaves it these counts.
LEMMA AmountNext ==
  ASSUME SlicesTypes', NEW i \in Lookup
  PROVE  /\ Everywhere(i)' = waiting'[i] + post'.counts[i] + tally'[i]
         /\ Amount(i)' = waiting'[i] + (IF post'.pc = "counted" THEN 0 ELSE post'.counts[i]) + tally'[i]
         /\ waiting'[i] \in Nat /\ post'.counts[i] \in Nat /\ tally'[i] \in Nat
<1>1. waiting'[i] \in Nat /\ post'.counts[i] \in Nat /\ tally'[i] \in Nat
  BY DEF SlicesTypes, Post, Counts
<1>2. Uncounted'[i] = IF post'.pc = "counted" THEN 0 ELSE post'.counts[i]
  BY DEF Uncounted, NoLookups
<1> QED
  BY <1>1, <1>2 DEF Everywhere, Amount

LEMMA AmountNow ==
  ASSUME SlicesInv, NEW i \in Lookup
  PROVE  /\ Everywhere(i) = waiting[i] + post.counts[i] + tally[i]
         /\ Amount(i) = waiting[i] + (IF post.pc = "counted" THEN 0 ELSE post.counts[i]) + tally[i]
         /\ waiting[i] \in Nat /\ post.counts[i] \in Nat /\ tally[i] \in Nat
BY AmountIs DEF SlicesInv, Everywhere, Amount

LEMMA DrainKeeps ==
  ASSUME SlicesInv, Drain
  PROVE  SlicesInv'
<1>1. PICK slices : /\ post' = [counts |-> In(slices, waiting), pc |-> "sent"]
                    /\ waiting' = In(Slices(waiting) \ slices, waiting)
  BY DEF Drain, Drained
<1>2. post.pc = "none" /\ UNCHANGED <<asked, tailing, tally, lost, doubled, stuck, rotated>>
  BY DEF Drain, sliceHistory
<1>3. waiting \in Counts /\ In(slices, waiting) \in Counts /\ waiting' \in Counts
  BY <1>1, InIs DEF SlicesInv, SlicesTypes
<1>4. SlicesTypes'
  BY <1>1, <1>2, <1>3 DEF SlicesInv, SlicesTypes, Post, tailing
<1>5. BatchSound'
  BY <1>1 DEF BatchSound
<1>6. ASSUME NEW i \in Lookup
      PROVE  Everywhere(i)' = Everywhere(i) /\ Amount(i)' = Amount(i)
  <2>1. post.counts[i] = 0
    BY <1>2 DEF SlicesInv, BatchSound, NoLookups
  <2>2. /\ post'.counts[i] = IF SliceOf[i] \in slices THEN waiting[i] ELSE 0
        /\ waiting'[i] = IF SliceOf[i] \in Slices(waiting) \ slices THEN waiting[i] ELSE 0
        /\ waiting[i] > 0 => SliceOf[i] \in Slices(waiting)
    BY <1>1, <1>3, InIs
  <2>3. waiting[i] \in Nat
    BY AmountNow
  <2>4. waiting'[i] + post'.counts[i] = waiting[i] + post.counts[i]
    BY <2>1, <2>2, <2>3
  <2>5. post'.pc = "sent" /\ tally'[i] = tally[i]
    BY <1>1, <1>2
  <2> QED BY <1>2, <1>4, <2>4, <2>5, AmountNow, AmountNext
<1> QED
  BY <1>2, <1>4, <1>5, <1>6, AmountIs, CountsMove DEF SlicesInv

LEMMA ServerCountsKeeps ==
  ASSUME SlicesInv, ServerCounts
  PROVE  SlicesInv'
<1>1. /\ post.pc = "sent" /\ post' = [post EXCEPT !.pc = "counted"] /\ tally' = Plus(tally, post.counts)
      /\ UNCHANGED <<asked, tailing, waiting, lost, doubled, stuck, rotated>>
  BY DEF ServerCounts, sliceHistory
<1>2. post \in Post /\ tally \in Counts /\ post.counts \in Counts
  BY DEF SlicesInv, SlicesTypes, Post
<1>3. post' \in Post /\ post'.pc = "counted" /\ post'.counts = post.counts
  BY <1>1, <1>2 DEF Post
<1>4. tally' \in Counts /\ \A i \in Lookup : tally'[i] = tally[i] + post.counts[i]
  BY <1>1, <1>2 DEF Plus, Counts
<1>5. SlicesTypes'
  BY <1>1, <1>3, <1>4 DEF SlicesInv, SlicesTypes, tailing
<1>6. BatchSound'
  <2>1. \A i \in Lookup : post'.counts[i] <= tally'[i]
    BY <1>3, <1>4, AmountNow
  <2> QED BY <1>3, <2>1 DEF BatchSound
<1>7. ASSUME NEW i \in Lookup
      PROVE  /\ Everywhere(i) = 0 => Everywhere(i)' = 0
             /\ Amount(i)' = Amount(i)
  <2>1. waiting'[i] = waiting[i] /\ post'.counts[i] = post.counts[i]
        /\ tally'[i] = tally[i] + post.counts[i]
    BY <1>1, <1>3, <1>4
  <2>2. /\ Everywhere(i) = waiting[i] + post.counts[i] + tally[i]
        /\ Amount(i) = waiting[i] + post.counts[i] + tally[i]
        /\ waiting[i] \in Nat /\ post.counts[i] \in Nat /\ tally[i] \in Nat
    BY <1>1, AmountNow
  <2>3. /\ Everywhere(i)' = waiting[i] + post.counts[i] + (tally[i] + post.counts[i])
        /\ Amount(i)' = waiting[i] + 0 + (tally[i] + post.counts[i])
    BY <1>3, <1>5, <2>1, AmountNext
  <2>4. Everywhere(i) = 0 => waiting[i] = 0 /\ post.counts[i] = 0 /\ tally[i] = 0
    <3>1. \A w, p, s \in Nat : w + p + s = 0 => w = 0 /\ p = 0 /\ s = 0
      OBVIOUS
    <3>2. waiting[i] \in Nat /\ post.counts[i] \in Nat /\ tally[i] \in Nat
      BY <2>2
    <3>3. Everywhere(i) = 0 => waiting[i] + post.counts[i] + tally[i] = 0
      BY <2>2
    <3> QED BY <3>1, <3>2, <3>3
  <2>5. \A w, p, s \in Nat : w + 0 + (s + p) = w + p + s
    OBVIOUS
  <2>6. Everywhere(i) = 0 => Everywhere(i)' = 0
    BY <2>3, <2>4
  <2>7. Amount(i)' = Amount(i)
    BY <2>2, <2>3, <2>5
  <2> QED BY <2>6, <2>7
<1> QED
  BY <1>1, <1>5, <1>6, <1>7, AmountIs, CountsMove DEF SlicesInv

LEMMA AnsweredKeeps ==
  ASSUME SlicesInv, Answered
  PROVE  SlicesInv'
<1>1. /\ post.pc = "counted" /\ post' = NoPost
      /\ UNCHANGED <<asked, tailing, waiting, tally, lost, doubled, stuck, rotated>>
  BY DEF Answered, sliceHistory
<1>2. SlicesTypes'
  BY <1>1 DEF SlicesInv, SlicesTypes, NoPost, NoLookups, Post, Counts, tailing
<1>3. BatchSound'
  BY <1>1 DEF BatchSound, NoPost
<1>4. ASSUME NEW i \in Lookup
      PROVE  /\ Everywhere(i) = 0 => Everywhere(i)' = 0
             /\ Amount(i)' = Amount(i)
  <2>1. waiting'[i] = waiting[i] /\ post'.counts[i] = 0 /\ tally'[i] = tally[i] /\ post'.pc = "none"
    BY <1>1 DEF NoPost, NoLookups
  <2>2. /\ Everywhere(i) = waiting[i] + post.counts[i] + tally[i]
        /\ Amount(i) = waiting[i] + 0 + tally[i]
        /\ waiting[i] \in Nat /\ post.counts[i] \in Nat /\ tally[i] \in Nat
    BY <1>1, AmountNow
  <2>3. Everywhere(i)' = waiting[i] + 0 + tally[i] /\ Amount(i)' = waiting[i] + 0 + tally[i]
    BY <1>2, <2>1, AmountNext
  <2> QED BY <2>2, <2>3
<1> QED
  BY <1>1, <1>2, <1>3, <1>4, AmountIs, CountsMove DEF SlicesInv

LEMMA PostFailedKeeps ==
  ASSUME SlicesInv, PostFailed
  PROVE  SlicesInv'
<1>1. /\ post' = [post EXCEPT !.pc = "failed"]
      /\ doubled' = IF post.pc = "counted" THEN doubled \cup {i \in Lookup : post.counts[i] > 0}
                    ELSE doubled
      /\ UNCHANGED <<asked, tailing, waiting, tally, lost, stuck, rotated>>
  BY DEF PostFailed
<1>2. post \in Post
  BY DEF SlicesInv, SlicesTypes
<1>3. post' \in Post /\ post'.pc = "failed" /\ post'.counts = post.counts
  BY <1>1, <1>2 DEF Post
<1>4. SlicesTypes'
  BY <1>1, <1>3 DEF SlicesInv, SlicesTypes, tailing
<1>5. BatchSound'
  BY <1>3 DEF BatchSound
<1>6. ASSUME NEW i \in Lookup
      PROVE  /\ Everywhere(i) = 0 => Everywhere(i)' = 0
             /\ i \in doubled' \/ Amount(i)' <= Amount(i)
             /\ Amount(i) > 0 => Amount(i)' > 0
  <2>1. waiting'[i] = waiting[i] /\ post'.counts[i] = post.counts[i] /\ tally'[i] = tally[i]
    BY <1>1, <1>3
  <2>2. post.pc = "counted" /\ post.counts[i] > 0 => i \in doubled'
    BY <1>1
  <2> QED BY <1>3, <1>4, <2>1, <2>2, AmountNow, AmountNext
<1> QED
  BY <1>1, <1>4, <1>5, <1>6, CountsMove

LEMMA RequeueKeeps ==
  ASSUME SlicesInv, Requeue
  PROVE  SlicesInv'
<1>1. PICK back :
        /\ waiting' = Plus(waiting, In(back, post.counts))
        /\ lost' = lost \cup {i \in Lookup : post.counts[i] > 0 /\ SliceOf[i] \notin back}
  BY DEF Requeue
<1>2. /\ post.pc = "failed" /\ post' = NoPost
      /\ UNCHANGED <<asked, tailing, tally, doubled, stuck, rotated>>
  BY DEF Requeue
<1>3. waiting \in Counts /\ post.counts \in Counts /\ In(back, post.counts) \in Counts
  BY InIs DEF SlicesInv, SlicesTypes, Post
<1>4. waiting' \in Counts /\ \A i \in Lookup : waiting'[i] = waiting[i] + In(back, post.counts)[i]
  BY <1>1, <1>3 DEF Plus, Counts
<1>5. SlicesTypes'
  BY <1>2, <1>4 DEF SlicesInv, SlicesTypes, NoPost, NoLookups, Post, Counts, tailing
<1>6. BatchSound'
  BY <1>2 DEF BatchSound, NoPost
<1>7. ASSUME NEW i \in Lookup
      PROVE  /\ Everywhere(i) = 0 => Everywhere(i)' = 0
             /\ Amount(i)' <= Amount(i)
             /\ Amount(i) > 0 => Amount(i)' > 0 \/ i \in lost'
  <2>1. post'.counts[i] = 0 /\ tally'[i] = tally[i] /\ post'.pc = "none"
    BY <1>2 DEF NoPost, NoLookups
  <2>2. waiting'[i] = waiting[i] + (IF SliceOf[i] \in back THEN post.counts[i] ELSE 0)
    BY <1>3, <1>4, InIs
  <2>3. post.counts[i] > 0 /\ SliceOf[i] \notin back => i \in lost'
    BY <1>1
  <2> QED BY <1>2, <1>5, <2>1, <2>2, <2>3, AmountNow, AmountNext
<1> QED
  BY <1>1, <1>2, <1>5, <1>6, <1>7, CountsMove

LEMMA SlicesInvInit == SlicesInit => SlicesInv
<1> SUFFICES ASSUME SlicesInit PROVE SlicesInv
  OBVIOUS
<1>1. /\ asked = 0 /\ written = <<>> /\ writing = 0 /\ cut = FALSE /\ logOffset = 0
      /\ rotated = FALSE
      /\ waiting = NoLookups /\ post = NoPost /\ tally = NoLookups
  BY DEF SlicesInit
<1>2. SlicesTypes
  BY <1>1, UsageSlicesAssumption DEF SlicesTypes, NoPost, NoLookups, Post, Counts
<1>3. Len(written) = 0 /\ 1..Len(written) = {}
  BY <1>1
<1>4. LogSound
  BY <1>1, <1>3 DEF LogSound
<1>5. ASSUME NEW i \in Lookup PROVE Everywhere(i) = 0 /\ Amount(i) = 0
  BY <1>1 DEF Everywhere, Amount, Uncounted, NoPost, NoLookups
<1>6. UnreadLines = {}
  <2>1. UnreadLines = Rows(0)
    BY <1>1, <1>2, <1>4, UnreadIs DEF LogSound
  <2> QED BY <1>3, <2>1 DEF Rows, RowsOf
<1>7. Ahead /\ BatchSound
  BY <1>1, <1>5, <1>6 DEF Ahead, BatchSound, NoPost
<1>8. LookupsAccounted
  BY <1>1, <1>2, <1>5, AccountedIs
<1> QED
  BY <1>2, <1>4, <1>7, <1>8 DEF SlicesInv

LEMMA SlicesInvStep == SlicesInv /\ [SlicesNext]_sliceVars => SlicesInv'
<1> SUFFICES ASSUME SlicesInv, [SlicesNext]_sliceVars PROVE SlicesInv'
  OBVIOUS
<1>1. CASE LogRotated
  <2>1. /\ Emptied /\ rotated' = TRUE
        /\ UNCHANGED <<asked, writing, logOffset, waiting, post, tally, doubled, stuck>>
    BY <1>1 DEF LogRotated
  <2> QED BY <2>1, EmptiedKeeps, SlicesNumbers
<1>2. CASE UNCHANGED sliceVars
  <2>1. UNCHANGED <<asked, tailing, waiting, post, tally, lost, doubled, stuck, rotated>>
    BY <1>2 DEF sliceVars, sliceHistory
  <2>2. SlicesTypes' /\ BatchSound'
    BY <2>1 DEF SlicesInv, SlicesTypes, BatchSound, tailing
  <2>3. \A i : Everywhere(i)' = Everywhere(i) /\ Amount(i)' = Amount(i)
    BY <2>1 DEF Everywhere, Amount, Uncounted
  <2> QED BY <2>1, <2>2, <2>3, AmountIs, CountsMove DEF SlicesInv
<1> QED
  BY <1>1, <1>2, LineBeginsKeeps, LineEndsKeeps, PrimeKeeps, IngestKeeps, TruncateKeeps, DrainKeeps,
     ServerCountsKeeps, AnsweredKeeps, PostFailedKeeps, RequeueKeeps, RestartKeeps DEF SlicesNext

\* At every moment each lookup the computer made is somewhere - its line being
\* written, in the log still to be read, in memory, in the batch under way, in
\* usage_slices, or let go at one of the places the code lets lookups go - and
\* it is counted at most once, unless the answer of its batch was lost or the
\* log could not be truncated (ingest_dns_log_at, drain, requeue, ingest).
THEOREM EveryLookupSomewhere == SlicesSpec => []LookupsAccounted
<1>1. SlicesInit => SlicesInv
  BY SlicesInvInit
<1>2. SlicesInv /\ [SlicesNext]_sliceVars => SlicesInv'
  BY SlicesInvStep
<1>3. SlicesInv => LookupsAccounted
  BY DEF SlicesInv
<1> QED
  BY <1>1, <1>2, <1>3, PTL DEF SlicesSpec

====
