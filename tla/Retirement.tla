----------------------------- MODULE Retirement -----------------------------
(***************************************************************************)
(* A computer that is removed from its household takes the agent off       *)
(* itself (client/src/retire.rs, and retire, run and network_loop in       *)
(* runner.rs): the running agent frees everyone, leaves a marker and       *)
(* starts a helper outside its sandbox, which stops the agent, takes the   *)
(* rules off once more and removes what was installed.  Agent, helper,     *)
(* watchdog and a new installation each go their own way, and any of them  *)
(* can be cut off between two steps.                                       *)
(***************************************************************************)
EXTENDS Naturals

CONSTANTS RetireFaults   \* deaths, power failures, failed or odd answers (a bound)

VARIABLES
  household,  \* this computer on the server: "listed", "removed", or "again"
  enrolled,   \* whose token agent.toml has: "old", "new", "none"
  marker,     \* /var/lib/openscreentime/retired
  unit,       \* the agent's unit: "enabled", "disabled", "gone"
  timer,      \* the watchdog's timer, likewise
  binary,
  process,    \* the agent's process: its step, its token, whether it has rules,
              \* and a safe-search round that is under way
  helper,     \* `ost __retire`: its next step, or "none"
  watchdog,   \* "idle", or "due": the heartbeat was old
  installing, \* the one-liner's next step, or "none"
  person,     \* frozen, behind the lock
  rulesOn,    \* the website rules: "on", "copy": off, but for the link that
              \* resolv.conf was, "off"
  kept,       \* the cached bundle
  overlapped, \* history: an installation began before the removal was through
  stranded,   \* history: the helper died with the watchdog disabled
  mishaps

machine == <<enrolled, marker, unit, timer, binary>>
felt == <<person, rulesOn, kept>>
past == <<overlapped, stranded>>
retireVars == <<household, machine, process, helper, watchdog, installing, felt, past, mishaps>>

Mishap == mishaps < RetireFaults /\ mishaps' = mishaps + 1

Free == [frozen |-> FALSE, locked |-> FALSE]
Held == [frozen |-> TRUE, locked |-> TRUE]
Down(pc) == [pc |-> pc, token |-> "none", rules |-> FALSE, round |-> FALSE]

RetireInit ==
  /\ household = "listed" /\ enrolled = "old" /\ marker = FALSE
  /\ unit = "enabled" /\ timer = "enabled" /\ binary = TRUE
  /\ process = [pc |-> "run", token |-> "old", rules |-> TRUE, round |-> TRUE]
  /\ helper = "none" /\ watchdog = "idle" /\ installing = "none"
  /\ person = Free /\ rulesOn = "on" /\ kept = TRUE
  /\ overlapped = FALSE /\ stranded = FALSE /\ mishaps = 0

-----------------------------------------------------------------------------
(* The server *)

\* delete_device: the token becomes a tombstone.
RemoveComputer ==
  /\ household = "listed" /\ household' = "removed"
  /\ UNCHANGED <<machine, process, helper, watchdog, installing, felt, past, mishaps>>

Retired(token) == token = "old" /\ household # "listed"

-----------------------------------------------------------------------------
(* The agent.  Its process is "down": systemd starts it; "stopped": nobody    *)
(* does; "loaded": the config is read; "run"; "heard" one 410; then the steps *)
(* of retire, and "waiting" for the helper to stop it.                        *)

Load ==
  /\ process.pc = "down" /\ unit # "gone" /\ binary /\ enrolled # "none"
  /\ process' = [Down("loaded") EXCEPT !.token = enrolled]
  /\ UNCHANGED <<household, machine, helper, watchdog, installing, felt, past, mishaps>>

\* spawn_helper: one at a time, and it is only logged when it fails.
SpawnHelper ==
  \/ /\ helper' = IF helper = "none" /\ binary THEN "mark" ELSE helper
     /\ UNCHANGED mishaps
  \/ Mishap /\ UNCHANGED helper

\* run: never enforce where the marker is, but have the helper finish.
StartMarked ==
  /\ process.pc = "loaded" /\ marker
  /\ process' = Down("waiting")
  /\ SpawnHelper
  /\ UNCHANGED <<household, machine, watchdog, installing, felt, past>>

\* bootstrap: the server's rules, else the ones kept, else none.
Bootstrap(answered) ==
  LET rules == (answered /\ ~Retired(process.token)) \/ kept
  IN /\ process.pc = "loaded" /\ ~marker
     /\ process' = [process EXCEPT !.pc = "run", !.rules = rules, !.round = rules]
     /\ kept' = rules
     /\ rulesOn' = IF rules THEN "on" ELSE rulesOn
     /\ UNCHANGED <<household, machine, helper, watchdog, installing, person, past, mishaps>>

Enforces == process.pc \in {"run", "heard"}

\* apply_bundle, of a pull that the server answers with rules.
PullRules ==
  /\ Enforces /\ ~process.rules /\ ~Retired(process.token)
  /\ process' = [process EXCEPT !.rules = TRUE, !.round = TRUE]
  /\ kept' = TRUE /\ rulesOn' = "on"
  /\ UNCHANGED <<household, machine, helper, watchdog, installing, person, past, mishaps>>

\* The tick stops or frees the person.
StopOrFree ==
  /\ Enforces /\ process.rules
  /\ person' = IF person = Held THEN Free ELSE Held
  /\ UNCHANGED <<household, machine, process, helper, watchdog, installing, rulesOn, kept, past,
                 mishaps>>

\* A 410, from a tombstone or one odd answer.
Hear ==
  /\ process.pc = "run"
  /\ process' = [process EXCEPT !.pc = "heard"]
  /\ \/ Retired(process.token) /\ UNCHANGED mishaps
     \/ ~Retired(process.token) /\ Mishap
  /\ UNCHANGED <<household, machine, helper, watchdog, installing, felt, past>>

\* Slip: the first 410 is believed.
BelieveIt ==
  /\ process.pc = "heard"
  /\ process' = [process EXCEPT !.pc = "thaw"]
  /\ UNCHANGED <<household, machine, helper, watchdog, installing, felt, past, mishaps>>

\* retirement_confirmed, which may also go unanswered.
Confirm ==
  /\ process.pc = "heard"
  /\ \/ process' = [process EXCEPT !.pc = IF Retired(process.token) THEN "thaw" ELSE "run"]
        /\ UNCHANGED mishaps
     \/ Mishap /\ process' = [process EXCEPT !.pc = "run"]
  /\ UNCHANGED <<household, machine, helper, watchdog, installing, felt, past>>

\* retire, under the agent's lock from the first step to the last.
RetireStep(pc, next) == /\ process.pc = pc
                        /\ process' = [process EXCEPT !.pc = next]
                        /\ UNCHANGED <<household, enrolled, unit, timer, binary, watchdog,
                                       installing, past>>
Thaw ==
  /\ RetireStep("thaw", "release")
  /\ person' = [person EXCEPT !.frozen = FALSE]
  /\ UNCHANGED <<marker, helper, rulesOn, kept, mishaps>>
Release ==
  /\ RetireStep("release", "teardown")
  /\ person' = [person EXCEPT !.locked = FALSE]
  /\ UNCHANGED <<marker, helper, rulesOn, kept, mishaps>>

\* teardown_enforcement, in the sandbox: a pinned resolv.conf that was a link
\* comes back as a copy.
Teardown ==
  /\ RetireStep("teardown", "mark")
  /\ rulesOn' \in (IF rulesOn = "on" THEN {"off", "copy"} ELSE {rulesOn}) /\ kept' = FALSE
  /\ UNCHANGED <<marker, helper, person, mishaps>>
Mark ==
  /\ RetireStep("mark", "spawn")
  /\ \/ marker' = TRUE /\ UNCHANGED mishaps
     \/ Mishap /\ UNCHANGED marker
  /\ UNCHANGED <<helper, felt>>
Spawn ==
  /\ RetireStep("spawn", "waiting")
  /\ SpawnHelper
  /\ UNCHANGED <<marker, felt>>

\* adopt_safe_search: a round that was under way finds new addresses, and the
\* network rules are applied again, of a retired agent too.
SafeSearchRound ==
  /\ process.pc = "waiting" /\ process.round
  /\ process' = [process EXCEPT !.round = FALSE]
  /\ rulesOn' = "on"
  /\ UNCHANGED <<household, machine, helper, watchdog, installing, person, kept, past, mishaps>>

-----------------------------------------------------------------------------
(* The helper: run_helper_with, step by step.                              *)

HelperStep(pc, next) == /\ helper = pc /\ helper' = next
                        /\ UNCHANGED <<household, watchdog, installing, past, mishaps>>
HelperMarks ==
  /\ HelperStep("mark", "timer") /\ marker' = TRUE
  /\ UNCHANGED <<enrolled, unit, timer, binary, process, felt>>

off(u) == IF u = "gone" THEN u ELSE "disabled"
HelperStopsWatchdog ==
  /\ HelperStep("timer", "agent") /\ timer' = off(timer)
  /\ UNCHANGED <<enrolled, marker, unit, binary, process, felt>>
HelperStopsAgent ==
  /\ HelperStep("agent", "free") /\ unit' = off(unit) /\ process' = Down("stopped")
  /\ UNCHANGED <<enrolled, marker, timer, binary, felt>>
HelperFrees ==
  /\ HelperStep("free", "teardown") /\ person' = Free
  /\ UNCHANGED <<machine, process, rulesOn, kept>>
HelperTearsDown ==
  /\ HelperStep("teardown", "units") /\ rulesOn' = "off" /\ kept' = FALSE
  /\ UNCHANGED <<machine, process, person>>
HelperRemovesUnits ==
  /\ HelperStep("units", "config") /\ unit' = "gone" /\ timer' = "gone"
  /\ UNCHANGED <<enrolled, marker, binary, process, felt>>

\* remove_the_rest: the config, the state with the marker, the binary.
HelperRemovesConfig ==
  /\ HelperStep("config", "state") /\ enrolled' = "none"
  /\ UNCHANGED <<marker, unit, timer, binary, process, felt>>
HelperRemovesState ==
  /\ HelperStep("state", "binary") /\ marker' = FALSE
  /\ UNCHANGED <<enrolled, unit, timer, binary, process, felt>>
HelperRemovesBinary ==
  /\ HelperStep("binary", "none") /\ binary' = FALSE
  /\ UNCHANGED <<enrolled, marker, unit, timer, process, felt>>

-----------------------------------------------------------------------------
(* The watchdog, a new installation, and what goes wrong.                  *)

\* The heartbeat is old of an agent that does not tick; one that is starting
\* beats before the next look.
Look ==
  /\ timer = "enabled" /\ watchdog = "idle" /\ process.pc \in {"stopped", "waiting"}
  /\ watchdog' = "due"
  /\ UNCHANGED <<household, machine, process, helper, installing, felt, past, mishaps>>

\* `systemctl restart`, which a stopped or disabled unit obeys.
WatchdogRestarts ==
  /\ watchdog = "due" /\ watchdog' = "idle"
  /\ process' = IF unit = "gone" THEN process ELSE Down("down")
  /\ UNCHANGED <<household, machine, helper, installing, felt, past, mishaps>>

\* The one-liner: enroll, which ends with clear_marker, and install_service.
Enroll ==
  /\ household = "removed" /\ installing = "none"
  /\ household' = "again" /\ installing' = "marker" /\ enrolled' = "new" /\ binary' = TRUE
  /\ overlapped' = ~(/\ helper = "none" /\ watchdog = "idle" /\ unit # "enabled"
                     /\ process.pc \in {"stopped", "down", "waiting"})
  /\ UNCHANGED <<marker, unit, timer, process, helper, watchdog, felt, stranded, mishaps>>

\* Slip: the marker of an earlier removal stays.
SaveConfigOnly ==
  /\ installing = "marker" /\ installing' = "units"
  /\ UNCHANGED <<household, machine, process, helper, watchdog, felt, past, mishaps>>
ClearMarker ==
  /\ installing = "marker" /\ installing' = "units" /\ marker' = FALSE
  /\ UNCHANGED <<household, enrolled, unit, timer, binary, process, helper, watchdog, felt,
                 past, mishaps>>
InstallService ==
  /\ installing = "units" /\ installing' = "none"
  /\ unit' = "enabled" /\ timer' = "enabled" /\ process' = Down("down")
  /\ UNCHANGED <<household, enrolled, marker, binary, helper, watchdog, felt, past, mishaps>>

AgentDies ==
  /\ process.pc \notin {"down", "stopped"} /\ Mishap
  /\ process' = Down("down")
  /\ UNCHANGED <<household, machine, helper, watchdog, installing, felt, past>>

\* Nobody is frozen or behind a lock after a boot; files stay as they are.
PowerFails ==
  /\ installing = "none" /\ Mishap
  /\ process' = Down(IF unit = "enabled" THEN "down" ELSE "stopped")
  /\ helper' = "none" /\ watchdog' = "idle" /\ person' = Free
  /\ stranded' = (stranded \/ (helper # "none" /\ timer # "enabled"))
  /\ UNCHANGED <<household, machine, installing, rulesOn, kept, overlapped>>

Run == Load \/ StartMarked \/ Bootstrap(TRUE)
RetireSteps == Thaw \/ Release \/ Teardown \/ Mark \/ Spawn
HelperSteps == \/ HelperMarks \/ HelperStopsWatchdog \/ HelperStopsAgent \/ HelperFrees
               \/ HelperTearsDown \/ HelperRemovesUnits \/ HelperRemovesConfig
               \/ HelperRemovesState \/ HelperRemovesBinary
Install == ClearMarker \/ InstallService
RetireNext ==
  \/ RemoveComputer \/ Enroll
  \/ Run \/ Bootstrap(FALSE) \/ PullRules \/ StopOrFree \/ Hear \/ Confirm
  \/ RetireSteps \/ SafeSearchRound \/ HelperSteps
  \/ Look \/ WatchdogRestarts \/ Install \/ AgentDies \/ PowerFails

HearTombstone == Retired(process.token) /\ Hear

\* systemd, the watchdog and the helper go on; the server is reached again.
RetireFair ==
  /\ WF_retireVars(Run \/ PullRules \/ HearTombstone \/ Confirm \/ RetireSteps)
  /\ WF_retireVars(HelperSteps)
  /\ WF_retireVars(Look \/ WatchdogRestarts) /\ WF_retireVars(Install)
RetireSpec == RetireInit /\ [][RetireNext]_retireVars /\ RetireFair

-----------------------------------------------------------------------------
\* Who is taken off: no computer that a household still has is marked or loses a
\* step to the removal, whatever odd 410 it hears (retirement_confirmed); and one
\* that was installed again keeps all of its new installation, whatever the old
\* process, helper and watchdog still do (clear_marker), unless it was begun
\* before the removal was through.
OnlyRemovedComeOff ==
  /\ household = "listed" =>
       /\ enrolled = "old" /\ unit = "enabled" /\ timer = "enabled" /\ binary
       /\ ~marker /\ helper = "none" /\ process.pc \in {"down", "loaded", "run", "heard"}
  /\ household = "again" /\ ~overlapped =>
       /\ enrolled = "new" /\ binary /\ helper = "none"
       /\ installing = "none" =>
            /\ unit = "enabled" /\ timer = "enabled" /\ ~marker
            /\ process.pc \in {"down", "loaded", "run", "heard"}

\* A computer in a household comes to enforce its rules for good; one that was
\* removed comes to be free and without the agent, and one that was then
\* installed again "starts afresh" (docs/API.md:365).  Whoever died, and
\* whatever the watchdog restarted meanwhile; but a power failure in the
\* helper can leave it half removed, and an installation before the removal is
\* through is taken off by it.
Gone == /\ process.pc \in {"stopped", "down", "waiting"}
        /\ unit = "gone" /\ enrolled = "none" /\ rulesOn = "off"
Enforced == process.pc = "run" /\ process.rules /\ rulesOn = "on"
ComesOff ==
  <>[](CASE household = "listed" -> Enforced
         [] household = "removed" -> person = Free /\ (Gone \/ stranded)
         [] household = "again" -> (Enforced /\ process.token = "new") \/ overlapped)

\* "Installing again (the one-liner) starts afresh" (docs/API.md:365): the claim.
StartsAfresh == <>[](household = "again" => Enforced /\ process.token = "new")
=============================================================================
