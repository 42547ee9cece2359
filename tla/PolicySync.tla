----------------------------- MODULE PolicySync -----------------------------
(***************************************************************************)
(* The rules of one computer on their way from the database to the agent.  *)
(*                                                                         *)
(* An edit commits and the device is then told with one `apply_policy`     *)
(* command at most pending (server/src/profiles.rs, agent.rs); a connected *)
(* agent gets it pushed, a polling one with its heartbeat, which also      *)
(* carries the policy version (the newest updated_at behind the rules).    *)
(* A pull reads the rules first and the version after (agent.rs policy).   *)
(* Sockets die before the server notices, answers and acks get lost, the   *)
(* agent and the server restart.                                           *)
(*                                                                         *)
(* CommandQueue models the queue itself; here one row is enough, and the   *)
(* push and the UPDATE that marks it sent are one step.                    *)
(***************************************************************************)
EXTENDS Naturals, Sequences

CONSTANTS Edits,       \* edits made (a bound)
          SyncFaults   \* losses, failures and restarts (a bound)

ASSUME PolicySyncAssumption == Edits \in Nat /\ SyncFaults \in Nat

VARIABLES
  rules,    \* committed: the revision, and the version derived from it
  untold,   \* edits committed whose devices are not told yet
  row,      \* the newest apply_policy row
  hub,      \* the server holds a socket for the device
  link,     \* what the agent does: "ws" or "poll"
  frames,   \* commands on their way to the agent, or in a heartbeat's answer
  acks,     \* acks on their way to the server
  pull,     \* the pull under way
  recheck,  \* a heartbeat's version differed: pull after its commands
  held,     \* the rules the agent applies, and the version they came with
  excused,  \* an edit was let slip (history)
  syncFaults

syncVars == <<rules, untold, row, hub, link, frames, acks, pull, recheck, held, excused,
              syncFaults>>

NoPull == [for |-> 0, pc |-> "idle", rev |-> 0, ver |-> 0]
Open == {"queued", "sent"}
Stale == held.rev # rules.rev

SyncInit ==
  /\ rules = [rev |-> 0, ver |-> 0] /\ untold = 0
  /\ row = [id |-> 0, status |-> "closed", late |-> FALSE]
  /\ hub = FALSE /\ link = "poll" /\ frames = <<>> /\ acks = <<>>
  /\ pull = NoPull /\ recheck = FALSE
  /\ held = [rev |-> 0, ver |-> 0] /\ excused = FALSE /\ syncFaults = 0

Fault == syncFaults < SyncFaults /\ syncFaults' = syncFaults + 1

-----------------------------------------------------------------------------
(* The server *)

\* write_policy bumps updated_at; pointing a login at older rules
\* (sync_device_users) changes what is pulled and not the newest updated_at.
EditRules(bumps) ==
  /\ rules.rev < Edits
  /\ rules' = [rev |-> rules.rev + 1, ver |-> IF bumps THEN rules.rev + 1 ELSE rules.ver]
  /\ untold' = untold + 1
  /\ UNCHANGED <<row, hub, link, frames, acks, pull, recheck, held, excused, syncFaults>>

\* The pull for this pending row has read the rules, its ack is still to come.
AlreadyServed(r) ==
  /\ r.status = "sent"
  /\ \/ pull.for = r.id /\ pull.pc # "asked"
     \/ \E i \in 1..Len(acks) : acks[i] = r.id

\* notify_devices: a pending row is kept as it is, `sent` or not; a frame goes
\* out if the server thinks it has a socket.
TellDevice ==
  /\ untold > 0
  /\ untold' = untold - 1
  /\ LET pending == row.status \in Open
         id == IF pending THEN row.id ELSE row.id + 1
     IN  /\ row' = IF pending THEN [row EXCEPT !.status = IF hub THEN "sent" ELSE @]
                   ELSE [id |-> id, status |-> IF hub THEN "sent" ELSE "queued", late |-> FALSE]
         /\ frames' = IF hub /\ link = "ws" THEN Append(frames, id) ELSE frames
  /\ excused' = (excused \/ (frames' = frames /\ AlreadyServed(row)))
  /\ UNCHANGED <<rules, hub, link, acks, pull, recheck, held, syncFaults>>

\* REDELIVERY_GRACE_SECS go by.
GraceGoesBy ==
  /\ row.status = "sent" /\ ~row.late
  /\ row' = [row EXCEPT !.late = TRUE]
  /\ UNCHANGED <<rules, untold, hub, link, frames, acks, pull, recheck, held, excused, syncFaults>>

\* Slip: what was sent is taken to have arrived.
QueuedOnly(r) == r.status = "queued"
\* pull_pending_commands
Redeliverable(r) == r.status = "queued" \/ (r.status = "sent" /\ r.late)

\* Slip: a command is done with when it is handed over.
CountedAsDone(r) == [r EXCEPT !.status = "closed", !.late = FALSE]
MarkedSent(r) == [r EXCEPT !.status = "sent", !.late = FALSE]

HandOver ==
  IF Redeliverable(row)
  THEN row' = MarkedSent(row) /\ frames' = <<row.id>>
  ELSE frames' = <<>> /\ UNCHANGED row

\* apply_command_ack
OpenRow(id) == row.id = id /\ row.status \in Open

\* A frame that carries an edit after its row was acked for an earlier one.
NewsInFrames == \E i \in 1..Len(frames) : ~OpenRow(frames[i])

AckArrives ==
  /\ acks # <<>>
  /\ row' = IF OpenRow(Head(acks)) THEN [row EXCEPT !.status = "closed"] ELSE row
  /\ acks' = Tail(acks)
  /\ UNCHANGED <<rules, untold, hub, link, frames, pull, recheck, held, excused, syncFaults>>

\* The policy handler: the rules, and then the version.
ReadRules ==
  /\ pull.pc = "asked"
  /\ pull' = [pull EXCEPT !.pc = "rules read", !.rev = rules.rev]
  /\ UNCHANGED <<rules, untold, row, hub, link, frames, acks, recheck, held, excused, syncFaults>>

ReadVersion ==
  /\ pull.pc = "rules read"
  /\ pull' = [pull EXCEPT !.pc = "answered", !.ver = rules.ver]
  /\ UNCHANGED <<rules, untold, row, hub, link, frames, acks, recheck, held, excused, syncFaults>>

\* What a socket takes with it: frames, acks, and the ack of a pull under way.
LinkLost ==
  IF link = "ws"
  THEN /\ link' = "poll" /\ frames' = <<>> /\ acks' = <<>>
       /\ excused' = (excused \/ untold > untold' \/ NewsInFrames)
  ELSE /\ UNCHANGED <<link, frames, acks>>
       /\ excused' = (excused \/ untold > untold')
WithoutAck(p) == IF link = "ws" THEN [p EXCEPT !.for = 0] ELSE p

\* Killed between a commit and the telling, or in the middle of a pull.
SyncServerRestarts ==
  /\ Fault
  /\ untold' = 0 /\ hub' = FALSE
  /\ LinkLost
  /\ pull' = IF pull.pc \in {"asked", "rules read"}
             THEN [WithoutAck(pull) EXCEPT !.pc = "failed"] ELSE WithoutAck(pull)
  /\ UNCHANGED <<rules, row, recheck, held>>

\* The server notices a socket that went silent.
SocketReaped ==
  /\ hub /\ link = "poll"
  /\ hub' = FALSE
  /\ UNCHANGED <<rules, untold, row, link, frames, acks, pull, recheck, held, excused, syncFaults>>

-----------------------------------------------------------------------------
(* The agent *)

\* A polling agent waits for the answer to each ack.
Idle == pull.pc = "idle" /\ frames = <<>> /\ ~recheck /\ acks = <<>>

\* handle_ws registers the socket and hands the pending commands over.
Connect ==
  /\ link = "poll" /\ Idle
  /\ link' = "ws" /\ hub' = TRUE
  /\ HandOver
  /\ UNCHANGED <<rules, untold, acks, pull, recheck, held, excused, syncFaults>>

\* The socket dies under both; only the agent knows.
SocketDies ==
  /\ link = "ws" /\ Fault
  /\ UNCHANGED untold
  /\ LinkLost
  /\ pull' = WithoutAck(pull)
  /\ UNCHANGED <<rules, row, hub, recheck, held>>

\* run_poll: a version other than the one the rules came with.
OtherVersion(ver) == ver # held.ver

Heartbeat ==
  /\ link = "poll" /\ Idle
  /\ HandOver
  /\ recheck' = OtherVersion(rules.ver)
  /\ UNCHANGED <<rules, untold, hub, link, acks, pull, held, excused, syncFaults>>

AnswerLost ==
  /\ link = "poll" /\ ~Idle /\ pull.pc = "idle" /\ Fault
  /\ frames' = <<>> /\ recheck' = FALSE
  /\ UNCHANGED <<rules, untold, row, hub, link, acks, pull, held, excused>>

HandleApplyPolicy ==
  /\ pull.pc = "idle" /\ frames # <<>>
  /\ pull' = [NoPull EXCEPT !.for = Head(frames), !.pc = "asked"]
  /\ frames' = Tail(frames)
  /\ UNCHANGED <<rules, untold, row, hub, link, acks, recheck, held, excused, syncFaults>>

Repull ==
  /\ pull.pc = "idle" /\ frames = <<>> /\ recheck
  /\ pull' = [NoPull EXCEPT !.pc = "asked"]
  /\ recheck' = FALSE
  /\ UNCHANGED <<rules, untold, row, hub, link, frames, acks, held, excused, syncFaults>>

PullEnds == pull' = NoPull /\ acks' = IF pull.for = 0 THEN acks ELSE Append(acks, pull.for)

\* apply_bundle
PullArrives ==
  /\ pull.pc = "answered"
  /\ held' = [rev |-> pull.rev, ver |-> pull.ver]
  /\ excused' = (excused /\ pull.rev # rules.rev)
  /\ PullEnds
  /\ UNCHANGED <<rules, untold, row, hub, link, frames, recheck, syncFaults>>

\* A pull that fails closes the command as failed: it is not tried again.
PullFails ==
  /\ pull.pc # "idle"
  /\ IF pull.pc = "failed" THEN UNCHANGED syncFaults ELSE Fault
  /\ PullEnds
  /\ excused' = (excused \/ pull.for # 0 \/ row.status = "closed")
  /\ UNCHANGED <<rules, untold, row, hub, link, frames, recheck, held>>

AckLost ==
  /\ acks # <<>> /\ Fault
  /\ acks' = Tail(acks)
  /\ UNCHANGED <<rules, untold, row, hub, link, frames, pull, recheck, held, excused>>

\* bootstrap pulls before anything else, and falls back on the cached bundle.
SyncAgentRestarts ==
  /\ Fault
  /\ link' = "poll" /\ frames' = <<>> /\ acks' = <<>> /\ recheck' = FALSE
  /\ pull' = [NoPull EXCEPT !.pc = "asked"]
  /\ excused' = (excused \/ NewsInFrames)
  /\ UNCHANGED <<rules, untold, row, hub, held>>

SyncNext ==
  \/ \E bumps \in BOOLEAN : EditRules(bumps)
  \/ TellDevice \/ GraceGoesBy \/ AckArrives \/ ReadRules \/ ReadVersion
  \/ SyncServerRestarts \/ SocketReaped \/ Connect \/ SocketDies \/ Heartbeat \/ AnswerLost
  \/ HandleApplyPolicy \/ Repull \/ PullArrives \/ PullFails \/ AckLost \/ SyncAgentRestarts

\* Both programs go on with what they began; an agent that is not connected
\* sends its heartbeats, and the grace runs out.
PullGoesOn == ReadRules \/ ReadVersion \/ PullArrives \/ (pull.pc = "failed" /\ PullFails)
SyncFair ==
  /\ WF_syncVars(TellDevice) /\ WF_syncVars(GraceGoesBy) /\ WF_syncVars(AckArrives)
  /\ WF_syncVars(HandleApplyPolicy \/ Repull \/ Heartbeat \/ PullGoesOn)

SyncSpec == SyncInit /\ [][SyncNext]_syncVars /\ SyncFair

-----------------------------------------------------------------------------
(* Properties *)

OnItsWay ==
  \/ untold > 0 \/ row.status \in Open \/ ~Idle
  \/ link = "poll" /\ OtherVersion(rules.ver)

\* Rules that are out of date are known to be: an edit is still to be told, a
\* command is pending, a pull is under way or the next heartbeat's version
\* gives them away (save what `excused` names: see the claim).
NoSilentStale == Stale => OnItsWay \/ excused

\* Every edit is in force in the end (same exception) with the agent back on
\* polling: redelivery and the version make up for what sockets lost.
PolicyConverges == <>[](link = "poll") => <>[](~Stale \/ excused)

\* Claimed (notify_devices: "WS agents get it pushed; poll agents catch up via
\* the heartbeat's policy version"): no edit is let slip.
EditsReach == Stale => OnItsWay

=============================================================================
