--------------------------- MODULE CommandQueue ---------------------------
(***************************************************************************)
(* The command queue of one computer: the server's `commands` rows, the    *)
(* Hub of live agent sockets, the WebSocket and heartbeat delivery paths,  *)
(* and the agent executing what arrives (server/src/agent.rs, state.rs,    *)
(* commands.rs; client/src/runner.rs).                                     *)
(*                                                                         *)
(* Every awaited SQL statement and every Hub call is a step of its own, so *)
(* the handlers interleave exactly where the server's tasks can.  Channel  *)
(* 0 is HTTP (heartbeat replies down, acks up); channels 1..MaxConn are    *)
(* WebSocket connections in the order of their Hub tokens.                 *)
(***************************************************************************)
EXTENDS Naturals, Sequences

CONSTANTS
    MaxCmd,       \* rows the `commands` table may come to hold
    MaxConn,      \* WebSocket connections the agent may make
    MaxDay,       \* accounting days that pass
    MaxFault,     \* server failures, agent crashes and losses that happen
    ChannelCap,   \* frames in flight on a channel an API request adds to (model bound)
    Skew,         \* days the server's idea of the device's day may be ahead
    Types,        \* the command types this instance uses
    Modes,        \* the ways to the server that work: "ws", "poll"
    Task          \* concurrent API requests that enqueue a command

\* agent.rs COALESCE_TYPES (set_tamper_level is handled like apply_policy).
CoalesceTypes == {"lock", "unlock", "apply_policy"}

ASSUME BoundsAssumption ==
    /\ {MaxCmd, MaxConn, MaxDay, MaxFault, ChannelCap, Skew} \subseteq Nat
    /\ MaxDay >= 1
    /\ Skew <= 2
    /\ Types \subseteq CoalesceTypes \cup {"credit_time", "ping"}
    /\ Modes \subseteq {"ws", "poll"}

Cmd  == 1..MaxCmd
Conn == 1..MaxConn
Chan == 0..MaxConn
Day  == 1..MaxDay

VARIABLES
    \* PostgreSQL: the rows of `commands`, and devices.locked.
    ctype, status, day, overdue, shown,
    \* Server memory: the Hub entry, one handler per channel, API requests.
    hub, handler, batch, mirror, task, faults,
    \* Frames in flight.
    down, up,
    \* The agent: its connection, and what it keeps on disk.
    link, sock, locked, today, grants,
    \* History: commands the agent ever carried out, credits it ever made.
    executed, credited

dbVars     == <<ctype, status, day, overdue, shown>>
serverVars == <<hub, handler, batch, mirror, task, faults>>
agentVars  == <<link, sock, locked, today, grants, executed, credited>>
vars       == <<dbVars, serverVars, down, up, agentVars>>

Open    == {"queued", "sent"}
Settled == {"acked", "failed", "cancelled"}
Serving == {"serve", "deaf"}       \* in handle_ws's reader loop
Alive   == {"select", "update", "deliver"} \cup Serving

Frame == [kind : {"ack"}, cmd : Cmd, ok : BOOLEAN]
             \cup [kind : {"state"}, locked : BOOLEAN]

Ack(c, ok) == [kind |-> "ack", cmd |-> c, ok |-> ok]
State      == [kind |-> "state", locked |-> locked]

Idle == [at |-> "idle", cmd |-> 0]

\* What nobody wants and only so often happens: a bound of the model.
Fault == faults < MaxFault /\ faults' = faults + 1

Init ==
    /\ ctype   = [c \in Cmd |-> "none"]
    /\ status  = [c \in Cmd |-> "none"]
    /\ day     = [c \in Cmd |-> 0]
    /\ overdue = {}
    /\ shown   = FALSE
    /\ hub     = 0
    /\ handler = [k \in Chan |-> "idle"]
    /\ batch   = [k \in Chan |-> {}]
    /\ mirror  = [k \in Chan |-> "none"]
    /\ task    = [t \in Task |-> Idle]
    /\ faults = 0
    /\ down    = [k \in Chan |-> <<>>]
    /\ up      = [k \in Chan |-> <<>>]
    /\ link    = "off"
    /\ sock    = 0
    /\ locked  = FALSE
    /\ today   = 1
    /\ grants  = [c \in Cmd |-> 0]
    /\ executed = {}
    /\ credited = [c \in Cmd |-> 0]

(***************************************************************************)
(* The Hub.                                                                *)
(***************************************************************************)

\* A send succeeds while the receiver lives: the handler's writer task is
\* aborted (its receiver dropped) when the handler leaves the reader loop.
HubTakes == hub # 0 /\ handler[hub] \in Alive

\* Hub::push hands the frame to the registered connection.  It reaches the
\* agent only if that connection is still the agent's; a half-open socket
\* takes the frame and loses it.
HubPush(c) ==
    down' = IF HubTakes /\ hub = sock
              THEN [down EXCEPT ![hub] = Append(@, c)]
              ELSE down

(***************************************************************************)
(* enqueue_command_delivered: upsert, push, mark `sent`.                   *)
(***************************************************************************)

OpenOf(ty) == {c \in Cmd : ctype[c] = ty /\ status[c] \in Open}

\* The upsert.  The buttons' "already pending" 409 (lock_device,
\* unlock_device) changes nothing; block_member enqueues without asking, so
\* a coalescing upsert is always possible.
Enqueue(t, ty) ==
    /\ task[t] = Idle
    /\ \/ /\ ty \in CoalesceTypes
          /\ \E c \in OpenOf(ty) : task' = [task EXCEPT ![t] = [at |-> "push", cmd |-> c]]
          /\ UNCHANGED dbVars
       \/ /\ ty \in CoalesceTypes => OpenOf(ty) = {}
          /\ \E c \in Cmd :
                /\ ctype[c] = "none"
                /\ \A b \in Cmd : b < c => ctype[b] # "none"
                /\ ctype' = [ctype EXCEPT ![c] = ty]
                /\ status' = [status EXCEPT ![c] = "queued"]
                /\ IF ty = "credit_time"
                     THEN \E d \in Day : /\ today <= d + 1
                                         /\ d <= today + Skew
                                         /\ day' = [day EXCEPT ![c] = d]
                     ELSE day' = day
                /\ task' = [task EXCEPT ![t] = [at |-> "push", cmd |-> c]]
          /\ UNCHANGED <<overdue, shown>>
    /\ UNCHANGED <<hub, handler, batch, mirror, faults, down, up, agentVars>>

\* Slip: a push that waits for the connection to be past its pull.
PushOnceServing(t) ==
    /\ task[t].at = "push"
    /\ task' = [task EXCEPT ![t] = IF HubTakes /\ handler[hub] \in Serving
                                     THEN [@ EXCEPT !.at = "mark"] ELSE Idle]
    /\ IF HubTakes /\ handler[hub] \in Serving THEN HubPush(task[t].cmd) ELSE UNCHANGED down
    /\ UNCHANGED <<dbVars, hub, handler, batch, mirror, faults, up, agentVars>>

Push(t) ==
    /\ task[t].at = "push"
    /\ HubTakes => Len(down[hub]) + Len(up[hub]) < ChannelCap
    /\ HubPush(task[t].cmd)
    /\ task' = [task EXCEPT ![t] = IF HubTakes THEN [@ EXCEPT !.at = "mark"] ELSE Idle]
    /\ UNCHANGED <<dbVars, hub, handler, batch, mirror, faults, up, agentVars>>

MarkSent(t) ==
    /\ task[t].at = "mark"
    /\ LET c == task[t].cmd IN
         IF status[c] = "queued"
           THEN /\ status' = [status EXCEPT ![c] = "sent"]
                /\ overdue' = overdue \ {c}
           ELSE UNCHANGED <<status, overdue>>
    /\ task' = [task EXCEPT ![t] = Idle]
    /\ UNCHANGED <<ctype, day, shown, hub, handler, batch, mirror, faults,
                   down, up, agentVars>>

\* POST /api/commands/:id/cancel.
Cancel(c) ==
    /\ status[c] \in Open
    /\ status' = [status EXCEPT ![c] = "cancelled"]
    /\ UNCHANGED <<ctype, day, overdue, shown, serverVars, down, up, agentVars>>

\* REDELIVERY_GRACE_SECS pass since the row's sent_at.
GraceExpires(c) ==
    /\ status[c] = "sent" /\ c \notin overdue
    /\ overdue' = overdue \cup {c}
    /\ UNCHANGED <<ctype, status, day, shown, serverVars, down, up, agentVars>>

(***************************************************************************)
(* pull_pending_commands: a SELECT, then an UPDATE of what it returned,    *)
(* then the hand-over, for a fresh socket (handle_ws) or a heartbeat.      *)
(***************************************************************************)

\* Slip: the queue before `sent_at`, which never redelivered.
PullableQueued == {c \in Cmd : status[c] = "queued"}

Pullable == {c \in Cmd : \/ status[c] = "queued"
                         \/ status[c] = "sent" /\ c \in overdue}

PullSelect(k) ==
    /\ handler[k] = "select"
    /\ batch' = [batch EXCEPT ![k] = Pullable]
    /\ handler' = [handler EXCEPT ![k] = "update"]
    /\ UNCHANGED <<dbVars, hub, mirror, task, faults, down, up, agentVars>>

\* The UPDATE has no status guard.  It fails as a whole when it would give
\* one coalescing type two open rows (the unique index of migration 0009).
PullConflicts(k) ==
    \E c, b \in Cmd : /\ c # b /\ ctype[c] = ctype[b] /\ ctype[c] \in CoalesceTypes
                      /\ c \in batch[k]
                      /\ b \in batch[k] \/ status[b] \in Open

PullUpdate(k) ==
    /\ handler[k] = "update"
    /\ ~ PullConflicts(k)
    /\ status' = [c \in Cmd |-> IF c \in batch[k] THEN "sent" ELSE status[c]]
    /\ overdue' = overdue \ batch[k]
    /\ handler' = [handler EXCEPT ![k] = "deliver"]
    /\ UNCHANGED <<ctype, day, shown, hub, batch, mirror, task, faults,
                   down, up, agentVars>>

\* handle_ws carries on without the backlog (`if let Ok`); a heartbeat
\* answers 500 and the agent leaves its poll round.
PullFails(k) ==
    /\ handler[k] = "update"
    /\ PullConflicts(k)
    /\ batch' = [batch EXCEPT ![k] = {}]
    /\ handler' = [handler EXCEPT ![k] = IF k = 0 THEN "idle" ELSE "deaf"]
    /\ link' = IF k = 0 /\ link = "poll" THEN "off" ELSE link
    /\ UNCHANGED <<dbVars, hub, mirror, task, faults, down, up,
                   sock, locked, today, grants, executed, credited>>

\* The oldest row of the batch goes out: through the Hub on a socket, in
\* the reply to a heartbeat (lost when the agent stopped waiting for it).
PullDeliver(k) ==
    /\ handler[k] = "deliver"
    /\ \/ \E c \in batch[k] :
             /\ \A b \in batch[k] : c <= b
             /\ IF k = 0
                  THEN down' = IF link = "poll"
                                 THEN [down EXCEPT ![0] = Append(@, c)]
                                 ELSE down
                  ELSE HubPush(c)
             /\ batch' = [batch EXCEPT ![k] = @ \ {c}]
             /\ UNCHANGED handler
       \/ /\ batch[k] = {}
          /\ handler' = [handler EXCEPT ![k] = IF k = 0 THEN "idle" ELSE "serve"]
          /\ UNCHANGED <<batch, down>>
    /\ UNCHANGED <<dbVars, hub, mirror, task, faults, up, agentVars>>

(***************************************************************************)
(* What the agent sends: acks (WebSocket frame or HTTP) and state frames.  *)
(* The two statements of apply_command_ack are two steps.                  *)
(***************************************************************************)

Reads(k) == /\ k = 0 \/ handler[k] \in Serving
            /\ mirror[k] = "none"
            /\ up[k] # <<>>

ApplyCommandAck(k) ==
    /\ Reads(k) /\ Head(up[k]).kind = "ack"
    /\ up' = [up EXCEPT ![k] = Tail(@)]
    /\ LET f == Head(up[k]) IN
         IF status[f.cmd] \in Open
           THEN /\ status' = [status EXCEPT ![f.cmd] = IF f.ok THEN "acked" ELSE "failed"]
                /\ mirror' = IF f.ok /\ ctype[f.cmd] \in {"lock", "unlock"}
                               THEN [mirror EXCEPT ![k] = ctype[f.cmd]]
                               ELSE mirror
           ELSE UNCHANGED <<status, mirror>>
    /\ UNCHANGED <<ctype, day, overdue, shown, hub, handler, batch, task,
                   faults, down, agentVars>>

MirrorLocked(k) ==
    /\ mirror[k] # "none"
    /\ shown' = (mirror[k] = "lock")
    /\ mirror' = [mirror EXCEPT ![k] = "none"]
    /\ UNCHANGED <<ctype, status, day, overdue, hub, handler, batch, task,
                   faults, down, up, agentVars>>

\* Slip: a state frame that can raise the lock and never clear it.
ApplyStateRaises(k) ==
    /\ Reads(k) /\ Head(up[k]).kind = "state"
    /\ shown' = (shown \/ Head(up[k]).locked)
    /\ up' = [up EXCEPT ![k] = Tail(@)]
    /\ UNCHANGED <<ctype, status, day, overdue, serverVars, down, agentVars>>

ApplyState(k) ==
    /\ Reads(k) /\ Head(up[k]).kind = "state"
    /\ shown' = Head(up[k]).locked
    /\ up' = [up EXCEPT ![k] = Tail(@)]
    /\ UNCHANGED <<ctype, status, day, overdue, serverVars, down, agentVars>>

\* A handler leaves its reader loop: the peer closed, 60 s of silence, or
\* its Hub entry was replaced and the writer ended.
LeaveLoop(k) ==
    /\ handler[k] \in Serving /\ mirror[k] = "none"
    /\ handler' = [handler EXCEPT ![k] = "closing"]
    /\ up' = [up EXCEPT ![k] = <<>>]
    /\ UNCHANGED <<dbVars, hub, batch, mirror, task, faults, down, agentVars>>

\* Slip: teardown by device id alone, as before connections had tokens.
UnregisterAnyone(k) ==
    /\ handler[k] = "closing"
    /\ hub' = 0
    /\ handler' = [handler EXCEPT ![k] = "gone"]
    /\ UNCHANGED <<dbVars, batch, mirror, task, faults, down, up, agentVars>>

\* unregister_agent evicts only the connection's own entry.
Unregister(k) ==
    /\ handler[k] = "closing"
    /\ hub' = IF hub = k THEN 0 ELSE hub
    /\ handler' = [handler EXCEPT ![k] = "gone"]
    /\ UNCHANGED <<dbVars, batch, mirror, task, faults, down, up, agentVars>>

\* The server process restarts: everything but the database is gone.
ServerRestart ==
    /\ Fault
    /\ hub' = 0
    /\ handler' = [k \in Chan |-> IF k # 0 /\ handler[k] # "idle" THEN "gone" ELSE "idle"]
    /\ batch' = [k \in Chan |-> {}]
    /\ mirror' = [k \in Chan |-> "none"]
    /\ task' = [t \in Task |-> Idle]
    /\ up' = [k \in Chan |-> <<>>]
    /\ UNCHANGED <<dbVars, down, agentVars>>

(***************************************************************************)
(* The agent (client/src/runner.rs).  Its link is "off" (down, starting,   *)
(* or between attempts), "ws", or "poll".                                  *)
(***************************************************************************)

\* The socket opens; handle_ws registers it (replacing an older entry) and
\* goes on to pull.  The agent's first frame is its state.
Connect(k) ==
    /\ link = "off" /\ "ws" \in Modes
    /\ handler[k] = "idle" /\ \A j \in Conn : j < k => handler[j] # "idle"
    /\ link' = "ws" /\ sock' = k /\ hub' = k
    /\ handler' = [handler EXCEPT ![k] = "select"]
    /\ up' = [up EXCEPT ![k] = <<State>>]
    /\ UNCHANGED <<dbVars, batch, mirror, task, faults, down, locked, today,
                   grants, executed, credited>>

\* No WebSocket: a heartbeat round over HTTP.  The last round's request has
\* ended by the time the next one starts.
StartPoll ==
    /\ link = "off" /\ "poll" \in Modes /\ handler[0] = "idle"
    /\ link' = "poll" /\ sock' = 0
    /\ UNCHANGED <<dbVars, serverVars, down, up, locked, today, grants, executed, credited>>

\* In a poll round the agent awaits the answer to each ack it posts.
AckAnswered == up[0] = <<>> /\ mirror[0] = "none"

Heartbeat ==
    /\ link = "poll" /\ handler[0] = "idle" /\ down[0] = <<>> /\ AckAnswered
    /\ handler' = [handler EXCEPT ![0] = "select"]
    /\ UNCHANGED <<dbVars, hub, batch, mirror, task, faults, down, up, agentVars>>

\* The agent leaves the connection it is on.  What it had not read is
\* gone.  What it sent may still arrive; a handler that leaves its loop
\* first discards it.
LeaveLink ==
    /\ link' = "off" /\ sock' = 0
    /\ down' = [down EXCEPT ![sock] = <<>>]
    /\ UNCHANGED <<dbVars, hub, handler, batch, mirror, task, up, locked, today,
                   grants, executed, credited>>

\* The network, or the agent itself, fails: nobody tells the server.
LinkLost == link # "off" /\ Fault /\ LeaveLink

\* The server closed the socket, or POLL_ROUND is over.
LinkEnds ==
    /\ \/ link = "ws" /\ handler[sock] \in {"closing", "gone"}
       \/ link = "poll" /\ handler[0] = "idle" /\ down[0] = <<>>
    /\ LeaveLink
    /\ UNCHANGED faults

\* handle_command, by type.  The lock intent and the ledger are saved before
\* the ack is returned.
HandleLock(c)   == ctype[c] = "lock" /\ locked' = TRUE /\ UNCHANGED <<grants, credited>>
HandleUnlock(c) == ctype[c] = "unlock" /\ locked' = FALSE /\ UNCHANGED <<grants, credited>>

\* Slip: `d <= today` counts as stale.
HandleCreditTimeStrict(c) ==
    /\ ctype[c] = "credit_time"
    /\ IF today < day[c] /\ grants[c] = 0
         THEN /\ grants' = [grants EXCEPT ![c] = today]
              /\ credited' = [credited EXCEPT ![c] = @ + 1]
         ELSE UNCHANGED <<grants, credited>>
    /\ UNCHANGED locked

\* A grant filed for an earlier day is answered and not credited; one whose
\* id is on record is a redelivery.
HandleCreditTime(c) ==
    /\ ctype[c] = "credit_time"
    /\ IF today <= day[c] /\ grants[c] = 0
         THEN /\ grants' = [grants EXCEPT ![c] = today]
              /\ credited' = [credited EXCEPT ![c] = @ + 1]
         ELSE UNCHANGED <<grants, credited>>
    /\ UNCHANGED locked

HandleOther(c) ==
    /\ ctype[c] \notin {"lock", "unlock", "credit_time"}
    /\ UNCHANGED <<locked, grants, credited>>

HandleCommand(c) ==
    /\ HandleLock(c) \/ HandleUnlock(c) \/ HandleCreditTime(c) \/ HandleOther(c)
    /\ executed' = executed \cup {c}

\* Only apply_policy can fail: it pulls the bundle over HTTP.
Outcomes(c) == IF ctype[c] = "apply_policy" THEN BOOLEAN ELSE {TRUE}

Execute ==
    /\ link # "off" /\ down[sock] # <<>>
    /\ link = "poll" => AckAnswered
    /\ LET c == Head(down[sock]) IN
         /\ HandleCommand(c)
         /\ \E ok \in Outcomes(c) : up' = [up EXCEPT ![sock] = Append(@, Ack(c, ok))]
    /\ down' = [down EXCEPT ![sock] = Tail(@)]
    /\ UNCHANGED <<dbVars, serverVars, link, sock, today>>

\* Over HTTP the ack is posted once and its failure ignored.
ExecuteUnheard ==
    /\ link = "poll" /\ down[0] # <<>> /\ AckAnswered /\ Fault
    /\ HandleCommand(Head(down[0]))
    /\ down' = [down EXCEPT ![0] = Tail(@)]
    /\ UNCHANGED <<dbVars, hub, handler, batch, mirror, task, up, link, sock, today>>

\* state_frame_due: on a change, and every STATE_AT_LEAST (60 s).  Bound
\* of the model: never behind another frame still in flight.
SendState ==
    /\ link = "ws" /\ up[sock] = <<>>
    /\ up' = [up EXCEPT ![sock] = <<State>>]
    /\ UNCHANGED <<dbVars, serverVars, down, agentVars>>

\* A parent at the computer: a code at the lock, or `ost unlock`.
LocalRecovery ==
    /\ locked
    /\ locked' = FALSE
    /\ UNCHANGED <<dbVars, serverVars, down, up, link, sock, today, grants, executed, credited>>

\* Slip: grant ids cleared with the day's counters.
RollDayForgets ==
    /\ today < MaxDay
    /\ today' = today + 1
    /\ grants' = [c \in Cmd |-> 0]
    /\ UNCHANGED <<dbVars, serverVars, down, up, link, sock, locked, executed, credited>>

\* UsageTracker::roll_to: grant ids are kept two days.
RollDay ==
    /\ today < MaxDay
    /\ today' = today + 1
    /\ grants' = [c \in Cmd |-> IF today' - grants[c] <= 2 THEN grants[c] ELSE 0]
    /\ UNCHANGED <<dbVars, serverVars, down, up, link, sock, locked, executed, credited>>

(***************************************************************************)
(* The specification.                                                      *)
(***************************************************************************)

ServerStep ==
    \/ \E t \in Task : \/ \E ty \in Types : Enqueue(t, ty)
                       \/ Push(t)
                       \/ MarkSent(t)
    \/ \E c \in Cmd : Cancel(c) \/ GraceExpires(c)
    \/ \E k \in Chan : \/ PullSelect(k) \/ PullUpdate(k) \/ PullFails(k) \/ PullDeliver(k)
                       \/ ApplyCommandAck(k) \/ MirrorLocked(k) \/ ApplyState(k)
                       \/ LeaveLoop(k) \/ Unregister(k)
    \/ ServerRestart

AgentStep ==
    \/ \E k \in Conn : Connect(k)
    \/ StartPoll \/ Heartbeat \/ LinkLost \/ LinkEnds
    \/ Execute \/ ExecuteUnheard \/ SendState \/ LocalRecovery \/ RollDay

Next == ServerStep \/ AgentStep

Spec == Init /\ [][Next]_vars

\* Server tasks run to their next await, the agent's loops keep turning and
\* time passes.  Nobody has to press a button, cancel, lose a link or see
\* midnight.  Heartbeat is fair in the strong sense: a poll round sends one
\* before it looks at the clock.
Fairness ==
    /\ \A t \in Task : WF_vars(Push(t)) /\ WF_vars(MarkSent(t))
    /\ \A c \in Cmd : WF_vars(GraceExpires(c))
    /\ \A k \in Chan : /\ WF_vars(PullSelect(k)) /\ WF_vars(PullUpdate(k)) /\ WF_vars(PullFails(k))
                       /\ WF_vars(PullDeliver(k))
                       /\ WF_vars(ApplyCommandAck(k)) /\ WF_vars(ApplyState(k))
                       /\ WF_vars(MirrorLocked(k)) /\ WF_vars(Unregister(k))
                       /\ WF_vars(sock # k /\ LeaveLoop(k))
    /\ WF_vars((\E k \in Conn : Connect(k)) \/ StartPoll)
    /\ SF_vars(Heartbeat) /\ WF_vars(LinkEnds) /\ WF_vars(Execute) /\ WF_vars(SendState)

FairSpec == Spec /\ Fairness

(***************************************************************************)
(* Properties.                                                             *)
(***************************************************************************)

DbTypes ==
    /\ ctype \in [Cmd -> Types \cup {"none"}]
    /\ status \in [Cmd -> {"none"} \cup Open \cup Settled]
    /\ day \in [Cmd -> 0..MaxDay]
    /\ overdue \subseteq Cmd
    /\ shown \in BOOLEAN

ServerTypes ==
    /\ hub \in Chan
    /\ handler \in [Chan -> {"idle", "closing", "gone"} \cup Alive]
    /\ batch \in [Chan -> SUBSET Cmd]
    /\ mirror \in [Chan -> {"none", "lock", "unlock"}]
    /\ task \in [Task -> {Idle} \cup [at : {"push", "mark"}, cmd : Cmd]]
    /\ faults \in 0..MaxFault

FrameTypes ==
    /\ down \in [Chan -> Seq(Cmd)]
    /\ up \in [Chan -> Seq(Frame)]

AgentTypes ==
    /\ link \in {"off", "ws", "poll"}
    /\ sock \in Chan
    /\ locked \in BOOLEAN
    /\ today \in 1..MaxDay
    /\ grants \in [Cmd -> 0..MaxDay]
    /\ executed \subseteq Cmd
    /\ credited \in [Cmd -> Nat]

\* Every row, handler, frame and file is one the code knows; a status or a
\* type outside the CHECK constraints would fail the statement.
TypeOK == DbTypes /\ ServerTypes /\ FrameTypes /\ AgentTypes

\* However often a grant is delivered - after a lost ack, a crash, a server
\* restart, a reopened row, a day's roll - the agent credits it once
\* (docs/AGENT.md: "Idempotent by command id ... never credited twice").
CreditedOnce == \A c \in Cmd : credited[c] <= 1

\* An acked grant was counted on the device, unless its day was over when
\* it arrived: the console's "done" is never a lost or a skipped credit.
AckedGrantCounted ==
    \A c \in Cmd : ctype[c] = "credit_time" /\ status[c] = "acked"
                     => credited[c] = 1 \/ day[c] < today

\* A command settles as acked or failed only if the agent carried it out,
\* whatever was lost, replayed or answered on an older connection.
SettledWasExecuted ==
    \A c \in Cmd : status[c] \in {"acked", "failed"} => c \in executed

\* The agent's live, served socket is the registered one: the teardown of
\* an older connection never evicts it.
LiveSocketIsRegistered ==
    link = "ws" /\ handler[sock] \in Alive => hub = sock

\* Nothing waits in the queue while the computer is connected, on the
\* connection the server pushes to or on the one the agent listens on, which
\* the teardown of an older one must not cut off: once it handed over its
\* backlog, a queued row has an API request still at work on it (and about
\* to push it).
NoStrandedQueued ==
    \A k \in Conn : handler[k] = "serve" /\ (hub = k \/ (link = "ws" /\ sock = k)) =>
        \A c \in Cmd : status[c] = "queued" => \E t \in Task : task[t].cmd = c

\* A settled command is reopened by nothing but a pull that read it while
\* it was open.  In particular the `sent` mark of a push whose ack was
\* faster does not.
ReopenedByPullOnly ==
    [][\A c \in Cmd : status[c] \in Settled /\ status'[c] \notin Settled =>
          \E k \in Chan : handler[k] = "update" /\ c \in batch[k]]_vars

\* With the agent back on polling, no command stays open: redelivery makes up
\* for lost replies, lost acks, a server restart and what a connection lost.
EventuallySettled ==
    \A c \in Cmd : <>[](link # "ws") => []<>(status[c] \notin Open)

\* Once the connection stays up, the console ends up showing what the
\* computer is, whatever acks and mirror writes were lost or overtaken.
ConsoleTruthful == <>[](link = "ws") => <>[](shown = locked)

\* The queue implements its promise (QueuePromise): rows are what was asked
\* for, their status is the answer, and `grants` lets nothing be counted twice.
Abstract == INSTANCE QueuePromise WITH
    wanted  <- {c \in Cmd : ctype[c] # "none"},
    carried <- executed,
    counted <- credited,
    answer  <- [c \in Cmd |-> IF status[c] \in Open THEN "open" ELSE status[c]]
QueuePromised == Abstract!Promise

(***************************************************************************)
(* What comments say of the queue and TLC refutes.                         *)
(***************************************************************************)

\* "A `sent` command is cancelled best-effort: if the agent already executed
\* it the ack still lands and overwrites the status" (commands.rs, cancel).
AckOverwritesCancel ==
    [][\A k \in Chan :
          /\ up[k] # <<>> /\ up'[k] = Tail(up[k]) /\ <<handler, faults>>' = <<handler, faults>>
          /\ Head(up[k]).kind = "ack" /\ status[Head(up[k]).cmd] = "cancelled"
          => status'[Head(up[k]).cmd] \in {"acked", "failed"}]_vars

\* "an acked `lock` command is never redelivered" (runner.rs,
\* device_locked_path): no row goes back from acked to a state a pull sends.
AckedStaysAcked ==
    [][\A c \in Cmd : status[c] = "acked" => status'[c] = "acked"]_vars
=============================================================================
