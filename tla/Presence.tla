------------------------------ MODULE Presence ------------------------------
(***************************************************************************)
(* Whether the console shows a computer online (server/src/agent.rs        *)
(* handle_ws, heartbeat; state.rs Hub; main.rs offline-sweep).  Each of    *)
(* its sockets has a handler of its own on the server, which registers it, *)
(* stamps the row with what it hears, and after it is gone takes it out of *)
(* the hub and looks whether another one came; a socket can be half open,  *)
(* so that two are served at a time.  A computer that is removed must hear *)
(* of it, which it does with its next call.                                *)
(***************************************************************************)
EXTENDS Naturals

CONSTANTS Sockets,        \* how many sockets the agent opens (a bound)
          PresenceFaults  \* sleeps, lost writes, late frames, crashes (a bound)

Socket == 1..Sockets

VARIABLES
  deviceRow,  \* the device's row: in the table, status, heard within 90 s
  inHub,      \* the socket the hub has for it, or 0
  served,     \* socket -> its handler's step, "none" before and "closed" after
  shut,       \* the sockets whose close reached the server
  holds,      \* the socket the agent has open, or 0
  opened,     \* how many it opened
  awake,
  slipped,    \* history: registered after the removal cleared the hub
  hitches

serverShows == <<deviceRow, inHub, served>>
agentHas == <<holds, opened, awake, shut>>
presenceVars == <<serverShows, agentHas, slipped, hitches>>

Hitch == hitches < PresenceFaults /\ hitches' = hitches + 1

\* Heard from over HTTP, and without a socket yet.
PresenceInit ==
  /\ deviceRow = [there |-> TRUE, online |-> TRUE, recent |-> TRUE, cleared |-> FALSE]
  /\ inHub = 0 /\ served = [c \in Socket |-> "none"] /\ shut = {}
  /\ holds = 0 /\ opened = 0 /\ awake = TRUE /\ slipped = FALSE /\ hitches = 0

\* No UPDATE brings a deleted row back.
Show(online) == deviceRow' = [deviceRow EXCEPT !.online = online /\ deviceRow.there]

\* Slip: only the time is stamped.
StampSeen == deviceRow' = [deviceRow EXCEPT !.recent = @ \/ deviceRow.there]

\* What hearing from a computer does to its row.
Stamp ==
  deviceRow' = [deviceRow EXCEPT !.online = deviceRow.there, !.recent = @ \/ deviceRow.there]

-----------------------------------------------------------------------------
(* The agent: a socket, or heartbeats until it gets one.                   *)

\* AgentAuth: the token is looked up before the upgrade.
OpenSocket ==
  /\ awake /\ holds = 0 /\ opened < Sockets /\ deviceRow.there
  /\ opened' = opened + 1 /\ holds' = opened + 1
  /\ served' = [served EXCEPT ![opened + 1] = "upgrading"]
  /\ UNCHANGED <<deviceRow, inHub, awake, shut, slipped, hitches>>

BeatOverHttp ==
  /\ awake /\ holds = 0 /\ deviceRow.there
  /\ Stamp
  /\ UNCHANGED <<inHub, served, agentHas, slipped, hitches>>

\* The socket's end is seen, as the server let go of it.
Notice ==
  /\ holds # 0 /\ served[holds] = "closed"
  /\ holds' = 0
  /\ UNCHANGED <<serverShows, opened, awake, shut, slipped, hitches>>

\* The agent restarts or changes networks; the close may never arrive.
LetGo ==
  /\ holds # 0 /\ Hitch
  /\ holds' = 0 /\ shut' \in {shut, shut \cup {holds}}
  /\ UNCHANGED <<serverShows, opened, awake, slipped>>
Sleep ==
  /\ awake /\ Hitch
  /\ awake' = FALSE /\ holds' = 0
  /\ shut' \in {shut, shut \cup ({holds} \ {0})}
  /\ UNCHANGED <<serverShows, opened, slipped>>
Wake ==
  /\ ~awake /\ awake' = TRUE
  /\ UNCHANGED <<serverShows, holds, opened, shut, slipped, hitches>>

-----------------------------------------------------------------------------
(* handle_ws, of one socket.                                               *)

Step(c, pc, next) ==
  /\ served[c] = pc /\ served' = [served EXCEPT ![c] = next]
  /\ UNCHANGED agentHas

Register(c) ==
  /\ Step(c, "upgrading", "registered")
  /\ inHub' = c /\ slipped' = (slipped \/ deviceRow.cleared)
  /\ UNCHANGED <<deviceRow, hitches>>

\* A write's failure is ignored.
MarkOnline(c) ==
  /\ Step(c, "registered", "live")
  /\ \/ Stamp /\ UNCHANGED hitches
     \/ Hitch /\ UNCHANGED deviceRow
  /\ UNCHANGED <<inHub, slipped>>

\* A frame, at least the pong to every ping; one may still lie in the socket
\* of an agent that let go of it.
Frame(c) ==
  /\ served[c] = "live"
  /\ \/ holds = c /\ UNCHANGED hitches
     \/ holds # c /\ Hitch
  /\ Stamp
  /\ UNCHANGED <<inHub, served, agentHas, slipped>>

\* The reader ends: a close, silence for too long, or its sender is out of the
\* hub, with which its writer ends.
Ends(c) ==
  /\ c \in shut \/ holds # c \/ inHub # c
  /\ Step(c, "live", "ended")
  /\ UNCHANGED <<deviceRow, inHub, slipped, hitches>>

\* unregister_agent: its own entry only.
Unregister(c) ==
  /\ Step(c, "ended", "unregistered")
  /\ inHub' = IF inHub = c THEN 0 ELSE inHub
  /\ UNCHANGED <<deviceRow, slipped, hitches>>
LookForAnother(c) ==
  /\ Step(c, "unregistered", IF inHub = 0 THEN "alone" ELSE "closed")
  /\ UNCHANGED <<deviceRow, inHub, slipped, hitches>>
MarkOffline(c) ==
  /\ Step(c, "alone", "closed")
  /\ \/ Show(FALSE) /\ UNCHANGED hitches
     \/ Hitch /\ UNCHANGED deviceRow
  /\ UNCHANGED <<inHub, slipped>>

HandleWs(c) ==
  \/ Register(c) \/ MarkOnline(c) \/ Ends(c) \/ Unregister(c) \/ LookForAnother(c)
  \/ MarkOffline(c)

\* The server restarts: no handler is left.
HubIsLost ==
  /\ Hitch
  /\ inHub' = 0
  /\ served' = [c \in Socket |-> IF served[c] = "none" THEN "none" ELSE "closed"]
  /\ UNCHANGED <<deviceRow, agentHas, slipped>>

-----------------------------------------------------------------------------
\* 90 seconds without a word, of which a computer in touch has none.
Quiet ==
  /\ deviceRow.recent /\ ~awake /\ deviceRow' = [deviceRow EXCEPT !.recent = FALSE]
  /\ UNCHANGED <<inHub, served, agentHas, slipped, hitches>>

\* The offline sweep.
Sweep ==
  /\ deviceRow.there /\ deviceRow.online /\ ~deviceRow.recent
  /\ Show(FALSE)
  /\ UNCHANGED <<inHub, served, agentHas, slipped, hitches>>

\* delete_device, and after its commit force_unregister.
DeleteDevice ==
  /\ deviceRow.there /\ deviceRow' = [deviceRow EXCEPT !.there = FALSE, !.online = FALSE]
  /\ UNCHANGED <<inHub, served, agentHas, slipped, hitches>>
ForceUnregister ==
  /\ ~deviceRow.there /\ ~deviceRow.cleared
  /\ deviceRow' = [deviceRow EXCEPT !.cleared = TRUE] /\ inHub' = 0
  /\ UNCHANGED <<served, agentHas, slipped, hitches>>

PresenceNext ==
  \/ OpenSocket \/ BeatOverHttp \/ Notice \/ LetGo \/ Sleep \/ Wake
  \/ \E c \in Socket : HandleWs(c) \/ Frame(c)
  \/ HubIsLost \/ Quiet \/ Sweep \/ DeleteDevice \/ ForceUnregister

\* Handlers, the sweep and the agent go on; a computer in touch is heard.
Heard == BeatOverHttp \/ \E c \in Socket : holds = c /\ Frame(c)
PresenceFair ==
  /\ WF_presenceVars(\E c \in Socket : HandleWs(c)) /\ WF_presenceVars(Heard)
  /\ WF_presenceVars(Notice) /\ WF_presenceVars(Quiet \/ Sweep \/ ForceUnregister)
PresenceSpec == PresenceInit /\ [][PresenceNext]_presenceVars /\ PresenceFair

-----------------------------------------------------------------------------
\* The console comes to show a computer as it is, online when it is in touch
\* and offline when it is not, whatever the handlers of its old sockets still
\* write; and a computer that is removed does not keep a socket, on which it
\* would hear nothing of it.  Except one: a socket whose token was looked up
\* before the removal and that is registered after force_unregister is served
\* as ever.
ShownAsItIs ==
  <>[](IF ~deviceRow.there THEN holds = 0 \/ slipped
       ELSE deviceRow.online <=> awake)

\* "Removing a computer frees it" (devices.rs:543): the claim.
RemovalIsHeard == <>[](~deviceRow.there => holds = 0)

\* "offline, immediately — but only if nothing else has re-registered this
\* device in the meantime" (agent.rs:1075): the claim, of a teardown.
OfflineOnlyIfAlone ==
  [][\A c \in Socket :
       MarkOffline(c) /\ deviceRow'.online # deviceRow.online => inHub = 0]_presenceVars
=============================================================================
