----------------------------- MODULE VpnProfiles -----------------------------
(***************************************************************************)
(* A computer's VPN profiles: the parents' requests on the server          *)
(* (server/src/vpn.rs), each a few statements that others come between,    *)
(* and the agent that brings the active profile up, verifies it, reports,  *)
(* and puts back what was there when it fails (client/src/enforce/vpn.rs   *)
(* reconcile, called from enforce/mod.rs apply_network_policy).            *)
(*                                                                         *)
(* A config is of one kind, in Starting when its unit starts with it, in   *)
(* Working when its tunnel also carries traffic.  The pull of the rules    *)
(* and the way of a report are one step each here: PolicySync and EventLog *)
(* take them apart.                                                        *)
(***************************************************************************)
EXTENDS Naturals, Sequences, FiniteSets

CONSTANTS VpnKinds, KindOf,   \* config -> its kind
          Starting, Working,
          FirstConfig,        \* profile -> the config it is stored with
          NoConfig,
          VpnRequests,        \* the parents' requests (a bound)
          VpnFaults           \* deaths, outages, failed writes (a bound)

VpnConfigs == DOMAIN KindOf
Profiles == DOMAIN FirstConfig
VpnSlots == {1, 2}   \* requests handled at a time
OnTheWay == 2        \* verdicts on their way at a time

ASSUME VpnAssumption ==
  /\ KindOf \in [VpnConfigs -> VpnKinds] /\ NoConfig \notin VpnConfigs
  /\ Working \subseteq Starting /\ Starting \subseteq VpnConfigs
  /\ FirstConfig \in [Profiles -> VpnConfigs]

VARIABLES
  profiles,  \* profile -> its row, for the profiles there are
  stamp,     \* devices.vpn_updated_at: how often it was bumped
  handlers,  \* the requests being handled
  asked,     \* how many were made
  unheard,    \* history: a row changed, and no stamp since
  pulled,    \* Agent.vpn: profile, config and status; the version it came with
  cached,    \* the same in the cached bundle
  apply,     \* the apply under way, and what the last test that failed found
  onDisk,    \* kind -> the config in our file
  tunnel,   \* kind -> the config its unit runs
  accepted,  \* the config whose endpoint the firewall accepts
  verdicts,  \* reports on their way to the server
  reachable, \* the VPN's other end can be reached
  proven,    \* history: the configs whose test was passed
  unsafe,    \* history: the configs whose test the agent died in
  lostFile,  \* history: a file could not be written
  faults

serverSide == <<profiles, stamp, handlers, asked, unheard>>
hostSide == <<onDisk, tunnel, accepted, proven, unsafe, lostFile>>
deviceSide == <<pulled, cached, apply>>
vpnVars == <<serverSide, hostSide, deviceSide, verdicts, reachable, faults>>

NoHandler == [op |-> "none", p |-> 0, config |-> NoConfig, changed |-> FALSE, was |-> FALSE,
              pc |-> "free"]
NoProfile == [p |-> 0, config |-> NoConfig, status |-> "none", ver |-> 0]
NoTunnel == [k \in VpnKinds |-> NoConfig]

\* pc: "boot" until the agent's first apply, "idle", "swapped": the other
\* kind's tunnel is gone, "verifying", "clearing": the failed one is gone.
NoApply == [pc |-> "idle", failed |-> FALSE, before |-> NoTunnel, backup |-> NoConfig, keep |-> FALSE]

VpnInit ==
  /\ profiles = [p \in Profiles |->
                   [config |-> FirstConfig[p], status |-> "untested", active |-> FALSE]]
  /\ stamp = 0 /\ handlers = [s \in VpnSlots |-> NoHandler] /\ asked = 0 /\ unheard = FALSE
  /\ pulled = NoProfile /\ cached = NoProfile /\ apply = NoApply
  /\ onDisk = NoTunnel /\ tunnel = NoTunnel /\ accepted = NoConfig
  /\ verdicts = <<>> /\ reachable = TRUE
  /\ proven = {} /\ unsafe = {} /\ lostFile = FALSE /\ faults = 0

-----------------------------------------------------------------------------
(* The server *)

VpnFault == faults < VpnFaults /\ faults' = faults + 1

Exists(p) == p \in DOMAIN profiles
Put(p, row) == profiles' = [profiles EXCEPT ![p] = row]

\* get_profile: what every request reads first.  An edit is told the whole new
\* config; a rename is an edit that carries the one it read.
AskVpn(s, op, p, c) ==
  /\ asked < VpnRequests /\ handlers[s].pc = "free"
  /\ s = 2 => handlers[1].pc # "free"
  /\ Exists(p)
  /\ IF op = "edit" THEN KindOf[c] = KindOf[profiles[p].config] ELSE c = profiles[p].config
  /\ asked' = asked + 1
  /\ handlers' = [handlers EXCEPT ![s] =
       [op |-> op, p |-> p, config |-> c, changed |-> c # profiles[p].config,
        was |-> profiles[p].active, pc |-> "read"]]
  /\ UNCHANGED <<profiles, stamp, unheard, hostSide, deviceSide, verdicts, reachable, faults>>

\* Whether the request goes on to tell the computer: an edit or a removal only
\* when the row it read was active.
Tells(h) == CASE h.op = "edit" -> h.changed /\ h.was
              [] h.op = "remove" -> h.was
              [] OTHER -> TRUE

\* The request's statement, on rows that may have changed since it read one.
Written(h) ==
  CASE h.op = "edit" ->
         [p \in DOMAIN profiles |->
            IF p = h.p THEN [profiles[p] EXCEPT
                               !.config = h.config,
                               !.status = IF h.changed /\ ~h.was THEN "untested" ELSE @]
                       ELSE profiles[p]]
    [] h.op = "activate" ->
         [p \in DOMAIN profiles |->
            IF p = h.p THEN [profiles[p] EXCEPT !.active = TRUE, !.status = "testing"]
                       ELSE [profiles[p] EXCEPT !.active = FALSE]]
    [] h.op = "deactivate" ->
         [p \in DOMAIN profiles |->
            IF p = h.p THEN [profiles[p] EXCEPT !.active = FALSE, !.status = "untested"]
                       ELSE profiles[p]]
    [] h.op = "remove" -> [p \in DOMAIN profiles \ {h.p} |-> profiles[p]]

WriteRow(s) ==
  LET h == handlers[s]
  IN /\ h.pc = "read"
     /\ profiles' = Written(h)
     /\ unheard' = (unheard \/ \E p \in DOMAIN profiles :
                                /\ profiles[p].active
                                /\ p \in DOMAIN profiles' => profiles'[p] # profiles[p])
     /\ handlers' = [handlers EXCEPT ![s] =
          IF ~Tells(h) THEN NoHandler
          ELSE [h EXCEPT !.pc = IF h.op = "edit" THEN "edited" ELSE "written"]]
     /\ UNCHANGED <<stamp, asked, hostSide, deviceSide, verdicts, reachable, faults>>

\* An edit's second statement: back through the test.
SetTesting(s) ==
  LET h == handlers[s]
  IN /\ h.pc = "edited"
     /\ IF Exists(h.p) THEN Put(h.p, [profiles[h.p] EXCEPT !.status = "testing"])
                       ELSE UNCHANGED profiles
     /\ handlers' = [handlers EXCEPT ![s].pc = "written"]
     /\ UNCHANGED <<stamp, asked, unheard, hostSide, deviceSide, verdicts, reachable, faults>>

\* propagate: the stamp in the rules' version, and a command that says so.
Propagate(s) ==
  /\ handlers[s].pc = "written"
  /\ stamp' = stamp + 1 /\ unheard' = FALSE
  /\ handlers' = [handlers EXCEPT ![s] = NoHandler]
  /\ UNCHANGED <<profiles, asked, hostSide, deviceSide, verdicts, reachable, faults>>

\* The server dies in the middle of a request.
HandlerDies(s) ==
  /\ handlers[s].pc # "free" /\ VpnFault
  /\ handlers' = [handlers EXCEPT ![s] = NoHandler]
  /\ unheard' = (unheard \/ handlers[s].pc # "read")
  /\ UNCHANGED <<profiles, stamp, asked, hostSide, deviceSide, verdicts, reachable>>

\* apply_agent_report goes by the profile alone, whatever became of it since.
ReportArrives ==
  /\ verdicts # <<>>
  /\ LET r == Head(verdicts)
     IN IF Exists(r.p) THEN Put(r.p, [profiles[r.p] EXCEPT !.status = r.verdict])
                       ELSE UNCHANGED profiles
  /\ verdicts' = Tail(verdicts)
  /\ UNCHANGED <<stamp, handlers, asked, unheard, hostSide, deviceSide, reachable, faults>>

\* The server dies between the commit of a batch and what its events ask for.
ReportForgotten ==
  /\ verdicts # <<>> /\ VpnFault
  /\ verdicts' = Tail(verdicts) /\ unheard' = TRUE
  /\ UNCHANGED <<profiles, stamp, handlers, asked, hostSide, deviceSide, reachable>>

\* active_for_agent: the one active profile, and the version it is pulled with.
Served ==
  IF \E p \in DOMAIN profiles : profiles[p].active
  THEN LET p == CHOOSE q \in DOMAIN profiles : profiles[q].active
       IN [p |-> p, config |-> profiles[p].config, status |-> profiles[p].status, ver |-> stamp]
  ELSE [NoProfile EXCEPT !.ver = stamp]

-----------------------------------------------------------------------------
(* The agent *)

Files == {k \in VpnKinds : onDisk[k] # NoConfig}

\* teardown of the kinds ks: without a file of ours there is nothing to stop.
Teardown(ks) ==
  LET Off(f) == [k \in VpnKinds |-> IF k \in ks \cap Files THEN NoConfig ELSE f[k]]
  IN onDisk' = Off(onDisk) /\ tunnel' = Off(tunnel)

\* write_secret, enable, restart.
Install(c) ==
  /\ onDisk' = [onDisk EXCEPT ![KindOf[c]] = c]
  /\ tunnel' = [tunnel EXCEPT ![KindOf[c]] = IF c \in Starting THEN c ELSE NoConfig]

\* vpn::plan: the endpoint of the profile to come, or of what is on disk.
PlanFor(v) == IF v.p # 0 THEN v.config
              ELSE IF Files = {} THEN NoConfig ELSE onDisk[CHOOSE k \in Files : TRUE]

\* Slip: the test that is asked for is not looked at.
RunsAlready(v) == /\ onDisk[KindOf[v.config]] = v.config
                  /\ tunnel[KindOf[v.config]] # NoConfig

\* Nothing to do: the same config, running, and no test asked for.
InForce(v) == /\ onDisk[KindOf[v.config]] = v.config
              /\ tunnel[KindOf[v.config]] # NoConfig
              /\ v.status # "testing"

\* Slip: a switch to the other kind keeps nothing to go back to.
BackupOfKind(v) == onDisk[KindOf[v.config]]

\* What a failed test puts back: our file of the kind, else of the other one.
Backup(v) ==
  LET k == KindOf[v.config]
  IN IF onDisk[k] # NoConfig THEN onDisk[k]
     ELSE IF Files # {} THEN onDisk[CHOOSE o \in Files : TRUE] ELSE NoConfig

\* The firewall, then reconcile up to its first write: without a profile both
\* tunnels go, for a new one the other kind's goes.  keep: apply_bundle caches
\* the bundle when it is through.
Begin(v, keep) ==
  /\ Len(verdicts) < OnTheWay
  /\ pulled' = v /\ accepted' = PlanFor(v)
  /\ IF v.p # 0 /\ ~InForce(v)
     THEN /\ Teardown(VpnKinds \ {KindOf[v.config]})
          /\ apply' = [pc |-> "swapped", failed |-> FALSE, before |-> tunnel,
                       backup |-> Backup(v), keep |-> keep]
          /\ UNCHANGED cached
     ELSE /\ IF v.p = 0 THEN Teardown(VpnKinds) ELSE UNCHANGED <<onDisk, tunnel>>
          /\ apply' = NoApply
          /\ cached' = IF keep THEN v ELSE cached
  /\ UNCHANGED <<serverSide, proven, unsafe, lostFile, verdicts, reachable, faults>>

\* The apply is through: its verdict is reported, the bundle kept.
Conclude(verdict) ==
  /\ apply' = [NoApply EXCEPT !.failed = verdict = "failed",
                              !.before = IF verdict = "failed" THEN apply.before ELSE @]
  /\ cached' = IF apply.keep THEN pulled ELSE cached
  /\ verdicts' = Append(verdicts, [p |-> pulled.p, verdict |-> verdict])
  /\ UNCHANGED <<serverSide, pulled, accepted, reachable>>

BringUp ==
  /\ apply.pc = "swapped"
  /\ Install(pulled.config)
  /\ apply' = [apply EXCEPT !.pc = "verifying"]
  /\ UNCHANGED <<serverSide, pulled, cached, accepted, proven, unsafe, lostFile, verdicts,
                 reachable, faults>>

\* The old file is removed and the new one cannot be written: reconcile gives
\* up, and nothing is rolled back.
WriteFails ==
  /\ apply.pc = "swapped" /\ VpnFault
  /\ onDisk' = [onDisk EXCEPT ![KindOf[pulled.config]] = NoConfig]
  /\ lostFile' = TRUE
  /\ Conclude("failed")
  /\ UNCHANGED <<tunnel, proven, unsafe>>

\* verify_tunnel: the unit runs and its tunnel carries traffic.
Carries(c) == c \in Working /\ reachable

Verified ==
  /\ apply.pc = "verifying" /\ Carries(pulled.config)
  /\ proven' = proven \cup {pulled.config}
  /\ Conclude("active")
  /\ UNCHANGED <<onDisk, tunnel, unsafe, lostFile, faults>>

VerifyFails ==
  /\ apply.pc = "verifying" /\ ~Carries(pulled.config)
  /\ Teardown({KindOf[pulled.config]})
  /\ apply' = [apply EXCEPT !.pc = "clearing"]
  /\ UNCHANGED <<serverSide, pulled, cached, accepted, proven, unsafe, lostFile, verdicts,
                 reachable, faults>>

RollBack ==
  /\ apply.pc = "clearing"
  /\ Conclude("failed")
  /\ \/ /\ IF apply.backup = NoConfig THEN UNCHANGED <<onDisk, tunnel>> ELSE Install(apply.backup)
        /\ UNCHANGED <<lostFile, faults>>
     \/ VpnFault /\ lostFile' = TRUE /\ UNCHANGED <<onDisk, tunnel>>
  /\ UNCHANGED <<proven, unsafe>>

\* bootstrap's first apply, of what the server serves or what was kept; a pull
\* of the rules; the tick's own applies (drift, focus hours, no contact).
Boot == apply.pc = "boot" /\ \E v \in {Served, cached} : Begin(v, TRUE)
PullProfile == apply.pc = "idle" /\ Begin(Served, TRUE)
Reapply == apply.pc = "idle" /\ pulled.p # 0 /\ Begin(pulled, FALSE)

\* The agent dies, also in the middle of an apply, with the verdicts it had
\* not sent.
VpnAgentDies ==
  /\ VpnFault
  /\ unsafe' = unsafe \cup (IF apply.pc = "verifying" THEN {pulled.config} ELSE {})
  /\ apply' = [NoApply EXCEPT !.pc = "boot"] /\ verdicts' = <<>>
  /\ UNCHANGED <<serverSide, onDisk, tunnel, accepted, proven, lostFile, pulled, cached, reachable>>

\* The other end of the VPN, or this computer's network, goes or comes back.
Outage ==
  /\ VpnFault /\ reachable' = ~reachable
  /\ UNCHANGED <<serverSide, hostSide, deviceSide, verdicts>>

HandlerStep(s) == WriteRow(s) \/ SetTesting(s) \/ Propagate(s)
ApplyStep == Boot \/ BringUp \/ Verified \/ VerifyFails \/ RollBack
NewProfile == pulled.ver # stamp /\ PullProfile

VpnNext ==
  \/ \E s \in VpnSlots :
       \/ \E p \in Profiles, op \in {"edit", "activate", "deactivate", "remove"},
             c \in VpnConfigs : AskVpn(s, op, p, c)
       \/ HandlerStep(s) \/ HandlerDies(s)
  \/ ReportArrives \/ ReportForgotten
  \/ PullProfile \/ Reapply \/ ApplyStep \/ WriteFails
  \/ VpnAgentDies \/ Outage

\* Requests run on, reports arrive, an apply ends.  A new version is told to
\* the agent's one loop, which takes a command up between two ticks (SF: the
\* tick's own applies come in between).
VpnFair ==
  /\ \A s \in VpnSlots : WF_vpnVars(HandlerStep(s))
  /\ WF_vpnVars(ReportArrives) /\ WF_vpnVars(ApplyStep) /\ SF_vpnVars(NewProfile)
VpnSpec == VpnInit /\ [][VpnNext]_vpnVars /\ VpnFair

-----------------------------------------------------------------------------
\* Between two applies there is one tunnel at most, of a config that passed its
\* test: a "broken upload can never silently strand the device behind a dead
\* tunnel" (enforce/vpn.rs:218).  After a failed test what ran before runs
\* again.  And the firewall lets a tunnel through to its endpoint, "so the
\* parent's own tunnel survives" its drops (docs/AGENT.md:379).  Excepted are a
\* config whose test the agent died in (the next apply takes it for what was
\* there before), a file that could not be written, which is not rolled back,
\* and the firewall after a failed test: the tunnel is put back, its accepts
\* are not.
TunnelKept ==
  apply.pc = "idle" =>
    /\ Cardinality(Files) <= 1
    /\ \A k \in Files : onDisk[k] \in proven \cup unsafe
    /\ lostFile \/ \A k \in VpnKinds : tunnel[k] \in {onDisk[k], NoConfig}
    /\ apply.failed => lostFile \/ tunnel = apply.before
    /\ \A k \in Files : onDisk[k] = accepted \/ apply.failed \/ lostFile

\* "so the parent's own tunnel survives": the claim, which a failed test breaks.
TunnelLetThrough ==
  apply.pc = "idle" /\ ~lostFile => \A k \in Files : onDisk[k] = accepted

\* The console comes to tell the truth, and the computer to do as it says: the
\* active profile is not for ever being tested, one called active runs as it
\* is stored, and without one no tunnel is left, unless an active row was
\* changed with nobody told.
Settled ==
  LET active == {p \in DOMAIN profiles : profiles[p].active}
  IN IF active = {} THEN Files = {}
     ELSE \A p \in active :
            /\ profiles[p].status # "testing"
            /\ profiles[p].status = "active" =>
                 tunnel[KindOf[profiles[p].config]] = profiles[p].config
ConsoleSettles == []<>(Settled \/ unheard)
=============================================================================
