---------------------------- MODULE MCAgentParts ----------------------------
(* Parts of the agent for TLC: one behaviour is a behaviour of one of them,  *)
(* the clock, the rules, the website rules or the VPN, the others standing   *)
(* still.  For the rules, days of four minutes and weeks of three days; for  *)
(* the clock, days of two.                                                   *)
EXTENDS DayClock, ScreenRules, NetworkRules, VpnProfiles

CONSTANTS wgUp, wgDead, ovpnUp   \* VPN configs

VARIABLE part
agentVars == <<part, clockVars, ruleVars, networkVars, vpnVars>>

\* How far a clock is off.
MCSkews == {-2, 0, 2}

Win(s, e, ds) == [start |-> s, end |-> e, days |-> ds]
Rules(limit, schedule, bedtime) ==
  [enabled |-> TRUE, limit |-> limit, schedule |-> schedule, bedtime |-> bedtime]

\* A limit, with a whole day allowed and a bedtime that means nothing; hours
\* across midnight, and an empty window; a limit, hours and a bedtime across
\* midnight; rules that are switched off.
MCPolicies == {
  Rules(2, {Win(0, 0, {1})}, {Win(0, 0, {})}),
  Rules(0, {Win(3, 1, {0}), Win(2, 2, {1})}, {}),
  Rules(1, {Win(1, 0, {0, 1})}, {Win(3, 1, {})}),
  [Rules(1, {Win(1, 2, {0})}, {}) EXCEPT !.enabled = FALSE]}

\* Two VPN profiles of two kinds; one can be edited into a config whose tunnel
\* comes up and carries nothing.
MCKindOf == [c \in {wgUp, wgDead, ovpnUp} |-> IF c = ovpnUp THEN "openvpn" ELSE "wireguard"]
MCFirstConfig == <<wgUp, ovpnUp>>

AgentInit ==
  /\ part \in {"clock", "rules", "network", "vpn"}
  /\ ClockInit /\ RulesInit /\ NetworkInit /\ VpnInit
  /\ part # "rules" => policy.limit = 2
AgentNext ==
  /\ part' = part
  /\ \/ part = "clock" /\ ClockNext /\ UNCHANGED <<ruleVars, networkVars, vpnVars>>
     \/ part = "rules" /\ RulesNext /\ UNCHANGED <<clockVars, networkVars, vpnVars>>
     \/ part = "network" /\ NetworkNext /\ UNCHANGED <<clockVars, ruleVars, vpnVars>>
     \/ part = "vpn" /\ VpnNext /\ UNCHANGED <<clockVars, ruleVars, networkVars>>

\* The VPN's fair actions are disabled where it stands still; the tick of the
\* website rules, which always counts, is fair in its own part only.
AgentFair ==
  /\ WF_networkVars(part = "network" /\ Tick) /\ WF_networkVars(GraceEnds)
  /\ VpnFair
AgentSpec == AgentInit /\ [][AgentNext]_agentVars /\ AgentFair
=============================================================================
