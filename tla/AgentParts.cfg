\* The trusted clock, the rules by it, the website rules and the VPN, one at a
\* time.
SPECIFICATION AgentSpec
CHECK_DEADLOCK FALSE
CONSTANTS
  Horizon = 3
  DayLength = 2
  Skews <- MCSkews
  Minutes = 1
  DayMinutes = 4
  WeekDays = 3
  Thresholds = {1, 3}
  Grace = 2
  Policies <- MCPolicies
  Gifts = {1}
  MaxSnoozes = 1
  LastTick = 9
  Changes = 2
  NetChanges = 4
  RelaxAfter = 3
  ProbeEvery = 2
  wgUp = wgUp
  wgDead = wgDead
  ovpnUp = ovpnUp
  NoConfig = NoConfig
  VpnKinds = {"wireguard", "openvpn"}
  KindOf <- MCKindOf
  Starting = {wgUp, wgDead, ovpnUp}
  Working = {wgUp, ovpnUp}
  FirstConfig <- MCFirstConfig
  VpnRequests = 2
  VpnFaults = 1
INVARIANTS TrustHolds VerdictTrue HeldBack TunnelKept
PROPERTIES SavedTimeHolds StopsAreAnnounced NamesComeBack DegradedIsSaid ConsoleSettles
