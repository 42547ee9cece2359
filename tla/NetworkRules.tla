---------------------------- MODULE NetworkRules ----------------------------
(***************************************************************************)
(* The website rules of one computer (client/src/enforce/mod.rs, dns.rs,   *)
(* and what runner.rs does with them on every tick): a local resolver that *)
(* answers blocked names, resolv.conf pinned to it, and a firewall that    *)
(* forces all name lookups through it.  Each can go away under the agent,  *)
(* and a lookup that is forced where nothing answers takes the computer    *)
(* offline, so the agent holds the force back, takes its pin off, relaxes  *)
(* on a network that cannot reach the family resolver, and re-applies      *)
(* everything while it has no contact.                                     *)
(*                                                                         *)
(* The world changes things between the agent's steps, at most NetChanges  *)
(* times; each of the agent's ticks is one step, as it awaits nothing that *)
(* another task of the agent could change.                                 *)
(***************************************************************************)
EXTENDS Naturals, FiniteSets

CONSTANTS NetChanges,   \* what the world, the parent and crashes do
          RelaxAfter,   \* ticks without the family resolver before relaxing
          ProbeEvery    \* ticks between two block self-checks

VARIABLES
  host,          \* resolver, resolv.conf, ruleset served, table; standing gaps
  upstream,      \* the family resolver answers on this network
  writable,      \* the ruleset's file can be written
  netRules,      \* what the rules held ask: names blocked, lookups forced
  focus,         \* it is focus hours for someone who blocks sites for themselves
  focusApplied,  \* {focus when last applied}, {}: try again (focus_applied)
  relaxed,       \* dns_relaxed
  unreach,       \* dns_unreach_ticks
  misses,        \* selftest_misses
  saidSo,        \* sinkhole_ineffective is reported (once a day)
  probeIn,       \* attrib_ticks, counting down
  contact,       \* "live", "grace": none for a while, "offline": beyond grace
  moved,         \* who acted last
  moves

networkVars == <<host, upstream, writable, netRules, focus, focusApplied, relaxed, unreach,
                 misses, saidSo, probeIn, contact, moved, moves>>

-----------------------------------------------------------------------------
(* Pure parts: what an apply and a re-assertion make of a host.  A resolv.conf *)
(* is our "pin", the computer's "own" (which the agent can rewrite), or       *)
(* "foreign": a link or a file the agent's sandbox cannot write.  A resolver  *)
(* is "up", "down" (a restart brings it back) or "broken".                    *)

blocks == netRules.blocks \/ focus

\* The family resolver is forced where anything is blocked, unless relaxed;
\* a profile's own force_dns stays.
ForceDns(r, f, lax) == r.force \/ ((r.blocks \/ f) /\ ~lax)

Gaps(up, pinned, written) ==
  (IF up THEN {} ELSE {"no_local_resolver"})
    \cup (IF up /\ ~pinned THEN {"resolv_conf_not_pinned"} ELSE {})
    \cup (IF written THEN {} ELSE {"rules_not_written"})

breaksForcedDns == {"no_local_resolver", "resolv_conf_not_pinned"}

\* resolv.conf without our pin: what was there before it.
Unpin(h) == [h EXCEPT !.resolv = IF @ = "pin" THEN "own" ELSE @]

\* dns::apply, then the firewall, whose force is held back by a gap that
\* leaves no resolver to force lookups to.
ApplyNetwork(h, blocked, force) ==
  LET up == h.resolver # "broken"
      pinned == up /\ h.resolv # "foreign"
      gaps == Gaps(up, pinned, writable)
  IN [(IF pinned THEN [h EXCEPT !.resolv = "pin"] ELSE Unpin(h)) EXCEPT
        !.resolver = IF up THEN "up" ELSE @,
        !.served = IF writable THEN blocked ELSE @,
        !.table = IF force /\ gaps \cap breaksForcedDns = {} THEN "forced" ELSE "plain",
        !.gaps = gaps,
        !.drifted = FALSE]

\* Slip: a re-assertion that does not look whether the resolver runs.
ReassertBlindly(h) ==
  IF h.resolv = "own" THEN [h EXCEPT !.resolv = "pin", !.drifted = FALSE] ELSE h

\* dns::reassert: only ever toward a resolver that is running.
Reassert(h) ==
  IF h.resolver # "up" THEN Unpin(h)
  ELSE IF h.resolv = "own" THEN [h EXCEPT !.resolv = "pin", !.drifted = FALSE]
  ELSE h

\* What a re-assertion sees that the tick answers with an apply: the table is
\* gone, or the resolver stopped under the pin.
Flushed(h) == h.table = "none"
ResolverWent(h) == h.resolver # "up" /\ h.resolv = "pin"

\* Whether a program on this computer can look a name up, and whether a
\* blocked one is answered as blocked.
Resolves(h) == IF h.resolv = "pin" THEN h.resolver = "up" /\ upstream
                                   ELSE h.table # "forced"
AnswersBlocked(h) == h.resolv = "pin" /\ h.resolver = "up"

-----------------------------------------------------------------------------
NetworkInit ==
  /\ host = [resolver |-> "up", resolv |-> "pin", served |-> TRUE, table |-> "forced",
             gaps |-> {}, drifted |-> FALSE]
  /\ netRules = [blocks |-> TRUE, force |-> FALSE]
  /\ upstream = TRUE /\ writable = TRUE /\ focus = FALSE /\ focusApplied = {FALSE}
  /\ relaxed = FALSE /\ unreach = 0 /\ misses = 0 /\ saidSo = FALSE
  /\ probeIn = ProbeEvery - 1 /\ contact = "live" /\ moved = "agent" /\ moves = 0

\* update_dns_reachability: relaxed when the family resolver has not answered
\* for a while, restored the moment it does or nothing is blocked.
lax == /\ blocks /\ ~upstream
       /\ relaxed \/ unreach + 1 >= RelaxAfter
UpdateDnsReachability ==
  /\ relaxed' = lax
  /\ unreach' = IF blocks /\ ~upstream THEN IF unreach < RelaxAfter THEN unreach + 1 ELSE unreach
                ELSE IF blocks \/ relaxed THEN 0 ELSE unreach

\* Slip: a miss is forgotten by the next self-check.
BlockSelftestOnce(h) ==
  LET missed == h.gaps = {} /\ blocks /\ ~AnswersBlocked(h)
  IN misses' = 0 /\ saidSo' = (saidSo \/ (missed /\ misses + 1 >= 2))

\* block_selftest, on the host as the tick leaves it; a gap that stands is
\* known already.  Said after two misses in a row.
BlockSelftest(h) ==
  LET missed == h.gaps = {} /\ blocks /\ ~AnswersBlocked(h)
  IN /\ misses' = IF ~missed THEN 0 ELSE IF misses < 2 THEN misses + 1 ELSE misses
     /\ saidSo' = (saidSo \/ (missed /\ misses + 1 >= 2))

\* Slip: what is not flushed is taken to stand.
reappliesFlushed == contact = "offline" /\ Flushed(host)

\* Offline beyond the grace, everything is re-applied on every tick.
offlineReapplies == contact = "offline"

\* enforcement_tick, as far as the network goes.
Tick ==
  LET Applied(h) == ApplyNetwork(h, blocks, ForceDns(netRules, focus, lax))
      turned == focusApplied # {focus}
      first == IF lax # relaxed \/ turned THEN Applied(host) ELSE host
      asserted == Reassert(first)
      second == IF Flushed(first) \/ ResolverWent(first) THEN Applied(asserted) ELSE asserted
      last == IF offlineReapplies THEN Applied(second) ELSE second
  IN /\ UpdateDnsReachability
     /\ focusApplied' = IF turned /\ "rules_not_written" \in first.gaps THEN {} ELSE {focus}
     /\ host' = last
     /\ IF probeIn = 0 THEN BlockSelftest(last) ELSE UNCHANGED <<misses, saidSo>>
     /\ probeIn' = IF probeIn = 0 THEN ProbeEvery - 1 ELSE probeIn - 1
     /\ moved' = "agent"
     /\ UNCHANGED <<upstream, writable, netRules, focus, contact, moves>>

\* apply_bundle: new rules are applied at once.
Pull(r) ==
  /\ moves < NetChanges /\ contact = "live" /\ r # netRules
  /\ netRules' = r /\ focusApplied' = {focus}
  /\ host' = ApplyNetwork(host, r.blocks \/ focus, ForceDns(r, focus, relaxed))
  /\ moved' = "agent" /\ moves' = moves + 1
  /\ UNCHANGED <<upstream, writable, focus, relaxed, unreach, misses, saidSo, probeIn, contact>>

\* bootstrap: the agent starts again, with the rules the server answers or
\* those it kept.  What it reported today it remembers.
Restart ==
  /\ moves < NetChanges
  /\ relaxed' = FALSE /\ unreach' = 0 /\ misses' = 0 /\ probeIn' = ProbeEvery - 1
  /\ focusApplied' = {focus}
  /\ host' = ApplyNetwork(host, blocks, ForceDns(netRules, focus, FALSE))
  /\ contact' \in IF Resolves(host) THEN {"live", "grace"} ELSE {"grace"}
  /\ moved' = "agent" /\ moves' = moves + 1
  /\ UNCHANGED <<upstream, writable, netRules, focus, saidSo>>

\* The server's name must be looked up to reach it again; a connection that
\* stands needs no name.
Reconnect ==
  /\ contact # "live" /\ Resolves(host) /\ contact' = "live"
  /\ UNCHANGED <<host, upstream, writable, netRules, focus, focusApplied, relaxed, unreach,
                 misses, saidSo, probeIn, moved, moves>>
GraceEnds ==
  /\ contact = "grace" /\ contact' = "offline"
  /\ UNCHANGED <<host, upstream, writable, netRules, focus, focusApplied, relaxed, unreach,
                 misses, saidSo, probeIn, moved, moves>>

\* What the world does: dnsmasq stops, breaks or is mended; something rewrites
\* resolv.conf; the table is flushed; networks, disks, hours and connections
\* come and go.
WorldHost ==
  \/ \E s \in {"up", "down", "broken"} \ {host.resolver} : host' = [host EXCEPT !.resolver = s]
  \/ \E c \in {"own", "foreign"} \ {host.resolv} :
       host' = [host EXCEPT !.resolv = c, !.drifted = TRUE]
  \/ host.table # "none" /\ host' = [host EXCEPT !.table = "none"]
World ==
  /\ moves < NetChanges /\ moves' = moves + 1 /\ moved' = "world"
  /\ \/ WorldHost /\ UNCHANGED <<upstream, writable, focus, contact>>
     \/ upstream' = ~upstream /\ UNCHANGED <<host, writable, focus, contact>>
     \/ writable' = ~writable /\ UNCHANGED <<host, upstream, focus, contact>>
     \/ focus' = ~focus /\ UNCHANGED <<host, upstream, writable, contact>>
     \/ contact = "live" /\ contact' = "grace" /\ UNCHANGED <<host, upstream, writable, focus>>
  /\ UNCHANGED <<netRules, focusApplied, relaxed, unreach, misses, saidSo, probeIn>>

NetworkNext ==
  \/ Tick \/ Restart \/ Reconnect \/ GraceEnds \/ World
  \/ \E r \in [blocks : BOOLEAN, force : BOOLEAN] : Pull(r)

\* The agent ticks, and a grace period runs out, unless contact comes back.
NetworkFair == WF_networkVars(Tick) /\ WF_networkVars(GraceEnds)
NetworkSpec == NetworkInit /\ [][NetworkNext]_networkVars /\ NetworkFair

-----------------------------------------------------------------------------
\* Whenever the agent has acted, a pin points at a resolver that runs, and
\* lookups are forced to a resolver only where programs ask it: "without one
\* the agent never pins, takes an earlier pin off" (docs/TAMPER.md:46).  But a
\* resolv.conf changed since the last apply is not looked at for the force.
HeldBack ==
  moved = "agent" =>
    /\ host.resolv = "pin" => host.resolver = "up"
    /\ host.table = "forced" => host.resolv = "pin" \/ host.drifted

\* A computer that cannot look names up can again, without anyone's help:
\* the tick takes the pin off or brings the resolver back, and without contact
\* the grace ends and everything is applied anew.  Two states last.  With the
\* family resolver out of reach the pin and the resolver that forwards to
\* nothing else stay, relaxed or not; and while a connection stands, lookups
\* stay forced past a resolv.conf that was replaced.
CaptivePortal == ~upstream /\ host.resolv = "pin"
HeldOpen == contact = "live" /\ host.table = "forced" /\ host.drifted
NamesComeBack == []<>(Resolves(host) \/ CaptivePortal \/ HeldOpen)

\* A computer whose blocked names are not answered as blocked does not look
\* like one that filters (dns.rs:16): it comes to filter, or a gap stands, or
\* the self-check says so.
Filters == AnswersBlocked(host) /\ host.served
DegradedIsSaid == (blocks /\ ~Filters) ~> (~blocks \/ Filters \/ host.gaps # {} \/ saidSo)

=============================================================================
