# openscreentime in TLA+

A TLA+ development kept beside openscreentime: models of its server and agent,
TLC configurations that check them on small instances, and TLAPS proofs of what
matters most for every instance. The code under `src/` is the reference; where a
comment or a document says something else, the model follows the code and the
disagreement is listed under *Findings*.

## The system

One server (`src/server`, Axum over PostgreSQL) holds a household: its people,
their rules, its computers and their history. Each Linux computer runs a root
agent (`src/client`) that counts the time each login is in use, evaluates the
rules (`src/policy`), freezes sessions and shows the lock, and keeps doing so
offline. Agents dial out: a WebSocket, or HTTP polling when it fails. The web
console (`src/web`) and a Telegram companion use the server's API.

### Inventory

| Component | State | Operations | What makes it correct |
|---|---|---|---|
| Command queue and agent bus (`agent.rs`, `state.rs`, `commands.rs`; `runner.rs`) | `commands` rows, the Hub's map of live sockets, `devices.locked`; the agent's lock intent and grant ids on disk | enqueue (coalescing), push, mark, pull, ack, cancel, connect, tear down, execute | nothing queued is forgotten, nothing is credited twice, a settled row says what happened, the console's `locked` follows the computer |
| The person's day (`ledger.rs`, `machine.rs`, `devices.rs`; `screentime.rs`, `runner.rs`) | `screen_time_ledger`, `retired_usage`, `retired_devices`; the agent's usage ledger and the last answer | report, answer, grant, enroll and fold, remove and keep, roll the day, retire | each minute counted once and kept, on every computer, over removal and re-enrollment |
| Trusted clock (`clock.rs`) | anchor, boot id, high-water mark | observe, observe_server | a hand-set clock buys nothing, a wrong clock is corrected |
| Earn requests (`earn.rs`, `members.rs`; `runner.rs`) | `earn_requests`, the ledger's earned column; the agent's cached asks | file, approve, deny, grant, settle | the first answer stands, an approval is credited once, nobody waits for an answer that was given |
| Login codes (`login_code.rs`; `logincode.rs`) | `login_requests`, the code in a command's payload | start, send, check, scrub, alert | a code opens one session, tries and sends are limited, codes are wiped |
| Unlock code (`parentcode.rs`, `pam.rs`, `unlock.rs`) | replay counter, spent recovery codes, lockout, in one file | verify | single use, lockout |
| Policy distribution (`profiles.rs`; `policy.rs`, `runner.rs`) | profile versions; the cached bundle | save, apply_policy, pull | the newest rules end up in force |
| Rules and warnings (`policy/src/rules.rs`, `warn.rs`; `runner.rs`) | what was announced, countdowns | evaluate, tick, warn | the verdict is what the rules mean; nobody is stopped without a word |
| Lock and freeze (`lock/`, `freeze.rs`, `runner.rs`) | frozen sessions, the lock on its VT | freeze, thaw, show, recover | nobody stays frozen without a lock, a parent's way back always works |
| Presence (`agent.rs`, `state.rs`, `main.rs`) | `devices.status`, `last_seen`, the Hub's entry | connect, hear, tear down, sweep, remove | a computer is shown as it is; one that is removed hears of it |
| Retirement (`retire.rs`, `runner.rs`, `service.rs`) | the marker, units, binary, config; frozen people, rules, cached bundle | hear 410, confirm, free, tear down, remove, install again | a removed computer comes to be free and without the agent, any other enforces |
| Events and alerts (`events.rs`, `alerts.rs`; `runner.rs`) | the agent's buffer, `events`, cursors | buffer, flush, push, alert | no event twice, alerts in order |
| Usage attribution (`usage.rs`; `attrib.rs`, `runner.rs`) | the query log and its offset, slices in memory, `usage_slices` | tail, truncate, drain, post, requeue, sum up | each lookup is counted, and not twice |
| Agent update (`update.rs`, the units in `client/systemd`) | binary, backup, marker, heartbeat file | fetch, back up, swap, restart, settle, roll back | a computer ends up on a build that works |
| Website rules (`enforce/mod.rs`, `dns.rs`, `firewall.rs`, `tamper.rs`; `runner.rs`) | resolver, resolv.conf, ruleset, firewall table; relaxed, gaps, self-check | apply, re-assert, relax, self-check, re-apply offline | lookups are never forced where nothing answers; a degraded filter does not look like one that filters |
| VPN profiles (`server/src/vpn.rs`; `enforce/vpn.rs`) | profile rows, their stamp; our config files, units, the firewall's accepts | store, edit, activate, remove; plan, bring up, verify, roll back, report | a dead tunnel does not stay, the console tells the truth |
| People, sign-in, desktop, web, deploy | - | - | see `components` in PROJECT.json for what is left and what is out of reach |

They interact through the database (a computer's logins, ledger and commands
hang off its `devices` row), through the queue (a grant, a pause, a sign-in code
and a change of rules are all commands) and through the heartbeat (usage up,
the person's day elsewhere down).

What is hard in this code: SQL statements of concurrent requests interleave, as
most handlers run several without a transaction; the agent and the network fail
between any two steps and the queue redelivers; an old connection is torn down
while its successor is already served; the same computer can have two records
for a moment; and days differ between a computer and the server.

## Plan

Done, in this order:

1. **CommandQueue** - the queue with both delivery paths; proofs.
2. **PersonDay** - the ledger, kept usage and enrollment over several computers;
   the queue appears as its promise (a grant may arrive again, late or never);
   proofs.
3. **EarnRequests** - requests, decisions and grants; the steps that fail half way;
   proofs.
4. **QueuePromise** - that promise as an abstract specification; CommandQueue
   implements it by a refinement mapping (TLC, and proved).
5. **ScreenLock** - freeze, lock screen, crashes, restarts; **DeviceLocks** - the
   locks on the whole computer; proofs.
6. **DayClock** - the trusted clock; proofs. **ScreenRules** - the rules, the
   warnings and the tick that goes by them.
7. **EventLog**, **PolicySync** - proofs; **AgentUpdate** - proofs.
8. **NetworkRules**, **VpnProfiles** - proofs.
9. **Retirement**, **UsageSlices** - proofs; **Presence**, whose row may be wrong for
   a while at every step, so that what it promises is liveness only.

Left:

10. Modules not begun: the unlock code's and the login code's own state (a code
   used once, tries limited), apps in the usage slices.

Which module proves what:

| Module | About |
|---|---|
| `CommandQueueProofs` | CommandQueue: types, safety, the refinement of QueuePromise |
| `PersonDayProofs` | PersonDay: types, safety, sums over sets |
| `ScreenRulesProofs` | ScreenRules: the calendar, the verdict, the announcements |
| `EarnRequestsProofs` | EarnRequests |
| `ScreenLockProofs` | ScreenLock |
| `AgentProofs` | DeviceLocks, DayClock, NetworkRules, VpnProfiles |
| `DeliveryProofs` | PolicySync, EventLog |
| `PartsProofs` | AgentUpdate, Retirement, UsageSlices |

## CommandQueue

`CommandQueue.tla` models one computer's queue. Server side: the `commands`
rows (`ctype`, `status`, `day`, and `overdue` for rows whose redelivery grace
has passed), `devices.locked` (`shown`), the Hub entry (`hub`), one handler per
connection (`handler`, `batch`, `mirror`) and the API requests in progress
(`task`). Agent side: the connection (`link`, `sock`), the lock intent
(`locked`), the accounting day (`today`) and the grant ids (`grants`).
`executed` and `credited` are history. Each awaited SQL statement and Hub call
is one action, so that handlers interleave where the server's tasks can.

| Actions | Code |
|---|---|
| `Enqueue`, `Push`, `MarkSent` | `enqueue_command_delivered`: upsert, `Hub::push`, the `sent` mark |
| `PullSelect`, `PullUpdate`, `PullFails`, `PullDeliver` | `pull_pending_commands`, from `handle_ws` (channel k > 0) and the heartbeat (channel 0) |
| `ApplyCommandAck`, `MirrorLocked`, `ApplyState` | the two statements of `apply_command_ack`; `apply_state` |
| `Connect`, `LeaveLoop`, `Unregister`, `ServerRestart` | `handle_ws` from registration to teardown |
| `Cancel`, `GraceExpires` | the cancel endpoint; `REDELIVERY_GRACE_SECS` |
| `StartPoll`, `Heartbeat`, `LinkLost`, `LinkEnds`, `Execute`, `ExecuteUnheard`, `SendState`, `LocalRecovery`, `RollDay` | `run_ws`, `run_poll`, `handle_command`, `state_frame_due`, `local_recovery`, `UsageTracker::roll_to` |

### Runs

| Run | Question |
|---|---|
| `queue_ws` | two overlapping connections and API requests: is nothing left in the queue of a connected computer, on the socket the Hub pushes to or on the one the agent listens on? |
| `queue_grants` | a grant over both paths, lost acks, restarts, four days: credited at most once, never reported as done without being counted, answered for in the end, and is the queue's promise kept? |
| `queue_truth` | does the console's `locked` converge to the computer's? |

Bounds. Two commands and two connections are enough for one command to overtake
another and for an old handler to meet its successor; four days for a grant id
to be forgotten (`roll_to` keeps two) and come back; `MaxFault` counts server
restarts, lost links and lost acks, one or two of which are needed for any
redelivery. `ChannelCap` bounds frames in flight; `Skew` is how many days the
server's idea of the computer's day may be ahead of the computer's.

Fairness (`FairSpec`). Server tasks run to their next await, the agent's loops
turn and the grace period passes: weak fairness on each. A poll round always
sends a heartbeat before it looks at the clock, so `Heartbeat` is strongly fair.
Nothing is assumed of people, of faults, of cancels or of midnight.

### Proofs

`CommandQueueProofs.tla` proves `TypeCorrect`, `Spec => []TypeOK` (no run repeats it), for any
constants that satisfy `BoundsAssumption`: one lemma per action group, and one
lemma per part of the type invariant saying it survives a step that leaves its
variables alone.

It then proves the safety properties of the runs. None of them is inductive,
so `IInv` adds what they rest on: every frame, batch and task names an existing row (`Known`, `RowsKnown`); every ack in flight stands for an
execution, and one for a grant for a credit or a past day (`AnswersEarned`);
a credit stays on record as long as its day has not passed (`GrantsKept`) -
`roll_to` may forget an id only when the row's day is over, which needs
`Skew <= 2`; a queued row of a served connection is in the hands of an API
request (`InHand`), which needs the rows a handler is about to pull or deliver
(`BacklogTaken`). `Invariance` is `Spec => []IInv`; `GrantsCreditedOnce`,
`AckedGrantsCounted`, `SettledWereExecuted`, `LiveSocketsRegistered` and
`NothingStranded` follow from it, and `OnlyPullsReopen` from one look at each
action. `CreditedOnce`, `SettledWasExecuted` and `ReopenedByPullOnly` have no run of their
own: what they say to other components is in the promise below, which `queue_grants`
checks. `LiveSocketIsRegistered` is what `NoStrandedQueued` says of the agent's end.

Liveness (`EventuallySettled`, `ConsoleTruthful`) is model-checked only.

### The queue's promise

`QueuePromise.tla` is what everyone who queues a command may count on, and all
that PersonDay and EarnRequests take of the queue: a command may be carried out
late, again or never, a grant is counted at most once, a command is answered for
only after it was carried out, and an answer may be taken back by a delivery that
was on its way. CommandQueue implements it (`Abstract`, an INSTANCE with the rows
as `wanted`, `executed` as `carried`, `credited` as `counted` and the statuses as
`answer`): `queue_grants` checks `QueuePromised` on every step, and
`CommandQueueProofs!PromiseKept` proves it, `Spec => QueuePromised`, for any
constants. Initial states map to initial states; then each action of the queue is
shown to be a step of the promise or a stutter, most of them by leaving the mapped
variables alone. The ones that do not need `IInv`: an ack is an answer because what
it stands for was executed (`AnswersEarned`), a repeated `credit_time` stutters because
its id is still on record (`GrantsKept`), and a pull that reopens a settled row only
takes back an answer.

## PersonDay

`PersonDay.tla` models one person's screen-time day on several computers, each
with one login of theirs. A minute of use and a grant are units. Server side, a
record (a `devices` row) goes through stages: `spent` (its enroll token is),
`folding` (take_over has read the machine's other records), `ready` (the reply
may be lost), `live`, `closing` (a removal has read its ledger), `gone`. `book`
is its rows of `screen_time_ledger`, `kept` its rows of `retired_usage`, `heir`
its tombstone's `merged_into`, `snap` what the transaction in progress has read.
A computer has `cred` (the record its token was given for), the day it counts,
its own use and grants (`here`, `got`, `applied`) and the server's last answer
(`far`). `rep` and `ans` are a report in progress and its answer. `spent` is the
use there really was; it, `heard`, `removed`, `unfolded` and `wiped` are history.

| Actions | Code |
|---|---|
| `Use`, `RollDay`, `SendReport`, `Deliver` | `add_active`, `roll_to`, `usage_snapshot`, `apply_person_days`/`set_elsewhere` |
| `SendReport`, `FileUsage`, `Answer` | authentication (`AgentAuth`), the three statements of `upsert_usage`, `elsewhere` |
| `EnrollSpend`, `FoldRead`, `Fold`, `FoldFails`, `Reply`, `EnrollRetry` | `enroll`, `take_over` (its reads, then its commit), the best-effort branch, the reply, the retry window |
| `RemoveRead`, `Remove` | `delete_device`: `keep_usage`, then the deletion and the commit |
| `Retire` | `retirement_confirmed`, `retire.rs` |
| `Credit`, `Enqueue`, `CreditTime` | `credit_time`: the ledger, then the command; the agent's dispatch |

`take_over` and `delete_device` lock the `devices` rows of the records they are
about, so they exclude one another; a report does not lock those rows and goes
on between their reads and their commits. Enrollments of one machine do not
overlap: one person runs the installer there. Every computer says which machine
it is. The queue is only its promise here: a command may come late, again or never.

### Runs

| Run | Question |
|---|---|
| `day_records` | one computer enrolled up to three times, with removals, retries, a fault: are its minutes and a grant on record once, and kept, and does its agent never hear 410 unless it was removed? |
| `day_shared` | two computers over midnight: does each come to count the whole day, removed computers included? |

Bounds. Three records make a chain of two folds, or a fold of a record whose
removal left kept usage; one unit of use is enough for a report to overtake
another transaction's read; two days are a midnight; one report at a time per computer
is what the agent sends. `DayKept` names the two windows in which a report can
be lost (a removal, or a fold, that has read and not committed) and says there
is no third. `CountedOnce` and `DayKept` leave out failed folds: there two records do
count one day's minutes, until the next enrollment. `EarnedOnce` has no exception: a
grant's minutes are moved, never copied, even then.

Fairness (`FairSpec`, used by `day_shared`). The server finishes a report it has
begun, an enrollment's fold and a removal; the agent acts on 410 and carries out
a queued grant: weak fairness. The agent's report timer comes round for ever,
though enrollments and answers keep disabling a single report: strong fairness
on `SendReport`. Nobody has to use, enroll or remove a computer.

### Proofs

`PersonDayProofs.tla` proves `TypeCorrect`, its type invariant, then
`CountedOnce` (`DayCountedOnce`) and `HeardUntilRemoved`
(`TokensHeardUntilRemoved`) for any number of computers, records, days, reports
and faults. `CountedOnce` is not inductive: a report or a fold in progress could
carry minutes to a second record. `Inv` adds that live usage is under records
that exist and kept usage under those gone (`Placed`); nothing on record, read
or reported is more than was used (`Bounded`, `Honest`); a removal and a fold of
one machine never meet (`Reading`); tokens, tombstones and reports name records
of their own machine (`Pointers`); a record in use is the only one of its
machine with anything on it (`Apart`); and a record being enrolled is either
unheard of - no token, tombstone or report names it - or its machine's only one
(`Untouched`), which is what keeps a retried enrollment from splitting a day.

`EarnedOnce` (`GrantsOnRecordOnce`) and `DayKept` (`DayNeverShrinks`) are about sums
over all records. The module therefore proves what a sum over a finite set
does: taking one term out, two functions that agree, one below another, one that moves an
amount from one term to another. The sums are recursive functions on sets, and the
induction is over a set of sizes (`Induction`), because the library's theorems that take
an operator cannot be instantiated. `EarnedOnce` is then the invariant `Given`: what
is on record in all is at most one unit per grant of its day (`Credited`), which a fold
keeps because what it puts on the new record is still on one of those it empties
(`ReadStillThere`). `DayKept` is one look at each
action, of which only a report, a fold and a removal touch the sum: a fold takes the larger
of what two records say of a day, and `Apart` of the invariant above says they never both
say something.

Only `SeesTheDay`, which is liveness, is model-checked only.

## EarnRequests

`EarnRequests.tla` models how a child asks for more time and how parents
answer, for the logins of one person (`Linked`), any number of which may have
an ask of their own, and logins that are nobody's. Server side: the rows of
`earn_requests` (`status`, `whose`, `filed`), the grants in each login's ledger
rows (`ledger`: a set of decisions stands for the sum of their minutes), the
command each decision queues (`queue`), and the calls in progress: asks (`ask`)
and decisions (`at` is the statement to come, with `kind`, `req`, `to`, `day`).
Agent side: the cached ask's date (`requested`), the ask being posted
(`posting`), the grants counted for each day (`counted`). `local` is the
computers' date, `today` PostgreSQL's. `answeredBy` is history.

| Actions | Code |
|---|---|
| `AskAtComputer`, `Reply`, `GiveUp` | `auto_request_earn`: the cache, the post, its answer, the ten-second timeout of `client.rs` |
| `AskOnPage`, `Look`, `Insert` | `members::ask` and `earn::create_request`: today's pending row, or a new one |
| `Decide` | `decide`'s guarded `UPDATE` |
| `Give` | `credit_time` up to the ledger |
| `Credit`, `Queue`, `Settle`, `Fail` | what both do next: `credit_ledger`, `enqueue_command`, `settle_pending_asks`; the exits between them |
| `Deliver`, `HandleCreditTime`, `HandleDenyEarn`, `RestartAgent` | `handle_command`, from a queue that keeps CommandQueue's promise; the cache is lost in a restart |
| `Midnight`, `ServerMidnight` | the two dates, which change at different moments |

No handler here runs in a transaction, so each statement is a step, and one
that stops is not taken up again. The agent answers commands and posts asks from
one loop: none is handled while a post is out. Both ways to ask in this code file
the task id `ask`, so one cached date per computer is the whole cache. The
agent compares a grant's day with its accounting day and an ask's with the wall
clock's; both are `local`.

### Runs

| Run | Question |
|---|---|
| `earn_answers` | two asks and two answers on two computers over a midnight, with everything that may stop or be lost: is an answer granted once, and who can be left waiting? |

Bounds. Two rows, asks and decisions let an answer settle what another decision
is about, or what was asked after it; two computers let it be asked elsewhere;
two days are the one midnight a grant or an ask can straddle. All safety: the
run needs no fairness, and the system may stop when its calls are used up.

`OwnAnswerIsHeard` names the two ways a computer is left waiting with nothing to
wait for: a handler that stopped after the request was decided, and a
request answered by a grant other than its own decision. There is no third; in
particular none by a command that arrives while the ask is being posted.

### Proofs

`EarnRequestsProofs.tla` proves the type invariant, every property of `earn_answers`,
that minutes a computer counts are on record under their day (`CountedOnRecord`) and that
the first answer stands (`FirstAnswerStands`), which no run repeats, for any number of logins,
rows, asks, decisions and days. `Inv` strengthens them with: a decided
request is the one its decision's `UPDATE` chose, and two decisions never chose
one request (`Chosen`); what a decision has done at each of its stages - on the
ledger under its own login and day once past the credit, in the queue once past
that (`Recorded`); who may have answered a request (`Answers`); an agent posts
at most the ask that names it (`Posted`); and, for each stage of an ask
and for the cache, that there is a pending row, an answer still coming or one of
the two exceptions (`Awaited`). `EarnInvariance` is `Spec => []Inv`.

## ScreenLock

`ScreenLock.tla` models stopping people on a shared computer. `seat` is the
machine's seat together with the `LockScreen` that drives it: the VT on screen,
whether VT switching is held, the compositor of the graphical lock and how far it
has got, the text lock, the lock shown (for whom, which of the two, where to go
back to). `session`, `stopped` and `barred` are the machine's and the rules' side;
`frozen`, `counting`, `spent`, `locked`, `window` the agent's memory, `saved` its
files. `pc`, `todo`, `who`, `from` say where the running handler is: handlers hold
one mutex, but one that waits for the graphical lock lets the machine go on, and
the agent can die between any two lasting effects.

| Definitions | Code |
|---|---|
| `SwitchTo`, `StartGui`, `StopGui`, `StartText`, `StopText`, `LoginScreen`, `SetSwitchLock` | `impl Host for SystemHost`, each of which may fail, and `set_switch_lock` |
| `Present`, `WaitGui`, `WaitLate`, `CheckUpgrade`, `KeepAlive`, `BringToFront`, `Reassert`, `Retarget`, `Release`, `HandToLoginScreen`, `SwitchUser` | the methods of `LockScreen` |
| `Tick`, `LoopUser`, `Lockout`, `StopUser`, `Freeze`, `Reconcile`, `Second`, `Undo`, `Save` | `enforcement_tick`, `screen_time_lockout`, `stop_user`, `reconcile_lock`, `persist_freeze_state`, in the order they are called |
| `SeatChanged`, `GuiUp`, `Code`, `SnoozeNow`, `AskSwitchUser`, `CmdLock`, `CmdUnlock`, `CmdCredit` | `on_seat_changed`, `on_lock_event`, `on_lock_request`, `handle_command` |
| `Boot`, `Crash`, `PowerCycle`, `OstTearDown`, `OstMark` | `run` with its adoption of what is frozen and shown; the agent's death; `ost unlock` |

| Run | Question |
|---|---|
| `lock_two` | two people who switch, sign in and out and are stopped in any order: is a stopped desktop ever what is on screen once the agent has looked? |
| `lock_crash` | a failing host operation, a crash at any step, a power cycle, `ost unlock`: is anyone left frozen whom the agent does not know of, does a lock leave anything behind, does a restart give a second countdown? |
| `lock_live` | does whoever may use the computer get it back, does the lock go, does a stop land in the end? |

Bounds. Two people make a seat somebody else can take; one fault and one crash
meet every step of a stop and of a release. `NothingLeftBehind` and `FreedInTheEnd`
except `forgot`: the window between a lock being shown and being saved
(*Findings*). Fairness: handlers run to their end, ticks and restarts come for ever
(strongly, since other handlers keep the agent busy), and the time a grace, a
countdown or a window takes passes; nothing is assumed of people, commands, the
login screen or the compositor.

Left out: the thread that reads the lock's input, a failing VT-switch lock, a
freeze that fails and its fallback to killing, sessions on a plain terminal, and
asking for time at the lock.

### Proofs

`ScreenLockProofs.tla` proves the three safety properties of `lock_two` and `lock_crash`
for any number of people, faults and crashes: `NoSecondCountdown`
(`NoFreshCountdown`), `StoppedAreCovered` (`StoppedStayCovered`) and `NothingIsLeft`
(`NothingLeftBehind`). The file goes bottom-up as the code does: a lemma for each
operation of the host with the outcomes it may end in, failures included; one for each
method of the lock screen, built from them; what a handler that shows a lock ends with
(`Outcome`); then the steps, by what they do to the seat.

The properties speak of a handler that is through, the proofs of every point inside one.
`LockInv` is what all three rest on: the types, what each `pc` waits for (`Waits`), and
that VT switching is held only while the lock's own terminal is on screen and where the
lock screen knows of it (`Firm`, in `Sound`). Each property then has its own strengthening:

- `GracedInv`: whoever was saved as stopped or in a countdown (`graced`) is in the file
  at all times, and in memory while an agent runs; a countdown starts only for someone
  memory has as neither (`CountdownStarts`).
- `Covered`: a handler that is at its end, or waits to end, has looked at who has the
  screen; while it waits for the graphical lock, or has still to undo a freeze, it may be
  wrong about the one person it is about (`who`) and nobody else.
- `Known`, for the frozen; `Clean`, for the lock: with no lock shown there is nothing of
  one, held switching means the text lock - and, while no agent runs, what a dead one
  left up is in its file. That last half is what makes `NothingLeftBehind` survive a
  crash; `forgot` is exactly the window where it fails.

The conjunction was checked with TLC first: one person with one fault, one crash and
`ost unlock` to the end (5.3 million states).

## DayClock, ScreenRules, NetworkRules and VpnProfiles (`MCAgentParts`)

One run, `agent_parts`, explores a behaviour of any of the four, the others standing
still: they share no state the models need.

### DayClock and ScreenRules

`DayClock.tla`: the wall clock (`skew`, `synced`), boots, the agent's `ledger` with
its `TrustedClock` (`AnchorAt`, `ReAnchored`, `Observe`, `ObserveServer`), the day
and an override in it (`RollTo`, `Advanced`, `SetOverride`), its copy on disk, and
`now` (`Agent.trusted_now`). A wall clock is set by hand, wrong at boot in either
direction or corrected by NTP; a server's answer may be late; the agent and the
machine restart. `TrustHolds` says a vouched clock keeps true time whatever is done
to the wall clock, a boot heeds the mark, the day is the trusted day and no
override outlives its time; `SavedTimeHolds` that what is on disk never goes back.
Their exceptions (`slipped`, `drawn`) are a real-time clock that was ahead
(*Findings*). Until its first tick a restarted agent's `now` is the raw wall clock;
the model keeps that too.

`ScreenRules.tla` models the rules and what the agent does by them.

| Definitions | Code |
|---|---|
| `Span`, `Restricted`, `Allowed`, `Bedtime`, `ClockReason`, `ResumeAt`, `NextStop`, `FocusBlocking` | `policy/src/rules.rs`: `Compiled`, the walk of `evaluate`, `resume_at`, `focus_blocking` |
| `ObserveStop`, `Elsewhen`, `Unsaid` | `WarnState` of `warn.rs` |
| `Pass` (`Billed`, `Enforce`, `Forecast`) | one `enforcement_tick`: the day rolls and the time is billed, then `decide_freeze`, `screen_time_lockout`, `update_forecasts` |
| `GiveTime`, `Snooze`, `PauseAll`, `Resume`, `SetRules`, `UsedElsewhere` | between two ticks: `credit_time`, `snooze_from_lock`, the lock and unlock commands, `apply_bundle`, `set_elsewhere` |

`VerdictTrue` compares, in every state reached, the walk over whole minutes with
what the rules mean moment by moment (`FirstStop`, `FirstReturn`, written from
windows that are opened on a day and close after their length, with no compiled
spans in between). `StopsAreAnnounced` says nobody at the computer is stopped out
of the blue: the last minute was said, with the minute the stop then lands in, or a
countdown was. Someone whose limit runs out was told while they used it.

| Run | Question |
|---|---|
| `agent_parts` | clock: wrong, hand-set and corrected clocks, reboots, restarts, late answers; rules: ticks across a midnight with grants, snoozes, pauses, edits and time used elsewhere; website rules and VPN: below. Is every verdict what the rules mean, is nobody stopped without a word, does the computer stay online and its tunnels alive? |

Bounds. Clock: days of two units, two days, clocks off by a day either way. Rules:
a tick is half a minute (the code's is ten seconds, and earlier for a stop), a day
four minutes, a week three days, warnings at three minutes and one; a behaviour is
a little over a day long, and in each of its states the walk looks two days ahead; the four
policies of `MCPolicies` hold every kind of window (whole day, empty, across
midnight, ending at midnight), bedtime and limit. Two changes between ticks are
needed to invalidate an announcement and be stopped by something else. Both are safety only.

Proved (`AgentProofs.tla`): `TrustedTimeHolds`, `ClockSpec => []TrustHolds`, and
`SavedTimeIsKept`, `ClockSpec => SavedTimeHolds`, for any day length, horizon, minutes and
clock errors. `ClockInv` adds: a clock anchored in this boot reads what its source
vouches for - NTP the time, the server no later than it, a boot no earlier than the mark
(`AnchoredWell`, for the copy in memory and for the one on disk); the disk is behind
memory (`SavedBehind`); and, unless a correction left it ahead or drew it out, a day or an
override on disk is no later than its own mark allows (`DayMarked`, `EndMarked`), which is
what a restart needs, since it has nothing else to go by. The proof needs one
assumption about the world, that no clock is off by more than `DayLength` to the past
(in `ClockAssumption`): since a behaviour starts a day after the epoch, a wall clock
never reads a time before it.

`ScreenRulesProofs.tla` proves both properties of the rules, for days, weeks, windows,
limits, thresholds and grace times of any length.

- `VerdictIsTrue`, `RulesSpec => []VerdictTrue`. First the calendar: a moment is its date,
  its minute and its half, and a window of a parent's, opened on a day and closed after its
  length, is what its one or two compiled spans say, across midnight and for windows of a
  whole day (`BedtimeIs`, `AllowedIs`, `ClockReasonIs`, `FocusIs`). Then one turn of the
  walk: what is first from a point on (`Answer`, written without the walk) is what the turn's
  branches say - a stop here, the horizon, a limit that runs out before the turn ends, or
  what is first from the turn's end on, where nothing but the limit changes inside a minute
  (`OneTurn`). So the walk finds what is first from every point of the horizon: were there a
  point where it does not, take the latest (`WalkIsAnswer`). That a function with the walk's
  equation exists at all is shown with a witness, since the equation alone says nothing.
- `StopsAreSaid`, `RulesSpec => StopsAreAnnounced`. The property is about one tick; what
  makes it true was done at the tick before or earlier. `Announcing` says what lasts in
  between: a countdown that runs has its last minute said by the tick before its end
  (`Counted`), and, while nothing was changed since the last tick (`sprung`), a stop that
  lands on the next one was said, in the minute it lands in (`Foretold`). It needs
  `VerdictIsTrue`'s `OneTurn`: the stop seen a tick ago is the stop found now.
  `Announcing` was checked with TLC on the bounds of `agent_parts` before the proof.

Left out: time zones and their changes, a person on a desktop whose companion
warns them (it runs the same `WarnState`, and is silent after "You're back"), people
behind someone else's desktop, fractions of seconds, a login that is out but still
frozen, the length of the wait before a snooze, brackets with a longer countdown.

### NetworkRules

`host` is what the website rules stand on: the resolver's unit, resolv.conf (our
`pin`, the computer's `own`, or `foreign`: what the agent's sandbox cannot write),
whether the ruleset it serves is the current one, the firewall's table, and the gaps
`dns::apply` reported. `netRules` is what the cached rules ask; the rest are fields
of `Agent`.

| Definitions | Code |
|---|---|
| `ApplyNetwork`, `Gaps`, `Reassert`, `Unpin` | `dns::apply`, `DnsGap`, `dns::reassert`, `unpin_resolv_conf`, and the firewall's `force_dns` held back by `breaks_forced_dns` |
| `Tick` | `enforcement_tick`: `update_dns_reachability`, focus hours, `reassert_all` and the apply it asks for, `offline_grace_check`, `block_selftest` |
| `Pull`, `Restart`, `Reconnect`, `GraceEnds` | `apply_network` from `apply_bundle`, `bootstrap`, the network loop |
| `World` | dnsmasq, whoever rewrites resolv.conf, `nft flush ruleset`, networks, disks, focus hours |

`HeldBack`: after every step of the agent a pin has a resolver that runs, and
lookups are forced only where programs ask one. `NamesComeBack`: a computer that
cannot look names up can again, without anyone. `DegradedIsSaid`: a computer that
should filter and does not comes to filter, shows a gap, or says so. Their exceptions
(`drifted`, `CaptivePortal`, `HeldOpen`) are under *Findings*.

Bounds. Four changes by the world, the parent or a restart: enough for a resolver
that breaks under a resolv.conf that was replaced, on a network that changes, with
the contact lost. Relaxing after three ticks is the code's; a self-check every second
tick stands for its every sixth. Fairness: the agent ticks; a grace period runs out
unless contact comes back.

Proved (`AgentProofs!ForceIsHeldBack`): `NetworkSpec => []HeldBack`, for any number of
changes. `NetworkInv` splits it: that lookups are forced only to our pin or past a
replaced file (`ForcedToUs`) holds in every state, the world's steps included; that a pin
answers holds only after the agent's, and a tick re-establishes it from any host at all:
each of its applies and its re-assertion does so by itself (`ApplyIs`, `ReassertIs`). The
one place they depend on each other is a re-assertion that takes the pin off under a
forced table, which the tick answers with an apply (`ResolverWent`).

Left out: what the generated files say, safe search, the first wiring of dnsmasq
into NetworkManager, a firewall that fails to load, blocked programs.

### VpnProfiles

Server side: the rows (`profiles`), `vpn_updated_at` (`stamp`) and the requests
being handled, each a read and then its statements. Agent side: the profile held
(`pulled`, `cached`), the apply under way (`apply`), our config files and what their
units run (`onDisk`, `tunnel`), the endpoint the firewall accepts (`accepted`).
`verdicts` are reports on their way. `proven`, `unsafe`, `lostFile` and `unheard` are
history.

| Definitions | Code |
|---|---|
| `AskVpn`, `Tells`, `Written`, `WriteRow`, `SetTesting`, `Propagate` | `update`, `activate`, `deactivate`, `remove` of `server/src/vpn.rs`: `get_profile`, the statements, `propagate` |
| `ReportArrives`, `ReportForgotten`, `Served` | `apply_agent_report` in the events' side effects; `active_for_agent` |
| `PlanFor`, `Begin`, `InForce`, `Backup`, `Teardown`, `Install` | `apply_network_policy` and `reconcile` up to its first write |
| `BringUp`, `WriteFails`, `Verified`, `VerifyFails`, `RollBack`, `Conclude` | the rest of `reconcile` and the report it makes |
| `Boot`, `PullProfile`, `Reapply`, `VpnAgentDies`, `Outage` | `bootstrap`, `apply_bundle`, `apply_network` from a tick; faults |

`TunnelKept`: between two applies there is one tunnel at most, of a config that
passed its test; a failed test leaves what ran before; the firewall lets it through.
`ConsoleSettles`: the active profile is not for ever being tested, one called active
runs as it is stored, without one no tunnel is left. Their exceptions (`unsafe`,
`lostFile`, `apply.failed`, `unheard`) are under *Findings*.

Bounds. Two profiles of two kinds and a third config whose tunnel carries nothing
make every kind of switch and of rollback; two requests race; one fault meets every
step (two faults, and three requests, were checked as well and take longer). Two
verdicts may be on their way. Fairness: requests, reports and applies run on; a new
version is told to the agent's one loop, which takes commands between two ticks that
apply on their own account: strong.

Proved (`AgentProofs!TunnelsAreKept`): `VpnSpec => []TunnelKept`, for any profiles, kinds,
configs, requests and faults. TunnelKept speaks of an agent between two applies; `VpnInv`
says what holds inside one. There is one file of ours at most and its unit runs it
(`OneFile`); only the config being tested is on the disk untested (`Tested`), so an agent
that dies then, and only then, leaves one behind; and an apply under way has the other
kinds cleared, the firewall open for its own endpoint, and as its backup the one config
that ran before (`BackupKept`: `before` is what a computer runs whose only file is
`backup`), so that putting it back restores everything. TLC checked `VpnInv` with four
configs, two requests and two faults first (1.4 million states).

Left out: creating a profile, masking and merging secrets, a tunnel whose file
cannot be removed, `ost`'s own changes, the way of a pull and of a report
(PolicySync, EventLog).

## EventLog, DeviceLocks, PolicySync, AgentUpdate, Retirement, Presence and UsageSlices (`MCParts`)

One run, `parts`, explores a behaviour of any of the seven, the others standing
still: they share no state.

**EventLog**: the agent's buffer and its cap, a batch taken out and put back
(`Flush`, `PostAnswered`, `PostFails`), requests that are lost, given up and still
carried out, the batch insert and the side effects after it (`BeginBatch`,
`CommitBatch`, `SideEffects`), the alert worker's drain. `LogHonest`: no event has
two rows, none vanishes but by the cap, a crash or being invalid, nothing is
buffered twice, side effects and messages happen at most once per row.
`EventsArrive`: the buffer drains. Fair: the flush and the requests.

**DeviceLocks**: a pause, the offline lockdown and the evasion lockdown, in memory
and on disk; a contact, an unlock, a code, and the three steps of `ost unlock`
beside a ticking, stopped or starting agent. `LocksTruthful`: a pause and a
confirmed evasion outlast everything but a parent, no lock stands that nothing put
on since a parent proved themselves, an offline lockdown is about days out of
contact. `LocksLift`: a server that answers lifts the lockdown, a living agent hears
`ost unlock`. Fair: ticks, contact.

**PolicySync**: an edit, its notification (`TellDevice`), sockets that die unnoticed,
heartbeats with the version, the two reads of a pull (`ReadRules`, `ReadVersion`),
its ack. `NoSilentStale`: rules that are out of date are known to be, save for
`excused` edits; `PolicyConverges`: they are in force in the end on an agent that is
back on polling. `policy_claim` shows without the exception what goes wrong
(*Findings*). Fair: what both programs have begun, heartbeats, the redelivery grace.

**AgentUpdate**: the update task step by step (`FetchBuild`, `BackUpBinary`,
`MarkPending`, `SwapBinary`, `RestartService`, `SettlePrevious`), the service
manager, the watchdog's look (`WatchdogLooks`) and its rollback cut by a power
failure (`RollBackCut`), for builds that work, fail their preflight, die, hang
before their first tick or later. The heartbeat file goes with the process
(`RuntimeDirectory`), and `systemctl restart` sets NRestarts to zero.
`WayBack`: a build that is not known to work is installed only with its own marker
beside it and a working backup, save after `fooled`.
`EndsOnAWorkingBuild`: a working build runs in the end, with the same exception. Fair:
what is down is started, the watchdog's timer fires, a working build ticks between
two looks, a broken one shows it.

**Retirement**: one computer that is removed and may be installed again. `process` is
the agent's process and its step, `helper` the next step of `ost __retire`, `watchdog`
and `installing` the timer's look and the one-liner; `enrolled`, `marker`, `unit`,
`timer` and `binary` are what is on disk, `person`, `rulesOn` and `kept` what the agent
did to the computer.

| Definitions | Code |
|---|---|
| `RemoveComputer`, `Hear`, `Confirm` | `delete_device`, `AgentAuth`'s 410, `network_loop`, `retirement_confirmed` |
| `Load`, `StartMarked`, `Bootstrap`, `PullRules`, `StopOrFree`, `SafeSearchRound` | `run` with `marked`, `bootstrap`, `apply_bundle`, ticks, `adopt_safe_search` |
| `Thaw`, `Release`, `Teardown`, `Mark`, `Spawn` | `Agent::retire`, in its order |
| `HelperMarks` to `HelperRemovesBinary` | `run_helper_with`, `remove_installed`, `remove_the_rest` |
| `Look`, `WatchdogRestarts`, `Enroll`, `ClearMarker`, `InstallService` | the watchdog's script; `enroll` and the end of `install_service` |

`OnlyRemovedComeOff`: no computer a household still has is touched by a removal, whatever
odd 410 it hears, and one installed again keeps all of its new installation, unless that
was begun before the removal was through (`overlapped`).
`ComesOff`: a computer in a household comes to enforce its rules for good; one that was
removed to have nobody stopped, no rules, no units and no enrollment; one installed
again to enforce with its new token. Its exceptions (`overlapped`, `stranded`) are
under *Findings*. Fair: the agent, which systemd restarts, with a server that answers;
the helper; the watchdog; an installation that was begun.

**Presence**: the computer's row (`deviceRow`), the Hub's entry (`inHub`), the handler
of each of its sockets (`served`), and which one the agent holds.

| Definitions | Code |
|---|---|
| `OpenSocket`, `BeatOverHttp`, `Notice` | `AgentAuth` and the upgrade; `heartbeat`; `network_loop` |
| `Register`, `MarkOnline`, `Frame`, `Ends`, `Unregister`, `LookForAnother`, `MarkOffline` | `handle_ws`, with the Hub's methods |
| `Sweep`, `DeleteDevice`, `ForceUnregister` | the offline sweep of `main.rs`; `delete_device` |
| `LetGo`, `Sleep`, `Wake`, `Quiet`, `HubIsLost` | half-open sockets, sleep, 90 seconds of silence, a server that restarts |

`ShownAsItIs`: the console comes to show the computer online exactly when it is in touch,
and a removed one holds no socket (but `slipped`, *Findings*). Fair: handlers go on, a
computer in touch is heard (a pong every six seconds, or a heartbeat), the sweep runs.

**UsageSlices**: lookups one by one from dnsmasq's log (`written`, `writing`, `cut`)
through the agent's tail (`logOffset`, `logPrimed`), the slices in memory (`waiting`)
and a post (`post`) to the server's sums (`tally`). `Ingest`, `Truncate` and `Prime` are
`ingest_dns_log_at`; `Bump`, `Drained` and `Requeue` the methods of `Attrib`; `Drain`,
`PostFailed` and `Answered` are `post_slices`; `ServerCounts` is `usage::ingest`.
`LookupsAccounted`: at every moment each lookup is being written, in the log still to be
read, in memory, in the batch, summed up, or `lost`; and it is in one place, unless
`doubled` or `stuck`. `EveryLookupOnce`: each lookup comes to be counted, and not twice,
save for those that are `lost` (unread at a start or an emptying, without room, or in
memory when the agent dies), `doubled` or `stuck` (*Findings*). Fair: ticks, posts,
dnsmasq's lines.

Bounds. `parts`: four events with a buffer of three and batches of two overflow
and split; one lost or repeated request; one day out of contact is the lockdown's
(three in the code, a unit here) and `ost unlock` runs once; two edits (three in
`policy_claim`) and two faults let a notification meet a pull under way; two offers over six builds, each
with its own fault or version, and one fault; two faults for a removal, which meet
every pair of its steps; three sockets and two faults let two old handlers write over
a third one; four lookups of three slices, of which two fit in memory and one in a
post, with one fault, and a log read two lines at a time and truncated beyond two.

Left out: apps in the slices and which names count; a step of the helper that fails
while the next go on; `tamper_lockdown` surviving an `ost unlock` while the agent is down is
modelled (`missed`), the minutes it should have given are not; retention and the
supervision of workers; Telegram's and webhooks' delivery; the origin checks and the
units' refresh of an update.

### Proofs

`AgentProofs!LocksAreTruthful` is `DeviceSpec => []LocksTruthful`. `DeviceInv` relates
what is in memory to what is on disk, since every restart swaps one for the other:
a pause is on the disk only while no parent has lifted it, and stays there unless it
was overtaken by an `ost unlock` the agent had still to read (`PauseStored`); the
evasion lockdown is the same in both, in every state (`TamperStored`); the agent has read
no marker nobody left (`MarkerAhead`); days are counted alike, unless the last
contact was too short to be saved (`AgeCounted`). `overtaken` is
history: it is set only by a pause that arrives while a marker is unread.

`DeliveryProofs!StaleRulesAreKnown` is `SyncSpec => []NoSilentStale`. Rules may be out of
date in the agent's hands, in the answer on its way or in a pull that read them
too early, so `SyncInv` says of each who makes up for it: rules out of date are about to
be pulled (`StaleIsPulled`), a pull that read too early is followed by another
(`LateReadsRepeat`), and where an ack is about to close the row, the pull that remains is
for a command whose failure would be excused (`AckedIsPulled`). `Numbered` keeps frames,
acks and pulls from naming rows that were not handed over, `RevisionsGrow` a pull from
bringing back older rules. The next heartbeat's version, which NoSilentStale allows as an
answer, is not needed for what it excuses: the command alone carries it.

`DeliveryProofs!TheLogIsHonest` is `LogSpec => []LogHonest`. `LogInv` adds that the request
the agent waits for carries its batch, and has put it on record by the time it answers
(`BatchIsPosted`, which is what makes dropping the batch safe); that an event's one row
is of a transaction that began (`OneRow`); that side effects due are for rows of one
request each (`EffectsDue`), although a request given up on is carried out beside its
successor; and that what was told lies behind the alert worker's mark (`ToldIsBehind`).

TLC checked `SyncInv` with four edits and three faults (780 thousand states) and `LogInv`
with five events and two faults (950 thousand) before they were proved.

`PartsProofs.tla` proves what three parts that can be cut off between any two steps keep
true at every one of them.

- `AlwaysAWayBack` is `UpdateSpec => []WayBack`. `UpdateInv` follows the files and the task
  through an update: what was staged passed its preflight and is not what runs
  (`Staged`), whatever is put aside to go back to works (`BackupWorks`) because a build
  that has settled works (`SettledWorks`), and at each step after the backup the marker
  names the build about to be installed (`Changing`).
- `OnlyTheRemoved` is `RetireSpec => []OnlyRemovedComeOff`. `RetireInv` has one part per
  household: in one that has the computer nothing of a removal has begun (`ListedInv`);
  during a removal the helper's order holds, the watchdog before the agent it would
  restart and the agent before its units, so that one that died in between left
  nobody to start the agent (`RemovedInv`); and a new installation finds nothing of the
  old that could still act, whoever starts under it having its token (`AgainInv`).
- `EveryLookupSomewhere` is `SlicesSpec => []LookupsAccounted`. `SlicesInv` adds that
  lines are of different lookups and none of the one being written, and a line whose
  beginning is gone was let go (`LogSound`); that what is still to be written or read was
  counted nowhere, as long as every truncation worked (`Ahead`); and that a batch that
  counted is summed up (`BatchSound`). A step either moves the log and counts nothing
  (`LogMoves`) or counts and reads nothing (`CountsMove`); only `Ingest` does both, and
  what it reads, passes over and leaves are a partition of what was unread
  (`IngestReads`). A tick's lines are counted one after another by a recursive function
  (`Bumped`), and `BumpedIs` says what it comes to, by induction over the set of
  numbers of lines for which that holds (`CountingOn`).

TLC checked all three invariants on the instance of `parts` first, and the properties
with one more fault each. What Presence promises is liveness, and is TLC's.

## Findings

Runs that show them are in parentheses. Where a run checks a property that leaves
the case out, the claim that fails is a definition of the module named: put it in
the named `.cfg` in place of its properties and TLC prints the counterexample.

- **A cancelled command's ack is dropped**: `cancel`'s comment says the ack
  overwrites the status; `apply_command_ack` only touches open rows
  (`AckOverwritesCancel`, QueueWs.cfg).
- **An acked command can be redelivered**: a pull reads open rows and updates them
  by id afterwards, without looking at the status again (`AckedStaysAcked`,
  QueueWs.cfg).
- **A report can be lost in a removal**: `delete_device` says the ledger is filed
  under each person first; what is reported between that and the deletion is not
  (`LedgerHasThem`, DayRecords.cfg).
- **A computer that took itself off forgets its day**: `take_over` counts on the
  agent's ledger holding the kept minutes, and retirement deletes it
  (`DayStaysTheirs`, DayRecords.cfg).
- **A computer keeps waiting for an answer that was given**: a grant settles what
  the person asked on every computer and tells one of them; at another the agent's
  cached ask stays until midnight, its status says `ask_pending`, and asking again
  files nothing (`AskPendingIsTrue`, EarnAnswers.cfg).
- **A lock can be forgotten**: it is on screen before it is saved, and an agent that
  dies in between finds nobody there to stop and nothing to release
  (`LockNotForgotten`, LockCrash.cfg with `ClockRuled = {}`, `OstUnlocks = FALSE`).
- **An edit can be let slip** (`policy_claim`): its notification joins the row of a
  pull that has already read the rules.
- **A wrong-ahead clock leaves the day ahead**: the clock is corrected, the day and
  overrides given meanwhile are not (`slipped` and `drawn` in `TrustHolds`).
- **A computer that was merely away locks**: the days of an offline lockdown are a
  difference of wall clocks, asleep or without a network included
  (`AwayIsInnocent`; Parts.cfg with `LockdownDays = 2`, `LastDay = 2`,
  `Unlocks = 0`).
- **Alerts of a large batch are cut off**: a drain reads 50 rows and moves its mark
  to a time up to 100 rows share (`EachIsTold`, Parts.cfg).
- **A surprise without its countdown**: a stop counts as announced for three minutes
  after any other came close (`SurpriseGetsGrace`, AgentParts.cfg).
- **A good build can be put aside**: the watchdog may look while a restarted agent
  has not ticked yet (`RefusedIsBroken`, Parts.cfg).
- **A hanging build can be kept**: a minute proves it, and a heartbeat takes a minute
  and a half to grow old (`KeptBuildWorks`, Parts.cfg).
- **A captive network stays closed**: relaxing lifts the firewall's force, but
  resolv.conf stays pinned to a resolver that forwards to the family resolver alone,
  and a profile's own `force_dns` is not lifted (`CaptivePortal` in `NamesComeBack`).
- **Lookups stay forced past a replaced resolv.conf**: one the agent cannot write is
  re-asserted in vain and nothing applies again (`drifted` in `HeldBack`, `HeldOpen`).
- **A tunnel put back is not let through**: the firewall keeps the accepts of the
  profile whose test failed (`TunnelLetThrough`, AgentParts.cfg).
- **A dead tunnel can be what is put back**: after a death in the middle of a test
  the backup is the config under test, and a file that cannot be written is not
  rolled back (`unsafe`, `lostFile` in `TunnelKept`).
- **An edited profile is told to nobody**: an edit or a removal goes by the row it
  read, and an activation in between makes that row the active one (`unheard` in
  `ConsoleSettles`).

- **An installation over a removal is taken off**: the helper does not look whether the
  computer was enrolled again meanwhile (`StartsAfresh`, Parts.cfg).
- **A computer can stay half removed**: a power failure ends the helper after the
  watchdog and the agent are disabled, and nothing starts it again (`stranded` in
  `ComesOff`).
- **A removed computer can stay connected**: its token was looked up before the removal,
  its socket registered after (`RemovalIsHeard`, Parts.cfg).
- **A connected computer is shown offline for a moment**: the teardown looks and then
  writes (`OfflineOnlyIfAlone`, Parts.cfg).
- **Lookups can be counted twice**: a post whose answer was lost is summed up again
  (`CountsLookups`, Parts.cfg).
- **Lookups can go uncounted in a truncation**: what was not read, or was appended
  since, goes with the log; one that cannot be emptied is read again and again
  (`TruncationLosesNothing`, Parts.cfg; `stuck`).

More things the models show are no disagreement with a comment:

- a `sent` command whose ack was lost is not redelivered while a WebSocket
  connection stays up (an agent on one pulls only at connect); and a frame pushed
  into a dead socket is not either, when a new one opens before the old is reaped;
- a fold that commits between a report's upsert and its sum hands the computer its
  own minutes as used elsewhere until the next answer;
- a failed pull of the rules closes its command, which is not tried again, and
  pointing a login at older rules does not change the version a heartbeat compares;
- a server killed after a batch's commit never carries out its side effects;
- `ost unlock` run while the agent is down lifts the pause and the network rules,
  but its marker counts as read when the agent starts: minutes given are lost and
  an evasion lockdown stays; and a pause that arrives before a living agent reads
  the marker is lifted with the others;
- a contact too soon after the last is not saved, so a restart may count days a
  short contact should have ended;
- a `systemctl restart` that fails leaves an unproven build installed, which the
  next day's update backs up; if that build is broken the rollback restores it.

## What is proved and what is only checked

TLAPS proves, for every value of the constants and from the named assumptions of the
modules (`BoundsAssumption`, `ClockAssumption`, `VpnAssumption` and the like), every
invariant and every action property that a passing run checks, and that CommandQueue
implements QueuePromise.

Induction over data is within reach where it can be put as induction over a *set*: the
library's `WFMin` and the lemmas `Induction` of `PersonDayProofs` and `CountingOn` of
`PartsProofs` take the set of numbers for which something holds, and the claim about
sums, about the walk or about lines counted one by one is stated with it. Theorems that take an operator cannot be used, and neither can a module
with a RECURSIVE operator; no module here has one.

Only model-checked: all liveness, which is out of the prover's reach -
`EventuallySettled`, `ConsoleTruthful`, `SeesTheDay`, `FreedInTheEnd`, `StopLands`,
`EventsArrive`, `LocksLift`, `PolicyConverges`, `EndsOnAWorkingBuild`, `ComesOff`,
`ShownAsItIs`, `EveryLookupOnce`, `NamesComeBack`, `DegradedIsSaid`, `ConsoleSettles` -
and, of course, the claim a violation run refutes (`EditsReach`).

## What is left out

Of the person's day: several logins on one computer, logins a new record lacks
(their rows go to `retired_usage` in a fold), records whose agent sends no
machine id, and the slices, events and asks a fold moves along. Of the queue: the janitor that deletes old settled rows, the payload swap of
sign-in codes, event and usage frames. Several computers do not share rows, so
one is modelled. Of asking: the lists, the marker files a child's ask travels
through, what a fold or a removal does to requests, and the words shown.
`set_tamper_level` is handled like `apply_policy`. Of the other modules: see their
sections. The components PROJECT.json lists as `not_modelled` are not begun, or are I/O,
drawing, routing and third-party protocols that a state model says little about.
