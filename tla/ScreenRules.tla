----------------------------- MODULE ScreenRules -----------------------------
(***************************************************************************)
(* When a person is stopped, until when, and what they hear before it.     *)
(*                                                                         *)
(* `evaluate` walks forward through the rules (policy/src/rules.rs); every *)
(* tick of the agent rolls and bills the day, stops or frees the person by *)
(* its verdict, and forecasts the next stop (client/src/runner.rs), which  *)
(* WarnState announces at some minutes before it (client/src/warn.rs).     *)
(* One person, on a terminal.  A time is a count of half minutes, a budget *)
(* too; days and weeks are a few minutes and days long.                    *)
(***************************************************************************)
EXTENDS Integers, FiniteSets

CONSTANTS DayMinutes,  \* minutes in a day
          WeekDays,    \* days in a week
          Thresholds,  \* the minutes before a stop that get a warning
          Grace,       \* save-your-work countdown, in half minutes
          Policies,    \* the rules a parent may set
          Gifts,       \* minutes given at once
          MaxSnoozes,  \* SNOOZES_PER_DAY
          LastTick,    \* the last moment of a behaviour (a bound)
          Changes      \* what parents, the person and other computers do (a bound)

Minute == 2
Day == DayMinutes * Minute
HorizonTicks == 2 * Day
AnnouncedWithin == 3 * Minute
LastMinute == (3 * Minute) \div 2

Window == [start : 0..DayMinutes - 1, end : 0..DayMinutes - 1, days : SUBSET (0..WeekDays - 1)]

ASSUME RulesAssumption ==
  /\ DayMinutes \in Nat \ {0} /\ WeekDays \in Nat \ {0}
  /\ Thresholds \subseteq Nat \ {0} /\ 1 \in Thresholds
  /\ Grace \in Nat \ {0} /\ Gifts \subseteq Nat \ {0}
  /\ MaxSnoozes \in Nat /\ LastTick \in Nat /\ Changes \in Nat
  /\ \A p \in Policies : /\ p.enabled \in BOOLEAN /\ p.limit \in Nat
                         /\ p.schedule \subseteq Window
                         /\ p.bedtime \subseteq Window /\ Cardinality(p.bedtime) <= 1

VARIABLES
  policy,    \* screen_time of the person's rules
  moment,    \* trusted_now
  today,     \* the day's ledger: used, earned, snoozes taken
  override,  \* the end of the last override
  pausedAt,  \* when a parent's pause takes hold, or Never
  here,      \* the person is at a terminal
  active,    \* and using it: their time counts
  halted,    \* they are frozen
  deadline,  \* the end of a save-your-work countdown, or Never
  published, \* when a stop within the last minute was last forecast
  warner,    \* WarnState: for which stop, which warnings were said, and its time
  changes,
  sprung     \* changed while an earlier stop still counted as announced (history)

ruleVars == <<policy, moment, today, override, pausedAt, here, active, halted, deadline,
              published, warner, changes, sprung>>

Never == -100
NoStop == [why |-> "none", at |-> Never]
StopFor(w, t) == [why |-> w, at |-> t]
Least(S) == CHOOSE x \in S : \A y \in S : x <= y
Sooner(s, t) == IF s < t THEN s ELSE t

-----------------------------------------------------------------------------
(* The rules, compiled.                                                    *)

MinuteOf(t) == (t \div Minute) % DayMinutes
DateOf(t) == t \div Day
Weekday(t) == DateOf(t) % WeekDays

\* {<<start, end>>}, or nothing if the window is empty.
Span(w) ==
  LET e == IF w.end = 0 THEN DayMinutes ELSE w.end
  IN IF w.start = e THEN {} ELSE {<<w.start, e>>}

Restricted(p, d) == \E w \in p.schedule : d \in w.days /\ Span(w) # {}

\* A slip: the tail of a window is looked for on the day it opened.
AllowedSameDay(p, d) == UNION {
  {<<s[1], IF s[1] < s[2] THEN s[2] ELSE DayMinutes>> : s \in Span(w)}
  \cup {<<0, s[2]>> : s \in {x \in Span(w) : x[2] < x[1]}}
  : w \in {x \in p.schedule : d \in x.days}}

\* A day's own windows, and the tails of the day before's.
Allowed(p, d) == UNION {
  {<<s[1], IF s[1] < s[2] THEN s[2] ELSE DayMinutes>> :
     s \in {x \in Span(w) : d \in w.days}}
  \cup {<<0, s[2]>> : s \in {x \in Span(w) : (d - 1) % WeekDays \in w.days /\ x[2] < x[1]}}
  : w \in p.schedule}

Bedtime(p) == UNION {
  IF s = <<0, DayMinutes>> THEN {}
  ELSE IF s[1] < s[2] THEN {s} ELSE {<<s[1], DayMinutes>>, <<0, s[2]>>}
  : s \in UNION {Span(b) : b \in p.bedtime}}

Limited(p) == p.enabled /\ p.limit > 0
LimitTicks(p) == p.limit * Minute

ClockReason(p, t) ==
  LET Inside(spans) == \E s \in spans : s[1] <= MinuteOf(t) /\ MinuteOf(t) < s[2]
  IN IF ~p.enabled THEN "none"
     ELSE IF Inside(Bedtime(p)) THEN "bedtime"
     ELSE IF Restricted(p, Weekday(t)) /\ ~Inside(Allowed(p, Weekday(t)))
     THEN "outside_hours" ELSE "none"

NextMinute(t) == (t \div Minute) * Minute + Minute

\* The first whole minute a stopped person could be back.
ResumeAt(p, t, d) ==
  LET spent == Limited(p) /\ d.used >= LimitTicks(p) + d.earned
      open == {m \in NextMinute(t)..t + HorizonTicks :
                 /\ m % Minute = 0 /\ ClockReason(p, m) = "none"
                 /\ spent => DateOf(m) # DateOf(t)}
  IN IF open = {} THEN Never ELSE Least(open)

\* evaluate: from t on, as if the person kept going, until something stops
\* them: [why, at] of that stop.
NextStop(p, t, d, until) ==
  LET Walk[s \in [at : t..t + HorizonTicks, used : Int, budget : Int]] ==
        LET held == s.at < until
            clock == ClockReason(p, s.at)
            why == IF held THEN "none"
                   ELSE IF clock # "none" THEN clock
                   ELSE IF Limited(p) /\ s.used >= s.budget THEN "limit" ELSE "none"
            minute == Sooner(NextMinute(s.at), t + HorizonTicks)
            next == IF held THEN Sooner(until, minute) ELSE minute
            out == s.at + s.budget - s.used
        IN IF why # "none" THEN StopFor(why, s.at)
           ELSE IF s.at >= t + HorizonTicks THEN NoStop
           ELSE IF ~held /\ Limited(p) /\ out < next THEN StopFor("limit", out)
           ELSE IF DateOf(next) # DateOf(s.at)
           THEN Walk[[at |-> next, used |-> 0, budget |-> LimitTicks(p)]]
           ELSE Walk[[s EXCEPT !.at = next, !.used = @ + next - s.at]]
  IN Walk[[at |-> t, used |-> d.used, budget |-> LimitTicks(p) + d.earned]]

RulesNow(p, t, d, until) ==
  LET v == NextStop(p, t, d, until) IN IF v.at = t THEN v.why ELSE "none"

\* A person's own blocked sites: `hours` narrows them to a window.
FocusBlocking(hours, t) ==
  LET spans == UNION {Span(w) : w \in {h \in hours : h.days # {}}}
      days == UNION {w.days : w \in hours}
      On(d) == d % WeekDays \in days
  IN \/ spans = {}
     \/ \E s \in spans :
          IF s[1] < s[2] THEN On(Weekday(t)) /\ s[1] <= MinuteOf(t) /\ MinuteOf(t) < s[2]
          ELSE \/ On(Weekday(t)) /\ s[1] <= MinuteOf(t)
               \/ On(Weekday(t) - 1) /\ MinuteOf(t) < s[2]

-----------------------------------------------------------------------------
(* Warnings.                                                               *)

Unsaid == [why |-> "none", fired |-> {}, at |-> Never]

Elsewhen(s, t) ==
  /\ s \div Minute # t \div Minute
  /\ s - t >= Minute \div 2 \/ t - s >= Minute \div 2

\* A slip: a stop that moved is the one already spoken of.
ObserveOnce(w, stop, left) ==
  LET said == IF w.why # stop.why THEN {} ELSE {m \in w.fired : left <= m * Minute + Minute}
      near == {m \in Thresholds : left <= m * Minute}
      due == left > 0 /\ near # {} /\ Least(near) \notin said
  IN [why |-> stop.why,
      fired |-> IF due THEN said \cup {m \in Thresholds : m >= Least(near)} ELSE said,
      at |-> IF due THEN stop.at ELSE w.at]

\* observe_stop: the stop is `left` away.
ObserveStop(w, stop, left) ==
  LET moved == w.at # Never /\ w.why = stop.why /\ Elsewhen(stop.at, w.at)
      said == IF moved \/ w.why # stop.why THEN {}
              ELSE {m \in w.fired : left <= m * Minute + Minute}
      near == {m \in Thresholds : left <= m * Minute}
      due == left > 0 /\ near # {} /\ Least(near) \notin said
  IN [why |-> stop.why,
      fired |-> IF due THEN said \cup {m \in Thresholds : m >= Least(near)} ELSE said,
      at |-> IF due THEN stop.at ELSE w.at]

-----------------------------------------------------------------------------
RulesInit ==
  /\ policy \in Policies /\ moment = 0 /\ today = [used |-> 0, earned |-> 0, snoozes |-> 0]
  /\ override = Never /\ pausedAt = Never
  /\ here = FALSE /\ active = FALSE /\ halted = FALSE /\ deadline = Never
  /\ published = Never /\ warner = Unsaid /\ changes = 0 /\ sprung = FALSE

\* The next stop of someone who is not frozen (stop_verdict, update_forecasts).
Forecast(t, d, until, pause, countdown, why) ==
  LET v == NextStop(policy, t, d, until)
      paused == pause # Never
  IN IF countdown # Never THEN StopFor(why, countdown)
     ELSE IF v.at = t \/ (paused /\ pause <= t) THEN NoStop
     ELSE IF paused /\ (v.at = Never \/ pause < v.at) THEN StopFor("paused", pause)
     ELSE v

\* The day rolls before the time since the last tick is billed.
Billed(t, u) ==
  LET fresh == DateOf(t) # DateOf(moment)
  IN [used |-> (IF fresh THEN 0 ELSE today.used) + (IF u THEN 1 ELSE 0),
      earned |-> IF fresh THEN 0 ELSE today.earned,
      snoozes |-> IF fresh THEN 0 ELSE today.snoozes]

\* Who is stopped or counted down now, and what they hear of the next stop.
Enforce(h, u, t, d) ==
  LET clocked == policy.enabled /\ (policy.bedtime # {} \/ policy.schedule # {})
      why == IF h \/ halted \/ clocked THEN RulesNow(policy, t, d, override) ELSE "none"
      paused == pausedAt # Never /\ pausedAt <= t
      told == published # Never /\ t - published <= AnnouncedWithin
      lockout == ~halted /\ why # "none" /\ ~paused /\ h
      stop == \/ paused /\ h
              \/ halted /\ why # "none"
              \/ lockout /\ (IF deadline = Never THEN told \/ ~here ELSE deadline <= t)
      countdown == IF why = "none" \/ (lockout /\ stop) THEN Never
                   ELSE IF lockout /\ deadline = Never THEN t + Grace ELSE deadline
      next == IF stop THEN NoStop
              ELSE Forecast(t, d, override, pausedAt, countdown, why)
      close == next.at # Never /\ next.at - t <= LastMinute
      quiet == next.why = "limit" /\ ~u /\ countdown = Never
  IN /\ halted' = stop /\ deadline' = countdown
     /\ published' = IF close THEN t ELSE published
     /\ sprung' = (sprung /\ ~close)
     /\ warner' = IF ~h \/ quiet THEN warner
                  ELSE IF next = NoStop THEN Unsaid
                  ELSE ObserveStop(warner, next, next.at - t)

\* One enforcement_tick.  Someone frozen stays where they are.
Pass ==
  /\ moment < LastTick
  /\ \E h, u \in BOOLEAN :
       /\ halted => h
       /\ u => h /\ ~halted
       /\ moment' = moment + 1 /\ today' = Billed(moment + 1, u)
       /\ here' = h /\ active' = u
       /\ Enforce(h, u, moment + 1, Billed(moment + 1, u))
  /\ UNCHANGED <<policy, override, pausedAt, changes>>

-----------------------------------------------------------------------------
(* Between two ticks.                                                      *)

Change ==
  /\ changes < Changes /\ changes' = changes + 1
  /\ sprung' = (sprung \/ (published # Never /\ moment - published <= AnnouncedWithin))
  /\ UNCHANGED <<moment, here, active, published, warner>>

\* set_override never shortens one.
LaterEnd(t) == IF override > t THEN override ELSE t

\* credit_time: on the budget and as an override; release_if_allowed, whom
\* an override always lets in, unless the computer is locked.
GiveTime == \E n \in Gifts :
  /\ Change
  /\ today' = [today EXCEPT !.earned = @ + n * Minute]
  /\ override' = LaterEnd(moment + n * Minute)
  /\ IF pausedAt = Never THEN halted' = FALSE /\ deadline' = Never
     ELSE UNCHANGED <<halted, deadline>>
  /\ UNCHANGED <<policy, pausedAt>>

\* snooze_from_lock: at a stop of their own rules, a few times a day.
Snooze == \E n \in Gifts :
  /\ halted /\ pausedAt = Never /\ today.snoozes < MaxSnoozes
  /\ RulesNow(policy, moment, today, override) # "none"
  /\ Change
  /\ today' = [today EXCEPT !.snoozes = @ + 1]
  /\ override' = LaterEnd(moment + n * Minute)
  /\ halted' = FALSE /\ deadline' = Never
  /\ UNCHANGED <<policy, pausedAt>>

\* The lock command, at once or with a save-your-work window.
PauseAll == \E g \in {0, Grace} :
  /\ Change
  /\ pausedAt' = moment + g
  /\ halted' = (halted \/ (g = 0 /\ here))
  /\ UNCHANGED <<policy, today, override, deadline>>

\* The unlock command, with no time given by name.
Resume ==
  /\ pausedAt # Never
  /\ Change
  /\ pausedAt' = Never /\ deadline' = Never
  /\ halted' = (halted /\ RulesNow(policy, moment, today, override) # "none")
  /\ UNCHANGED <<policy, today, override>>

\* apply_bundle; the next tick goes by the new rules.
SetRules == \E p \in Policies \ {policy} :
  /\ Change
  /\ policy' = p
  /\ UNCHANGED <<today, override, pausedAt, halted, deadline>>

\* set_elsewhere: what the person used on their other computers today.
UsedElsewhere ==
  /\ Change
  /\ today' = [today EXCEPT !.used = @ + Minute]
  /\ UNCHANGED <<policy, override, pausedAt, halted, deadline>>

RulesNext == Pass \/ GiveTime \/ Snooze \/ PauseAll \/ Resume \/ SetRules \/ UsedElsewhere
RulesSpec == RulesInit /\ [][RulesNext]_ruleVars

-----------------------------------------------------------------------------
(* What the module comment of rules.rs promises, moment by moment.         *)

\* Window w, opened on day k, covers t.
Covers(w, k, t) ==
  LET closes == IF w.end = 0 THEN DayMinutes
                ELSE IF w.end < w.start THEN DayMinutes + w.end ELSE w.end
  IN k * Day + w.start * Minute <= t /\ t < k * Day + closes * Minute
Real(w) == w.start # w.end \/ w.start = 0
OnDay(w, k) == k % WeekDays \in w.days
Inside(ws, t) == \E w \in ws, k \in DateOf(t) - 1..DateOf(t) :
                   Real(w) /\ OnDay(w, k) /\ Covers(w, k, t)

Asleep(p, t) == \E b \in p.bedtime, k \in DateOf(t) - 1..DateOf(t) :
                  b.start # b.end /\ Covers(b, k, t)
OffHours(p, t) == /\ \E w \in p.schedule : Real(w) /\ OnDay(w, DateOf(t))
                  /\ ~Inside(p.schedule, t)
Barred(p, t) == p.enabled /\ (Asleep(p, t) \/ OffHours(p, t))

\* The budget is gone at t, for a person who uses `rate` of the time till then.
GoneAt(p, t, rate) ==
  /\ p.enabled /\ p.limit > 0
  /\ IF DateOf(t) = DateOf(moment)
     THEN today.used + rate * (t - moment) >= LimitTicks(p) + today.earned
     ELSE rate * (t - DateOf(t) * Day) >= LimitTicks(p)

Ahead == moment..moment + HorizonTicks
FirstStop ==
  LET at == {t \in Ahead : t >= override /\ (Barred(policy, t) \/ GoneAt(policy, t, 1))}
  IN IF at = {} THEN NoStop
     ELSE LET t == Least(at)
          IN StopFor(IF ~Barred(policy, t) THEN "limit"
                     ELSE IF Asleep(policy, t) THEN "bedtime" ELSE "outside_hours", t)
FirstReturn ==
  LET at == {t \in Ahead \ {moment} : ~Barred(policy, t) /\ ~GoneAt(policy, t, 0)}
  IN IF at = {} THEN Never ELSE Least(at)

\* The walk over whole minutes finds the stop that comes first of all that
\* the rules mean, and for someone stopped the moment they could be back;
\* focus hours are read like allowed hours (evaluate, resume_at,
\* focus_blocking).
VerdictTrue ==
  /\ NextStop(policy, moment, today, override) = FirstStop
  /\ FirstStop.at = moment => ResumeAt(policy, moment, today) = FirstReturn
  /\ \A w \in policy.schedule :
       FocusBlocking({w}, moment) <=> (Real(w) /\ w.days # {} => Inside({w}, moment))

\* Nobody who sits there is stopped by the rules out of the blue: the last
\* minute was said, with the minute the stop then lands in (or a countdown
\* was).  Someone whose limit runs out was told while they used it.  `sprung`:
\* stop_was_announced takes an earlier stop's announcement for this one's.
AnyStopWasSaid ==
  moment' # moment /\ here /\ halted' /\ ~halted /\ ~sprung
  /\ ~(pausedAt # Never /\ pausedAt <= moment')
  /\ (active \/ RulesNow(policy, moment', today', override') # "limit")
    => 1 \in warner.fired /\ ~Elsewhen(warner.at, moment')

\* Every tick does (Agent::stop_was_announced, WarnState::observe_stop).
StopsAreAnnounced == [][AnyStopWasSaid]_ruleVars

\* The comment on FREEZE_GRACE: only a stop somebody saw coming, or logged
\* into, goes without its countdown.
SurpriseGetsGrace ==
  [][moment' # moment /\ here /\ halted' /\ ~halted
     /\ ~(pausedAt # Never /\ pausedAt <= moment') /\ active
       => 1 \in warner.fired /\ ~Elsewhen(warner.at, moment')]_ruleVars

=============================================================================
