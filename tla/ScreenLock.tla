----------------------------- MODULE ScreenLock -----------------------------
(***************************************************************************)
(* Stopping people on a shared computer: who is frozen, what is on screen, *)
(* and the lock in front of them (client/src/lock/mod.rs), driven by the   *)
(* agent's tick, its lock events and its commands (client/src/runner.rs).  *)
(*                                                                         *)
(* The agent's handlers hold one mutex, so they run one after another; the *)
(* machine goes on while a handler waits for the graphical lock, and the   *)
(* agent can die between any two of a handler's lasting effects.  Every    *)
(* person has one desktop, on a virtual terminal named after them; the     *)
(* graphical and the text lock have a terminal each.                       *)
(***************************************************************************)
EXTENDS Naturals, FiniteSets

CONSTANTS
    People,       \* everyone the agent has rules for
    ClockRuled,   \* those whose rules are about the clock (bedtime, hours)
    HasCage,      \* the compositor of the graphical lock is installed
    MaxFaults,    \* host operations that fail, UIs that hang or die
    MaxCrashes,   \* times the agent dies
    OstUnlocks,   \* someone runs `ost unlock` once
    NoOne

ASSUME LockAssumption ==
    /\ ClockRuled \subseteq People
    /\ NoOne \notin People
    /\ {"gui", "text", "greeter", "empty"} \cap People = {}
    /\ HasCage \in BOOLEAN /\ OstUnlocks \in BOOLEAN
    /\ MaxFaults \in Nat /\ MaxCrashes \in Nat

LockVts == {"gui", "text"}
Vts     == People \cup LockVts \cup {"greeter", "empty"}
Modes   == LockVts

VARIABLES
    seat,      \* the machine's seat and the LockScreen that drives it
    session,   \* people with a desktop open
    stopped,   \* people the kernel has frozen
    barred,    \* people the rules stop now (an override lets them in)
    locked,    \* device_locked: a parent's pause ...
    window,    \* ... and whether its save-your-work window is still open
    frozen, counting, spent,  \* frozen; pending_freeze, running and run out
    saved,     \* freeze_state.json and device_locked on disk
    pc, todo, who, from,      \* where the running handler is
    moved,      \* a change of the screen or the sessions waits for the agent
    marker,    \* what `ost unlock` left for the agent
    crashes, forgot, graced    \* history

held    == <<frozen, counting, spent>>
machine == <<session, barred>>
pause   == <<locked, window>>
history == <<crashes, forgot>>
core    == <<seat, session, stopped, barred, locked, window, frozen, counting,
             spent, saved, pc, todo, who, from, moved, marker, crashes, forgot>>
vars    == <<core, graced>>

NoLock == [subject |-> NoOne, mode |-> "text", back |-> NoOne]
IsUp(s) == s.shown.subject # NoOne
Pending == counting \cup spent
Paused  == locked /\ ~window
OnScreen(s) == IF s.screen \in session THEN s.screen ELSE NoOne

\* A computer that has just started.
Fresh == [screen |-> "greeter", held |-> "off", cage |-> "off", text |-> FALSE,
          coming |-> FALSE, faults |-> MaxFaults, shown |-> NoLock,
          upgrade |-> FALSE, grace |-> FALSE, greeted |-> "no", cache |-> "unknown"]

Init ==
    /\ seat = Fresh
    /\ session = {} /\ stopped = {} /\ barred = {}
    /\ locked = FALSE /\ window = FALSE
    /\ frozen = {} /\ counting = {} /\ spent = {}
    /\ saved = [frozen |-> {}, lock |-> NoLock, locked |-> FALSE]
    /\ pc = "idle" /\ todo = {} /\ who = NoOne /\ from = "event"
    /\ moved = FALSE /\ marker = (IF OstUnlocks THEN "none" ELSE "seen")
    /\ crashes = MaxCrashes /\ forgot = FALSE /\ graced = {}

-----------------------------------------------------------------------------
(* The host: an operation has the outcomes [seat, ok] it may end with.     *)

Ok(s) == [seat |-> s, ok |-> TRUE]
No(s) == [seat |-> s, ok |-> FALSE]
Fault(s) == IF s.faults > 0 THEN {No([s EXCEPT !.faults = @ - 1])} ELSE {}
Then(outs, Op(_)) == UNION {IF o.ok THEN Op(o.seat) ELSE {o} : o \in outs}
Else(outs, Op(_)) == UNION {IF o.ok THEN {o} ELSE Op(o.seat) : o \in outs}
Seats(outs) == {o.seat : o \in outs}

SwitchTo(s, vt) ==
    IF s.screen = vt THEN {Ok(s)}
    ELSE IF s.held = "on" THEN {No(s)}
    ELSE {Ok([s EXCEPT !.screen = vt])} \cup Fault(s)

SetSwitchLock(s, on) ==
    IF s.cache = on THEN s ELSE [s EXCEPT !.held = on, !.cache = on]

StartGui(s) ==
    {Ok([s EXCEPT !.cage = IF @ \in {"off", "failed"} THEN "starting" ELSE @])} \cup Fault(s)
StopGui(s) == [s EXCEPT !.cage = "off"]

StartText(s) == IF s.text THEN {Ok(s)} ELSE {Ok([s EXCEPT !.text = TRUE])} \cup Fault(s)
StopText(s)  == [s EXCEPT !.text = FALSE]

\* The display manager's login screen: on screen, on its way, or refused.
LoginScreen(s) ==
    {Ok([s EXCEPT !.screen = "greeter"]), Ok([s EXCEPT !.coming = TRUE])} \cup Fault(s)

-----------------------------------------------------------------------------
(* The lock screen.                                                        *)

SetMode(s, m) == [s EXCEPT !.shown.mode = m]
Retarget(s, p) == [s EXCEPT !.shown.subject = p]

BringUpText(s) ==
    Then(StartText(s), LAMBDA t :
    Then(Else(SwitchTo(SetSwitchLock(t, "off"), "text"), LAMBDA u : {No(StopText(u))}),
         LAMBDA u : LET v == SetSwitchLock(u, "on") IN {Ok(v)} \cup Fault(v)))

\* A slow graphical lock said hello, or gave up, behind the text lock.
CheckUpgrade(s) ==
    IF ~s.upgrade THEN {s}
    ELSE IF s.cage = "up"
    THEN LET t == SetSwitchLock(SetMode([s EXCEPT !.upgrade = FALSE], "gui"), "off")
         IN IF s.screen # "text" THEN {StopText(t)}
            ELSE {IF o.ok THEN StopText(o.seat) ELSE SetMode(StopGui(o.seat), "text")
                    : o \in SwitchTo(t, "gui")}
    ELSE LET gaveUp == StopGui([s EXCEPT !.upgrade = FALSE])
         IN IF s.cage = "failed" THEN {gaveUp} ELSE {s, gaveUp}

KeepAlive(s0) == UNION {
    IF s.shown.mode = "gui"
    THEN IF s.cage \in {"up", "silent"} THEN {Ok(s)}
         ELSE LET t == SetMode(StopGui(s), "text")
              IN IF s.screen = "gui" THEN BringUpText(t) ELSE StartText(t)
    ELSE StartText(s)
    : s \in CheckUpgrade(s0)}

BringToFront(s0) == Then(KeepAlive(s0), LAMBDA s :
    LET vt == s.shown.mode
        Hold(t) == {Ok(IF vt = "text" THEN SetSwitchLock(t, "on") ELSE t)}
    IN IF s.screen = vt THEN Hold(s)
       ELSE Then(SwitchTo(SetSwitchLock(s, "off"), vt), Hold))

\* Where the lock belongs: on screen as it is, in front of someone, or aside.
Placement(s) ==
    LET person == OnScreen(s)
    IN CASE s.screen = s.shown.mode -> [is |-> "hold", of |-> NoOne]
         [] s.screen # s.shown.mode /\ person # NoOne /\ person \in frozen
              -> [is |-> "front", of |-> person]
         [] s.screen # s.shown.mode /\ person # NoOne /\ person \notin frozen
              -> [is |-> "aside", of |-> NoOne]
         [] OTHER
              -> IF /\ ~(s.screen = "gui" /\ s.cage \notin {"off", "failed"})
                    /\ IF s.screen = "greeter" THEN s.greeted = "fresh" ELSE s.grace
                 THEN [is |-> "aside", of |-> NoOne]
                 ELSE [is |-> "front", of |-> s.shown.subject]

Greeted(s) == [s EXCEPT !.greeted = IF s.screen # "greeter" THEN "no"
                                    ELSE IF @ = "no" THEN "fresh" ELSE @]

Reassert(s0) == Then(KeepAlive(s0), LAMBDA s1 :
    LET s == Greeted(s1)
        text == s.shown.mode = "text"
        place == Placement(s)
    IN CASE place.is = "hold" ->
              {Ok(IF text /\ ~s.grace THEN SetSwitchLock(s, "on") ELSE s)}
         [] place.is = "front" ->
              BringToFront(Retarget([s EXCEPT !.grace = FALSE], place.of))
         [] place.is = "aside" ->
              LET t == IF text THEN SetSwitchLock(s, "off") ELSE s
              IN {Ok([t EXCEPT !.grace = @ \/ OnScreen(s) # NoOne])})

SwitchUser(s) ==
    LET t == SetSwitchLock([s EXCEPT !.grace = TRUE, !.greeted = "no"], "off")
        Refused(u) == LET v == [u EXCEPT !.grace = FALSE]
                      IN {IF v.shown.mode = "text" /\ v.screen = "text"
                          THEN SetSwitchLock(v, "on") ELSE v}
    IN UNION {IF o.ok THEN {o.seat} ELSE Refused(o.seat) : o \in LoginScreen(t)}

LetGo(s) == SetSwitchLock([s EXCEPT !.shown = NoLock, !.upgrade = FALSE,
                                    !.grace = FALSE, !.greeted = "no"], "off")
BackTo(s, vt) == IF vt = NoOne THEN {s} ELSE Seats(SwitchTo(s, vt))

Release(s) ==
    IF ~IsUp(s) THEN {s}
    ELSE LET t == LetGo(StopText(s))
             back == IF s.shown.subject \in session THEN s.shown.subject ELSE s.shown.back
         IN {StopGui(u) : u \in IF t.screen \in LockVts THEN BackTo(t, back) ELSE {t}}

\* Slip: the graphical lock keeps running behind the login screen.
HandToLoginScreenOnly(s) == {StopText(o.seat) : o \in LoginScreen(LetGo(s))}

HandToLoginScreen(s) ==
    LET t == LetGo(s)
    IN {StopGui(StopText(u)) : u \in
          IF t.screen \notin LockVts THEN {t}
          ELSE UNION {IF o.ok THEN {o.seat} ELSE BackTo(o.seat, s.shown.back)
                        : o \in LoginScreen(t)}}

-----------------------------------------------------------------------------
(* The agent's handlers, in the steps a crash or the machine can separate. *)

Thaw(ps) == stopped' = stopped \ ps

\* The seat watcher: what a step changed on screen, or of the sessions.
Watched == moved' = (moved \/ (pc # "off" /\ (seat'.screen # seat.screen
                                              \/ session' # session)))

Record(lock, pcs) == [saved EXCEPT !.frozen = pcs, !.lock = lock]
Persist == saved' = Record(seat'.shown, frozen' \cup counting' \cup spent')

\* What follows a present() that showed a lock, or did not.
Shown(f) == IF f = "end" THEN "save" ELSE "freeze"
Unshown(f) == IF f = "end" THEN "undo" ELSE "loop"

GiveUp(s, f) == /\ seat' \in Release(s)
                /\ pc' = Unshown(f)

TextInstead(s, f) == \E o \in BringUpText(SetMode(s, "text")) :
    \/ o.ok /\ seat' = o.seat /\ pc' = Shown(f)
    \/ ~o.ok /\ s.upgrade /\ seat' = o.seat /\ pc' = "late"
    \/ ~o.ok /\ ~s.upgrade /\ GiveUp(o.seat, f)

\* LockScreen::present, as far as its wait for the graphical lock.
Present(p, f) ==
    /\ who' = p /\ from' = f
    /\ IF IsUp(seat)
       THEN \E o \in BringToFront([Retarget(seat, p) EXCEPT !.grace = FALSE]) :
              /\ seat' = o.seat
              /\ pc' = IF o.ok THEN Shown(f) ELSE Unshown(f)
       ELSE LET back == IF seat.screen \in LockVts THEN NoOne ELSE seat.screen
                new == [seat EXCEPT !.grace = FALSE, !.upgrade = FALSE,
                          !.shown = [subject |-> p, back |-> back,
                                     mode |-> IF HasCage THEN "gui" ELSE "text"]]
            IN IF ~HasCage THEN TextInstead(new, f)
               ELSE \E o \in StartGui(new) :
                      IF ~o.ok THEN TextInstead(StopGui(o.seat), f)
                      ELSE /\ seat' \in Seats(SwitchTo(SetSwitchLock(o.seat, "off"), "gui"))
                           /\ pc' = "gui"

\* Said hello: on screen, if the switch works.  Gave up: the text lock.
\* Neither yet: the text lock meanwhile.
WaitGui ==
    /\ pc = "gui"
    /\ \/ /\ seat.cage = "up"
          /\ \E o \in SwitchTo(seat, "gui") :
               IF o.ok THEN seat' = o.seat /\ pc' = Shown(from)
               ELSE TextInstead(StopGui(o.seat), from)
       \/ seat.cage = "failed" /\ TextInstead(StopGui(seat), from)
       \/ /\ seat.cage \notin {"up", "failed"}
          /\ TextInstead([seat EXCEPT !.upgrade = TRUE], from)
    /\ UNCHANGED <<machine, stopped, pause, held, saved, todo, who, from, marker, history>>
    /\ Watched

\* No text lock either: the graphical one is the last hope.
WaitLate ==
    /\ pc = "late"
    /\ \/ /\ seat.cage = "up"
          /\ \E o \in SwitchTo(SetSwitchLock(SetMode([seat EXCEPT !.upgrade = FALSE],
                                                     "gui"), "off"), "gui") :
               IF o.ok THEN seat' = o.seat /\ pc' = Shown(from) ELSE GiveUp(o.seat, from)
       \/ seat.cage # "up" /\ GiveUp(seat, from)
    /\ UNCHANGED <<machine, stopped, pause, held, saved, todo, who, from, marker, history>>
    /\ Watched

\* stop_user: lock first where they have the screen, then freeze.
StopUser(p, f) ==
    IF p \notin session
    THEN pc' = "loop" /\ from' = f /\ UNCHANGED <<seat, who>>
    ELSE IF OnScreen(seat) = p \/ seat.shown.subject = p
    THEN Present(p, f)
    ELSE pc' = "freeze" /\ who' = p /\ from' = f /\ UNCHANGED seat

Freeze ==
    /\ pc = "freeze"
    /\ stopped' = stopped \cup {who}
    /\ frozen' = frozen \cup {who}
    /\ pc' = "save"
    /\ UNCHANGED <<seat, machine, pause, counting, spent, saved, todo, who, from,
                   moved, marker, history>>

\* The lock could not be shown for someone who was stopped already.
Undo ==
    /\ pc = "undo"
    /\ Thaw({who}) /\ frozen' = frozen \ {who}
    /\ pc' = "save"
    /\ UNCHANGED <<seat, machine, pause, counting, spent, saved, todo, who, from,
                   moved, marker, history>>

Save ==
    /\ pc = "save"
    /\ UNCHANGED held
    /\ UNCHANGED seat
    /\ Persist
    /\ IF from = "end" THEN pc' = "idle" /\ from' = "event"
       ELSE pc' = "loop" /\ UNCHANGED from
    /\ who' = NoOne
    /\ UNCHANGED <<machine, stopped, pause, todo, moved, marker, history>>

-----------------------------------------------------------------------------
(* The enforcement tick: everyone in turn, then the lock follows.          *)

\* Slip: a countdown that has run out is taken for none at all.
LockoutAgain(p, f) ==
    /\ pc' = "loop" /\ from' = f
    /\ IF p \in session \ counting
       THEN counting' = counting \cup {p} /\ spent' = spent \ {p}
       ELSE UNCHANGED <<counting, spent>>
    /\ UNCHANGED <<seat, who>>

\* A running save-your-work countdown leaves people be; one that ran out, a
\* stop that was announced, or nobody looking, stops them now.
Lockout(p, f) ==
    \/ /\ p \notin session \/ p \in counting
       /\ pc' = "loop" /\ from' = f /\ UNCHANGED <<seat, counting, spent, who>>
    \/ /\ p \in session /\ p \notin Pending /\ OnScreen(seat) = p
       /\ counting' = counting \cup {p}
       /\ pc' = "loop" /\ from' = f /\ UNCHANGED <<seat, spent, who>>
    \/ /\ p \in session /\ p \notin counting
       /\ spent' = spent \ {p} /\ UNCHANGED counting
       /\ StopUser(p, f)

\* `ost unlock` left its marker: everyone goes, and the rules with them.
Tick ==
    /\ pc = "idle"
    /\ pc' = "loop" /\ todo' = People /\ from' = "tick"
    /\ IF marker = "left"
       THEN /\ marker' = "seen" /\ barred' = {}
            /\ locked' = FALSE /\ window' = FALSE
            /\ Thaw(frozen) /\ frozen' = {} /\ counting' = {} /\ spent' = {}
            /\ saved' = [saved EXCEPT !.frozen = {}, !.lock = seat.shown, !.locked = FALSE]
       ELSE UNCHANGED <<marker, barred, pause, stopped, held, saved>>
    /\ UNCHANGED <<seat, session, who, moved, history>>

\* Slip: whoever is frozen has a verdict.
VerdictLatched(p) == p \in frozen \/ (p \in barred /\ p \in session)

\* should_evaluate_screen_time and the rules' verdict.
Verdict(p) == p \in barred /\ (p \in session \/ p \in frozen \/ p \in ClockRuled)

LoopUser(p) ==
    /\ pc = "loop" /\ from = "tick" /\ p \in todo
    /\ todo' = todo \ {p}
    /\ \/ /\ Paused /\ p \notin frozen
          /\ counting' = (IF Verdict(p) THEN counting ELSE counting \ {p})
          /\ spent' = (IF Verdict(p) THEN spent ELSE spent \ {p})
          /\ StopUser(p, "tick")
          /\ UNCHANGED <<stopped, frozen>>
       \/ /\ ~Paused /\ Verdict(p) /\ p \notin frozen
          /\ Lockout(p, "tick")
          /\ UNCHANGED <<stopped, frozen>>
       \/ /\ ~Paused /\ ~Verdict(p) /\ p \in frozen
          /\ Thaw({p}) /\ frozen' = frozen \ {p}
          /\ counting' = counting \ {p} /\ spent' = spent \ {p}
          /\ UNCHANGED <<seat, pc, who, from>>
       \/ /\ p \in frozen /\ (Paused \/ Verdict(p))
          /\ stopped' = IF p \in session THEN stopped \cup {p} ELSE stopped
          /\ counting' = (IF Verdict(p) THEN counting ELSE counting \ {p})
          /\ spent' = (IF Verdict(p) THEN spent ELSE spent \ {p})
          /\ UNCHANGED <<seat, frozen, pc, who, from>>
       \/ /\ p \notin frozen /\ ~Paused /\ ~Verdict(p)
          /\ counting' = counting \ {p} /\ spent' = spent \ {p}
          /\ UNCHANGED <<seat, stopped, frozen, pc, who, from>>
    /\ UNCHANGED <<machine, pause, saved, marker, history>>
    /\ Watched

\* The lock follows the frozen: gone with whom it stood for, handed to the
\* login screen when their session ended, kept where it belongs otherwise.
Reconcile ==
    /\ pc = "loop" /\ todo = {} /\ from' = "event"
    /\ LET person == OnScreen(seat)
           s == IF IsUp(seat) /\ person # NoOne /\ person \in frozen
                THEN Retarget(seat, person) ELSE seat
           subject == s.shown.subject
       IN \/ /\ ~IsUp(s)
             /\ pc' = "second" /\ UNCHANGED <<seat, stopped, held, saved>>
          \/ /\ IsUp(s) /\ subject \notin frozen
             /\ seat' \in Release(s)
             /\ pc' = "second" /\ UNCHANGED <<stopped, held, saved>>
          \/ /\ IsUp(s) /\ subject \in frozen /\ subject \notin session
             /\ seat' \in HandToLoginScreen(s)
             /\ pc' = "second" /\ UNCHANGED <<stopped, held, saved>>
          \/ /\ IsUp(s) /\ subject \in frozen \cap session
             /\ \E o \in Reassert(s) :
                  \/ /\ o.ok
                     /\ seat' = o.seat /\ pc' = "idle"
                     /\ UNCHANGED held /\ Persist
                     /\ UNCHANGED stopped
                  \/ /\ ~o.ok
                     /\ Thaw({subject}) /\ frozen' = frozen \ {subject}
                     /\ seat' \in Release(o.seat)
                     /\ pc' = "second" /\ UNCHANGED <<counting, spent, saved>>
    /\ UNCHANGED <<machine, pause, todo, who, marker, history>>
    /\ Watched

\* Slip: no lock to follow anyone, nobody looks who has the screen.
SecondNever ==
    /\ pc = "second" /\ pc' = "save" /\ from' = "end"
    /\ UNCHANGED <<seat, who, machine, stopped, pause, held, saved, todo, marker,
                   history, moved>>

\* No lock, but whoever has the screen is stopped.
Second ==
    /\ pc = "second"
    /\ LET person == OnScreen(seat)
       IN IF person # NoOne /\ person \in frozen
          THEN Present(person, "end")
          ELSE pc' = "save" /\ from' = "end" /\ UNCHANGED <<seat, who>>
    /\ UNCHANGED <<machine, stopped, pause, held, saved, todo, marker, history>>
    /\ Watched

-----------------------------------------------------------------------------
(* What wakes the agent between ticks.                                     *)

\* The screen or the sessions changed: whoever is there now and should be
\* stopped is, and the lock follows.
SeatChanged ==
    /\ pc = "idle" /\ moved
    /\ todo' = {}
    /\ LET p == OnScreen(seat)
           fresh == p # NoOne /\ p \notin frozen \cup Pending
       IN \/ /\ fresh /\ Paused
             /\ StopUser(p, "event") /\ UNCHANGED <<counting, spent>>
          \/ /\ fresh /\ ~Paused /\ p \in barred
             /\ Lockout(p, "event")
          \/ /\ ~(fresh /\ (Paused \/ p \in barred))
             /\ pc' = "loop" /\ from' = "event" /\ UNCHANGED <<seat, counting, spent, who>>
    /\ moved' = (seat'.screen # seat.screen)
    /\ UNCHANGED <<machine, stopped, pause, frozen, saved, marker, history>>

\* The graphical lock's first word while the text lock stood in for it.
GuiUp ==
    /\ pc = "idle" /\ seat.upgrade /\ seat.cage = "up"
    /\ pc' = "loop" /\ from' = "event" /\ todo' = {}
    /\ UNCHANGED <<seat, machine, stopped, pause, held, saved, who, moved, marker, history>>

\* A lock someone can use: its UI answers where it is on screen.
Usable == /\ IsUp(seat) /\ seat.screen = seat.shown.mode
          /\ IF seat.screen = "gui" THEN seat.cage = "up" ELSE seat.text

\* The unlock code: an override for this person, every lock cleared, all thawed.
Code ==
    /\ pc = "idle" /\ Usable
    /\ barred' = barred \ {seat.shown.subject}
    /\ locked' = FALSE /\ window' = FALSE
    /\ Thaw(frozen) /\ frozen' = {} /\ counting' = {} /\ spent' = {}
    /\ saved' = [frozen |-> {}, lock |-> seat.shown, locked |-> FALSE]
    /\ pc' = "loop" /\ from' = "event" /\ todo' = {}
    /\ UNCHANGED <<seat, session, who, moved, marker, history>>

\* 15 more minutes of one's own, where one's own rules are what stops.
SnoozeNow ==
    /\ pc = "idle" /\ Usable
    /\ LET p == seat.shown.subject
       IN /\ p \in barred /\ ~locked
          /\ barred' = barred \ {p}
          /\ Thaw({p}) /\ frozen' = frozen \ {p}
          /\ counting' = counting \ {p} /\ spent' = spent \ {p}
    /\ pc' = "loop" /\ from' = "event" /\ todo' = {}
    /\ UNCHANGED <<seat, session, pause, saved, who, moved, marker, history>>

AskSwitchUser ==
    /\ pc = "idle" /\ Usable /\ ~Paused
    /\ seat' \in SwitchUser(seat)
    /\ pc' = "loop" /\ from' = "event" /\ todo' = {}
    /\ UNCHANGED <<machine, stopped, pause, held, saved, who, marker, history>>
    /\ Watched

-----------------------------------------------------------------------------
(* Commands; the network loop reconciles after each.                       *)

\* A pause.  Without a save-your-work window everyone is stopped here; with
\* one the tick does it when the window closes.
CmdLock(grace) ==
    /\ pc = "idle"
    /\ locked' = TRUE /\ window' = grace
    /\ saved' = [saved EXCEPT !.locked = TRUE]
    /\ pc' = "loop" /\ todo' = (IF grace THEN {} ELSE People)
    /\ from' = "pause"
    /\ UNCHANGED <<seat, machine, stopped, held, who, moved, marker, history>>

PauseUser(p) ==
    /\ pc = "loop" /\ from = "pause" /\ p \in todo
    /\ todo' = todo \ {p}
    /\ StopUser(p, "pause")
    /\ UNCHANGED <<machine, stopped, pause, held, saved, marker, history>>
    /\ Watched

\* A resume, with time for some or for nobody: whoever the rules let go goes.
CmdUnlock(given) ==
    /\ pc = "idle"
    /\ locked' = FALSE /\ window' = FALSE
    /\ barred' = barred \ given
    /\ counting' = {} /\ spent' = {}
    /\ frozen' = frozen \cap barred'
    /\ Thaw(frozen \ barred')
    /\ saved' = [saved EXCEPT !.frozen = frozen', !.lock = seat.shown, !.locked = FALSE]
    /\ pc' = "loop" /\ from' = "event" /\ todo' = {}
    /\ UNCHANGED <<seat, session, who, moved, marker, history>>

\* Time given: they go at once unless a pause holds everyone.
CmdCredit(p) ==
    /\ pc = "idle"
    /\ barred' = barred \ {p}
    /\ IF locked THEN UNCHANGED <<stopped, held, saved>>
       ELSE /\ counting' = counting \ {p} /\ spent' = spent \ {p}
            /\ frozen' = frozen \ {p}
            /\ IF p \in frozen THEN Thaw({p}) /\ UNCHANGED seat /\ Persist
               ELSE UNCHANGED <<stopped, saved>>
    /\ pc' = "loop" /\ from' = "event" /\ todo' = {}
    /\ UNCHANGED <<seat, session, pause, who, moved, marker, history>>

-----------------------------------------------------------------------------
(* The agent dies, the power goes, a new agent starts; another process.    *)

\* The text lock and the seat watcher are threads of the agent.
Crash ==
    /\ pc # "off" /\ crashes > 0
    /\ pc' = "off" /\ crashes' = crashes - 1
    /\ seat' = [seat EXCEPT !.text = FALSE, !.shown = NoLock, !.upgrade = FALSE,
                            !.grace = FALSE, !.greeted = "no", !.cache = "unknown"]
    /\ frozen' = {} /\ counting' = {} /\ spent' = {}
    /\ locked' = FALSE /\ window' = FALSE
    /\ todo' = {} /\ who' = NoOne /\ from' = "event" /\ moved' = FALSE
    /\ forgot' = (forgot \/ (IsUp(seat) /\ saved.lock = NoLock))
    /\ UNCHANGED <<machine, stopped, saved, marker>>

\* A lock recorded in an earlier boot is history.
PowerCycle ==
    /\ pc = "off"
    /\ seat' = [Fresh EXCEPT !.faults = seat.faults]
    /\ session' = {} /\ stopped' = {}
    /\ saved' = [saved EXCEPT !.lock = NoLock]
    /\ UNCHANGED <<barred, pause, held, pc, todo, who, from, moved, marker, history>>

\* Slip: a restart in a countdown starts it over.
BootAfresh ==
    /\ pc = "off" /\ pc' = "loop" /\ todo' = {}
    /\ seat' = [seat EXCEPT !.shown = saved.lock]
    /\ frozen' = stopped /\ locked' = saved.locked
    /\ marker' = IF marker = "left" THEN "seen" ELSE marker
    /\ UNCHANGED <<machine, stopped, counting, spent, window, saved, who, from, moved, history>>

\* Agent::new, adopt_frozen, then the first reconcile.
Boot ==
    /\ pc = "off"
    /\ seat' = [seat EXCEPT !.shown = saved.lock,
                  !.cage = IF saved.lock # NoLock /\ @ = "hung" THEN "silent" ELSE @]
    /\ spent' = saved.frozen /\ UNCHANGED counting
    /\ frozen' = stopped
    /\ locked' = saved.locked /\ UNCHANGED window
    /\ marker' = IF marker = "left" THEN "seen" ELSE marker
    /\ pc' = "loop" /\ todo' = {}
    /\ UNCHANGED <<machine, stopped, saved, who, from, moved, history>>

\* `ost unlock`, a process of its own: everyone thawed and the recorded lock
\* taken down; then the marker.
OstTearDown ==
    /\ marker = "none" /\ marker' = "torn"
    /\ stopped' = {}
    /\ \E r \in Release([seat EXCEPT !.shown = saved.lock, !.cache = "unknown"]) :
         seat' = [seat EXCEPT !.screen = r.screen, !.held = r.held, !.cage = r.cage,
                              !.faults = r.faults]
    /\ UNCHANGED <<machine, pause, held, saved, pc, todo, who, from, history>>
    /\ Watched

OstMark ==
    /\ marker = "torn" /\ marker' = "left"
    /\ saved' = [saved EXCEPT !.locked = FALSE]
    /\ UNCHANGED <<seat, machine, stopped, pause, held, pc, todo, who, from, moved, history>>

-----------------------------------------------------------------------------
(* The machine and the people at it.                                       *)

Elsewhere == <<stopped, pause, held, saved, pc, todo, who, from, marker, history>>

\* Between handlers, while one waits, and where one has looked at the
\* screen and not yet acted on what it saw.
Outside == pc \in {"off", "idle", "gui", "late", "freeze", "second"}

\* cage runs without -s: the keyboard does not leave its terminal.
KeyboardSwitches == /\ seat.held = "off"
                    /\ ~(seat.screen = "gui" /\ seat.cage \in {"up", "silent", "hung"})

PersonSwitches(vt) ==
    /\ Outside /\ KeyboardSwitches /\ vt # seat.screen
    /\ vt \in session \cup {"greeter", "empty"}
    /\ seat' = [seat EXCEPT !.screen = vt, !.coming = @ /\ vt # "greeter"]
    /\ UNCHANGED <<machine, Elsewhere>>
    /\ Watched

LogIn(p) ==
    /\ Outside
    /\ seat.screen = "greeter" /\ p \notin session
    /\ session' = session \cup {p}
    /\ seat' = [seat EXCEPT !.screen = IF @ = "greeter" /\ seat.held = "off" THEN p ELSE @]
    /\ UNCHANGED <<barred, Elsewhere>>
    /\ Watched

\* A session ends, and what was frozen with it is gone.
LogOut(p) ==
    /\ Outside
    /\ p \in session
    /\ session' = session \ {p} /\ Thaw({p})
    /\ seat' = [seat EXCEPT !.screen = IF @ = p THEN "empty" ELSE @,
                            !.coming = @ \/ seat.screen = p]
    /\ UNCHANGED <<barred, pause, held, saved, pc, todo, who, from, marker, history>>
    /\ Watched

\* The display manager switches to its login screen, unless switching is held.
GreeterComes ==
    /\ Outside /\ seat.coming
    /\ seat' = [seat EXCEPT !.coming = FALSE,
                            !.screen = IF seat.held = "off" THEN "greeter" ELSE @]
    /\ UNCHANGED <<machine, Elsewhere>>
    /\ Watched

CageSpeaks ==
    /\ Outside /\ seat.cage = "starting"
    /\ seat' = [seat EXCEPT !.cage = "up"]
    /\ UNCHANGED <<machine, moved, Elsewhere>>

\* Faults: cage exits or stops answering, the text lock's terminal hangs up.
UiFails ==
    /\ Outside /\ seat.faults > 0
    /\ \/ /\ seat.cage \in {"starting", "up"}
          /\ seat' = [seat EXCEPT !.cage = "failed", !.faults = @ - 1]
       \/ /\ seat.cage = "up"
          /\ seat' = [seat EXCEPT !.cage = "silent", !.faults = @ - 1]
       \/ /\ seat.text
          /\ seat' = [seat EXCEPT !.text = FALSE, !.faults = @ - 1]
    /\ UNCHANGED <<machine, moved, Elsewhere>>

\* A handler's own steps take no time, its waits and the pauses between
\* handlers do; the rules' clock (trusted_now) stands still while one runs.
Waiting == pc \in {"idle", "gui", "late"}

\* Time: a silent UI is stale, the graces end, the countdowns run out.
UiStale ==
    /\ Waiting /\ seat.cage = "silent"
    /\ seat' = [seat EXCEPT !.cage = "hung"]
    /\ UNCHANGED <<machine, moved, Elsewhere>>

GraceEnds ==
    /\ Waiting
    /\ \/ seat.grace /\ seat' = [seat EXCEPT !.grace = FALSE]
       \/ seat.greeted = "fresh" /\ seat' = [seat EXCEPT !.greeted = "old"]
    /\ UNCHANGED <<machine, moved, Elsewhere>>

CountdownEnds(p) ==
    /\ Waiting /\ p \in counting
    /\ counting' = counting \ {p} /\ spent' = spent \cup {p}
    /\ UNCHANGED <<seat, machine, stopped, pause, frozen, saved, pc, todo, who, from,
                   moved, marker, history>>

WindowCloses ==
    /\ Waiting /\ window /\ window' = FALSE
    /\ UNCHANGED <<seat, machine, stopped, locked, held, saved, pc, todo, who, from,
                   moved, marker, history>>

\* Budgets run out and days begin, bedtimes come and go, overrides end.
RulesChange(p) ==
    /\ pc \in {"idle", "off"}
    /\ barred' = IF p \in barred THEN barred \ {p} ELSE barred \cup {p}
    /\ UNCHANGED <<seat, session, moved, Elsewhere>>

-----------------------------------------------------------------------------
Handler == \/ Tick \/ \E p \in People : LoopUser(p) \/ PauseUser(p)
           \/ WaitGui \/ WaitLate \/ Freeze \/ Undo \/ Save
           \/ Reconcile \/ Second \/ SeatChanged \/ GuiUp

Person == \/ Code \/ SnoozeNow \/ AskSwitchUser
          \/ \E g \in BOOLEAN : CmdLock(g)
          \/ \E ps \in SUBSET People : CmdUnlock(ps)
          \/ \E p \in People : CmdCredit(p) \/ LogIn(p) \/ LogOut(p) \/ RulesChange(p)
          \/ \E vt \in Vts : PersonSwitches(vt)
          \/ OstTearDown \/ OstMark

Machine == \/ GreeterComes \/ CageSpeaks \/ UiFails \/ UiStale \/ GraceEnds
           \/ \E p \in People : CountdownEnds(p)
           \/ WindowCloses \/ Crash \/ PowerCycle \/ Boot

Steps == \/ \E p \in People : LoopUser(p) \/ PauseUser(p)
         \/ WaitGui \/ WaitLate \/ Freeze \/ Undo \/ Save \/ Reconcile \/ Second

\* History: who was stopped, or in a countdown, when that was last saved, and
\* has not been let off by the agent since.
Remember ==
    LET before == frozen \cup Pending
        after  == frozen' \cup counting' \cup spent'
    IN graced' = IF "off" \in {pc, pc'} THEN graced
                 ELSE IF pc = "save" /\ pc' # "save" THEN graced \cup after
                 ELSE graced \ (before \ after)

Next == (Handler \/ Person \/ Machine) /\ Remember
Spec == Init /\ [][Next]_vars

-----------------------------------------------------------------------------
\* Between handlers, with nothing left for the seat watcher to report.
AtRest == pc = "idle" /\ ~moved

\* Whoever is stopped is not what is on screen: their desktop, frozen with
\* nothing in front of it, would be a brick.  It is so whatever they switch
\* to, sign in to or fail, once the agent has looked (placement,
\* reconcile_lock, on_seat_changed).
StoppedStayCovered == AtRest => OnScreen(seat) \notin frozen

\* Whoever the kernel has frozen is in the agent's `frozen`, also after it
\* died at any point of a stop or a release (adopt_frozen): nobody else would
\* ever be thawed.  And a lock leaves nothing behind: VT switching is held only
\* by a text lock that is on screen, and with no lock shown no compositor and
\* no text lock runs (release, hand_to_login_screen, check_upgrade, a restart
\* that adopts the lock).  `forgot`: the agent died in the one window in which
\* it had a lock it had not yet saved.
NothingLeftBehind ==
    /\ pc = "idle" => stopped \subseteq frozen
    /\ AtRest /\ ~forgot =>
         /\ seat.held = "on" => IsUp(seat) /\ seat.shown.mode = "text" /\ seat.screen = "text"
         /\ ~IsUp(seat) => seat.cage = "off" /\ ~seat.text

\* What the comment on `Shown` promises: a restarted agent adopts the lock
\* it left up instead of forgetting it.  No lock, then nothing of one.
LockNotForgotten ==
    AtRest /\ ~IsUp(seat) => seat.cage = "off" /\ seat.held = "off"

\* persist_freeze_state records a countdown as a freeze on purpose: whoever
\* was in one or frozen gets no second save-your-work countdown, through any
\* crash, power cycle or change of the screen, before they are let off.
NoFreshCountdown ==
    [][\A p \in People : p \in counting' \ counting => p \notin graced]_vars

-----------------------------------------------------------------------------
(* The agent's handlers run to their end, it ticks for ever and is started *)
(* again; time passes, also for what a handler keeps waiting.  Nothing is  *)
(* assumed of the people, the commands, the login screen or the compositor.*)
Fairness ==
    /\ WF_core(Steps) /\ SF_core(Tick) /\ WF_core(Boot)
    /\ \A p \in People : SF_core(CountdownEnds(p))
    /\ SF_core(GraceEnds) /\ SF_core(WindowCloses) /\ SF_core(UiStale)
FairSpec == Spec /\ Fairness

\* Whoever the rules let be, with no pause, ends up thawed and stays so,
\* whatever the lock's state was (the tick's Unfreeze, adopt_frozen).  With
\* nobody to stop, the lock goes too, from the screen and from behind whoever
\* has it, and lets go of VT switching.
FreedInTheEnd ==
    /\ \A p \in People : <>[](p \notin barred /\ ~locked) => <>[](p \notin stopped \cup frozen)
    /\ <>[](barred = {} /\ ~locked) /\ []~forgot
         => <>[](~IsUp(seat) /\ seat.held = "off" /\ seat.cage = "off")

\* Someone signed in whom the rules stop is frozen in the end and stays so:
\* no switching, failing UI or restart puts it off for ever.  A resume and a
\* code start the countdown again (pending_freeze.clear()).
Resumes == Code \/ \E ps \in SUBSET People : CmdUnlock(ps)
StopLands ==
    \A p \in People :
        <>[](p \in barred \cap session) /\ <>[][~Resumes]_core => <>[](p \in frozen)
=============================================================================
