-------------------------- MODULE ScreenLockProofs --------------------------
(***************************************************************************)
(* What holds of the lock for any people, any number of faults and any     *)
(* number of crashes: nobody stopped is on screen, nothing of a lock stays *)
(* behind, and no saved countdown starts again.                            *)
(*                                                                         *)
(* The host's operations come first, one lemma each for the outcomes it    *)
(* may end with; then the lock screen's, built from them; then what a      *)
(* handler that shows a lock ends with (Outcome); then the steps, by what  *)
(* they do to the seat; then the invariants, one after another.            *)
(***************************************************************************)
EXTENDS ScreenLock, TLAPS

-----------------------------------------------------------------------------
(* Types.                                                                  *)

Switch      == {"on", "off"}
CageStates  == {"off", "starting", "up", "silent", "hung", "failed"}
GreetStates == {"no", "fresh", "old"}
CacheStates == {"unknown", "on", "off"}
LockRecord  == [subject : People \cup {NoOne}, mode : LockVts, back : Vts \cup {NoOne}]
Seat        == [screen : Vts, held : Switch, cage : CageStates, text : BOOLEAN,
                coming : BOOLEAN, faults : Nat, shown : LockRecord, upgrade : BOOLEAN,
                grace : BOOLEAN, greeted : GreetStates, cache : CacheStates]

\* Switching is held while the lock's own terminal is on screen, never else;
\* where the lock screen believes it let go of it, it has.
Firm(s) == /\ s.cache = "off" => s.held = "off"
           /\ s.held = "on" => s.screen = "text"

\* A lock that holds switching is the text lock.
TextHeld(s) == s.held = "on" => s.shown.mode = "text"

\* With no lock shown there is nothing of one.
Gone(s) == ~IsUp(s) => s.held = "off" /\ s.cage = "off" /\ ~s.text

-----------------------------------------------------------------------------
(* One field of the seat at a time.                                        *)

LEMMA ScreenSet ==
    ASSUME NEW s \in Seat, NEW v \in Vts
    PROVE  LET t == [s EXCEPT !.screen = v]
           IN /\ t \in Seat /\ t.screen = v
              /\ t.held = s.held /\ t.cage = s.cage /\ t.text = s.text /\ t.shown = s.shown
              /\ t.upgrade = s.upgrade /\ t.grace = s.grace /\ t.cache = s.cache
BY DEF Seat

LEMMA HeldSet ==
    ASSUME NEW s \in Seat, NEW v \in Switch
    PROVE  LET t == [s EXCEPT !.held = v]
           IN /\ t \in Seat /\ t.held = v
              /\ t.screen = s.screen /\ t.cage = s.cage /\ t.text = s.text /\ t.shown = s.shown
              /\ t.upgrade = s.upgrade /\ t.grace = s.grace /\ t.cache = s.cache
BY DEF Seat

LEMMA CageSet ==
    ASSUME NEW s \in Seat, NEW v \in CageStates
    PROVE  LET t == [s EXCEPT !.cage = v]
           IN /\ t \in Seat /\ t.cage = v
              /\ t.screen = s.screen /\ t.held = s.held /\ t.text = s.text /\ t.shown = s.shown
              /\ t.upgrade = s.upgrade /\ t.grace = s.grace /\ t.cache = s.cache
BY DEF Seat

LEMMA TextSet ==
    ASSUME NEW s \in Seat, NEW v \in BOOLEAN
    PROVE  LET t == [s EXCEPT !.text = v]
           IN /\ t \in Seat /\ t.text = v
              /\ t.screen = s.screen /\ t.held = s.held /\ t.cage = s.cage /\ t.shown = s.shown
              /\ t.upgrade = s.upgrade /\ t.grace = s.grace /\ t.cache = s.cache
BY DEF Seat

LEMMA ComingSet ==
    ASSUME NEW s \in Seat, NEW v \in BOOLEAN
    PROVE  LET t == [s EXCEPT !.coming = v]
           IN /\ t \in Seat
              /\ t.screen = s.screen /\ t.held = s.held /\ t.cage = s.cage /\ t.text = s.text
              /\ t.shown = s.shown /\ t.upgrade = s.upgrade /\ t.grace = s.grace /\ t.cache = s.cache
BY DEF Seat

LEMMA ShownSet ==
    ASSUME NEW s \in Seat, NEW v \in LockRecord
    PROVE  LET t == [s EXCEPT !.shown = v]
           IN /\ t \in Seat /\ t.shown = v
              /\ t.screen = s.screen /\ t.held = s.held /\ t.cage = s.cage /\ t.text = s.text
              /\ t.upgrade = s.upgrade /\ t.grace = s.grace /\ t.cache = s.cache
BY DEF Seat

LEMMA UpgradeSet ==
    ASSUME NEW s \in Seat, NEW v \in BOOLEAN
    PROVE  LET t == [s EXCEPT !.upgrade = v]
           IN /\ t \in Seat /\ t.upgrade = v
              /\ t.screen = s.screen /\ t.held = s.held /\ t.cage = s.cage /\ t.text = s.text
              /\ t.shown = s.shown /\ t.grace = s.grace /\ t.cache = s.cache
BY DEF Seat

LEMMA GraceSet ==
    ASSUME NEW s \in Seat, NEW v \in BOOLEAN
    PROVE  LET t == [s EXCEPT !.grace = v]
           IN /\ t \in Seat /\ t.grace = v
              /\ t.screen = s.screen /\ t.held = s.held /\ t.cage = s.cage /\ t.text = s.text
              /\ t.shown = s.shown /\ t.upgrade = s.upgrade /\ t.cache = s.cache
BY DEF Seat

LEMMA GreetedSet ==
    ASSUME NEW s \in Seat, NEW v \in GreetStates
    PROVE  LET t == [s EXCEPT !.greeted = v]
           IN /\ t \in Seat
              /\ t.screen = s.screen /\ t.held = s.held /\ t.cage = s.cage /\ t.text = s.text
              /\ t.shown = s.shown /\ t.upgrade = s.upgrade /\ t.grace = s.grace /\ t.cache = s.cache
BY DEF Seat

LEMMA CacheSet ==
    ASSUME NEW s \in Seat, NEW v \in CacheStates
    PROVE  LET t == [s EXCEPT !.cache = v]
           IN /\ t \in Seat /\ t.cache = v
              /\ t.screen = s.screen /\ t.held = s.held /\ t.cage = s.cage /\ t.text = s.text
              /\ t.shown = s.shown /\ t.upgrade = s.upgrade /\ t.grace = s.grace
BY DEF Seat

LEMMA FaultSpent ==
    ASSUME NEW s \in Seat, s.faults > 0
    PROVE  LET t == [s EXCEPT !.faults = @ - 1]
           IN /\ t \in Seat
              /\ t.screen = s.screen /\ t.held = s.held /\ t.cage = s.cage /\ t.text = s.text
              /\ t.shown = s.shown /\ t.upgrade = s.upgrade /\ t.grace = s.grace /\ t.cache = s.cache
BY DEF Seat

LEMMA LockReset ==
    ASSUME NEW s \in Seat
    PROVE  LET t == [s EXCEPT !.shown = NoLock, !.upgrade = FALSE,
                              !.grace = FALSE, !.greeted = "no"]
           IN /\ t \in Seat /\ t.screen = s.screen
              /\ t.held = s.held /\ t.cage = s.cage /\ t.text = s.text /\ t.shown = NoLock
              /\ t.grace = FALSE /\ t.cache = s.cache /\ t.upgrade = FALSE
<1> DEFINE a == [s EXCEPT !.shown = NoLock]
           b == [a EXCEPT !.upgrade = FALSE]
           c == [b EXCEPT !.grace = FALSE]
           d == [c EXCEPT !.greeted = "no"]
           t == [s EXCEPT !.shown = NoLock, !.upgrade = FALSE,
                              !.grace = FALSE, !.greeted = "no"]
<1>1. NoLock \in LockRecord
  BY DEF NoLock, LockRecord, LockVts
<1>2. t = d
  OBVIOUS
<1>3. a \in Seat /\ b \in Seat /\ c \in Seat /\ d \in Seat
  BY <1>1, ShownSet, UpgradeSet, GraceSet, GreetedSet DEF GreetStates
<1> QED
  BY <1>1, <1>2, <1>3, ShownSet, UpgradeSet, GraceSet, GreetedSet DEF GreetStates
-----------------------------------------------------------------------------
(* The host's operations.                                                  *)

LEMMA OkIs ==
    ASSUME NEW s
    PROVE  Ok(s).ok /\ Ok(s).seat = s
BY DEF Ok

LEMMA NoIs ==
    ASSUME NEW s
    PROVE  ~No(s).ok /\ No(s).seat = s
BY DEF No

LEMMA SwitchLockSet ==
    ASSUME NEW s \in Seat, NEW on \in Switch
    PROVE  LET t == SetSwitchLock(s, on)
           IN /\ t \in Seat /\ t.screen = s.screen
              /\ t.cage = s.cage /\ t.text = s.text /\ t.shown = s.shown
              /\ t.grace = s.grace /\ t.upgrade = s.upgrade
              /\ t.held = on \/ (t = s /\ s.cache = on)
              /\ t.cache = on
<1> DEFINE a == [s EXCEPT !.held = on]
           b == [a EXCEPT !.cache = on]
           t == SetSwitchLock(s, on)
<1>1. t = b \/ (t = s /\ s.cache = on)
  BY DEF SetSwitchLock
<1>2. /\ on \in CacheStates
      /\ a \in Seat /\ a.held = on /\ a.screen = s.screen
      /\ a.cage = s.cage /\ a.text = s.text /\ a.shown = s.shown
      /\ a.grace = s.grace /\ a.upgrade = s.upgrade
  BY HeldSet DEF CacheStates, Switch
<1> HIDE DEF a
<1>3. /\ b \in Seat /\ b.held = on /\ b.cache = on /\ b.screen = s.screen
      /\ b.cage = s.cage /\ b.text = s.text /\ b.shown = s.shown
      /\ b.grace = s.grace /\ b.upgrade = s.upgrade
  BY <1>2, CacheSet
<1> HIDE DEF b
<1> QED
  BY <1>1, <1>3

\* With switching let go, and with it held by what is on screen.
LEMMA SwitchLockOff ==
    ASSUME NEW s \in Seat, Firm(s)
    PROVE  LET t == SetSwitchLock(s, "off")
           IN /\ t \in Seat /\ Firm(t) /\ t.held = "off" /\ t.screen = s.screen
              /\ t.cage = s.cage /\ t.text = s.text /\ t.shown = s.shown
              /\ t.grace = s.grace /\ t.upgrade = s.upgrade
<1>1. "off" \in Switch
  BY DEF Switch
<1> QED
  BY <1>1, SwitchLockSet DEF Firm

LEMMA SwitchLockOn ==
    ASSUME NEW s \in Seat, Firm(s), s.screen = "text"
    PROVE  LET t == SetSwitchLock(s, "on")
           IN /\ t \in Seat /\ Firm(t) /\ t.screen = s.screen
              /\ t.cage = s.cage /\ t.text = s.text /\ t.shown = s.shown
              /\ t.grace = s.grace /\ t.upgrade = s.upgrade
<1>1. "on" \in Switch
  BY DEF Switch
<1> QED
  BY <1>1, SwitchLockSet DEF Firm

LEMMA FaultIs ==
    ASSUME NEW s \in Seat, NEW o \in Fault(s)
    PROVE  /\ ~o.ok /\ o.seat \in Seat /\ o.seat.screen = s.screen
           /\ o.seat.held = s.held /\ o.seat.cage = s.cage /\ o.seat.text = s.text
           /\ o.seat.shown = s.shown /\ o.seat.upgrade = s.upgrade
           /\ o.seat.grace = s.grace /\ o.seat.cache = s.cache
<1>1. s.faults > 0 /\ o = No([s EXCEPT !.faults = @ - 1])
  BY DEF Fault
<1> QED
  BY <1>1, FaultSpent DEF No

\* A switch that works shows what was asked for; one that does not, and every
\* one while switching is held, changes nothing.
LEMMA SwitchToIs ==
    ASSUME NEW s \in Seat, Firm(s), NEW vt \in Vts, NEW o \in SwitchTo(s, vt)
    PROVE  /\ o.seat \in Seat /\ Firm(o.seat)
           /\ o.seat.screen = (IF o.ok THEN vt ELSE s.screen)
           /\ o.seat.held = s.held /\ o.seat.cage = s.cage /\ o.seat.text = s.text
           /\ o.seat.shown = s.shown /\ o.seat.upgrade = s.upgrade
           /\ o.seat.grace = s.grace
<1>1. \/ s.screen = vt /\ o = Ok(s)
      \/ o = No(s)
      \/ s.held # "on" /\ o = Ok([s EXCEPT !.screen = vt])
      \/ o \in Fault(s)
  BY DEF SwitchTo
<1> DEFINE t == [s EXCEPT !.screen = vt]
<1>2. /\ t \in Seat /\ t.screen = vt
      /\ t.held = s.held /\ t.cage = s.cage /\ t.text = s.text /\ t.shown = s.shown
      /\ t.upgrade = s.upgrade /\ t.grace = s.grace /\ t.cache = s.cache
  BY ScreenSet
<1>3. s.held # "on" => Firm(t)
  BY <1>2 DEF Firm
<1> HIDE DEF t
<1>4. CASE s.screen = vt /\ o = Ok(s)
  BY <1>4, OkIs
<1>5. CASE o = No(s)
  BY <1>5, NoIs
<1>6. CASE s.held # "on" /\ o = Ok(t)
  BY <1>2, <1>3, <1>6, OkIs
<1>7. CASE o \in Fault(s)
  BY <1>7, FaultIs DEF Firm
<1> QED
  BY <1>1, <1>4, <1>5, <1>6, <1>7 DEF t

LEMMA LoginScreenIs ==
    ASSUME NEW s \in Seat, s.held = "off", NEW o \in LoginScreen(s)
    PROVE  /\ o.seat \in Seat /\ Firm(o.seat) /\ o.seat.held = "off"
           /\ o.seat.cage = s.cage /\ o.seat.text = s.text
           /\ o.seat.shown = s.shown /\ o.seat.upgrade = s.upgrade
           /\ o.seat.grace = s.grace
<1>1. \/ o = Ok([s EXCEPT !.screen = "greeter"])
      \/ o = Ok([s EXCEPT !.coming = TRUE])
      \/ o \in Fault(s)
  BY DEF LoginScreen
<1> DEFINE t == [s EXCEPT !.screen = "greeter"]
           c == [s EXCEPT !.coming = TRUE]
<1>2. /\ t \in Seat /\ t.held = s.held /\ t.cage = s.cage /\ t.text = s.text
      /\ t.shown = s.shown /\ t.upgrade = s.upgrade /\ t.grace = s.grace
  BY ScreenSet DEF Vts
<1>3. /\ c \in Seat /\ c.held = s.held /\ c.cage = s.cage /\ c.text = s.text
      /\ c.shown = s.shown /\ c.upgrade = s.upgrade /\ c.grace = s.grace
  BY ComingSet
<1>4. o = Ok(t) \/ o = Ok(c) \/ o \in Fault(s)
  BY <1>1
<1> HIDE DEF t, c
<1> QED
  BY <1>2, <1>3, <1>4, FaultIs, OkIs DEF Firm

LEMMA StartTextIs ==
    ASSUME NEW s \in Seat, NEW o \in StartText(s)
    PROVE  /\ o.seat \in Seat /\ o.seat.screen = s.screen
           /\ o.seat.held = s.held /\ o.seat.cage = s.cage
           /\ o.seat.shown = s.shown /\ o.seat.upgrade = s.upgrade
           /\ o.seat.grace = s.grace /\ o.seat.cache = s.cache
<1>1. o = Ok(s) \/ o = Ok([s EXCEPT !.text = TRUE]) \/ o \in Fault(s)
  BY DEF StartText
<1> DEFINE t == [s EXCEPT !.text = TRUE]
<1>2. /\ t \in Seat /\ t.screen = s.screen
      /\ t.held = s.held /\ t.cage = s.cage
      /\ t.shown = s.shown /\ t.upgrade = s.upgrade
      /\ t.grace = s.grace /\ t.cache = s.cache
  BY TextSet
<1>3. o = Ok(s) \/ o = Ok(t) \/ o \in Fault(s)
  BY <1>1
<1> HIDE DEF t
<1> QED
  BY <1>2, <1>3, FaultIs, OkIs

LEMMA StopTextIs ==
    ASSUME NEW s \in Seat
    PROVE  LET t == StopText(s)
           IN /\ t \in Seat /\ t.screen = s.screen
              /\ t.held = s.held /\ t.cage = s.cage /\ t.text = FALSE
              /\ t.shown = s.shown /\ t.upgrade = s.upgrade
              /\ t.grace = s.grace /\ t.cache = s.cache
BY TextSet DEF StopText

LEMMA StartGuiIs ==
    ASSUME NEW s \in Seat, NEW o \in StartGui(s)
    PROVE  /\ o.seat \in Seat /\ o.seat.screen = s.screen
           /\ o.seat.held = s.held /\ o.seat.text = s.text
           /\ o.seat.shown = s.shown /\ o.seat.upgrade = s.upgrade
           /\ o.seat.grace = s.grace /\ o.seat.cache = s.cache
<1>1. \/ o = Ok([s EXCEPT !.cage = IF @ \in {"off", "failed"} THEN "starting" ELSE @])
      \/ o \in Fault(s)
  BY DEF StartGui
<1> DEFINE c == IF s.cage \in {"off", "failed"} THEN "starting" ELSE s.cage
<1>2. c \in CageStates
  BY DEF Seat, CageStates
<1> DEFINE t == [s EXCEPT !.cage = c]
<1>3. o = Ok(t) \/ o \in Fault(s)
  BY <1>1
<1> HIDE DEF c
<1>4. /\ t \in Seat /\ t.screen = s.screen
      /\ t.held = s.held /\ t.text = s.text
      /\ t.shown = s.shown /\ t.upgrade = s.upgrade
      /\ t.grace = s.grace /\ t.cache = s.cache
  BY <1>2, CageSet
<1> HIDE DEF t
<1> QED
  BY <1>3, <1>4, FaultIs, OkIs

LEMMA StopGuiIs ==
    ASSUME NEW s \in Seat
    PROVE  LET t == StopGui(s)
           IN /\ t \in Seat /\ t.screen = s.screen
              /\ t.held = s.held /\ t.cage = "off" /\ t.text = s.text
              /\ t.shown = s.shown /\ t.upgrade = s.upgrade
              /\ t.grace = s.grace /\ t.cache = s.cache
BY CageSet DEF StopGui, CageStates

LEMMA SetModeIs ==
    ASSUME NEW s \in Seat, NEW m \in LockVts
    PROVE  LET t == SetMode(s, m)
           IN /\ t \in Seat /\ t.screen = s.screen
              /\ t.held = s.held /\ t.cage = s.cage /\ t.text = s.text
              /\ t.shown.subject = s.shown.subject /\ t.shown.back = s.shown.back
              /\ t.shown.mode = m /\ t.upgrade = s.upgrade
              /\ t.grace = s.grace /\ t.cache = s.cache
<1> DEFINE l == [s.shown EXCEPT !.mode = m]
<1>1. s.shown \in LockRecord
  BY DEF Seat
<1>2. l \in LockRecord /\ l.mode = m /\ l.subject = s.shown.subject /\ l.back = s.shown.back
  BY <1>1 DEF LockRecord
<1>3. SetMode(s, m) = [s EXCEPT !.shown = l]
  BY DEF SetMode
<1> HIDE DEF l
<1> QED
  BY <1>2, <1>3, ShownSet

LEMMA RetargetIs ==
    ASSUME NEW s \in Seat, NEW p \in People
    PROVE  LET t == Retarget(s, p)
           IN /\ t \in Seat /\ t.screen = s.screen
              /\ t.held = s.held /\ t.cage = s.cage /\ t.text = s.text
              /\ t.shown.subject = p /\ t.shown.mode = s.shown.mode /\ t.upgrade = s.upgrade
              /\ t.grace = s.grace /\ t.cache = s.cache
<1> DEFINE l == [s.shown EXCEPT !.subject = p]
<1>1. s.shown \in LockRecord
  BY DEF Seat
<1>2. l \in LockRecord /\ l.subject = p /\ l.mode = s.shown.mode
  BY <1>1 DEF LockRecord
<1>3. Retarget(s, p) = [s EXCEPT !.shown = l]
  BY DEF Retarget
<1> HIDE DEF l
<1> QED
  BY <1>2, <1>3, ShownSet

LEMMA LetGoIs ==
    ASSUME NEW s \in Seat, Firm(s)
    PROVE  LET t == LetGo(s)
           IN /\ t \in Seat /\ Firm(t) /\ t.held = "off" /\ t.screen = s.screen
              /\ t.cage = s.cage /\ t.text = s.text /\ t.shown = NoLock
              /\ t.grace = FALSE /\ t.upgrade = FALSE
<1> DEFINE r == [s EXCEPT !.shown = NoLock, !.upgrade = FALSE,
                          !.grace = FALSE, !.greeted = "no"]
<1>1. /\ r \in Seat /\ Firm(r) /\ r.screen = s.screen
      /\ r.cage = s.cage /\ r.text = s.text /\ r.shown = NoLock
      /\ r.grace = FALSE /\ r.upgrade = FALSE
  BY LockReset DEF Firm
<1>2. LetGo(s) = SetSwitchLock(r, "off")
  BY DEF LetGo
<1> HIDE DEF r
<1> QED
  BY <1>1, <1>2, SwitchLockOff

-----------------------------------------------------------------------------
(* The lock screen's operations.                                           *)

LEMMA SeatFields ==
    ASSUME NEW s \in Seat
    PROVE  /\ s.screen \in Vts /\ s.held \in Switch /\ s.cage \in CageStates
           /\ s.shown \in LockRecord /\ s.shown.mode \in LockVts /\ s.shown.mode \in Vts
           /\ s.shown.subject \in People \cup {NoOne} /\ s.shown.back \in Vts \cup {NoOne}
<1>1. s.screen \in Vts /\ s.held \in Switch /\ s.cage \in CageStates /\ s.shown \in LockRecord
  BY DEF Seat
<1> QED
  BY <1>1 DEF LockRecord, Vts

LEMMA BringUpTextIs ==
    ASSUME NEW s \in Seat, Firm(s), s.shown.mode = "text", NEW o \in BringUpText(s)
    PROVE  /\ o.seat \in Seat /\ Firm(o.seat)
           /\ o.seat.shown = s.shown /\ o.seat.grace = s.grace
           /\ o.ok => o.seat.screen = "text"
<1>1. PICK q \in StartText(s) :
        IF q.ok
        THEN o \in Then(Else(SwitchTo(SetSwitchLock(q.seat, "off"), "text"),
                             LAMBDA u : {No(StopText(u))}),
                        LAMBDA u : LET v == SetSwitchLock(u, "on") IN {Ok(v)} \cup Fault(v))
        ELSE o = q
  BY DEF BringUpText, Then
<1>2. /\ q.seat \in Seat /\ Firm(q.seat) /\ q.seat.shown = s.shown /\ q.seat.grace = s.grace
  BY StartTextIs DEF Firm
<1>3. CASE ~q.ok
  BY <1>1, <1>2, <1>3
<1>4. CASE q.ok
  <2> DEFINE x == SetSwitchLock(q.seat, "off")
  <2>1. x \in Seat /\ Firm(x) /\ x.shown = s.shown /\ x.grace = s.grace
    BY <1>2, SwitchLockOff
  <2>2. PICK u \in Else(SwitchTo(x, "text"), LAMBDA y : {No(StopText(y))}) :
          IF u.ok THEN LET v == SetSwitchLock(u.seat, "on") IN o \in {Ok(v)} \cup Fault(v)
          ELSE o = u
    BY <1>1, <1>4 DEF Then
  <2>3. PICK w \in SwitchTo(x, "text") : IF w.ok THEN u = w ELSE u = No(StopText(w.seat))
    BY <2>2 DEF Else
  <2> HIDE DEF x
  <2>4. "text" \in Vts
    BY DEF Vts, LockVts
  <2>5. /\ w.seat \in Seat /\ Firm(w.seat) /\ w.seat.shown = s.shown
        /\ w.seat.grace = s.grace /\ (w.ok => w.seat.screen = "text")
    BY <2>1, <2>4, SwitchToIs
  <2>6. CASE ~w.ok
    <3>1. u = No(StopText(w.seat))
      BY <2>3, <2>6
    <3>2. ~u.ok /\ o = u /\ u.seat = StopText(w.seat)
      BY <2>2, <3>1, NoIs
    <3> DEFINE y == StopText(w.seat)
    <3>3. y \in Seat /\ Firm(y) /\ y.shown = s.shown /\ y.grace = s.grace
      BY <2>5, StopTextIs DEF Firm
    <3> HIDE DEF y
    <3>4. ~o.ok /\ o.seat = y
      BY <3>2 DEF y
    <3> QED
      BY <3>3, <3>4
  <2>7. CASE w.ok
    <3> DEFINE v == SetSwitchLock(w.seat, "on")
    <3>1. o \in {Ok(v)} \cup Fault(v)
      BY <2>2, <2>3, <2>7
    <3>2. /\ v \in Seat /\ Firm(v) /\ v.shown = s.shown /\ v.grace = s.grace
          /\ v.screen = "text"
      BY <2>5, <2>7, SwitchLockOn
    <3> HIDE DEF v
    <3>3. CASE o = Ok(v)
      BY <3>2, <3>3, OkIs
    <3>4. CASE o \in Fault(v)
      BY <3>2, <3>4, FaultIs DEF Firm
    <3> QED
      BY <3>1, <3>3, <3>4
  <2> QED
    BY <2>6, <2>7
<1> QED
  BY <1>3, <1>4

LEMMA CheckUpgradeIs ==
    ASSUME NEW s \in Seat, Firm(s), NEW u \in CheckUpgrade(s)
    PROVE  /\ u \in Seat /\ Firm(u)
           /\ u.shown.subject = s.shown.subject /\ u.grace = s.grace
           /\ TextHeld(s) => TextHeld(u)
<1> DEFINE a == [s EXCEPT !.upgrade = FALSE]
<1>1. /\ a \in Seat /\ Firm(a) /\ a.held = s.held /\ a.screen = s.screen
      /\ a.shown = s.shown /\ a.grace = s.grace
  BY UpgradeSet DEF Firm
<1>2. \/ u = s \/ u = StopGui(a)
      \/ LET t == SetSwitchLock(SetMode(a, "gui"), "off")
         IN \/ u = StopText(t)
            \/ \E o \in SwitchTo(t, "gui") :
                 \/ o.ok /\ u = StopText(o.seat)
                 \/ ~o.ok /\ u = SetMode(StopGui(o.seat), "text")
  BY DEF CheckUpgrade
<1> HIDE DEF a
<1>3. CASE u = s
  BY <1>3
<1>4. CASE u = StopGui(a)
  BY <1>1, <1>4, StopGuiIs DEF Firm, TextHeld
<1>5. ASSUME u # s, u # StopGui(a)
      PROVE  /\ u \in Seat /\ Firm(u) /\ u.held = "off"
             /\ u.shown.subject = s.shown.subject /\ u.grace = s.grace
  <2> DEFINE b == SetMode(a, "gui")
             t == SetSwitchLock(b, "off")
  <2>1. "gui" \in LockVts /\ "gui" \in Vts /\ "text" \in LockVts
    BY DEF LockVts, Vts
  <2>2. /\ b \in Seat /\ Firm(b) /\ b.shown.subject = s.shown.subject /\ b.grace = s.grace
    BY <1>1, <2>1, SetModeIs DEF Firm
  <2>3. /\ t \in Seat /\ Firm(t) /\ t.held = "off"
        /\ t.shown.subject = s.shown.subject /\ t.grace = s.grace
    BY <2>2, SwitchLockOff
  <2>4. \/ u = StopText(t)
        \/ \E o \in SwitchTo(t, "gui") :
             \/ o.ok /\ u = StopText(o.seat)
             \/ ~o.ok /\ u = SetMode(StopGui(o.seat), "text")
    BY <1>2, <1>5
  <2> HIDE DEF t
  <2>5. CASE u = StopText(t)
    BY <2>3, <2>5, StopTextIs DEF Firm
  <2>6. ASSUME NEW o \in SwitchTo(t, "gui"),
               \/ u = StopText(o.seat)
               \/ u = SetMode(StopGui(o.seat), "text")
        PROVE  /\ u \in Seat /\ Firm(u) /\ u.held = "off"
               /\ u.shown.subject = s.shown.subject /\ u.grace = s.grace
    <3>1. /\ o.seat \in Seat /\ Firm(o.seat) /\ o.seat.held = "off"
          /\ o.seat.shown.subject = s.shown.subject /\ o.seat.grace = s.grace
      BY <2>1, <2>3, SwitchToIs
    <3>2. CASE u = StopText(o.seat)
      BY <3>1, <3>2, StopTextIs DEF Firm
    <3>3. CASE u = SetMode(StopGui(o.seat), "text")
      BY <2>1, <3>1, <3>3, StopGuiIs, SetModeIs DEF Firm
    <3> QED
      BY <2>6, <3>2, <3>3
  <2> QED
    BY <2>4, <2>5, <2>6
<1> QED
  BY <1>3, <1>4, <1>5 DEF TextHeld

\* It fails only with the text lock for a mode.
LEMMA KeepAliveIs ==
    ASSUME NEW s0 \in Seat, Firm(s0), NEW o \in KeepAlive(s0)
    PROVE  /\ o.seat \in Seat /\ Firm(o.seat)
           /\ o.seat.shown.subject = s0.shown.subject /\ o.seat.grace = s0.grace
           /\ TextHeld(s0) \/ ~o.ok => TextHeld(o.seat)
<1>1. PICK s \in CheckUpgrade(s0) :
        o \in IF s.shown.mode = "gui"
              THEN IF s.cage \in {"up", "silent"} THEN {Ok(s)}
                   ELSE LET t == SetMode(StopGui(s), "text")
                        IN IF s.screen = "gui" THEN BringUpText(t) ELSE StartText(t)
              ELSE StartText(s)
  BY DEF KeepAlive
<1>2. /\ s \in Seat /\ Firm(s) /\ s.shown.subject = s0.shown.subject
      /\ s.grace = s0.grace /\ (TextHeld(s0) => TextHeld(s))
  BY CheckUpgradeIs
<1> DEFINE t == SetMode(StopGui(s), "text")
<1>3. /\ t \in Seat /\ Firm(t) /\ t.shown.subject = s0.shown.subject
      /\ t.grace = s0.grace /\ t.shown.mode = "text"
  BY <1>2, StopGuiIs, SetModeIs DEF Firm, LockVts
<1>4. s.shown.mode \in LockVts
  BY <1>2, SeatFields
<1>5. \/ o = Ok(s)
      \/ o \in BringUpText(t)
      \/ o \in StartText(t)
      \/ s.shown.mode = "text" /\ o \in StartText(s)
  BY <1>1, <1>4 DEF LockVts
<1> HIDE DEF t
<1>6. CASE o = Ok(s)
  BY <1>2, <1>6, OkIs
<1>7. CASE o \in BringUpText(t)
  BY <1>3, <1>7, BringUpTextIs DEF TextHeld
<1>8. CASE o \in StartText(t)
  BY <1>3, <1>8, StartTextIs DEF TextHeld, Firm
<1>9. CASE s.shown.mode = "text" /\ o \in StartText(s)
  BY <1>2, <1>9, StartTextIs DEF TextHeld, Firm
<1> QED
  BY <1>5, <1>6, <1>7, <1>8, <1>9

\* Whatever it starts from, and whether it works or not, the lock in front
\* holds switching only as a text lock; where it works it is on screen.
LEMMA BringToFrontIs ==
    ASSUME NEW s0 \in Seat, Firm(s0), NEW o \in BringToFront(s0)
    PROVE  /\ o.seat \in Seat /\ Firm(o.seat) /\ TextHeld(o.seat)
           /\ o.seat.shown.subject = s0.shown.subject /\ o.seat.grace = s0.grace
           /\ o.ok => o.seat.screen = o.seat.shown.mode
<1> DEFINE Hold(vt, t) == {Ok(IF vt = "text" THEN SetSwitchLock(t, "on") ELSE t)}
<1>1. PICK k \in KeepAlive(s0) :
        IF k.ok
        THEN LET vt == k.seat.shown.mode
             IN o \in IF k.seat.screen = vt THEN Hold(vt, k.seat)
                      ELSE Then(SwitchTo(SetSwitchLock(k.seat, "off"), vt),
                                LAMBDA t : Hold(vt, t))
        ELSE o = k
  BY DEF BringToFront, Then
<1>2. /\ k.seat \in Seat /\ Firm(k.seat) /\ k.seat.shown.subject = s0.shown.subject
      /\ k.seat.grace = s0.grace /\ (~k.ok => TextHeld(k.seat))
  BY KeepAliveIs
<1>3. CASE ~k.ok
  BY <1>1, <1>2, <1>3
<1> DEFINE s == k.seat
           vt == s.shown.mode
           t == SetSwitchLock(s, "off")
<1>4. vt \in LockVts /\ vt \in Vts
  BY <1>2, SeatFields
<1>5. ASSUME NEW u \in Seat, Firm(u), u.screen = vt, u.shown = s.shown, u.grace = s.grace,
             o \in Hold(vt, u)
      PROVE  /\ o.ok /\ o.seat \in Seat /\ Firm(o.seat) /\ TextHeld(o.seat)
             /\ o.seat.shown = s.shown /\ o.seat.grace = s.grace
             /\ o.seat.screen = o.seat.shown.mode
  <2>1. CASE vt = "text"
    <3> DEFINE v == SetSwitchLock(u, "on")
    <3>1. o = Ok(v)
      BY <1>5, <2>1
    <3>2. v \in Seat /\ Firm(v) /\ v.shown = s.shown /\ v.grace = s.grace /\ v.screen = vt
      BY <1>5, <2>1, SwitchLockOn
    <3> HIDE DEF v
    <3> QED
      BY <2>1, <3>1, <3>2, OkIs DEF TextHeld
  <2>2. CASE vt # "text"
    <3>1. o = Ok(u)
      BY <1>5, <2>2
    <3> QED
      BY <1>5, <2>2, <3>1, OkIs DEF TextHeld, Firm
  <2> QED
    BY <2>1, <2>2
<1>6. CASE k.ok /\ s.screen = vt
  BY <1>1, <1>2, <1>5, <1>6
<1>7. CASE k.ok /\ s.screen # vt
  <2>1. t \in Seat /\ Firm(t) /\ t.shown = s.shown /\ t.grace = s.grace /\ t.held = "off"
    BY <1>2, SwitchLockOff
  <2>2. PICK w \in SwitchTo(t, vt) : IF w.ok THEN o \in Hold(vt, w.seat) ELSE o = w
    BY <1>1, <1>7 DEF Then
  <2> HIDE DEF t
  <2>3. /\ w.seat \in Seat /\ Firm(w.seat) /\ w.seat.shown = s.shown
        /\ w.seat.grace = s.grace /\ w.seat.held = "off" /\ (w.ok => w.seat.screen = vt)
    BY <1>4, <2>1, SwitchToIs
  <2>4. CASE w.ok
    BY <1>2, <1>5, <2>2, <2>3, <2>4
  <2>5. CASE ~w.ok
    BY <1>2, <1>7, <2>2, <2>3, <2>5 DEF TextHeld
  <2> QED
    BY <2>4, <2>5
<1> QED
  BY <1>3, <1>6, <1>7

\* Where the lock is left alone, nobody stopped is on screen; it is put in
\* front of a person.
LEMMA PlacementIs ==
    ASSUME NEW s \in Seat, IsUp(s), session \subseteq People, frozen \subseteq People
    PROVE  LET place == Placement(s)
           IN \/ place.is = "hold" /\ s.screen = s.shown.mode
              \/ place.is = "front" /\ place.of \in People
              \/ /\ place.is = "aside" /\ OnScreen(s) \notin frozen /\ s.screen # s.shown.mode
                 /\ OnScreen(s) = NoOne => s.screen = "greeter" \/ s.grace
<1> DEFINE person == OnScreen(s)
           off == /\ ~(s.screen = "gui" /\ s.cage \notin {"off", "failed"})
                  /\ IF s.screen = "greeter" THEN s.greeted = "fresh" ELSE s.grace
<1>1. s.shown.subject \in People
  BY SeatFields DEF IsUp
<1>2. person = NoOne \/ person \in People
  BY DEF OnScreen
<1>3. NoOne \notin frozen
  BY LockAssumption
<1>4. CASE s.screen = s.shown.mode
  BY <1>4 DEF Placement
<1>5. CASE s.screen # s.shown.mode /\ person # NoOne /\ person \in frozen
  <2>1. Placement(s) = [is |-> "front", of |-> person]
    BY <1>5 DEF Placement
  <2> QED
    BY <1>2, <1>5, <2>1
<1>6. CASE s.screen # s.shown.mode /\ person # NoOne /\ person \notin frozen
  <2>1. Placement(s) = [is |-> "aside", of |-> NoOne]
    BY <1>6 DEF Placement
  <2> QED
    BY <1>6, <2>1
<1>7. CASE s.screen # s.shown.mode /\ person = NoOne
  <2>1. Placement(s) = IF off THEN [is |-> "aside", of |-> NoOne]
                       ELSE [is |-> "front", of |-> s.shown.subject]
    BY <1>7 DEF Placement
  <2> QED
    BY <1>1, <1>3, <1>7, <2>1
<1> QED
  BY <1>4, <1>5, <1>6, <1>7

\* reassert: where it works, nobody who is stopped has the screen.
LEMMA ReassertIs ==
    ASSUME NEW s0 \in Seat, Firm(s0), IsUp(s0), session \subseteq People,
           frozen \subseteq People, NEW o \in Reassert(s0)
    PROVE  /\ o.seat \in Seat /\ Firm(o.seat) /\ IsUp(o.seat)
           /\ TextHeld(s0) \/ ~s0.grace => TextHeld(o.seat)
           /\ o.ok => OnScreen(o.seat) \notin frozen
<1> DEFINE Held(s) == {Ok(IF s.shown.mode = "text" /\ ~s.grace THEN SetSwitchLock(s, "on") ELSE s)}
           Front(s, p) == BringToFront(Retarget([s EXCEPT !.grace = FALSE], p))
           Aside(s) == LET t == IF s.shown.mode = "text" THEN SetSwitchLock(s, "off") ELSE s
                       IN {Ok([t EXCEPT !.grace = @ \/ OnScreen(s) # NoOne])}
           Placed(s) == LET place == Placement(s)
                        IN CASE place.is = "hold" -> Held(s)
                             [] place.is = "front" -> Front(s, place.of)
                             [] place.is = "aside" -> Aside(s)
<1>1. PICK k \in KeepAlive(s0) : IF k.ok THEN o \in Placed(Greeted(k.seat)) ELSE o = k
  BY DEF Reassert, Then
<1>2. /\ k.seat \in Seat /\ Firm(k.seat) /\ IsUp(k.seat) /\ k.seat.grace = s0.grace
      /\ (TextHeld(s0) => TextHeld(k.seat)) /\ (~k.ok => TextHeld(k.seat))
  BY KeepAliveIs DEF IsUp
<1>3. CASE ~k.ok
  BY <1>1, <1>2, <1>3
<1>4. CASE k.ok
  <2> DEFINE s == Greeted(k.seat)
  <2>1. /\ s \in Seat /\ Firm(s) /\ IsUp(s) /\ s.grace = s0.grace
        /\ (TextHeld(s0) => TextHeld(s))
    <3> DEFINE g == IF k.seat.screen # "greeter" THEN "no"
                    ELSE IF k.seat.greeted = "no" THEN "fresh" ELSE k.seat.greeted
    <3>1. g \in GreetStates
      BY <1>2 DEF Seat, GreetStates
    <3>2. s = [k.seat EXCEPT !.greeted = g]
      BY DEF Greeted
    <3> HIDE DEF g
    <3> QED
      BY <1>2, <3>1, <3>2, GreetedSet DEF Firm, TextHeld, IsUp
  <2>2. o \in Placed(s)
    BY <1>1, <1>4
  <2> HIDE DEF s
  <2>3. LockVts \cap session = {} /\ NoOne \notin frozen /\ "greeter" # "text"
    BY LockAssumption DEF LockVts
  <2>4. s.shown.mode \in LockVts
    BY <2>1, SeatFields
  <2>5. CASE Placement(s).is = "hold" /\ s.screen = s.shown.mode
    <3> DEFINE v == SetSwitchLock(s, "on")
    <3>1. o = Ok(s) \/ (s.shown.mode = "text" /\ o = Ok(v))
      BY <2>2, <2>5
    <3>2. s.shown.mode = "text" =>
            v \in Seat /\ Firm(v) /\ v.shown = s.shown /\ v.screen = s.screen
      BY <2>1, <2>5, SwitchLockOn
    <3> HIDE DEF v
    <3>3. TextHeld(s) /\ OnScreen(s) = NoOne
      BY <2>1, <2>3, <2>4, <2>5 DEF TextHeld, Firm, OnScreen
    <3>4. CASE o = Ok(s)
      BY <2>1, <2>3, <3>3, <3>4, OkIs
    <3>5. CASE s.shown.mode = "text" /\ o = Ok(v)
      BY <2>1, <2>3, <2>4, <2>5, <3>2, <3>5, OkIs DEF TextHeld, OnScreen, IsUp
    <3> QED
      BY <3>1, <3>4, <3>5
  <2>6. CASE Placement(s).is = "front" /\ Placement(s).of \in People
    <3> DEFINE p == Placement(s).of
               a == [s EXCEPT !.grace = FALSE]
               b == Retarget(a, p)
    <3>1. o \in BringToFront(b)
      BY <2>2, <2>6
    <3>2. a \in Seat /\ Firm(a)
      BY <2>1, GraceSet DEF Firm
    <3> HIDE DEF a, p
    <3>3. b \in Seat /\ Firm(b) /\ IsUp(b)
      BY <2>6, <3>2, RetargetIs, LockAssumption DEF Firm, IsUp, p
    <3> HIDE DEF b
    <3>4. /\ o.seat \in Seat /\ Firm(o.seat) /\ TextHeld(o.seat) /\ IsUp(o.seat)
          /\ (o.ok => o.seat.screen = o.seat.shown.mode)
      BY <3>1, <3>3, BringToFrontIs DEF IsUp
    <3>5. o.seat.shown.mode \in LockVts
      BY <3>4, SeatFields
    <3> QED
      BY <2>3, <3>4, <3>5 DEF OnScreen
  <2>7. CASE /\ Placement(s).is = "aside" /\ OnScreen(s) \notin frozen
             /\ s.screen # s.shown.mode
             /\ (OnScreen(s) = NoOne => s.screen = "greeter" \/ s.grace)
    <3> DEFINE t == IF s.shown.mode = "text" THEN SetSwitchLock(s, "off") ELSE s
               g == t.grace \/ OnScreen(s) # NoOne
               v == [t EXCEPT !.grace = g]
    <3>1. o = Ok(v)
      BY <2>2, <2>7
    <3>2. /\ t \in Seat /\ Firm(t) /\ IsUp(t) /\ t.screen = s.screen
          /\ (TextHeld(s0) \/ ~s0.grace => TextHeld(t))
      <4>1. CASE s.shown.mode = "text"
        BY <2>1, <4>1, SwitchLockOff DEF TextHeld, IsUp
      <4>2. CASE s.shown.mode # "text"
        <5>1. t = s
          BY <4>2
        <5>2. s.held = "on" => OnScreen(s) = NoOne /\ s.screen # "greeter"
          BY <2>1, <2>3 DEF Firm, OnScreen, LockVts
        <5> QED
          BY <2>1, <2>7, <5>1, <5>2 DEF TextHeld
      <4> QED
        BY <4>1, <4>2
    <3> HIDE DEF t
    <3>3. g \in BOOLEAN
      BY <3>2 DEF Seat
    <3> HIDE DEF g
    <3>4. /\ v \in Seat /\ v.screen = t.screen /\ v.held = t.held /\ v.shown = t.shown
          /\ v.cache = t.cache
      BY <3>2, <3>3, GraceSet
    <3> HIDE DEF v
    <3>5. o.ok /\ o.seat = v
      BY <3>1, OkIs
    <3> QED
      BY <2>7, <3>2, <3>4, <3>5 DEF Firm, IsUp, TextHeld, OnScreen
  <2>8. \/ Placement(s).is = "hold" /\ s.screen = s.shown.mode
        \/ Placement(s).is = "front" /\ Placement(s).of \in People
        \/ /\ Placement(s).is = "aside" /\ OnScreen(s) \notin frozen
           /\ s.screen # s.shown.mode
           /\ (OnScreen(s) = NoOne => s.screen = "greeter" \/ s.grace)
    BY <2>1, PlacementIs
  <2> QED
    BY <2>5, <2>6, <2>7, <2>8
<1> QED
  BY <1>3, <1>4

LEMMA SwitchUserIs ==
    ASSUME NEW s \in Seat, Firm(s), IsUp(s), NEW r \in SwitchUser(s)
    PROVE  r \in Seat /\ Firm(r) /\ IsUp(r) /\ TextHeld(r)
<1> DEFINE a == [s EXCEPT !.grace = TRUE]
           b == [a EXCEPT !.greeted = "no"]
           t == SetSwitchLock(b, "off")
           Refused(u) == LET v == [u EXCEPT !.grace = FALSE]
                         IN IF v.shown.mode = "text" /\ v.screen = "text"
                            THEN SetSwitchLock(v, "on") ELSE v
<1>1. PICK o \in LoginScreen(t) : r = o.seat \/ r = Refused(o.seat)
  <2>1. b = [s EXCEPT !.grace = TRUE, !.greeted = "no"]
    OBVIOUS
  <2>2. PICK o \in LoginScreen(t) : r \in IF o.ok THEN {o.seat} ELSE {Refused(o.seat)}
    BY <2>1 DEF SwitchUser
  <2> QED
    BY <2>2
<1>2. a \in Seat /\ Firm(a) /\ IsUp(a)
  BY GraceSet DEF Firm, IsUp
<1> HIDE DEF a
<1>3. b \in Seat /\ Firm(b) /\ IsUp(b)
  BY <1>2, GreetedSet DEF Firm, IsUp, GreetStates
<1> HIDE DEF b
<1>4. t \in Seat /\ Firm(t) /\ IsUp(t) /\ t.held = "off"
  BY <1>3, SwitchLockOff DEF IsUp
<1> HIDE DEF t
<1>5. o.seat \in Seat /\ Firm(o.seat) /\ IsUp(o.seat) /\ o.seat.held = "off"
  BY <1>4, LoginScreenIs DEF IsUp
<1>6. CASE r = o.seat
  BY <1>5, <1>6 DEF TextHeld
<1>7. CASE r = Refused(o.seat)
  <2> DEFINE v == [o.seat EXCEPT !.grace = FALSE]
             w == SetSwitchLock(v, "on")
  <2>1. r = v \/ (v.shown.mode = "text" /\ v.screen = "text" /\ r = w)
    BY <1>7
  <2>2. v \in Seat /\ Firm(v) /\ IsUp(v) /\ v.held = "off"
    BY <1>5, GraceSet DEF Firm, IsUp
  <2> HIDE DEF v
  <2>3. v.screen = "text" => w \in Seat /\ Firm(w) /\ w.shown = v.shown
    BY <2>2, SwitchLockOn
  <2> HIDE DEF w
  <2> QED
    BY <2>1, <2>2, <2>3 DEF TextHeld, IsUp
<1> QED
  BY <1>1, <1>6, <1>7

-----------------------------------------------------------------------------
(* Letting go.                                                             *)

\* A lock record names someone, or records nothing.
Whole(l) == l.subject = NoOne => l = NoLock

\* A lock, or nothing of one.
Fine(s) == s \in Seat /\ Firm(s) /\ TextHeld(s) /\ Gone(s) /\ Whole(s.shown)

\* Nothing of a lock.
Parted(s) == /\ s \in Seat /\ s.shown = NoLock
             /\ s.held = "off" /\ s.cage = "off" /\ ~s.text

LEMMA PartedIsFine ==
    ASSUME NEW s, Parted(s)
    PROVE  Fine(s)
BY DEF Parted, Fine, Firm, TextHeld, Gone, Whole

LEMMA UpIsFine ==
    ASSUME NEW s \in Seat, Firm(s), TextHeld(s), IsUp(s)
    PROVE  Fine(s)
BY DEF Fine, Gone, Whole, IsUp

\* Back to where the lock came from, as far as that works.
LEMMA BackToIs ==
    ASSUME NEW s \in Seat, s.held = "off", NEW vt \in Vts \cup {NoOne}, NEW r \in BackTo(s, vt)
    PROVE  /\ r \in Seat /\ r.held = "off" /\ r.cage = s.cage /\ r.text = s.text
           /\ r.shown = s.shown
<1>1. Firm(s)
  BY DEF Firm
<1>2. CASE vt = NoOne
  BY <1>2 DEF BackTo
<1>3. CASE vt # NoOne
  <2>1. PICK o \in SwitchTo(s, vt) : r = o.seat
    BY <1>3 DEF BackTo, Seats
  <2> QED
    BY <1>1, <1>3, <2>1, SwitchToIs
<1> QED
  BY <1>2, <1>3

LEMMA ReleaseIs ==
    ASSUME NEW s \in Seat, Firm(s), session \subseteq People, NEW r \in Release(s)
    PROVE  IF IsUp(s) THEN Parted(r) ELSE r = s
<1>1. CASE ~IsUp(s)
  BY <1>1 DEF Release
<1>2. CASE IsUp(s)
  <2> DEFINE x == StopText(s)
             t == LetGo(x)
             back == IF s.shown.subject \in session THEN s.shown.subject ELSE s.shown.back
  <2>1. x \in Seat /\ Firm(x) /\ ~x.text
    BY StopTextIs DEF Firm
  <2> HIDE DEF x
  <2>2. t \in Seat /\ t.held = "off" /\ ~t.text /\ t.shown = NoLock
    BY <2>1, LetGoIs
  <2>3. back \in Vts \cup {NoOne}
    BY SeatFields DEF Vts
  <2>4. PICK u \in BackTo(t, back) \cup {t} : r = StopGui(u)
    BY <1>2 DEF Release, x
  <2> HIDE DEF t, back
  <2>5. u \in Seat /\ u.held = "off" /\ ~u.text /\ u.shown = NoLock
    BY <2>2, <2>3, BackToIs
  <2> QED
    BY <1>2, <2>4, <2>5, StopGuiIs DEF Parted
<1> QED
  BY <1>1, <1>2

LEMMA HandToLoginScreenIs ==
    ASSUME NEW s \in Seat, Firm(s), NEW r \in HandToLoginScreen(s)
    PROVE  Parted(r)
<1> DEFINE t == LetGo(s)
           back == s.shown.back
<1>1. t \in Seat /\ t.held = "off" /\ t.shown = NoLock
  BY LetGoIs
<1>2. back \in Vts \cup {NoOne}
  BY SeatFields
<1>3. PICK u : /\ r = StopGui(StopText(u))
               /\ \/ u = t
                  \/ \E o \in LoginScreen(t) : u = o.seat \/ u \in BackTo(o.seat, back)
  BY DEF HandToLoginScreen
<1> HIDE DEF t, back
<1>4. u \in Seat /\ u.shown = NoLock /\ u.held = "off"
  <2>1. CASE u = t
    BY <1>1, <2>1
  <2>2. ASSUME NEW o \in LoginScreen(t), u = o.seat \/ u \in BackTo(o.seat, back)
        PROVE  u \in Seat /\ u.shown = NoLock /\ u.held = "off"
    <3>1. o.seat \in Seat /\ o.seat.shown = NoLock /\ o.seat.held = "off"
      BY <1>1, LoginScreenIs
    <3> QED
      BY <1>2, <2>2, <3>1, BackToIs
  <2> QED
    BY <1>3, <2>1, <2>2
<1> DEFINE v == StopText(u)
<1>5. v \in Seat /\ v.shown = NoLock /\ v.held = "off" /\ ~v.text
  BY <1>4, StopTextIs
<1> HIDE DEF v
<1>6. r = StopGui(v)
  BY <1>3 DEF v
<1> QED
  BY <1>5, <1>6, StopGuiIs DEF Parted

-----------------------------------------------------------------------------
(* Showing the lock: what a present() ends with.  Either the lock is shown *)
(* on a lock's terminal, or it is up and waited for, or it has been given  *)
(* up.                                                                     *)

Outcome(f) ==
    /\ Fine(seat')
    /\ \/ pc' = Shown(f) /\ seat'.screen \in LockVts /\ IsUp(seat')
       \/ pc' \in {"gui", "late"} /\ IsUp(seat')
       \/ pc' = Unshown(f)

LEMMA GiveUpIs ==
    ASSUME NEW s \in Seat, Firm(s), IsUp(s), session \subseteq People, NEW f, GiveUp(s, f)
    PROVE  Outcome(f)
<1>1. Parted(seat') /\ pc' = Unshown(f)
  BY ReleaseIs DEF GiveUp
<1> QED
  BY <1>1, PartedIsFine DEF Outcome

LEMMA TextInsteadIs ==
    ASSUME NEW s \in Seat, Firm(s), IsUp(s), session \subseteq People, NEW f, TextInstead(s, f)
    PROVE  Outcome(f)
<1> DEFINE t == SetMode(s, "text")
<1>1. t \in Seat /\ Firm(t) /\ IsUp(t) /\ t.shown.mode = "text"
  BY SetModeIs DEF Firm, IsUp, LockVts
<1>2. PICK o \in BringUpText(t) :
        \/ o.ok /\ seat' = o.seat /\ pc' = Shown(f)
        \/ ~o.ok /\ s.upgrade /\ seat' = o.seat /\ pc' = "late"
        \/ ~o.ok /\ ~s.upgrade /\ GiveUp(o.seat, f)
  BY DEF TextInstead
<1> HIDE DEF t
<1>3. /\ o.seat \in Seat /\ Firm(o.seat) /\ IsUp(o.seat) /\ TextHeld(o.seat)
      /\ (o.ok => o.seat.screen = "text")
  BY <1>1, BringUpTextIs DEF IsUp, TextHeld
<1>4. CASE ~o.ok /\ ~s.upgrade /\ GiveUp(o.seat, f)
  BY <1>3, <1>4, GiveUpIs
<1>5. CASE o.ok /\ seat' = o.seat /\ pc' = Shown(f)
  BY <1>3, <1>5, UpIsFine DEF Outcome, LockVts
<1>6. CASE ~o.ok /\ s.upgrade /\ seat' = o.seat /\ pc' = "late"
  BY <1>3, <1>6, UpIsFine DEF Outcome
<1> QED
  BY <1>2, <1>4, <1>5, <1>6

LEMMA PresentIs ==
    ASSUME seat \in Seat, Firm(seat), session \subseteq People, NEW p \in People, NEW f,
           Present(p, f)
    PROVE  Outcome(f) /\ who' = p /\ from' = f
<1>1. who' = p /\ from' = f
  BY DEF Present
<1>2. p # NoOne
  BY LockAssumption
<1>3. CASE IsUp(seat)
  <2> DEFINE a == Retarget(seat, p)
             b == [a EXCEPT !.grace = FALSE]
  <2>1. a \in Seat /\ Firm(a) /\ IsUp(a)
    BY <1>2, RetargetIs DEF Firm, IsUp
  <2>2. PICK o \in BringToFront(b) :
          seat' = o.seat /\ pc' = IF o.ok THEN Shown(f) ELSE Unshown(f)
    BY <1>3 DEF Present
  <2> HIDE DEF a
  <2>3. b \in Seat /\ Firm(b) /\ IsUp(b)
    BY <2>1, GraceSet DEF Firm, IsUp
  <2> HIDE DEF b
  <2>4. /\ o.seat \in Seat /\ Firm(o.seat) /\ TextHeld(o.seat) /\ IsUp(o.seat)
        /\ (o.ok => o.seat.screen = o.seat.shown.mode)
    BY <2>3, BringToFrontIs DEF IsUp
  <2>5. o.ok => o.seat.screen \in LockVts
    BY <2>4, SeatFields
  <2> QED
    BY <1>1, <2>2, <2>4, <2>5, UpIsFine DEF Outcome
<1>4. CASE ~IsUp(seat)
  <2> DEFINE back == IF seat.screen \in LockVts THEN NoOne ELSE seat.screen
             mode == IF HasCage THEN "gui" ELSE "text"
             l == [subject |-> p, back |-> back, mode |-> mode]
             a == [seat EXCEPT !.grace = FALSE]
             b == [a EXCEPT !.upgrade = FALSE]
             new == [b EXCEPT !.shown = l]
  <2>1. new = [seat EXCEPT !.grace = FALSE, !.upgrade = FALSE, !.shown = l]
    OBVIOUS
  <2>2. \/ TextInstead(new, f)
        \/ \E o \in StartGui(new) :
             IF ~o.ok THEN TextInstead(StopGui(o.seat), f)
             ELSE /\ seat' \in Seats(SwitchTo(SetSwitchLock(o.seat, "off"), "gui"))
                  /\ pc' = "gui"
    BY <1>4, <2>1 DEF Present
  <2>3. l \in LockRecord /\ l.subject = p
    <3>1. seat.screen \in Vts
      BY SeatFields
    <3> QED
      BY <3>1 DEF LockRecord, LockVts
  <2> HIDE DEF l
  <2>4. a \in Seat /\ Firm(a)
    BY GraceSet DEF Firm
  <2> HIDE DEF a
  <2>5. b \in Seat /\ Firm(b)
    BY <2>4, UpgradeSet DEF Firm
  <2> HIDE DEF b
  <2>6. new \in Seat /\ Firm(new) /\ IsUp(new)
    BY <1>2, <2>3, <2>5, ShownSet DEF Firm, IsUp
  <2> HIDE DEF new
  <2>7. CASE TextInstead(new, f)
    BY <1>1, <2>6, <2>7, TextInsteadIs
  <2>8. ASSUME NEW o \in StartGui(new),
               IF ~o.ok THEN TextInstead(StopGui(o.seat), f)
               ELSE /\ seat' \in Seats(SwitchTo(SetSwitchLock(o.seat, "off"), "gui"))
                    /\ pc' = "gui"
        PROVE  Outcome(f)
    <3>1. o.seat \in Seat /\ Firm(o.seat) /\ IsUp(o.seat)
      BY <2>6, StartGuiIs DEF Firm, IsUp
    <3>2. CASE ~o.ok
      <4> DEFINE x == StopGui(o.seat)
      <4>1. x \in Seat /\ Firm(x) /\ IsUp(x)
        BY <3>1, StopGuiIs DEF Firm, IsUp
      <4>2. TextInstead(x, f)
        BY <2>8, <3>2
      <4> HIDE DEF x
      <4> QED
        BY <4>1, <4>2, TextInsteadIs
    <3>3. CASE o.ok
      <4> DEFINE x == SetSwitchLock(o.seat, "off")
      <4>1. x \in Seat /\ Firm(x) /\ IsUp(x) /\ x.held = "off"
        BY <3>1, SwitchLockOff DEF IsUp
      <4>2. PICK w \in SwitchTo(x, "gui") : seat' = w.seat
        BY <2>8, <3>3 DEF Seats
      <4> HIDE DEF x
      <4>3. "gui" \in Vts
        BY DEF Vts, LockVts
      <4>4. w.seat \in Seat /\ Firm(w.seat) /\ IsUp(w.seat) /\ w.seat.held = "off"
        BY <4>1, <4>3, SwitchToIs DEF IsUp
      <4> QED
        BY <2>8, <3>3, <4>2, <4>4, UpIsFine DEF Outcome, TextHeld
    <3> QED
      BY <3>2, <3>3
  <2> QED
    BY <1>1, <2>2, <2>7, <2>8
<1> QED
  BY <1>3, <1>4

LEMMA WaitGuiIs ==
    ASSUME seat \in Seat, Firm(seat), IsUp(seat), TextHeld(seat), session \subseteq People,
           WaitGui
    PROVE  Outcome(from)
<1>1. CASE seat.cage = "failed" /\ TextInstead(StopGui(seat), from)
  <2> DEFINE x == StopGui(seat)
  <2>1. x \in Seat /\ Firm(x) /\ IsUp(x)
    BY StopGuiIs DEF Firm, IsUp
  <2>2. TextInstead(x, from)
    BY <1>1
  <2> HIDE DEF x
  <2> QED
    BY <2>1, <2>2, TextInsteadIs
<1>2. CASE TextInstead([seat EXCEPT !.upgrade = TRUE], from)
  <2> DEFINE x == [seat EXCEPT !.upgrade = TRUE]
  <2>1. x \in Seat /\ Firm(x) /\ IsUp(x)
    BY UpgradeSet DEF Firm, IsUp
  <2>2. TextInstead(x, from)
    BY <1>2
  <2> HIDE DEF x
  <2> QED
    BY <2>1, <2>2, TextInsteadIs
<1>3. ASSUME NEW o \in SwitchTo(seat, "gui"),
             IF o.ok THEN seat' = o.seat /\ pc' = Shown(from)
             ELSE TextInstead(StopGui(o.seat), from)
      PROVE  Outcome(from)
  <2>1. "gui" \in Vts /\ "gui" \in LockVts
    BY DEF Vts, LockVts
  <2>2. /\ o.seat \in Seat /\ Firm(o.seat) /\ IsUp(o.seat) /\ TextHeld(o.seat)
        /\ (o.ok => o.seat.screen = "gui")
    BY <2>1, SwitchToIs DEF IsUp, TextHeld
  <2>3. CASE o.ok
    BY <1>3, <2>1, <2>2, <2>3, UpIsFine DEF Outcome
  <2>4. CASE ~o.ok
    <3> DEFINE x == StopGui(o.seat)
    <3>1. x \in Seat /\ Firm(x) /\ IsUp(x)
      BY <2>2, StopGuiIs DEF Firm, IsUp
    <3>2. TextInstead(x, from)
      BY <1>3, <2>4
    <3> HIDE DEF x
    <3> QED
      BY <3>1, <3>2, TextInsteadIs
  <2> QED
    BY <2>3, <2>4
<1> QED
  BY <1>1, <1>2, <1>3 DEF WaitGui

LEMMA WaitLateIs ==
    ASSUME seat \in Seat, Firm(seat), IsUp(seat), session \subseteq People, WaitLate
    PROVE  Outcome(from)
<1> DEFINE a == [seat EXCEPT !.upgrade = FALSE]
           b == SetMode(a, "gui")
           x == SetSwitchLock(b, "off")
<1>1. \/ GiveUp(seat, from)
      \/ \E o \in SwitchTo(x, "gui") :
           IF o.ok THEN seat' = o.seat /\ pc' = Shown(from) ELSE GiveUp(o.seat, from)
  BY DEF WaitLate
<1>2. "gui" \in Vts /\ "gui" \in LockVts
  BY DEF Vts, LockVts
<1>3. a \in Seat /\ Firm(a) /\ IsUp(a)
  BY UpgradeSet DEF Firm, IsUp
<1> HIDE DEF a
<1>4. b \in Seat /\ Firm(b) /\ IsUp(b)
  BY <1>2, <1>3, SetModeIs DEF Firm, IsUp
<1> HIDE DEF b
<1>5. x \in Seat /\ Firm(x) /\ IsUp(x) /\ x.held = "off"
  BY <1>4, SwitchLockOff DEF IsUp
<1> HIDE DEF x
<1>6. CASE GiveUp(seat, from)
  BY <1>6, GiveUpIs
<1>7. ASSUME NEW o \in SwitchTo(x, "gui"),
             IF o.ok THEN seat' = o.seat /\ pc' = Shown(from) ELSE GiveUp(o.seat, from)
      PROVE  Outcome(from)
  <2>1. /\ o.seat \in Seat /\ Firm(o.seat) /\ IsUp(o.seat) /\ TextHeld(o.seat)
        /\ (o.ok => o.seat.screen = "gui")
    BY <1>2, <1>5, SwitchToIs DEF IsUp, TextHeld
  <2>2. CASE o.ok
    BY <1>2, <1>7, <2>1, <2>2, UpIsFine DEF Outcome
  <2>3. CASE ~o.ok
    BY <1>7, <2>1, <2>3, GiveUpIs
  <2> QED
    BY <2>2, <2>3
<1> QED
  BY <1>1, <1>6, <1>7

\* stop_user: nothing to stop, straight to the freeze, or the lock first.
LEMMA StopUserIs ==
    ASSUME seat \in Seat, Firm(seat), session \subseteq People, NEW p \in People, NEW f,
           StopUser(p, f)
    PROVE  /\ from' = f
           /\ \/ pc' = "loop" /\ seat' = seat /\ who' = who
              \/ pc' = "freeze" /\ seat' = seat /\ who' = p
              \/ Outcome(f) /\ who' = p
BY PresentIs DEF StopUser

-----------------------------------------------------------------------------
(* The machine and the people at it: what any of their steps may do.       *)

Around == \/ \E vt \in Vts : PersonSwitches(vt)
          \/ \E p \in People : LogIn(p) \/ LogOut(p)
          \/ GreeterComes \/ CageSpeaks \/ UiFails \/ UiStale \/ GraceEnds

\* The screen and the sessions do not change behind the seat watcher's back.
Seen == moved' \/ (~moved /\ OnScreen(seat)' = OnScreen(seat))

LEMMA ScreenMoves ==
    ASSUME NEW s \in Seat, Firm(s), NEW vt \in Vts, NEW c \in BOOLEAN,
           s.held = "off" \/ vt = s.screen
    PROVE  LET t == [s EXCEPT !.screen = vt, !.coming = c]
           IN /\ t \in Seat /\ Firm(t) /\ t.screen = vt /\ t.held = s.held
              /\ t.shown = s.shown /\ t.cage = s.cage /\ t.text = s.text /\ t.grace = s.grace
<1> DEFINE a == [s EXCEPT !.screen = vt]
           t == [s EXCEPT !.screen = vt, !.coming = c]
<1>1. t = [a EXCEPT !.coming = c]
  OBVIOUS
<1>2. /\ a \in Seat /\ Firm(a) /\ a.screen = vt /\ a.held = s.held /\ a.shown = s.shown
      /\ a.cage = s.cage /\ a.text = s.text /\ a.grace = s.grace
  BY ScreenSet DEF Firm
<1> HIDE DEF a
<1> QED
  BY <1>1, <1>2, ComingSet DEF Firm

LEMMA CageMoves ==
    ASSUME NEW s \in Seat, Firm(s), s.faults > 0, s.cage # "off", NEW c \in CageStates
    PROVE  LET t == [s EXCEPT !.cage = c, !.faults = @ - 1]
           IN /\ t \in Seat /\ Firm(t) /\ t.screen = s.screen /\ t.held = s.held
              /\ t.shown = s.shown /\ t.text = s.text /\ t.grace = s.grace
<1> DEFINE a == [s EXCEPT !.cage = c]
           t == [s EXCEPT !.cage = c, !.faults = @ - 1]
<1>1. t = [a EXCEPT !.faults = @ - 1] /\ a.faults = s.faults
  OBVIOUS
<1>2. /\ a \in Seat /\ Firm(a) /\ a.screen = s.screen /\ a.held = s.held /\ a.shown = s.shown
      /\ a.text = s.text /\ a.grace = s.grace
  BY CageSet DEF Firm
<1> HIDE DEF a
<1> QED
  BY <1>1, <1>2, FaultSpent DEF Firm

SeatKept == /\ seat' \in Seat /\ Firm(seat')
            /\ seat'.held = seat.held /\ seat'.shown = seat.shown
            /\ seat.cage = "off" => seat'.cage = "off"
            /\ seat'.text => seat.text
            /\ seat'.grace => seat.grace

LEMMA AroundIs ==
    ASSUME seat \in Seat, Firm(seat), session \subseteq People, Around
    PROVE  /\ SeatKept /\ session' \subseteq People
           /\ pc # "off" => Seen
<1>1. /\ {"greeter", "empty"} \subseteq Vts /\ People \subseteq Vts
      /\ seat.screen \in Vts /\ seat.cage \in CageStates
      /\ seat.coming \in BOOLEAN /\ seat.text \in BOOLEAN /\ seat.grace \in BOOLEAN
  BY DEF Vts, Seat
<1>2. ASSUME NEW vt \in Vts, PersonSwitches(vt)
      PROVE  SeatKept /\ session' \subseteq People /\ (pc # "off" => Seen)
  <2> DEFINE c == seat.coming /\ vt # "greeter"
  <2>1. seat' = [seat EXCEPT !.screen = vt, !.coming = c] /\ seat.held = "off"
        /\ session' = session
    BY <1>2 DEF PersonSwitches, KeyboardSwitches, machine
  <2>2. \/ seat' = [seat EXCEPT !.screen = vt, !.coming = TRUE]
        \/ seat' = [seat EXCEPT !.screen = vt, !.coming = FALSE]
    BY <1>1, <2>1
  <2> HIDE DEF c
  <2>3. /\ seat' \in Seat /\ Firm(seat') /\ seat'.held = seat.held
        /\ seat'.shown = seat.shown /\ seat'.cage = seat.cage
        /\ seat'.text = seat.text /\ seat'.grace = seat.grace
    <3>0. seat.held = "off"
      BY <2>1
    <3>1. CASE seat' = [seat EXCEPT !.screen = vt, !.coming = TRUE]
      BY <3>0, <3>1, ScreenMoves
    <3>2. CASE seat' = [seat EXCEPT !.screen = vt, !.coming = FALSE]
      BY <3>0, <3>2, ScreenMoves
    <3> QED
      BY <2>2, <3>1, <3>2
  <2>4. SeatKept
    BY <2>3 DEF SeatKept
  <2> QED
    BY <1>2, <2>1, <2>4 DEF PersonSwitches, Watched, Seen, OnScreen
<1>3. ASSUME NEW p \in People, LogIn(p)
      PROVE  SeatKept /\ session' \subseteq People /\ (pc # "off" => Seen)
  <2> DEFINE vt == IF seat.screen = "greeter" /\ seat.held = "off" THEN p ELSE seat.screen
  <2>1. seat' = [seat EXCEPT !.screen = vt] /\ session' = session \cup {p}
    BY <1>3 DEF LogIn
  <2>2. vt \in Vts /\ (seat.held = "off" \/ vt = seat.screen)
    BY <1>1 DEF Seat, Switch
  <2> HIDE DEF vt
  <2>3. SeatKept
    BY <2>1, <2>2, ScreenSet DEF SeatKept, Firm
  <2> QED
    BY <1>3, <2>1, <2>3 DEF LogIn, Watched, Seen, OnScreen
<1>4. ASSUME NEW p \in People, LogOut(p)
      PROVE  SeatKept /\ session' \subseteq People /\ (pc # "off" => Seen)
  <2> DEFINE vt == IF seat.screen = p THEN "empty" ELSE seat.screen
             c == seat.coming \/ seat.screen = p
  <2>1. seat' = [seat EXCEPT !.screen = vt, !.coming = c] /\ session' = session \ {p}
    BY <1>4 DEF LogOut
  <2>2. vt \in Vts /\ (seat.held = "off" \/ vt = seat.screen)
    BY <1>1, LockAssumption DEF Seat, Switch, Firm
  <2>5. \/ seat' = [seat EXCEPT !.screen = vt, !.coming = TRUE]
        \/ seat' = [seat EXCEPT !.screen = vt, !.coming = FALSE]
    BY <1>1, <2>1
  <2> HIDE DEF vt, c
  <2>3. /\ seat' \in Seat /\ Firm(seat') /\ seat'.held = seat.held
        /\ seat'.shown = seat.shown /\ seat'.cage = seat.cage
        /\ seat'.text = seat.text /\ seat'.grace = seat.grace
    <3>1. CASE seat' = [seat EXCEPT !.screen = vt, !.coming = TRUE]
      BY <2>2, <3>1, ScreenMoves
    <3>2. CASE seat' = [seat EXCEPT !.screen = vt, !.coming = FALSE]
      BY <2>2, <3>2, ScreenMoves
    <3> QED
      BY <2>5, <3>1, <3>2
  <2>4. SeatKept
    BY <2>3 DEF SeatKept
  <2> QED
    BY <1>4, <2>1, <2>4 DEF LogOut, Watched, Seen, OnScreen
<1>5. ASSUME GreeterComes
      PROVE  SeatKept /\ session' \subseteq People /\ (pc # "off" => Seen)
  <2> DEFINE vt == IF seat.held = "off" THEN "greeter" ELSE seat.screen
  <2>1. seat' = [seat EXCEPT !.screen = vt, !.coming = FALSE] /\ session' = session
    <3>1. seat' = [seat EXCEPT !.coming = FALSE, !.screen = vt]
      BY <1>5 DEF GreeterComes
    <3> QED
      BY <1>5, <3>1 DEF GreeterComes, machine
  <2>2. vt \in Vts /\ (seat.held = "off" \/ vt = seat.screen)
    BY <1>1
  <2> HIDE DEF vt
  <2>3. /\ seat' \in Seat /\ Firm(seat') /\ seat'.held = seat.held
        /\ seat'.shown = seat.shown /\ seat'.cage = seat.cage
        /\ seat'.text = seat.text /\ seat'.grace = seat.grace
    BY <2>1, <2>2, ScreenMoves
  <2>4. SeatKept
    BY <2>3 DEF SeatKept
  <2> QED
    BY <1>5, <2>1, <2>4 DEF GreeterComes, Watched, Seen, OnScreen
<1>6. ASSUME SeatKept, seat'.screen = seat.screen, session' = session, moved' = moved
      PROVE  SeatKept /\ session' \subseteq People /\ (pc # "off" => Seen)
  BY <1>6 DEF Seen, OnScreen
<1>7. ASSUME CageSpeaks
      PROVE  SeatKept /\ session' \subseteq People /\ (pc # "off" => Seen)
  <2>1. seat' = [seat EXCEPT !.cage = "up"] /\ seat.cage = "starting"
        /\ session' = session /\ moved' = moved
    BY <1>7 DEF CageSpeaks, machine
  <2>2. SeatKept /\ seat'.screen = seat.screen
    BY <2>1, CageSet DEF SeatKept, Firm, CageStates
  <2> QED
    BY <1>6, <2>1, <2>2
<1>8. ASSUME UiStale
      PROVE  SeatKept /\ session' \subseteq People /\ (pc # "off" => Seen)
  <2>1. seat' = [seat EXCEPT !.cage = "hung"] /\ seat.cage = "silent"
        /\ session' = session /\ moved' = moved
    BY <1>8 DEF UiStale, machine
  <2>2. SeatKept /\ seat'.screen = seat.screen
    BY <2>1, CageSet DEF SeatKept, Firm, CageStates
  <2> QED
    BY <1>6, <2>1, <2>2
<1>9. ASSUME GraceEnds
      PROVE  SeatKept /\ session' \subseteq People /\ (pc # "off" => Seen)
  <2>1. /\ seat' = [seat EXCEPT !.grace = FALSE] \/ seat' = [seat EXCEPT !.greeted = "old"]
        /\ session' = session /\ moved' = moved
    BY <1>9 DEF GraceEnds, machine
  <2>2. CASE seat' = [seat EXCEPT !.grace = FALSE]
    BY <1>6, <2>1, <2>2, GraceSet DEF SeatKept, Firm
  <2>3. CASE seat' = [seat EXCEPT !.greeted = "old"]
    BY <1>6, <2>1, <2>3, GreetedSet DEF SeatKept, Firm, GreetStates
  <2> QED
    BY <2>1, <2>2, <2>3
<1>10. ASSUME UiFails
       PROVE  SeatKept /\ session' \subseteq People /\ (pc # "off" => Seen)
  <2>1. seat.faults > 0 /\ session' = session /\ moved' = moved
    BY <1>10 DEF UiFails, machine
  <2>2. ASSUME NEW c \in CageStates, seat.cage # "off",
               seat' = [seat EXCEPT !.cage = c, !.faults = @ - 1]
        PROVE  SeatKept /\ seat'.screen = seat.screen
    BY <2>1, <2>2, CageMoves DEF SeatKept
  <2>3. ASSUME seat.text, seat' = [seat EXCEPT !.text = FALSE, !.faults = @ - 1]
        PROVE  SeatKept /\ seat'.screen = seat.screen
    <3> DEFINE a == [seat EXCEPT !.text = FALSE]
    <3>1. seat' = [a EXCEPT !.faults = @ - 1] /\ a.faults = seat.faults
      BY <2>3
    <3>2. /\ a \in Seat /\ Firm(a) /\ a.screen = seat.screen /\ a.held = seat.held
          /\ a.shown = seat.shown /\ a.cage = seat.cage /\ a.grace = seat.grace
      BY TextSet DEF Firm
    <3> HIDE DEF a
    <3>3. /\ seat' \in Seat /\ Firm(seat') /\ seat'.screen = seat.screen
          /\ seat'.held = seat.held /\ seat'.shown = seat.shown
          /\ seat'.cage = seat.cage /\ seat'.grace = seat.grace
      BY <2>1, <3>1, <3>2, FaultSpent DEF Firm
    <3> QED
      BY <2>3, <3>3 DEF SeatKept
  <2>4. \/ /\ seat.cage # "off"
           /\ \/ seat' = [seat EXCEPT !.cage = "failed", !.faults = @ - 1]
              \/ seat' = [seat EXCEPT !.cage = "silent", !.faults = @ - 1]
        \/ seat.text /\ seat' = [seat EXCEPT !.text = FALSE, !.faults = @ - 1]
    BY <1>10 DEF UiFails
  <2>5. "failed" \in CageStates /\ "silent" \in CageStates
    BY DEF CageStates
  <2>6. SeatKept /\ seat'.screen = seat.screen
    BY <2>2, <2>3, <2>4, <2>5
  <2> QED
    BY <1>6, <2>1, <2>6
<1> QED
  BY <1>2, <1>3, <1>4, <1>5, <1>7, <1>8, <1>9, <1>10 DEF Around

-----------------------------------------------------------------------------
(* The steps, by what they do to the seat.                                 *)

SavedRecord == {r \in [frozen : SUBSET People, lock : LockRecord, locked : BOOLEAN] :
                  Whole(r.lock)}

LockTypes ==
    /\ seat \in Seat /\ saved \in SavedRecord
    /\ session \subseteq People /\ stopped \subseteq People /\ frozen \subseteq People
    /\ counting \subseteq People /\ spent \subseteq People /\ todo \subseteq People
    /\ who \in People \cup {NoOne} /\ locked \in BOOLEAN

\* A handler that waits, or has still to freeze or let off, knows for whom.
Waits ==
    /\ pc \in {"freeze", "undo", "gui", "late"} => who \in People
    /\ pc = "freeze" => from # "end"
    /\ pc \in {"gui", "late"} => IsUp(seat) /\ TextHeld(seat)

Sound == /\ Firm(seat) /\ Whole(seat.shown)
         /\ pc = "off" => ~seat.text /\ ~seat.grace

Still == \/ Tick \/ Freeze \/ Undo \/ Save \/ GuiUp \/ Code \/ SnoozeNow
         \/ \E g \in BOOLEAN : CmdLock(g)
         \/ \E ps \in SUBSET People : CmdUnlock(ps)
         \/ \E p \in People : CmdCredit(p) \/ RulesChange(p) \/ CountdownEnds(p)
         \/ WindowCloses \/ OstMark

Showing == \/ \E p \in People : LoopUser(p) \/ PauseUser(p)
           \/ WaitGui \/ WaitLate \/ Second \/ SeatChanged

LEMMA StepsAre ==
    ASSUME Handler \/ Person \/ Machine
    PROVE  \/ Still \/ Showing \/ Around \/ Reconcile \/ AskSwitchUser
           \/ OstTearDown \/ Crash \/ PowerCycle \/ Boot
BY DEF Handler, Person, Machine, Still, Showing, Around

LEMMA StillIs ==
    ASSUME Still
    PROVE  /\ seat' = seat /\ session' = session
           /\ \/ pc # "off" /\ pc' \in {"loop", "save", "idle"}
              \/ pc' = pc /\ who' = who /\ from' = from
BY DEF Still, Tick, Freeze, Undo, Save, GuiUp, Code, SnoozeNow, CmdLock, CmdUnlock,
       CmdCredit, RulesChange, CountdownEnds, WindowCloses, OstMark, machine, Elsewhere

LEMMA ShowingIs ==
    ASSUME LockTypes, Waits, Sound, Showing
    PROVE  /\ pc # "off" /\ pc' # "off" /\ session' = session /\ saved' = saved
           /\ \/ seat' = seat /\ pc' \in {"loop", "save"}
              \/ seat' = seat /\ pc' = "freeze" /\ who' \in People /\ from' # "end"
              \/ Outcome(from') /\ who' \in People
<1> USE DEF LockTypes, Sound
<1>1. ASSUME NEW p \in People, LoopUser(p)
      PROVE  /\ pc # "off" /\ pc' # "off" /\ session' = session /\ saved' = saved
             /\ \/ seat' = seat /\ pc' \in {"loop", "save"}
                \/ seat' = seat /\ pc' = "freeze" /\ who' \in People /\ from' # "end"
                \/ Outcome(from') /\ who' \in People
  <2>1. pc = "loop" /\ session' = session /\ saved' = saved
    BY <1>1 DEF LoopUser, machine
  <2>2. \/ StopUser(p, "tick")
        \/ seat' = seat /\ pc' = "loop"
    BY <1>1 DEF LoopUser, Lockout
  <2>3. CASE StopUser(p, "tick")
    <3>1. Outcome("tick") => pc' # "off"
      BY DEF Outcome, Shown, Unshown
    <3> QED
      BY <2>1, <2>3, <3>1, StopUserIs
  <2> QED
    BY <2>1, <2>2, <2>3
<1>2. ASSUME NEW p \in People, PauseUser(p)
      PROVE  /\ pc # "off" /\ pc' # "off" /\ session' = session /\ saved' = saved
             /\ \/ seat' = seat /\ pc' \in {"loop", "save"}
                \/ seat' = seat /\ pc' = "freeze" /\ who' \in People /\ from' # "end"
                \/ Outcome(from') /\ who' \in People
  <2>1. pc = "loop" /\ session' = session /\ saved' = saved /\ StopUser(p, "pause")
    BY <1>2 DEF PauseUser, machine
  <2>2. Outcome("pause") => pc' # "off"
    BY DEF Outcome, Shown, Unshown
  <2> QED
    BY <2>1, <2>2, StopUserIs
<1>3. ASSUME WaitGui
      PROVE  /\ pc # "off" /\ pc' # "off" /\ session' = session /\ saved' = saved
             /\ Outcome(from') /\ who' \in People
  <2>1. pc = "gui" /\ session' = session /\ saved' = saved /\ from' = from /\ who' = who
    BY <1>3 DEF WaitGui, machine
  <2>2. Outcome(from)
    BY <1>3, <2>1, WaitGuiIs DEF Waits
  <2> QED
    BY <2>1, <2>2 DEF Waits, Outcome, Shown, Unshown
<1>4. ASSUME WaitLate
      PROVE  /\ pc # "off" /\ pc' # "off" /\ session' = session /\ saved' = saved
             /\ Outcome(from') /\ who' \in People
  <2>1. pc = "late" /\ session' = session /\ saved' = saved /\ from' = from /\ who' = who
    BY <1>4 DEF WaitLate, machine
  <2>2. Outcome(from)
    BY <1>4, <2>1, WaitLateIs DEF Waits
  <2> QED
    BY <2>1, <2>2 DEF Waits, Outcome, Shown, Unshown
<1>5. ASSUME Second
      PROVE  /\ pc # "off" /\ pc' # "off" /\ session' = session /\ saved' = saved
             /\ \/ seat' = seat /\ pc' \in {"loop", "save"}
                \/ Outcome(from') /\ who' \in People
  <2>1. pc = "second" /\ session' = session /\ saved' = saved
    BY <1>5 DEF Second, machine
  <2>2. \/ seat' = seat /\ pc' = "save"
        \/ \E p \in People : Present(p, "end")
    BY <1>5 DEF Second
  <2>3. ASSUME NEW p \in People, Present(p, "end")
        PROVE  pc' # "off" /\ Outcome(from') /\ who' \in People
    BY <2>3, PresentIs DEF Outcome, Shown, Unshown
  <2> QED
    BY <2>1, <2>2, <2>3
<1>6. ASSUME SeatChanged
      PROVE  /\ pc # "off" /\ pc' # "off" /\ session' = session /\ saved' = saved
             /\ \/ seat' = seat /\ pc' \in {"loop", "save"}
                \/ seat' = seat /\ pc' = "freeze" /\ who' \in People /\ from' # "end"
                \/ Outcome(from') /\ who' \in People
  <2>1. pc = "idle" /\ session' = session /\ saved' = saved
    BY <1>6 DEF SeatChanged, machine
  <2>2. \/ seat' = seat /\ pc' = "loop"
        \/ \E p \in People : StopUser(p, "event")
    BY <1>6 DEF SeatChanged, Lockout, OnScreen
  <2>3. ASSUME NEW p \in People, StopUser(p, "event")
        PROVE  /\ pc' # "off"
               /\ \/ seat' = seat /\ pc' \in {"loop", "save"}
                  \/ seat' = seat /\ pc' = "freeze" /\ who' \in People /\ from' # "end"
                  \/ Outcome(from') /\ who' \in People
    <3>1. Outcome("event") => pc' # "off"
      BY DEF Outcome, Shown, Unshown
    <3> QED
      BY <2>3, <3>1, StopUserIs
  <2> QED
    BY <2>1, <2>2, <2>3
<1> QED
  BY <1>1, <1>2, <1>3, <1>4, <1>5, <1>6 DEF Showing

\* reconcile_lock: no lock, a lock let go, or one that is where it belongs.
LEMMA ReconcileIs ==
    ASSUME LockTypes, Sound, Reconcile
    PROVE  /\ pc = "loop" /\ todo = {} /\ session' = session
           /\ \/ ~IsUp(seat) /\ seat' = seat /\ pc' = "second"
              \/ Parted(seat') /\ pc' = "second"
              \/ /\ seat' \in Seat /\ Firm(seat') /\ IsUp(seat') /\ pc' = "idle"
                 /\ TextHeld(seat) \/ ~seat.grace => TextHeld(seat')
                 /\ OnScreen(seat') \notin frozen /\ frozen' = frozen
<1> DEFINE person == OnScreen(seat)
           s == IF IsUp(seat) /\ person # NoOne /\ person \in frozen
                THEN Retarget(seat, person) ELSE seat
           subject == s.shown.subject
<1>1. pc = "loop" /\ todo = {} /\ session' = session
  BY DEF Reconcile, machine
<1>2. \/ ~IsUp(s) /\ seat' = seat /\ pc' = "second"
      \/ seat' \in Release(s) /\ IsUp(s) /\ pc' = "second"
      \/ seat' \in HandToLoginScreen(s) /\ pc' = "second"
      \/ IsUp(s) /\ \E o \in Reassert(s) :
           \/ o.ok /\ seat' = o.seat /\ pc' = "idle" /\ frozen' = frozen
           \/ ~o.ok /\ seat' \in Release(o.seat) /\ pc' = "second"
  BY DEF Reconcile, held
<1>3. /\ s \in Seat /\ Firm(s) /\ (IsUp(s) <=> IsUp(seat))
      /\ (TextHeld(s) <=> TextHeld(seat)) /\ s.grace = seat.grace
  <2>1. CASE s = seat
    BY <2>1 DEF LockTypes, Sound
  <2>2. CASE IsUp(seat) /\ person \in frozen /\ s = Retarget(seat, person)
    BY <2>2, RetargetIs, LockAssumption DEF LockTypes, Sound, Firm, IsUp, TextHeld
  <2> QED
    BY <2>1, <2>2
<1> HIDE DEF s
<1>4. session \subseteq People /\ frozen \subseteq People
  BY DEF LockTypes
<1>5. CASE ~IsUp(s) /\ seat' = seat /\ pc' = "second"
  BY <1>1, <1>3, <1>5
<1>6. CASE seat' \in Release(s) /\ IsUp(s) /\ pc' = "second"
  BY <1>1, <1>3, <1>4, <1>6, ReleaseIs
<1>7. CASE seat' \in HandToLoginScreen(s) /\ pc' = "second"
  BY <1>1, <1>3, <1>7, HandToLoginScreenIs
<1>8. ASSUME IsUp(s), NEW o \in Reassert(s),
             \/ o.ok /\ seat' = o.seat /\ pc' = "idle" /\ frozen' = frozen
             \/ ~o.ok /\ seat' \in Release(o.seat) /\ pc' = "second"
      PROVE  \/ Parted(seat') /\ pc' = "second"
             \/ /\ seat' \in Seat /\ Firm(seat') /\ IsUp(seat') /\ pc' = "idle"
                /\ TextHeld(seat) \/ ~seat.grace => TextHeld(seat')
                /\ OnScreen(seat') \notin frozen /\ frozen' = frozen
  <2>1. /\ o.seat \in Seat /\ Firm(o.seat) /\ IsUp(o.seat)
        /\ (TextHeld(s) \/ ~s.grace => TextHeld(o.seat))
        /\ (o.ok => OnScreen(o.seat) \notin frozen)
    BY <1>3, <1>4, <1>8, ReassertIs
  <2>2. CASE o.ok /\ seat' = o.seat /\ pc' = "idle" /\ frozen' = frozen
    BY <1>3, <2>1, <2>2
  <2>3. CASE ~o.ok /\ seat' \in Release(o.seat) /\ pc' = "second"
    BY <1>4, <2>1, <2>3, ReleaseIs
  <2> QED
    BY <1>8, <2>2, <2>3
<1> QED
  BY <1>1, <1>2, <1>5, <1>6, <1>7, <1>8

LEMMA AskSwitchUserIs ==
    ASSUME LockTypes, Sound, AskSwitchUser
    PROVE  /\ seat' \in Seat /\ Firm(seat') /\ IsUp(seat') /\ TextHeld(seat')
           /\ pc = "idle" /\ pc' = "loop" /\ session' = session
BY SwitchUserIs DEF AskSwitchUser, Usable, LockTypes, Sound, machine

LEMMA CrashIs ==
    ASSUME LockTypes, Sound, Crash
    PROVE  /\ seat' \in Seat /\ Firm(seat') /\ seat'.shown = NoLock /\ seat'.screen = seat.screen
           /\ seat'.held = seat.held /\ seat'.cage = seat.cage
           /\ seat'.text = FALSE /\ seat'.grace = FALSE
           /\ pc # "off" /\ pc' = "off" /\ session' = session
<1> DEFINE a == [seat EXCEPT !.text = FALSE]
           b == [a EXCEPT !.shown = NoLock, !.upgrade = FALSE,
                          !.grace = FALSE, !.greeted = "no"]
           c == [b EXCEPT !.cache = "unknown"]
<1>1. seat' = c
  <2>1. seat' = [seat EXCEPT !.text = FALSE, !.shown = NoLock, !.upgrade = FALSE,
                             !.grace = FALSE, !.greeted = "no", !.cache = "unknown"]
    BY DEF Crash
  <2> QED
    BY <2>1
<1>2. /\ a \in Seat /\ a.screen = seat.screen /\ a.held = seat.held
      /\ a.cage = seat.cage /\ a.text = FALSE
  BY TextSet DEF LockTypes
<1> HIDE DEF a
<1>3. /\ b \in Seat /\ b.screen = seat.screen /\ b.held = seat.held /\ b.cage = seat.cage
      /\ b.text = FALSE /\ b.shown = NoLock /\ b.grace = FALSE
  BY <1>2, LockReset
<1> HIDE DEF b
<1>4. /\ c \in Seat /\ c.screen = seat.screen /\ c.held = seat.held /\ c.cage = seat.cage
      /\ c.text = FALSE /\ c.shown = NoLock /\ c.grace = FALSE /\ c.cache = "unknown"
  BY <1>3, CacheSet DEF CacheStates
<1> HIDE DEF c
<1>5. pc # "off" /\ pc' = "off" /\ session' = session
  BY DEF Crash, machine
<1> QED
  BY <1>1, <1>4, <1>5 DEF Sound, Firm

LEMMA PowerCycleIs ==
    ASSUME LockTypes, PowerCycle
    PROVE  /\ seat' \in Seat /\ Firm(seat') /\ seat'.shown = NoLock
           /\ seat'.held = "off" /\ seat'.cage = "off"
           /\ seat'.text = FALSE /\ seat'.grace = FALSE
           /\ pc = "off" /\ pc' = "off" /\ session' = {}
<1>1. seat.faults \in Nat /\ NoLock \in LockRecord /\ Fresh.faults \in Nat
  BY LockAssumption DEF LockTypes, Seat, NoLock, LockRecord, LockVts, Fresh
<1>2. Fresh \in Seat
  BY <1>1, LockAssumption DEF Fresh, Seat, Switch, CageStates, GreetStates, CacheStates, Vts
<1>3. seat' = [Fresh EXCEPT !.faults = seat.faults]
  BY DEF PowerCycle
<1>4. seat' \in Seat
  BY <1>1, <1>2, <1>3 DEF Seat
<1>5. /\ seat'.shown = NoLock /\ seat'.held = "off" /\ seat'.cage = "off"
      /\ seat'.text = FALSE /\ seat'.grace = FALSE /\ seat'.cache = "unknown"
  BY <1>3 DEF Fresh
<1>6. pc = "off" /\ pc' = "off" /\ session' = {}
  BY DEF PowerCycle
<1> QED
  BY <1>4, <1>5, <1>6 DEF Firm

LEMMA BootIs ==
    ASSUME LockTypes, Sound, Boot
    PROVE  /\ seat' \in Seat /\ Firm(seat') /\ seat'.shown = saved.lock
           /\ seat'.held = seat.held /\ (seat.cage = "off" => seat'.cage = "off")
           /\ ~seat'.text /\ ~seat'.grace
           /\ pc = "off" /\ pc' = "loop" /\ todo' = {} /\ session' = session
<1> DEFINE g == IF saved.lock # NoLock /\ seat.cage = "hung" THEN "silent" ELSE seat.cage
           a == [seat EXCEPT !.shown = saved.lock]
           b == [a EXCEPT !.cage = g]
<1>1. seat' = b
  <2>1. seat' = [seat EXCEPT !.shown = saved.lock, !.cage = g]
    BY DEF Boot
  <2> QED
    BY <2>1
<1>2. g \in CageStates /\ (seat.cage = "off" => g = "off") /\ saved.lock \in LockRecord
  BY SeatFields DEF LockTypes, SavedRecord, CageStates
<1> HIDE DEF g
<1>3. pc = "off" /\ pc' = "loop" /\ todo' = {} /\ session' = session
  BY DEF Boot, machine
<1>4. /\ a \in Seat /\ Firm(a) /\ a.shown = saved.lock /\ a.held = seat.held
      /\ a.cage = seat.cage /\ ~a.text /\ ~a.grace
  <2>1. seat \in Seat /\ Firm(seat) /\ ~seat.text /\ ~seat.grace
    BY <1>3 DEF LockTypes, Sound
  <2> QED
    BY <1>2, <2>1, ShownSet DEF Firm
<1> HIDE DEF a
<1>5. /\ b \in Seat /\ Firm(b) /\ b.shown = saved.lock /\ b.held = seat.held
      /\ b.cage = g /\ ~b.text /\ ~b.grace
  BY <1>2, <1>4, CageSet DEF Firm
<1> HIDE DEF b
<1> QED
  BY <1>1, <1>2, <1>3, <1>5

\* `ost unlock` takes the recorded lock down, or finds none and changes nothing.
LEMMA OstTearDownIs ==
    ASSUME LockTypes, Sound, OstTearDown
    PROVE  /\ seat' \in Seat /\ Firm(seat')
           /\ seat'.shown = seat.shown /\ seat'.text = seat.text /\ seat'.grace = seat.grace
           /\ \/ seat'.held = "off" /\ seat'.cage = "off"
              \/ seat'.held = seat.held /\ seat'.cage = seat.cage
           /\ pc' = pc /\ who' = who /\ from' = from /\ todo' = todo /\ session' = session
<1> DEFINE x == [seat EXCEPT !.shown = saved.lock]
           y == [x EXCEPT !.cache = "unknown"]
<1>1. PICK r \in Release(y) :
        seat' = [seat EXCEPT !.screen = r.screen, !.held = r.held, !.cage = r.cage,
                             !.faults = r.faults]
  <2>1. y = [seat EXCEPT !.shown = saved.lock, !.cache = "unknown"]
    OBVIOUS
  <2> QED
    BY <2>1 DEF OstTearDown
<1>2. x \in Seat /\ x.screen = seat.screen /\ x.held = seat.held /\ x.cage = seat.cage
  BY ShownSet DEF LockTypes, SavedRecord
<1> HIDE DEF x
<1>3. /\ y \in Seat /\ Firm(y) /\ y.screen = seat.screen /\ y.held = seat.held
      /\ y.cage = seat.cage
  <2>1. /\ y \in Seat /\ y.screen = x.screen /\ y.held = x.held /\ y.cage = x.cage
        /\ y.cache = "unknown"
    BY <1>2, CacheSet DEF CacheStates
  <2> HIDE DEF y
  <2> QED
    BY <1>2, <2>1 DEF Sound, Firm
<1> HIDE DEF y
<1>4. /\ r \in Seat
      /\ \/ r.held = "off" /\ r.cage = "off"
         \/ r.held = seat.held /\ r.cage = seat.cage /\ r.screen = seat.screen
  BY <1>3, ReleaseIs DEF Parted, LockTypes
<1>5. r.screen \in Vts /\ r.held \in Switch /\ r.cage \in CageStates /\ r.faults \in Nat
  BY <1>4 DEF Seat
<1> DEFINE a == [seat EXCEPT !.screen = r.screen]
           b == [a EXCEPT !.held = r.held]
           c == [b EXCEPT !.cage = r.cage]
           d == [c EXCEPT !.faults = r.faults]
<1>6. seat' = d
  BY <1>1
<1>7. /\ a \in Seat /\ a.screen = r.screen /\ a.shown = seat.shown /\ a.text = seat.text
      /\ a.grace = seat.grace /\ a.cache = seat.cache
  BY <1>5, ScreenSet DEF LockTypes
<1> HIDE DEF a
<1>8. /\ b \in Seat /\ b.screen = r.screen /\ b.shown = seat.shown /\ b.text = seat.text
      /\ b.grace = seat.grace /\ b.cache = seat.cache /\ b.held = r.held
  BY <1>5, <1>7, HeldSet
<1> HIDE DEF b
<1>9. /\ c \in Seat /\ c.screen = r.screen /\ c.shown = seat.shown /\ c.text = seat.text
      /\ c.grace = seat.grace /\ c.cache = seat.cache /\ c.held = r.held /\ c.cage = r.cage
  BY <1>5, <1>8, CageSet
<1> HIDE DEF c
<1>10. /\ d \in Seat /\ d.screen = r.screen /\ d.shown = seat.shown /\ d.text = seat.text
       /\ d.grace = seat.grace /\ d.cache = seat.cache /\ d.held = r.held /\ d.cage = r.cage
  BY <1>5, <1>9 DEF Seat
<1> HIDE DEF d
<1>11. pc' = pc /\ who' = who /\ from' = from /\ todo' = todo /\ session' = session
  BY DEF OstTearDown, machine
<1> QED
  BY <1>4, <1>6, <1>10, <1>11 DEF Sound, Firm

-----------------------------------------------------------------------------
(* The types, and what the seat and the waiting handlers are.              *)

LEMMA AroundKeeps ==
    ASSUME Around
    PROVE  /\ pc' = pc /\ todo' = todo /\ who' = who /\ from' = from /\ saved' = saved
           /\ frozen' = frozen /\ counting' = counting /\ spent' = spent /\ locked' = locked
           /\ forgot' = forgot /\ stopped' \subseteq stopped
BY DEF Around, PersonSwitches, LogIn, LogOut, GreeterComes, CageSpeaks, UiFails, UiStale,
       GraceEnds, Elsewhere, held, pause, history, Thaw

LEMMA SeatStep ==
    ASSUME LockTypes, Waits, Sound, Handler \/ Person \/ Machine
    PROVE  seat' \in Seat /\ session' \subseteq People /\ Sound' /\ Waits'
<1>1. seat \in Seat /\ session \subseteq People /\ saved.lock \in LockRecord /\ Whole(saved.lock)
  BY DEF LockTypes, SavedRecord
<1>2. CASE Still
  BY <1>1, <1>2, StillIs DEF Sound, Waits, Firm, IsUp, TextHeld
<1>3. CASE Showing
  <2>1. pc' # "off" /\ session' = session
    BY <1>3, ShowingIs
  <2>2. CASE seat' = seat /\ pc' \in {"loop", "save"}
    BY <1>1, <2>1, <2>2 DEF Sound, Waits, Firm
  <2>3. CASE seat' = seat /\ pc' = "freeze" /\ who' \in People /\ from' # "end"
    BY <1>1, <2>1, <2>3 DEF Sound, Waits, Firm
  <2>4. CASE Outcome(from') /\ who' \in People
    BY <1>1, <2>1, <2>4 DEF Sound, Waits, Firm, Outcome, Fine, Shown, Unshown, IsUp, TextHeld
  <2> QED
    BY <1>3, <2>2, <2>3, <2>4, ShowingIs
<1>4. CASE Around
  <2>1. SeatKept /\ session' \subseteq People
    BY <1>1, <1>4, AroundIs DEF Sound
  <2>2. pc' = pc /\ who' = who /\ from' = from
    BY <1>4, AroundKeeps
  <2>3. Waits'
    BY <2>1, <2>2 DEF Waits, SeatKept, IsUp, TextHeld
  <2>4. Sound'
    BY <2>1, <2>2 DEF Sound, SeatKept, Firm
  <2> QED
    BY <2>1, <2>3, <2>4 DEF SeatKept
<1>5. CASE Reconcile
  <2>1. CASE seat' = seat /\ pc' = "second"
    BY <1>1, <1>5, <2>1, ReconcileIs DEF Sound, Waits, Firm
  <2>2. CASE Parted(seat') /\ pc' = "second"
    BY <1>1, <1>5, <2>2, ReconcileIs DEF Sound, Waits, Firm, Parted, Whole
  <2>3. CASE seat' \in Seat /\ Firm(seat') /\ IsUp(seat') /\ pc' = "idle"
    BY <1>1, <1>5, <2>3, ReconcileIs DEF Sound, Waits, Firm, Whole, IsUp
  <2> QED
    BY <1>5, <2>1, <2>2, <2>3, ReconcileIs
<1>6. CASE AskSwitchUser
  BY <1>1, <1>6, AskSwitchUserIs DEF Sound, Waits, Firm, Whole, IsUp
<1>7. CASE OstTearDown
  BY <1>1, <1>7, OstTearDownIs DEF Sound, Waits, Firm, IsUp, TextHeld
<1>8. CASE Crash
  BY <1>1, <1>8, CrashIs DEF Sound, Waits, Firm, Whole
<1>9. CASE PowerCycle
  BY <1>9, PowerCycleIs DEF Sound, Waits, Firm, Whole
<1>10. CASE Boot
  <2>1. ~(pc' \in {"freeze", "undo", "gui", "late", "off"}) /\ session' = session
    BY <1>10, BootIs
  <2> QED
    BY <1>1, <1>10, <2>1, BootIs DEF Sound, Waits, Firm
<1> QED
  BY <1>2, <1>3, <1>4, <1>5, <1>6, <1>7, <1>8, <1>9, <1>10, StepsAre

\* What a step leaves saved: who was, or the people it leaves stopped or in
\* a countdown; and the lock that was, or the one it leaves.
SavedMoves ==
    /\ saved'.lock \in LockRecord /\ Whole(saved'.lock)
    /\ \/ saved'.lock = saved.lock
       \/ pc # "off" /\ saved'.lock = seat'.shown
       \/ PowerCycle /\ saved'.lock = NoLock
    /\ \/ saved'.frozen = saved.frozen
       \/ saved'.frozen = frozen' \cup counting' \cup spent'

LEMMA LockSets ==
    ASSUME LockTypes, Waits, Sound, Handler \/ Person \/ Machine
    PROVE  /\ stopped' \subseteq People /\ frozen' \subseteq People
           /\ counting' \subseteq People /\ spent' \subseteq People
           /\ todo' \subseteq People /\ locked' \in BOOLEAN
           /\ who' \in People \cup {NoOne}
<1> USE DEF LockTypes
<1>1. CASE Still
  <2>1. CASE Tick \/ Code \/ SnoozeNow
    BY <2>1 DEF Tick, Code, SnoozeNow, Thaw, held, pause
  <2>2. CASE Freeze \/ Undo \/ Save \/ GuiUp \/ WindowCloses \/ OstMark
    BY <2>2 DEF Waits, Freeze, Undo, Save, GuiUp, WindowCloses, OstMark, Thaw, held, pause
  <2>3. ASSUME NEW g \in BOOLEAN, CmdLock(g)
        PROVE  /\ stopped' \subseteq People /\ frozen' \subseteq People
               /\ counting' \subseteq People /\ spent' \subseteq People
               /\ todo' \subseteq People /\ locked' \in BOOLEAN
               /\ who' \in People \cup {NoOne}
    BY <2>3 DEF CmdLock, held
  <2>4. ASSUME NEW ps \in SUBSET People, CmdUnlock(ps)
        PROVE  /\ stopped' \subseteq People /\ frozen' \subseteq People
               /\ counting' \subseteq People /\ spent' \subseteq People
               /\ todo' \subseteq People /\ locked' \in BOOLEAN
               /\ who' \in People \cup {NoOne}
    BY <2>4 DEF CmdUnlock, Thaw
  <2>5. ASSUME NEW p \in People, CmdCredit(p) \/ RulesChange(p) \/ CountdownEnds(p)
        PROVE  /\ stopped' \subseteq People /\ frozen' \subseteq People
               /\ counting' \subseteq People /\ spent' \subseteq People
               /\ todo' \subseteq People /\ locked' \in BOOLEAN
               /\ who' \in People \cup {NoOne}
    BY <2>5 DEF CmdCredit, RulesChange, CountdownEnds, Elsewhere, Thaw, held, pause
  <2> QED
    BY <1>1, <2>1, <2>2, <2>3, <2>4, <2>5 DEF Still
<1>2. CASE Showing
  <2>1. who' \in People \cup {NoOne}
    <3>1. seat \in Seat /\ Firm(seat) /\ session \subseteq People
      BY DEF Sound
    <3>2. ASSUME NEW p \in People, LoopUser(p) \/ PauseUser(p)
          PROVE  who' \in People \cup {NoOne}
      <4>1. who' = who \/ StopUser(p, "tick") \/ StopUser(p, "pause")
        BY <3>2 DEF LoopUser, Lockout, PauseUser
      <4> QED
        BY <3>1, <4>1, StopUserIs
    <3>3. CASE WaitGui \/ WaitLate
      BY <3>3 DEF WaitGui, WaitLate
    <3>4. CASE Second
      BY <3>4 DEF Second, Present
    <3>5. CASE SeatChanged
      <4>1. who' = who \/ \E p \in People : StopUser(p, "event")
        BY <3>5 DEF SeatChanged, Lockout, OnScreen
      <4> QED
        BY <3>1, <4>1, StopUserIs
    <3> QED
      BY <1>2, <3>2, <3>3, <3>4, <3>5 DEF Showing
  <2>2. ASSUME NEW p \in People, LoopUser(p)
        PROVE  /\ stopped' \subseteq People /\ frozen' \subseteq People
               /\ counting' \subseteq People /\ spent' \subseteq People
               /\ todo' \subseteq People /\ locked' \in BOOLEAN
    BY <2>2 DEF LoopUser, Lockout, Thaw, pause
  <2>3. ASSUME NEW p \in People, PauseUser(p)
        PROVE  /\ stopped' \subseteq People /\ frozen' \subseteq People
               /\ counting' \subseteq People /\ spent' \subseteq People
               /\ todo' \subseteq People /\ locked' \in BOOLEAN
    BY <2>3 DEF PauseUser, held, pause
  <2>4. CASE WaitGui \/ WaitLate \/ Second
    BY <2>1, <2>4 DEF WaitGui, WaitLate, Second, held, pause
  <2>5. CASE SeatChanged
    BY <2>1, <2>5 DEF SeatChanged, Lockout, OnScreen, pause
  <2> QED
    BY <1>2, <2>1, <2>2, <2>3, <2>4, <2>5 DEF Showing
<1>3. CASE Around
  BY <1>3, AroundKeeps
<1>4. CASE Reconcile
  <2>1. PICK x : /\ stopped' = stopped \/ Thaw({x})
                 /\ frozen' = frozen \/ frozen' = frozen \ {x}
                 /\ counting' = counting /\ spent' = spent
    BY <1>4 DEF Reconcile, held
  <2> QED
    BY <1>4, <2>1 DEF Reconcile, Thaw, pause
<1>5. CASE AskSwitchUser \/ OstTearDown
  BY <1>5 DEF AskSwitchUser, OstTearDown, held, pause
<1>6. CASE Crash \/ PowerCycle
  BY <1>6 DEF Crash, PowerCycle, held, pause
<1>7. CASE Boot
  BY <1>7 DEF Boot, SavedRecord
<1> QED
  BY <1>1, <1>2, <1>3, <1>4, <1>5, <1>6, <1>7, StepsAre

LEMMA RecordSet ==
    ASSUME NEW r \in SavedRecord, NEW lock \in LockRecord, NEW pcs \in SUBSET People,
           NEW b \in BOOLEAN
    PROVE  /\ LET t == [r EXCEPT !.frozen = pcs, !.lock = lock]
              IN /\ t \in [frozen : SUBSET People, lock : LockRecord, locked : BOOLEAN]
                 /\ t.frozen = pcs /\ t.lock = lock
           /\ LET t == [r EXCEPT !.frozen = pcs, !.lock = lock, !.locked = b]
              IN /\ t \in [frozen : SUBSET People, lock : LockRecord, locked : BOOLEAN]
                 /\ t.frozen = pcs /\ t.lock = lock
           /\ LET t == [r EXCEPT !.locked = b]
              IN /\ t \in [frozen : SUBSET People, lock : LockRecord, locked : BOOLEAN]
                 /\ t.frozen = r.frozen /\ t.lock = r.lock
BY DEF SavedRecord

LEMMA SavedStep ==
    ASSUME LockTypes, Waits, Sound, Handler \/ Person \/ Machine
    PROVE  saved' \in SavedRecord /\ SavedMoves
<1> DEFINE Records == [frozen : SUBSET People, lock : LockRecord, locked : BOOLEAN]
           after == frozen' \cup counting' \cup spent'
<1>1. /\ saved \in SavedRecord /\ saved \in Records /\ saved.lock \in LockRecord
      /\ Whole(saved.lock)
  BY DEF LockTypes, SavedRecord
<1>2. seat' \in Seat /\ Firm(seat') /\ Whole(seat'.shown) /\ seat'.shown \in LockRecord
  BY SeatStep, SeatFields DEF Sound
<1>3. after \in SUBSET People
  BY LockSets
<1>4. ASSUME saved' = saved
      PROVE  saved' \in SavedRecord /\ SavedMoves
  BY <1>1, <1>4 DEF SavedMoves
<1>5. ASSUME saved' \in Records,
             \/ saved'.lock = saved.lock
             \/ pc # "off" /\ saved'.lock = seat'.shown
             \/ PowerCycle /\ saved'.lock = NoLock,
             \/ saved'.frozen = saved.frozen
             \/ saved'.frozen = after
      PROVE  saved' \in SavedRecord /\ SavedMoves
  BY <1>1, <1>2, <1>5 DEF SavedMoves, SavedRecord, Whole
<1>6. TRUE \in BOOLEAN /\ FALSE \in BOOLEAN /\ {} \in SUBSET People
  OBVIOUS
<1>7. ASSUME pc # "off", saved' = [saved EXCEPT !.frozen = after, !.lock = seat'.shown]
      PROVE  saved' \in SavedRecord /\ SavedMoves
  <2> HIDE DEF after
  <2>1. saved' \in Records /\ saved'.lock = seat'.shown /\ saved'.frozen = after
    BY <1>1, <1>2, <1>3, <1>7, RecordSet
  <2> QED
    BY <1>5, <1>7, <2>1
<1>8. ASSUME pc # "off", Persist
      PROVE  saved' \in SavedRecord /\ SavedMoves
  BY <1>7, <1>8 DEF Persist, Record
<1>9. ASSUME pc # "off",
             saved' = [saved EXCEPT !.frozen = after, !.lock = seat'.shown, !.locked = FALSE]
      PROVE  saved' \in SavedRecord /\ SavedMoves
  <2> HIDE DEF after
  <2>1. saved' \in Records /\ saved'.lock = seat'.shown /\ saved'.frozen = after
    BY <1>1, <1>2, <1>3, <1>6, <1>9, RecordSet
  <2> QED
    BY <1>5, <1>9, <2>1
<1>10. ASSUME NEW b \in BOOLEAN, saved' = [saved EXCEPT !.locked = b]
       PROVE  saved' \in SavedRecord /\ SavedMoves
  <2>1. saved' \in Records /\ saved'.lock = saved.lock /\ saved'.frozen = saved.frozen
    BY <1>1, <1>10, RecordSet
  <2> QED
    BY <1>5, <2>1
<1>11. CASE Still
  <2>1. CASE Freeze \/ Undo \/ GuiUp \/ SnoozeNow \/ WindowCloses
             \/ \E p \in People : RulesChange(p) \/ CountdownEnds(p)
    BY <1>4, <2>1 DEF Freeze, Undo, GuiUp, SnoozeNow, WindowCloses, RulesChange,
                      CountdownEnds, Elsewhere
  <2>2. CASE Save
    BY <1>8, <2>2 DEF Save
  <2>3. CASE OstMark
    BY <1>6, <1>10, <2>3 DEF OstMark
  <2>4. ASSUME NEW g \in BOOLEAN, CmdLock(g)
        PROVE  saved' \in SavedRecord /\ SavedMoves
    BY <1>6, <1>10, <2>4 DEF CmdLock
  <2>5. CASE Tick
    <3>1. saved' = saved \/
          (saved' = [saved EXCEPT !.frozen = after, !.lock = seat'.shown, !.locked = FALSE])
      BY <2>5 DEF Tick
    <3>2. pc # "off"
      BY <2>5 DEF Tick
    <3> QED
      BY <1>4, <1>9, <3>1, <3>2
  <2>6. CASE Code
    <3>1. /\ pc # "off" /\ after = {} /\ seat'.shown = seat.shown
          /\ saved' = [frozen |-> {}, lock |-> seat.shown, locked |-> FALSE]
      BY <2>6 DEF Code
    <3>2. saved' \in Records /\ saved'.lock = seat'.shown /\ saved'.frozen = after
      BY <1>2, <3>1
    <3> QED
      BY <1>5, <3>1, <3>2
  <2>7. ASSUME NEW ps \in SUBSET People, CmdUnlock(ps)
        PROVE  saved' \in SavedRecord /\ SavedMoves
    <3>1. pc # "off" /\ after = frozen' /\ seat'.shown = seat.shown
      BY <2>7 DEF CmdUnlock
    <3>2. saved' = [saved EXCEPT !.frozen = after, !.lock = seat'.shown, !.locked = FALSE]
      BY <2>7, <3>1 DEF CmdUnlock
    <3> QED
      BY <1>9, <3>1, <3>2
  <2>8. ASSUME NEW p \in People, CmdCredit(p)
        PROVE  saved' \in SavedRecord /\ SavedMoves
    <3>1. pc # "off" /\ (saved' = saved \/ Persist)
      BY <2>8 DEF CmdCredit
    <3> QED
      BY <1>4, <1>8, <3>1
  <2> QED
    BY <1>11, <2>1, <2>2, <2>3, <2>4, <2>5, <2>6, <2>7, <2>8 DEF Still
<1>12. CASE Showing
  BY <1>4, <1>12, ShowingIs
<1>13. CASE Around
  BY <1>4, <1>13, AroundKeeps
<1>14. CASE Reconcile
  <2>1. pc # "off" /\ (saved' = saved \/ Persist)
    BY <1>14 DEF Reconcile
  <2> QED
    BY <1>4, <1>8, <2>1
<1>15. CASE AskSwitchUser \/ OstTearDown \/ Crash \/ Boot
  BY <1>4, <1>15 DEF AskSwitchUser, OstTearDown, Crash, Boot
<1>16. CASE PowerCycle
  <2>1. pc = "off" /\ saved' = [saved EXCEPT !.lock = NoLock]
    BY <1>16 DEF PowerCycle
  <2>2. NoLock \in LockRecord
    BY DEF NoLock, LockRecord, LockVts
  <2>3. saved' \in Records /\ saved'.lock = NoLock /\ saved'.frozen = saved.frozen
    BY <1>1, <2>1, <2>2
  <2> QED
    BY <1>5, <1>16, <2>3
<1> QED
  BY <1>11, <1>12, <1>13, <1>14, <1>15, <1>16, StepsAre

-----------------------------------------------------------------------------
(* Types, the seat and the waiting handlers, together.                     *)

LockInv == LockTypes /\ Waits /\ Sound

LEMMA LockInvStarts ==
    ASSUME Init
    PROVE  LockInv
<1>1. seat = Fresh /\ MaxFaults \in Nat
  BY LockAssumption DEF Init
<1>2. NoLock \in LockRecord /\ Whole(NoLock)
  BY DEF NoLock, LockRecord, LockVts, Whole
<1>3. Fresh \in Seat
  BY <1>1, <1>2 DEF Fresh, Seat, Switch, CageStates, GreetStates, CacheStates, Vts
<1>4. saved \in SavedRecord
  BY <1>2 DEF Init, SavedRecord
<1>5. LockTypes
  BY <1>1, <1>3, <1>4 DEF Init, LockTypes
<1>6. Sound
  <2>1. Fresh.cache = "unknown" /\ Fresh.held = "off" /\ Fresh.shown = NoLock
    BY DEF Fresh
  <2>2. pc = "idle"
    BY DEF Init
  <2> QED
    BY <1>1, <1>2, <2>1, <2>2 DEF Sound, Firm
<1> QED
  BY <1>5, <1>6 DEF Init, LockInv, Waits

LEMMA LockInvStep ==
    ASSUME LockInv, [Next]_vars
    PROVE  LockInv'
<1>1. CASE UNCHANGED vars
  BY <1>1 DEF vars, core, LockInv, LockTypes, Waits, Sound, Firm, Whole, IsUp, TextHeld
<1>2. CASE Next
  <2>1. Handler \/ Person \/ Machine
    BY <1>2 DEF Next
  <2> QED
    BY <2>1, SeatStep, SavedStep, LockSets DEF LockInv, LockTypes
<1> QED
  BY <1>1, <1>2

LEMMA LockInvHolds == Spec => []LockInv
<1>1. Init => LockInv
  BY LockInvStarts
<1>2. LockInv /\ [Next]_vars => LockInv'
  BY LockInvStep
<1> QED
  BY <1>1, <1>2, PTL DEF Spec

-----------------------------------------------------------------------------
(* Whoever was saved as stopped or in a countdown still is, or was let off *)
(* since.                                                                  *)

GracedInv == /\ graced \subseteq saved.frozen
             /\ pc # "off" => graced \subseteq frozen \cup Pending

LEMMA GracedStep ==
    ASSUME LockInv, GracedInv, Next
    PROVE  GracedInv'
<1> DEFINE before == frozen \cup Pending
           after  == frozen' \cup counting' \cup spent'
<1>1. /\ saved'.frozen = saved.frozen \/ saved'.frozen = after
      /\ (Handler \/ Person \/ Machine) /\ Remember
  BY SavedStep DEF Next, SavedMoves, LockInv
<1>2. Pending' = counting' \cup spent'
  BY DEF Pending
<1>3. CASE pc # "off" /\ pc' # "off" /\ ~(pc = "save" /\ pc' # "save")
  <2>1. graced' = graced \ (before \ after)
    BY <1>1, <1>3 DEF Remember
  <2> QED
    BY <1>1, <1>2, <1>3, <2>1 DEF GracedInv
<1>4. CASE pc = "save" /\ pc' # "save" /\ pc' # "off"
  <2>1. Save
    <3>1. Still \/ Showing \/ Around \/ Reconcile \/ AskSwitchUser
          \/ OstTearDown \/ Crash \/ PowerCycle \/ Boot
      BY <1>1, StepsAre
    <3>2. ~Around /\ ~OstTearDown
      BY <1>4, AroundKeeps DEF OstTearDown
    <3>3. ~Reconcile /\ ~AskSwitchUser /\ ~Crash /\ ~PowerCycle /\ ~Boot
      BY <1>4 DEF Reconcile, AskSwitchUser, Crash, PowerCycle, Boot
    <3>4. ~Showing
      BY <1>4 DEF Showing, LoopUser, PauseUser, WaitGui, WaitLate, Second, SeatChanged
    <3> QED
      BY <1>4, <3>1, <3>2, <3>3, <3>4
         DEF Still, Tick, Freeze, Undo, GuiUp, Code, SnoozeNow, CmdLock, CmdUnlock,
             CmdCredit, RulesChange, CountdownEnds, WindowCloses, OstMark, Elsewhere
  <2>2. graced' = graced \cup after /\ before = after
    BY <1>1, <1>4, <2>1 DEF Remember, Save, held, Pending
  <2>3. saved'.frozen = after
    <3>1. saved' = [saved EXCEPT !.frozen = after, !.lock = seat'.shown]
      BY <2>1 DEF Save, Persist, Record
    <3>2. saved \in SavedRecord
      BY DEF LockInv, LockTypes
    <3> HIDE DEF after
    <3> QED
      BY <3>1, <3>2 DEF SavedRecord
  <2> QED
    BY <1>2, <1>4, <2>2, <2>3 DEF GracedInv
<1>5. CASE pc # "off" /\ pc' = "off"
  <2>1. Crash
    <3>1. ~Around /\ ~OstTearDown
      BY <1>5, AroundKeeps DEF OstTearDown
    <3>2. ~Still /\ ~Showing
      BY <1>5, StillIs, ShowingIs DEF LockInv
    <3> QED
      BY <1>1, <1>5, <3>1, <3>2, StepsAre DEF Reconcile, AskSwitchUser, PowerCycle, Boot
  <2> QED
    BY <1>1, <1>5, <2>1 DEF Remember, Crash, GracedInv
<1>6. CASE pc = "off" /\ pc' = "off"
  <2>1. graced' = graced
    BY <1>1, <1>6 DEF Remember
  <2>2. saved'.frozen = saved.frozen
    <3>1. saved \in SavedRecord
      BY DEF LockInv, LockTypes
    <3>2. CASE saved' = saved
      BY <3>2
    <3>3. CASE OstMark \/ PowerCycle
      BY <3>1, <3>3 DEF OstMark, PowerCycle, SavedRecord
    <3>4. saved' = saved \/ OstMark \/ PowerCycle
      <4>1. CASE Still
        BY <1>6, <4>1 DEF Still, Tick, Freeze, Undo, Save, GuiUp, Code, SnoozeNow, CmdLock,
           CmdUnlock, CmdCredit, RulesChange, CountdownEnds, WindowCloses, Elsewhere
      <4>2. CASE Around
        BY <4>2, AroundKeeps
      <4> QED
        BY <1>1, <1>6, <4>1, <4>2, StepsAre, ShowingIs
           DEF LockInv, Reconcile, AskSwitchUser, Crash, Boot, OstTearDown
    <3> QED
      BY <3>2, <3>3, <3>4
  <2> QED
    BY <1>6, <2>1, <2>2 DEF GracedInv
<1>7. CASE pc = "off" /\ pc' # "off"
  <2>1. Boot
    <3>1. ~Around /\ ~OstTearDown
      BY <1>7, AroundKeeps DEF OstTearDown
    <3> QED
      BY <1>1, <1>7, <3>1, StepsAre, StillIs, ShowingIs
         DEF LockInv, Reconcile, AskSwitchUser, PowerCycle, Crash
  <2>2. graced' = graced /\ saved' = saved /\ spent' = saved.frozen
    BY <1>1, <1>7, <2>1 DEF Remember, Boot
  <2> QED
    BY <1>2, <1>7, <2>2 DEF GracedInv
<1> QED
  BY <1>3, <1>4, <1>5, <1>6, <1>7

\* A countdown starts only for someone neither stopped nor in one.
LEMMA CountdownStarts ==
    ASSUME Handler \/ Person \/ Machine, NEW p \in People, p \in counting', p \notin counting
    PROVE  pc # "off" /\ p \notin frozen \cup Pending
<1>1. CASE Still
  BY <1>1 DEF Still, Tick, Freeze, Undo, Save, GuiUp, Code, SnoozeNow, CmdLock, CmdUnlock,
     CmdCredit, RulesChange, CountdownEnds, WindowCloses, OstMark, Elsewhere, held
<1>2. ASSUME NEW q \in People, LoopUser(q)
      PROVE  pc # "off" /\ p \notin frozen \cup Pending
  BY <1>2 DEF LoopUser, Lockout, Pending
<1>3. CASE SeatChanged
  BY <1>3 DEF SeatChanged, Lockout
<1>4. CASE WaitGui \/ WaitLate \/ Second \/ \E q \in People : PauseUser(q)
  BY <1>4 DEF WaitGui, WaitLate, Second, PauseUser, held
<1>5. CASE Around
  BY <1>5, AroundKeeps
<1>6. CASE Reconcile \/ AskSwitchUser \/ OstTearDown \/ Crash \/ PowerCycle \/ Boot
  BY <1>6 DEF Reconcile, AskSwitchUser, OstTearDown, Crash, PowerCycle, Boot, held
<1> QED
  BY <1>1, <1>2, <1>3, <1>4, <1>5, <1>6, StepsAre DEF Showing

\* Whoever was saved as stopped or in a countdown gets no fresh one before the
\* agent lets them off, through any crash, power cycle or change of the screen
\* (persist_freeze_state, adopt_frozen).
THEOREM NoSecondCountdown == Spec => NoFreshCountdown
<1>1. Init => GracedInv
  BY DEF Init, GracedInv
<1>2. LockInv /\ GracedInv /\ [Next]_vars => GracedInv'
  <2>1. LockInv /\ GracedInv /\ UNCHANGED vars => GracedInv'
    BY DEF GracedInv, Pending, vars, core
  <2> QED
    BY <2>1, GracedStep
<1>3. LockInv /\ GracedInv /\ [Next]_vars
        => [\A p \in People : p \in counting' \ counting => p \notin graced]_vars
  <2>1. SUFFICES ASSUME LockInv, GracedInv, Next, NEW p \in People,
                        p \in counting', p \notin counting
                 PROVE  p \notin graced
    OBVIOUS
  <2>2. pc # "off" /\ p \notin frozen \cup Pending
    BY <2>1, CountdownStarts DEF Next
  <2> QED
    BY <2>1, <2>2 DEF GracedInv
<1> QED
  BY <1>1, <1>2, <1>3, LockInvHolds, PTL DEF Spec, NoFreshCountdown

-----------------------------------------------------------------------------
(* Whoever is stopped is not on screen.                                    *)

\* A handler that ends with the lock has looked at who has the screen: what
\* it waits for, or has still to undo, is about them alone.
Covered ==
    /\ ~moved /\ (pc = "idle" \/ (pc = "save" /\ from = "end"))
         => OnScreen(seat) \notin frozen
    /\ ~moved /\ ((pc \in {"gui", "late"} /\ from = "end") \/ pc = "undo")
         => OnScreen(seat) \notin frozen \ {who}

\* The handlers that stop someone end in the loop they came from.
LEMMA StoppingIs ==
    ASSUME LockInv, NEW p \in People, NEW f \in {"tick", "pause", "event"}, StopUser(p, f)
    PROVE  pc' \in {"loop", "freeze", "gui", "late"} /\ from' # "end"
BY StopUserIs DEF LockInv, LockTypes, Sound, Outcome, Shown, Unshown

LEMMA CoveredStep ==
    ASSUME LockInv, Covered, Handler \/ Person \/ Machine
    PROVE  Covered'
<1>1. /\ LockTypes /\ Waits /\ Sound /\ NoOne \notin frozen /\ LockVts \cap session = {}
      /\ seat \in Seat /\ session \subseteq People
  BY LockAssumption DEF LockInv, LockTypes, LockVts
<1>2. ASSUME \/ pc' \in {"loop", "freeze", "second", "off"}
             \/ pc' \in {"gui", "late", "save"} /\ from' # "end"
      PROVE  Covered'
  BY <1>2 DEF Covered
<1>3. ASSUME ~moved' => ~moved /\ OnScreen(seat)' = OnScreen(seat),
             pc' = pc, from' = from, who' = who, frozen' = frozen
      PROVE  Covered'
  BY <1>3 DEF Covered
<1>4. ASSUME moved' = moved, seat' = seat, session' = session
      PROVE  ~moved' => ~moved /\ OnScreen(seat)' = OnScreen(seat)
  BY <1>4 DEF OnScreen
<1>5. ASSUME Watched, session' = session, pc # "off"
      PROVE  ~moved' => ~moved /\ OnScreen(seat)' = OnScreen(seat)
  BY <1>5 DEF OnScreen, Watched
<1>6. CASE Still
  <2>1. CASE Tick \/ GuiUp \/ Code \/ SnoozeNow \/ (\E g \in BOOLEAN : CmdLock(g))
             \/ (\E ps \in SUBSET People : CmdUnlock(ps)) \/ \E p \in People : CmdCredit(p)
    BY <1>2, <2>1 DEF Tick, GuiUp, Code, SnoozeNow, CmdLock, CmdUnlock, CmdCredit
  <2>2. CASE Freeze
    BY <1>1, <1>2, <2>2 DEF Freeze, Waits
  <2>3. CASE Undo
    BY <1>4, <2>3 DEF Undo, Covered, machine
  <2>4. CASE Save
    BY <1>4, <2>4 DEF Save, Covered, machine, held
  <2>5. CASE WindowCloses \/ OstMark \/ \E p \in People : RulesChange(p) \/ CountdownEnds(p)
    <3>1. /\ moved' = moved /\ pc' = pc /\ from' = from /\ who' = who /\ frozen' = frozen
      BY <2>5 DEF WindowCloses, OstMark, RulesChange, CountdownEnds, Elsewhere, held
    <3> QED
      BY <1>3, <1>4, <1>6, <3>1, StillIs
  <2> QED
    BY <1>6, <2>1, <2>2, <2>3, <2>4, <2>5 DEF Still
<1>7. CASE Showing
  <2>1. ASSUME NEW p \in People, LoopUser(p)
        PROVE  Covered'
    <3>1. pc' = "loop" \/ StopUser(p, "tick")
      BY <2>1 DEF LoopUser, Lockout
    <3> QED
      BY <1>2, <3>1, StoppingIs
  <2>2. ASSUME NEW p \in People, PauseUser(p)
        PROVE  Covered'
    <3>1. StopUser(p, "pause")
      BY <2>2 DEF PauseUser
    <3> QED
      BY <1>2, <3>1, StoppingIs
  <2>3. CASE SeatChanged
    <3>1. pc' = "loop" \/ \E p \in People : StopUser(p, "event")
      BY <1>1, <2>3 DEF SeatChanged, Lockout, OnScreen
    <3> QED
      BY <1>2, <3>1, StoppingIs
  <2>4. ASSUME Outcome("end"), from' = "end", frozen' = frozen, session' = session,
               Watched, pc # "off",
               ~moved => OnScreen(seat) \notin frozen \ {who'}
        PROVE  Covered'
    <3>1. CASE pc' = "save" /\ seat'.screen \in LockVts
      BY <1>1, <2>4, <3>1 DEF Covered, OnScreen
    <3>2. CASE pc' \in {"gui", "late", "undo"}
      BY <1>5, <2>4, <3>2 DEF Covered
    <3> QED
      BY <2>4, <3>1, <3>2 DEF Outcome, Shown, Unshown
  <2>5. CASE Second
    <3> DEFINE person == OnScreen(seat)
    <3>1. /\ pc = "second" /\ session' = session /\ frozen' = frozen /\ Watched
          /\ \/ person \in session /\ Present(person, "end")
             \/ person \notin frozen /\ pc' = "save" /\ seat' = seat
      BY <1>1, <2>5 DEF Second, machine, held, OnScreen
    <3>2. CASE person \notin frozen /\ pc' = "save" /\ seat' = seat
      BY <3>1, <3>2 DEF Covered, OnScreen
    <3>3. CASE person \in session /\ Present(person, "end")
      <4>1. Outcome("end") /\ who' = person /\ from' = "end"
        BY <1>1, <3>3, PresentIs DEF Sound
      <4> QED
        BY <2>4, <3>1, <4>1
    <3> QED
      BY <3>1, <3>2, <3>3
  <2>6. CASE WaitGui \/ WaitLate
    <3>1. /\ pc \in {"gui", "late"} /\ session' = session /\ frozen' = frozen /\ Watched
          /\ from' = from /\ who' = who
      BY <2>6 DEF WaitGui, WaitLate, machine, held
    <3>2. Outcome(from)
      BY <1>1, <2>6, <3>1, WaitGuiIs, WaitLateIs DEF Sound, Waits
    <3>3. CASE from = "end"
      BY <2>4, <3>1, <3>2, <3>3 DEF Covered
    <3>4. CASE from # "end"
      BY <1>2, <3>1, <3>2, <3>4 DEF Outcome, Shown, Unshown
    <3> QED
      BY <3>3, <3>4
  <2> QED
    BY <1>7, <2>1, <2>2, <2>3, <2>5, <2>6 DEF Showing
<1>8. CASE Around
  <2>1. pc' = pc /\ from' = from /\ who' = who /\ frozen' = frozen
    BY <1>8, AroundKeeps
  <2>2. CASE pc = "off"
    BY <1>2, <2>1, <2>2
  <2>3. CASE pc # "off"
    <3>1. Seen
      BY <1>1, <1>8, <2>3, AroundIs DEF Sound
    <3> QED
      BY <1>3, <2>1, <3>1 DEF Seen
  <2> QED
    BY <2>2, <2>3
<1>9. CASE Reconcile
  <2>1. CASE pc' = "second"
    BY <1>2, <2>1
  <2>2. CASE pc' = "idle" /\ OnScreen(seat') \notin frozen /\ frozen' = frozen
             /\ session' = session
    BY <2>2 DEF Covered, OnScreen
  <2> QED
    BY <1>1, <1>9, <2>1, <2>2, ReconcileIs
<1>10. CASE OstTearDown
  <2>1. /\ pc' = pc /\ from' = from /\ who' = who /\ frozen' = frozen
        /\ session' = session /\ Watched
    BY <1>10 DEF OstTearDown, machine, held
  <2>2. CASE pc = "off"
    BY <1>2, <2>1, <2>2
  <2>3. CASE pc # "off"
    BY <1>3, <1>5, <2>1, <2>3
  <2> QED
    BY <2>2, <2>3
<1>11. CASE AskSwitchUser \/ Crash \/ PowerCycle \/ Boot
  BY <1>2, <1>11 DEF AskSwitchUser, Crash, PowerCycle, Boot
<1> QED
  BY <1>6, <1>7, <1>8, <1>9, <1>10, <1>11, StepsAre

\* Between handlers nobody who is stopped has the screen with nothing in front
\* of them, whatever they switch to, sign in to or fail (placement,
\* reconcile_lock, on_seat_changed).
THEOREM StoppedAreCovered == Spec => []StoppedStayCovered
<1>1. Init => Covered
  BY DEF Init, Covered
<1>2. LockInv /\ Covered /\ [Next]_vars => Covered'
  <2>1. Covered /\ UNCHANGED vars => Covered'
    BY DEF Covered, OnScreen, vars, core
  <2> QED
    BY <2>1, CoveredStep DEF Next
<1>3. Covered => StoppedStayCovered
  BY DEF Covered, StoppedStayCovered, AtRest
<1> QED
  BY <1>1, <1>2, <1>3, LockInvHolds, PTL DEF Spec

-----------------------------------------------------------------------------
(* A lock leaves nothing behind.                                           *)

\* Whoever the kernel has frozen is in the agent's `frozen` while one runs.
Known == pc # "off" => stopped \subseteq frozen

LEMMA KnownStep ==
    ASSUME LockInv, Known, Handler \/ Person \/ Machine
    PROVE  Known'
<1>1. CASE Still
  <2>1. CASE Tick \/ Code \/ SnoozeNow \/ Freeze \/ Undo
    BY <2>1 DEF Known, Tick, Code, SnoozeNow, Freeze, Undo, Thaw, held
  <2>2. CASE Save \/ GuiUp \/ WindowCloses \/ OstMark \/ \E g \in BOOLEAN : CmdLock(g)
    BY <2>2 DEF Known, Save, GuiUp, WindowCloses, OstMark, CmdLock, held
  <2>3. ASSUME NEW ps \in SUBSET People, CmdUnlock(ps)
        PROVE  Known'
    BY <2>3 DEF Known, CmdUnlock, Thaw
  <2>4. ASSUME NEW p \in People, CmdCredit(p) \/ RulesChange(p) \/ CountdownEnds(p)
        PROVE  Known'
    BY <2>4 DEF Known, CmdCredit, RulesChange, CountdownEnds, Elsewhere, Thaw, held
  <2> QED
    BY <1>1, <2>1, <2>2, <2>3, <2>4 DEF Still
<1>2. CASE Showing
  <2>1. ASSUME NEW p \in People, LoopUser(p)
        PROVE  Known'
    <3>1. \/ stopped' = stopped /\ frozen' = frozen
          \/ stopped' = stopped \ {p} /\ frozen' = frozen \ {p}
          \/ p \in frozen /\ stopped' \subseteq stopped \cup {p} /\ frozen' = frozen
      BY <2>1 DEF LoopUser, Thaw
    <3> QED
      BY <2>1, <3>1 DEF Known, LoopUser
  <2>2. CASE WaitGui \/ WaitLate \/ Second \/ SeatChanged \/ \E p \in People : PauseUser(p)
    BY <2>2 DEF Known, WaitGui, WaitLate, Second, SeatChanged, PauseUser, held
  <2> QED
    BY <1>2, <2>1, <2>2 DEF Showing
<1>3. CASE Around
  BY <1>3, AroundKeeps DEF Known
<1>4. CASE Reconcile
  <2>1. PICK x : \/ stopped' = stopped /\ frozen' = frozen
                 \/ Thaw({x}) /\ frozen' = frozen \ {x}
    BY <1>4 DEF Reconcile, held
  <2> QED
    BY <1>4, <2>1 DEF Known, Thaw, Reconcile
<1>5. CASE AskSwitchUser \/ OstTearDown
  BY <1>5 DEF Known, AskSwitchUser, OstTearDown, held
<1>6. CASE Crash \/ PowerCycle \/ Boot
  BY <1>6 DEF Known, Crash, PowerCycle, Boot
<1> QED
  BY <1>1, <1>2, <1>3, <1>4, <1>5, <1>6, StepsAre

\* Unless an agent died with a lock it had not saved: with no lock shown there
\* is nothing of one, and VT switching is held by the text lock alone, except
\* by the one a lock was recorded over before the restart, until the first
\* look.  What a dead agent left up, its record tells the next one about.
Clean ==
    ~forgot =>
      IF pc = "off"
      THEN seat.held = "on" \/ seat.cage # "off" => saved.lock.subject # NoOne
      ELSE /\ Gone(seat)
           /\ TextHeld(seat) \/ (pc = "loop" /\ todo = {} /\ ~seat.grace)

LEMMA CleanStep ==
    ASSUME LockInv, Clean, Handler \/ Person \/ Machine
    PROVE  Clean'
<1>1. LockTypes /\ Waits /\ Sound /\ seat \in Seat
  BY DEF LockInv, LockTypes
<1>2. ASSUME pc' # "off", Gone(seat'), TextHeld(seat')
      PROVE  Clean'
  BY <1>2 DEF Clean, Gone, TextHeld, IsUp
<1>3. CASE Still
  <2>1. seat' = seat /\ forgot' = forgot
    BY <1>3, StillIs DEF Still, Tick, Freeze, Undo, Save, GuiUp, Code, SnoozeNow, CmdLock,
       CmdUnlock, CmdCredit, RulesChange, CountdownEnds, WindowCloses, OstMark, Elsewhere,
       history
  <2>2. CASE pc = "off"
    <3>1. pc' = "off"
      BY <1>3, <2>2, StillIs
    <3>2. saved'.lock = saved.lock
      <4>1. saved' = saved \/ OstMark
        BY <1>3, <2>2 DEF Still, Tick, Freeze, Undo, Save, GuiUp, Code, SnoozeNow, CmdLock,
           CmdUnlock, CmdCredit, RulesChange, CountdownEnds, WindowCloses, Elsewhere
      <4>2. CASE OstMark
        BY <1>1, <4>2 DEF OstMark, LockTypes, SavedRecord
      <4> QED
        BY <4>1, <4>2
    <3> QED
      BY <2>1, <2>2, <3>1, <3>2 DEF Clean
  <2>3. CASE pc # "off"
    <3>1. pc' # "off"
      BY <1>3, <2>3, StillIs
    <3>2. pc # "loop" \/ (pc' = pc /\ todo' = todo)
      BY <1>3 DEF Still, Tick, Freeze, Undo, Save, GuiUp, Code, SnoozeNow, CmdLock, CmdUnlock,
         CmdCredit, RulesChange, CountdownEnds, WindowCloses, OstMark, Elsewhere, Waiting
    <3> QED
      BY <2>1, <2>3, <3>1, <3>2 DEF Clean, Gone, TextHeld, IsUp
  <2> QED
    BY <2>2, <2>3
<1>4. CASE Showing
  <2>1. pc # "off" /\ pc' # "off" /\ ~(pc = "loop" /\ todo = {}) /\ forgot' = forgot
    BY <1>1, <1>4, ShowingIs
       DEF Showing, LoopUser, PauseUser, WaitGui, WaitLate, Second, SeatChanged, history
  <2>2. CASE seat' = seat
    BY <2>1, <2>2 DEF Clean, Gone, TextHeld, IsUp
  <2>3. CASE Outcome(from')
    BY <1>2, <2>1, <2>3 DEF Outcome, Fine
  <2> QED
    BY <1>1, <1>4, <2>2, <2>3, ShowingIs
<1>5. CASE Around
  <2>1. pc' = pc /\ todo' = todo /\ forgot' = forgot /\ saved' = saved
    BY <1>5, AroundKeeps
  <2>2. SeatKept
    BY <1>1, <1>5, AroundIs DEF LockTypes, Sound
  <2>3. CASE pc = "off"
    BY <2>1, <2>2, <2>3 DEF Clean, SeatKept
  <2>4. CASE pc # "off" /\ ~forgot
    <3>1. Gone(seat')
      BY <2>2, <2>4 DEF Clean, Gone, SeatKept, IsUp
    <3>2. TextHeld(seat') \/ (pc = "loop" /\ todo = {} /\ ~seat'.grace)
      BY <2>2, <2>4 DEF Clean, TextHeld, SeatKept
    <3> QED
      BY <2>1, <2>4, <3>1, <3>2 DEF Clean, Gone, TextHeld, IsUp
  <2> QED
    BY <2>1, <2>3, <2>4 DEF Clean
<1>6. CASE Reconcile
  <2>1. forgot' = forgot
    BY <1>6 DEF Reconcile, history
  <2>2. CASE ~IsUp(seat) /\ seat' = seat /\ pc' = "second"
    <3>1. ~forgot => seat.held = "off" /\ Gone(seat)
      BY <1>1, <1>6, <2>2, ReconcileIs DEF Clean, Gone
    <3> QED
      BY <2>1, <2>2, <3>1 DEF Clean, Gone, TextHeld, IsUp
  <2>3. CASE Parted(seat') /\ pc' = "second"
    BY <1>2, <2>3, PartedIsFine DEF Fine
  <2>4. CASE /\ IsUp(seat') /\ pc' = "idle"
             /\ TextHeld(seat) \/ ~seat.grace => TextHeld(seat')
    <3>1. ~forgot => TextHeld(seat')
      BY <1>1, <1>6, <2>4, ReconcileIs DEF Clean
    <3> QED
      BY <2>1, <2>4, <3>1 DEF Clean, Gone, TextHeld, IsUp
  <2> QED
    BY <1>1, <1>6, <2>2, <2>3, <2>4, ReconcileIs
<1>7. CASE AskSwitchUser
  BY <1>1, <1>2, <1>7, AskSwitchUserIs DEF Gone
<1>8. CASE OstTearDown
  <2>1. forgot' = forgot /\ saved' = saved
    BY <1>8 DEF OstTearDown, history
  <2>2. CASE seat'.held = "off" /\ seat'.cage = "off"
    BY <1>1, <1>8, <2>1, <2>2, OstTearDownIs DEF Clean, Gone, TextHeld, IsUp
  <2>3. CASE seat'.held = seat.held /\ seat'.cage = seat.cage
    BY <1>1, <1>8, <2>1, <2>3, OstTearDownIs DEF Clean, Gone, TextHeld, IsUp
  <2> QED
    BY <1>1, <1>8, <2>2, <2>3, OstTearDownIs
<1>9. CASE Crash
  <2>1. /\ saved' = saved /\ forgot' = (forgot \/ (IsUp(seat) /\ saved.lock = NoLock))
        /\ pc # "off" /\ pc' = "off" /\ seat'.held = seat.held /\ seat'.cage = seat.cage
    BY <1>1, <1>9, CrashIs DEF Crash
  <2>2. Whole(saved.lock)
    BY <1>1 DEF LockTypes, SavedRecord
  <2> QED
    BY <2>1, <2>2 DEF Clean, Gone, Whole
<1>10. CASE PowerCycle
  BY <1>1, <1>10, PowerCycleIs DEF Clean
<1>11. CASE Boot
  <2>1. forgot' = forgot
    BY <1>11 DEF Boot, history
  <2>2. /\ pc = "off" /\ pc' = "loop" /\ todo' = {} /\ ~seat'.grace /\ ~seat'.text
        /\ seat'.shown = saved.lock /\ seat'.held = seat.held
        /\ (seat.cage = "off" => seat'.cage = "off")
    BY <1>1, <1>11, BootIs
  <2>3. seat.held \in Switch
    BY <1>1, SeatFields
  <2>4. ~forgot => Gone(seat')
    BY <2>2, <2>3 DEF Clean, Gone, IsUp, Switch
  <2> QED
    BY <2>1, <2>2, <2>4 DEF Clean, Gone, TextHeld, IsUp
<1> QED
  BY <1>3, <1>4, <1>5, <1>6, <1>7, <1>8, <1>9, <1>10, <1>11, StepsAre

\* Whoever the kernel has frozen is in the agent's `frozen`, also after it died
\* at any point of a stop or a release (adopt_frozen); VT switching is held
\* only by a text lock on screen, and with no lock shown no compositor and no
\* text lock runs (release, hand_to_login_screen, check_upgrade, a restart that
\* adopts the lock).
THEOREM NothingIsLeft == Spec => []NothingLeftBehind
<1>1. Init => Known /\ Clean
  BY DEF Init, Known, Clean, Gone, TextHeld, Fresh
<1>2. LockInv /\ Known /\ Clean /\ [Next]_vars => Known' /\ Clean'
  <2>1. Known /\ Clean /\ UNCHANGED vars => Known' /\ Clean'
    BY DEF Known, Clean, Gone, TextHeld, IsUp, vars, core
  <2> QED
    BY <2>1, KnownStep, CleanStep DEF Next
<1>3. LockInv /\ Known /\ Clean => NothingLeftBehind
  BY DEF LockInv, Sound, Firm, Known, Clean, Gone, TextHeld, NothingLeftBehind, AtRest
<1> QED
  BY <1>1, <1>2, <1>3, LockInvHolds, PTL DEF Spec
=============================================================================
