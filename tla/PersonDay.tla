----------------------------- MODULE PersonDay -----------------------------
(***************************************************************************)
(* One person's day on several computers: the screen-time ledger and what  *)
(* outlives a computer's record on the server (server/src/ledger.rs,       *)
(* machine.rs, devices.rs, earn.rs, agent.rs), the usage ledger and the    *)
(* server's last answer on each computer (client/src/enforce/              *)
(* screentime.rs, runner.rs, retire.rs).                                   *)
(*                                                                         *)
(* Each computer has one login of the person's and says which machine it   *)
(* is when it enrolls.  A unit of use is a minute, a grant is one unit.    *)
(* The queue is its promise: a grant's command may arrive late, again, or  *)
(* never (module CommandQueue).  Statements outside a transaction are      *)
(* steps of their own; of the two transactions here the reading statements *)
(* and the commit are two steps, as reports go on between them.            *)
(***************************************************************************)
EXTENDS Naturals, FiniteSets, FiniteSetsExt

CONSTANTS
    Machine,      \* computers
    Grant,        \* "+1" the parent gives
    MaxRec,       \* records of computers the household ever has
    MaxDay,       \* accounting days
    MaxUse,       \* use of a computer on a day
    MaxReport,    \* reports of one computer in progress
    MaxFault      \* lost answers and failed folds

ASSUME BoundsAssumption == {MaxRec, MaxDay, MaxUse, MaxReport, MaxFault} \subseteq Nat
                           /\ MaxDay >= 1

Rec  == 1..MaxRec
Day  == 1..MaxDay
Slot == Machine \X (1..MaxReport)

VARIABLES
    \* PostgreSQL: devices, screen_time_ledger, retired_usage,
    \* retired_devices.merged_into (0: none).
    stage, mach, book, kept, heir,
    \* What a transaction in progress has read; reports and grants in progress.
    snap, rep, ans, grant,
    \* The agent: the record its token was given for (0: none), and its ledger.
    cred, today, here, got, applied, far,
    \* History: records heard from or removed by a parent, use there really
    \* was, machines whose fold failed or whose ledger was wiped, faults.
    heard, removed, spent, unfolded, wiped, faults

dbVars    == <<stage, mach, book, kept, heir, snap>>
agentVars == <<cred, today, here, got, applied, far>>
histVars  == <<heard, removed, spent, unfolded, wiped, faults>>
vars      == <<dbVars, rep, ans, grant, agentVars, histVars>>

Nobody == [used |-> 0, earned |-> 0]
Blank  == [d \in Day |-> Nobody]
NoFar  == [day |-> 0, used |-> 0, earned |-> 0, mine |-> 0]
NoRep  == [at |-> "idle", rec |-> 0, by |-> 0, day |-> 0, used |-> 0]

Greatest(x, y) == IF x > y THEN x ELSE y
\* Two counts of the same minutes: the larger wins, column by column.
Merge(a, b) == [d \in Day |-> [used   |-> Greatest(a[d].used, b[d].used),
                               earned |-> Greatest(a[d].earned, b[d].earned)]]

Init ==
    /\ stage = [r \in Rec |-> "none"]
    /\ mach = [r \in Rec |-> "none"]
    /\ book = [r \in Rec |-> Blank]
    /\ kept = [r \in Rec |-> Blank]
    /\ heir = [r \in Rec |-> 0]
    /\ snap = [r \in Rec |-> Blank]
    /\ rep = [q \in Slot |-> NoRep]
    /\ ans = [q \in Slot |-> NoFar]
    /\ grant = [g \in Grant |-> [at |-> "none", rec |-> 0, day |-> 0]]
    /\ cred = [m \in Machine |-> 0]
    /\ today = [m \in Machine |-> 1]
    /\ here = [m \in Machine |-> 0]
    /\ got = [m \in Machine |-> 0]
    /\ applied = [m \in Machine |-> {}]
    /\ far = [m \in Machine |-> NoFar]
    /\ heard = {} /\ removed = {}
    /\ spent = [m \in Machine |-> [d \in Day |-> 0]]
    /\ unfolded = {} /\ wiped = {}
    /\ faults = 0

\* The devices row is there.
Exists(r) == r \in Rec /\ stage[r] \notin {"none", "gone"}

\* AgentAuth: a token speaks for its record, or for the record that one was
\* folded into; 0 is `410 device_retired`.
Resolve(r) == IF Exists(r) THEN r ELSE IF r \in Rec THEN heir[r] ELSE 0

(***************************************************************************)
(* A computer counts.                                                      *)
(***************************************************************************)

Use(m) ==
    /\ cred[m] # 0 /\ spent[m][today[m]] < MaxUse
    /\ here' = [here EXCEPT ![m] = @ + 1]
    /\ spent' = [spent EXCEPT ![m][today[m]] = @ + 1]
    /\ UNCHANGED <<dbVars, rep, ans, grant, cred, today, got, applied, far,
                   heard, removed, unfolded, wiped, faults>>

\* UsageTracker::roll_to.  (Grant ids are kept two days more: module
\* CommandQueue has what becomes of them.)
RollDay(m) ==
    /\ today[m] < MaxDay
    /\ today' = [today EXCEPT ![m] = @ + 1]
    /\ here' = [here EXCEPT ![m] = 0]
    /\ got' = [got EXCEPT ![m] = 0]
    /\ far' = [far EXCEPT ![m] = NoFar]
    /\ UNCHANGED <<dbVars, rep, ans, grant, cred, applied, histVars>>

(***************************************************************************)
(* The usage report and its answer (upsert_usage).                         *)
(***************************************************************************)

\* The agent reports its day; the server authenticates it and reads the
\* login's row (the grants on record) before it writes.
SendReport(q) ==
    LET m == q[1]
        r == Resolve(cred[m])
    IN
    /\ cred[m] # 0 /\ r # 0 /\ rep[q].at = "idle"
    /\ rep' = [rep EXCEPT ![q] =
                 [at |-> "read", rec |-> r, by |-> cred[m], day |-> today[m], used |-> here[m]]]
    /\ ans' = [ans EXCEPT ![q] = [NoFar EXCEPT !.mine = book[r][today[m]].earned]]
    /\ heard' = heard \cup {r}
    /\ UNCHANGED <<dbVars, grant, agentVars, removed, spent, unfolded, wiped, faults>>

\* The upsert keeps the larger total.  With the record gone it violates the
\* foreign key and the report is not answered.
FileUsage(q) ==
    /\ rep[q].at = "read"
    /\ IF Exists(rep[q].rec)
         THEN /\ book' = [book EXCEPT ![rep[q].rec][rep[q].day].used = Greatest(@, rep[q].used)]
              /\ rep' = [rep EXCEPT ![q].at = "filed"] /\ ans' = ans
         ELSE /\ book' = book
              /\ rep' = [rep EXCEPT ![q] = NoRep] /\ ans' = [ans EXCEPT ![q] = NoFar]
    /\ UNCHANGED <<stage, mach, kept, heir, snap, grant, agentVars, histVars>>

\* Slip: kept usage left out of the sum.
UsedElsewhereLive(r, d) ==
    MapThenSumSet(LAMBDA o : IF o = r THEN 0 ELSE book[o][d].used, Rec)

\* ledger::elsewhere: the other logins of the person, removed computers too.
\* (A row that is gone has nothing in its book.)
UsedElsewhere(r, d) ==
    MapThenSumSet(LAMBDA o : kept[o][d].used + (IF o = r THEN 0 ELSE book[o][d].used), Rec)

EarnedElsewhere(r, d) ==
    MapThenSumSet(LAMBDA o : kept[o][d].earned + (IF o = r THEN 0 ELSE book[o][d].earned), Rec)

Answer(q) ==
    /\ rep[q].at = "filed"
    /\ LET r == rep[q].rec
           d == rep[q].day
       IN ans' = [ans EXCEPT ![q] = [day |-> d, used |-> UsedElsewhere(r, d),
                                     earned |-> EarnedElsewhere(r, d), mine |-> ans[q].mine]]
    /\ rep' = [rep EXCEPT ![q].at = "answer"]
    /\ UNCHANGED <<dbVars, grant, agentVars, histVars>>

\* set_elsewhere: only for the day being accounted.  An agent restarted with
\* another token is not the one that asked.
Deliver(q) ==
    LET m == q[1] IN
    /\ rep[q].at = "answer"
    /\ far' = IF rep[q].by = cred[m] /\ rep[q].day = today[m]
                THEN [far EXCEPT ![m] = ans[q]] ELSE far
    /\ rep' = [rep EXCEPT ![q] = NoRep] /\ ans' = [ans EXCEPT ![q] = NoFar]
    /\ UNCHANGED <<dbVars, grant, cred, today, here, got, applied, histVars>>

Fault == faults < MaxFault /\ faults' = faults + 1

\* The server or the connection fails before the answer arrives.
LoseReport(q) ==
    /\ rep[q].at # "idle" /\ Fault
    /\ rep' = [rep EXCEPT ![q] = NoRep] /\ ans' = [ans EXCEPT ![q] = NoFar]
    /\ UNCHANGED <<dbVars, grant, agentVars, heard, removed, spent, unfolded, wiped>>

(***************************************************************************)
(* Enrollment: the token is spent, the machine's older records are folded  *)
(* into the new one, the agent gets its credentials.                       *)
(***************************************************************************)

\* older_records: the other records of the same machine (a retried enrollment
\* may find newer ones too).
Twins(r) == {o \in Rec \ {r} : Exists(o) /\ mach[o] = mach[r]}
\* Kept usage of this machine (retired_usage.machine_hash).
KeptOf(r) == {o \in Rec : stage[o] = "gone" /\ mach[o] = mach[r]}

\* What they hold between them, day by day, and the larger count of each.
Held(r) == {book[o] : o \in Twins(r)} \cup {kept[o] : o \in KeptOf(r)}
Amounts(r) == {0} \cup UNION {{h[d].used, h[d].earned} : h \in Held(r), d \in Day}
IsLargest(s, r) ==
    \A d \in Day :
        /\ \A h \in Held(r) : h[d].used <= s[d].used /\ h[d].earned <= s[d].earned
        /\ s[d].used = 0 \/ \E h \in Held(r) : s[d].used = h[d].used
        /\ s[d].earned = 0 \/ \E h \in Held(r) : s[d].earned = h[d].earned

\* One person is at the keyboard: enrollments of a machine do not overlap.
Enrolling(m) == \E o \in Rec : mach[o] = m /\ stage[o] \in {"spent", "folding"}

EnrollSpend(m, r) ==
    /\ stage[r] = "none" /\ \A o \in Rec : o < r => stage[o] # "none"
    /\ ~ Enrolling(m)
    /\ stage' = [stage EXCEPT ![r] = "spent"]
    /\ mach' = [mach EXCEPT ![r] = m]
    /\ UNCHANGED <<book, kept, heir, snap, rep, ans, grant, agentVars, histVars>>

\* take_over waits for the other records' row locks, then reads what they
\* and the kept usage hold.
FoldRead(r) ==
    /\ stage[r] = "spent"
    /\ \A o \in Twins(r) : stage[o] # "closing"
    /\ stage' = [stage EXCEPT ![r] = "folding"]
    /\ \E s \in [Day -> [used : Amounts(r), earned : Amounts(r)]] :
          IsLargest(s, r) /\ snap' = [snap EXCEPT ![r] = s]
    /\ UNCHANGED <<mach, book, kept, heir, rep, ans, grant, agentVars, histVars>>

\* Slip: the older record's books are added to the new one's and stay.
FoldLeaves(r) ==
    /\ stage[r] = "folding"
    /\ stage' = [o \in Rec |-> IF o = r THEN "ready" ELSE stage[o]]
    /\ book' = [o \in Rec |-> IF o = r THEN Merge(book[r], snap[r]) ELSE book[o]]
    /\ UNCHANGED <<mach, kept, heir, snap, rep, ans, grant, agentVars, histVars>>

\* Slip: tombstones that pointed at an older record are forgotten.
FoldOneHeir(r) ==
    /\ stage[r] = "folding"
    /\ stage' = [o \in Rec |-> IF o = r THEN "ready" ELSE IF o \in Twins(r) THEN "gone" ELSE stage[o]]
    /\ book' = [o \in Rec |-> IF o = r THEN Merge(book[r], snap[r])
                              ELSE IF o \in Twins(r) THEN Blank ELSE book[o]]
    /\ kept' = [o \in Rec |-> IF o \in KeptOf(r) THEN Blank ELSE kept[o]]
    /\ heir' = [o \in Rec |-> IF o \in Twins(r) THEN r ELSE IF heir[o] \in Twins(r) THEN 0 ELSE heir[o]]
    /\ snap' = [snap EXCEPT ![r] = Blank]
    /\ UNCHANGED <<mach, rep, ans, grant, agentVars, histVars>>

\* The commit: the larger count of each day, the older records gone with
\* their tokens - and all that pointed at them - heard as the new record,
\* the kept usage back on its login.
Fold(r) ==
    /\ stage[r] = "folding"
    /\ stage' = [o \in Rec |-> IF o = r THEN "ready" ELSE IF o \in Twins(r) THEN "gone" ELSE stage[o]]
    /\ book' = [o \in Rec |-> IF o = r THEN Merge(book[r], snap[r])
                              ELSE IF o \in Twins(r) THEN Blank ELSE book[o]]
    /\ kept' = [o \in Rec |-> IF o \in KeptOf(r) THEN Blank ELSE kept[o]]
    /\ heir' = [o \in Rec |-> IF o \in Twins(r) \/ heir[o] \in Twins(r) THEN r ELSE heir[o]]
    /\ snap' = [snap EXCEPT ![r] = Blank]
    /\ UNCHANGED <<mach, rep, ans, grant, agentVars, histVars>>

\* The fold is best effort: the credentials are handed out without it.
FoldFails(r) ==
    /\ stage[r] \in {"spent", "folding"} /\ Fault
    /\ stage' = [stage EXCEPT ![r] = "ready"]
    /\ snap' = [snap EXCEPT ![r] = Blank]
    /\ unfolded' = unfolded \cup {mach[r]}
    /\ UNCHANGED <<mach, book, kept, heir, rep, ans, grant, agentVars, heard, removed, spent, wiped>>

\* The agent has its credentials and is restarted with them.
Reply(r) ==
    /\ stage[r] = "ready"
    /\ stage' = [stage EXCEPT ![r] = "live"]
    /\ cred' = [cred EXCEPT ![mach[r]] = r]
    /\ UNCHANGED <<mach, book, kept, heir, snap, rep, ans, grant, today, here, got, applied, far, histVars>>

\* The reply was lost and the record never heard from: the same token again.
EnrollRetry(r) ==
    /\ stage[r] = "ready" /\ r \notin heard /\ ~ Enrolling(mach[r])
    /\ stage' = [stage EXCEPT ![r] = "spent"]
    /\ UNCHANGED <<mach, book, kept, heir, snap, rep, ans, grant, agentVars, histVars>>

(***************************************************************************)
(* Removal, and the agent that hears of it.                                *)
(***************************************************************************)

\* delete_device: keep_usage reads the ledger.  A fold holds the row locks
\* of the machine's records till it is over.
RemoveRead(r) ==
    /\ stage[r] \in {"ready", "live"}
    /\ \A o \in Rec : mach[o] = mach[r] => stage[o] # "folding"
    /\ stage' = [stage EXCEPT ![r] = "closing"]
    /\ snap' = [snap EXCEPT ![r] = book[r]]
    /\ UNCHANGED <<mach, book, kept, heir, rep, ans, grant, agentVars, histVars>>

\* Slip: the ledger goes with the record, as before keep_usage.
RemoveForgets(r) ==
    /\ stage[r] = "closing"
    /\ stage' = [stage EXCEPT ![r] = "gone"]
    /\ book' = [book EXCEPT ![r] = Blank]
    /\ heir' = [o \in Rec |-> IF heir[o] = r THEN 0 ELSE heir[o]]
    /\ snap' = [snap EXCEPT ![r] = Blank]
    /\ removed' = removed \cup {r}
    /\ UNCHANGED <<mach, kept, rep, ans, grant, agentVars, heard, spent, unfolded, wiped, faults>>

\* The commit.  Pointers to the record are cleared (ON DELETE SET NULL).
Remove(r) ==
    /\ stage[r] = "closing"
    /\ stage' = [stage EXCEPT ![r] = "gone"]
    /\ book' = [book EXCEPT ![r] = Blank]
    /\ kept' = [kept EXCEPT ![r] = snap[r]]
    /\ heir' = [o \in Rec |-> IF heir[o] = r THEN 0 ELSE heir[o]]
    /\ snap' = [snap EXCEPT ![r] = Blank]
    /\ removed' = removed \cup {r}
    /\ UNCHANGED <<mach, rep, ans, grant, agentVars, heard, spent, unfolded, wiped, faults>>

\* The agent hears 410, asks once more, and takes itself off the computer,
\* its ledger included (retire.rs).
Retire(m) ==
    /\ cred[m] # 0 /\ Resolve(cred[m]) = 0
    /\ cred' = [cred EXCEPT ![m] = 0]
    /\ here' = [here EXCEPT ![m] = 0]
    /\ got' = [got EXCEPT ![m] = 0]
    /\ applied' = [applied EXCEPT ![m] = {}]
    /\ far' = [far EXCEPT ![m] = NoFar]
    /\ wiped' = wiped \cup {m}
    /\ UNCHANGED <<dbVars, rep, ans, grant, today, heard, removed, spent, unfolded, faults>>

(***************************************************************************)
(* A parent gives time: the ledger first, then a command.                  *)
(***************************************************************************)

\* The day is the server's idea of the computer's day, from its last offset.
Credit(g, r) ==
    /\ grant[g].at = "none" /\ Exists(r)
    /\ \E d \in Day : /\ d <= today[mach[r]] + 1 /\ today[mach[r]] <= d + 1
                      /\ book' = [book EXCEPT ![r][d].earned = @ + 1]
                      /\ grant' = [grant EXCEPT ![g] = [at |-> "credited", rec |-> r, day |-> d]]
    /\ UNCHANGED <<stage, mach, kept, heir, snap, rep, ans, agentVars, histVars>>

Enqueue(g) ==
    /\ grant[g].at = "credited"
    /\ grant' = [grant EXCEPT ![g].at = IF Exists(grant[g].rec) THEN "queued" ELSE "failed"]
    /\ UNCHANGED <<dbVars, rep, ans, agentVars, histVars>>

\* handle_command, CMD_CREDIT_TIME: not for a past day, and once per id.
CreditTime(m, g) ==
    /\ grant[g].at = "queued" /\ cred[m] # 0
    /\ grant[g].rec \in {cred[m], Resolve(cred[m])}
    /\ today[m] <= grant[g].day /\ g \notin applied[m]
    /\ got' = [got EXCEPT ![m] = @ + 1]
    /\ applied' = [applied EXCEPT ![m] = @ \cup {g}]
    /\ UNCHANGED <<dbVars, rep, ans, grant, cred, today, here, far, histVars>>

(***************************************************************************)
(* The specification.                                                      *)
(***************************************************************************)

ReportStep(q) == SendReport(q) \/ FileUsage(q) \/ Answer(q) \/ Deliver(q) \/ LoseReport(q)

RecordStep(r) ==
    \/ \E m \in Machine : EnrollSpend(m, r)
    \/ FoldRead(r) \/ Fold(r) \/ FoldFails(r) \/ Reply(r) \/ EnrollRetry(r)
    \/ RemoveRead(r) \/ Remove(r)

GrantStep(g) ==
    \/ \E r \in Rec : Credit(g, r)
    \/ Enqueue(g)
    \/ \E m \in Machine : CreditTime(m, g)

Next ==
    \/ \E m \in Machine : Use(m) \/ RollDay(m) \/ Retire(m)
    \/ \E q \in Slot : ReportStep(q)
    \/ \E r \in Rec : RecordStep(r)
    \/ \E g \in Grant : GrantStep(g)

Spec == Init /\ [][Next]_vars

\* The server finishes what it started, the agent's report timer keeps
\* coming round, and a queued grant is delivered.  Nobody has to use a
\* computer, enroll or remove one.
Fairness ==
    /\ \A q \in Slot : /\ SF_vars(SendReport(q))
                       /\ WF_vars(FileUsage(q)) /\ WF_vars(Answer(q)) /\ WF_vars(Deliver(q))
    /\ \A r \in Rec : WF_vars(FoldRead(r)) /\ WF_vars(Fold(r)) /\ WF_vars(Remove(r))
    /\ \A m \in Machine : WF_vars(Retire(m))
    /\ \A g \in Grant : WF_vars(Enqueue(g)) /\ \A m \in Machine : WF_vars(CreditTime(m, g))

FairSpec == Spec /\ Fairness

(***************************************************************************)
(* Properties.                                                             *)
(***************************************************************************)

Booking == [used : Nat, earned : Nat]

RecordTypes ==
    /\ stage \in [Rec -> {"none", "spent", "folding", "ready", "live", "closing", "gone"}]
    /\ mach \in [Rec -> Machine \cup {"none"}]
    /\ \A r \in Rec : stage[r] # "none" => mach[r] \in Machine
    /\ book \in [Rec -> [Day -> Booking]]
    /\ kept \in [Rec -> [Day -> Booking]]
    /\ snap \in [Rec -> [Day -> Booking]]
    /\ heir \in [Rec -> 0..MaxRec]

Report == [at : {"idle", "read", "filed", "answer"}, rec : 0..MaxRec, by : 0..MaxRec,
           day : 0..MaxDay, used : Nat]

RequestTypes ==
    /\ rep \in [Slot -> Report]
    /\ \A q \in Slot : rep[q].at # "idle" => rep[q].rec \in Rec /\ rep[q].day \in Day
    /\ grant \in [Grant -> [at : {"none", "credited", "queued", "failed"}, rec : 0..MaxRec, day : 0..MaxDay]]

AnswerTypes ==
    /\ DOMAIN ans = Slot /\ DOMAIN far = Machine
    /\ \A q \in Slot : rep[q].at = "answer" => ans[q].day = rep[q].day
    /\ \A m \in Machine : far[m].day \in {0, today[m]}

AgentTypes ==
    /\ cred \in [Machine -> 0..MaxRec]
    /\ today \in [Machine -> Day]
    /\ here \in [Machine -> Nat]
    /\ got \in [Machine -> Nat]
    /\ applied \in [Machine -> SUBSET Grant]

HistoryTypes ==
    /\ heard \subseteq Rec /\ removed \subseteq Rec
    /\ spent \in [Machine -> [Day -> Nat]]
    /\ unfolded \subseteq Machine /\ wiped \subseteq Machine
    /\ faults \in 0..MaxFault

\* Every row, request and ledger is one the code can write; an answer kept
\* by a computer is for the day it is counting.
TypeOK == RecordTypes /\ RequestTypes /\ AnswerTypes /\ AgentTypes /\ HistoryTypes

UsedOn(r, d)   == book[r][d].used + kept[r][d].used
EarnedOn(r, d) == book[r][d].earned + kept[r][d].earned

\* The person's day on the server (the console's today, a report's answer).
TotalUsed(d)   == SumFunction([r \in Rec |-> UsedOn(r, d)])
TotalEarned(d) == SumFunction([r \in Rec |-> EarnedOn(r, d)])

\* What a computer holds against the person's limit.
ShownUsed(m) == here[m] + far[m].used

\* "The person's day is counted once" (machine.rs): no minute of a machine
\* is on record under two of its records, live, folded or removed, and no
\* record has more than was used - unless a fold failed there.
CountedOnce ==
    \A r \in Rec, d \in Day :
        mach[r] \in Machine \ unfolded =>
            /\ UsedOn(r, d) <= spent[mach[r]][d]
            /\ \A o \in Rec \ {r} : mach[o] = mach[r] => UsedOn(r, d) = 0 \/ UsedOn(o, d) = 0

\* A grant is on record once, whatever records it was moved through, and
\* whether or not a fold failed on the way.
EarnedOnce ==
    \A d \in Day : TotalEarned(d) <= Cardinality({g \in Grant : grant[g].day = d})

\* A transaction about to commit that has read less than is there now.
Overtaken(r) ==
    \/ stage[r] = "closing" /\ book[r] # snap[r]
    \/ stage[r] = "folding" /\ \E o \in Twins(r), d \in Day : book[o][d].used > snap[r][d].used

\* The person's day on the server never shrinks: not when a computer is
\* removed, enrolled again, folded or rolls its day.  What can be lost is a
\* report filed while a removal or a fold was between its read and its
\* commit.
DayKept ==
    [][unfolded = {} => \A d \in Day : TotalUsed(d)' >= TotalUsed(d)
           \/ \E r \in Rec : Overtaken(r) /\ stage'[r] # stage[r]]_vars

\* A token the server answered is answered until a parent removes the record
\* it speaks for: enrolling the machine again, however often and in whatever
\* order, never makes an agent hear 410 and take itself off (machine.rs).
HeardUntilRemoved ==
    [][\A m \in Machine : Resolve(cred[m]) # 0 /\ cred'[m] = cred[m] =>
          Resolve(cred[m])' # 0 \/ Resolve(cred[m]) \in removed' \ removed]_vars

\* "a daily limit is one budget per person across all their computers"
\* (ledger.rs): every computer comes to count the person's whole day.
SeesTheDay ==
    \A m \in Machine :
        <>[](cred[m] # 0 /\ m \notin wiped /\ unfolded = {}
               => ShownUsed(m) = TotalUsed(today[m]))

(***************************************************************************)
(* What comments say of the day and TLC refutes.                           *)
(***************************************************************************)

\* "The day of everyone who used it stays theirs: its ledger is filed under
\* each person first" (devices.rs, delete_device).
DayStaysTheirs ==
    [][\A r \in Rec, d \in Day : stage[r] = "closing" /\ stage'[r] = "gone" =>
          TotalUsed(d)' >= TotalUsed(d)]_vars

\* "its kept minutes go back onto the same logins here, for the same person
\* (the agent's ledger has them)" (machine.rs, take_over).
LedgerHasThem ==
    [][\A r \in Rec : stage[r] = "folding" /\ stage'[r] = "ready" /\ mach[r] \notin unfolded' =>
          LET d == today[mach[r]] IN
            \A o \in KeptOf(r) : kept[o][d].used <= here[mach[r]]]_vars
=============================================================================
