---------------------------- MODULE EarnRequests ----------------------------
(***************************************************************************)
(* Asking for more time and the parents' answers (server/src/earn.rs,      *)
(* members.rs, client/src/runner.rs).  A child asks at a computer or on    *)
(* their own page; parents approve, deny or simply give time, from several *)
(* surfaces at once.  Every SQL statement of a handler is a step, and the  *)
(* handler may stop between two of them: a statement fails, the server     *)
(* goes down, or the caller hangs up and the handler is dropped.           *)
(*                                                                         *)
(* One login per computer.  Every ask this code files has the task id      *)
(* "ask", so tasks are left out.  A grant's minutes are the decision that  *)
(* gave them: the ledger's sum is a set of decisions.  The queue is its    *)
(* promise (module CommandQueue): a command arrives late, again or never.  *)
(***************************************************************************)
EXTENDS Naturals, FiniteSets

CONSTANTS
    Login,      \* logins, each on its own computer
    Linked,     \* those that are the person's; the others are nobody's
    Req,        \* ids of earn_requests rows
    Decision,   \* calls of decide and credit_time
    Ask,        \* calls of create_request and of /api/me/ask
    None,       \* no row, no call, no login
    MaxDay,     \* days that pass
    CanFail     \* whether handlers stop half way and answers get lost

ASSUME EarnAssumption ==
    /\ Linked \subseteq Login
    /\ None \notin Req \cup Ask \cup Login \cup Decision
    /\ MaxDay \in Nat \ {0}
    /\ CanFail \in BOOLEAN

Day == 1..MaxDay

VARIABLES
    \* PostgreSQL: earn_requests (status, device_user_id, created_at::date),
    \* the grants in screen_time_ledger.earned_seconds, the commands.
    status, whose, filed, ledger, queue,
    \* Server calls in progress: decisions and asks.
    at, kind, req, to, day,
    ask,
    \* The agents: the cached ask's date (0: none), the ask it is posting,
    \* the grants it counted for each day.
    requested, posting, counted,
    \* The computers' date and CURRENT_DATE.
    local, today,
    \* For the properties: the decision that answered a request.
    answeredBy

dbVars    == <<status, whose, filed, answeredBy>>
decVars   == <<at, kind, req, to, day>>
agentVars == <<requested, posting, counted>>
clockVars == <<local, today>>
vars == <<dbVars, ledger, queue, decVars, ask, agentVars, clockVars>>

NoCall   == [at |-> "new", login |-> None, page |-> FALSE, day |-> 0]
Answered == [NoCall EXCEPT !.at = "done"]

Init ==
    /\ status = [r \in Req |-> "none"] /\ whose = [r \in Req |-> None]
    /\ filed = [r \in Req |-> 0] /\ answeredBy = [r \in Req |-> None]
    /\ ledger = [l \in Login |-> [n \in Day |-> {}]]
    /\ queue = [d \in Decision |-> "none"]
    /\ at = [d \in Decision |-> "new"] /\ kind = [d \in Decision |-> "none"]
    /\ req = [d \in Decision |-> None] /\ to = [d \in Decision |-> None]
    /\ day = [d \in Decision |-> 0]
    /\ ask = [c \in Ask |-> NoCall]
    /\ local = 1 /\ today = 1
    /\ requested = [l \in Login |-> 0] /\ posting = [l \in Login |-> None]
    /\ counted = [l \in Login |-> [n \in Day |-> {}]]

\* The logins whose asks a grant to l answers.
PersonsLogins(l) == IF l \in Linked THEN Linked ELSE {l}

-----------------------------------------------------------------------------
(* Asking *)

\* auto_request_earn: the agent's loop waits for the answer.
AskAtComputer(l, c) ==
    /\ ask[c].at = "new" /\ posting[l] = None
    /\ requested[l] # local
    /\ ask' = [ask EXCEPT ![c] = [at |-> "look", login |-> l, page |-> FALSE, day |-> local]]
    /\ posting' = [posting EXCEPT ![l] = c]
    /\ UNCHANGED <<dbVars, ledger, queue, decVars, requested, counted, clockVars>>

\* members::ask files against one of the person's computers.
AskOnPage(l, c) ==
    /\ ask[c].at = "new" /\ l \in Linked
    /\ ask' = [ask EXCEPT ![c] = [at |-> "look", login |-> l, page |-> TRUE, day |-> 0]]
    /\ UNCHANGED <<dbVars, ledger, queue, decVars, agentVars, clockVars>>

OpenToday(l) == {r \in Req : status[r] = "pending" /\ whose[r] = l /\ filed[r] = today}

\* The SELECT that looks for today's pending row.
Look(c) ==
    /\ ask[c].at = "look"
    /\ ask' = [ask EXCEPT ![c].at = IF OpenToday(ask[c].login) = {} THEN "insert" ELSE "reply"]
    /\ UNCHANGED <<dbVars, ledger, queue, decVars, agentVars, clockVars>>

Insert(c, r) ==
    /\ ask[c].at = "insert" /\ status[r] = "none"
    /\ status' = [status EXCEPT ![r] = "pending"]
    /\ whose' = [whose EXCEPT ![r] = ask[c].login]
    /\ filed' = [filed EXCEPT ![r] = today]
    /\ ask' = [ask EXCEPT ![c].at = "reply"]
    /\ UNCHANGED <<answeredBy, ledger, queue, decVars, agentVars, clockVars>>

\* The reply; the agent caches the date on which it began to ask.
Reply(c) ==
    LET l == ask[c].login IN
    /\ ask[c].at = "reply"
    /\ ask' = [ask EXCEPT ![c] = Answered]
    /\ IF ~ask[c].page /\ posting[l] = c
       THEN /\ requested' = [requested EXCEPT ![l] = ask[c].day]
            /\ posting' = [posting EXCEPT ![l] = None]
       ELSE UNCHANGED <<requested, posting>>
    /\ UNCHANGED <<dbVars, ledger, queue, decVars, counted, clockVars>>

\* No answer within ten seconds, or an error: nothing is cached.  The call
\* may be dead or still on its way through the server.
GiveUp(l) ==
    /\ CanFail /\ posting[l] # None
    /\ posting' = [posting EXCEPT ![l] = None]
    /\ UNCHANGED <<dbVars, ledger, queue, decVars, ask, requested, counted, clockVars>>

-----------------------------------------------------------------------------
(* Answering *)

\* Slip: the UPDATE does not ask for a pending row.
DecideAgain(d, r, k) ==
    /\ at[d] = "new" /\ status[r] # "none"
    /\ status' = [status EXCEPT ![r] = IF k = "approve" THEN "approved" ELSE "denied"]
    /\ answeredBy' = [answeredBy EXCEPT ![r] = d]
    /\ at' = [at EXCEPT ![d] = IF k = "approve" THEN "credit" ELSE "queue"]
    /\ kind' = [kind EXCEPT ![d] = k] /\ req' = [req EXCEPT ![d] = r]
    /\ to' = [to EXCEPT ![d] = whose[r]]
    /\ UNCHANGED <<whose, filed, ledger, queue, day, ask, agentVars, clockVars>>

\* decide's guarded UPDATE; on a row already decided the call is a conflict
\* and changes nothing.
Decide(d, r, k) ==
    /\ at[d] = "new" /\ status[r] = "pending"
    /\ status' = [status EXCEPT ![r] = IF k = "approve" THEN "approved" ELSE "denied"]
    /\ answeredBy' = [answeredBy EXCEPT ![r] = d]
    /\ at' = [at EXCEPT ![d] = IF k = "approve" THEN "credit" ELSE "queue"]
    /\ kind' = [kind EXCEPT ![d] = k] /\ req' = [req EXCEPT ![d] = r]
    /\ to' = [to EXCEPT ![d] = whose[r]]
    /\ UNCHANGED <<whose, filed, ledger, queue, day, ask, agentVars, clockVars>>

\* credit_time: a parent gives a login time that nobody need have asked for.
Give(d, l) ==
    /\ at[d] = "new"
    /\ at' = [at EXCEPT ![d] = "credit"] /\ kind' = [kind EXCEPT ![d] = "give"]
    /\ to' = [to EXCEPT ![d] = l]
    /\ UNCHANGED <<dbVars, ledger, queue, req, day, ask, agentVars, clockVars>>

\* Slip: the command is forgotten.
CreditForgetsQueue(d) ==
    LET l == to[d] IN
    /\ at[d] = "credit"
    /\ day' = [day EXCEPT ![d] = local]
    /\ ledger' = [ledger EXCEPT ![l][local] = @ \cup {d}]
    /\ at' = [at EXCEPT ![d] = "settle"]
    /\ UNCHANGED <<dbVars, queue, kind, req, to, ask, agentVars, clockVars>>

\* device_local_day and credit_ledger: the computer's own today.
Credit(d) ==
    LET l == to[d] IN
    /\ at[d] = "credit"
    /\ day' = [day EXCEPT ![d] = local]
    /\ ledger' = [ledger EXCEPT ![l][local] = @ \cup {d}]
    /\ at' = [at EXCEPT ![d] = "queue"]
    /\ UNCHANGED <<dbVars, queue, kind, req, to, ask, agentVars, clockVars>>

\* enqueue_command of the credit_time or deny_earn; a denial is done.
Queue(d) ==
    /\ at[d] = "queue"
    /\ queue' = [queue EXCEPT ![d] = "open"]
    /\ at' = [at EXCEPT ![d] = IF kind[d] = "deny" THEN "done" ELSE "settle"]
    /\ UNCHANGED <<dbVars, ledger, kind, req, to, day, ask, agentVars, clockVars>>

\* settle_pending_asks: what the person still waits for is answered too.
Settle(d) ==
    LET waiting == {r \in Req : status[r] = "pending" /\ whose[r] \in PersonsLogins(to[d])} IN
    /\ at[d] = "settle"
    /\ status' = [r \in Req |-> IF r \in waiting THEN "approved" ELSE status[r]]
    /\ answeredBy' = [r \in Req |-> IF r \in waiting THEN d ELSE answeredBy[r]]
    /\ at' = [at EXCEPT ![d] = "done"]
    /\ UNCHANGED <<whose, filed, ledger, queue, kind, req, to, day, ask, agentVars, clockVars>>

\* A handler that stops between two statements is not taken up again.
Fail(d) ==
    /\ CanFail /\ at[d] \in {"credit", "queue", "settle"}
    /\ at' = [at EXCEPT ![d] = "failed"]
    /\ UNCHANGED <<dbVars, ledger, queue, kind, req, to, day, ask, agentVars, clockVars>>

-----------------------------------------------------------------------------
(* The computers *)

CountedAt(l) == UNION {counted[l][n] : n \in Day}

\* handle_command for credit_time: neither a grant of an earlier day nor one
\* counted before does anything; a new one also forgets the cached ask.
HandleCreditTime(d, l) ==
    IF day[d] < local \/ d \in CountedAt(l)
    THEN UNCHANGED <<counted, requested>>
    ELSE /\ counted' = [counted EXCEPT ![l][local] = @ \cup {d}]
         /\ requested' = [requested EXCEPT ![l] = 0]

HandleDenyEarn(l) ==
    /\ requested' = [requested EXCEPT ![l] = 0]
    /\ UNCHANGED counted

\* Slip: the agent takes commands while its own request is out.
DeliverAnytime(d, acked) ==
    LET l == to[d] IN
    /\ queue[d] = "open"
    /\ acked \/ CanFail
    /\ IF kind[d] = "deny" THEN HandleDenyEarn(l) ELSE HandleCreditTime(d, l)
    /\ queue' = [queue EXCEPT ![d] = IF acked THEN "acked" ELSE "open"]
    /\ UNCHANGED <<dbVars, ledger, decVars, ask, posting, clockVars>>

\* A command reaches the agent, between two of its own requests; a lost ack
\* leaves it open, to be delivered again.
Deliver(d, acked) ==
    LET l == to[d] IN
    /\ queue[d] = "open" /\ posting[l] = None
    /\ acked \/ CanFail
    /\ IF kind[d] = "deny" THEN HandleDenyEarn(l) ELSE HandleCreditTime(d, l)
    /\ queue' = [queue EXCEPT ![d] = IF acked THEN "acked" ELSE "open"]
    /\ UNCHANGED <<dbVars, ledger, decVars, ask, posting, clockVars>>

\* The cache is not saved, the grants are.
RestartAgent(l) ==
    /\ CanFail
    /\ requested' = [requested EXCEPT ![l] = 0]
    /\ posting' = [posting EXCEPT ![l] = None]
    /\ UNCHANGED <<dbVars, ledger, queue, decVars, ask, counted, clockVars>>

\* Midnight comes to the computers, which stand in one time zone, and to
\* the database at different moments, less than a day apart.
Midnight ==
    /\ local < MaxDay /\ local <= today
    /\ local' = local + 1
    /\ UNCHANGED <<dbVars, ledger, queue, decVars, ask, agentVars, today>>

ServerMidnight ==
    /\ today < MaxDay /\ today <= local
    /\ today' = today + 1
    /\ UNCHANGED <<dbVars, ledger, queue, decVars, ask, agentVars, local>>

Next ==
    \/ \E c \in Ask : \/ Look(c)
                      \/ Reply(c)
                      \/ \E r \in Req : Insert(c, r)
                      \/ \E l \in Login : AskAtComputer(l, c) \/ AskOnPage(l, c)
    \/ \E d \in Decision : \/ Credit(d)
                           \/ Queue(d)
                           \/ Settle(d)
                           \/ Fail(d)
                           \/ \E acked \in BOOLEAN : Deliver(d, acked)
                           \/ \E l \in Login : Give(d, l)
                           \/ \E r \in Req, k \in {"approve", "deny"} : Decide(d, r, k)
    \/ \E l \in Login : GiveUp(l) \/ RestartAgent(l)
    \/ Midnight
    \/ ServerMidnight

Spec == Init /\ [][Next]_vars

-----------------------------------------------------------------------------
(* Properties *)

Call == [at : {"new", "look", "insert", "reply", "done"},
         login : Login \cup {None}, page : BOOLEAN, day : 0..MaxDay]

\* Types of the variables.
TypeOK ==
    /\ status \in [Req -> {"none", "pending", "approved", "denied"}]
    /\ whose \in [Req -> Login \cup {None}]
    /\ filed \in [Req -> 0..MaxDay]
    /\ answeredBy \in [Req -> Decision \cup {None}]
    /\ ledger \in [Login -> [Day -> SUBSET Decision]]
    /\ queue \in [Decision -> {"none", "open", "acked"}]
    /\ at \in [Decision -> {"new", "credit", "queue", "settle", "done", "failed"}]
    /\ kind \in [Decision -> {"none", "approve", "deny", "give"}]
    /\ req \in [Decision -> Req \cup {None}]
    /\ to \in [Decision -> Login \cup {None}]
    /\ day \in [Decision -> 0..MaxDay]
    /\ ask \in [Ask -> Call]
    /\ local \in Day /\ today \in Day
    /\ requested \in [Login -> 0..MaxDay]
    /\ posting \in [Login -> Ask \cup {None}]
    /\ counted \in [Login -> [Day -> SUBSET Decision]]

OnRecord(d) == \E l \in Login, n \in Day : d \in ledger[l][n]

\* The first answer stands: a request that was decided, or answered by a
\* grant, is never decided again, whoever else is deciding it
\* (earn.rs, decide and settle_pending_asks).
AnswerStands ==
    [][\A r \in Req : status[r] \in {"approved", "denied"} => status'[r] = status[r]]_vars

\* Two parents deciding one request grant its minutes once, and none of a
\* request that was denied (earn.rs, decide).
OneGrantPerRequest ==
    \A d \in Decision : OnRecord(d) /\ req[d] # None =>
        /\ status[req[d]] = "approved"
        /\ \A e \in Decision : OnRecord(e) /\ req[e] = req[d] => e = d

\* A request answered along with another grant was answered by one to the
\* same person, on the ledger and in the queue (earn.rs, settle_pending_asks).
AnsweredWithTime ==
    \A r \in Req : LET d == answeredBy[r] IN
        status[r] = "approved" /\ req[d] # r =>
            /\ whose[r] \in PersonsLogins(to[d])
            /\ d \in ledger[to[d]][day[d]]
            /\ queue[d] # "none"

\* A computer never has minutes the ledger does not know of, and counts them
\* on the day they were given for (earn.rs, decide and credit_time;
\* runner.rs, handle_command).
CountedIsOnRecord ==
    \A l \in Login, n \in Day : counted[l][n] \subseteq ledger[l][n]

\* An answer to a computer's ask is still on its way there.
Coming(l) ==
    \E d \in Decision : to[d] = l /\ (at[d] \in {"credit", "queue"} \/ queue[d] = "open")

Waiting(l) == requested[l] = local

Pending(l) == \E r \in Req : status[r] = "pending" /\ whose[r] = l

\* A computer that says "waiting for a parent" has an ask pending or an
\* answer coming, unless a handler stopped half way or a request of this
\* login was answered by someone else's grant (runner.rs, auto_request_earn
\* and handle_command).
OwnAnswerIsHeard ==
    \A l \in Login : Waiting(l) =>
        \/ Pending(l)
        \/ Coming(l)
        \/ \E d \in Decision : to[d] = l /\ at[d] = "failed"
        \/ \E r \in Req : whose[r] = l /\ status[r] = "approved" /\ req[answeredBy[r]] # r

\* runner.rs:3107: "An ask is waiting on a parent (a grant or a "not now"
\* clears it)".  The status file says so only while it is true.
AskPendingIsTrue ==
    \A l \in Login : Waiting(l) => Pending(l) \/ Coming(l)
=============================================================================
