------------------------- MODULE EarnRequestsProofs -------------------------
(***************************************************************************)
(* What TLAPS proves of the asks and their answers, for any number of      *)
(* logins, requests, decisions, calls and days.                            *)
(***************************************************************************)
EXTENDS EarnRequests, TLAPS

(***************************************************************************)
(* The inductive invariant.                                                *)
(***************************************************************************)

\* A decision that began is about a login, and one on a request has answered
\* that request, for good.
Chosen ==
    \A d \in Decision :
        /\ at[d] = "new" =>
              /\ kind[d] = "none" /\ req[d] = None /\ to[d] = None
              /\ queue[d] = "none"
        /\ at[d] # "new" =>
              /\ to[d] \in Login /\ kind[d] # "none"
              /\ (req[d] = None) <=> (kind[d] = "give")
        /\ at[d] \in {"credit", "settle"} => kind[d] # "deny"
        /\ req[d] # None =>
              /\ answeredBy[req[d]] = d
              /\ status[req[d]] = IF kind[d] = "approve" THEN "approved" ELSE "denied"

\* The grants on the ledger and in the queue, as far as each decision got.
Recorded ==
    \A d \in Decision :
        /\ \A l \in Login, n \in Day : d \in ledger[l][n] =>
              /\ l = to[d] /\ n = day[d] /\ n <= local
              /\ at[d] \notin {"new", "credit"} /\ kind[d] # "deny"
        /\ kind[d] # "deny" /\ (at[d] \in {"queue", "settle", "done"} \/ queue[d] # "none") =>
              d \in ledger[to[d]][day[d]] /\ day[d] \in Day
        /\ queue[d] # "none" => at[d] \in {"settle", "done", "failed"}
        /\ at[d] \in {"settle", "done"} => queue[d] # "none"
        /\ \A l \in Login, n \in Day : d \in counted[l][n] =>
              d \in ledger[l][n] /\ queue[d] # "none"

\* Who answered the requests: their own decision, or a grant to the person.
Answers ==
    \A r \in Req :
        /\ status[r] = "none" => whose[r] = None
        /\ status[r] # "none" => whose[r] \in Login
        /\ status[r] \in {"approved", "denied"} => answeredBy[r] \in Decision
        /\ LET d == answeredBy[r] IN status[r] \in {"approved", "denied"} =>
              /\ at[d] # "new"
              /\ req[d] = r => whose[r] = to[d]
              /\ req[d] # r =>
                    /\ status[r] = "approved"
                    /\ whose[r] \in PersonsLogins(to[d])
                    /\ queue[d] # "none" /\ kind[d] # "deny"

\* An agent that posts an ask waits for its answer, and nothing is dated
\* after today.
Posted ==
    /\ \A l \in Login :
          /\ requested[l] <= local
          /\ posting[l] # None =>
                /\ ask[posting[l]].login = l /\ ~ask[posting[l]].page
                /\ ask[posting[l]].at \in {"look", "insert", "reply"}
    /\ \A c \in Ask :
          /\ ask[c].day <= local
          /\ ask[c].at \in {"look", "insert", "reply"} => ask[c].login \in Login

\* An answer on its way that will clear the cached ask when it arrives.
Fresh(l) ==
    \E d \in Decision :
        /\ to[d] = l
        /\ \/ at[d] = "credit"
           \/ /\ at[d] = "queue" \/ queue[d] = "open"
              /\ kind[d] # "deny" => day[d] = local /\ d \notin CountedAt(l)

Stopped(l) == \E d \in Decision : to[d] = l /\ at[d] = "failed"

Settled(l) ==
    \E r \in Req : whose[r] = l /\ status[r] = "approved" /\ req[answeredBy[r]] # r

Heard(l) == Pending(l) \/ Fresh(l) \/ Stopped(l) \/ Settled(l)

\* So it is for an ask cached today, and for one about to be.
Awaited ==
    \A l \in Login :
        /\ Waiting(l) => Heard(l)
        /\ posting[l] # None =>
              (ask[posting[l]].at = "reply" /\ ask[posting[l]].day = local => Heard(l))

Inv == TypeOK /\ Chosen /\ Recorded /\ Answers /\ Posted /\ Awaited

(***************************************************************************)
(* Types.                                                                  *)
(***************************************************************************)

\* The initial state is well typed.
LEMMA TypeInit == Init => TypeOK
BY EarnAssumption DEF Init, TypeOK, Call, NoCall, Day

\* A call that moves on is still a call.
LEMMA Calls ==
    ASSUME NEW f \in [Ask -> Call], NEW c \in Ask
    PROVE  /\ NoCall \in Call /\ Answered \in Call
           /\ \A a \in {"new", "look", "insert", "reply", "done"} :
                 [f EXCEPT ![c].at = a] \in [Ask -> Call]
           /\ \A v \in Call : [f EXCEPT ![c] = v] \in [Ask -> Call]
<1>1. NoCall \in Call /\ Answered \in Call
  <2>1. 0 \in 0..MaxDay
    BY EarnAssumption
  <2>2. NoCall \in Call
    BY <2>1 DEF NoCall, Call
  <2>3. [NoCall EXCEPT !.at = "done"] \in Call
    BY <2>2 DEF Call
  <2>. QED
    BY <2>2, <2>3 DEF Answered
<1>2. ASSUME NEW a \in {"new", "look", "insert", "reply", "done"}
      PROVE  [f EXCEPT ![c].at = a] \in [Ask -> Call]
  <2>1. f[c] \in Call
    OBVIOUS
  <2>2. [f[c] EXCEPT !.at = a] \in Call
    BY <2>1 DEF Call
  <2>. QED
    BY <2>2
<1>. QED
  BY <1>1, <1>2

\* The steps of asks keep the types.
LEMMA TypeAsk ==
    ASSUME TypeOK, NEW c \in Ask,
           \/ Look(c) \/ Reply(c)
           \/ \E r \in Req : Insert(c, r)
           \/ \E l \in Login : AskAtComputer(l, c) \/ AskOnPage(l, c)
    PROVE  TypeOK'
<1>1. CASE Look(c)
  <2>1. ask' \in [Ask -> Call]
    BY <1>1, Calls DEF TypeOK, Look
  <2>. QED
    BY <1>1, <2>1 DEF TypeOK, Look, dbVars, decVars, agentVars, clockVars
<1>2. CASE Reply(c)
  <2>1. ask' \in [Ask -> Call]
    BY <1>2, Calls DEF TypeOK, Reply
  <2>2. requested' \in [Login -> 0..MaxDay] /\ posting' \in [Login -> Ask \cup {None}]
    BY <1>2 DEF TypeOK, Reply, Call
  <2>. QED
    BY <1>2, <2>1, <2>2 DEF TypeOK, Reply, dbVars, decVars, clockVars
<1>3. ASSUME NEW r \in Req, Insert(c, r) PROVE TypeOK'
  <2>1. ask' \in [Ask -> Call]
    BY <1>3, Calls DEF TypeOK, Insert
  <2>2. ask[c].login \in Login \cup {None}
    BY DEF TypeOK, Call
  <2>. QED
    BY <1>3, <2>1, <2>2, EarnAssumption DEF TypeOK, Insert, Day, decVars, agentVars, clockVars
<1>4. ASSUME NEW l \in Login, AskAtComputer(l, c) PROVE TypeOK'
  BY <1>4 DEF TypeOK, AskAtComputer, Call, Day, dbVars, decVars, clockVars
<1>5. ASSUME NEW l \in Login, AskOnPage(l, c) PROVE TypeOK'
  BY <1>5, EarnAssumption DEF TypeOK, AskOnPage, Call, dbVars, decVars, agentVars, clockVars
<1>. QED
  BY <1>1, <1>2, <1>3, <1>4, <1>5

\* A login's row of grants with one more in it.
LEMMA OneMore ==
    ASSUME NEW f \in [Login -> [Day -> SUBSET Decision]],
           NEW l \in Login, NEW n \in Day, NEW d \in Decision
    PROVE  /\ [f EXCEPT ![l][n] = @ \cup {d}] \in [Login -> [Day -> SUBSET Decision]]
           /\ \A k \in Login, m \in Day, e \in Decision :
                 e \in [f EXCEPT ![l][n] = @ \cup {d}][k][m]
                     <=> e \in f[k][m] \/ (k = l /\ m = n /\ e = d)
OBVIOUS

\* The steps of decisions keep the types.
LEMMA TypeDecision ==
    ASSUME TypeOK, Chosen, NEW d \in Decision,
           \/ Credit(d) \/ Queue(d) \/ Settle(d) \/ Fail(d)
           \/ \E acked \in BOOLEAN : Deliver(d, acked)
           \/ \E l \in Login : Give(d, l)
           \/ \E r \in Req, k \in {"approve", "deny"} : Decide(d, r, k)
    PROVE  TypeOK'
<1>0. at[d] # "new" => to[d] \in Login
  BY DEF Chosen
<1>1. CASE Credit(d)
  <2>1. to[d] \in Login /\ local \in Day
    BY <1>0, <1>1 DEF Credit, TypeOK
  <2>2. ledger' \in [Login -> [Day -> SUBSET Decision]]
    BY <1>1, <2>1, OneMore DEF Credit, TypeOK
  <2>. QED
    BY <1>1, <2>1, <2>2 DEF TypeOK, Credit, Day, dbVars, agentVars, clockVars
<1>2. CASE Queue(d)
  BY <1>2 DEF TypeOK, Queue, dbVars, agentVars, clockVars
<1>3. CASE Settle(d)
  BY <1>3 DEF TypeOK, Settle, agentVars, clockVars
<1>4. CASE Fail(d)
  BY <1>4 DEF TypeOK, Fail, dbVars, agentVars, clockVars
<1>5. ASSUME NEW acked \in BOOLEAN, Deliver(d, acked) PROVE TypeOK'
  <2>1. at[d] # "new"
    BY <1>5 DEF Deliver, Chosen
  <2>2. to[d] \in Login
    BY <1>0, <2>1
  <2>3. counted' \in [Login -> [Day -> SUBSET Decision]]
    <3>1. CASE counted' = counted
      BY <3>1 DEF TypeOK
    <3>2. CASE counted' = [counted EXCEPT ![to[d]][local] = @ \cup {d}]
      BY <3>2, <2>2, OneMore DEF TypeOK
    <3>. QED
      BY <1>5, <3>1, <3>2 DEF Deliver, HandleDenyEarn, HandleCreditTime
  <2>4. requested' \in [Login -> 0..MaxDay]
    BY <1>5, EarnAssumption DEF Deliver, HandleDenyEarn, HandleCreditTime, TypeOK
  <2>5. queue' \in [Decision -> {"none", "open", "acked"}]
    BY <1>5 DEF Deliver, TypeOK
  <2>. QED
    BY <1>5, <2>3, <2>4, <2>5 DEF TypeOK, Deliver, dbVars, decVars, clockVars
<1>6. ASSUME NEW l \in Login, Give(d, l) PROVE TypeOK'
  BY <1>6 DEF TypeOK, Give, dbVars, agentVars, clockVars
<1>7. ASSUME NEW r \in Req, NEW k \in {"approve", "deny"}, Decide(d, r, k) PROVE TypeOK'
  BY <1>7 DEF TypeOK, Decide, agentVars, clockVars
<1>. QED
  BY <1>1, <1>2, <1>3, <1>4, <1>5, <1>6, <1>7

\* Every step keeps the types.
LEMMA TypeStep == TypeOK /\ Chosen /\ [Next]_vars => TypeOK'
<1> SUFFICES ASSUME TypeOK, Chosen, [Next]_vars PROVE TypeOK'
  OBVIOUS
<1>1. ASSUME NEW l \in Login, GiveUp(l) \/ RestartAgent(l) PROVE TypeOK'
  <2>1. posting' \in [Login -> Ask \cup {None}]
    BY <1>1 DEF TypeOK, GiveUp, RestartAgent
  <2>2. requested' \in [Login -> 0..MaxDay]
    <3>1. 0 \in 0..MaxDay
      BY EarnAssumption
    <3>2. requested' = requested \/ requested' = [requested EXCEPT ![l] = 0]
      BY <1>1 DEF GiveUp, RestartAgent
    <3>. QED
      BY <3>1, <3>2 DEF TypeOK
  <2>. QED
    BY <1>1, <2>1, <2>2 DEF TypeOK, GiveUp, RestartAgent, dbVars, decVars, clockVars
<1>2. CASE Midnight
  BY <1>2, EarnAssumption DEF TypeOK, Midnight, Day, dbVars, decVars, agentVars
<1>3. CASE ServerMidnight
  BY <1>3, EarnAssumption DEF TypeOK, ServerMidnight, Day, dbVars, decVars, agentVars
<1>4. CASE UNCHANGED vars
  BY <1>4 DEF TypeOK, vars, dbVars, decVars, agentVars, clockVars
<1>. QED
  BY <1>1, <1>2, <1>3, <1>4, TypeAsk, TypeDecision DEF Next

(***************************************************************************)
(* Decisions, the ledger and the answers.                                  *)
(***************************************************************************)

\* The steps that touch no row, no decision, no grant.
Quiet ==
    /\ UNCHANGED <<status, whose, answeredBy, ledger, queue, at, kind, req, to, day, counted>>
    /\ local \in Day /\ local' \in Day /\ local <= local'

\* A step is a quiet one or one of these.
LEMMA Steps ==
    ASSUME TypeOK, [Next]_vars
    PROVE  \/ Quiet
           \/ \E c \in Ask, r \in Req : Insert(c, r)
           \/ \E d \in Decision :
                 \/ Credit(d) \/ Queue(d) \/ Settle(d) \/ Fail(d)
                 \/ \E acked \in BOOLEAN : Deliver(d, acked)
                 \/ \E l \in Login : Give(d, l)
                 \/ \E r \in Req, k \in {"approve", "deny"} : Decide(d, r, k)
<1>0. local \in Day /\ local \in Nat /\ MaxDay \in Nat
  BY EarnAssumption DEF TypeOK, Day
<1>1. ASSUME NEW c \in Ask, Look(c) \/ Reply(c) PROVE Quiet
  BY <1>0, <1>1 DEF Look, Reply, Quiet, dbVars, decVars, agentVars, clockVars
<1>2. ASSUME NEW c \in Ask, NEW l \in Login, AskAtComputer(l, c) \/ AskOnPage(l, c)
      PROVE  Quiet
  BY <1>0, <1>2 DEF AskAtComputer, AskOnPage, Quiet, dbVars, decVars, agentVars, clockVars
<1>3. ASSUME NEW l \in Login, GiveUp(l) \/ RestartAgent(l) PROVE Quiet
  BY <1>0, <1>3 DEF GiveUp, RestartAgent, Quiet, dbVars, decVars, clockVars
<1>4. CASE Midnight
  BY <1>0, <1>4 DEF Midnight, Quiet, Day, dbVars, decVars, agentVars
<1>5. CASE ServerMidnight
  BY <1>0, <1>5 DEF ServerMidnight, Quiet, dbVars, decVars, agentVars
<1>6. CASE UNCHANGED vars
  BY <1>0, <1>6 DEF vars, Quiet, dbVars, decVars, agentVars, clockVars
<1>. QED
  BY <1>1, <1>2, <1>3, <1>4, <1>5, <1>6 DEF Next

\* A decision keeps the request it was made on.
LEMMA ChosenStep == TypeOK /\ Chosen /\ Answers /\ [Next]_vars => Chosen'
<1> SUFFICES ASSUME TypeOK, Chosen, Answers, [Next]_vars PROVE Chosen'
  OBVIOUS
<1>0. None \notin Req \cup Login
  BY EarnAssumption
<1>1. CASE Quiet
  BY <1>1 DEF Quiet, Chosen
<1>2. ASSUME NEW c \in Ask, NEW r \in Req, Insert(c, r) PROVE Chosen'
  BY <1>2 DEF Insert, Chosen, TypeOK, decVars
<1>3. ASSUME NEW d \in Decision, Credit(d) PROVE Chosen'
  BY <1>3 DEF Credit, Chosen, TypeOK, dbVars
<1>4. ASSUME NEW d \in Decision, Queue(d) PROVE Chosen'
  BY <1>4 DEF Queue, Chosen, TypeOK, dbVars
<1>5. ASSUME NEW d \in Decision, Settle(d) PROVE Chosen'
  <2> SUFFICES ASSUME NEW e \in Decision, req[e] # None
               PROVE  answeredBy'[req[e]] = answeredBy[req[e]]
                      /\ status'[req[e]] = status[req[e]]
    BY <1>5 DEF Settle, Chosen, TypeOK
  <2>1. req[e] \in Req
    BY DEF TypeOK
  <2>2. status[req[e]] # "pending"
    BY DEF Chosen
  <2>. QED
    BY <1>5, <2>1, <2>2 DEF Settle
<1>6. ASSUME NEW d \in Decision, Fail(d) PROVE Chosen'
  BY <1>6 DEF Fail, Chosen, TypeOK, dbVars
<1>7. ASSUME NEW d \in Decision, NEW acked \in BOOLEAN, Deliver(d, acked) PROVE Chosen'
  BY <1>7 DEF Deliver, Chosen, TypeOK, dbVars, decVars
<1>8. ASSUME NEW d \in Decision, NEW l \in Login, Give(d, l) PROVE Chosen'
  BY <1>8 DEF Give, Chosen, TypeOK, dbVars
<1>9. ASSUME NEW d \in Decision, NEW r \in Req, NEW k \in {"approve", "deny"}, Decide(d, r, k)
      PROVE  Chosen'
  <2>1. whose[r] \in Login
    BY <1>9 DEF Decide, Answers
  <2>2. \A e \in Decision : req[e] # r
    BY <1>0, <1>9 DEF Decide, Chosen
  <2>. QED
    BY <1>0, <1>9, <2>1, <2>2 DEF Decide, Chosen, TypeOK
<1>. QED
  BY <1>1, <1>2, <1>3, <1>4, <1>5, <1>6, <1>7, <1>8, <1>9, Steps

\* A grant stays where it was recorded.
LEMMA RecordedStep == TypeOK /\ Chosen /\ Recorded /\ [Next]_vars => Recorded'
<1> SUFFICES ASSUME TypeOK, Chosen, Recorded, [Next]_vars PROVE Recorded'
  OBVIOUS
<1>0. local \in Day /\ local \in Nat /\ Day \subseteq Nat
  BY DEF TypeOK, Day
<1>1. CASE Quiet
  BY <1>0, <1>1 DEF Quiet, Recorded, Day
<1>2. ASSUME NEW c \in Ask, NEW r \in Req, Insert(c, r) PROVE Recorded'
  BY <1>2 DEF Insert, Recorded, decVars, agentVars, clockVars
<1>3. ASSUME NEW d \in Decision, Credit(d) PROVE Recorded'
  <2>1. to[d] \in Login /\ kind[d] # "deny" /\ queue[d] = "none"
    BY <1>3 DEF Credit, Chosen, Recorded, TypeOK
  <2>2. \A l \in Login, n \in Day, e \in Decision :
           e \in ledger'[l][n] <=> e \in ledger[l][n] \/ (l = to[d] /\ n = local /\ e = d)
    <3>1. ledger' = [ledger EXCEPT ![to[d]][local] = @ \cup {d}]
      BY <1>3 DEF Credit
    <3>2. ledger \in [Login -> [Day -> SUBSET Decision]]
      BY DEF TypeOK
    <3>. QED
      BY <1>0, <2>1, <3>1, <3>2, OneMore
  <2>3. UNCHANGED <<queue, kind, to, counted, local>>
    BY <1>3 DEF Credit, agentVars, clockVars
  <2>4. \A l \in Login, n \in Day : d \notin ledger[l][n] /\ d \notin counted[l][n]
    BY <1>3 DEF Credit, Recorded
  <2>5. at'[d] = "queue" /\ day'[d] = local
        /\ \A e \in Decision \ {d} : at'[e] = at[e] /\ day'[e] = day[e]
    BY <1>3 DEF Credit, TypeOK
  <2>6. \A e \in Decision : kind[e] # "deny" /\ at[e] # "new" => to[e] \in Login
    BY DEF Chosen
  <2>7. \A e \in Decision : queue[e] # "none" => at[e] # "new"
    BY DEF Chosen
  <2>8. ASSUME NEW e \in Decision \ {d}, kind[e] # "deny",
               at[e] \in {"queue", "settle", "done"} \/ queue[e] # "none"
        PROVE  e \in ledger'[to[e]][day[e]] /\ day[e] \in Day
    <3>1. to[e] \in Login /\ day[e] \in Day /\ e \in ledger[to[e]][day[e]]
      BY <2>6, <2>7, <2>8 DEF Recorded
    <3>. QED
      BY <2>2, <3>1
  <2>9. ASSUME NEW e \in Decision, NEW l \in Login, NEW n \in Day, e \in ledger'[l][n]
        PROVE  /\ l = to[e] /\ n = day'[e] /\ n <= local
               /\ at'[e] \notin {"new", "credit"} /\ kind[e] # "deny"
    <3>1. CASE e = d
      BY <1>0, <2>1, <2>2, <2>4, <2>5, <2>9, <3>1
    <3>2. CASE e # d
      BY <2>2, <2>5, <2>9, <3>2 DEF Recorded
    <3>. QED
      BY <3>1, <3>2
  <2>10. ASSUME NEW e \in Decision, kind[e] # "deny",
                at'[e] \in {"queue", "settle", "done"} \/ queue[e] # "none"
         PROVE  e \in ledger'[to[e]][day'[e]] /\ day'[e] \in Day
    BY <1>0, <2>1, <2>2, <2>5, <2>8, <2>10
  <2>11. ASSUME NEW e \in Decision
         PROVE  /\ queue[e] # "none" => at'[e] \in {"settle", "done", "failed"}
                /\ at'[e] \in {"settle", "done"} => queue[e] # "none"
                /\ \A l \in Login, n \in Day : e \in counted[l][n] =>
                      e \in ledger'[l][n] /\ queue[e] # "none"
    BY <2>1, <2>2, <2>4, <2>5 DEF Recorded
  <2>. QED
    BY <2>3, <2>9, <2>10, <2>11 DEF Recorded
<1>4. ASSUME NEW d \in Decision, Queue(d) PROVE Recorded'
  BY <1>4 DEF Queue, Recorded, TypeOK, agentVars, clockVars
<1>5. ASSUME NEW d \in Decision, Settle(d) PROVE Recorded'
  BY <1>5 DEF Settle, Recorded, TypeOK, agentVars, clockVars
<1>6. ASSUME NEW d \in Decision, Fail(d) PROVE Recorded'
  BY <1>6 DEF Fail, Recorded, TypeOK, agentVars, clockVars
<1>7. ASSUME NEW d \in Decision, NEW acked \in BOOLEAN, Deliver(d, acked) PROVE Recorded'
  <2>1. UNCHANGED <<ledger, at, kind, to, day, local>>
    BY <1>7 DEF Deliver, decVars, clockVars
  <2>2. queue[d] = "open" /\ queue'[d] # "none"
        /\ \A e \in Decision \ {d} : queue'[e] = queue[e]
    BY <1>7 DEF Deliver, TypeOK
  <2>3. ASSUME NEW e \in Decision, NEW l \in Login, NEW n \in Day, e \in counted'[l][n]
        PROVE  e \in ledger[l][n] /\ queue'[e] # "none"
    <3>1. CASE e \in counted[l][n]
      BY <2>2, <3>1 DEF Recorded
    <3>2. CASE e \notin counted[l][n]
      <4>1. kind[d] # "deny" /\ ~(day[d] < local)
            /\ counted' = [counted EXCEPT ![to[d]][local] = @ \cup {d}]
        BY <1>7, <2>3, <3>2 DEF Deliver, HandleDenyEarn, HandleCreditTime
      <4>2. to[d] \in Login
        BY <2>2 DEF Chosen
      <4>3. e = d /\ l = to[d] /\ n = local
        BY <1>0, <2>3, <3>2, <4>1, <4>2, OneMore DEF TypeOK
      <4>4. day[d] \in Day /\ d \in ledger[to[d]][day[d]]
        BY <2>2, <4>1 DEF Recorded
      <4>5. day[d] <= local
        BY <4>2, <4>4 DEF Recorded
      <4>6. day[d] = local
        BY <1>0, <4>1, <4>4, <4>5
      <4>. QED
        BY <2>2, <4>3, <4>4, <4>6
    <3>. QED
      BY <3>1, <3>2
  <2>. QED
    BY <2>1, <2>2, <2>3 DEF Recorded
<1>8. ASSUME NEW d \in Decision, NEW l \in Login, Give(d, l) PROVE Recorded'
  BY <1>8 DEF Give, Recorded, Chosen, TypeOK, agentVars, clockVars
<1>9. ASSUME NEW d \in Decision, NEW r \in Req, NEW k \in {"approve", "deny"}, Decide(d, r, k)
      PROVE  Recorded'
  BY <1>9 DEF Decide, Recorded, Chosen, TypeOK, agentVars, clockVars
<1>. QED
  BY <1>1, <1>2, <1>3, <1>4, <1>5, <1>6, <1>7, <1>8, <1>9, Steps

\* A request keeps its first answer, and that answer is its own or a grant.
LEMMA AnswersStep ==
    TypeOK /\ Chosen /\ Recorded /\ Answers /\ Posted /\ [Next]_vars => Answers'
<1> SUFFICES ASSUME TypeOK, Chosen, Recorded, Answers, Posted, [Next]_vars PROVE Answers'
  OBVIOUS
<1>0. None \notin Req \cup Login
  BY EarnAssumption
<1>1. CASE Quiet
  BY <1>1 DEF Quiet, Answers
<1>2. ASSUME NEW c \in Ask, NEW r \in Req, Insert(c, r) PROVE Answers'
  <2>1. ask[c].login \in Login
    BY <1>2 DEF Insert, Posted
  <2>2. UNCHANGED <<answeredBy, queue, at, kind, req, to>>
        /\ status'[r] = "pending" /\ whose'[r] \in Login
        /\ \A q \in Req \ {r} : status'[q] = status[q] /\ whose'[q] = whose[q]
    BY <1>2, <2>1 DEF Insert, TypeOK, decVars
  <2>. QED
    BY <2>2 DEF Answers, PersonsLogins
<1>3. ASSUME NEW d \in Decision, Credit(d) PROVE Answers'
  BY <1>3 DEF Credit, Answers, TypeOK, dbVars
<1>4. ASSUME NEW d \in Decision, Queue(d) PROVE Answers'
  BY <1>4 DEF Queue, Answers, TypeOK, dbVars
<1>5. ASSUME NEW d \in Decision, Settle(d) PROVE Answers'
  <2>1. at[d] = "settle" /\ kind[d] # "deny" /\ queue[d] # "none"
    BY <1>5 DEF Settle, Chosen, Recorded
  <2>2. UNCHANGED <<whose, queue, kind, req, to>> /\ at'[d] = "done"
        /\ \A e \in Decision \ {d} : at'[e] = at[e]
    BY <1>5 DEF Settle, TypeOK
  <2>3. ASSUME NEW r \in Req PROVE Answers!(r)'
    <3>1. CASE status[r] = "pending" /\ whose[r] \in PersonsLogins(to[d])
      <4>1. req[d] # r
        BY <1>0, <3>1 DEF Chosen
      <4>2. status'[r] = "approved" /\ answeredBy'[r] = d
        BY <1>5, <3>1 DEF Settle
      <4>. QED
        BY <2>1, <2>2, <3>1, <4>1, <4>2 DEF Answers, PersonsLogins
    <3>2. CASE ~(status[r] = "pending" /\ whose[r] \in PersonsLogins(to[d]))
      <4>1. status'[r] = status[r] /\ answeredBy'[r] = answeredBy[r]
        BY <1>5, <3>2 DEF Settle
      <4>2. status[r] \in {"approved", "denied"} => at'[answeredBy[r]] # "new"
        BY <2>2 DEF Answers
      <4>. QED
        BY <2>2, <4>1, <4>2 DEF Answers, PersonsLogins
    <3>. QED
      BY <3>1, <3>2
  <2>. QED
    BY <2>3 DEF Answers
<1>6. ASSUME NEW d \in Decision, Fail(d) PROVE Answers'
  BY <1>6 DEF Fail, Answers, TypeOK, dbVars
<1>7. ASSUME NEW d \in Decision, NEW acked \in BOOLEAN, Deliver(d, acked) PROVE Answers'
  BY <1>7 DEF Deliver, Answers, TypeOK, dbVars, decVars
<1>8. ASSUME NEW d \in Decision, NEW l \in Login, Give(d, l) PROVE Answers'
  BY <1>8 DEF Give, Answers, TypeOK, dbVars
<1>9. ASSUME NEW d \in Decision, NEW r \in Req, NEW k \in {"approve", "deny"}, Decide(d, r, k)
      PROVE  Answers'
  <2>1. UNCHANGED <<whose, queue>> /\ at[d] = "new" /\ status[r] = "pending"
    BY <1>9 DEF Decide
  <2>2. at'[d] # "new" /\ req'[d] = r /\ to'[d] = whose[r]
        /\ \A e \in Decision \ {d} :
               at'[e] = at[e] /\ req'[e] = req[e] /\ to'[e] = to[e] /\ kind'[e] = kind[e]
    BY <1>9 DEF Decide, TypeOK
  <2>3. status'[r] \in {"approved", "denied"} /\ answeredBy'[r] = d
        /\ \A q \in Req \ {r} : status'[q] = status[q] /\ answeredBy'[q] = answeredBy[q]
    BY <1>9 DEF Decide, TypeOK
  <2>4. Answers!(r)'
    BY <2>1, <2>2, <2>3 DEF Answers
  <2>5. ASSUME NEW q \in Req \ {r} PROVE Answers!(q)'
    <3>1. status[q] \in {"approved", "denied"} => answeredBy[q] \in Decision \ {d}
      BY <2>1 DEF Answers
    <3>2. status'[q] = status[q] /\ answeredBy'[q] = answeredBy[q] /\ whose'[q] = whose[q]
      BY <2>1, <2>3
    <3>3. CASE status[q] \in {"approved", "denied"}
      <4> PICK e \in Decision \ {d} : e = answeredBy[q]
        BY <3>1, <3>3
      <4>1. UNCHANGED <<at[e], req[e], to[e], kind[e], queue[e]>>
        BY <2>1, <2>2
      <4>. QED
        BY <3>2, <4>1 DEF Answers, PersonsLogins
    <3>4. CASE status[q] \notin {"approved", "denied"}
      BY <3>2, <3>4 DEF Answers
    <3>. QED
      BY <3>3, <3>4
  <2>. QED
    BY <2>4, <2>5 DEF Answers
<1>. QED
  BY <1>1, <1>2, <1>3, <1>4, <1>5, <1>6, <1>7, <1>8, <1>9, Steps

(***************************************************************************)
(* What a waiting computer waits for.                                      *)
(***************************************************************************)

\* An agent posts one ask at a time, and it is its own.
LEMMA PostedStep == TypeOK /\ Chosen /\ Posted /\ [Next]_vars => Posted'
<1> SUFFICES ASSUME TypeOK, Chosen, Posted, [Next]_vars PROVE Posted'
  OBVIOUS
<1>0. /\ local \in Nat /\ 0 <= local /\ None \notin Ask
      /\ requested \in [Login -> Nat] /\ \A c \in Ask : ask[c] \in Call /\ ask[c].day \in Nat
  <2>1. \A c \in Ask : ask[c] \in Call
    BY DEF TypeOK
  <2>. QED
    BY <2>1, EarnAssumption DEF TypeOK, Call, Day
<1>1. ASSUME NEW c \in Ask, NEW l \in Login, AskAtComputer(l, c) PROVE Posted'
  BY <1>0, <1>1 DEF AskAtComputer, Posted, TypeOK, clockVars
<1>2. ASSUME NEW c \in Ask, NEW l \in Login, AskOnPage(l, c) PROVE Posted'
  BY <1>0, <1>2 DEF AskOnPage, Posted, TypeOK, agentVars, clockVars
<1>3. ASSUME NEW c \in Ask, Look(c) PROVE Posted'
  <2>1. UNCHANGED <<requested, posting, local>>
    BY <1>3 DEF Look, agentVars, clockVars
  <2>2. ask'[c].login = ask[c].login /\ ask'[c].page = ask[c].page
        /\ ask'[c].day = ask[c].day /\ ask'[c].at \in {"insert", "reply"}
        /\ \A b \in Ask \ {c} : ask'[b] = ask[b]
    BY <1>0, <1>3 DEF Look, TypeOK, Call
  <2>3. ask[c].at = "look"
    BY <1>3 DEF Look
  <2>4. \A l \in Login : posting[l] # None => posting[l] \in Ask
    BY DEF TypeOK
  <2>. QED
    BY <2>1, <2>2, <2>3, <2>4 DEF Posted
<1>4. ASSUME NEW c \in Ask, NEW r \in Req, Insert(c, r) PROVE Posted'
  <2>1. UNCHANGED <<requested, posting, local>>
    BY <1>4 DEF Insert, agentVars, clockVars
  <2>2. ask'[c].login = ask[c].login /\ ask'[c].page = ask[c].page
        /\ ask'[c].day = ask[c].day /\ ask'[c].at = "reply"
        /\ \A b \in Ask \ {c} : ask'[b] = ask[b]
    BY <1>0, <1>4 DEF Insert, TypeOK, Call
  <2>3. ask[c].at = "insert"
    BY <1>4 DEF Insert
  <2>4. \A l \in Login : posting[l] # None => posting[l] \in Ask
    BY DEF TypeOK
  <2>. QED
    BY <2>1, <2>2, <2>3, <2>4 DEF Posted
<1>5. ASSUME NEW c \in Ask, Reply(c) PROVE Posted'
  <2>1. local' = local /\ ask[c].at = "reply" /\ ask[c].login \in Login
    BY <1>5 DEF Reply, Posted, clockVars
  <2>2. ask'[c] = Answered /\ \A b \in Ask \ {c} : ask'[b] = ask[b]
    BY <1>5 DEF Reply, TypeOK
  <2>3. Answered.at = "done" /\ Answered.day = 0
    BY DEF Answered, NoCall
  <2>4. \A l \in Login : posting'[l] \in {posting[l], None} /\ posting'[l] # c
    <3>1. CASE ~ask[c].page /\ posting[ask[c].login] = c
      <4>1. posting' = [posting EXCEPT ![ask[c].login] = None]
        BY <1>5, <3>1 DEF Reply
      <4>. QED
        BY <1>0, <2>1, <4>1 DEF TypeOK, Posted
    <3>2. CASE ~(~ask[c].page /\ posting[ask[c].login] = c)
      <4>1. posting' = posting
        BY <1>5, <3>2 DEF Reply
      <4>. QED
        BY <1>0, <3>2, <4>1 DEF Posted
    <3>. QED
      BY <3>1, <3>2
  <2>5. \A l \in Login : requested'[l] <= local
    <3>1. requested' = requested \/ requested' = [requested EXCEPT ![ask[c].login] = ask[c].day]
      BY <1>5 DEF Reply
    <3>. QED
      BY <3>1 DEF Posted, TypeOK
  <2>6. \A l \in Login : posting[l] # None => posting[l] \in Ask
    BY DEF TypeOK
  <2>. QED
    BY <1>0, <2>1, <2>2, <2>3, <2>4, <2>5, <2>6 DEF Posted
<1>6. ASSUME NEW l \in Login, GiveUp(l) \/ RestartAgent(l) PROVE Posted'
  <2>1. UNCHANGED <<ask, local>>
    BY <1>6 DEF GiveUp, RestartAgent, clockVars
  <2>2. \A k \in Login : requested'[k] \in {requested[k], 0} /\ posting'[k] \in {posting[k], None}
    BY <1>6 DEF GiveUp, RestartAgent, TypeOK
  <2>. QED
    BY <1>0, <2>1, <2>2 DEF Posted
<1>7. ASSUME NEW d \in Decision, NEW acked \in BOOLEAN, Deliver(d, acked) PROVE Posted'
  <2>1. UNCHANGED <<ask, posting, local>>
    BY <1>7 DEF Deliver, clockVars
  <2>2. requested' = requested \/ requested' = [requested EXCEPT ![to[d]] = 0]
    BY <1>7 DEF Deliver, HandleDenyEarn, HandleCreditTime
  <2>3. \A k \in Login : requested'[k] \in {requested[k], 0}
    BY <2>2 DEF TypeOK
  <2>. QED
    BY <1>0, <2>1, <2>3 DEF Posted
<1>8. CASE UNCHANGED <<ask, requested, posting>> /\ local' \in Nat /\ local <= local'
  BY <1>0, <1>8 DEF Posted
<1>9. ASSUME NEW d \in Decision,
             \/ Credit(d) \/ Queue(d) \/ Settle(d) \/ Fail(d)
             \/ \E l \in Login : Give(d, l)
             \/ \E r \in Req, k \in {"approve", "deny"} : Decide(d, r, k)
      PROVE  Posted'
  BY <1>0, <1>8, <1>9 DEF Credit, Queue, Settle, Fail, Give, Decide, agentVars, clockVars
<1>10. CASE Midnight \/ ServerMidnight \/ UNCHANGED vars
  BY <1>0, <1>8, <1>10 DEF Midnight, ServerMidnight, vars, agentVars, clockVars
<1>. QED
  BY <1>1, <1>2, <1>3, <1>4, <1>5, <1>6, <1>7, <1>9, <1>10 DEF Next

\* A command that makes the agent forget its cached ask.
Clears(d) == kind[d] = "deny" \/ ~(day[d] < local \/ d \in CountedAt(to[d]))

\* What a computer waits for does not go away on the day, until a command
\* that clears the cached ask reaches it.
LEMMA HeardKept ==
    ASSUME TypeOK, Chosen, Recorded, Answers, [Next]_vars, local' = local,
           NEW l \in Login, Heard(l),
           \A d \in Decision, acked \in BOOLEAN : Deliver(d, acked) /\ to[d] = l => ~Clears(d)
    PROVE  Heard(l)'
<1>1. CASE Quiet
  BY <1>1 DEF Quiet, Heard, Pending, Fresh, Stopped, Settled, CountedAt
<1>2. ASSUME NEW c \in Ask, NEW r \in Req, Insert(c, r) PROVE Heard(l)'
  <2>1. UNCHANGED <<answeredBy, queue, at, kind, req, to, day, counted>> /\ status[r] = "none"
        /\ \A q \in Req \ {r} : status'[q] = status[q] /\ whose'[q] = whose[q]
    BY <1>2 DEF Insert, TypeOK, decVars, agentVars
  <2>2. Fresh(l) => Fresh(l)'
    BY <2>1 DEF Fresh, CountedAt
  <2>3. Stopped(l) => Stopped(l)'
    BY <2>1 DEF Stopped
  <2>4. Pending(l) => Pending(l)'
    BY <2>1 DEF Pending
  <2>5. Settled(l) => Settled(l)'
    BY <2>1 DEF Settled
  <2>. QED
    BY <2>2, <2>3, <2>4, <2>5 DEF Heard
<1>3. ASSUME NEW d \in Decision, Credit(d) PROVE Heard(l)'
  <2>1. UNCHANGED <<status, whose, answeredBy, queue, kind, req, to, counted>>
    BY <1>3 DEF Credit, dbVars, agentVars
  <2>2. at[d] = "credit" /\ at'[d] = "queue" /\ day'[d] = local
        /\ \A e \in Decision \ {d} : at'[e] = at[e] /\ day'[e] = day[e]
    BY <1>3 DEF Credit, TypeOK
  <2>3. d \notin CountedAt(to[d])
    BY <1>3 DEF Credit, Chosen, Recorded, CountedAt
  <2>4. Fresh(l) => Fresh(l)'
    <3> SUFFICES ASSUME Fresh(l) PROVE Fresh(l)'
      OBVIOUS
    <3> PICK e \in Decision : Fresh(l)!(e)
      BY DEF Fresh
    <3>1. CASE e = d
      BY <2>1, <2>2, <2>3, <3>1 DEF Fresh, CountedAt
    <3>2. CASE e # d
      BY <2>1, <2>2, <3>2 DEF Fresh, CountedAt
    <3>. QED
      BY <3>1, <3>2
  <2>5. Stopped(l) => Stopped(l)'
    BY <2>1, <2>2 DEF Stopped
  <2>. QED
    BY <2>1, <2>4, <2>5 DEF Heard, Pending, Settled
<1>4. ASSUME NEW d \in Decision, Queue(d) PROVE Heard(l)'
  <2>1. UNCHANGED <<status, whose, answeredBy, kind, req, to, day, counted>>
    BY <1>4 DEF Queue, dbVars, agentVars
  <2>2. at[d] = "queue" /\ queue'[d] = "open" /\ \A e \in Decision \ {d} : at'[e] = at[e] /\ queue'[e] = queue[e]
    BY <1>4 DEF Queue, TypeOK
  <2>3. Fresh(l) => Fresh(l)'
    BY <2>1, <2>2 DEF Fresh, CountedAt
  <2>4. Stopped(l) => Stopped(l)'
    BY <2>1, <2>2 DEF Stopped
  <2>. QED
    BY <2>1, <2>3, <2>4 DEF Heard, Pending, Settled
<1>5. ASSUME NEW d \in Decision, Settle(d) PROVE Heard(l)'
  <2>1. UNCHANGED <<whose, queue, kind, req, to, day, counted>>
        /\ at[d] = "settle" /\ \A e \in Decision \ {d} : at'[e] = at[e]
    BY <1>5 DEF Settle, TypeOK, agentVars
  <2>2. \A r \in Req : \/ status'[r] = status[r] /\ answeredBy'[r] = answeredBy[r]
                       \/ status[r] = "pending" /\ status'[r] = "approved" /\ answeredBy'[r] = d
    BY <1>5 DEF Settle
  <2>3. \A r \in Req : status[r] = "pending" => req[d] # r
    BY EarnAssumption DEF Chosen
  <2>4. Fresh(l) => Fresh(l)'
    BY <2>1 DEF Fresh, CountedAt
  <2>5. Stopped(l) => Stopped(l)'
    BY <2>1 DEF Stopped
  <2>6. Pending(l) => Pending(l)' \/ Settled(l)'
    BY <2>1, <2>2, <2>3 DEF Pending, Settled
  <2>7. Settled(l) => Settled(l)'
    BY <2>1, <2>2 DEF Settled
  <2>. QED
    BY <2>4, <2>5, <2>6, <2>7 DEF Heard
<1>6. ASSUME NEW d \in Decision, Fail(d) PROVE Heard(l)'
  <2>1. UNCHANGED <<status, whose, answeredBy, queue, kind, req, to, day, counted>>
    BY <1>6 DEF Fail, dbVars, agentVars
  <2>2. at'[d] = "failed" /\ \A e \in Decision \ {d} : at'[e] = at[e]
    BY <1>6 DEF Fail, TypeOK
  <2>3. Fresh(l) => Fresh(l)' \/ Stopped(l)'
    BY <2>1, <2>2 DEF Fresh, Stopped, CountedAt
  <2>4. Stopped(l) => Stopped(l)'
    BY <2>1, <2>2 DEF Stopped
  <2>. QED
    BY <2>1, <2>3, <2>4 DEF Heard, Pending, Settled
<1>7. ASSUME NEW d \in Decision, NEW acked \in BOOLEAN, Deliver(d, acked) PROVE Heard(l)'
  <2>1. UNCHANGED <<status, whose, answeredBy, at, kind, req, to, day>>
        /\ \A e \in Decision \ {d} : queue'[e] = queue[e]
    BY <1>7 DEF Deliver, TypeOK, dbVars, decVars
  <2>2. Fresh(l) => Fresh(l)'
    <3> SUFFICES ASSUME Fresh(l) PROVE Fresh(l)'
      OBVIOUS
    <3> PICK e \in Decision : Fresh(l)!(e)
      BY DEF Fresh
    <3>1. CASE at[e] = "credit"
      BY <2>1, <3>1 DEF Fresh
    <3>2. CASE at[e] # "credit"
      <4>1. CountedAt(l)' = CountedAt(l)
        <5>1. CASE to[d] = l
          <6>1. ~Clears(d)
            BY <1>7, <5>1
          <6>2. counted' = counted
            BY <1>7, <6>1 DEF Clears, Deliver, HandleCreditTime
          <6>. QED
            BY <6>2 DEF CountedAt
        <5>2. CASE to[d] # l
          <6>1. \/ counted' = counted
                \/ counted' = [counted EXCEPT ![to[d]][local] = @ \cup {d}]
            BY <1>7 DEF Deliver, HandleDenyEarn, HandleCreditTime
          <6>2. counted'[l] = counted[l]
            BY <5>2, <6>1 DEF TypeOK
          <6>. QED
            BY <6>2 DEF CountedAt
        <5>. QED
          BY <5>1, <5>2
      <4>2. kind[e] # "deny" => day[e] = local /\ e \notin CountedAt(l)
        BY <3>2
      <4>3. e # d
        <5>1. SUFFICES ASSUME e = d PROVE FALSE
          OBVIOUS
        <5>2. to[d] = l /\ local \in Nat
          BY <5>1 DEF TypeOK, Day
        <5>3. ~Clears(d)
          BY <1>7, <5>2
        <5>. QED
          BY <4>2, <5>1, <5>2, <5>3 DEF Clears
      <4>. QED
        BY <2>1, <3>2, <4>1, <4>2, <4>3 DEF Fresh
    <3>. QED
      BY <3>1, <3>2
  <2>. QED
    BY <2>1, <2>2 DEF Heard, Pending, Stopped, Settled
<1>8. ASSUME NEW d \in Decision, NEW k \in Login, Give(d, k) PROVE Heard(l)'
  <2>1. UNCHANGED <<status, whose, answeredBy, queue, req, day, counted>> /\ at[d] = "new"
        /\ \A e \in Decision \ {d} : at'[e] = at[e] /\ to'[e] = to[e] /\ kind'[e] = kind[e]
    BY <1>8 DEF Give, TypeOK, dbVars, agentVars
  <2>2. to[d] \notin Login
    BY <2>1, EarnAssumption DEF Chosen
  <2>3. Fresh(l) => Fresh(l)'
    BY <2>1, <2>2 DEF Fresh, CountedAt
  <2>4. Stopped(l) => Stopped(l)'
    BY <2>1, <2>2 DEF Stopped
  <2>. QED
    BY <2>1, <2>3, <2>4 DEF Heard, Pending, Settled
<1>9. ASSUME NEW d \in Decision, NEW r \in Req, NEW k \in {"approve", "deny"}, Decide(d, r, k)
      PROVE  Heard(l)'
  <2>1. /\ UNCHANGED <<whose, queue, day, counted>> /\ at[d] = "new" /\ status[r] = "pending"
        /\ \A e \in Decision \ {d} :
               at'[e] = at[e] /\ to'[e] = to[e] /\ kind'[e] = kind[e] /\ req'[e] = req[e]
        /\ \A q \in Req \ {r} : status'[q] = status[q] /\ answeredBy'[q] = answeredBy[q]
    BY <1>9 DEF Decide, TypeOK, agentVars
  <2>2. to[d] \notin Login
    BY <2>1, EarnAssumption DEF Chosen
  <2>3. Fresh(l) => Fresh(l)'
    BY <2>1, <2>2 DEF Fresh, CountedAt
  <2>4. Stopped(l) => Stopped(l)'
    BY <2>1, <2>2 DEF Stopped
  <2>5. Pending(l) => Pending(l)' \/ Fresh(l)'
    <3>1. CASE whose[r] = l
      <4>1. to'[d] = l /\ (at'[d] = "credit" \/ (at'[d] = "queue" /\ kind'[d] = "deny"))
        BY <1>9, <3>1 DEF Decide, TypeOK
      <4>. QED
        BY <4>1 DEF Fresh
    <3>2. CASE whose[r] # l
      <4>1. ASSUME NEW q \in Req, status[q] = "pending", whose[q] = l
            PROVE  status'[q] = "pending" /\ whose'[q] = l
        <5>1. q \in Req \ {r}
          BY <3>2, <4>1
        <5>2. status'[q] = status[q]
          BY <2>1, <5>1
        <5>. QED
          BY <2>1, <4>1, <5>2
      <4>. QED
        BY <4>1 DEF Pending
    <3>. QED
      BY <3>1, <3>2
  <2>6. Settled(l) => Settled(l)'
    BY <2>1 DEF Settled, Answers
  <2>. QED
    BY <2>3, <2>4, <2>5, <2>6 DEF Heard
<1>. QED
  BY <1>1, <1>2, <1>3, <1>4, <1>5, <1>6, <1>7, <1>8, <1>9, Steps

\* A computer that says it waits, or is about to, has something to wait for.
LEMMA AwaitedStep ==
    TypeOK /\ Chosen /\ Recorded /\ Answers /\ Posted /\ Awaited /\ [Next]_vars => Awaited'
<1> SUFFICES ASSUME TypeOK, Chosen, Recorded, Answers, Posted, Awaited, [Next]_vars,
                    NEW l \in Login
             PROVE  Awaited!(l)'
  BY DEF Awaited
<1> DEFINE AboutTo == /\ posting[l] # None
                      /\ ask[posting[l]].at = "reply" /\ ask[posting[l]].day = local
<1>0. /\ local \in Nat /\ local >= 1 /\ None \notin Ask
      /\ requested[l] \in Nat /\ posting[l] \in Ask \cup {None}
      /\ \A c \in Ask : ask[c] \in Call /\ ask[c].day \in Nat
  <2>1. \A c \in Ask : ask[c] \in Call
    BY DEF TypeOK
  <2>. QED
    BY <2>1, EarnAssumption DEF TypeOK, Call, Day
\* The date has changed: what is cached or asked is of yesterday.
<1>1. CASE Midnight
  <2>1. local' = local + 1 /\ UNCHANGED <<requested, posting, ask>>
    BY <1>1 DEF Midnight, agentVars
  <2>2. requested[l] <= local /\ (posting[l] # None => ask[posting[l]].day <= local)
    BY <1>0 DEF Posted
  <2>3. requested'[l] # local' /\ (posting'[l] # None => ask'[posting'[l]].day # local')
    BY <1>0, <2>1, <2>2
  <2>. QED
    BY <2>3 DEF Waiting
\* A command that clears the cache came, and no ask was out.
<1>2. ASSUME NEW d \in Decision, NEW acked \in BOOLEAN, Deliver(d, acked), to[d] = l, Clears(d)
      PROVE  Awaited!(l)'
  <2>1. requested' = [requested EXCEPT ![l] = 0] /\ posting'[l] = None /\ local' = local
    BY <1>2 DEF Deliver, HandleDenyEarn, HandleCreditTime, Clears, clockVars
  <2>2. requested'[l] # local'
    BY <1>0, <2>1 DEF TypeOK
  <2>. QED
    BY <2>1, <2>2 DEF Waiting
\* Any other step: what the computer waits for is still there after it.
<1>3. ASSUME ~Midnight,
             \A d \in Decision, acked \in BOOLEAN :
                 Deliver(d, acked) /\ to[d] = l => ~Clears(d)
      PROVE  Awaited!(l)'
  <2>1. local' = local
    BY <1>3 DEF Next, vars, clockVars, Look, Reply, Insert, AskAtComputer, AskOnPage, Credit,
                Queue, Settle, Fail, Deliver, Give, Decide, GiveUp, RestartAgent, ServerMidnight
  <2>2. Heard(l) => Heard(l)'
    BY <1>3, <2>1, HeardKept
  <2>3. Waiting(l) \/ AboutTo => Heard(l)'
    BY <2>2 DEF Awaited
  <2>4. CASE requested'[l] = requested[l] /\ posting'[l] \in {posting[l], None}
             /\ (posting[l] # None => ask'[posting[l]] = ask[posting[l]])
    BY <2>1, <2>3, <2>4 DEF Waiting
  <2>5. ASSUME NEW c \in Ask, NEW k \in Login, AskAtComputer(k, c) PROVE Awaited!(l)'
    <3>1. requested' = requested /\ ask'[c].at = "look"
          /\ (posting'[l] = c \/ posting'[l] = posting[l])
          /\ \A b \in Ask \ {c} : ask'[b] = ask[b]
      BY <2>5 DEF AskAtComputer, TypeOK
    <3>. QED
      BY <1>0, <2>1, <2>3, <3>1 DEF Waiting
  <2>6. ASSUME NEW c \in Ask, NEW k \in Login, AskOnPage(k, c) PROVE Awaited!(l)'
    <3>1. UNCHANGED <<requested, posting>> /\ ask[c].at = "new"
          /\ \A b \in Ask \ {c} : ask'[b] = ask[b]
      BY <2>6 DEF AskOnPage, TypeOK, agentVars
    <3>2. posting[l] # c
      BY <1>0, <3>1 DEF Posted
    <3>. QED
      BY <1>0, <2>4, <3>1, <3>2
  <2>7. ASSUME NEW c \in Ask, Look(c) PROVE Awaited!(l)'
    <3>1. UNCHANGED <<requested, posting, status, whose>> /\ \A b \in Ask \ {c} : ask'[b] = ask[b]
      BY <2>7 DEF Look, TypeOK, agentVars, dbVars
    <3>2. CASE posting[l] # c
      BY <1>0, <2>4, <3>1, <3>2
    <3>3. CASE posting[l] = c
      <4>1. ask[c].login = l
        BY <1>0, <3>3 DEF Posted
      <4>2. ask'[c].at = "reply" => Pending(l)'
        <5>1. ask'[c].at = IF OpenToday(l) = {} THEN "insert" ELSE "reply"
          BY <1>0, <2>7, <4>1 DEF Look, TypeOK, Call
        <5>2. OpenToday(l) # {} => Pending(l)
          BY DEF OpenToday, Pending
        <5>. QED
          BY <3>1, <5>1, <5>2 DEF Pending
      <4>. QED
        BY <2>1, <2>3, <3>1, <3>3, <4>2 DEF Waiting, Heard
    <3>. QED
      BY <3>2, <3>3
  <2>8. ASSUME NEW c \in Ask, NEW r \in Req, Insert(c, r) PROVE Awaited!(l)'
    <3>1. UNCHANGED <<requested, posting>> /\ \A b \in Ask \ {c} : ask'[b] = ask[b]
      BY <2>8 DEF Insert, TypeOK, agentVars
    <3>2. CASE posting[l] # c
      BY <1>0, <2>4, <3>1, <3>2
    <3>3. CASE posting[l] = c
      <4>1. ask[c].login = l
        BY <1>0, <3>3 DEF Posted
      <4>2. Pending(l)'
        BY <2>8, <4>1 DEF Insert, Pending, TypeOK
      <4>. QED
        BY <4>2 DEF Heard
    <3>. QED
      BY <3>2, <3>3
  <2>9. ASSUME NEW c \in Ask, Reply(c) PROVE Awaited!(l)'
    <3>1. \A b \in Ask \ {c} : ask'[b] = ask[b]
      BY <2>9 DEF Reply, TypeOK
    <3>2. ask[c].at = "reply"
      BY <2>9 DEF Reply
    <3>3. CASE posting[l] = c
      <4>1. ask[c].login = l /\ ~ask[c].page
        BY <1>0, <3>3 DEF Posted
      <4>2. requested' = [requested EXCEPT ![l] = ask[c].day] /\ posting' = [posting EXCEPT ![l] = None]
        BY <2>9, <3>3, <4>1 DEF Reply
      <4>3. requested'[l] = ask[c].day /\ posting'[l] = None
        BY <4>2 DEF TypeOK
      <4>4. ask[c].day = local => Heard(l)'
        BY <1>0, <2>3, <3>2, <3>3
      <4>. QED
        BY <2>1, <4>3, <4>4 DEF Waiting
    <3>4. CASE posting[l] # c
      <4>1. requested'[l] = requested[l] /\ posting'[l] = posting[l]
        <5>1. CASE ~ask[c].page /\ posting[ask[c].login] = c
          <6>1. ask[c].login # l
            BY <3>4, <5>1
          <6>. QED
            BY <2>9, <5>1, <6>1 DEF Reply, TypeOK
        <5>2. CASE ~(~ask[c].page /\ posting[ask[c].login] = c)
          BY <2>9, <5>2 DEF Reply
        <5>. QED
          BY <5>1, <5>2
      <4>. QED
        BY <1>0, <2>4, <3>1, <3>4, <4>1
    <3>. QED
      BY <3>3, <3>4
  <2>10. ASSUME NEW k \in Login, GiveUp(k) \/ RestartAgent(k) PROVE Awaited!(l)'
    <3>1. ask' = ask /\ posting'[l] \in {posting[l], None} /\ requested'[l] \in {requested[l], 0}
      BY <2>10 DEF GiveUp, RestartAgent, TypeOK
    <3>. QED
      BY <1>0, <2>1, <2>3, <3>1 DEF Waiting
  <2>11. ASSUME NEW d \in Decision, NEW acked \in BOOLEAN, Deliver(d, acked) PROVE Awaited!(l)'
    <3>1. UNCHANGED <<ask, posting>>
      BY <2>11 DEF Deliver
    <3>2. requested' = requested \/ requested' = [requested EXCEPT ![to[d]] = 0]
      BY <2>11 DEF Deliver, HandleDenyEarn, HandleCreditTime
    <3>3. requested'[l] \in {requested[l], 0}
      BY <3>2 DEF TypeOK
    <3>. QED
      BY <1>0, <2>1, <2>3, <3>1, <3>3 DEF Waiting
  <2>12. CASE UNCHANGED <<requested, posting, ask>>
    BY <2>4, <2>12
  <2>13. ASSUME NEW d \in Decision,
               \/ Credit(d) \/ Queue(d) \/ Settle(d) \/ Fail(d)
               \/ \E k \in Login : Give(d, k)
               \/ \E r \in Req, k \in {"approve", "deny"} : Decide(d, r, k)
        PROVE  Awaited!(l)'
    BY <2>12, <2>13 DEF Credit, Queue, Settle, Fail, Give, Decide, agentVars
  <2>14. CASE ServerMidnight \/ UNCHANGED vars
    BY <2>12, <2>14 DEF ServerMidnight, vars, agentVars
  <2>. QED
    BY <1>3, <2>5, <2>6, <2>7, <2>8, <2>9, <2>10, <2>11, <2>13, <2>14 DEF Next
<1>. QED
  BY <1>1, <1>2, <1>3

(***************************************************************************)
(* The theorems.                                                           *)
(***************************************************************************)

\* Initially nobody has asked.
LEMMA InvInit == Init => Inv
<1> SUFFICES ASSUME Init PROVE Inv
  OBVIOUS
<1>1. Chosen /\ Recorded /\ Answers
  BY DEF Init, Chosen, Recorded, Answers
<1>2. Posted /\ Awaited
  BY DEF Init, Posted, Awaited, Waiting, NoCall
<1>. QED
  BY <1>1, <1>2, TypeInit DEF Inv

\* Asks and answers keep the invariant.
LEMMA InvStep == Inv /\ [Next]_vars => Inv'
BY TypeStep, ChosenStep, RecordedStep, AnswersStep, PostedStep, AwaitedStep DEF Inv

\* Typed states, decisions, grants, answers and waiting computers are always
\* as Inv says (earn.rs and runner.rs, all the steps above).
THEOREM EarnInvariance == Spec => []Inv
<1>1. Init => Inv
  BY InvInit
<1>2. Inv /\ [Next]_vars => Inv'
  BY InvStep
<1>. QED
  BY <1>1, <1>2, PTL DEF Spec

\* Types are always right.
THEOREM EarnTypes == Spec => []TypeOK
<1>1. Inv => TypeOK
  BY DEF Inv
<1>. QED
  BY <1>1, EarnInvariance, PTL

\* Two parents deciding one request grant its minutes once, and a denied one
\* grants none (earn.rs, decide).
THEOREM GrantedOnce == Spec => []OneGrantPerRequest
<1>1. Inv => OneGrantPerRequest
  <2> SUFFICES ASSUME Inv, NEW d \in Decision, OnRecord(d), req[d] # None
               PROVE  /\ status[req[d]] = "approved"
                      /\ \A e \in Decision : OnRecord(e) /\ req[e] = req[d] => e = d
    BY DEF OneGrantPerRequest
  <2>1. at[d] # "new" /\ kind[d] # "deny"
    BY DEF Inv, Recorded, OnRecord
  <2>2. kind[d] = "approve"
    BY <2>1 DEF Inv, Chosen, TypeOK
  <2>3. \A e \in Decision : req[e] = req[d] => e = d
    BY DEF Inv, Chosen
  <2>. QED
    BY <2>2, <2>3 DEF Inv, Chosen
<1>. QED
  BY <1>1, EarnInvariance, PTL

\* A request answered along with another grant was answered by one to the
\* same person that is on record and queued (earn.rs, settle_pending_asks).
THEOREM SettledWithTime == Spec => []AnsweredWithTime
<1>1. Inv => AnsweredWithTime
  BY DEF Inv, AnsweredWithTime, Answers, Recorded
<1>. QED
  BY <1>1, EarnInvariance, PTL

\* No computer counts minutes that are not on the ledger of that day
\* (earn.rs, decide and credit_time; runner.rs, handle_command).
THEOREM CountedOnRecord == Spec => []CountedIsOnRecord
<1>1. Inv => CountedIsOnRecord
  BY DEF Inv, CountedIsOnRecord, Recorded, TypeOK
<1>. QED
  BY <1>1, EarnInvariance, PTL

\* A computer that says it waits for a parent does wait for one, or for an
\* answer on its way, unless a handler stopped half way or a grant to the
\* person was sent elsewhere (runner.rs, auto_request_earn, handle_command).
THEOREM AnswersAreHeard == Spec => []OwnAnswerIsHeard
<1>1. Inv => OwnAnswerIsHeard
  <2> SUFFICES ASSUME Inv, NEW l \in Login, Waiting(l)
               PROVE  \/ Pending(l) \/ Coming(l)
                      \/ \E d \in Decision : to[d] = l /\ at[d] = "failed"
                      \/ \E r \in Req : /\ whose[r] = l /\ status[r] = "approved"
                                          /\ req[answeredBy[r]] # r
    BY DEF OwnAnswerIsHeard
  <2>1. Heard(l)
    BY DEF Inv, Awaited
  <2>2. Fresh(l) => Coming(l)
    BY DEF Fresh, Coming
  <2>. QED
    BY <2>1, <2>2 DEF Heard, Stopped, Settled
<1>. QED
  BY <1>1, EarnInvariance, PTL

\* The first answer to a request stands (earn.rs, decide's guarded UPDATE and
\* settle_pending_asks).
THEOREM FirstAnswerStands == Spec => AnswerStands
<1>1. Inv /\ [Next]_vars =>
         [\A r \in Req : status[r] \in {"approved", "denied"} => status'[r] = status[r]]_vars
  <2> SUFFICES ASSUME Inv, [Next]_vars, NEW r \in Req, status[r] \in {"approved", "denied"}
               PROVE  status'[r] = status[r]
    OBVIOUS
  <2>0. TypeOK
    BY DEF Inv
  <2>1. CASE Quiet
    BY <2>1 DEF Quiet
  <2>2. ASSUME NEW c \in Ask, NEW q \in Req, Insert(c, q) PROVE status'[r] = status[r]
    BY <2>0, <2>2 DEF Insert, TypeOK
  <2>3. ASSUME NEW d \in Decision, Settle(d) PROVE status'[r] = status[r]
    BY <2>3 DEF Settle
  <2>4. ASSUME NEW d \in Decision, NEW q \in Req, NEW k \in {"approve", "deny"}, Decide(d, q, k)
        PROVE  status'[r] = status[r]
    BY <2>0, <2>4 DEF Decide, TypeOK
  <2>5. ASSUME NEW d \in Decision,
               \/ Credit(d) \/ Queue(d) \/ Fail(d)
               \/ \E acked \in BOOLEAN : Deliver(d, acked)
               \/ \E l \in Login : Give(d, l)
        PROVE  status'[r] = status[r]
    BY <2>5 DEF Credit, Queue, Fail, Deliver, Give, dbVars
  <2>. QED
    BY <2>0, <2>1, <2>2, <2>3, <2>4, <2>5, Steps
<1>. QED
  BY <1>1, EarnInvariance, PTL DEF Spec, AnswerStands
=============================================================================
