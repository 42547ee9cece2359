------------------------------ MODULE EventLog ------------------------------
(***************************************************************************)
(* One computer's events on their way to the family: the agent's buffer    *)
(* (client/src/runner.rs queue_events, flush_queued), the server's batch   *)
(* insert (server/src/agent.rs push_events, events.rs insert_from_agent)   *)
(* and the alert worker (server/src/alerts.rs drain_events).               *)
(*                                                                         *)
(* Events are numbered in the order they were made.  A post is a request   *)
(* that may be lost, be given up by the agent and still be carried out,    *)
(* or be answered; the server may restart at any point of it.              *)
(***************************************************************************)
EXTENDS Naturals, Sequences, FiniteSets, SequencesExt

CONSTANTS Events,      \* how many events are made (a bound)
          Invalid,     \* those the server refuses to store
          Critical,    \* those of severity critical
          BufferCap,   \* PENDING_EVENTS_CAP
          BatchMax,    \* EVENT_BATCH_MAX
          ServerMax,   \* the server's MAX_EVENTS
          AlertLimit,  \* rows one drain reads
          LogFaults    \* losses, give-ups and restarts (a bound)

Ids == 1..Events

ASSUME EventLogAssumption ==
  /\ Events \in Nat /\ Invalid \subseteq Ids /\ Critical \subseteq Ids
  /\ BufferCap \in Nat /\ BatchMax \in 1..ServerMax /\ ServerMax \in Nat
  /\ AlertLimit \in Nat \ {0} /\ LogFaults \in Nat

VARIABLES
  made,      \* events made so far
  pending,   \* Agent.pending_events
  posting,   \* the request flush_queued waits for, or 0
  batch,     \* the events taken out of the buffer for it
  requests,  \* each request: the events still to store, its transaction's start
  rows,      \* event -> the created_at of each row it has
  effects,   \* event -> how often its side effects were carried out
  discarded, \* dropped by the cap or with the agent's memory (history)
  tx,        \* the database's clock: transactions begun
  since,     \* the alert worker's high-water mark
  told,      \* event -> messages sent to the family's phones
  logFaults

logVars == <<made, pending, posting, batch, requests, rows, effects, discarded, tx, since,
             told, logFaults>>

Slots == {1, 2}
Ended == {"failed", "answered"}   \* the server is done with it
NoRequest == [evs |-> {}, at |-> 0, pc |-> "free"]

LogInit ==
  /\ made = 0 /\ pending = <<>> /\ posting = 0 /\ batch = <<>>
  /\ requests = [r \in Slots |-> NoRequest]
  /\ rows = [e \in Ids |-> {}] /\ effects = [e \in Ids |-> 0]
  /\ discarded = {} /\ tx = 0 /\ since = 0
  /\ told = [e \in Ids |-> 0] /\ logFaults = 0

-----------------------------------------------------------------------------
(* The agent *)

\* cap_pending_events: the oldest go.
Excess(q) == IF Len(q) > BufferCap THEN Len(q) - BufferCap ELSE 0
Capped(q) == SubSeq(q, Excess(q) + 1, Len(q))

Buffer(q) ==
  /\ pending' = Capped(q)
  /\ discarded' = discarded \cup ToSet(SubSeq(q, 1, Excess(q)))

MakeEvent ==
  /\ made < Events
  /\ made' = made + 1
  /\ Buffer(Append(pending, made + 1))
  /\ UNCHANGED <<posting, batch, requests, rows, effects, tx, since, told, logFaults>>

\* Slip: the whole buffer at once.
TakeAll(q) == q
Take(q) == SubSeq(q, 1, IF Len(q) > BatchMax THEN BatchMax ELSE Len(q))

\* flush_queued takes a batch out of the buffer and posts it, agent unlocked.
Flush ==
  /\ posting = 0 /\ pending # <<>>
  /\ batch' = Take(pending)
  /\ pending' = SubSeq(pending, Len(batch') + 1, Len(pending))
  /\ \E r \in Slots :
       /\ requests[r].pc = "free"
       /\ posting' = r
       /\ requests' = [requests EXCEPT ![r] = [evs |-> ToSet(batch'), at |-> 0, pc |-> "sent"]]
  /\ UNCHANGED <<made, rows, effects, discarded, tx, since, told, logFaults>>

\* The agent is done with its request; one that is still on its way, or being
\* carried out, goes on without it.
StopWaiting ==
  /\ posting' = 0 /\ batch' = <<>>
  /\ requests' = IF posting # 0 /\ requests[posting].pc \in Ended
                 THEN [requests EXCEPT ![posting] = NoRequest] ELSE requests

PostAnswered ==
  /\ posting # 0 /\ requests[posting].pc = "answered"
  /\ StopWaiting
  /\ UNCHANGED <<made, pending, rows, effects, discarded, tx, since, told, logFaults>>

\* A failed batch goes back to the front of the buffer.
PostFails ==
  /\ posting # 0 /\ requests[posting].pc # "answered"
  /\ IF requests[posting].pc \in Ended THEN UNCHANGED logFaults
     ELSE logFaults < LogFaults /\ logFaults' = logFaults + 1   \* a timeout
  /\ Buffer(batch \o pending)
  /\ StopWaiting
  /\ UNCHANGED <<made, rows, effects, tx, since, told>>

\* The buffer is memory: a restart loses it and the batch in flight.
AgentForgets ==
  /\ logFaults < LogFaults /\ logFaults' = logFaults + 1
  /\ pending' = <<>>
  /\ discarded' = discarded \cup ToSet(batch \o pending)
  /\ StopWaiting
  /\ UNCHANGED <<made, rows, effects, tx, since, told>>

-----------------------------------------------------------------------------
(* The server *)

\* Where a request is once the server is done with it.
AfterIt(r, pc) == [requests EXCEPT ![r] = IF posting = r THEN [@ EXCEPT !.pc = pc]
                                          ELSE NoRequest]

RequestLost(r) ==
  /\ requests[r].pc = "sent"
  /\ logFaults < LogFaults /\ logFaults' = logFaults + 1
  /\ requests' = AfterIt(r, "failed")
  /\ UNCHANGED <<made, pending, posting, batch, rows, effects, discarded, tx, since, told>>

\* push_events refuses an oversize batch, or begins its transaction.
BeginBatch(r) ==
  /\ requests[r].pc = "sent"
  /\ IF Cardinality(requests[r].evs) > ServerMax
     THEN requests' = AfterIt(r, "failed") /\ UNCHANGED tx
     ELSE /\ tx' = tx + 1
          /\ requests' = [requests EXCEPT ![r].pc = "open", ![r].at = tx + 1]
  /\ UNCHANGED <<made, pending, posting, batch, rows, effects, discarded, since, told, logFaults>>

\* Which of a batch's events are new: checked_event drops the invalid ones,
\* and ON CONFLICT (device_id, client_id) DO NOTHING.  Slip: no such index.
FreshAlways(evs) == evs \ Invalid
Fresh(evs) == {e \in evs \ Invalid : rows[e] = {}}

\* The inserts and the commit.  An insert of an id another open transaction
\* holds waits for that one, so a batch is one step, at its commit; created_at
\* is the transaction's start.
CommitBatch(r) ==
  LET new == Fresh(requests[r].evs)
  IN  /\ requests[r].pc = "open"
      /\ rows' = [e \in Ids |-> IF e \in new THEN rows[e] \cup {requests[r].at} ELSE rows[e]]
      /\ requests' = [requests EXCEPT ![r].pc = "committed", ![r].evs = new]
      /\ UNCHANGED <<made, pending, posting, batch, effects, discarded, tx, since, told, logFaults>>

\* After the commit, the side effects of the new ones: a spent recovery code,
\* a tested VPN profile.
SideEffects(r) ==
  /\ requests[r].pc = "committed"
  /\ effects' = [e \in Ids |-> effects[e] + (IF e \in requests[r].evs THEN 1 ELSE 0)]
  /\ requests' = AfterIt(r, "answered")
  /\ UNCHANGED <<made, pending, posting, batch, rows, discarded, tx, since, told, logFaults>>

\* The server stops: what it had not committed is gone, what it had committed
\* keeps its rows but not its side effects; alerts begin from now.
ServerRestarts ==
  /\ logFaults < LogFaults /\ logFaults' = logFaults + 1
  /\ requests' = [r \in Slots |-> IF posting = r THEN [NoRequest EXCEPT !.pc = "failed"]
                                 ELSE NoRequest]
  /\ since' = tx
  /\ UNCHANGED <<made, pending, posting, batch, rows, effects, discarded, tx, told>>

-----------------------------------------------------------------------------
(* The alert worker *)

StampOf(e) == CHOOSE at \in rows[e] : TRUE
Unheard == {e \in Critical : rows[e] # {} /\ StampOf(e) > since}

\* drain_events: the oldest AlertLimit rows past the mark, one message each;
\* the mark moves to the newest of them.
DrainAlerts ==
  /\ Unheard # {}
  /\ \E heard \in SUBSET Unheard :
       /\ Cardinality(heard) <= AlertLimit
       /\ Cardinality(heard) < AlertLimit => heard = Unheard
       /\ \A e \in heard, f \in Unheard \ heard : StampOf(e) <= StampOf(f)
       /\ told' = [e \in Ids |-> told[e] + (IF e \in heard THEN 1 ELSE 0)]
       /\ \E last \in heard : /\ \A e \in heard : StampOf(e) <= StampOf(last)
                             /\ since' = StampOf(last)
  /\ UNCHANGED <<made, pending, posting, batch, requests, rows, effects, discarded, tx, logFaults>>

LogNext ==
  \/ MakeEvent \/ Flush \/ PostAnswered \/ PostFails \/ AgentForgets
  \/ \E r \in Slots : \/ RequestLost(r) \/ BeginBatch(r)
                      \/ CommitBatch(r) \/ SideEffects(r)
  \/ ServerRestarts \/ DrainAlerts

\* The flush runs on every beat and a request ends, answered or timed out.
LogFair ==
  /\ WF_logVars(Flush) /\ WF_logVars(PostAnswered) /\ WF_logVars(PostFails)
  /\ \A r \in Slots : WF_logVars(BeginBatch(r) \/ CommitBatch(r) \/ SideEffects(r))

LogSpec == LogInit /\ [][LogNext]_logVars /\ LogFair

-----------------------------------------------------------------------------
(* Properties *)

\* A batch sent twice duplicates no row (insert_from_agent's comment).
RecordedOnce == \A e \in Ids : Cardinality(rows[e]) <= 1

\* Every event made is somewhere: buffered, being posted, on record, or lost
\* in a way the code accepts (the cap, the agent's memory, an invalid event).
NoneVanishes ==
  \A e \in 1..made : \/ rows[e] # {}
                    \/ e \in ToSet(batch \o pending) \cup discarded \cup Invalid

\* Nothing is buffered twice, and the buffer never outgrows its cap.
BufferSound ==
  /\ IsInjective(batch \o pending)
  /\ Len(pending) <= BufferCap

\* Side effects are for events on record, and a replayed batch repeats none.
EffectsOnce == \A e \in Ids : effects[e] <= Cardinality(rows[e])

\* No event is told twice, and none that is not on record.
ToldOnce == \A e \in Ids : told[e] <= Cardinality(rows[e])

\* What the log says is so, through lost requests, requests carried out after
\* the agent gave up on them, and restarts of either side (push_events:
\* "this must never half-apply").
LogHonest == RecordedOnce /\ NoneVanishes /\ BufferSound /\ EffectsOnce /\ ToldOnce

\* The buffer drains: finitely many faults never stall the device's events
\* (cap_pending_events: "a buffer past the server's cap could never drain").
EventsArrive == []<>(pending = <<>> /\ posting = 0)

\* alerts.rs:231 "New critical events since `since` -> one message each": a
\* recorded event is told or still due, unless the server restarted.
EachIsTold ==
  \A e \in Critical : rows[e] # {} /\ logFaults = 0 => told[e] = 1 \/ e \in Unheard

=============================================================================
