--------------------------- MODULE DeliveryProofs ---------------------------
(***************************************************************************)
(* What TLAPS proves of the two deliveries between a computer and the      *)
(* server, for any bounds: the rules on their way to the agent             *)
(* (PolicySync) and the events on their way to the family (EventLog).      *)
(***************************************************************************)
EXTENDS PolicySync, EventLog, SequenceTheorems, FiniteSetTheorems, TLAPS

(***************************************************************************)
(* The inductive invariant of the delivery of the rules.                   *)
(***************************************************************************)

Revision == [rev : Nat, ver : Nat]
CommandRow == [id : Nat, status : {"closed", "queued", "sent"}, late : BOOLEAN]
PullSteps == {"idle", "asked", "rules read", "answered", "failed"}
Pulls == [for : Nat, pc : PullSteps, rev : Nat, ver : Nat]

SyncTypes ==
  /\ rules \in Revision /\ held \in Revision
  /\ untold \in Nat /\ syncFaults \in Nat
  /\ row \in CommandRow
  /\ hub \in BOOLEAN /\ recheck \in BOOLEAN /\ excused \in BOOLEAN
  /\ link \in {"ws", "poll"}
  /\ frames \in Seq(Nat) /\ acks \in Seq(Nat)
  /\ pull \in Pulls

\* The commands on their way, in either direction.
InFrames(id) == \E i \in 1..Len(frames) : frames[i] = id
InAcks(id) == \E i \in 1..Len(acks) : acks[i] = id

\* What is on its way is a row that was made, and one that was handed over.
Numbered ==
  /\ \A i \in 1..Len(frames) : frames[i] \in 1..row.id
  /\ \A i \in 1..Len(acks) : acks[i] \in 1..row.id
  /\ pull.for \in 0..row.id
  /\ row.status \in Open => row.id > 0
  /\ row.status = "queued" => ~InFrames(row.id) /\ ~InAcks(row.id) /\ pull.for # row.id

\* The pull under way has read its rules, and it is for this row.
RulesRead == pull.pc \in {"rules read", "answered"}
ServedBy(id) == pull.for = id /\ pull.pc # "asked"

\* Revisions only ever grow on their way to the agent.
RevisionsGrow ==
  /\ held.rev <= rules.rev
  /\ RulesRead => held.rev <= pull.rev /\ pull.rev <= rules.rev

\* A command is still to be carried out: a frame on a live socket, or a pending
\* row that no pull has read the rules for.
StillToPull ==
  \/ link = "ws" /\ frames # <<>>
  \/ row.status \in Open /\ ~ServedBy(row.id) /\ ~InAcks(row.id)

\* Every edit was told, and none was let slip.
AllTold == ~excused /\ untold = 0

\* The pull under way brings the newest rules (or ends as a failed command).
PullBrings == pull.pc \in {"asked", "failed"} \/ (RulesRead /\ pull.rev = rules.rev)

\* A pull that read its rules too early is followed by another one.
LateReadsRepeat == AllTold /\ RulesRead /\ pull.rev # rules.rev => StillToPull

\* Rules out of date are about to be pulled.
StaleIsPulled == AllTold /\ Stale => StillToPull \/ PullBrings

\* The same where an ack is about to close the row: then the pull must be
\* for a command, whose failure is excused.
AckedIsPulled ==
  AllTold /\ Stale /\ row.status \in Open /\ InAcks(row.id) =>
    StillToPull \/ (pull.for # 0 /\ PullBrings)

SyncInv ==
  /\ SyncTypes /\ Numbered /\ RevisionsGrow
  /\ LateReadsRepeat /\ StaleIsPulled /\ AckedIsPulled

-----------------------------------------------------------------------------

\* The initial state satisfies the invariant.
LEMMA SyncInvInit == SyncInit => SyncInv
  <1> SUFFICES ASSUME SyncInit  PROVE SyncInv
    OBVIOUS
  <1>1. SyncTypes
    <2>1. rules \in Revision /\ held \in Revision
      BY DEF SyncInit, Revision
    <2>2. row \in CommandRow /\ pull \in Pulls
      BY DEF SyncInit, CommandRow, Pulls, PullSteps, NoPull
    <2>3. frames \in Seq(Nat) /\ acks \in Seq(Nat)
      BY DEF SyncInit
    <2>4. /\ untold \in Nat /\ syncFaults \in Nat /\ link \in {"ws", "poll"}
          /\ hub \in BOOLEAN /\ recheck \in BOOLEAN /\ excused \in BOOLEAN
      BY DEF SyncInit
    <2> QED  BY <2>1, <2>2, <2>3, <2>4 DEF SyncTypes
  <1>2. Numbered /\ RevisionsGrow
    BY DEF SyncInit, Numbered, InFrames, InAcks, Open, NoPull, RevisionsGrow, RulesRead
  <1>3. LateReadsRepeat /\ StaleIsPulled /\ AckedIsPulled
    BY DEF SyncInit, LateReadsRepeat, StaleIsPulled, AckedIsPulled, Stale, RulesRead, NoPull
  <1> QED  BY <1>1, <1>2, <1>3 DEF SyncInv

\* What the tail of a queue holds, and the queue with one more.
LEMMA TailHolds ==
  ASSUME NEW q \in Seq(Nat), q # <<>>
  PROVE  /\ Tail(q) \in Seq(Nat) /\ Head(q) \in Nat /\ Len(q) > 0 /\ Head(q) = q[1]
         /\ \A id : (\E i \in 1..Len(Tail(q)) : Tail(q)[i] = id)
                      => \E i \in 1..Len(q) : q[i] = id
         /\ \A id : (\E i \in 1..Len(q) : q[i] = id)
                      => id = Head(q) \/ \E i \in 1..Len(Tail(q)) : Tail(q)[i] = id
  <1>1. /\ Tail(q) \in Seq(Nat) /\ Len(q) \in Nat \ {0} /\ Head(q) = q[1] /\ Head(q) \in Nat
        /\ Len(Tail(q)) = Len(q) - 1
        /\ \A i \in 1..Len(Tail(q)) : Tail(q)[i] = q[i + 1]
    BY HeadTailProperties, EmptySeq
  <1>2. ASSUME NEW i \in 1..Len(Tail(q))
        PROVE  i + 1 \in 1..Len(q) /\ Tail(q)[i] = q[i + 1]
    BY <1>1
  <1>3. ASSUME NEW i \in 1..Len(q), i # 1
        PROVE  \E j \in 1..Len(Tail(q)) : Tail(q)[j] = q[i]
    <2>1. i - 1 \in 1..Len(Tail(q)) /\ (i - 1) + 1 = i
      BY <1>1, <1>3
    <2> QED  BY <1>1, <2>1
  <1>4. Len(q) > 0
    BY <1>1
  <1> QED  BY <1>1, <1>2, <1>3, <1>4

LEMMA AppendHolds ==
  ASSUME NEW q \in Seq(Nat), NEW n \in Nat
  PROVE  /\ Append(q, n) \in Seq(Nat) /\ Append(q, n) # <<>>
         /\ \A id : (\E i \in 1..Len(Append(q, n)) : Append(q, n)[i] = id)
                      <=> id = n \/ \E i \in 1..Len(q) : q[i] = id
  <1>1. /\ Append(q, n) \in Seq(Nat) /\ Append(q, n) # <<>> /\ Len(q) \in Nat
        /\ Len(Append(q, n)) = Len(q) + 1
        /\ \A i \in 1..Len(q) : Append(q, n)[i] = q[i]
        /\ Append(q, n)[Len(q) + 1] = n
    BY AppendProperties, LenProperties
  <1> QED  BY <1>1

\* Numbered, put in terms of what is on its way.
LEMMA NumberedIs ==
  ASSUME SyncTypes
  PROVE  Numbered <=>
           /\ \A id : InFrames(id) \/ InAcks(id) => id \in 1..row.id
           /\ pull.for \in 0..row.id
           /\ row.status \in Open => row.id > 0
           /\ row.status = "queued" =>
                ~InFrames(row.id) /\ ~InAcks(row.id) /\ pull.for # row.id
BY DEF Numbered, InFrames, InAcks, SyncTypes


\* The fields, one by one.
LEMMA SyncFields ==
  ASSUME SyncTypes
  PROVE  /\ rules.rev \in Nat /\ rules.ver \in Nat /\ held.rev \in Nat /\ held.ver \in Nat
         /\ row.id \in Nat /\ row.status \in {"closed", "queued", "sent"} /\ row.late \in BOOLEAN
         /\ pull.for \in Nat /\ pull.pc \in PullSteps /\ pull.rev \in Nat /\ pull.ver \in Nat
BY DEF SyncTypes, Revision, CommandRow, Pulls

\* An edit is yet to be told.
LEMMA SyncEdit ==
  ASSUME SyncInv, NEW bumps \in BOOLEAN, EditRules(bumps)
  PROVE  SyncInv'
  <1> USE DEF EditRules
  <1>1. SyncTypes'
    <2>1. rules' \in Revision
      BY DEF SyncInv, SyncTypes, Revision
    <2> QED  BY <2>1 DEF SyncInv, SyncTypes
  <1>2. Numbered'
    BY DEF SyncInv, Numbered, InFrames, InAcks
  <1>4. rules'.rev = rules.rev + 1 /\ rules.rev \in Nat /\ held.rev \in Nat /\ pull.rev \in Nat
    BY SyncFields DEF SyncInv
  <1>5. RevisionsGrow'
    <2>1. /\ RevisionsGrow
          /\ held'.rev = held.rev /\ pull'.rev = pull.rev /\ pull'.pc = pull.pc
      BY DEF SyncInv
    <2> HIDE DEF EditRules
    <2>2. held'.rev <= rules'.rev
      BY <1>4, <2>1 DEF RevisionsGrow
    <2>3. ASSUME RulesRead'  PROVE held'.rev <= pull'.rev /\ pull'.rev <= rules'.rev
      <3>1. RulesRead
        BY <2>1, <2>3 DEF RulesRead
      <3> QED  BY <1>4, <2>1, <3>1 DEF RevisionsGrow
    <2> QED  BY <2>2, <2>3 DEF RevisionsGrow
  <1>3. untold' # 0
    BY DEF SyncInv, SyncTypes
  <1> QED  BY <1>1, <1>2, <1>3, <1>5
     DEF SyncInv, LateReadsRepeat, StaleIsPulled, AckedIsPulled, AllTold

\* The telling opens a row, or finds one; where that one's pull has read its
\* rules already, a frame goes out or the edit is let slip.
LEMMA SyncTell ==
  ASSUME SyncInv, TellDevice
  PROVE  SyncInv'
  <1> DEFINE id == IF row.status \in Open THEN row.id ELSE row.id + 1
  <1>1. /\ untold > 0 /\ untold' = untold - 1
        /\ row' = IF row.status \in Open THEN [row EXCEPT !.status = IF hub THEN "sent" ELSE @]
                  ELSE [id |-> id, status |-> IF hub THEN "sent" ELSE "queued", late |-> FALSE]
        /\ frames' = IF hub /\ link = "ws" THEN Append(frames, id) ELSE frames
        /\ excused' = (excused \/ (frames' = frames /\ AlreadyServed(row)))
        /\ UNCHANGED <<rules, hub, link, acks, pull, recheck, held, syncFaults>>
    BY DEF TellDevice
  <1>2. /\ id \in Nat \ {0} /\ row'.id = id /\ row'.status \in Open /\ row' \in CommandRow
        /\ row'.status = "queued" => ~hub /\ (row.status \in Open => row.status = "queued")
    <2>1. row' = IF row.status \in Open
                 THEN [id |-> row.id, status |-> IF hub THEN "sent" ELSE row.status,
                       late |-> row.late]
                 ELSE [id |-> row.id + 1, status |-> IF hub THEN "sent" ELSE "queued",
                       late |-> FALSE]
      BY <1>1 DEF SyncInv, SyncTypes, CommandRow
    <2>2. row.status \in Open => row.id > 0
      BY DEF SyncInv, Numbered
    <2>3. row.id \in Nat /\ row.late \in BOOLEAN /\ hub \in BOOLEAN
      BY SyncFields DEF SyncInv, SyncTypes
    <2>4. CASE row.status \in Open
      BY <2>1, <2>2, <2>3, <2>4 DEF Open, CommandRow
    <2>5. CASE row.status \notin Open
      BY <2>1, <2>3, <2>5 DEF Open, CommandRow
    <2> QED  BY <2>4, <2>5
  <1> HIDE DEF id
  <1>3. /\ frames' \in Seq(Nat)
        /\ \A n : InFrames(n)' => InFrames(n) \/ (hub /\ n = id)
        /\ frames' # frames => link' = "ws" /\ frames' # <<>>
    <2>1. frames \in Seq(Nat)
      BY DEF SyncInv, SyncTypes
    <2>2. CASE hub /\ link = "ws"
      <3>1. frames' = Append(frames, id) /\ link' = link
        BY <1>1, <2>2
      <3>2. /\ frames' \in Seq(Nat) /\ frames' # <<>>
            /\ \A n : InFrames(n)' <=> n = id \/ InFrames(n)
        BY <1>2, <2>1, <3>1, AppendHolds DEF InFrames
      <3> QED  BY <2>2, <3>1, <3>2
    <2>3. CASE ~(hub /\ link = "ws")
      BY <1>1, <2>1, <2>3 DEF InFrames
    <2> QED  BY <2>2, <2>3
  <1>4. SyncTypes'
    <2>1. untold' \in Nat /\ excused' \in BOOLEAN
      BY <1>1 DEF SyncInv, SyncTypes
    <2> QED  BY <1>1, <1>2, <1>3, <2>1 DEF SyncInv, SyncTypes
  <1>5. \/ row.status \in Open /\ id = row.id
        \/ row.status \notin Open /\ id = row.id + 1
    BY DEF id
  <1>6. /\ \A n : InFrames(n) \/ InAcks(n) => n \in 1..row.id
        /\ pull.for \in 0..row.id
        /\ row.status = "queued" => ~InFrames(row.id) /\ ~InAcks(row.id) /\ pull.for # row.id
        /\ row.id \in Nat
    BY NumberedIs, SyncFields DEF SyncInv
  <1>7. /\ \A n : InAcks(n)' <=> InAcks(n)
        /\ \A n : ServedBy(n)' <=> ServedBy(n)
    BY <1>1 DEF InAcks, ServedBy
  <1>8. Numbered'
    <2>1. \A n : InFrames(n)' \/ InAcks(n)' => n \in 1..row'.id
      BY <1>2, <1>3, <1>5, <1>6, <1>7
    <2>2. pull'.for \in 0..row'.id
      BY <1>1, <1>2, <1>5, <1>6
    <2>3. \A n : row'.status = "queued" /\ n = row'.id =>
                   ~InFrames(n)' /\ ~InAcks(n)' /\ pull'.for # n
      BY <1>1, <1>2, <1>3, <1>5, <1>6, <1>7 DEF Open
    <2> QED  BY <1>2, <1>4, <2>1, <2>2, <2>3 DEF Numbered, InFrames, InAcks
  <1>9. RevisionsGrow'
    BY <1>1 DEF SyncInv, RevisionsGrow, RulesRead
  <1>10. AllTold' => StillToPull'
    <2> SUFFICES ASSUME ~excused', frames' = frames  PROVE StillToPull'
      BY <1>1, <1>3 DEF AllTold, StillToPull
    <2>1. row.status = "sent" => ~ServedBy(row.id) /\ ~InAcks(row.id)
      BY <1>1 DEF AlreadyServed, ServedBy, InAcks
    <2>2. ~ServedBy(id) /\ ~InAcks(id)
      BY <2>1, <1>5, <1>6 DEF Open, ServedBy
    <2> QED  BY <2>2, <1>2, <1>7 DEF StillToPull
  <1> QED
    BY <1>4, <1>8, <1>9, <1>10 DEF SyncInv, LateReadsRepeat, StaleIsPulled, AckedIsPulled

\* Where the rules stand still and a pull reads nothing, the revisions do too.
LEMMA RevisionsKept ==
  ASSUME SyncInv, rules' = rules, held' = held, RulesRead' => RulesRead /\ pull'.rev = pull.rev
  PROVE  RevisionsGrow'
  <1>1. ASSUME RulesRead'  PROVE held'.rev <= pull'.rev /\ pull'.rev <= rules'.rev
    BY <1>1 DEF SyncInv, RevisionsGrow
  <1> QED  BY <1>1 DEF SyncInv, RevisionsGrow

\* Where no row is made and nothing is sent, the numbers hold.
LEMMA NumbersKept ==
  ASSUME SyncInv, SyncTypes', row'.id = row.id,
         row'.status \in Open => row.status \in Open,
         row'.status = "queued" => row.status = "queued",
         \A n : InFrames(n)' => InFrames(n),
         \A n : InAcks(n)' => InAcks(n),
         pull'.for \in {0, pull.for}
  PROVE  Numbered'
  <1>1. /\ \A n : InFrames(n) \/ InAcks(n) => n \in 1..row.id
        /\ pull.for \in 0..row.id /\ row.id \in Nat
        /\ row.status \in Open => row.id > 0
        /\ row.status = "queued" => ~InFrames(row.id) /\ ~InAcks(row.id) /\ pull.for # row.id
    BY NumberedIs, SyncFields DEF SyncInv
  <1>2. \A n : InFrames(n)' \/ InAcks(n)' => n \in 1..row'.id
    BY <1>1
  <1>3. \A n : row'.status = "queued" /\ n = row'.id =>
                 ~InFrames(n)' /\ ~InAcks(n)' /\ pull'.for # n
    BY <1>1 DEF Open
  <1>4. pull'.for \in 0..row'.id /\ (row'.status \in Open => row'.id > 0)
    BY <1>1
  <1> QED  BY <1>2, <1>3, <1>4 DEF Numbered, InFrames, InAcks

\* Where the rules stand still, what is to be pulled stays so and no ack is
\* added, the pulls go on as they did.
LEMMA PullsKept ==
  ASSUME SyncInv, rules' = rules, held' = held, AllTold' => AllTold,
         RulesRead' => RulesRead /\ pull'.rev = pull.rev,
         row'.id = row.id, row'.status \in Open => row.status \in Open,
         \A n : InAcks(n)' => InAcks(n),
         AllTold' /\ StillToPull => StillToPull' \/ (pull'.for # 0 /\ pull'.pc = "failed"),
         PullBrings => PullBrings',
         pull'.for = pull.for \/ ~InAcks(row.id)'
  PROVE  LateReadsRepeat' /\ StaleIsPulled' /\ AckedIsPulled'
  <1>1. ASSUME AllTold', RulesRead', pull'.rev # rules'.rev  PROVE StillToPull'
    <2>1. StillToPull /\ pull'.pc # "failed"
      BY <1>1 DEF SyncInv, LateReadsRepeat, RulesRead
    <2> QED  BY <1>1, <2>1
  <1>2. ASSUME AllTold', Stale'  PROVE StillToPull' \/ PullBrings'
    BY <1>2 DEF SyncInv, StaleIsPulled, Stale, PullBrings
  <1>3. ASSUME AllTold', Stale', row'.status \in Open, InAcks(row.id)'
        PROVE  StillToPull' \/ (pull'.for # 0 /\ PullBrings')
    BY <1>3 DEF SyncInv, AckedIsPulled, Stale, PullBrings
  <1> QED  BY <1>1, <1>2, <1>3 DEF LateReadsRepeat, StaleIsPulled, AckedIsPulled, InAcks

\* Steps that change no more than the row's grace, or what the server thinks of
\* its socket.
LEMMA SyncBesides ==
  ASSUME SyncInv, GraceGoesBy \/ SocketReaped
  PROVE  SyncInv'
  <1>1. /\ row'.id = row.id /\ row'.status = row.status /\ row' \in CommandRow
        /\ hub' \in BOOLEAN
        /\ UNCHANGED <<rules, untold, link, frames, acks, pull, recheck, held, excused, syncFaults>>
    BY DEF GraceGoesBy, SocketReaped, SyncInv, SyncTypes, CommandRow
  <1>2. SyncTypes'
    BY <1>1 DEF SyncInv, SyncTypes
  <1>3. /\ \A n : InFrames(n)' <=> InFrames(n)
        /\ \A n : InAcks(n)' <=> InAcks(n)
    BY <1>1 DEF InFrames, InAcks
  <1>4. RevisionsGrow'
    BY <1>1, RevisionsKept DEF RulesRead
  <1>5. Numbered'
    BY <1>1, <1>2, <1>3, NumbersKept
  <1>6. /\ AllTold' <=> AllTold
        /\ StillToPull => StillToPull'
        /\ PullBrings => PullBrings'
        /\ RulesRead' => RulesRead
    BY <1>1, <1>3 DEF AllTold, StillToPull, PullBrings, ServedBy, RulesRead
  <1>7. LateReadsRepeat' /\ StaleIsPulled' /\ AckedIsPulled'
    BY <1>1, <1>3, <1>6, PullsKept
  <1> QED  BY <1>2, <1>4, <1>5, <1>7 DEF SyncInv

\* An ack closes its row, which was served.
LEMMA SyncAck ==
  ASSUME SyncInv, AckArrives
  PROVE  SyncInv'
  <1>1. /\ row' = IF OpenRow(Head(acks)) THEN [row EXCEPT !.status = "closed"] ELSE row
        /\ acks # <<>> /\ acks' = Tail(acks)
        /\ UNCHANGED <<rules, untold, hub, link, frames, pull, recheck, held, excused, syncFaults>>
    BY DEF AckArrives
  <1>2. /\ row'.id = row.id /\ row' \in CommandRow
        /\ row'.status = row.status \/ (row'.status = "closed" /\ row.id = Head(acks))
    BY <1>1 DEF SyncInv, SyncTypes, CommandRow, OpenRow
  <1>3. /\ acks' \in Seq(Nat) /\ InAcks(Head(acks))
        /\ \A n : InAcks(n)' => InAcks(n)
        /\ \A n : InFrames(n)' <=> InFrames(n)
    <2>1. /\ Tail(acks) \in Seq(Nat)
          /\ \A n : (\E k \in 1..Len(Tail(acks)) : Tail(acks)[k] = n) => InAcks(n)
          /\ Len(acks) \in Nat /\ Len(acks) > 0 /\ Head(acks) = acks[1]
      BY <1>1, TailHolds, LenProperties DEF SyncInv, SyncTypes, InAcks
    <2>2. InAcks(Head(acks))
      BY <2>1 DEF InAcks
    <2> QED  BY <1>1, <2>1, <2>2 DEF InAcks, InFrames
  <1>4. SyncTypes'
    BY <1>1, <1>2, <1>3 DEF SyncInv, SyncTypes
  <1>5. RevisionsGrow'
    BY <1>1, RevisionsKept DEF RulesRead
  <1>6. Numbered'
    BY <1>1, <1>2, <1>3, <1>4, NumbersKept DEF Open
  <1>7. /\ AllTold' <=> AllTold
        /\ StillToPull => StillToPull'
        /\ PullBrings => PullBrings'
        /\ RulesRead' => RulesRead
    BY <1>1, <1>2, <1>3 DEF AllTold, StillToPull, PullBrings, ServedBy, RulesRead, Open
  <1>8. LateReadsRepeat' /\ StaleIsPulled' /\ AckedIsPulled'
    BY <1>1, <1>2, <1>3, <1>7, PullsKept DEF Open
  <1> QED  BY <1>4, <1>5, <1>6, <1>8 DEF SyncInv

\* A lost ack leaves its row pending.
LEMMA SyncAckLost ==
  ASSUME SyncInv, AckLost
  PROVE  SyncInv'
  <1>1. /\ acks # <<>> /\ acks' = Tail(acks) /\ syncFaults' = syncFaults + 1
        /\ UNCHANGED <<rules, untold, row, hub, link, frames, pull, recheck, held, excused>>
    BY DEF AckLost, Fault
  <1>2. /\ acks' \in Seq(Nat)
        /\ \A n : InAcks(n)' => InAcks(n)
        /\ \A n : InFrames(n)' <=> InFrames(n)
    BY <1>1, TailHolds DEF SyncInv, SyncTypes, InAcks, InFrames
  <1>3. SyncTypes'
    <2>1. syncFaults' \in Nat
      BY <1>1 DEF SyncInv, SyncTypes
    <2> QED  BY <1>1, <1>2, <2>1 DEF SyncInv, SyncTypes
  <1>4. RevisionsGrow'
    BY <1>1, RevisionsKept DEF RulesRead
  <1>5. Numbered'
    BY <1>1, <1>2, <1>3, NumbersKept
  <1>6. /\ AllTold' <=> AllTold
        /\ StillToPull => StillToPull'
        /\ PullBrings => PullBrings'
        /\ RulesRead' => RulesRead
    BY <1>1, <1>2 DEF AllTold, StillToPull, PullBrings, ServedBy, RulesRead
  <1>7. LateReadsRepeat' /\ StaleIsPulled' /\ AckedIsPulled'
    BY <1>1, <1>2, <1>6, PullsKept
  <1> QED  BY <1>3, <1>4, <1>5, <1>7 DEF SyncInv

\* The pull reads the rules as they are; the version it reads after them is not
\* what it brings.
LEMMA SyncReads ==
  ASSUME SyncInv, ReadRules \/ ReadVersion
  PROVE  SyncInv'
  <1>1. UNCHANGED <<rules, untold, row, hub, link, frames, acks, recheck, held, excused,
                    syncFaults>>
    BY DEF ReadRules, ReadVersion
  <1>2. /\ pull' \in Pulls /\ pull'.for = pull.for /\ RulesRead'
        /\ \/ pull.pc = "asked" /\ pull'.rev = rules.rev
           \/ RulesRead /\ pull'.rev = pull.rev
    <2>1. CASE ReadRules
      <3>1. pull' = [for |-> pull.for, pc |-> "rules read", rev |-> rules.rev, ver |-> pull.ver]
        BY <2>1 DEF ReadRules, SyncInv, SyncTypes, Pulls
      <3> QED  BY <2>1, <3>1, SyncFields DEF ReadRules, SyncInv, Pulls, PullSteps, RulesRead
    <2>2. CASE ReadVersion
      <3>1. pull' = [for |-> pull.for, pc |-> "answered", rev |-> pull.rev, ver |-> rules.ver]
        BY <2>2 DEF ReadVersion, SyncInv, SyncTypes, Pulls
      <3> QED  BY <2>2, <3>1, SyncFields DEF ReadVersion, SyncInv, Pulls, PullSteps, RulesRead
    <2> QED  BY <2>1, <2>2
  <1>3. /\ \A n : InFrames(n)' <=> InFrames(n)
        /\ \A n : InAcks(n)' <=> InAcks(n)
    BY <1>1 DEF InFrames, InAcks
  <1>4. SyncTypes'
    BY <1>1, <1>2 DEF SyncInv, SyncTypes
  <1>5. Numbered'
    BY <1>1, <1>2, <1>3, <1>4, NumbersKept
  <1>6. RevisionsGrow'
    <2>1. /\ held.rev <= rules.rev /\ rules.rev \in Nat /\ held.rev \in Nat
          /\ RulesRead => held.rev <= pull.rev /\ pull.rev <= rules.rev
      BY SyncFields DEF SyncInv, RevisionsGrow
    <2>2. held'.rev <= pull'.rev /\ pull'.rev <= rules'.rev
      BY <1>1, <1>2, <2>1
    <2> QED  BY <1>1, <2>1, <2>2 DEF RevisionsGrow
  <1>7. AllTold' <=> AllTold
    BY <1>1 DEF AllTold
  <1>8. LateReadsRepeat'
    <2> SUFFICES ASSUME AllTold', pull'.rev # rules'.rev  PROVE StillToPull'
      BY DEF LateReadsRepeat
    <2>1. RulesRead /\ pull.rev # rules.rev
      BY <1>1, <1>2
    <2>2. StillToPull
      BY <1>7, <2>1 DEF SyncInv, LateReadsRepeat
    <2> QED  BY <1>1, <1>2, <1>3, <2>1, <2>2 DEF StillToPull, ServedBy, RulesRead
  <1>9. AllTold' => StillToPull' \/ PullBrings'
    BY <1>2, <1>8 DEF LateReadsRepeat, PullBrings
  <1>10. AckedIsPulled'
    <2> SUFFICES ASSUME AllTold', Stale', row'.status \in Open, InAcks(row.id)'
                 PROVE  StillToPull' \/ (pull'.for # 0 /\ PullBrings')
      BY DEF AckedIsPulled
    <2>1. StillToPull \/ (pull.for # 0 /\ PullBrings)
      BY <1>1, <1>3, <1>7 DEF SyncInv, AckedIsPulled, Stale
    <2>2. link = "ws" /\ frames # <<>> => StillToPull'
      BY <1>1 DEF StillToPull
    <2>3. InAcks(row.id)
      BY <1>1 DEF InAcks
    <2> QED  BY <1>2, <1>9, <2>1, <2>2, <2>3 DEF StillToPull
  <1> QED  BY <1>4, <1>5, <1>6, <1>8, <1>9, <1>10 DEF SyncInv, StaleIsPulled

\* What is lost with a socket: a frame that carried news is excused, any other
\* leaves a pending row, which no ack can close any more.
LEMMA LinkLostIs ==
  ASSUME SyncInv, LinkLost
  PROVE  /\ link' \in {"ws", "poll"} /\ excused' \in BOOLEAN
         /\ frames' \in Seq(Nat) /\ acks' \in Seq(Nat)
         /\ \A n : InFrames(n)' => InFrames(n)
         /\ \A n : InAcks(n)' => InAcks(n) /\ link # "ws"
         /\ ~excused' => ~excused /\ ~(untold > untold')
         /\ ~excused' /\ link = "ws" /\ frames # <<>> => row.status \in Open
  <1>1. frames \in Seq(Nat) /\ acks \in Seq(Nat) /\ link \in {"ws", "poll"} /\ excused \in BOOLEAN
    BY DEF SyncInv, SyncTypes
  <1>2. CASE link = "ws"
    <2>1. /\ link' = "poll" /\ frames' = <<>> /\ acks' = <<>>
          /\ excused' = (excused \/ untold > untold' \/ NewsInFrames)
      BY <1>2 DEF LinkLost
    <2>2. ~NewsInFrames /\ frames # <<>> => row.status \in Open
      <3>1. frames # <<>> => 1 \in 1..Len(frames)
        BY <1>1, EmptySeq
      <3> QED  BY <3>1 DEF NewsInFrames, OpenRow
    <2>3. \A n : ~InFrames(n)' /\ ~InAcks(n)'
      BY <2>1 DEF InFrames, InAcks
    <2>4. excused' \in BOOLEAN /\ frames' \in Seq(Nat) /\ acks' \in Seq(Nat)
      BY <2>1
    <2> QED  BY <1>1, <2>1, <2>2, <2>3, <2>4
  <1>3. CASE link # "ws"
    BY <1>1, <1>3 DEF LinkLost, InFrames, InAcks
  <1> QED  BY <1>2, <1>3

\* A socket that dies, of itself or with the server.
LEMMA SyncDown ==
  ASSUME SyncInv, SyncServerRestarts \/ SocketDies
  PROVE  SyncInv'
  <1>1. /\ LinkLost /\ untold' \in {0, untold} /\ UNCHANGED <<rules, row, held>>
        /\ hub' \in BOOLEAN /\ recheck' \in BOOLEAN /\ syncFaults' \in Nat
    <2>1. /\ untold \in Nat /\ syncFaults \in Nat /\ hub \in BOOLEAN /\ recheck \in BOOLEAN
      BY DEF SyncInv, SyncTypes
    <2>2. CASE SyncServerRestarts
      <3>1. /\ LinkLost /\ untold' = 0 /\ hub' = FALSE /\ syncFaults' = syncFaults + 1
            /\ UNCHANGED <<rules, row, recheck, held>>
        BY <2>2 DEF SyncServerRestarts, Fault
      <3>2. untold' \in {0, untold} /\ syncFaults' \in Nat
        BY <2>1, <3>1
      <3>3. hub' \in BOOLEAN /\ recheck' \in BOOLEAN
        BY <2>1, <3>1
      <3> QED  BY <3>1, <3>2, <3>3
    <2>3. CASE SocketDies
      BY <2>1, <2>3 DEF SocketDies, Fault
    <2> QED  BY <2>2, <2>3
  <1>2. /\ pull' \in Pulls /\ pull'.rev = pull.rev
        /\ pull'.for = (IF link = "ws" THEN 0 ELSE pull.for)
        /\ pull'.pc = pull.pc \/ (pull'.pc = "failed" /\ pull.pc \in {"asked", "rules read"})
    <2> DEFINE lost(pc) == [for |-> IF link = "ws" THEN 0 ELSE pull.for, pc |-> pc,
                            rev |-> pull.rev, ver |-> pull.ver]
    <2>1. pull' = lost(pull.pc) \/ (pull' = lost("failed") /\ pull.pc \in {"asked", "rules read"})
      <3>1. WithoutAck(pull) = lost(pull.pc)
        BY DEF WithoutAck, SyncInv, SyncTypes, Pulls
      <3>2. [WithoutAck(pull) EXCEPT !.pc = "failed"] = lost("failed")
        BY <3>1
      <3> QED  BY <3>1, <3>2 DEF SyncServerRestarts, SocketDies
    <2>2. \A pc \in PullSteps : lost(pc) \in Pulls
      BY SyncFields DEF SyncInv, Pulls
    <2>3. pull' \in Pulls
      <3> HIDE DEF lost
      <3> QED  BY <2>1, <2>2, SyncFields DEF SyncInv, PullSteps
    <2>4. \A pc \in PullSteps : pull' = lost(pc) =>
                 /\ pull'.rev = pull.rev /\ pull'.pc = pc
                 /\ pull'.for = (IF link = "ws" THEN 0 ELSE pull.for)
      OBVIOUS
    <2>5. pull.pc \in PullSteps /\ "failed" \in PullSteps
      BY SyncFields DEF SyncInv, PullSteps
    <2> HIDE DEF lost
    <2> QED  BY <2>1, <2>3, <2>4, <2>5
  <1>3. SyncTypes'
    <2>1. untold' \in Nat
      BY <1>1 DEF SyncInv, SyncTypes
    <2> QED  BY <1>1, <1>2, <2>1, LinkLostIs DEF SyncInv, SyncTypes
  <1>4. RulesRead' => RulesRead
    BY <1>2 DEF RulesRead
  <1>5. RevisionsGrow'
    BY <1>1, <1>2, <1>4, RevisionsKept
  <1>6. Numbered'
    BY <1>1, <1>2, <1>3, LinkLostIs, NumbersKept
  <1>7. AllTold' => AllTold
    <2>1. untold \in Nat
      BY DEF SyncInv, SyncTypes
    <2> QED  BY <1>1, <2>1, LinkLostIs DEF AllTold
  <1>8. ASSUME AllTold', StillToPull
        PROVE  StillToPull' \/ (pull'.for # 0 /\ pull'.pc = "failed")
    <2>1. row.status \in Open => row.id # 0 /\ row.id \in Nat
      BY SyncFields DEF SyncInv, Numbered
    <2>2. CASE link = "ws"
      <3>1. row.status \in Open
        BY <1>1, <1>8, <2>2, LinkLostIs DEF AllTold, StillToPull
      <3>2. \A n : ~InAcks(n)'
        BY <1>1, <2>2, LinkLostIs
      <3> QED  BY <1>1, <1>2, <2>1, <2>2, <3>1, <3>2 DEF StillToPull, ServedBy
    <2>3. CASE link # "ws"
      <3>1. row.status \in Open /\ ~ServedBy(row.id) /\ ~InAcks(row.id)
        BY <1>8, <2>3 DEF StillToPull
      <3>2. \A n : n = row'.id => ~InAcks(n)'
        BY <1>1, <3>1, LinkLostIs
      <3> QED  BY <1>1, <1>2, <2>1, <2>3, <3>1, <3>2 DEF StillToPull, ServedBy
    <2> QED  BY <2>2, <2>3
  <1>9. PullBrings => PullBrings'
    BY <1>1, <1>2 DEF PullBrings, RulesRead
  <1>10. pull'.for = pull.for \/ ~InAcks(row.id)'
    <2>1. link = "ws" => \A n : ~InAcks(n)'
      BY <1>1, LinkLostIs
    <2> QED  BY <1>2, <2>1
  <1>11. LateReadsRepeat' /\ StaleIsPulled' /\ AckedIsPulled'
    BY <1>1, <1>2, <1>4, <1>7, <1>8, <1>9, <1>10, LinkLostIs, PullsKept
  <1> QED  BY <1>3, <1>5, <1>6, <1>11 DEF SyncInv

\* Steps with nothing under way: the pending row is handed over, or the answer
\* that carried it is lost.
LEMMA SyncHandOver ==
  ASSUME SyncInv, Connect \/ Heartbeat \/ AnswerLost
  PROVE  SyncInv'
  <1>1. /\ pull.pc = "idle" /\ UNCHANGED <<rules, untold, acks, pull, held, excused>>
        /\ link = "poll" \/ frames = <<>>
    BY DEF Connect, Heartbeat, AnswerLost, Idle
  <1>2. /\ link' \in {"ws", "poll"} /\ hub' \in BOOLEAN /\ recheck' \in BOOLEAN
        /\ syncFaults' \in Nat
    <2>1. link \in {"ws", "poll"} /\ hub \in BOOLEAN /\ recheck \in BOOLEAN /\ syncFaults \in Nat
      BY DEF SyncInv, SyncTypes
    <2>2. CASE Connect
      <3>1. link' = "ws" /\ hub' = TRUE /\ UNCHANGED <<recheck, syncFaults>>
        BY <2>2 DEF Connect
      <3> QED  BY <2>1, <3>1
    <2>3. CASE Heartbeat
      <3>1. recheck' = (rules.ver # held.ver) /\ UNCHANGED <<link, hub, syncFaults>>
        BY <2>3 DEF Heartbeat, OtherVersion
      <3> QED  BY <2>1, <3>1
    <2>4. CASE AnswerLost
      <3>1. recheck' = FALSE /\ syncFaults' = syncFaults + 1 /\ UNCHANGED <<link, hub>>
        BY <2>4 DEF AnswerLost, Fault
      <3>2. syncFaults' \in Nat
        BY <2>1, <3>1
      <3> QED  BY <2>1, <3>1, <3>2
    <2> QED  BY <2>2, <2>3, <2>4
  <1>3. /\ row'.id = row.id /\ row' \in CommandRow
        /\ row'.status \in Open <=> row.status \in Open
        /\ row'.status = "queued" => row.status = "queued"
        /\ \/ frames' = <<>>
           \/ frames' = <<row.id>> /\ row.status \in Open /\ row'.status = "sent"
    <2>1. /\ row' = row \/ (row.status \in Open /\ row' = MarkedSent(row))
          /\ \/ frames' = <<>>
             \/ frames' = <<row.id>> /\ row.status \in Open /\ row' = MarkedSent(row)
      BY DEF Connect, Heartbeat, AnswerLost, HandOver, Redeliverable, Open
    <2>2. row \in CommandRow /\ row.id \in Nat
      BY SyncFields DEF SyncInv, SyncTypes
    <2>3. MarkedSent(row) \in CommandRow
      BY <2>2 DEF CommandRow, MarkedSent
    <2>4. MarkedSent(row).id = row.id /\ MarkedSent(row).status = "sent"
      BY <2>2 DEF CommandRow, MarkedSent
    <2> QED  BY <2>1, <2>2, <2>3, <2>4 DEF Open
  <1>4. /\ frames' \in Seq(Nat)
        /\ \A n : InFrames(n)' => n = row.id /\ row.status \in Open /\ row'.status = "sent"
        /\ \A n : InAcks(n)' <=> InAcks(n)
    <2>1. row.id \in Nat
      BY SyncFields DEF SyncInv
    <2>2. /\ <<row.id>> \in Seq(Nat) /\ Len(<<row.id>>) = 1
          /\ \A k \in 1..Len(<<row.id>>) : <<row.id>>[k] = row.id
      BY <2>1
    <2>3. CASE frames' = <<>>
      BY <1>1, <2>3 DEF InFrames, InAcks
    <2>4. CASE frames' = <<row.id>> /\ row.status \in Open /\ row'.status = "sent"
      BY <1>1, <2>2, <2>4 DEF InFrames, InAcks
    <2> QED  BY <1>3, <2>3, <2>4
  <1>5. SyncTypes'
    BY <1>1, <1>2, <1>3, <1>4 DEF SyncInv, SyncTypes
  <1>6. Numbered'
    <2>1. /\ \A n : InAcks(n) => n \in 1..row.id
          /\ pull.for \in 0..row.id /\ row.id \in Nat
          /\ row.status \in Open => row.id > 0
          /\ row.status = "queued" => ~InAcks(row.id) /\ pull.for # row.id
      BY NumberedIs, SyncFields DEF SyncInv
    <2>2. \A n : InFrames(n)' \/ InAcks(n)' => n \in 1..row'.id
      BY <1>3, <1>4, <2>1
    <2>3. \A n : row'.status = "queued" /\ n = row'.id =>
                   ~InFrames(n)' /\ ~InAcks(n)' /\ pull'.for # n
      BY <1>1, <1>3, <1>4, <2>1
    <2> QED  BY <1>1, <1>3, <2>1, <2>2, <2>3 DEF Numbered, InFrames, InAcks
  <1>7. ~RulesRead' /\ RevisionsGrow'
    BY <1>1, RevisionsKept DEF RulesRead
  <1>8. /\ AllTold' <=> AllTold
        /\ StillToPull => StillToPull' \/ link = "ws"
        /\ PullBrings => PullBrings'
    BY <1>1, <1>3, <1>4 DEF AllTold, StillToPull, PullBrings, ServedBy, RulesRead
  <1>9. link = "poll"
    BY DEF Connect, Heartbeat, AnswerLost
  <1>10. LateReadsRepeat' /\ StaleIsPulled' /\ AckedIsPulled'
    BY <1>1, <1>3, <1>4, <1>7, <1>8, <1>9, PullsKept
  <1> QED  BY <1>5, <1>6, <1>7, <1>10 DEF SyncInv

\* A pull begins: for a command, as the heartbeat's version asks, or as the
\* first thing an agent does.
LEMMA SyncAsks ==
  ASSUME SyncInv, HandleApplyPolicy \/ Repull \/ SyncAgentRestarts
  PROVE  SyncInv'
  <1>1. /\ \A n : InFrames(n)' => InFrames(n)
        /\ \A n : InAcks(n)' => InAcks(n)
        /\ frames' \in Seq(Nat) /\ acks' \in Seq(Nat)
        /\ frames # <<>> => Head(frames) \in Nat /\ InFrames(Head(frames))
    <2>1. frames \in Seq(Nat) /\ acks \in Seq(Nat)
      BY DEF SyncInv, SyncTypes
    <2>2. frames # <<>> =>
            /\ Tail(frames) \in Seq(Nat) /\ Head(frames) \in Nat
            /\ Len(frames) \in Nat /\ Len(frames) > 0 /\ Head(frames) = frames[1]
            /\ \A n : (\E k \in 1..Len(Tail(frames)) : Tail(frames)[k] = n) => InFrames(n)
      BY <2>1, TailHolds, LenProperties DEF InFrames
    <2>3. frames # <<>> => InFrames(Head(frames))
      BY <2>2 DEF InFrames
    <2>4. CASE HandleApplyPolicy
      BY <2>1, <2>2, <2>3, <2>4 DEF HandleApplyPolicy, InFrames, InAcks
    <2>5. CASE Repull
      BY <2>1, <2>2, <2>3, <2>5 DEF Repull, InFrames, InAcks
    <2>6. CASE SyncAgentRestarts
      BY <2>1, <2>2, <2>3, <2>6 DEF SyncAgentRestarts, InFrames, InAcks
    <2> QED  BY <2>4, <2>5, <2>6
  <1>2. /\ pull'.pc = "asked" /\ pull' \in Pulls
        /\ \/ HandleApplyPolicy /\ frames # <<>> /\ pull'.for = Head(frames)
           \/ ~HandleApplyPolicy /\ pull'.for = 0
    <2>1. CASE HandleApplyPolicy
      BY <2>1, <1>1 DEF HandleApplyPolicy, NoPull, Pulls, PullSteps
    <2>2. CASE ~HandleApplyPolicy
      <3>1. pull' = [for |-> 0, pc |-> "asked", rev |-> 0, ver |-> 0]
        BY <2>2 DEF Repull, SyncAgentRestarts, NoPull
      <3> QED  BY <2>2, <3>1 DEF Pulls, PullSteps
    <2> QED  BY <2>1, <2>2
  <1>3. UNCHANGED <<rules, untold, row, hub, held>>
    BY DEF HandleApplyPolicy, Repull, SyncAgentRestarts
  <1>4. SyncTypes'
    <2>1. /\ link' \in {"ws", "poll"} /\ recheck' \in BOOLEAN
          /\ syncFaults' \in Nat
      <3>1. link \in {"ws", "poll"} /\ recheck \in BOOLEAN /\ syncFaults \in Nat
        BY DEF SyncInv, SyncTypes
      <3>2. /\ link' = link \/ link' = "poll"
            /\ recheck' = recheck \/ recheck' = FALSE
            /\ syncFaults' = syncFaults \/ syncFaults' = syncFaults + 1
        BY DEF HandleApplyPolicy, Repull, SyncAgentRestarts, Fault
      <3>3. syncFaults' \in Nat
        BY <3>1, <3>2
      <3> QED  BY <3>1, <3>2, <3>3
    <2>2. excused' \in BOOLEAN
      <3>1. excused \in BOOLEAN
        BY DEF SyncInv, SyncTypes
      <3> QED  BY <3>1 DEF HandleApplyPolicy, Repull, SyncAgentRestarts
    <2> QED  BY <1>1, <1>2, <1>3, <2>1, <2>2 DEF SyncInv, SyncTypes
  <1>5. Numbered'
    <2>1. /\ \A n : InFrames(n) \/ InAcks(n) => n \in 1..row.id
          /\ row.id \in Nat
          /\ row.status \in Open => row.id > 0
          /\ row.status = "queued" => ~InFrames(row.id) /\ ~InAcks(row.id)
      BY NumberedIs, SyncFields DEF SyncInv
    <2>2. \A n : InFrames(n)' \/ InAcks(n)' => n \in 1..row'.id
      BY <1>1, <1>3, <2>1
    <2>3. pull'.for \in 0..row'.id
      BY <1>1, <1>2, <1>3, <2>1
    <2>4. \A n : row'.status = "queued" /\ n = row'.id =>
                   ~InFrames(n)' /\ ~InAcks(n)' /\ pull'.for # n
      BY <1>1, <1>2, <1>3, <2>1 DEF Open
    <2> QED  BY <1>3, <2>1, <2>2, <2>3, <2>4 DEF Numbered, InFrames, InAcks
  <1>6. ~RulesRead' /\ RevisionsGrow' /\ PullBrings'
    BY <1>2, <1>3, RevisionsKept DEF RulesRead, PullBrings
  <1>7. AckedIsPulled'
    <2> SUFFICES ASSUME AllTold', Stale', row'.status \in Open, InAcks(row.id)'
                 PROVE  pull'.for # 0
      BY <1>6 DEF AckedIsPulled
    <2>1. CASE HandleApplyPolicy
      <3>1. InFrames(Head(frames))
        BY <1>1, <2>1 DEF HandleApplyPolicy
      <3>2. Head(frames) # 0
        BY <3>1, NumberedIs DEF SyncInv
      <3> QED  BY <1>2, <2>1, <3>2
    <2>2. CASE Repull
      <3>1. AllTold /\ Stale /\ row.status \in Open /\ InAcks(row.id)
        BY <1>3, <2>2 DEF Repull, AllTold, Stale, InAcks
      <3>2. pull.pc = "idle" /\ frames = <<>>
        BY <2>2 DEF Repull
      <3> QED  BY <3>1, <3>2 DEF SyncInv, AckedIsPulled, StillToPull, PullBrings, RulesRead
    <2>3. CASE SyncAgentRestarts
      <3>1. acks' = <<>>
        BY <2>3 DEF SyncAgentRestarts
      <3> QED  BY <3>1 DEF InAcks
    <2> QED  BY <2>1, <2>2, <2>3
  <1> QED  BY <1>4, <1>5, <1>6, <1>7 DEF SyncInv, LateReadsRepeat, StaleIsPulled

\* A pull ends: with the rules it read, or without.  Its ack may close the row
\* now, so that what it brought must be the newest rules, or a failure.
LEMMA SyncEnds ==
  ASSUME SyncInv, PullArrives \/ PullFails
  PROVE  SyncInv'
  <1>1. /\ pull' = NoPull
        /\ acks' = IF pull.for = 0 THEN acks ELSE Append(acks, pull.for)
        /\ pull.pc \notin {"idle"} /\ UNCHANGED <<rules, untold, row, hub, link, frames, recheck>>
    BY DEF PullArrives, PullFails, PullEnds
  <1>2. /\ row.id \in Nat /\ pull.for \in 0..row.id
        /\ row.status \in Open => row.id > 0
        /\ row.status = "queued" => ~InFrames(row.id) /\ ~InAcks(row.id) /\ pull.for # row.id
        /\ \A n : InFrames(n) \/ InAcks(n) => n \in 1..row.id
    BY NumberedIs, SyncFields DEF SyncInv
  <1>3. /\ acks' \in Seq(Nat)
        /\ \A n : InAcks(n)' <=> InAcks(n) \/ (pull.for # 0 /\ n = pull.for)
        /\ \A n : InFrames(n)' <=> InFrames(n)
    <2>1. acks \in Seq(Nat) /\ pull.for \in Nat
      BY SyncFields DEF SyncInv, SyncTypes
    <2>2. CASE pull.for = 0
      BY <1>1, <2>1, <2>2 DEF InAcks, InFrames
    <2>3. CASE pull.for # 0
      BY <1>1, <2>1, <2>3, AppendHolds DEF InAcks, InFrames
    <2> QED  BY <2>2, <2>3
  <1>4. /\ pull' \in Pulls /\ pull'.for = 0 /\ pull'.pc = "idle"
    BY <1>1 DEF NoPull, Pulls, PullSteps
  <1>5. Numbered'
    <2>1. \A n : InFrames(n)' \/ InAcks(n)' => n \in 1..row'.id
      BY <1>1, <1>2, <1>3
    <2>2. \A n : row'.status = "queued" /\ n = row'.id =>
                   ~InFrames(n)' /\ ~InAcks(n)' /\ pull'.for # n
      BY <1>1, <1>2, <1>3, <1>4 DEF Open
    <2> QED  BY <1>1, <1>2, <1>4, <2>1, <2>2 DEF Numbered, InFrames, InAcks
  <1>7. CASE PullArrives
    <2>1. /\ held' = [rev |-> pull.rev, ver |-> pull.ver] /\ RulesRead
          /\ excused' = (excused /\ pull.rev # rules.rev) /\ UNCHANGED syncFaults
      BY <1>7 DEF PullArrives, RulesRead
    <2>2. SyncTypes'
      <3>1. held' \in Revision
        BY <2>1, SyncFields DEF SyncInv, Revision
      <3>2. excused' \in BOOLEAN
        BY <2>1 DEF SyncInv, SyncTypes
      <3> QED  BY <1>1, <1>3, <1>4, <2>1, <3>1, <3>2 DEF SyncInv, SyncTypes
    <2>3. RevisionsGrow'
      <3>1. held'.rev = pull.rev /\ pull.rev <= rules.rev
        BY <2>1 DEF SyncInv, RevisionsGrow
      <3> QED  BY <1>1, <1>4, <3>1 DEF RevisionsGrow, RulesRead
    <2>4. AllTold' /\ Stale' => StillToPull'
      <3> SUFFICES ASSUME AllTold', Stale'  PROVE StillToPull'
        OBVIOUS
      <3>1. AllTold /\ pull.rev # rules.rev
        BY <1>1, <2>1 DEF AllTold, Stale
      <3>2. StillToPull /\ pull.pc # "asked"
        BY <2>1, <3>1 DEF SyncInv, LateReadsRepeat, RulesRead
      <3>3. ASSUME row.status \in Open, ~ServedBy(row.id), ~InAcks(row.id)
            PROVE  StillToPull'
        <4>1. pull.for # row.id
          BY <3>2, <3>3 DEF ServedBy
        <4>2. \A n : n = row'.id => ~InAcks(n)'
          BY <1>1, <1>3, <3>3, <4>1
        <4> QED  BY <1>1, <1>2, <1>4, <3>3, <4>2 DEF StillToPull, ServedBy
      <3> QED  BY <1>1, <3>2, <3>3 DEF StillToPull
    <2>5. LateReadsRepeat' /\ StaleIsPulled' /\ AckedIsPulled'
      BY <1>4, <2>4 DEF LateReadsRepeat, StaleIsPulled, AckedIsPulled, RulesRead
    <2> QED  BY <1>5, <2>2, <2>3, <2>5 DEF SyncInv
  <1>8. CASE PullFails
    <2>1. /\ excused' = (excused \/ pull.for # 0 \/ row.status = "closed") /\ UNCHANGED held
          /\ syncFaults' = syncFaults \/ syncFaults' = syncFaults + 1
      BY <1>8 DEF PullFails, Fault
    <2>2. SyncTypes'
      <3>1. syncFaults' \in Nat
        BY <2>1 DEF SyncInv, SyncTypes
      <3>2. excused' \in BOOLEAN
        BY <2>1 DEF SyncInv, SyncTypes
      <3> QED  BY <1>1, <1>3, <1>4, <2>1, <3>1, <3>2 DEF SyncInv, SyncTypes
    <2>3. RevisionsGrow'
      BY <1>1, <1>4, <2>1, RevisionsKept DEF RulesRead
    <2>4. AllTold' /\ Stale' => StillToPull'
      <3> SUFFICES ASSUME AllTold', Stale'  PROVE StillToPull'
        OBVIOUS
      <3>1. /\ AllTold /\ Stale /\ pull.for = 0 /\ row.status \in Open
        BY <1>1, <2>1, SyncFields DEF AllTold, Stale, SyncInv, Open
      <3>2. CASE InAcks(row.id)
        <4>1. StillToPull
          BY <3>1, <3>2 DEF SyncInv, AckedIsPulled
        <4> QED  BY <1>1, <3>2, <4>1 DEF StillToPull
      <3>3. CASE ~InAcks(row.id)
        <4>1. \A n : n = row'.id => ~InAcks(n)'
          BY <1>1, <1>3, <3>1, <3>3
        <4> QED  BY <1>1, <1>2, <1>4, <3>1, <4>1 DEF StillToPull, ServedBy
      <3> QED  BY <3>2, <3>3
    <2>5. LateReadsRepeat' /\ StaleIsPulled' /\ AckedIsPulled'
      BY <1>4, <2>4 DEF LateReadsRepeat, StaleIsPulled, AckedIsPulled, RulesRead
    <2> QED  BY <1>5, <2>2, <2>3, <2>5 DEF SyncInv
  <1> QED  BY <1>7, <1>8

\* Every step of the delivery of the rules keeps the invariant.
LEMMA SyncInvStep == SyncInv /\ [SyncNext]_syncVars => SyncInv'
  <1> SUFFICES ASSUME SyncInv, [SyncNext]_syncVars  PROVE SyncInv'
    OBVIOUS
  <1>1. CASE \E bumps \in BOOLEAN : EditRules(bumps)
    BY <1>1, SyncEdit
  <1>2. CASE TellDevice
    BY <1>2, SyncTell
  <1>3. CASE GraceGoesBy \/ SocketReaped
    BY <1>3, SyncBesides
  <1>4. CASE AckArrives \/ AckLost
    BY <1>4, SyncAck, SyncAckLost
  <1>5. CASE ReadRules \/ ReadVersion
    BY <1>5, SyncReads
  <1>6. CASE SyncServerRestarts \/ SocketDies
    BY <1>6, SyncDown
  <1>7. CASE Connect \/ Heartbeat \/ AnswerLost
    BY <1>7, SyncHandOver
  <1>8. CASE HandleApplyPolicy \/ Repull \/ SyncAgentRestarts
    BY <1>8, SyncAsks
  <1>9. CASE PullArrives \/ PullFails
    BY <1>9, SyncEnds
  <1>10. CASE UNCHANGED syncVars
    BY <1>10
    DEF syncVars, SyncInv, SyncTypes, Numbered, InFrames, InAcks, RevisionsGrow, RulesRead,
        LateReadsRepeat, StaleIsPulled, AckedIsPulled, AllTold, Stale, StillToPull, ServedBy,
        PullBrings
  <1> QED  BY <1>1, <1>2, <1>3, <1>4, <1>5, <1>6, <1>7, <1>8, <1>9, <1>10 DEF SyncNext

\* Rules that are out of date are known to be (policy version, pending command,
\* socket push), however the links fail and whichever side restarts.
THEOREM StaleRulesAreKnown == SyncSpec => []NoSilentStale
  <1>1. SyncInv => NoSilentStale
    <2> SUFFICES ASSUME SyncInv, Stale, ~excused, untold = 0  PROVE OnItsWay
      BY DEF NoSilentStale, OnItsWay, SyncInv, SyncTypes
    <2>1. StillToPull \/ PullBrings
      BY DEF SyncInv, StaleIsPulled, AllTold
    <2> QED  BY <2>1 DEF StillToPull, PullBrings, RulesRead, OnItsWay, Idle
  <1> QED  BY <1>1, SyncInvInit, SyncInvStep, PTL DEF SyncSpec

-----------------------------------------------------------------------------

(***************************************************************************)
(* Lemmas about the buffer: a queue that is put together or cut in two.    *)
(***************************************************************************)

LEMMA ToSetOfConcat ==
  ASSUME NEW S, NEW s \in Seq(S), NEW t \in Seq(S)
  PROVE  /\ s \o t \in Seq(S)
         /\ ToSet(s \o t) = ToSet(s) \cup ToSet(t)
         /\ IsInjective(s \o t) <=>
              IsInjective(s) /\ IsInjective(t) /\ ToSet(s) \cap ToSet(t) = {}
  <1>1. /\ Len(s) \in Nat /\ Len(t) \in Nat
        /\ DOMAIN s = 1..Len(s) /\ DOMAIN t = 1..Len(t)
    BY LenProperties
  <1>2. /\ s \o t \in Seq(S) /\ DOMAIN (s \o t) = 1..(Len(s) + Len(t))
        /\ \A i \in 1..(Len(s) + Len(t)) :
             (s \o t)[i] = IF i <= Len(s) THEN s[i] ELSE t[i - Len(s)]
    BY ConcatProperties, LenProperties
  <1>3. \A i \in 1..Len(s) : i \in 1..(Len(s) + Len(t)) /\ (s \o t)[i] = s[i]
    BY <1>1, <1>2
  <1>4. ASSUME NEW j \in 1..Len(t)
        PROVE  /\ Len(s) + j \in 1..(Len(s) + Len(t)) /\ (s \o t)[Len(s) + j] = t[j]
               /\ Len(s) + j \notin 1..Len(s)
    <2>1. Len(s) + j \in 1..(Len(s) + Len(t)) /\ ~(Len(s) + j <= Len(s)) /\ (Len(s) + j) - Len(s) = j
      BY <1>1
    <2> QED  BY <1>1, <1>2, <2>1
  <1>5. ASSUME NEW i \in 1..(Len(s) + Len(t))
        PROVE  \/ i \in 1..Len(s)
               \/ \E j \in 1..Len(t) : i = Len(s) + j
    <2>1. CASE i <= Len(s)
      BY <1>1, <2>1
    <2>2. CASE ~(i <= Len(s))
      <3>1. i - Len(s) \in 1..Len(t) /\ i = Len(s) + (i - Len(s))
        BY <1>1, <2>2
      <3> QED  BY <3>1
    <2> QED  BY <2>1, <2>2
  <1>6. ToSet(s \o t) = ToSet(s) \cup ToSet(t)
    <2>1. ASSUME NEW i \in 1..(Len(s) + Len(t))
          PROVE  (s \o t)[i] \in ToSet(s) \cup ToSet(t)
      BY <1>1, <1>3, <1>4, <1>5 DEF ToSet
    <2>2. ASSUME NEW i \in 1..Len(s)  PROVE s[i] \in ToSet(s \o t)
      BY <1>2, <1>3 DEF ToSet
    <2>3. ASSUME NEW j \in 1..Len(t)  PROVE t[j] \in ToSet(s \o t)
      BY <1>2, <1>4 DEF ToSet
    <2>4. ToSet(s \o t) \subseteq ToSet(s) \cup ToSet(t)
      BY <1>2, <2>1 DEF ToSet
    <2>5. ToSet(s) \subseteq ToSet(s \o t)
      BY <1>1, <2>2 DEF ToSet
    <2>6. ToSet(t) \subseteq ToSet(s \o t)
      BY <1>1, <2>3 DEF ToSet
    <2> QED  BY <2>4, <2>5, <2>6
  <1>7. ASSUME IsInjective(s \o t)
        PROVE  IsInjective(s) /\ IsInjective(t) /\ ToSet(s) \cap ToSet(t) = {}
    <2>1. \A i, j \in 1..(Len(s) + Len(t)) : (s \o t)[i] = (s \o t)[j] => i = j
      BY <1>2, <1>7 DEF IsInjective
    <2>2. IsInjective(s)
      BY <1>1, <1>3, <2>1 DEF IsInjective
    <2>3. ASSUME NEW i \in 1..Len(t), NEW j \in 1..Len(t), t[i] = t[j]  PROVE i = j
      <3>1. Len(s) + i = Len(s) + j
        BY <1>4, <2>1, <2>3
      <3> QED  BY <1>1, <3>1
    <2>4. ASSUME NEW i \in 1..Len(s), NEW j \in 1..Len(t), s[i] = t[j]  PROVE FALSE
      <3>1. i = Len(s) + j
        BY <1>3, <1>4, <2>1, <2>4
      <3> QED  BY <1>4, <3>1
    <2> QED  BY <1>1, <2>2, <2>3, <2>4 DEF IsInjective, ToSet
  <1>8. ASSUME IsInjective(s), IsInjective(t), ToSet(s) \cap ToSet(t) = {}
        PROVE  IsInjective(s \o t)
    <2>1. \A i, j \in 1..Len(s) : s[i] = s[j] => i = j
      BY <1>1, <1>8 DEF IsInjective
    <2>2. \A i, j \in 1..Len(t) : t[i] = t[j] => i = j
      BY <1>1, <1>8 DEF IsInjective
    <2>3. \A i \in 1..Len(s), j \in 1..Len(t) : s[i] # t[j]
      BY <1>1, <1>8 DEF ToSet
    <2>4. ASSUME NEW i \in 1..(Len(s) + Len(t)), NEW j \in 1..(Len(s) + Len(t)),
                 (s \o t)[i] = (s \o t)[j]
          PROVE  i = j
      <3>1. \/ i \in 1..Len(s) /\ (s \o t)[i] = s[i]
            \/ \E k \in 1..Len(t) : i = Len(s) + k /\ (s \o t)[i] = t[k]
        BY <1>3, <1>4, <1>5
      <3>2. \/ j \in 1..Len(s) /\ (s \o t)[j] = s[j]
            \/ \E k \in 1..Len(t) : j = Len(s) + k /\ (s \o t)[j] = t[k]
        BY <1>3, <1>4, <1>5
      <3> QED  BY <2>1, <2>2, <2>3, <2>4, <3>1, <3>2
    <2> QED  BY <1>2, <2>4 DEF IsInjective
  <1> QED  BY <1>2, <1>6, <1>7, <1>8

\* A queue cut in two is the two put together.
LEMMA CutInTwo ==
  ASSUME NEW S, NEW q \in Seq(S), NEW k \in 0..Len(q)
  PROVE  /\ SubSeq(q, 1, k) \in Seq(S) /\ SubSeq(q, k + 1, Len(q)) \in Seq(S)
         /\ Len(SubSeq(q, 1, k)) = k
         /\ Len(SubSeq(q, k + 1, Len(q))) = Len(q) - k
         /\ SubSeq(q, 1, k) \o SubSeq(q, k + 1, Len(q)) = q
  <1>1. Len(q) \in Nat /\ k \in Nat /\ \A i \in 1..Len(q) : q[i] \in S
    BY LenProperties, ElementOfSeq
  <1>2. /\ SubSeq(q, 1, k) \in Seq(S)
        /\ Len(SubSeq(q, 1, k)) = IF 1 <= k THEN k - 1 + 1 ELSE 0
    BY <1>1, SubSeqProperties, 1 \in Int, k \in Int, \A i \in 1..k : q[i] \in S
  <1>3. /\ SubSeq(q, k + 1, Len(q)) \in Seq(S)
        /\ Len(SubSeq(q, k + 1, Len(q))) = IF k + 1 <= Len(q) THEN Len(q) - (k + 1) + 1 ELSE 0
    <2>1. k + 1 \in Int /\ Len(q) \in Int /\ \A i \in k + 1 .. Len(q) : q[i] \in S
      BY <1>1
    <2> QED  BY <2>1, SubSeqProperties
  <1>4. SubSeq(q, 1, k) \o SubSeq(q, k + 1, Len(q)) = SubSeq(q, 1, Len(q))
    <2>1. 1 \in 1..Len(q) + 1 /\ k \in 1 - 1 .. Len(q) /\ Len(q) \in k..Len(q)
      BY <1>1
    <2> QED  BY <2>1, ConcatAdjacentSubSeq
  <1>5. Len(SubSeq(q, 1, k)) = k /\ Len(SubSeq(q, k + 1, Len(q))) = Len(q) - k
    BY <1>1, <1>2, <1>3
  <1> QED  BY <1>2, <1>3, <1>4, <1>5, SubSeqFull

(***************************************************************************)
(* The inductive invariant of the events' way to the family.               *)
(***************************************************************************)

RequestSteps == {"free", "sent", "open", "committed"} \cup Ended
Requests == [evs : SUBSET Ids, at : Nat, pc : RequestSteps]

LogTypes ==
  /\ made \in 0..Events /\ posting \in {0} \cup Slots
  /\ pending \in Seq(Nat) /\ batch \in Seq(Nat)
  /\ requests \in [Slots -> Requests]
  /\ rows \in [Ids -> SUBSET Nat]
  /\ effects \in [Ids -> Nat] /\ told \in [Ids -> Nat]
  /\ tx \in Nat /\ since \in 0..tx /\ logFaults \in Nat

\* The buffer and the batch hold events that were made, each once.
BufferHolds ==
  /\ IsInjective(batch) /\ IsInjective(pending)
  /\ ToSet(batch) \cap ToSet(pending) = {}
  /\ ToSet(batch) \cup ToSet(pending) \subseteq 1..made
  /\ Len(pending) <= BufferCap

\* NoneVanishes, with the batch and the buffer apart.
Accounted ==
  \A e \in 1..made : rows[e] # {}
                     \/ e \in ToSet(batch) \cup ToSet(pending) \cup discarded \cup Invalid

\* The agent waits for a request that is there, which carries its batch, and
\* which the server records before it answers.
BatchIsPosted ==
  /\ posting = 0 => batch = <<>>
  /\ posting # 0 =>
       /\ requests[posting].pc # "free"
       /\ requests[posting].pc \in {"sent", "open"} => requests[posting].evs = ToSet(batch)
       /\ requests[posting].pc \in {"committed", "answered"} =>
            \A e \in ToSet(batch) : rows[e] # {} \/ e \in Invalid

\* An event has at most one row, of a transaction that began.
OneRow == \A e \in Ids : rows[e] = {} \/ \E n \in 1..tx : rows[e] = {n}

\* The side effects due are for rows that are there, once, from one request.
EffectsDue ==
  /\ \A r \in Slots : requests[r].pc = "open" => requests[r].at \in 1..tx
  /\ \A r \in Slots : requests[r].pc = "committed" =>
       \A e \in requests[r].evs : rows[e] # {} /\ effects[e] = 0
  /\ \A r, s \in Slots :
       r # s /\ requests[r].pc = "committed" /\ requests[s].pc = "committed" =>
         requests[r].evs \cap requests[s].evs = {}
EffectsDone == \A e \in Ids : effects[e] = 0 \/ (effects[e] = 1 /\ rows[e] # {})

\* What was told lies behind the alert worker's mark.
ToldIsBehind ==
  \A e \in Ids :
    told[e] = 0 \/ (told[e] = 1 /\ rows[e] # {} /\ \A at \in rows[e] : at <= since)

LogInv ==
  /\ LogTypes /\ BufferHolds /\ Accounted /\ BatchIsPosted /\ OneRow
  /\ EffectsDue /\ EffectsDone /\ ToldIsBehind

-----------------------------------------------------------------------------

\* An empty queue holds nothing.
LEMMA EmptyHolds == <<>> \in Seq(Nat) /\ ToSet(<<>>) = {} /\ IsInjective(<<>>) /\ Len(<<>>) = 0
BY DEF ToSet, IsInjective

\* The queue with one more at its end.
LEMMA AppendedHolds ==
  ASSUME NEW q \in Seq(Nat), NEW n \in Nat
  PROVE  /\ Append(q, n) \in Seq(Nat)
         /\ ToSet(Append(q, n)) = ToSet(q) \cup {n}
         /\ IsInjective(q) /\ n \notin ToSet(q) => IsInjective(Append(q, n))
  <1>1. <<n>> \in Seq(Nat) /\ ToSet(<<n>>) = {n} /\ IsInjective(<<n>>)
    <2>1. <<n>> \in Seq(Nat) /\ DOMAIN <<n>> = 1..1 /\ <<n>>[1] = n
      OBVIOUS
    <2>2. \A i \in DOMAIN <<n>> : i = 1
      BY <2>1
    <2> QED  BY <2>1, <2>2 DEF ToSet, IsInjective
  <1>2. Append(q, n) = q \o <<n>>
    BY AppendIsConcat
  <1>3. /\ q \o <<n>> \in Seq(Nat)
        /\ ToSet(q \o <<n>>) = ToSet(q) \cup ToSet(<<n>>)
        /\ IsInjective(q) /\ ToSet(q) \cap ToSet(<<n>>) = {} => IsInjective(q \o <<n>>)
    BY <1>1, ToSetOfConcat
  <1>4. n \notin ToSet(q) => ToSet(q) \cap ToSet(<<n>>) = {}
    BY <1>1
  <1> QED  BY <1>1, <1>2, <1>3, <1>4

\* cap_pending_events keeps the newest, and what it drops is accounted for.
LEMMA BufferIs ==
  ASSUME NEW q \in Seq(Nat), Buffer(q)
  PROVE  /\ pending' \in Seq(Nat) /\ Len(pending') <= BufferCap
         /\ IsInjective(q) => IsInjective(pending')
         /\ ToSet(pending') \subseteq ToSet(q)
         /\ ToSet(q) \subseteq ToSet(pending') \cup discarded'
         /\ discarded \subseteq discarded'
  <1>1. Len(q) \in Nat /\ BufferCap \in Nat
    BY LenProperties, EventLogAssumption
  <1>2. Excess(q) \in 0..Len(q) /\ Len(q) - Excess(q) <= BufferCap
    BY <1>1 DEF Excess
  <1> DEFINE old == SubSeq(q, 1, Excess(q))
  <1>3. /\ old \in Seq(Nat) /\ pending' \in Seq(Nat) /\ Len(pending') = Len(q) - Excess(q)
        /\ old \o pending' = q
    BY <1>2, CutInTwo DEF Buffer, Capped
  <1>4. discarded' = discarded \cup ToSet(old)
    BY DEF Buffer
  <1> HIDE DEF old
  <1>5. /\ ToSet(old \o pending') = ToSet(old) \cup ToSet(pending')
        /\ IsInjective(old \o pending') => IsInjective(pending')
    <2>1. old \in Seq(Nat) /\ pending' \in Seq(Nat)
      BY <1>3
    <2> QED  BY <2>1, ToSetOfConcat
  <1> QED  BY <1>2, <1>3, <1>4, <1>5

\* The agent is done with its request: it is free again, or goes on alone.
LEMMA StopWaitingIs ==
  ASSUME LogInv, StopWaiting
  PROVE  /\ posting' = 0 /\ batch' = <<>> /\ requests' \in [Slots -> Requests]
         /\ \A r \in Slots : requests'[r] = requests[r] \/ requests'[r].pc = "free"
  <1>1. NoRequest \in Requests /\ NoRequest.pc = "free"
    BY DEF NoRequest, Requests, RequestSteps
  <1>2. requests \in [Slots -> Requests]
    BY DEF LogInv, LogTypes
  <1>3. requests' = requests \/ requests' = [requests EXCEPT ![posting] = NoRequest]
    BY DEF StopWaiting
  <1> QED  BY <1>1, <1>2, <1>3 DEF StopWaiting

\* Where nothing is recorded and no transaction begun, what is due stays due.
LEMMA EffectsStayDue ==
  ASSUME EffectsDue, rows' = rows, effects' = effects, tx' = tx,
         \A r \in Slots : \/ requests'[r] = requests[r]
                          \/ requests'[r].pc \notin {"open", "committed"}
  PROVE  EffectsDue'
  <1>1. \A r \in Slots : requests'[r].pc \in {"open", "committed"} => requests'[r] = requests[r]
    OBVIOUS
  <1> QED  BY <1>1 DEF EffectsDue

\* What the agent does by itself leaves the record, the side effects and what
\* was told as they are.
LEMMA RecordStands ==
  ASSUME LogInv, UNCHANGED <<rows, effects, told, tx, since>>
  PROVE  OneRow' /\ EffectsDone' /\ ToldIsBehind'
BY DEF LogInv, OneRow, EffectsDone, ToldIsBehind

\* An event is made: the cap may push out the oldest.
LEMMA LogMake ==
  ASSUME LogInv, MakeEvent
  PROVE  LogInv'
  <1>1. /\ made < Events /\ made' = made + 1 /\ Buffer(Append(pending, made + 1))
        /\ UNCHANGED <<posting, batch, requests, rows, effects, tx, since, told, logFaults>>
    BY DEF MakeEvent
  <1>2. /\ made \in Nat /\ made' \in 0..Events /\ made + 1 \in Nat /\ made + 1 \notin 1..made
        /\ 1..made' = (1..made) \cup {made + 1}
    BY <1>1, EventLogAssumption DEF LogInv, LogTypes
  <1>3. /\ pending \in Seq(Nat) /\ IsInjective(pending)
        /\ IsInjective(batch) /\ ToSet(batch) \cap ToSet(pending) = {}
        /\ ToSet(batch) \cup ToSet(pending) \subseteq 1..made
    BY DEF LogInv, LogTypes, BufferHolds
  <1> DEFINE q == Append(pending, made + 1)
  <1>4. q \in Seq(Nat) /\ ToSet(q) = ToSet(pending) \cup {made + 1} /\ IsInjective(q)
    BY <1>2, <1>3, AppendedHolds
  <1>5. Buffer(q)
    BY <1>1
  <1> HIDE DEF q
  <1>6. /\ pending' \in Seq(Nat) /\ Len(pending') <= BufferCap /\ IsInjective(pending')
        /\ ToSet(pending') \subseteq ToSet(q)
        /\ ToSet(q) \subseteq ToSet(pending') \cup discarded' /\ discarded \subseteq discarded'
    BY <1>4, <1>5, BufferIs
  <1>7. LogTypes'
    BY <1>1, <1>2, <1>6 DEF LogInv, LogTypes
  <1>8. BufferHolds'
    <2>1. /\ ToSet(batch)' = ToSet(batch)
          /\ ToSet(batch) \cap ToSet(pending)' = {}
          /\ ToSet(batch) \cup ToSet(pending)' \subseteq 1..made'
      BY <1>1, <1>2, <1>3, <1>4, <1>6 DEF ToSet
    <2> QED  BY <1>1, <1>3, <1>6, <2>1 DEF BufferHolds, IsInjective
  <1>9. Accounted'
    <2>1. \A e \in 1..made : rows[e] # {}
             \/ e \in ToSet(batch) \cup ToSet(pending) \cup discarded \cup Invalid
      BY DEF LogInv, Accounted
    <2>2. ToSet(batch)' = ToSet(batch) /\ rows' = rows
      BY <1>1 DEF ToSet
    <2>3. ToSet(pending) \cup {made + 1} \subseteq ToSet(pending)' \cup discarded'
      BY <1>4, <1>6 DEF ToSet
    <2> QED  BY <1>2, <1>6, <2>1, <2>2, <2>3 DEF Accounted
  <1>10. BatchIsPosted'
    BY <1>1 DEF LogInv, BatchIsPosted
  <1>11. EffectsDue'
    BY <1>1, EffectsStayDue DEF LogInv
  <1> QED  BY <1>1, <1>7, <1>8, <1>9, <1>10, <1>11, RecordStands DEF LogInv

\* A batch is cut from the front of the buffer and posted.
LEMMA LogFlush ==
  ASSUME LogInv, Flush
  PROVE  LogInv'
  <1>1. /\ posting = 0 /\ batch' = Take(pending)
        /\ pending' = SubSeq(pending, Len(batch') + 1, Len(pending))
        /\ UNCHANGED <<made, rows, effects, discarded, tx, since, told, logFaults>>
    BY DEF Flush
  <1>2. PICK r \in Slots :
          /\ requests[r].pc = "free" /\ posting' = r
          /\ requests' = [requests EXCEPT ![r] = [evs |-> ToSet(batch'), at |-> 0, pc |-> "sent"]]
    BY DEF Flush
  <1>3. /\ pending \in Seq(Nat) /\ IsInjective(pending) /\ ToSet(pending) \subseteq 1..made
        /\ Len(pending) \in Nat /\ Len(pending) <= BufferCap /\ BufferCap \in Nat
        /\ BatchMax \in Nat /\ made \in 0..Events
    BY EventLogAssumption, LenProperties DEF LogInv, LogTypes, BufferHolds
  <1>4. PICK k \in 0..Len(pending) : batch' = SubSeq(pending, 1, k)
    <2>1. (IF Len(pending) > BatchMax THEN BatchMax ELSE Len(pending)) \in 0..Len(pending)
      BY <1>3
    <2> QED  BY <1>1, <2>1 DEF Take
  <1>5. /\ batch' \in Seq(Nat) /\ pending' \in Seq(Nat) /\ Len(pending') = Len(pending) - k
        /\ batch' \o pending' = pending
    <2>1. Len(batch') = k
      BY <1>3, <1>4, CutInTwo
    <2>2. pending' = SubSeq(pending, k + 1, Len(pending))
      BY <1>1, <2>1
    <2> QED  BY <1>3, <1>4, <2>2, CutInTwo
  <1>6. /\ ToSet(pending) = ToSet(batch') \cup ToSet(pending')
        /\ IsInjective(batch') /\ IsInjective(pending') /\ ToSet(batch') \cap ToSet(pending') = {}
    <2>1. batch' \in Seq(Nat) /\ pending' \in Seq(Nat)
      BY <1>5
    <2>2. /\ ToSet(batch' \o pending') = ToSet(batch') \cup ToSet(pending')
          /\ IsInjective(batch' \o pending') <=>
               /\ IsInjective(batch') /\ IsInjective(pending')
               /\ ToSet(batch') \cap ToSet(pending') = {}
      BY <2>1, ToSetOfConcat
    <2> QED  BY <1>3, <1>5, <2>2
  <1>7. /\ requests' \in [Slots -> Requests]
        /\ requests'[r] = [evs |-> ToSet(batch'), at |-> 0, pc |-> "sent"]
        /\ \A s \in Slots \ {r} : requests'[s] = requests[s]
    <2>1. ToSet(batch') \in SUBSET Ids
      BY <1>3, <1>6, EventLogAssumption DEF Ids
    <2>2. [evs |-> ToSet(batch'), at |-> 0, pc |-> "sent"] \in Requests
      BY <2>1 DEF Requests, RequestSteps
    <2>3. requests \in [Slots -> Requests]
      BY DEF LogInv, LogTypes
    <2> QED  BY <1>2, <2>2, <2>3
  <1>8. LogTypes'
    <2>1. posting' \in {0} \cup Slots
      BY <1>2
    <2> QED  BY <1>1, <1>5, <1>7, <2>1 DEF LogInv, LogTypes
  <1>9. BufferHolds'
    <2>1. ToSet(batch') \cup ToSet(pending') \subseteq 1..made'
      BY <1>1, <1>3, <1>6
    <2>2. Len(pending') <= BufferCap
      BY <1>3, <1>4, <1>5
    <2> QED  BY <1>6, <2>1, <2>2 DEF BufferHolds, IsInjective, ToSet
  <1>10. Accounted'
    <2>1. ToSet(batch) = {}
      BY <1>1, EmptyHolds DEF LogInv, BatchIsPosted
    <2>2. ToSet(batch)' = ToSet(batch') /\ ToSet(pending)' = ToSet(pending')
      BY DEF ToSet
    <2> QED  BY <1>1, <1>6, <2>1, <2>2 DEF LogInv, Accounted
  <1>11. BatchIsPosted'
    <2>1. requests'[posting'] = [evs |-> ToSet(batch'), at |-> 0, pc |-> "sent"] /\ posting' # 0
      BY <1>2, <1>7 DEF Slots
    <2> QED  BY <2>1 DEF BatchIsPosted, ToSet
  <1>12. EffectsDue'
    <2>1. \A s \in Slots : requests'[s] = requests[s]
                           \/ requests'[s].pc \notin {"open", "committed"}
      BY <1>7
    <2> QED  BY <1>1, <2>1, EffectsStayDue DEF LogInv
  <1> QED  BY <1>1, <1>8, <1>9, <1>10, <1>11, <1>12, RecordStands DEF LogInv

\* The agent stops waiting: its batch was recorded, goes back to the front of
\* the buffer, or is lost with the agent's memory.
LEMMA LogStops ==
  ASSUME LogInv, PostAnswered \/ PostFails \/ AgentForgets
  PROVE  LogInv'
  <1>1. /\ StopWaiting /\ UNCHANGED <<made, rows, effects, tx, since, told>>
        /\ logFaults' = logFaults \/ logFaults' = logFaults + 1
    BY DEF PostAnswered, PostFails, AgentForgets
  <1>2. /\ posting' = 0 /\ batch' = <<>> /\ requests' \in [Slots -> Requests]
        /\ \A r \in Slots : requests'[r] = requests[r] \/ requests'[r].pc = "free"
    BY <1>1, StopWaitingIs
  <1>3. /\ pending \in Seq(Nat) /\ batch \in Seq(Nat)
        /\ IsInjective(batch) /\ IsInjective(pending) /\ ToSet(batch) \cap ToSet(pending) = {}
        /\ ToSet(batch) \cup ToSet(pending) \subseteq 1..made /\ Len(pending) <= BufferCap
    BY DEF LogInv, LogTypes, BufferHolds
  <1>4. /\ batch \o pending \in Seq(Nat) /\ IsInjective(batch \o pending)
        /\ ToSet(batch \o pending) = ToSet(batch) \cup ToSet(pending)
    BY <1>3, ToSetOfConcat
  <1>5. /\ pending' \in Seq(Nat) /\ IsInjective(pending') /\ Len(pending') <= BufferCap
        /\ ToSet(pending') \subseteq ToSet(batch) \cup ToSet(pending)
        /\ \A e \in ToSet(batch) \cup ToSet(pending) :
             e \in ToSet(pending') \cup discarded' \cup Invalid \/ rows[e] # {}
        /\ discarded \subseteq discarded'
    <2>1. CASE PostAnswered
      <3>1. /\ posting # 0 /\ requests[posting].pc = "answered"
            /\ UNCHANGED <<pending, discarded>>
        BY <2>1 DEF PostAnswered
      <3>2. \A e \in ToSet(batch) : rows[e] # {} \/ e \in Invalid
        BY <3>1 DEF LogInv, BatchIsPosted
      <3> QED  BY <1>3, <3>1, <3>2
    <2>2. CASE PostFails
      <3>1. Buffer(batch \o pending)
        BY <2>2 DEF PostFails
      <3> HIDE DEF Buffer
      <3> QED  BY <1>4, <3>1, BufferIs
    <2>3. CASE AgentForgets
      <3>1. pending' = <<>> /\ discarded' = discarded \cup ToSet(batch \o pending)
        BY <2>3 DEF AgentForgets
      <3>2. 0 <= BufferCap
        BY EventLogAssumption
      <3> QED  BY <1>4, <3>1, <3>2, EmptyHolds
    <2> QED  BY <2>1, <2>2, <2>3
  <1>6. LogTypes'
    <2>1. logFaults' \in Nat
      BY <1>1 DEF LogInv, LogTypes
    <2> QED  BY <1>1, <1>2, <1>5, <2>1, EmptyHolds DEF LogInv, LogTypes
  <1>7. BufferHolds'
    <2>1. /\ ToSet(batch') = {} /\ IsInjective(batch')
          /\ ToSet(batch') \cap ToSet(pending') = {}
          /\ ToSet(batch') \cup ToSet(pending') \subseteq 1..made'
      BY <1>1, <1>2, <1>3, <1>5, EmptyHolds
    <2> QED  BY <1>5, <2>1 DEF BufferHolds, ToSet, IsInjective
  <1>8. Accounted'
    <2>1. ToSet(pending)' = ToSet(pending')
      BY DEF ToSet
    <2> QED  BY <1>1, <1>5, <2>1 DEF LogInv, Accounted
  <1>9. BatchIsPosted' /\ EffectsDue'
    <2>1. \A s \in Slots : requests'[s] = requests[s]
                           \/ requests'[s].pc \notin {"open", "committed"}
      BY <1>2
    <2> QED  BY <1>1, <1>2, <2>1, EffectsStayDue DEF LogInv, BatchIsPosted
  <1> QED  BY <1>1, <1>6, <1>7, <1>8, <1>9, RecordStands DEF LogInv

\* What the server does leaves the buffer as it is, and takes nothing off the
\* record.
LEMMA BufferStands ==
  ASSUME LogInv, UNCHANGED <<made, pending, batch, discarded>>,
         \A e \in Ids : rows[e] # {} => rows'[e] # {}
  PROVE  BufferHolds' /\ Accounted'
  <1>1. 1..made \subseteq Ids
    BY EventLogAssumption DEF LogInv, LogTypes, Ids
  <1>2. BufferHolds'
    BY DEF LogInv, BufferHolds, ToSet, IsInjective
  <1>3. ToSet(batch)' = ToSet(batch) /\ ToSet(pending)' = ToSet(pending)
    BY DEF ToSet
  <1> QED  BY <1>1, <1>2, <1>3 DEF LogInv, Accounted

\* Where a request is once the server is done with it.
LEMMA AfterItIs ==
  ASSUME LogInv, NEW r \in Slots, NEW pc \in Ended, requests' = AfterIt(r, pc)
  PROVE  /\ requests' \in [Slots -> Requests]
         /\ \A s \in Slots \ {r} : requests'[s] = requests[s]
         /\ requests'[r].pc = (IF posting = r THEN pc ELSE "free")
  <1>1. /\ requests \in [Slots -> Requests] /\ requests[r] \in Requests
        /\ NoRequest \in Requests /\ NoRequest.pc = "free"
    BY DEF LogInv, LogTypes, NoRequest, Requests, RequestSteps
  <1> DEFINE ended == [requests[r] EXCEPT !.pc = pc]
  <1>2. ended \in Requests /\ ended.pc = pc
    BY <1>1 DEF Requests, RequestSteps
  <1>3. requests' = [requests EXCEPT ![r] = IF posting = r THEN ended ELSE NoRequest]
    BY DEF AfterIt
  <1> HIDE DEF ended
  <1> QED  BY <1>1, <1>2, <1>3

\* The request the agent waits for, where the server is done with another one.
LEMMA StillPosted ==
  ASSUME LogInv, NEW r \in Slots, NEW pc \in Ended,
         UNCHANGED <<posting, batch, rows>>,
         \A s \in Slots \ {r} : requests'[s] = requests[s],
         requests'[r].pc = (IF posting = r THEN pc ELSE "free"),
         pc = "answered" => requests[r].pc = "committed"
  PROVE  BatchIsPosted'
  <1>1. CASE posting = 0
    BY <1>1 DEF LogInv, BatchIsPosted
  <1>2. CASE posting # 0 /\ posting # r
    <2>1. requests'[posting'] = requests[posting] /\ posting' = posting
      BY <1>2 DEF LogInv, LogTypes
    <2>2. ToSet(batch)' = ToSet(batch)
      BY DEF ToSet
    <2> QED  BY <1>2, <2>1, <2>2 DEF LogInv, BatchIsPosted, ToSet
  <1>3. CASE posting # 0 /\ posting = r
    <2>1. requests'[posting'].pc = pc /\ pc \in {"failed", "answered"} /\ posting' = posting
      BY <1>3 DEF Ended
    <2>2. pc = "answered" => \A e \in ToSet(batch) : rows[e] # {} \/ e \in Invalid
      BY <1>3 DEF LogInv, BatchIsPosted
    <2>3. ToSet(batch)' = ToSet(batch)
      BY DEF ToSet
    <2> QED  BY <1>3, <2>1, <2>2, <2>3 DEF BatchIsPosted
  <1> QED  BY <1>1, <1>2, <1>3

\* A request is lost, or its batch is refused, before any of it is recorded.
LEMMA LogRefused ==
  ASSUME LogInv, NEW r \in Slots, RequestLost(r) \/ BeginBatch(r),
         requests' = AfterIt(r, "failed"), tx' = tx
  PROVE  LogInv'
  <1>1. /\ UNCHANGED <<made, pending, posting, batch, rows, effects, discarded, since, told>>
        /\ logFaults' = logFaults \/ logFaults' = logFaults + 1
    BY DEF RequestLost, BeginBatch
  <1>2. /\ requests' \in [Slots -> Requests]
        /\ \A s \in Slots \ {r} : requests'[s] = requests[s]
        /\ requests'[r].pc = (IF posting = r THEN "failed" ELSE "free")
    BY AfterItIs DEF Ended
  <1>3. LogTypes'
    <2>1. logFaults' \in Nat
      BY <1>1 DEF LogInv, LogTypes
    <2> QED  BY <1>1, <1>2, <2>1 DEF LogInv, LogTypes
  <1>4. BufferHolds' /\ Accounted'
    BY <1>1, BufferStands
  <1>5. BatchIsPosted'
    BY <1>1, <1>2, StillPosted DEF Ended
  <1>6. EffectsDue'
    <2>1. \A s \in Slots : requests'[s] = requests[s]
                           \/ requests'[s].pc \notin {"open", "committed"}
      BY <1>2
    <2> QED  BY <1>1, <2>1, EffectsStayDue DEF LogInv
  <1> QED  BY <1>1, <1>3, <1>4, <1>5, <1>6, RecordStands DEF LogInv

\* A batch the server takes begins a transaction of its own.
LEMMA LogBegins ==
  ASSUME LogInv, NEW r \in Slots, BeginBatch(r), tx' # tx
  PROVE  LogInv'
  <1>1. /\ requests[r].pc = "sent" /\ tx' = tx + 1
        /\ requests' = [requests EXCEPT ![r].pc = "open", ![r].at = tx + 1]
        /\ UNCHANGED <<made, pending, posting, batch, rows, effects, discarded, since, told,
                       logFaults>>
    BY DEF BeginBatch
  <1>2. /\ requests \in [Slots -> Requests] /\ requests[r] \in Requests
        /\ tx \in Nat /\ since \in 0..tx
    BY DEF LogInv, LogTypes
  <1>3. /\ requests' \in [Slots -> Requests]
        /\ \A s \in Slots \ {r} : requests'[s] = requests[s]
        /\ requests'[r].pc = "open" /\ requests'[r].at = tx + 1
        /\ requests'[r].evs = requests[r].evs
    <2> DEFINE opened == [evs |-> requests[r].evs, at |-> tx + 1, pc |-> "open"]
    <2>1. opened \in Requests
      BY <1>2 DEF Requests, RequestSteps
    <2>2. requests' = [requests EXCEPT ![r] = [@ EXCEPT !.pc = "open", !.at = tx + 1]]
      BY <1>1, <1>2
    <2>3. [requests[r] EXCEPT !.pc = "open", !.at = tx + 1] = opened
      <3> DEFINE midway == [evs |-> requests[r].evs, at |-> requests[r].at, pc |-> "open"]
      <3>1. [requests[r] EXCEPT !.pc = "open"] = midway
        BY <1>2 DEF Requests
      <3>2. [midway EXCEPT !.at = tx + 1] = opened
        OBVIOUS
      <3> HIDE DEF midway, opened
      <3> QED  BY <3>1, <3>2
    <2>4. requests' = [requests EXCEPT ![r] = opened]
      BY <2>2, <2>3
    <2>5. opened.pc = "open" /\ opened.at = tx + 1 /\ opened.evs = requests[r].evs
      OBVIOUS
    <2> HIDE DEF opened
    <2> QED  BY <1>2, <2>1, <2>4, <2>5
  <1>4. LogTypes'
    <2>1. tx' \in Nat /\ since' \in 0..tx'
      BY <1>1, <1>2
    <2> QED  BY <1>1, <1>3, <2>1 DEF LogInv, LogTypes
  <1>5. BufferHolds' /\ Accounted'
    BY <1>1, BufferStands
  <1>6. BatchIsPosted'
    <2>1. ToSet(batch)' = ToSet(batch)
      BY <1>1 DEF ToSet
    <2>2. CASE posting = r
      BY <1>1, <1>3, <2>1, <2>2 DEF LogInv, BatchIsPosted, Slots
    <2>3. CASE posting # r /\ posting # 0
      <3>1. requests'[posting'] = requests[posting]
        BY <1>1, <1>3, <2>3 DEF LogInv, LogTypes
      <3> QED  BY <1>1, <2>1, <2>3, <3>1 DEF LogInv, BatchIsPosted
    <2>4. CASE posting = 0
      BY <1>1, <2>4 DEF LogInv, BatchIsPosted
    <2> QED  BY <2>2, <2>3, <2>4
  <1>7. OneRow'
    <2>1. 1..tx \subseteq 1..tx'
      BY <1>1, <1>2
    <2> QED  BY <1>1, <2>1 DEF LogInv, OneRow
  <1>8. EffectsDue'
    <2>1. \A s \in Slots : requests'[s].pc = "committed" => requests'[s] = requests[s]
      BY <1>3
    <2>2. \A s \in Slots : requests'[s].pc = "open" => requests'[s].at \in 1..tx'
      BY <1>1, <1>2, <1>3 DEF LogInv, EffectsDue
    <2>3. \A s \in Slots : requests'[s].pc = "committed" =>
            \A e \in requests'[s].evs : rows'[e] # {} /\ effects'[e] = 0
      BY <1>1, <2>1 DEF LogInv, EffectsDue
    <2>4. ASSUME NEW s \in Slots, NEW u \in Slots, s # u,
                 requests'[s].pc = "committed", requests'[u].pc = "committed"
          PROVE  requests'[s].evs \cap requests'[u].evs = {}
      BY <2>1, <2>4 DEF LogInv, EffectsDue
    <2> QED  BY <2>2, <2>3, <2>4 DEF EffectsDue
  <1>9. EffectsDone' /\ ToldIsBehind'
    BY <1>1 DEF LogInv, EffectsDone, ToldIsBehind
  <1> QED  BY <1>4, <1>5, <1>6, <1>7, <1>8, <1>9 DEF LogInv

\* The commit records what is new of a batch, under its transaction's time.
LEMMA LogCommits ==
  ASSUME LogInv, NEW r \in Slots, CommitBatch(r)
  PROVE  LogInv'
  <1> DEFINE new == Fresh(requests[r].evs)
  <1>1. /\ requests[r].pc = "open"
        /\ rows' = [e \in Ids |-> IF e \in new THEN rows[e] \cup {requests[r].at} ELSE rows[e]]
        /\ requests' = [requests EXCEPT ![r].pc = "committed", ![r].evs = new]
        /\ UNCHANGED <<made, pending, posting, batch, effects, discarded, tx, since, told,
                       logFaults>>
    BY DEF CommitBatch
  <1>2. /\ requests \in [Slots -> Requests] /\ requests[r] \in Requests
        /\ rows \in [Ids -> SUBSET Nat] /\ tx \in Nat
        /\ requests[r].evs \subseteq Ids
    BY DEF LogInv, LogTypes, Requests
  <1>3. /\ new \subseteq requests[r].evs /\ new \subseteq Ids
        /\ \A e \in new : rows[e] = {}
        /\ \A e \in requests[r].evs : e \in new \/ e \in Invalid \/ rows[e] # {}
    BY <1>2 DEF Fresh
  <1>4. requests[r].at \in 1..tx
    BY <1>1 DEF LogInv, EffectsDue
  <1> HIDE DEF new
  <1>5. /\ rows' \in [Ids -> SUBSET Nat]
        /\ \A e \in new : rows'[e] = {requests[r].at}
        /\ \A e \in Ids \ new : rows'[e] = rows[e]
    BY <1>1, <1>2, <1>3, <1>4
  <1>6. \A e \in Ids : rows[e] # {} => rows'[e] = rows[e]
    BY <1>3, <1>5
  <1>7. /\ requests' \in [Slots -> Requests]
        /\ \A s \in Slots \ {r} : requests'[s] = requests[s]
        /\ requests'[r].pc = "committed" /\ requests'[r].evs = new
    <2> DEFINE midway == [evs |-> requests[r].evs, at |-> requests[r].at, pc |-> "committed"]
               kept == [evs |-> new, at |-> requests[r].at, pc |-> "committed"]
    <2>1. kept \in Requests
      BY <1>2, <1>3 DEF Requests, RequestSteps
    <2>2. requests' = [requests EXCEPT ![r] = [@ EXCEPT !.pc = "committed", !.evs = new]]
      BY <1>1, <1>2
    <2>3. [requests[r] EXCEPT !.pc = "committed", !.evs = new] = kept
      <3>1. [requests[r] EXCEPT !.pc = "committed"] = midway
        BY <1>2 DEF Requests
      <3>2. [midway EXCEPT !.evs = new] = kept
        OBVIOUS
      <3> HIDE DEF midway, kept
      <3> QED  BY <3>1, <3>2
    <2>4. requests' = [requests EXCEPT ![r] = kept]
      BY <2>2, <2>3
    <2>5. kept.pc = "committed" /\ kept.evs = new
      OBVIOUS
    <2> HIDE DEF kept
    <2> QED  BY <1>2, <2>1, <2>4, <2>5
  <1>8. LogTypes'
    BY <1>1, <1>5, <1>7 DEF LogInv, LogTypes
  <1>9. BufferHolds' /\ Accounted'
    BY <1>1, <1>6, BufferStands
  <1>10. BatchIsPosted'
    <2>1. ToSet(batch)' = ToSet(batch)
      BY <1>1 DEF ToSet
    <2>2. ToSet(batch) \subseteq Ids
      BY EventLogAssumption DEF LogInv, LogTypes, BufferHolds, Ids
    <2>3. CASE posting = r
      <3>1. requests[r].evs = ToSet(batch)
        BY <1>1, <2>3 DEF LogInv, BatchIsPosted, Slots
      <3>2. \A e \in ToSet(batch) : rows'[e] # {} \/ e \in Invalid
        BY <1>3, <1>5, <1>6, <2>2, <3>1
      <3>3. requests'[posting'].pc = "committed" /\ posting' # 0
        BY <1>1, <1>7, <2>3 DEF Slots
      <3> QED  BY <2>1, <3>2, <3>3 DEF BatchIsPosted
    <2>4. CASE posting # r /\ posting # 0
      <3>1. requests'[posting'] = requests[posting]
        BY <1>1, <1>7, <2>4 DEF LogInv, LogTypes
      <3> QED  BY <1>1, <1>6, <2>1, <2>2, <2>4, <3>1 DEF LogInv, BatchIsPosted
    <2>5. CASE posting = 0
      BY <1>1, <2>5 DEF LogInv, BatchIsPosted
    <2> QED  BY <2>3, <2>4, <2>5
  <1>11. OneRow'
    BY <1>1, <1>4, <1>5 DEF LogInv, OneRow
  <1>12. EffectsDue'
    <2>1. \A s \in Slots : requests'[s].pc = "open" => requests'[s].at \in 1..tx'
      BY <1>1, <1>7 DEF LogInv, EffectsDue
    <2>2. \A e \in new : rows'[e] # {} /\ effects[e] = 0
      BY <1>3, <1>5 DEF LogInv, EffectsDone
    <2>3. ASSUME NEW s \in Slots \ {r}, requests[s].pc = "committed"
          PROVE  /\ \A e \in requests[s].evs : rows'[e] # {} /\ effects[e] = 0
                 /\ requests[s].evs \cap new = {}
      <3>1. requests[s].evs \subseteq Ids
        BY <1>2 DEF Requests
      <3> QED  BY <1>3, <1>6, <2>3, <3>1 DEF LogInv, EffectsDue
    <2>4. ASSUME NEW s \in Slots, requests'[s].pc = "committed"
          PROVE  \A e \in requests'[s].evs : rows'[e] # {} /\ effects'[e] = 0
      <3>1. effects' = effects
        BY <1>1
      <3>2. CASE s = r
        BY <1>7, <2>2, <3>1, <3>2
      <3>3. CASE s # r
        BY <1>7, <2>3, <2>4, <3>1, <3>3
      <3> QED  BY <3>2, <3>3
    <2>5. ASSUME NEW s \in Slots, NEW u \in Slots, s # u,
                 requests'[s].pc = "committed", requests'[u].pc = "committed"
          PROVE  requests'[s].evs \cap requests'[u].evs = {}
      <3>1. CASE s = r
        BY <1>7, <2>3, <2>5, <3>1
      <3>2. CASE u = r
        BY <1>7, <2>3, <2>5, <3>2
      <3>3. CASE s # r /\ u # r
        BY <1>7, <2>5, <3>3 DEF LogInv, EffectsDue
      <3> QED  BY <3>1, <3>2, <3>3
    <2> QED  BY <2>1, <2>4, <2>5 DEF EffectsDue
  <1>13. EffectsDone'
    BY <1>1, <1>6 DEF LogInv, EffectsDone
  <1>14. ToldIsBehind'
    BY <1>1, <1>6 DEF LogInv, ToldIsBehind
  <1> QED  BY <1>8, <1>9, <1>10, <1>11, <1>12, <1>13, <1>14 DEF LogInv

\* The side effects of a committed batch are carried out: once.
LEMMA LogEffects ==
  ASSUME LogInv, NEW r \in Slots, SideEffects(r)
  PROVE  LogInv'
  <1>1. /\ requests[r].pc = "committed" /\ requests' = AfterIt(r, "answered")
        /\ effects' = [e \in Ids |-> effects[e] + (IF e \in requests[r].evs THEN 1 ELSE 0)]
        /\ UNCHANGED <<made, pending, posting, batch, rows, discarded, tx, since, told, logFaults>>
    BY DEF SideEffects
  <1>2. /\ requests' \in [Slots -> Requests]
        /\ \A s \in Slots \ {r} : requests'[s] = requests[s]
        /\ requests'[r].pc = (IF posting = r THEN "answered" ELSE "free")
    BY <1>1, AfterItIs DEF Ended
  <1>3. /\ effects \in [Ids -> Nat] /\ effects' \in [Ids -> Nat]
        /\ \A e \in Ids : e \notin requests[r].evs => effects'[e] = effects[e]
        /\ \A e \in Ids : e \in requests[r].evs => effects'[e] = effects[e] + 1
    BY <1>1 DEF LogInv, LogTypes
  <1>4. /\ \A e \in requests[r].evs : rows[e] # {} /\ effects[e] = 0
        /\ \A s \in Slots \ {r} : requests[s].pc = "committed" =>
             requests[r].evs \cap requests[s].evs = {}
    BY <1>1 DEF LogInv, EffectsDue
  <1>5. LogTypes'
    BY <1>1, <1>2, <1>3 DEF LogInv, LogTypes
  <1>6. BufferHolds' /\ Accounted'
    BY <1>1, BufferStands
  <1>7. BatchIsPosted'
    BY <1>1, <1>2, StillPosted DEF Ended
  <1>8. EffectsDue'
    <2>1. \A s \in Slots : requests'[s].pc \in {"open", "committed"} =>
                             s # r /\ requests'[s] = requests[s]
      BY <1>2
    <2>2. \A s \in Slots : requests[s].evs \subseteq Ids
      BY DEF LogInv, LogTypes, Requests
    <2>3. ASSUME NEW s \in Slots, requests'[s].pc = "committed"
          PROVE  \A e \in requests'[s].evs : rows'[e] # {} /\ effects'[e] = 0
      <3>1. /\ s # r /\ requests'[s] = requests[s] /\ requests[s].pc = "committed"
        BY <2>1, <2>3
      <3>2. \A e \in requests[s].evs : rows[e] # {} /\ effects[e] = 0 /\ e \notin requests[r].evs
        BY <1>4, <3>1 DEF LogInv, EffectsDue
      <3> QED  BY <1>1, <1>3, <2>2, <3>1, <3>2
    <2> QED  BY <1>1, <2>1, <2>3 DEF LogInv, EffectsDue
  <1>9. EffectsDone'
    <2>1. ASSUME NEW e \in Ids  PROVE effects'[e] = 0 \/ (effects'[e] = 1 /\ rows'[e] # {})
      BY <1>1, <1>3, <1>4 DEF LogInv, EffectsDone
    <2> QED  BY <2>1 DEF EffectsDone
  <1>10. OneRow' /\ ToldIsBehind'
    BY <1>1 DEF LogInv, OneRow, ToldIsBehind
  <1> QED  BY <1>5, <1>6, <1>7, <1>8, <1>9, <1>10 DEF LogInv

\* A restart ends what was under way: the rows stay, and what was told of them
\* lies behind the new mark.
LEMMA LogRestarts ==
  ASSUME LogInv, ServerRestarts
  PROVE  LogInv'
  <1>1. /\ logFaults' = logFaults + 1 /\ since' = tx
        /\ requests' = [r \in Slots |-> IF posting = r THEN [NoRequest EXCEPT !.pc = "failed"]
                                        ELSE NoRequest]
        /\ UNCHANGED <<made, pending, posting, batch, rows, effects, discarded, tx, told>>
    BY DEF ServerRestarts
  <1>2. /\ requests' \in [Slots -> Requests]
        /\ \A r \in Slots : requests'[r].pc = IF posting = r THEN "failed" ELSE "free"
    BY <1>1 DEF NoRequest, Requests, RequestSteps, Ended
  <1>3. LogTypes'
    <2>1. logFaults' \in Nat /\ since' \in 0..tx'
      BY <1>1 DEF LogInv, LogTypes
    <2> QED  BY <1>1, <1>2, <2>1 DEF LogInv, LogTypes
  <1>4. BufferHolds' /\ Accounted'
    BY <1>1, BufferStands
  <1>5. BatchIsPosted'
    <2>1. posting' # 0 => requests'[posting'].pc = "failed"
      BY <1>1, <1>2 DEF LogInv, LogTypes
    <2> QED  BY <1>1, <2>1 DEF LogInv, BatchIsPosted
  <1>6. EffectsDue'
    <2>1. \A s \in Slots : requests'[s].pc \notin {"open", "committed"}
      BY <1>2
    <2> QED  BY <1>1, <2>1, EffectsStayDue DEF LogInv
  <1>7. ToldIsBehind'
    <2>1. ASSUME NEW e \in Ids, NEW at \in rows[e]  PROVE at <= tx
      <3>1. tx \in Nat
        BY DEF LogInv, LogTypes
      <3> QED  BY <2>1, <3>1 DEF LogInv, OneRow
    <2> QED  BY <1>1, <2>1 DEF LogInv, ToldIsBehind
  <1>8. OneRow' /\ EffectsDone'
    BY <1>1 DEF LogInv, OneRow, EffectsDone
  <1> QED  BY <1>3, <1>4, <1>5, <1>6, <1>7, <1>8 DEF LogInv

\* A drain tells of rows past the mark, and moves the mark to the newest of
\* them.
LEMMA LogDrain ==
  ASSUME LogInv, DrainAlerts
  PROVE  LogInv'
  <1>1. UNCHANGED <<made, pending, posting, batch, requests, rows, effects, discarded, tx,
                    logFaults>>
    BY DEF DrainAlerts
  <1>2. PICK heard \in SUBSET Unheard :
          /\ told' = [e \in Ids |-> told[e] + (IF e \in heard THEN 1 ELSE 0)]
          /\ \E last \in heard : /\ \A e \in heard : StampOf(e) <= StampOf(last)
                                /\ since' = StampOf(last)
    BY DEF DrainAlerts
  <1>3. PICK last \in heard : /\ \A e \in heard : StampOf(e) <= StampOf(last)
                             /\ since' = StampOf(last)
    BY <1>2
  <1>4. /\ tx \in Nat /\ since \in 0..tx
        /\ \A e \in Ids : rows[e] = {} \/ \E n \in 1..tx : rows[e] = {n}
        /\ told \in [Ids -> Nat]
    BY DEF LogInv, LogTypes, OneRow
  <1>5. ASSUME NEW e \in heard
        PROVE  /\ e \in Ids /\ StampOf(e) \in 1..tx /\ rows[e] = {StampOf(e)}
               /\ StampOf(e) > since
    <2>1. e \in Critical /\ rows[e] # {} /\ StampOf(e) > since
      BY DEF Unheard
    <2>2. e \in Ids
      BY <2>1, EventLogAssumption
    <2>3. PICK n \in 1..tx : rows[e] = {n}
      BY <1>4, <2>1, <2>2
    <2>4. StampOf(e) = n
      BY <2>3 DEF StampOf
    <2> QED  BY <2>1, <2>2, <2>3, <2>4
  <1>6. since' \in 0..tx /\ since' > since
    BY <1>3, <1>4, <1>5
  <1>7. /\ told' \in [Ids -> Nat]
        /\ \A e \in heard : told'[e] = told[e] + 1
        /\ \A e \in Ids \ heard : told'[e] = told[e]
    BY <1>2, <1>4, <1>5
  <1>8. LogTypes'
    BY <1>1, <1>6, <1>7 DEF LogInv, LogTypes
  <1>9. BufferHolds' /\ Accounted'
    BY <1>1, BufferStands
  <1>10. ToldIsBehind'
    <2> SUFFICES ASSUME NEW e \in Ids
                 PROVE  \/ told'[e] = 0
                        \/ told'[e] = 1 /\ rows'[e] # {} /\ \A at \in rows'[e] : at <= since'
      BY DEF ToldIsBehind
    <2>1. \/ told[e] = 0
          \/ told[e] = 1 /\ rows[e] # {} /\ \A at \in rows[e] : at <= since
      BY DEF LogInv, ToldIsBehind
    <2>2. CASE e \in heard
      <3>1. told[e] = 0
        BY <1>4, <1>5, <2>1, <2>2
      <3>2. told'[e] = 1
        BY <1>7, <2>2, <3>1
      <3>3. rows'[e] # {} /\ \A at \in rows'[e] : at <= since'
        BY <1>1, <1>3, <1>5, <2>2
      <3> QED  BY <3>2, <3>3
    <2>3. CASE e \notin heard
      <3>1. ASSUME NEW at \in rows[e], at <= since  PROVE at <= since'
        <4>1. at \in Nat
          BY <1>4, <3>1
        <4> QED  BY <1>4, <1>6, <3>1, <4>1
      <3> QED  BY <1>1, <1>7, <2>1, <2>3, <3>1
    <2> QED  BY <2>2, <2>3
  <1>11. BatchIsPosted' /\ OneRow' /\ EffectsDue' /\ EffectsDone'
    BY <1>1 DEF LogInv, BatchIsPosted, OneRow, EffectsDue, EffectsDone, ToSet
  <1> QED  BY <1>8, <1>9, <1>10, <1>11 DEF LogInv

\* The initial state satisfies the invariant.
LEMMA LogInvInit == LogInit => LogInv
  <1> SUFFICES ASSUME LogInit  PROVE LogInv
    OBVIOUS
  <1>1. NoRequest \in Requests /\ NoRequest.pc = "free"
    BY DEF NoRequest, Requests, RequestSteps
  <1>2. LogTypes
    BY <1>1, EmptyHolds, EventLogAssumption DEF LogInit, LogTypes
  <1>3. BufferHolds
    BY EmptyHolds, EventLogAssumption DEF LogInit, BufferHolds
  <1>4. Accounted /\ BatchIsPosted /\ OneRow /\ EffectsDone /\ ToldIsBehind
    BY DEF LogInit, Accounted, BatchIsPosted, OneRow, EffectsDone, ToldIsBehind
  <1>5. EffectsDue
    BY <1>1 DEF LogInit, EffectsDue
  <1> QED  BY <1>2, <1>3, <1>4, <1>5 DEF LogInv

\* Every step of the events' way keeps the invariant.
LEMMA LogInvStep == LogInv /\ [LogNext]_logVars => LogInv'
  <1> SUFFICES ASSUME LogInv, [LogNext]_logVars  PROVE LogInv'
    OBVIOUS
  <1>1. CASE MakeEvent
    BY <1>1, LogMake
  <1>2. CASE Flush
    BY <1>2, LogFlush
  <1>3. CASE PostAnswered \/ PostFails \/ AgentForgets
    BY <1>3, LogStops
  <1>4. CASE \E r \in Slots : RequestLost(r) \/ BeginBatch(r)
    <2>1. PICK r \in Slots : RequestLost(r) \/ BeginBatch(r)
      BY <1>4
    <2>2. CASE requests' = AfterIt(r, "failed") /\ tx' = tx
      BY <2>1, <2>2, LogRefused
    <2>3. \/ requests' = AfterIt(r, "failed") /\ tx' = tx
          \/ BeginBatch(r) /\ tx' = tx + 1
      BY <2>1 DEF RequestLost, BeginBatch
    <2>4. tx + 1 # tx
      BY DEF LogInv, LogTypes
    <2> QED  BY <2>2, <2>3, <2>4, LogBegins
  <1>5. CASE \E r \in Slots : CommitBatch(r) \/ SideEffects(r)
    BY <1>5, LogCommits, LogEffects
  <1>6. CASE ServerRestarts
    BY <1>6, LogRestarts
  <1>7. CASE DrainAlerts
    BY <1>7, LogDrain
  <1>8. CASE UNCHANGED logVars
    <2>1. UNCHANGED <<made, pending, posting, batch, requests, rows, effects, discarded, tx,
                      since, told, logFaults>>
      BY <1>8 DEF logVars
    <2>2. LogTypes'
      BY <2>1 DEF LogInv, LogTypes
    <2>3. BufferHolds' /\ Accounted'
      BY <2>1, BufferStands
    <2>4. BatchIsPosted' /\ EffectsDue'
      BY <2>1 DEF LogInv, BatchIsPosted, EffectsDue, ToSet
    <2> QED  BY <2>1, <2>2, <2>3, <2>4, RecordStands DEF LogInv
  <1> QED  BY <1>1, <1>2, <1>3, <1>4, <1>5, <1>6, <1>7, <1>8 DEF LogNext

\* What the log says of a computer's events is so: however the posts are lost,
\* given up on or carried out late, and whichever side restarts, no event
\* vanishes, is recorded, acted on or told twice, and the buffer keeps its cap.
THEOREM TheLogIsHonest == LogSpec => []LogHonest
  <1>1. LogInv => LogHonest
    <2> SUFFICES ASSUME LogInv  PROVE LogHonest
      OBVIOUS
    <2>1. ASSUME NEW e \in Ids
          PROVE  \/ rows[e] = {} /\ Cardinality(rows[e]) = 0
                 \/ rows[e] # {} /\ Cardinality(rows[e]) = 1
      <3>1. CASE rows[e] = {}
        BY <3>1, FS_EmptySet
      <3>2. CASE rows[e] # {}
        <4>1. PICK n : rows[e] = {n}
          BY <3>2 DEF LogInv, OneRow
        <4> QED  BY <3>2, <4>1, FS_Singleton
      <3> QED  BY <3>1, <3>2
    <2>2. RecordedOnce
      BY <2>1 DEF RecordedOnce
    <2>3. /\ ToSet(batch \o pending) = ToSet(batch) \cup ToSet(pending)
          /\ IsInjective(batch \o pending)
      BY ToSetOfConcat DEF LogInv, LogTypes, BufferHolds
    <2>4. NoneVanishes
      BY <2>3 DEF LogInv, Accounted, NoneVanishes
    <2>5. BufferSound
      BY <2>3 DEF LogInv, BufferHolds, BufferSound
    <2>6. EffectsOnce
      BY <2>1 DEF LogInv, EffectsDone, EffectsOnce
    <2>7. ToldOnce
      BY <2>1 DEF LogInv, ToldIsBehind, ToldOnce
    <2> QED  BY <2>2, <2>4, <2>5, <2>6, <2>7 DEF LogHonest
  <1> QED  BY <1>1, LogInvInit, LogInvStep, PTL DEF LogSpec

=============================================================================
