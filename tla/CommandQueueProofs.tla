------------------------- MODULE CommandQueueProofs -------------------------
(***************************************************************************)
(* What TLAPS proves of the command queue, for any number of rows,         *)
(* connections, API requests, days and faults.                             *)
(***************************************************************************)
EXTENDS CommandQueue, SequenceTheorems, TLAPS

(***************************************************************************)
(* Types.                                                                  *)
(***************************************************************************)

\* The initial state is well typed.
LEMMA TypeInit == Init => TypeOK
<1> SUFFICES ASSUME Init PROVE TypeOK
  OBVIOUS
<1>1. 0 \in Chan /\ 0 \in 0..MaxDay /\ 0 \in 0..MaxFault /\ 1 \in 1..MaxDay
  BY BoundsAssumption DEF Chan
<1>2. DbTypes
  BY <1>1 DEF Init, DbTypes
<1>3. ServerTypes
  BY <1>1 DEF Init, ServerTypes
<1>4. FrameTypes
  BY DEF Init, FrameTypes
<1>5. AgentTypes
  BY <1>1 DEF Init, AgentTypes
<1>. QED
  BY <1>2, <1>3, <1>4, <1>5 DEF TypeOK

\* A part of the state a step leaves alone keeps its types.
LEMMA DbKept == DbTypes /\ UNCHANGED dbVars => DbTypes'
BY DEF DbTypes, dbVars

LEMMA ServerKept == ServerTypes /\ UNCHANGED serverVars => ServerTypes'
BY DEF ServerTypes, serverVars

LEMMA FramesKept == FrameTypes /\ UNCHANGED <<down, up>> => FrameTypes'
BY DEF FrameTypes

LEMMA AgentKept == AgentTypes /\ UNCHANGED agentVars => AgentTypes'
BY DEF AgentTypes, agentVars

\* A queue with one frame fewer, or one more, is a queue of such frames.
LEMMA QueueOps ==
    ASSUME NEW S, NEW q \in Seq(S)
    PROVE  /\ \A x \in S : Append(q, x) \in Seq(S)
           /\ q # <<>> => Head(q) \in S /\ Tail(q) \in Seq(S)
BY AppendProperties, HeadTailProperties

\* An API request's steps keep the types.
LEMMA TypeTask ==
    ASSUME TypeOK, NEW t \in Task,
           (\E ty \in Types : Enqueue(t, ty)) \/ Push(t) \/ MarkSent(t)
    PROVE  TypeOK'
<1>0. DbTypes /\ ServerTypes /\ FrameTypes /\ AgentTypes
  BY DEF TypeOK
<1>1. CASE \E ty \in Types : Enqueue(t, ty)
  <2> PICK ty \in Types : Enqueue(t, ty)
    BY <1>1
  <2>1. DbTypes'
    <3>1. CASE UNCHANGED dbVars
      BY <1>0, <3>1, DbKept
    <3>2. ASSUME NEW c \in Cmd,
                 /\ ctype' = [ctype EXCEPT ![c] = ty]
                 /\ status' = [status EXCEPT ![c] = "queued"]
                 /\ day' = day \/ \E d \in Day : day' = [day EXCEPT ![c] = d]
                 /\ UNCHANGED <<overdue, shown>>
          PROVE  DbTypes'
      BY <1>0, <3>2 DEF DbTypes, Day, Open
    <3>. QED
      BY <3>1, <3>2 DEF Enqueue
  <2>2. ServerTypes'
    <3>1. \E c \in Cmd : task' = [task EXCEPT ![t] = [at |-> "push", cmd |-> c]]
      BY DEF Enqueue, OpenOf
    <3>. QED
      BY <1>0, <3>1 DEF ServerTypes, Enqueue
  <2>. QED
    BY <1>0, <2>1, <2>2, FramesKept, AgentKept DEF TypeOK, Enqueue
<1>2. CASE Push(t)
  <2>1. task[t].at = "push" /\ task[t].cmd \in Cmd
    BY <1>0, <1>2 DEF Push, ServerTypes, Idle
  <2>2. FrameTypes'
    BY <1>0, <1>2, <2>1, QueueOps DEF Push, HubPush, FrameTypes
  <2>3. task' = [task EXCEPT ![t] = [task[t] EXCEPT !.at = "mark"]]
          \/ task' = [task EXCEPT ![t] = Idle]
    BY <1>2 DEF Push
  <2>4. [task[t] EXCEPT !.at = "mark"] \in [at : {"push", "mark"}, cmd : Cmd]
    BY <1>0, <2>1 DEF ServerTypes, Idle
  <2>5. ServerTypes'
    BY <1>0, <1>2, <2>3, <2>4 DEF Push, ServerTypes
  <2>. QED
    BY <1>0, <1>2, <2>2, <2>5, DbKept, AgentKept DEF TypeOK, Push
<1>3. CASE MarkSent(t)
  <2>1. DbTypes'
    BY <1>0, <1>3 DEF MarkSent, DbTypes, Open
  <2>2. ServerTypes'
    BY <1>0, <1>3 DEF MarkSent, ServerTypes
  <2>. QED
    BY <1>0, <1>3, <2>1, <2>2, FramesKept, AgentKept DEF TypeOK, MarkSent
<1>. QED
  BY <1>1, <1>2, <1>3

\* The steps on one row keep the types.
LEMMA TypeRow ==
    ASSUME TypeOK, NEW c \in Cmd, Cancel(c) \/ GraceExpires(c)
    PROVE  TypeOK'
<1>1. DbTypes'
  BY DEF TypeOK, DbTypes, Cancel, GraceExpires, Settled
<1>. QED
  BY <1>1, ServerKept, FramesKept, AgentKept DEF TypeOK, Cancel, GraceExpires

\* The steps of a pull keep the types.
LEMMA TypePull ==
    ASSUME TypeOK, NEW k \in Chan,
           PullSelect(k) \/ PullUpdate(k) \/ PullFails(k) \/ PullDeliver(k)
    PROVE  TypeOK'
<1>0. DbTypes /\ ServerTypes /\ FrameTypes /\ AgentTypes
  BY DEF TypeOK
<1>1. CASE PullSelect(k)
  <2>1. ServerTypes'
    BY <1>0, <1>1 DEF PullSelect, Pullable, ServerTypes, Alive
  <2>. QED
    BY <1>0, <1>1, <2>1, DbKept, FramesKept, AgentKept DEF TypeOK, PullSelect
<1>2. CASE PullUpdate(k)
  <2>1. DbTypes'
    BY <1>0, <1>2 DEF PullUpdate, DbTypes, Open
  <2>2. ServerTypes'
    BY <1>0, <1>2 DEF PullUpdate, ServerTypes, Alive
  <2>. QED
    BY <1>0, <1>2, <2>1, <2>2, FramesKept, AgentKept DEF TypeOK, PullUpdate
<1>3. CASE PullFails(k)
  <2>1. ServerTypes'
    BY <1>0, <1>3 DEF PullFails, ServerTypes, Alive, Serving
  <2>2. AgentTypes'
    BY <1>0, <1>3 DEF PullFails, AgentTypes
  <2>. QED
    BY <1>0, <1>3, <2>1, <2>2, DbKept, FramesKept DEF TypeOK, PullFails
<1>4. CASE PullDeliver(k)
  <2>1. \/ UNCHANGED down
        \/ \E c \in Cmd : down' = [down EXCEPT ![k] = Append(@, c)]
        \/ \E c \in Cmd : down' = [down EXCEPT ![hub] = Append(@, c)]
    BY <1>0, <1>4 DEF PullDeliver, HubPush, ServerTypes
  <2>2. FrameTypes'
    <3>1. \A j \in Chan, c \in Cmd : Append(down[j], c) \in Seq(Cmd)
      BY <1>0, QueueOps DEF FrameTypes
    <3>2. hub \in Chan
      BY <1>0 DEF ServerTypes
    <3>. QED
      BY <1>0, <1>4, <2>1, <3>1, <3>2 DEF PullDeliver, FrameTypes
  <2>3. \/ \E s \in SUBSET Cmd : /\ batch' = [batch EXCEPT ![k] = s]
                                 /\ UNCHANGED handler
        \/ /\ \E h \in {"idle", "serve"} : handler' = [handler EXCEPT ![k] = h]
           /\ UNCHANGED batch
    <3>1. ASSUME NEW c PROVE batch[k] \ {c} \in SUBSET Cmd
      BY <1>0 DEF ServerTypes
    <3>2. \/ \E c \in batch[k] : batch' = [batch EXCEPT ![k] = @ \ {c}] /\ UNCHANGED handler
          \/ handler' = [handler EXCEPT ![k] = IF k = 0 THEN "idle" ELSE "serve"]
             /\ UNCHANGED batch
      BY <1>4 DEF PullDeliver
    <3>. QED
      BY <3>1, <3>2
  <2>4. ServerTypes'
    BY <1>0, <1>4, <2>3 DEF PullDeliver, ServerTypes, Alive, Serving
  <2>. QED
    BY <1>0, <1>4, <2>2, <2>4, DbKept, AgentKept DEF TypeOK, PullDeliver
<1>. QED
  BY <1>1, <1>2, <1>3, <1>4

\* The steps of a handler's reader loop and its end keep the types.
LEMMA TypeReader ==
    ASSUME TypeOK, NEW k \in Chan,
           \/ ApplyCommandAck(k) \/ MirrorLocked(k) \/ ApplyState(k)
           \/ LeaveLoop(k) \/ Unregister(k)
    PROVE  TypeOK'
<1>0. DbTypes /\ ServerTypes /\ FrameTypes /\ AgentTypes
  BY DEF TypeOK
<1>1. ASSUME Reads(k)
      PROVE  Head(up[k]) \in Frame /\ Tail(up[k]) \in Seq(Frame)
  BY <1>0, <1>1, QueueOps DEF Reads, FrameTypes
<1>2. CASE ApplyCommandAck(k)
  <2>1. Head(up[k]).cmd \in Cmd
    BY <1>1, <1>2 DEF ApplyCommandAck, Frame
  <2>2. DbTypes'
    BY <1>0, <1>2, <2>1 DEF ApplyCommandAck, DbTypes, Settled
  <2>3. ServerTypes'
    BY <1>0, <1>2, <2>1 DEF ApplyCommandAck, ServerTypes
  <2>4. FrameTypes'
    BY <1>0, <1>1, <1>2 DEF ApplyCommandAck, FrameTypes
  <2>. QED
    BY <1>0, <1>2, <2>2, <2>3, <2>4, AgentKept DEF TypeOK, ApplyCommandAck
<1>3. CASE MirrorLocked(k)
  <2>1. DbTypes' /\ ServerTypes'
    BY <1>0, <1>3 DEF MirrorLocked, DbTypes, ServerTypes
  <2>. QED
    BY <1>0, <1>3, <2>1, FramesKept, AgentKept DEF TypeOK, MirrorLocked
<1>4. CASE ApplyState(k)
  <2>1. Head(up[k]).locked \in BOOLEAN
    BY <1>1, <1>4 DEF ApplyState, Frame
  <2>2. DbTypes'
    BY <1>0, <1>4, <2>1 DEF ApplyState, DbTypes
  <2>3. FrameTypes'
    BY <1>0, <1>1, <1>4 DEF ApplyState, FrameTypes
  <2>. QED
    BY <1>0, <1>4, <2>2, <2>3, ServerKept, AgentKept DEF TypeOK, ApplyState
<1>5. CASE LeaveLoop(k)
  <2>1. ServerTypes' /\ FrameTypes'
    BY <1>0, <1>5 DEF LeaveLoop, ServerTypes, FrameTypes
  <2>. QED
    BY <1>0, <1>5, <2>1, DbKept, AgentKept DEF TypeOK, LeaveLoop
<1>6. CASE Unregister(k)
  <2>1. 0 \in Chan
    BY BoundsAssumption DEF Chan
  <2>2. ServerTypes'
    BY <1>0, <1>6, <2>1 DEF Unregister, ServerTypes
  <2>. QED
    BY <1>0, <1>6, <2>2, DbKept, FramesKept, AgentKept DEF TypeOK, Unregister
<1>. QED
  BY <1>2, <1>3, <1>4, <1>5, <1>6

\* A server restart keeps the types.
LEMMA TypeRestart ==
    ASSUME TypeOK, ServerRestart
    PROVE  TypeOK'
<1>1. 0 \in Chan
  BY BoundsAssumption DEF Chan
<1>2. ServerTypes'
  BY <1>1, BoundsAssumption DEF TypeOK, ServerTypes, ServerRestart, Fault
<1>3. FrameTypes'
  BY DEF TypeOK, FrameTypes, ServerRestart
<1>. QED
  BY <1>2, <1>3, DbKept, AgentKept DEF TypeOK, ServerRestart

\* Carrying a command out keeps the agent's files well typed.
LEMMA TypeHandleCommand ==
    ASSUME AgentTypes, NEW c \in Cmd, HandleCommand(c)
    PROVE  /\ locked' \in BOOLEAN
           /\ grants' \in [Cmd -> 0..MaxDay]
           /\ executed' \subseteq Cmd
           /\ credited' \in [Cmd -> Nat]
<1> USE DEF HandleCommand, HandleLock, HandleUnlock, HandleCreditTime, HandleOther
<1>1. locked' \in BOOLEAN
  BY DEF AgentTypes
<1>2. executed' \subseteq Cmd
  BY DEF AgentTypes
<1>3. \/ UNCHANGED <<grants, credited>>
      \/ /\ grants' = [grants EXCEPT ![c] = today]
         /\ credited' = [credited EXCEPT ![c] = @ + 1]
  OBVIOUS
<1>4. grants' \in [Cmd -> 0..MaxDay] /\ credited' \in [Cmd -> Nat]
  BY <1>3, BoundsAssumption DEF AgentTypes
<1>. QED
  BY <1>1, <1>2, <1>4

\* Both ways of carrying a command out keep the types.
LEMMA TypeExecute ==
    ASSUME TypeOK, Execute \/ ExecuteUnheard
    PROVE  TypeOK'
<1>0. DbTypes /\ ServerTypes /\ FrameTypes /\ AgentTypes
  BY DEF TypeOK
<1>1. CASE Execute
  <2>1. sock \in Chan
    BY <1>0 DEF AgentTypes
  <2>2. Head(down[sock]) \in Cmd /\ Tail(down[sock]) \in Seq(Cmd)
    BY <1>0, <1>1, <2>1, QueueOps DEF Execute, FrameTypes
  <2>3. PICK ok \in Outcomes(Head(down[sock])) :
          up' = [up EXCEPT ![sock] = Append(@, Ack(Head(down[sock]), ok))]
    BY <1>1 DEF Execute
  <2>4. Ack(Head(down[sock]), ok) \in Frame
    BY <2>2 DEF Ack, Frame, Outcomes
  <2>5. FrameTypes'
    BY <1>0, <1>1, <2>1, <2>2, <2>3, <2>4, QueueOps DEF Execute, FrameTypes
  <2>6. AgentTypes'
    BY <1>0, <1>1, <2>2, TypeHandleCommand DEF Execute, AgentTypes
  <2>. QED
    BY <1>0, <1>1, <2>5, <2>6, DbKept, ServerKept DEF TypeOK, Execute
<1>2. CASE ExecuteUnheard
  <2>1. 0 \in Chan
    BY BoundsAssumption DEF Chan
  <2>2. Head(down[0]) \in Cmd /\ Tail(down[0]) \in Seq(Cmd)
    BY <1>0, <1>2, <2>1, QueueOps DEF ExecuteUnheard, FrameTypes
  <2>3. FrameTypes'
    BY <1>0, <1>2, <2>2 DEF ExecuteUnheard, FrameTypes
  <2>4. AgentTypes'
    BY <1>0, <1>2, <2>2, TypeHandleCommand DEF ExecuteUnheard, AgentTypes
  <2>5. ServerTypes'
    BY <1>0, <1>2, BoundsAssumption DEF ExecuteUnheard, Fault, ServerTypes
  <2>. QED
    BY <1>0, <1>2, <2>3, <2>4, <2>5, DbKept DEF TypeOK, ExecuteUnheard
<1>. QED
  BY <1>1, <1>2

\* The agent's other steps keep the types.
LEMMA TypeAgent ==
    ASSUME TypeOK,
           \/ \E k \in Conn : Connect(k)
           \/ StartPoll \/ Heartbeat \/ LinkLost \/ LinkEnds
           \/ SendState \/ LocalRecovery \/ RollDay
    PROVE  TypeOK'
<1>0. DbTypes /\ ServerTypes /\ FrameTypes /\ AgentTypes
  BY DEF TypeOK
<1>1. /\ 0 \in Chan /\ Conn \subseteq Chan
      /\ <<>> \in Seq(Cmd) /\ <<State>> \in Seq(Frame)
  BY <1>0, BoundsAssumption DEF Chan, Conn, State, Frame, AgentTypes
<1>2. CASE \E k \in Conn : Connect(k)
  <2> PICK k \in Conn : Connect(k)
    BY <1>2
  <2>1. ServerTypes' /\ FrameTypes' /\ AgentTypes'
    BY <1>0, <1>1 DEF Connect, ServerTypes, FrameTypes, AgentTypes, Alive
  <2>. QED
    BY <1>0, <2>1, DbKept DEF TypeOK, Connect
<1>3. CASE StartPoll
  <2>1. AgentTypes'
    BY <1>0, <1>1, <1>3 DEF StartPoll, AgentTypes
  <2>. QED
    BY <1>0, <1>3, <2>1, DbKept, ServerKept, FramesKept DEF TypeOK, StartPoll
<1>4. CASE Heartbeat
  <2>1. ServerTypes'
    BY <1>0, <1>1, <1>4 DEF Heartbeat, ServerTypes, Alive
  <2>. QED
    BY <1>0, <1>4, <2>1, DbKept, FramesKept, AgentKept DEF TypeOK, Heartbeat
<1>5. ASSUME LeaveLink, faults' \in 0..MaxFault PROVE TypeOK'
  <2>1. ServerTypes' /\ FrameTypes' /\ AgentTypes'
    BY <1>0, <1>1, <1>5 DEF LeaveLink, ServerTypes, FrameTypes, AgentTypes
  <2>. QED
    BY <1>0, <1>5, <2>1, DbKept DEF TypeOK, LeaveLink
<1>6. CASE LinkLost
  BY <1>0, <1>5, <1>6, BoundsAssumption DEF LinkLost, Fault, ServerTypes
<1>7. CASE LinkEnds
  BY <1>0, <1>5, <1>7 DEF LinkEnds, ServerTypes
<1>8. CASE SendState
  <2>1. FrameTypes'
    BY <1>0, <1>1, <1>8 DEF SendState, FrameTypes
  <2>. QED
    BY <1>0, <1>8, <2>1, DbKept, ServerKept, AgentKept DEF TypeOK, SendState
<1>9. CASE LocalRecovery
  <2>1. AgentTypes'
    BY <1>0, <1>9 DEF LocalRecovery, AgentTypes
  <2>. QED
    BY <1>0, <1>9, <2>1, DbKept, ServerKept, FramesKept DEF TypeOK, LocalRecovery
<1>10. CASE RollDay
  <2>1. \A c \in Cmd : grants[c] \in 0..MaxDay
    BY <1>0 DEF AgentTypes
  <2>2. grants' \in [Cmd -> 0..MaxDay] /\ today' \in 1..MaxDay
    BY <1>0, <1>10, <2>1, BoundsAssumption DEF RollDay, AgentTypes
  <2>3. AgentTypes'
    BY <1>0, <1>10, <2>2 DEF RollDay, AgentTypes
  <2>. QED
    BY <1>0, <1>10, <2>3, DbKept, ServerKept, FramesKept DEF TypeOK, RollDay
<1>. QED
  BY <1>2, <1>3, <1>4, <1>6, <1>7, <1>8, <1>9, <1>10

\* Every step keeps the types.
LEMMA TypeStep == TypeOK /\ [Next]_vars => TypeOK'
<1> SUFFICES ASSUME TypeOK, [Next]_vars PROVE TypeOK'
  OBVIOUS
<1>1. CASE UNCHANGED vars
  BY <1>1, DbKept, ServerKept, FramesKept, AgentKept DEF TypeOK, vars
<1>2. CASE ServerStep
  BY <1>2, TypeTask, TypeRow, TypePull, TypeReader, TypeRestart DEF ServerStep
<1>3. CASE AgentStep
  BY <1>3, TypeExecute, TypeAgent DEF AgentStep
<1>. QED
  BY <1>1, <1>2, <1>3 DEF Next

\* Every reachable state is well typed.
THEOREM TypeCorrect == Spec => []TypeOK
BY TypeInit, TypeStep, PTL DEF Spec

(***************************************************************************)
(* Safety.  Each property rests on a named strengthening; IInv is their    *)
(* conjunction with TypeOK.                                                *)
(***************************************************************************)

\* The rows inserted so far, and the acks that answer for a command carried out.
Known  == {c \in Cmd : ctype[c] # "none"}
Earned == {f \in Frame : f.kind = "ack" => f.cmd \in executed}

\* Nothing refers to a row that is not there.
RowsKnown ==
    /\ \A c \in Cmd : status[c] # "none" => c \in Known
    /\ \A t \in Task : task[t] = Idle \/ task[t].cmd \in Known
    /\ \A k \in Chan : batch[k] \subseteq Known /\ down[k] \in Seq(Known)
    /\ executed \subseteq Known

\* An ack on its way answers for a command carried out, and so does a row.
AnswersEarned ==
    /\ \A k \in Chan : up[k] \in Seq(Earned)
    /\ SettledWasExecuted

\* A credit whose id is no longer on record belongs to a day that is over:
\* its day is at most two past the day it was made, and it was kept two.
GrantKept(c) ==
    /\ ctype[c] # "credit_time" => credited[c] = 0 /\ grants[c] = 0
    /\ ctype[c] = "credit_time" => day[c] <= today + Skew
    /\ credited[c] <= 1
    /\ grants[c] # 0 => credited[c] = 1 /\ grants[c] <= today /\ day[c] <= grants[c] + 2
    /\ credited[c] = 1 /\ grants[c] = 0 => day[c] < today
    /\ ctype[c] = "credit_time" /\ c \in executed => credited[c] = 1 \/ day[c] < today

GrantsKept == \A c \in Cmd : GrantKept(c)

\* An API request is about to push the command, or has.
InHand(c) == \E t \in Task : task[t].cmd = c

\* From its SELECT on, the registered connection's pull has every queued
\* row that no API request has in hand.
BacklogTaken ==
    hub # 0 =>
        \A c \in Cmd : status[c] = "queued" =>
            /\ handler[hub] = "update" => c \in batch[hub] \/ InHand(c)
            /\ handler[hub] \in {"deliver", "serve"} => InHand(c)

IInv ==
    /\ TypeOK
    /\ RowsKnown
    /\ AnswersEarned
    /\ GrantsKept
    /\ BacklogTaken
    /\ LiveSocketIsRegistered

\* Queues of a set's elements are queues of a larger set's.
LEMMA SeqMono == ASSUME NEW S, NEW T, S \subseteq T PROVE Seq(S) \subseteq Seq(T)
<1> SUFFICES ASSUME NEW q \in Seq(S) PROVE q \in Seq(T)
  OBVIOUS
<1>1. q \in [1..Len(q) -> T] /\ Len(q) \in Nat
  OBVIOUS
<1>. QED
  BY <1>1

\* The initial state satisfies the invariant.
LEMMA IInvInit == Init => IInv
<1> SUFFICES ASSUME Init PROVE IInv
  OBVIOUS
<1>1. TypeOK
  BY TypeInit
<1>2. RowsKnown
  BY DEF Init, RowsKnown
<1>3. AnswersEarned
  BY DEF Init, AnswersEarned, SettledWasExecuted
<1>4. GrantsKept
  BY BoundsAssumption DEF Init, GrantsKept, GrantKept
<1>5. BacklogTaken /\ LiveSocketIsRegistered
  BY DEF Init, BacklogTaken, LiveSocketIsRegistered
<1>. QED
  BY <1>1, <1>2, <1>3, <1>4, <1>5 DEF IInv

(***************************************************************************)
(* RowsKnown.                                                              *)
(***************************************************************************)

\* A step that touches neither rows nor what refers to them keeps RowsKnown.
LEMMA RowsUntouched ==
    ASSUME RowsKnown, UNCHANGED <<ctype, status, task, batch, down, executed>>
    PROVE  RowsKnown'
BY DEF RowsKnown, Known

\* An upsert adds a row before anything refers to it.
LEMMA RowsEnqueue ==
    ASSUME TypeOK, RowsKnown, NEW t \in Task, NEW ty \in Types, Enqueue(t, ty)
    PROVE  RowsKnown'
<1>1. ty # "none"
  BY BoundsAssumption DEF CoalesceTypes
<1>2. Known \subseteq Known'
  BY <1>1 DEF Enqueue, Known, TypeOK, DbTypes, dbVars
<1>3. \A c \in Cmd : status'[c] # "none" => c \in Known'
  BY <1>1, <1>2 DEF Enqueue, RowsKnown, Known, TypeOK, DbTypes, dbVars
<1>4. \E c \in Known' : task' = [task EXCEPT ![t] = [at |-> "push", cmd |-> c]]
  BY <1>1 DEF Enqueue, OpenOf, Known, TypeOK, DbTypes, dbVars, CoalesceTypes
<1>5. \A u \in Task : task'[u] = Idle \/ task'[u].cmd \in Known'
  BY <1>2, <1>4 DEF RowsKnown, TypeOK, ServerTypes
<1>6. \A k \in Chan : batch'[k] \subseteq Known' /\ down'[k] \in Seq(Known')
  BY <1>2, SeqMono DEF RowsKnown, Enqueue
<1>7. executed' \subseteq Known'
  BY <1>2 DEF RowsKnown, Enqueue, agentVars
<1>. QED
  BY <1>3, <1>5, <1>6, <1>7 DEF RowsKnown

\* The other steps that touch what refers to rows refer to known ones.
LEMMA RowsServer ==
    ASSUME TypeOK, RowsKnown,
           \/ \E t \in Task : Push(t) \/ MarkSent(t)
           \/ \E c \in Cmd : Cancel(c)
           \/ \E k \in Chan : \/ PullSelect(k) \/ PullUpdate(k) \/ PullFails(k)
                              \/ PullDeliver(k) \/ ApplyCommandAck(k)
           \/ ServerRestart
    PROVE  RowsKnown'
<1>0. /\ \A c \in Cmd : status[c] # "none" => c \in Known
      /\ \A t \in Task : task[t] = Idle \/ task[t].cmd \in Known
      /\ \A k \in Chan : batch[k] \subseteq Known /\ down[k] \in Seq(Known)
      /\ executed \subseteq Known
  BY DEF RowsKnown
<1>1. \A k \in Chan, c \in Known : Append(down[k], c) \in Seq(Known)
  BY <1>0, QueueOps
<1>2. hub \in Chan
  BY DEF TypeOK, ServerTypes
<1>3. ASSUME NEW t \in Task, Push(t) PROVE RowsKnown'
  <2>1. Known' = Known /\ task[t].cmd \in Known
    BY <1>0, <1>3 DEF Push, Known, Idle, dbVars
  <2>2. \A k \in Chan : down'[k] \in Seq(Known)
    BY <1>0, <1>1, <1>2, <1>3, <2>1 DEF Push, HubPush, TypeOK, FrameTypes
  <2>3. \A u \in Task : task'[u] = Idle \/ task'[u].cmd \in Known
    BY <1>0, <1>3, <2>1 DEF Push, TypeOK, ServerTypes, Idle
  <2>. QED
    BY <1>0, <1>3, <2>1, <2>2, <2>3 DEF Push, RowsKnown, dbVars, agentVars
<1>4. ASSUME NEW t \in Task, MarkSent(t) PROVE RowsKnown'
  <2>1. Known' = Known
    BY <1>4 DEF MarkSent, Known
  <2>2. \A c \in Cmd : status'[c] # "none" => c \in Known
    BY <1>0, <1>4 DEF MarkSent, TypeOK, DbTypes
  <2>3. \A u \in Task : task'[u] = Idle \/ task'[u].cmd \in Known
    BY <1>0, <1>4 DEF MarkSent, TypeOK, ServerTypes
  <2>. QED
    BY <1>0, <1>4, <2>1, <2>2, <2>3 DEF MarkSent, RowsKnown, agentVars
<1>5. ASSUME NEW c \in Cmd, Cancel(c) PROVE RowsKnown'
  <2>1. Known' = Known
    BY <1>5 DEF Cancel, Known
  <2>2. \A b \in Cmd : status'[b] # "none" => b \in Known
    BY <1>0, <1>5 DEF Cancel, TypeOK, DbTypes, Open
  <2>. QED
    BY <1>0, <1>5, <2>1, <2>2 DEF Cancel, RowsKnown, serverVars, agentVars
<1>6. ASSUME NEW k \in Chan, PullSelect(k) PROVE RowsKnown'
  <2>1. Known' = Known /\ Pullable \subseteq Known
    BY <1>0, <1>6 DEF PullSelect, Known, Pullable, dbVars
  <2>. QED
    BY <1>0, <1>6, <2>1 DEF PullSelect, RowsKnown, dbVars, agentVars, TypeOK, ServerTypes
<1>7. ASSUME NEW k \in Chan, PullUpdate(k) PROVE RowsKnown'
  <2>1. Known' = Known
    BY <1>7 DEF PullUpdate, Known
  <2>2. \A b \in Cmd : status'[b] # "none" => b \in Known
    BY <1>0, <1>7 DEF PullUpdate
  <2>. QED
    BY <1>0, <1>7, <2>1, <2>2 DEF PullUpdate, RowsKnown, agentVars
<1>8. ASSUME NEW k \in Chan, PullFails(k) PROVE RowsKnown'
  <2>1. Known' = Known
    BY <1>8 DEF PullFails, Known, dbVars
  <2>. QED
    BY <1>0, <1>8, <2>1 DEF PullFails, RowsKnown, dbVars, TypeOK, ServerTypes
<1>9. ASSUME NEW k \in Chan, PullDeliver(k) PROVE RowsKnown'
  <2>1. Known' = Known
    BY <1>9 DEF PullDeliver, Known, dbVars
  <2>2. \A j \in Chan : down'[j] \in Seq(Known)
    <3>1. \/ UNCHANGED down
          \/ \E c \in Known, j \in Chan : down' = [down EXCEPT ![j] = Append(@, c)]
      BY <1>0, <1>2, <1>9 DEF PullDeliver, HubPush
    <3>. QED
      BY <1>0, <1>1, <3>1 DEF TypeOK, FrameTypes
  <2>3. \A j \in Chan : batch'[j] \subseteq Known
    BY <1>0, <1>9 DEF PullDeliver, TypeOK, ServerTypes
  <2>. QED
    BY <1>0, <1>9, <2>1, <2>2, <2>3 DEF PullDeliver, RowsKnown, dbVars, agentVars
<1>10. ASSUME NEW k \in Chan, ApplyCommandAck(k) PROVE RowsKnown'
  <2>1. Known' = Known
    BY <1>10 DEF ApplyCommandAck, Known
  <2>2. \A b \in Cmd : status'[b] # "none" => b \in Known
    BY <1>0, <1>10 DEF ApplyCommandAck, TypeOK, DbTypes, Open
  <2>. QED
    BY <1>0, <1>10, <2>1, <2>2 DEF ApplyCommandAck, RowsKnown, agentVars
<1>11. ASSUME ServerRestart PROVE RowsKnown'
  BY <1>0, <1>11 DEF ServerRestart, RowsKnown, Known, dbVars, agentVars
<1>. QED
  BY <1>3, <1>4, <1>5, <1>6, <1>7, <1>8, <1>9, <1>10, <1>11

\* The agent carries out, or forgets, frames of known rows.
LEMMA RowsAgent ==
    ASSUME TypeOK, RowsKnown, LeaveLink \/ Execute \/ ExecuteUnheard
    PROVE  RowsKnown'
<1>0. /\ \A c \in Cmd : status[c] # "none" => c \in Known
      /\ \A t \in Task : task[t] = Idle \/ task[t].cmd \in Known
      /\ \A k \in Chan : batch[k] \subseteq Known /\ down[k] \in Seq(Known)
      /\ executed \subseteq Known
  BY DEF RowsKnown
<1>1. sock \in Chan /\ 0 \in Chan
  BY BoundsAssumption DEF TypeOK, AgentTypes, Chan
<1>2. CASE LeaveLink
  <2>1. Known' = Known
    BY <1>2 DEF LeaveLink, Known, dbVars
  <2>2. \A j \in Chan : down'[j] \in Seq(Known)
    BY <1>0, <1>2 DEF LeaveLink, TypeOK, FrameTypes
  <2>. QED
    BY <1>0, <1>2, <2>1, <2>2 DEF LeaveLink, RowsKnown, dbVars
<1>3. ASSUME NEW k \in Chan, down[k] # <<>>, down' = [down EXCEPT ![k] = Tail(@)],
             executed' = executed \cup {Head(down[k])},
             UNCHANGED <<ctype, status, task, batch>>
      PROVE  RowsKnown'
  <2>1. Known' = Known
    BY <1>3 DEF Known
  <2>2. Head(down[k]) \in Known /\ Tail(down[k]) \in Seq(Known)
    BY <1>0, <1>3, QueueOps
  <2>3. \A j \in Chan : down'[j] \in Seq(Known)
    BY <1>0, <1>3, <2>2 DEF TypeOK, FrameTypes
  <2>. QED
    BY <1>0, <1>3, <2>1, <2>2, <2>3 DEF RowsKnown
<1>4. CASE Execute
  BY <1>1, <1>3, <1>4 DEF Execute, HandleCommand, dbVars, serverVars
<1>5. CASE ExecuteUnheard
  BY <1>1, <1>3, <1>5 DEF ExecuteUnheard, HandleCommand, dbVars
<1>. QED
  BY <1>2, <1>4, <1>5

\* Every step keeps references to rows known.
LEMMA RowsStep == TypeOK /\ RowsKnown /\ [Next]_vars => RowsKnown'
<1> SUFFICES ASSUME TypeOK, RowsKnown, [Next]_vars PROVE RowsKnown'
  OBVIOUS
<1>1. CASE UNCHANGED vars
  BY <1>1, RowsUntouched DEF vars, dbVars, serverVars, agentVars
<1>2. CASE ServerStep
  <2>1. ASSUME NEW c \in Cmd, GraceExpires(c) PROVE RowsKnown'
    BY <2>1, RowsUntouched DEF GraceExpires, serverVars, agentVars
  <2>2. ASSUME NEW k \in Chan,
               MirrorLocked(k) \/ ApplyState(k) \/ LeaveLoop(k) \/ Unregister(k)
        PROVE  RowsKnown'
    BY <2>2, RowsUntouched
    DEF MirrorLocked, ApplyState, LeaveLoop, Unregister, dbVars, serverVars, agentVars
  <2>. QED
    BY <1>2, <2>1, <2>2, RowsEnqueue, RowsServer DEF ServerStep
<1>3. CASE AgentStep
  <2>1. ASSUME \/ \E k \in Conn : Connect(k)
               \/ StartPoll \/ Heartbeat \/ SendState \/ LocalRecovery \/ RollDay
        PROVE  RowsKnown'
    BY <2>1, RowsUntouched
    DEF Connect, StartPoll, Heartbeat, SendState, LocalRecovery, RollDay,
        dbVars, serverVars, agentVars
  <2>. QED
    BY <1>3, <2>1, RowsAgent DEF AgentStep, LinkLost, LinkEnds
<1>. QED
  BY <1>1, <1>2, <1>3 DEF Next

(***************************************************************************)
(* AnswersEarned.                                                          *)
(***************************************************************************)

\* A step that touches neither statuses nor acks keeps AnswersEarned.
LEMMA AnswersUntouched ==
    ASSUME AnswersEarned, UNCHANGED <<status, up, executed>>
    PROVE  AnswersEarned'
BY DEF AnswersEarned, Earned, SettledWasExecuted

\* Acks on their way stay earned when more gets carried out.
LEMMA AnswersKept ==
    ASSUME AnswersEarned, executed \subseteq executed'
    PROVE  \A k \in Chan : up[k] \in Seq(Earned')
BY SeqMono DEF AnswersEarned, Earned

\* A status the server writes without an ack is never acked or failed.
LEMMA AnswersServer ==
    ASSUME TypeOK, RowsKnown, AnswersEarned,
           \/ \E t \in Task, ty \in Types : Enqueue(t, ty)
           \/ \E t \in Task : MarkSent(t)
           \/ \E c \in Cmd : Cancel(c)
           \/ \E k \in Chan : PullUpdate(k) \/ ApplyState(k) \/ LeaveLoop(k)
           \/ ServerRestart
    PROVE  AnswersEarned'
<1>0. (\A k \in Chan : up[k] \in Seq(Earned)) /\ SettledWasExecuted
  BY DEF AnswersEarned
<1>1. executed' = executed
  BY DEF Enqueue, MarkSent, Cancel, PullUpdate, ApplyState, LeaveLoop,
         ServerRestart, agentVars
<1>2. Earned' = Earned
  BY <1>1 DEF Earned
<1>3. ASSUME \A c \in Cmd : status'[c] \in {"acked", "failed"} => status'[c] = status[c]
      PROVE  SettledWasExecuted'
  BY <1>0, <1>1, <1>3 DEF SettledWasExecuted
<1>4. ASSUME NEW t \in Task, NEW ty \in Types, Enqueue(t, ty) PROVE AnswersEarned'
  <2>1. \A c \in Cmd : status'[c] \in {"acked", "failed"} => status'[c] = status[c]
    BY <1>4 DEF Enqueue, TypeOK, DbTypes, dbVars
  <2>. QED
    BY <1>0, <1>2, <1>3, <1>4, <2>1 DEF AnswersEarned, Enqueue
<1>5. ASSUME NEW t \in Task, MarkSent(t) PROVE AnswersEarned'
  <2>1. \A c \in Cmd : status'[c] \in {"acked", "failed"} => status'[c] = status[c]
    BY <1>5 DEF MarkSent, TypeOK, DbTypes
  <2>. QED
    BY <1>0, <1>2, <1>3, <1>5, <2>1 DEF AnswersEarned, MarkSent
<1>6. ASSUME NEW c \in Cmd, Cancel(c) PROVE AnswersEarned'
  <2>1. \A b \in Cmd : status'[b] \in {"acked", "failed"} => status'[b] = status[b]
    BY <1>6 DEF Cancel, TypeOK, DbTypes
  <2>. QED
    BY <1>0, <1>2, <1>3, <1>6, <2>1 DEF AnswersEarned, Cancel
<1>7. ASSUME NEW k \in Chan, PullUpdate(k) PROVE AnswersEarned'
  <2>1. \A b \in Cmd : status'[b] \in {"acked", "failed"} => status'[b] = status[b]
    BY <1>7 DEF PullUpdate
  <2>. QED
    BY <1>0, <1>2, <1>3, <1>7, <2>1 DEF AnswersEarned, PullUpdate
<1>8. ASSUME NEW k \in Chan, ApplyState(k) PROVE AnswersEarned'
  <2>1. Tail(up[k]) \in Seq(Earned)
    BY <1>0, <1>8, QueueOps DEF ApplyState, Reads
  <2>. QED
    BY <1>0, <1>1, <1>2, <1>8, <2>1
    DEF AnswersEarned, SettledWasExecuted, ApplyState, TypeOK, FrameTypes
<1>9. ASSUME NEW k \in Chan, LeaveLoop(k) PROVE AnswersEarned'
  BY <1>0, <1>1, <1>2, <1>9
  DEF AnswersEarned, SettledWasExecuted, LeaveLoop, dbVars, TypeOK, FrameTypes
<1>10. CASE ServerRestart
  BY <1>0, <1>1, <1>2, <1>10
  DEF AnswersEarned, SettledWasExecuted, ServerRestart, dbVars
<1>. QED
  BY <1>4, <1>5, <1>6, <1>7, <1>8, <1>9, <1>10

\* An ack settles its own row.
LEMMA AnswersAck ==
    ASSUME TypeOK, AnswersEarned, NEW k \in Chan, ApplyCommandAck(k)
    PROVE  AnswersEarned'
<1>0. (\A j \in Chan : up[j] \in Seq(Earned)) /\ SettledWasExecuted
  BY DEF AnswersEarned
<1>1. executed' = executed
  BY DEF ApplyCommandAck, agentVars
<1>2. Earned' = Earned
  BY <1>1 DEF Earned
<1>3. Head(up[k]) \in Earned /\ Tail(up[k]) \in Seq(Earned)
  BY <1>0, QueueOps DEF ApplyCommandAck, Reads
<1>4. Head(up[k]).cmd \in executed
  BY <1>3 DEF Earned, ApplyCommandAck
<1>5. \A c \in Cmd : status'[c] = status[c] \/ c = Head(up[k]).cmd
  BY DEF ApplyCommandAck, TypeOK, DbTypes
<1>6. SettledWasExecuted'
  BY <1>0, <1>1, <1>4, <1>5 DEF SettledWasExecuted
<1>7. \A j \in Chan : up'[j] \in Seq(Earned)
  BY <1>0, <1>3 DEF ApplyCommandAck, TypeOK, FrameTypes
<1>. QED
  BY <1>2, <1>6, <1>7 DEF AnswersEarned

\* The agent acks what it carried out.
LEMMA AnswersAgent ==
    ASSUME TypeOK, AnswersEarned,
           Execute \/ ExecuteUnheard \/ SendState \/ \E k \in Conn : Connect(k)
    PROVE  AnswersEarned'
<1>0. (\A k \in Chan : up[k] \in Seq(Earned)) /\ SettledWasExecuted
  BY DEF AnswersEarned
<1>1. executed \subseteq executed' /\ status' = status
  BY DEF Execute, ExecuteUnheard, SendState, Connect, HandleCommand, dbVars, agentVars
<1>2. SettledWasExecuted'
  BY <1>0, <1>1 DEF SettledWasExecuted
<1>3. \A k \in Chan : up[k] \in Seq(Earned')
  BY <1>1, AnswersKept
<1>4. sock \in Chan /\ State \in Earned
  BY DEF TypeOK, AgentTypes, Earned, Frame, State
<1>5. CASE Execute
  <2>1. Head(down[sock]) \in Cmd
    BY <1>4, <1>5, QueueOps DEF TypeOK, FrameTypes, Execute
  <2>2. \A ok \in Outcomes(Head(down[sock])) : Ack(Head(down[sock]), ok) \in Earned'
    BY <1>5, <2>1 DEF Execute, HandleCommand, Outcomes, Ack, Earned, Frame
  <2>3. \A k \in Chan : up'[k] \in Seq(Earned')
    BY <1>3, <1>4, <1>5, <2>2, QueueOps DEF Execute, TypeOK, FrameTypes
  <2>. QED
    BY <1>2, <2>3 DEF AnswersEarned
<1>6. CASE ExecuteUnheard
  BY <1>2, <1>3, <1>6 DEF ExecuteUnheard, AnswersEarned
<1>7. ASSUME NEW k \in Chan, up' = [up EXCEPT ![k] = <<State>>], executed' = executed
      PROVE  AnswersEarned'
  <2>1. Earned' = Earned
    BY <1>7 DEF Earned
  <2>2. <<State>> \in Seq(Earned)
    BY <1>4
  <2>3. \A j \in Chan : up'[j] \in Seq(Earned)
    BY <1>0, <1>7, <2>2 DEF TypeOK, FrameTypes
  <2>. QED
    BY <1>2, <2>1, <2>3 DEF AnswersEarned
<1>8. CASE SendState
  BY <1>4, <1>7, <1>8 DEF SendState, agentVars
<1>9. CASE \E k \in Conn : Connect(k)
  <2>1. Conn \subseteq Chan
    BY BoundsAssumption DEF Conn, Chan
  <2>. QED
    BY <1>7, <1>9, <2>1 DEF Connect
<1>. QED
  BY <1>5, <1>6, <1>8, <1>9

\* Every step keeps answers earned.
LEMMA AnswersStep ==
    TypeOK /\ RowsKnown /\ AnswersEarned /\ [Next]_vars => AnswersEarned'
<1> SUFFICES ASSUME TypeOK, RowsKnown, AnswersEarned, [Next]_vars PROVE AnswersEarned'
  OBVIOUS
<1>1. CASE UNCHANGED vars
  BY <1>1, AnswersUntouched DEF vars, dbVars, serverVars, agentVars
<1>2. CASE ServerStep
  <2>1. ASSUME \/ \E t \in Task : Push(t)
               \/ \E c \in Cmd : GraceExpires(c)
               \/ \E k \in Chan : \/ PullSelect(k) \/ PullFails(k) \/ PullDeliver(k)
                                  \/ MirrorLocked(k) \/ Unregister(k)
        PROVE  AnswersEarned'
    BY <2>1, AnswersUntouched
    DEF Push, GraceExpires, PullSelect, PullFails, PullDeliver, MirrorLocked,
        Unregister, dbVars, serverVars, agentVars
  <2>. QED
    BY <1>2, <2>1, AnswersServer, AnswersAck DEF ServerStep
<1>3. CASE AgentStep
  <2>1. ASSUME StartPoll \/ Heartbeat \/ LinkLost \/ LinkEnds \/ LocalRecovery \/ RollDay
        PROVE  AnswersEarned'
    BY <2>1, AnswersUntouched
    DEF StartPoll, Heartbeat, LinkLost, LinkEnds, LeaveLink, LocalRecovery, RollDay,
        dbVars, serverVars, agentVars
  <2>. QED
    BY <1>3, <2>1, AnswersAgent DEF AgentStep
<1>. QED
  BY <1>1, <1>2, <1>3 DEF Next

(***************************************************************************)
(* GrantsKept.                                                             *)
(***************************************************************************)

\* Only these variables matter to a grant, and most steps change none.
LEMMA GrantsUntouched ==
    ASSUME GrantsKept, UNCHANGED <<ctype, day, today, grants, executed, credited>>
    PROVE  GrantsKept'
BY DEF GrantsKept, GrantKept

\* A new grant's day is at most Skew past today.
LEMMA GrantsEnqueue ==
    ASSUME TypeOK, RowsKnown, GrantsKept, NEW t \in Task, NEW ty \in Types, Enqueue(t, ty)
    PROVE  GrantsKept'
<1>1. CASE UNCHANGED dbVars
  BY <1>1, GrantsUntouched DEF Enqueue, dbVars, agentVars
<1>2. ASSUME NEW c \in Cmd, ctype[c] = "none",
             ctype' = [ctype EXCEPT ![c] = ty],
             IF ty = "credit_time"
               THEN \E d \in Day : d <= today + Skew /\ day' = [day EXCEPT ![c] = d]
               ELSE day' = day,
             UNCHANGED agentVars
      PROVE  GrantsKept'
  <2>1. \A b \in Cmd : b # c => ctype'[b] = ctype[b] /\ day'[b] = day[b]
    BY <1>2 DEF TypeOK, DbTypes
  <2>2. ctype'[c] = ty /\ (ty = "credit_time" => day'[c] <= today + Skew)
    BY <1>2 DEF TypeOK, DbTypes
  <2>3. c \notin executed /\ credited[c] = 0 /\ grants[c] = 0
    BY <1>2 DEF RowsKnown, Known, GrantsKept, GrantKept
  <2>. QED
    BY <1>2, <2>1, <2>2, <2>3 DEF GrantsKept, GrantKept, agentVars
<1>. QED
  BY <1>1, <1>2 DEF Enqueue

\* A grant carried out again is not credited again.
LEMMA GrantsHandle ==
    ASSUME TypeOK, GrantsKept, NEW c \in Cmd, HandleCommand(c),
           UNCHANGED <<ctype, day, today>>
    PROVE  GrantsKept'
<1>1. ASSUME NEW b \in Cmd, b # c PROVE GrantKept(b)'
  <2>1. grants'[b] = grants[b] /\ credited'[b] = credited[b] /\ (b \in executed' <=> b \in executed)
    BY <1>1
    DEF HandleCommand, HandleLock, HandleUnlock, HandleCreditTime, HandleOther,
        TypeOK, AgentTypes
  <2>. QED
    BY <1>1, <2>1 DEF GrantsKept, GrantKept
<1>2. GrantKept(c)'
  <2>0. /\ today \in Nat /\ day[c] \in Nat /\ grants[c] \in Nat /\ credited[c] \in Nat
        /\ Skew \in Nat /\ Skew <= 2 /\ today >= 1
    BY BoundsAssumption DEF TypeOK, DbTypes, AgentTypes
  <2>1. CASE ctype[c] # "credit_time"
    BY <2>1 DEF HandleCommand, HandleLock, HandleUnlock, HandleCreditTime, HandleOther,
                GrantsKept, GrantKept
  <2>2. CASE ctype[c] = "credit_time" /\ today <= day[c] /\ grants[c] = 0
    <3>1. credited[c] = 0
      BY <2>0, <2>2 DEF GrantsKept, GrantKept
    <3>2. grants'[c] = today /\ credited'[c] = 1
      BY <2>0, <2>2, <3>1
      DEF HandleCommand, HandleLock, HandleUnlock, HandleCreditTime, HandleOther,
          TypeOK, AgentTypes
    <3>. QED
      BY <2>0, <2>2, <3>2 DEF GrantsKept, GrantKept
  <2>3. CASE ctype[c] = "credit_time" /\ ~ (today <= day[c] /\ grants[c] = 0)
    <3>1. UNCHANGED <<grants, credited>>
      BY <2>3 DEF HandleCommand, HandleLock, HandleUnlock, HandleCreditTime, HandleOther
    <3>. QED
      BY <2>0, <2>3, <3>1 DEF GrantsKept, GrantKept
  <2>. QED
    BY <2>1, <2>2, <2>3
<1>. QED
  BY <1>1, <1>2 DEF GrantsKept

\* A grant's id leaves the record only when its day is over.
LEMMA GrantsRollDay ==
    ASSUME TypeOK, GrantsKept, RollDay
    PROVE  GrantsKept'
<1> SUFFICES ASSUME NEW c \in Cmd PROVE GrantKept(c)'
  BY DEF GrantsKept
<1>1. /\ today \in Nat /\ day[c] \in Nat /\ grants[c] \in Nat /\ Skew \in Nat
      /\ GrantKept(c)
  BY BoundsAssumption DEF TypeOK, DbTypes, AgentTypes, GrantsKept
<1>2. /\ today' = today + 1 /\ grants'[c] = (IF today' - grants[c] <= 2 THEN grants[c] ELSE 0)
      /\ UNCHANGED <<ctype, day, executed, credited>>
  BY DEF RollDay, dbVars
<1>. QED
  BY <1>1, <1>2 DEF GrantKept

\* Every step keeps the record of grants good.
LEMMA GrantsStep ==
    TypeOK /\ RowsKnown /\ GrantsKept /\ [Next]_vars => GrantsKept'
<1> SUFFICES ASSUME TypeOK, RowsKnown, GrantsKept, [Next]_vars PROVE GrantsKept'
  OBVIOUS
<1>1. CASE UNCHANGED vars
  BY <1>1, GrantsUntouched DEF vars, dbVars, agentVars
<1>2. CASE ServerStep
  <2>1. ASSUME \/ \E t \in Task : Push(t) \/ MarkSent(t)
               \/ \E c \in Cmd : Cancel(c) \/ GraceExpires(c)
               \/ \E k \in Chan : \/ PullSelect(k) \/ PullUpdate(k) \/ PullDeliver(k)
                                  \/ ApplyCommandAck(k) \/ MirrorLocked(k) \/ ApplyState(k)
                                  \/ LeaveLoop(k) \/ Unregister(k)
               \/ ServerRestart
        PROVE  GrantsKept'
    BY <2>1, GrantsUntouched
    DEF Push, MarkSent, Cancel, GraceExpires, PullSelect, PullUpdate, PullDeliver,
        ApplyCommandAck, MirrorLocked, ApplyState, LeaveLoop, Unregister,
        ServerRestart, dbVars, agentVars
  <2>2. ASSUME NEW k \in Chan, PullFails(k) PROVE GrantsKept'
    BY <2>2, GrantsUntouched DEF PullFails, dbVars
  <2>. QED
    BY <1>2, <2>1, <2>2, GrantsEnqueue DEF ServerStep
<1>3. CASE AgentStep
  <2>1. ASSUME \/ \E k \in Conn : Connect(k)
               \/ StartPoll \/ Heartbeat \/ LinkLost \/ LinkEnds \/ SendState \/ LocalRecovery
        PROVE  GrantsKept'
    BY <2>1, GrantsUntouched
    DEF Connect, StartPoll, Heartbeat, LinkLost, LinkEnds, LeaveLink, SendState,
        LocalRecovery, dbVars, agentVars
  <2>2. CASE Execute
    <3>1. Head(down[sock]) \in Cmd
      BY <2>2, QueueOps DEF Execute, TypeOK, FrameTypes, AgentTypes
    <3>. QED
      BY <2>2, <3>1, GrantsHandle DEF Execute, dbVars
  <2>3. CASE ExecuteUnheard
    <3>1. 0 \in Chan
      BY BoundsAssumption DEF Chan
    <3>2. Head(down[0]) \in Cmd
      BY <2>3, <3>1, QueueOps DEF ExecuteUnheard, TypeOK, FrameTypes
    <3>. QED
      BY <2>3, <3>2, GrantsHandle DEF ExecuteUnheard, dbVars
  <2>. QED
    BY <1>3, <2>1, <2>2, <2>3, GrantsRollDay DEF AgentStep
<1>. QED
  BY <1>1, <1>2, <1>3 DEF Next

(***************************************************************************)
(* BacklogTaken and LiveSocketIsRegistered.                                *)
(***************************************************************************)

\* A step away from the Hub, the pulls and the statuses keeps BacklogTaken.
LEMMA BacklogUntouched ==
    ASSUME BacklogTaken, UNCHANGED <<hub, handler, status, batch, task>>
    PROVE  BacklogTaken'
BY DEF BacklogTaken, InHand

\* An API request's steps leave no queued row out of hand.
LEMMA BacklogTask ==
    ASSUME TypeOK, BacklogTaken, NEW t \in Task,
           (\E ty \in Types : Enqueue(t, ty)) \/ Push(t) \/ MarkSent(t)
    PROVE  BacklogTaken'
<1>1. CASE \E ty \in Types : Enqueue(t, ty)
  <2>1. PICK ty \in Types : Enqueue(t, ty)
    BY <1>1
  <2>2. PICK c \in Cmd : /\ task' = [task EXCEPT ![t] = [at |-> "push", cmd |-> c]]
                         /\ \A b \in Cmd : b # c => status'[b] = status[b]
    BY <2>1 DEF Enqueue, OpenOf, dbVars, TypeOK, DbTypes
  <2>3. InHand(c)' /\ \A b \in Cmd : InHand(b) => InHand(b)'
    BY <2>1, <2>2 DEF InHand, Enqueue, Idle, TypeOK, ServerTypes, Cmd
  <2>. QED
    BY <2>1, <2>2, <2>3 DEF BacklogTaken, Enqueue
<1>2. CASE Push(t)
  <2>1. CASE HubTakes
    <3>1. \A b \in Cmd : InHand(b) => InHand(b)'
      BY <1>2, <2>1 DEF InHand, Push, Idle, TypeOK, ServerTypes
    <3>. QED
      BY <1>2, <3>1 DEF BacklogTaken, Push, dbVars
  <2>2. CASE ~ HubTakes
    <3>1. hub' = 0 \/ handler'[hub'] \notin Alive
      BY <1>2, <2>2 DEF HubTakes, Push
    <3>. QED
      BY <3>1 DEF BacklogTaken, Alive, Serving
  <2>. QED
    BY <2>1, <2>2
<1>3. CASE MarkSent(t)
  <2>1. \A b \in Cmd : status'[b] = "queued" => status[b] = "queued" /\ b # task[t].cmd
    BY <1>3 DEF MarkSent, TypeOK, DbTypes
  <2>2. \A b \in Cmd : b # task[t].cmd /\ InHand(b) => InHand(b)'
    BY <1>3 DEF InHand, MarkSent, TypeOK, ServerTypes
  <2>. QED
    BY <1>3, <2>1, <2>2 DEF BacklogTaken, MarkSent
<1>. QED
  BY <1>1, <1>2, <1>3

\* Statements that queue nothing keep the backlog taken.
LEMMA BacklogStatus ==
    ASSUME BacklogTaken, UNCHANGED <<hub, handler, batch, task>>,
           \A c \in Cmd : status'[c] = "queued" => status[c] = "queued"
    PROVE  BacklogTaken'
BY DEF BacklogTaken, InHand

\* The pull takes every queued row, and marks what it took.
LEMMA BacklogPull ==
    ASSUME TypeOK, BacklogTaken, NEW k \in Chan,
           PullSelect(k) \/ PullUpdate(k) \/ PullFails(k) \/ PullDeliver(k)
    PROVE  BacklogTaken'
<1>1. CASE PullSelect(k)
  BY <1>1 DEF PullSelect, Pullable, BacklogTaken, InHand, dbVars, TypeOK, ServerTypes
<1>2. CASE PullUpdate(k)
  BY <1>2 DEF PullUpdate, BacklogTaken, InHand, TypeOK, ServerTypes
<1>3. CASE PullFails(k)
  <2>1. handler'[k] \in {"idle", "deaf"} /\ \A j \in Chan : j # k => handler'[j] = handler[j]
    BY <1>3 DEF PullFails, TypeOK, ServerTypes
  <2>2. \A j \in Chan : j # k => batch'[j] = batch[j]
    BY <1>3 DEF PullFails, TypeOK, ServerTypes
  <2>. QED
    BY <1>3, <2>1, <2>2 DEF PullFails, BacklogTaken, InHand, dbVars, TypeOK, ServerTypes
<1>4. CASE PullDeliver(k)
  BY <1>4 DEF PullDeliver, BacklogTaken, InHand, dbVars, TypeOK, ServerTypes
<1>. QED
  BY <1>1, <1>2, <1>3, <1>4

\* A connection that comes or goes owes the backlog nothing.
LEMMA BacklogConnection ==
    ASSUME TypeOK, BacklogTaken,
           \/ \E k \in Chan : LeaveLoop(k) \/ Unregister(k)
           \/ \E k \in Conn : Connect(k)
           \/ ServerRestart \/ Heartbeat
    PROVE  BacklogTaken'
<1>0. Conn \subseteq Chan
  BY BoundsAssumption DEF Conn, Chan
<1>1. ASSUME NEW k \in Chan, LeaveLoop(k) PROVE BacklogTaken'
  BY <1>1 DEF LeaveLoop, BacklogTaken, InHand, dbVars, TypeOK, ServerTypes
<1>2. ASSUME NEW k \in Chan, Unregister(k) PROVE BacklogTaken'
  BY <1>2 DEF Unregister, BacklogTaken, InHand, dbVars, TypeOK, ServerTypes
<1>3. ASSUME NEW k \in Conn, Connect(k) PROVE BacklogTaken'
  BY <1>0, <1>3 DEF Connect, BacklogTaken, TypeOK, ServerTypes
<1>4. CASE ServerRestart
  BY <1>4 DEF ServerRestart, BacklogTaken
<1>5. CASE Heartbeat
  BY <1>5 DEF Heartbeat, BacklogTaken, InHand, dbVars, TypeOK, ServerTypes
<1>. QED
  BY <1>1, <1>2, <1>3, <1>4, <1>5

\* Every step keeps the backlog taken.
LEMMA BacklogStep == TypeOK /\ BacklogTaken /\ [Next]_vars => BacklogTaken'
<1> SUFFICES ASSUME TypeOK, BacklogTaken, [Next]_vars PROVE BacklogTaken'
  OBVIOUS
<1>1. CASE UNCHANGED vars
  BY <1>1, BacklogUntouched DEF vars, dbVars, serverVars
<1>2. CASE ServerStep
  <2>1. ASSUME NEW c \in Cmd, Cancel(c) \/ GraceExpires(c) PROVE BacklogTaken'
    <3>1. \A b \in Cmd : status'[b] = "queued" => status[b] = "queued"
      BY <2>1 DEF Cancel, GraceExpires, TypeOK, DbTypes
    <3>. QED
      BY <2>1, <3>1, BacklogStatus DEF Cancel, GraceExpires, serverVars
  <2>2. ASSUME NEW k \in Chan, ApplyCommandAck(k) PROVE BacklogTaken'
    <3>1. \A b \in Cmd : status'[b] = "queued" => status[b] = "queued"
      BY <2>2 DEF ApplyCommandAck, TypeOK, DbTypes
    <3>. QED
      BY <2>2, <3>1, BacklogStatus DEF ApplyCommandAck
  <2>3. ASSUME NEW k \in Chan, MirrorLocked(k) \/ ApplyState(k) PROVE BacklogTaken'
    BY <2>3, BacklogUntouched DEF MirrorLocked, ApplyState, serverVars
  <2>. QED
    BY <1>2, <2>1, <2>2, <2>3, BacklogTask, BacklogPull, BacklogConnection DEF ServerStep
<1>3. CASE AgentStep
  <2>1. ASSUME StartPoll \/ LinkLost \/ LinkEnds \/ Execute \/ ExecuteUnheard
                 \/ SendState \/ LocalRecovery \/ RollDay
        PROVE  BacklogTaken'
    BY <2>1, BacklogUntouched
    DEF StartPoll, LinkLost, LinkEnds, LeaveLink, Execute, ExecuteUnheard, SendState,
        LocalRecovery, RollDay, dbVars, serverVars
  <2>. QED
    BY <1>3, <2>1, BacklogConnection DEF AgentStep
<1>. QED
  BY <1>1, <1>2, <1>3 DEF Next

\* A step that leaves the Hub and the connections alone, or only turns a
\* served handler into another served one, keeps the socket registered.
LEMMA SocketKept ==
    ASSUME TypeOK, LiveSocketIsRegistered, UNCHANGED <<hub, link, sock>>,
           \A k \in Chan : handler'[k] \in Alive => handler[k] \in Alive
    PROVE  LiveSocketIsRegistered'
BY DEF LiveSocketIsRegistered, TypeOK, AgentTypes

\* Every step keeps the live socket registered.
LEMMA SocketStep ==
    TypeOK /\ LiveSocketIsRegistered /\ [Next]_vars => LiveSocketIsRegistered'
<1> SUFFICES ASSUME TypeOK, LiveSocketIsRegistered, [Next]_vars
             PROVE  LiveSocketIsRegistered'
  OBVIOUS
<1>1. CASE UNCHANGED vars
  BY <1>1, SocketKept DEF vars, serverVars, agentVars
<1>2. CASE ServerStep
  <2>1. ASSUME \/ \E t \in Task : \/ \E ty \in Types : Enqueue(t, ty)
                                  \/ Push(t) \/ MarkSent(t)
               \/ \E c \in Cmd : Cancel(c) \/ GraceExpires(c)
               \/ \E k \in Chan : ApplyCommandAck(k) \/ MirrorLocked(k) \/ ApplyState(k)
        PROVE  LiveSocketIsRegistered'
    BY <2>1, SocketKept
    DEF Enqueue, Push, MarkSent, Cancel, GraceExpires, ApplyCommandAck, MirrorLocked,
        ApplyState, serverVars, agentVars
  <2>2. ASSUME NEW k \in Chan, PullSelect(k) \/ PullUpdate(k) \/ PullDeliver(k) \/ LeaveLoop(k)
        PROVE  LiveSocketIsRegistered'
    <3>1. \A j \in Chan : handler'[j] \in Alive => handler[j] \in Alive
      BY <2>2 DEF PullSelect, PullUpdate, PullDeliver, LeaveLoop, Alive, Serving,
                  TypeOK, ServerTypes
    <3>. QED
      BY <2>2, <3>1, SocketKept
      DEF PullSelect, PullUpdate, PullDeliver, LeaveLoop, agentVars
  <2>3. ASSUME NEW k \in Chan, PullFails(k) PROVE LiveSocketIsRegistered'
    <3>1. \A j \in Chan : handler'[j] \in Alive => handler[j] \in Alive
      BY <2>3 DEF PullFails, Alive, Serving, TypeOK, ServerTypes
    <3>. QED
      BY <2>3, <3>1 DEF PullFails, LiveSocketIsRegistered, TypeOK, AgentTypes
  <2>4. ASSUME NEW k \in Chan, Unregister(k) PROVE LiveSocketIsRegistered'
    BY <2>4 DEF Unregister, LiveSocketIsRegistered, Alive, Serving, agentVars,
                TypeOK, ServerTypes, AgentTypes
  <2>5. CASE ServerRestart
    BY <2>5 DEF ServerRestart, LiveSocketIsRegistered, Alive, Serving, agentVars,
                TypeOK, AgentTypes
  <2>. QED
    BY <1>2, <2>1, <2>2, <2>3, <2>4, <2>5 DEF ServerStep
<1>3. CASE AgentStep
  <2>1. ASSUME Execute \/ ExecuteUnheard \/ SendState \/ LocalRecovery \/ RollDay
        PROVE  LiveSocketIsRegistered'
    BY <2>1, SocketKept
    DEF Execute, ExecuteUnheard, SendState, LocalRecovery, RollDay, serverVars, agentVars
  <2>2. ASSUME StartPoll \/ Heartbeat \/ LinkLost \/ LinkEnds PROVE link' # "ws"
    BY <2>2 DEF StartPoll, Heartbeat, LinkLost, LinkEnds, LeaveLink, agentVars
  <2>3. ASSUME NEW k \in Conn, Connect(k) PROVE LiveSocketIsRegistered'
    BY <2>3 DEF Connect, LiveSocketIsRegistered
  <2>. QED
    BY <1>3, <2>1, <2>2, <2>3 DEF AgentStep, LiveSocketIsRegistered
<1>. QED
  BY <1>1, <1>2, <1>3 DEF Next

(***************************************************************************)
(* The theorems.                                                           *)
(***************************************************************************)

\* The invariant is inductive.
LEMMA IInvStep == IInv /\ [Next]_vars => IInv'
BY TypeStep, RowsStep, AnswersStep, GrantsStep, BacklogStep, SocketStep DEF IInv

\* Every reachable state satisfies the inductive invariant.
THEOREM Invariance == Spec => []IInv
BY IInvInit, IInvStep, PTL DEF Spec

\* However often a grant is redelivered, the agent credits it once.
THEOREM GrantsCreditedOnce == Spec => []CreditedOnce
<1>1. IInv => CreditedOnce
  BY DEF IInv, GrantsKept, GrantKept, CreditedOnce
<1>. QED
  BY <1>1, Invariance, PTL

\* A grant the console shows as done was counted, or came after its day.
THEOREM AckedGrantsCounted == Spec => []AckedGrantCounted
<1>1. IInv => AckedGrantCounted
  BY DEF IInv, AnswersEarned, SettledWasExecuted, GrantsKept, GrantKept, AckedGrantCounted
<1>. QED
  BY <1>1, Invariance, PTL

\* No row is acked or failed unless the agent carried the command out.
THEOREM SettledWereExecuted == Spec => []SettledWasExecuted
<1>1. IInv => SettledWasExecuted
  BY DEF IInv, AnswersEarned
<1>. QED
  BY <1>1, Invariance, PTL

\* The teardown of an older connection never evicts the live one.
THEOREM LiveSocketsRegistered == Spec => []LiveSocketIsRegistered
<1>1. IInv => LiveSocketIsRegistered
  BY DEF IInv
<1>. QED
  BY <1>1, Invariance, PTL

\* A connection that handed over its backlog leaves nothing queued but what
\* an API request is about to push, though an older one is torn down beside it.
THEOREM NothingStranded == Spec => []NoStrandedQueued
<1>1. IInv => NoStrandedQueued
  <2> SUFFICES ASSUME IInv, NEW k \in Conn, handler[k] = "serve",
                      hub = k \/ (link = "ws" /\ sock = k),
                      NEW c \in Cmd, status[c] = "queued"
               PROVE  InHand(c)
    BY DEF InHand, NoStrandedQueued
  <2>1. hub = k /\ k # 0
    BY BoundsAssumption DEF IInv, LiveSocketIsRegistered, Alive, Serving, Conn
  <2> QED
    BY <2>1 DEF IInv, BacklogTaken
<1>. QED
  BY <1>1, Invariance, PTL

\* A settled row is reopened by nothing but the UPDATE of a pull.
THEOREM OnlyPullsReopen == Spec => ReopenedByPullOnly
<1> DEFINE Reopened == \A c \in Cmd : status[c] \in Settled /\ status'[c] \notin Settled =>
                          \E k \in Chan : handler[k] = "update" /\ c \in batch[k]
<1>1. IInv /\ [Next]_vars => [Reopened]_vars
  <2> SUFFICES ASSUME IInv, Next PROVE Reopened
    OBVIOUS
  <2>0. TypeOK /\ RowsKnown
    BY DEF IInv
  <2> USE DEF Settled
  <2>1. ASSUME NEW t \in Task, (\E ty \in Types : Enqueue(t, ty)) \/ MarkSent(t)
        PROVE  Reopened
    BY <2>0, <2>1 DEF Enqueue, MarkSent, RowsKnown, Known, dbVars, TypeOK, DbTypes
  <2>2. ASSUME NEW c \in Cmd, Cancel(c) PROVE Reopened
    BY <2>0, <2>2 DEF Cancel, TypeOK, DbTypes
  <2>3. ASSUME NEW k \in Chan, PullUpdate(k) PROVE Reopened
    BY <2>0, <2>3 DEF PullUpdate
  <2>4. ASSUME NEW k \in Chan, ApplyCommandAck(k) PROVE Reopened
    BY <2>0, <2>4 DEF ApplyCommandAck, TypeOK, DbTypes
  <2>5. ASSUME UNCHANGED status PROVE Reopened
    BY <2>5
  <2>6. ASSUME \/ \E t \in Task : Push(t)
               \/ \E c \in Cmd : GraceExpires(c)
               \/ \E k \in Chan : \/ PullSelect(k) \/ PullFails(k) \/ PullDeliver(k)
                                  \/ MirrorLocked(k) \/ ApplyState(k)
                                  \/ LeaveLoop(k) \/ Unregister(k)
               \/ ServerRestart
        PROVE  UNCHANGED status
    BY <2>6 DEF Push, GraceExpires, PullSelect, PullFails, PullDeliver, MirrorLocked,
                ApplyState, LeaveLoop, Unregister, ServerRestart, dbVars
  <2>7. AgentStep => UNCHANGED status
    BY DEF AgentStep, Connect, StartPoll, Heartbeat, LinkLost, LinkEnds, LeaveLink,
           Execute, ExecuteUnheard, SendState, LocalRecovery, RollDay, dbVars
  <2> HIDE DEF Reopened
  <2>. QED
    BY <2>1, <2>2, <2>3, <2>4, <2>5, <2>6, <2>7 DEF Next, ServerStep
<1>. QED
  BY <1>1, Invariance, PTL DEF Spec, ReopenedByPullOnly

(***************************************************************************)
(* The refinement of QueuePromise: one step of the queue is one step of    *)
(* what it promises, or none that can be seen.                             *)
(***************************************************************************)

\* What the console says of a row: QueuePromise's answer.
Answer == [c \in Cmd |-> IF status[c] \in Open THEN "open" ELSE status[c]]

\* A step that keeps rows, statuses and what was carried out shows nothing.
LEMMA PromiseUntouched ==
    ASSUME UNCHANGED <<ctype, status, executed, credited>>
    PROVE  UNCHANGED Abstract!promiseVars
BY DEF Abstract!promiseVars

\* An upsert asks for a command, or finds it asked for.
LEMMA PromiseEnqueue ==
    ASSUME TypeOK, NEW t \in Task, NEW ty \in Types, Enqueue(t, ty)
    PROVE  (\E c \in Cmd : Abstract!Want(c)) \/ UNCHANGED Abstract!promiseVars
<1>1. CASE UNCHANGED dbVars
  BY <1>1, PromiseUntouched DEF Enqueue, dbVars, agentVars
<1>2. ASSUME NEW c \in Cmd, ctype[c] = "none",
             ctype' = [ctype EXCEPT ![c] = ty], status' = [status EXCEPT ![c] = "queued"],
             UNCHANGED <<executed, credited>>
      PROVE  Abstract!Want(c)
  <2>1. ty # "none"
    BY BoundsAssumption DEF CoalesceTypes
  <2>2. Known' = Known \cup {c} /\ c \notin Known
    BY <1>2, <2>1 DEF Known, TypeOK, DbTypes
  <2>3. Answer' = [Answer EXCEPT ![c] = "open"]
    BY <1>2 DEF Answer, Open, TypeOK, DbTypes
  <2>. QED
    BY <1>2, <2>2, <2>3 DEF Abstract!Want, Known, Answer
<1>. QED
  BY <1>1, <1>2 DEF Enqueue, agentVars

\* A row that is cancelled or acked settles, the latter because the agent
\* carried it out; an ack of a settled row does nothing.
LEMMA PromiseSettle ==
    ASSUME TypeOK, AnswersEarned,
           (\E c \in Cmd : Cancel(c)) \/ (\E k \in Chan : ApplyCommandAck(k))
    PROVE  \/ \E c \in Cmd : \E a \in {"acked", "failed", "cancelled"} : Abstract!Settle(c, a)
           \/ UNCHANGED Abstract!promiseVars
<1>1. ASSUME NEW c \in Cmd, NEW a \in {"acked", "failed", "cancelled"},
             status[c] \in Open, a \in {"acked", "failed"} => c \in executed,
             status' = [status EXCEPT ![c] = a],
             UNCHANGED <<ctype, executed, credited>>
      PROVE  Abstract!Settle(c, a)
  <2>1. Answer[c] = "open" /\ Answer' = [Answer EXCEPT ![c] = a]
    BY <1>1 DEF Answer, Open, TypeOK, DbTypes
  <2>. QED
    BY <1>1, <2>1 DEF Abstract!Settle, Answer
<1>2. ASSUME NEW c \in Cmd, Cancel(c) PROVE Abstract!Settle(c, "cancelled")
  BY <1>1, <1>2 DEF Cancel, agentVars
<1>3. ASSUME NEW k \in Chan, ApplyCommandAck(k)
      PROVE  \/ \E c \in Cmd : \E a \in {"acked", "failed"} : Abstract!Settle(c, a)
             \/ UNCHANGED Abstract!promiseVars
  <2> DEFINE f == Head(up[k])
  <2>1. f \in Earned
    BY <1>3, QueueOps DEF ApplyCommandAck, Reads, AnswersEarned
  <2>2. f.kind = "ack" /\ f.cmd \in Cmd /\ f.cmd \in executed
    BY <1>3, <2>1 DEF ApplyCommandAck, Earned, Frame
  <2>3. CASE status[f.cmd] \notin Open
    BY <1>3, <2>3, PromiseUntouched DEF ApplyCommandAck, agentVars
  <2>4. CASE status[f.cmd] \in Open
    <3>1. PICK a \in {"acked", "failed"} : status' = [status EXCEPT ![f.cmd] = a]
      BY <1>3, <2>4 DEF ApplyCommandAck
    <3>2. Abstract!Settle(f.cmd, a)
      BY <1>1, <1>3, <2>2, <2>4, <3>1 DEF ApplyCommandAck, agentVars
    <3>. QED
      BY <2>2, <3>2
  <2>. QED
    BY <2>3, <2>4
<1>. QED
  BY <1>2, <1>3

\* The `sent` mark of a push shows nothing: a queued row was open before.
LEMMA PromiseMarkSent ==
    ASSUME TypeOK, NEW t \in Task, MarkSent(t)
    PROVE  UNCHANGED Abstract!promiseVars
<1>1. Answer' = Answer
  BY DEF MarkSent, Answer, Open, TypeOK, DbTypes
<1>. QED
  BY <1>1 DEF MarkSent, Abstract!promiseVars, Answer, agentVars

\* The UPDATE of a pull reopens its batch, whatever became of the rows since.
LEMMA PromisePull ==
    ASSUME TypeOK, RowsKnown, NEW k \in Chan, PullUpdate(k)
    PROVE  \E cs \in SUBSET Cmd : Abstract!Reopen(cs)
<1>1. batch[k] \in SUBSET Cmd /\ batch[k] \subseteq Known
  BY DEF TypeOK, ServerTypes, RowsKnown
<1>2. Answer' = [c \in Cmd |-> IF c \in batch[k] THEN "open" ELSE Answer[c]]
  BY DEF PullUpdate, Answer, Open, TypeOK, DbTypes
<1>3. Abstract!Reopen(batch[k])
  BY <1>1, <1>2 DEF PullUpdate, Abstract!Reopen, Answer, Known, agentVars
<1>. QED
  BY <1>1, <1>3 DEF Abstract!Reopen

\* The agent carries out only what was asked for, and credits a grant only
\* when it never did before.
LEMMA PromiseExecute ==
    ASSUME TypeOK, RowsKnown, GrantsKept, Execute \/ ExecuteUnheard
    PROVE  \E c \in Cmd : Abstract!CarryOut(c)
<1>0. sock \in Chan /\ 0 \in Chan
  BY BoundsAssumption DEF TypeOK, AgentTypes, Chan
<1>1. PICK c \in Known : HandleCommand(c)
  BY <1>0, QueueOps DEF Execute, ExecuteUnheard, RowsKnown
<1>2. credited' \in {credited, [credited EXCEPT ![c] = 1]}
  <2>1. CASE UNCHANGED credited
    BY <2>1
  <2>2. CASE HandleCreditTime(c) /\ today <= day[c] /\ grants[c] = 0
    <3>1. credited[c] \in Nat /\ today \in Nat /\ day[c] \in Nat /\ c \in Cmd
      BY <1>1 DEF TypeOK, AgentTypes, DbTypes, Known
    <3>2. credited[c] <= 1 /\ (credited[c] = 1 => day[c] < today)
      BY <2>2, <3>1 DEF GrantsKept, GrantKept
    <3>3. credited[c] = 0
      BY <2>2, <3>1, <3>2
    <3>. QED
      BY <2>2, <3>3 DEF HandleCreditTime
  <2>. QED
    BY <1>1, <2>1, <2>2
    DEF HandleCommand, HandleLock, HandleUnlock, HandleCreditTime, HandleOther
<1>3. UNCHANGED <<ctype, status>>
  BY DEF Execute, ExecuteUnheard, dbVars
<1>4. executed' = executed \cup {c}
  BY <1>1 DEF HandleCommand
<1>5. c \in Cmd /\ Abstract!CarryOut(c)
  BY <1>1, <1>2, <1>3, <1>4 DEF Abstract!CarryOut, Known
<1>. QED
  BY <1>5

\* Every step of the queue is a step of its promise, or shows nothing.
LEMMA PromiseStep ==
    IInv /\ [Next]_vars => [Abstract!PromiseNext]_Abstract!promiseVars
<1> SUFFICES ASSUME IInv, [Next]_vars
             PROVE  Abstract!PromiseNext \/ UNCHANGED Abstract!promiseVars
  OBVIOUS
<1>0. TypeOK /\ RowsKnown /\ AnswersEarned /\ GrantsKept
  BY DEF IInv
<1>1. ASSUME UNCHANGED vars PROVE UNCHANGED Abstract!promiseVars
  BY <1>1, PromiseUntouched DEF vars, dbVars, agentVars
<1>2. ASSUME \/ \E t \in Task : Push(t)
             \/ \E c \in Cmd : GraceExpires(c)
             \/ \E k \in Chan : \/ PullSelect(k) \/ PullFails(k) \/ PullDeliver(k)
                                \/ MirrorLocked(k) \/ ApplyState(k)
                                \/ LeaveLoop(k) \/ Unregister(k)
             \/ ServerRestart
      PROVE  UNCHANGED Abstract!promiseVars
  BY <1>2, PromiseUntouched
  DEF Push, GraceExpires, PullSelect, PullFails, PullDeliver, MirrorLocked, ApplyState,
      LeaveLoop, Unregister, ServerRestart, dbVars, agentVars
<1>3. ASSUME \/ \E k \in Conn : Connect(k)
             \/ StartPoll \/ Heartbeat \/ LinkLost \/ LinkEnds
             \/ SendState \/ LocalRecovery \/ RollDay
      PROVE  UNCHANGED Abstract!promiseVars
  BY <1>3, PromiseUntouched
  DEF Connect, StartPoll, Heartbeat, LinkLost, LinkEnds, LeaveLink, SendState,
      LocalRecovery, RollDay, dbVars, agentVars
<1>4. CASE ServerStep
  BY <1>0, <1>2, <1>4, PromiseEnqueue, PromiseSettle, PromiseMarkSent, PromisePull
  DEF ServerStep, Abstract!PromiseNext
<1>5. CASE AgentStep
  BY <1>0, <1>3, <1>5, PromiseExecute DEF AgentStep, Abstract!PromiseNext
<1>. QED
  BY <1>1, <1>4, <1>5 DEF Next

\* The queue implements its promise: what the day and the earn requests take
\* of it holds of the rows, sockets, heartbeats, acks, crashes and restarts.
THEOREM PromiseKept == Spec => QueuePromised
<1>1. Init => Abstract!PromiseInit
  <2> SUFFICES ASSUME Init PROVE Abstract!PromiseInit
    OBVIOUS
  <2>1. Answer = [c \in Cmd |-> "none"]
    BY DEF Init, Answer, Open
  <2>. QED
    BY <2>1 DEF Init, Answer, Abstract!PromiseInit
<1>. QED
  BY <1>1, PromiseStep, Invariance, PTL DEF Spec, QueuePromised, Abstract!Promise
=============================================================================
