--------------------------- MODULE QueuePromise ---------------------------
(***************************************************************************)
(* What the command queue promises to everyone who puts something in it,   *)
(* and all that PersonDay and EarnRequests take of it: a command that was  *)
(* asked for may be carried out late, more than once or never, a grant is  *)
(* counted at most once, and an answer is about something that was done.   *)
(***************************************************************************)
EXTENDS Naturals

CONSTANT Cmd

VARIABLES
    wanted,    \* commands someone asked for
    carried,   \* those the computer carried out at least once
    counted,   \* times each was counted as time
    answer     \* what the console says of each

Answers == {"none", "open", "acked", "failed", "cancelled"}

PromiseInit ==
    /\ wanted = {} /\ carried = {}
    /\ counted = [c \in Cmd |-> 0]
    /\ answer = [c \in Cmd |-> "none"]

Want(c) ==
    /\ c \notin wanted
    /\ wanted' = wanted \cup {c}
    /\ answer' = [answer EXCEPT ![c] = "open"]
    /\ UNCHANGED <<carried, counted>>

\* The computer carries out what was asked, however often it is told to; it
\* counts a grant the first time, or finds its day over.
CarryOut(c) ==
    /\ c \in wanted
    /\ carried' = carried \cup {c}
    /\ counted' \in {counted, [counted EXCEPT ![c] = 1]}
    /\ UNCHANGED <<wanted, answer>>

\* A command is answered for once it was carried out, or withdrawn unanswered.
Settle(c, a) ==
    /\ answer[c] = "open"
    /\ a \in {"acked", "failed"} => c \in carried
    /\ answer' = [answer EXCEPT ![c] = a]
    /\ UNCHANGED <<wanted, carried, counted>>

\* A delivery that was on its way meanwhile takes answers back.
Reopen(cs) ==
    /\ cs \subseteq wanted
    /\ answer' = [c \in Cmd |-> IF c \in cs THEN "open" ELSE answer[c]]
    /\ UNCHANGED <<wanted, carried, counted>>

PromiseNext ==
    \/ \E c \in Cmd : \/ Want(c) \/ CarryOut(c)
                      \/ \E a \in {"acked", "failed", "cancelled"} : Settle(c, a)
    \/ \E cs \in SUBSET Cmd : Reopen(cs)

promiseVars == <<wanted, carried, counted, answer>>
Promise == PromiseInit /\ [][PromiseNext]_promiseVars
=============================================================================
